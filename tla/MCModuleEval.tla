---------------------------- MODULE MCModuleEval ----------------------------
EXTENDS ModuleEval
CONSTANTS ma, mb, mc, md

\* The graph in which ma imports a, mb imports b, and so on.
ToGraph(a, b, c, d) ==
  [m \in Modules |-> CASE m = ma -> a [] m = mb -> b [] m = mc -> c [] m = md -> d]

\* Import graphs of three modules; md is left out of them.
ThreeGraphs ==
  {ToGraph(a, b, c, <<>>) :
     a \in {<<>>, <<mb>>, <<mc>>, <<mb, mc>>, <<mc, mb>>},
     b \in {<<>>, <<ma>>, <<mc>>, <<ma, mc>>, <<mc, ma>>},
     c \in {<<>>, <<ma>>, <<mb>>, <<ma, mb>>}}

\* A diamond from ma by mb and mc to md, some with edges back that close cycles in it.
Diamonds ==
  {ToGraph(<<mb, mc>>, b, c, d) :
     b \in {<<md>>, <<md, ma>>, <<ma, md>>},
     c \in {<<md>>, <<mb, md>>, <<md, mb>>},
     d \in {<<>>, <<mb>>, <<ma>>}}

TestGraphs == ThreeGraphs \cup Diamonds
=============================================================================
