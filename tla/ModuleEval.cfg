CONSTANTS
  ma = ma  mb = mb  mc = mc  md = md
  Modules = {ma, mb, mc, md}
  Graphs <- TestGraphs
  MaxEvals = 2
SPECIFICATION Spec
INVARIANTS EngineAsserts DependenciesFirst PromisesSettled
CHECK_DEADLOCK FALSE
