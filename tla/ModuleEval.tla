----------------------------- MODULE ModuleEval -----------------------------
(***************************************************************************)
(* Evaluation of ECMAScript modules: js_evaluate_module walks the imports  *)
(* depth first (js_inner_module_evaluation), finds their cycles with the   *)
(* stack of Tarjan's algorithm and runs the bodies.  A module with a top-  *)
(* level await runs on in jobs, together with those that wait for it       *)
(* (js_async_module_execution_fulfilled and _rejected).                    *)
(*                                                                         *)
(* A body returns or throws; an asynchronous one does so in a later job.   *)
(* The walk is cut into the calls and returns of the recursion, so that    *)
(* the C stack is a sequence of frames.                                    *)
(***************************************************************************)
EXTENDS Integers, Sequences, SequencesExt, FiniteSets, FiniteSetsExt

CONSTANTS
  Modules,       \* modules of the program, all linked
  Graphs,        \* import graphs: functions from Modules to sequences of Modules
  MaxEvals       \* bound: calls of js_evaluate_module (the script, import())

ASSUME ModuleEvalAssumption ==
  /\ IsFiniteSet(Modules)
  /\ \A g \in Graphs : \A m \in Modules : \A i \in 1..Len(g[m]) : g[m][i] \in Modules
  /\ MaxEvals \in Nat

None == "none"

VARIABLES
  imports,       \* req_module_entries of each module
  hasTla,        \* modules with has_tla
  status,        \* m->status
  failed,        \* modules with eval_has_exception
  async,         \* modules with async_evaluation
  stamp,         \* async_evaluation_timestamp
  pending,       \* pending_async_dependencies
  parents,       \* async_parent_modules
  root,          \* cycle_root
  promise,       \* state of m->promise
  current,       \* the argument of js_evaluate_module
  calls,         \* the frames of js_inner_module_evaluation: module, next import
  ret,           \* what the frame that was left returned
  index, dfs, low,  \* index, dfs_index, dfs_ancestor_index
  stack,         \* the modules linked by stack_prev
  execList,      \* exec_list, what is left of it
  clock,         \* module_async_evaluation_next_timestamp
  body,          \* the body of m: not started, runs, done, threw
  starts,        \* history: how often the body was started
  evals          \* number of evaluations so far

graphVars == <<imports, hasTla>>
walkVars == <<current, calls, ret, index, dfs, low, stack>>
asyncVars == <<async, stamp, clock, pending, parents>>
bodyVars == <<body, starts>>
vars == <<graphVars, status, failed, asyncVars, root, promise, walkVars, execList,
          bodyVars, evals>>

Init ==
  /\ imports \in Graphs
  /\ hasTla \in SUBSET Modules
  /\ status = [m \in Modules |-> "linked"]
  /\ failed = {} /\ async = {}
  /\ stamp = [m \in Modules |-> 0] /\ clock = 1
  /\ pending = [m \in Modules |-> 0]
  /\ parents = [m \in Modules |-> <<>>]
  /\ root = [m \in Modules |-> None]
  /\ promise = [m \in Modules |-> None]
  /\ current = None /\ calls = <<>> /\ ret = None
  /\ index = 0
  /\ dfs = [m \in Modules |-> 0] /\ low = [m \in Modules |-> 0]
  /\ stack = <<>> /\ execList = <<>>
  /\ body = [m \in Modules |-> "no"]
  /\ starts = [m \in Modules |-> 0]
  /\ evals = 0
-----------------------------------------------------------------------------
Top == Last(calls)
ToFrame(next) == [calls EXCEPT ![Len(calls)].next = next]
Idle == current = None /\ execList = <<>>
Evaluated == {m \in Modules : status[m] = "evaluated"}

\* js_evaluate_module, up to the call of js_inner_module_evaluation.  With a promise
\* already there it returns that one, and nothing changes.
Evaluate(m) ==
  LET r == IF status[m] \in {"async", "evaluated"} THEN root[m] ELSE m IN
  /\ Idle /\ evals < MaxEvals
  /\ promise[r] = None
  /\ promise' = [promise EXCEPT ![r] = "pending"]
  /\ current' = r
  /\ calls' = <<[mod |-> r, next |-> 0]>>
  /\ evals' = evals + 1
  /\ UNCHANGED <<graphVars, status, failed, asyncVars, root, ret, index, dfs, low,
                 stack, execList, bodyVars>>

\* js_inner_module_evaluation: the module is visited for the first time ...
Enter ==
  LET m == Top.mod IN
  /\ calls # <<>> /\ ret = None /\ Top.next = 0
  /\ status[m] = "linked"
  /\ status' = [status EXCEPT ![m] = "evaluating"]
  /\ dfs' = [dfs EXCEPT ![m] = index]
  /\ low' = [low EXCEPT ![m] = index]
  /\ index' = index + 1
  /\ pending' = [pending EXCEPT ![m] = 0]
  /\ stack' = Append(stack, m)
  /\ calls' = ToFrame(1)
  /\ UNCHANGED <<graphVars, failed, async, stamp, clock, parents, root, promise,
                 current, ret, execList, bodyVars, evals>>

\* ... or it is on the way, or has been evaluated before
Known ==
  LET m == Top.mod IN
  /\ calls # <<>> /\ ret = None /\ Top.next = 0
  /\ status[m] # "linked"
  /\ calls' = Front(calls)
  /\ ret' = IF m \in failed THEN "fail" ELSE "ok"
  /\ UNCHANGED <<graphVars, status, failed, asyncVars, root, promise, current, index,
                 dfs, low, stack, execList, bodyVars, evals>>

\* The recursive call for the next import.
CallImport ==
  /\ calls # <<>> /\ ret = None
  /\ Top.next \in 1..Len(imports[Top.mod])
  /\ calls' = Append(calls, [mod |-> imports[Top.mod][Top.next], next |-> 0])
  /\ UNCHANGED <<graphVars, status, failed, asyncVars, root, promise, current, ret,
                 index, dfs, low, stack, execList, bodyVars, evals>>

\* (faulty variant: the imported module itself is asked, not the root of its cycle)
Awaited_NoRoot(m1) == m1

\* The module to wait for: the imported one while it is on the stack, the root of
\* its cycle once it is not.
Awaited(m1) == IF status[m1] = "evaluating" THEN m1 ELSE root[m1]

\* The call for an import returns: note the cycle, or the module to wait for.
ImportReturns ==
  LET m == Top.mod
      m1 == imports[m][Top.next]
      d == Awaited(m1)
  IN
  /\ calls # <<>> /\ ret = "ok"
  /\ d \notin failed
  /\ low' = IF status[m1] = "evaluating"
            THEN [low EXCEPT ![m] = Min({@, low[m1]})] ELSE low
  /\ pending' = IF d \in async THEN [pending EXCEPT ![m] = @ + 1] ELSE pending
  /\ parents' = IF d \in async THEN [parents EXCEPT ![d] = Append(@, m)] ELSE parents
  /\ calls' = ToFrame(Top.next + 1)
  /\ ret' = None
  /\ UNCHANGED <<graphVars, status, failed, async, stamp, clock, root, promise,
                 current, index, dfs, stack, execList, bodyVars, evals>>

\* The call fails, or the import belongs to a cycle that has failed: return -1.
ImportFails ==
  /\ calls # <<>>
  /\ \/ ret = "fail"
     \/ ret = "ok" /\ Awaited(imports[Top.mod][Top.next]) \in failed
  /\ calls' = Front(calls)
  /\ ret' = "fail"
  /\ UNCHANGED <<graphVars, status, failed, asyncVars, root, promise, current, index,
                 dfs, low, stack, execList, bodyVars, evals>>
-----------------------------------------------------------------------------
\* The modules on the stack from m on: the cycle that m is the root of.
FromStack(m) == {stack[i] : i \in {j \in 1..Len(stack) :
                                     \E k \in 1..j : stack[k] = m}}

\* js_inner_module_evaluation, the end: the root of a cycle takes it off the stack.
PopCycle(m, waiting) ==
  IF dfs[m] # low[m] THEN UNCHANGED <<stack, status, root>>
  ELSE LET C == FromStack(m) IN
       /\ stack' = SelectSeq(stack, LAMBDA x : x \notin C)
       /\ root' = [x \in Modules |-> IF x \in C THEN m ELSE root[x]]
       /\ status' = [x \in Modules |->
                       IF x \notin C THEN status[x]
                       ELSE IF x \in waiting THEN "async" ELSE "evaluated"]

\* The body of m is started and is then in state s.
StartBody(m, s) ==
  /\ body' = [body EXCEPT ![m] = s]
  /\ starts' = [starts EXCEPT ![m] = @ + 1]

AllImportsSeen == calls # <<>> /\ ret = None /\ Top.next = Len(imports[Top.mod]) + 1

\* All imports are there: m waits for some of them, or has a top-level await
\* itself (js_execute_async_module) ...
BecomesAsync ==
  LET m == Top.mod IN
  /\ AllImportsSeen
  /\ pending[m] > 0 \/ m \in hasTla
  /\ async' = async \cup {m}
  /\ stamp' = [stamp EXCEPT ![m] = clock] /\ clock' = clock + 1
  /\ \/ pending[m] > 0 /\ UNCHANGED bodyVars
     \/ pending[m] = 0 /\ StartBody(m, "runs")
  /\ PopCycle(m, async')
  /\ calls' = Front(calls) /\ ret' = "ok"
  /\ UNCHANGED <<graphVars, failed, pending, parents, promise, current, index, dfs,
                 low, execList, evals>>

\* ... or it is run at once (js_execute_sync_module) and returns ...
RunsAtOnce ==
  LET m == Top.mod IN
  /\ AllImportsSeen
  /\ pending[m] = 0 /\ m \notin hasTla
  /\ StartBody(m, "done")
  /\ PopCycle(m, async)
  /\ calls' = Front(calls) /\ ret' = "ok"
  /\ UNCHANGED <<graphVars, failed, asyncVars, promise, current, index, dfs, low,
                 execList, evals>>

\* ... or throws
ThrowsAtOnce ==
  LET m == Top.mod IN
  /\ AllImportsSeen
  /\ pending[m] = 0 /\ m \notin hasTla
  /\ StartBody(m, "threw")
  /\ calls' = Front(calls) /\ ret' = "fail"
  /\ UNCHANGED <<graphVars, status, failed, asyncVars, root, promise, current, index,
                 dfs, low, stack, execList, evals>>

\* js_evaluate_module returns; its locals go.
Return ==
  /\ current # None /\ calls = <<>>
  /\ current' = None /\ ret' = None
  /\ index' = 0
  /\ dfs' = [m \in Modules |-> 0] /\ low' = [m \in Modules |-> 0]
  /\ stack' = <<>>
  /\ UNCHANGED <<graphVars, asyncVars, calls, execList, bodyVars, evals>>

EvaluateDone ==
  /\ ret = "ok" /\ Return
  /\ promise' = IF current \in async THEN promise
                ELSE [promise EXCEPT ![current] = "fulfilled"]
  /\ UNCHANGED <<status, failed, root>>

\* All modules still on the stack fail.
EvaluateFails ==
  /\ ret = "fail" /\ Return
  /\ status' = [m \in Modules |-> IF Contains(stack, m) THEN "evaluated" ELSE status[m]]
  /\ failed' = failed \cup ToSet(stack)
  /\ root' = [m \in Modules |-> IF Contains(stack, m) THEN current ELSE root[m]]
  /\ promise' = [promise EXCEPT ![current] = "rejected"]
-----------------------------------------------------------------------------
(***************************************************************************)
(* What runs in jobs.                                                      *)
(***************************************************************************)
\* A promise that was asked for (m->promise) is settled.
SettlePromises(S, s) ==
  promise' = [m \in Modules |-> IF m \in S /\ promise[m] # None THEN s ELSE promise[m]]

\* How many entries of the parents of S are m.
Entries(S, m) ==
  Cardinality({e \in UNION {{c} \X (1..Len(parents[c])) : c \in S} :
                 parents[e[1]][e[2]] = m})

\* (faulty variant: the recursion goes on through modules with a top-level await)
Available_ThroughTla(module) ==
  LET grow[n \in 0..Cardinality(Modules)] ==
        IF n = 0 THEN {}
        ELSE {m \in Modules : /\ root[m] \notin failed
                              /\ Entries({module} \cup grow[n - 1], m) > 0
                              /\ Entries({module} \cup grow[n - 1], m) = pending[m]}
  IN grow[Cardinality(Modules)]

\* gather_available_ancestors: the modules that wait for nothing else, and those
\* that wait only for such modules without a top-level await.
Available(module) ==
  LET grow[n \in 0..Cardinality(Modules)] ==
        IF n = 0 THEN {}
        ELSE LET done == {module} \cup (grow[n - 1] \ hasTla) IN
             {m \in Modules : /\ root[m] \notin failed
                              /\ Entries(done, m) > 0
                              /\ Entries(done, m) = pending[m]}
  IN grow[Cardinality(Modules)]

\* js_async_module_execution_fulfilled, up to the loop over exec_list
Fulfilled(module) ==
  LET ready == Available(module)
      done == {module} \cup (ready \ hasTla)
  IN
  /\ async' = async \ {module}
  /\ status' = [status EXCEPT ![module] = "evaluated"]
  /\ SettlePromises({module}, "fulfilled")
  /\ pending' = [m \in Modules |->
                   IF root[m] \in failed THEN pending[m] ELSE pending[m] - Entries(done, m)]
  /\ execList' = SetToSortSeq(ready, LAMBDA x, y : stamp[x] < stamp[y])
  /\ UNCHANGED <<failed, stamp, clock, parents>>

\* (faulty variant: the modules that wait for it are not told)
Rejected_NotParents(module) ==
  /\ failed' = failed \cup {module}
  /\ status' = [status EXCEPT ![module] = "evaluated"]
  /\ async' = async \ {module}
  /\ SettlePromises({module}, "rejected")
  /\ UNCHANGED <<stamp, clock, pending, parents>>

\* js_async_module_execution_rejected: module fails, and all that wait for it
Rejected(module) ==
  LET grow[n \in 0..Cardinality(Modules)] ==
        IF n = 0 THEN {module}
        ELSE grow[n - 1] \cup {p \in Modules \ Evaluated :
                                 \E c \in grow[n - 1] : Contains(parents[c], p)}
      R == grow[Cardinality(Modules)]
  IN
  /\ failed' = failed \cup R
  /\ status' = [m \in Modules |-> IF m \in R THEN "evaluated" ELSE status[m]]
  /\ async' = async \ R
  /\ SettlePromises(R, "rejected")
  /\ UNCHANGED <<stamp, clock, pending, parents>>

\* An asynchronous body ends and its promise calls the function given to then().
BodyReturns(m) ==
  /\ Idle /\ body[m] = "runs"
  /\ body' = [body EXCEPT ![m] = "done"]
  /\ \/ status[m] # "evaluated" /\ Fulfilled(m)
     \/ /\ status[m] = "evaluated"
        /\ UNCHANGED <<status, failed, asyncVars, promise, execList>>
  /\ UNCHANGED <<graphVars, root, walkVars, starts, evals>>

BodyThrows(m) ==
  /\ Idle /\ body[m] = "runs"
  /\ body' = [body EXCEPT ![m] = "threw"]
  /\ \/ status[m] # "evaluated" /\ Rejected(m)
     \/ status[m] = "evaluated" /\ UNCHANGED <<status, failed, asyncVars, promise>>
  /\ UNCHANGED <<graphVars, root, walkVars, execList, starts, evals>>

\* The loop over exec_list: a module that failed meanwhile is left alone, one with a
\* top-level await is started, any other is run.
ExecSkips ==
  /\ execList # <<>> /\ status[Head(execList)] = "evaluated"
  /\ execList' = Tail(execList)
  /\ UNCHANGED <<graphVars, status, failed, asyncVars, root, promise, walkVars,
                 bodyVars, evals>>
ExecStarts ==
  LET m == Head(execList) IN
  /\ execList # <<>> /\ status[m] # "evaluated"
  /\ m \in hasTla
  /\ StartBody(m, "runs")
  /\ execList' = Tail(execList)
  /\ UNCHANGED <<graphVars, status, failed, asyncVars, root, promise, walkVars, evals>>
ExecRuns ==
  LET m == Head(execList) IN
  /\ execList # <<>> /\ status[m] # "evaluated"
  /\ m \notin hasTla
  /\ \/ /\ StartBody(m, "done")
        /\ async' = async \ {m}
        /\ status' = [status EXCEPT ![m] = "evaluated"]
        /\ SettlePromises({m}, "fulfilled")
        /\ UNCHANGED <<failed, stamp, clock, pending, parents>>
     \/ StartBody(m, "threw") /\ Rejected(m)
  /\ execList' = Tail(execList)
  /\ UNCHANGED <<graphVars, root, walkVars, evals>>

Walk ==
  \/ Enter \/ Known \/ CallImport \/ ImportReturns \/ ImportFails
  \/ BecomesAsync \/ RunsAtOnce \/ ThrowsAtOnce
  \/ EvaluateDone \/ EvaluateFails
Exec == ExecSkips \/ ExecStarts \/ ExecRuns
BodyEnds(m) == BodyReturns(m) \/ BodyThrows(m)

Next ==
  \/ \E m \in Modules : Evaluate(m)
  \/ Walk \/ Exec
  \/ \E m \in Modules : BodyEnds(m)

Spec == Init /\ [][Next]_vars
-----------------------------------------------------------------------------
TypeOK ==
  /\ status \in [Modules -> {"linked", "evaluating", "async", "evaluated"}]
  /\ failed \subseteq Modules /\ async \subseteq Modules
  /\ stamp \in [Modules -> Nat] /\ clock \in Nat
  /\ pending \in [Modules -> Nat]
  /\ parents \in [Modules -> Seq(Modules)]
  /\ root \in [Modules -> Modules \cup {None}]
  /\ promise \in [Modules -> {None, "pending", "fulfilled", "rejected"}]
  /\ current \in Modules \cup {None}
  /\ ret \in {None, "ok", "fail"}
  /\ ToSet(stack) \subseteq Modules /\ ToSet(execList) \subseteq Modules
  /\ body \in [Modules -> {"no", "runs", "done", "threw"}]

\* pending_async_dependencies is the number of modules that m still waits for.
PendingExact ==
  Idle => \A m \in Modules :
    status[m] = "async" /\ root[m] \notin failed =>
      pending[m] = Entries({c \in Modules : status[c] = "async"}, m)

\* The assert()s of the engine hold: what runs in a job finds the modules in the
\* state it expects, and the counts of what is waited for exact, whatever failed or was evaluated in between.
EngineAsserts ==
  /\ TypeOK /\ PendingExact
  /\ Idle => \A m \in Modules :
       \* js_async_module_execution_fulfilled and _rejected
       /\ body[m] = "runs" =>
            IF status[m] = "evaluated" THEN m \in failed
            ELSE status[m] = "async" /\ m \notin failed /\ m \in async
       \* the recursive call for a parent, gather_available_ancestors
       /\ status[m] = "async" => \A p \in ToSet(parents[m]) :
            /\ IF status[p] = "evaluated" THEN p \in failed
               ELSE status[p] = "async" /\ p \notin failed /\ p \in async
            /\ root[p] \notin failed => pending[p] > 0 /\ p \in async
       \* js_set_module_evaluated
       /\ promise[m] # None => root[m] = m
  \* js_evaluate_module
  /\ current # None /\ calls = <<>> => Contains(stack, current) \/ ret = "ok"
                                         \/ current \in failed
  /\ current # None /\ calls = <<>> /\ ret = "ok" => stack = <<>> /\ current \notin failed

\* A body is run once, and only when what it imports, with everything that needs in
\* turn, has been run without an error; modules of its own cycle are excepted.
Reaches(m) ==
  LET grow[n \in 0..Cardinality(Modules)] ==
        IF n = 0 THEN {m} ELSE grow[n - 1] \cup UNION {ToSet(imports[x]) : x \in grow[n - 1]}
  IN grow[Cardinality(Modules)]
DependenciesFirst ==
  \A m \in Modules :
    /\ starts[m] <= 1
    /\ body[m] # "no" =>
         \A d \in ToSet(imports[m]) :
           m \notin Reaches(d) => \A x \in Reaches(d) : body[x] = "done"

\* The promise of an evaluation tells the truth: it is fulfilled only when everything
\* that the module needs has been run, and rejected only when some of it threw.  And
\* nothing is forgotten: when no body runs and no job is left, every promise of an
\* evaluation is settled, and every module evaluated, unless its cycle has failed.
PromisesSettled ==
  /\ \A m \in Modules :
       /\ promise[m] = "fulfilled" => \A d \in Reaches(m) : body[d] = "done"
       /\ promise[m] = "rejected" => \E d \in Reaches(m) : body[d] = "threw"
  /\ Idle /\ (\A m \in Modules : body[m] # "runs") =>
       \A m \in Modules : /\ promise[m] # "pending"
                          /\ status[m] = "async" => root[m] \in failed
=============================================================================
