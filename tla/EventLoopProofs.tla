--------------------------- MODULE EventLoopProofs --------------------------
(***************************************************************************)
(* Proofs about EventLoop for any sets of promises, timers, descriptors,   *)
(* ports and signals: when jobs run, which rejections are reported, when   *)
(* the program ends, and that signals are kept.                            *)
(*                                                                         *)
(* And about Timers, which the loop fires, for any sets of timeouts,       *)
(* intervals and sleeps, any delays and any largest id: the list of timers *)
(* holds what the program believes it does, clearing an id never hits      *)
(* another timer although ids are given out again, intervals keep going,   *)
(* due timers fire in order.  The heart is IdInv: with age[x] the number   *)
(* of timers set since x was, the id of x is nextId - age[x] - 1 in the    *)
(* cycle of ids, and ages below MaxId differ.  So an id in the list        *)
(* belongs to the one handle that holds it, and the list is ordered by     *)
(* age.                                                                    *)
(***************************************************************************)
EXTENDS EventLoop, Timers, SequenceTheorems, TLAPS

\* Where a step of the loop goes, and what it leaves alone: the cases that the
\* proofs below distinguish.
LEMMA StepKinds ==
  ASSUME [Next]_vars
  PROVE  \/ UNCHANGED <<pc, job, jobs, promiseVars>>
         \/ Program
         \/ EndScript \/ EndCall \/ ThrowScript \/ ThrowJob
         \/ AwaitFulfilled \/ AwaitRejected \/ RunJob \/ NoJob \/ RejectionCheck
         \/ NoSignals \/ NoMoreEvents \/ Wait \/ SelectReturns
         \/ /\ pc \in Polling /\ pc' \in (Polling \ {"select"}) \cup {"js", "turn"}
            /\ UNCHANGED <<job, jobs, promiseVars>>
         \/ /\ pc \in {"js", "clear"} /\ pc' \in {"js", "clear"}
            /\ UNCHANGED <<job, jobs, promiseVars>>
<1>1. CASE UNCHANGED vars
  BY <1>1 DEF vars, promiseVars
<1>2. ASSUME NEW t \in TimerSet, Expire(t)
      PROVE  UNCHANGED <<pc, job, jobs, promiseVars>>
  BY <1>2 DEF Expire
<1>3. CASE FireTimer
  BY <1>3 DEF FireTimer, Polling
<1>4. CASE CallHandler
  BY <1>4 DEF CallHandler, Dispatch, Polling
<1>5. CASE CallOnMessage
  BY <1>5 DEF CallOnMessage, Dispatch, Polling
<1>6. CASE ServeSignal
  BY <1>6 DEF ServeSignal, ScanSignals, NextSignal, FindSignal, ReadMask, CallSignal, Polling
<1>7. CASE EvalScript \/ ClearSigint
  BY <1>7 DEF EvalScript, ClearSigint, InJs
<1>8. ASSUME NEW a \in Activations,
             SignalStores(a) \/ \E s \in Signals : SignalReads(a, s)
      PROVE  UNCHANGED <<pc, job, jobs, promiseVars>>
  BY <1>8 DEF SignalStores, SignalReads
<1> QED
  BY <1>1, <1>2, <1>3, <1>4, <1>5, <1>6, <1>7, <1>8 DEF Next, Loop

\* Running JavaScript does not move control by itself, and lets the job be.
LEMMA ProgramInJs ==
  ASSUME Program
  PROVE  pc = "js" /\ UNCHANGED <<pc, job, tracking>>
<1>1. CASE NewJob
  BY <1>1 DEF NewJob, InJs, promiseVars
<1>2. CASE SettleModule
  BY <1>2 DEF SettleModule, InJs, promiseVars
<1>3. ASSUME NEW p \in Promises, RejectPromise(p) \/ PromiseThen(p)
      PROVE  pc = "js" /\ UNCHANGED <<pc, job, tracking>>
  BY <1>3 DEF RejectPromise, PromiseThen, InJs
<1>4. ASSUME NEW t \in TimerSet, SetTimer(t) \/ ClearTimer(t)
      PROVE  pc = "js" /\ UNCHANGED <<pc, job, tracking>>
  BY <1>4 DEF SetTimer, ClearTimer, InJs, promiseVars
<1>5. ASSUME NEW i \in {0, 1}, NEW fd \in Fds, SetHandler(i, fd) \/ ClearHandler(i, fd)
      PROVE  pc = "js" /\ UNCHANGED <<pc, job, tracking>>
  BY <1>5 DEF SetHandler, ClearHandler, InJs, promiseVars
<1>6. ASSUME NEW q \in Ports, SetPort(q) \/ ClearPort(q)
      PROVE  pc = "js" /\ UNCHANGED <<pc, job, tracking>>
  BY <1>6 DEF SetPort, ClearPort, InJs, promiseVars
<1>7. ASSUME NEW s \in Signals, SetSignal(s) \/ ClearSignal(s)
      PROVE  pc = "js" /\ UNCHANGED <<pc, job, tracking>>
  BY <1>7 DEF SetSignal, ClearSignal, InJs, promiseVars
<1> QED
  BY <1>1, <1>2, <1>3, <1>4, <1>5, <1>6, <1>7 DEF Program

(***************************************************************************)
(* Jobs.                                                                   *)
(***************************************************************************)
\* A step keeps the jobs first: only NoJob leaves "turn" for the check.
LEMMA JobsStep ==
  ASSUME JobsFirst, [Next]_vars
  PROVE  JobsFirst'
<1>1. CASE UNCHANGED <<pc, job, jobs, promiseVars>>
  BY <1>1 DEF JobsFirst
<1>2. CASE Program
  BY <1>2, ProgramInJs DEF JobsFirst, Polling
<1>3. CASE EndScript \/ EndCall \/ ThrowScript
  BY <1>3 DEF EndScript, EndCall, ThrowScript, JobsFirst, Polling
<1>4. CASE ThrowJob
  BY <1>4 DEF ThrowJob, JobsFirst, Polling
<1>5. CASE AwaitFulfilled \/ AwaitRejected
  BY <1>5 DEF AwaitFulfilled, AwaitRejected, JobsFirst, Polling
<1>6. CASE RunJob \/ NoJob
  BY <1>6 DEF RunJob, NoJob, JobsFirst, Polling
<1>7. CASE RejectionCheck \/ NoMoreEvents \/ Wait \/ SelectReturns
  BY <1>7 DEF RejectionCheck, NoMoreEvents, Wait, SelectReturns, JobsFirst, Polling
<1>8. CASE NoSignals
  BY <1>8 DEF NoSignals, JobsFirst, Polling
<1>9. CASE pc \in Polling /\ UNCHANGED <<job, jobs, promiseVars>>
  BY <1>9 DEF JobsFirst
<1>10. CASE pc' \in {"js", "clear"}
  BY <1>10 DEF JobsFirst, Polling
<1> QED
  BY <1>1, <1>2, <1>3, <1>4, <1>5, <1>6, <1>7, <1>8, <1>9, <1>10, StepKinds

\* js_std_loop and js_std_await never poll, sleep or end with a job in the queue,
\* unless a job has thrown in this turn.
THEOREM JobsComeFirst == Spec => []JobsFirst
<1>1. Init => JobsFirst
  BY DEF Init, JobsFirst, Polling
<1>2. JobsFirst /\ [Next]_vars => JobsFirst'
  BY JobsStep
<1> QED
  BY <1>1, <1>2, PTL DEF Spec

(***************************************************************************)
(* Rejections.                                                             *)
(***************************************************************************)
\* What one call of the API does to the promises: nothing, or one promise is
\* rejected or handled and the tracker is told.
LEMMA ProgramPromises ==
  ASSUME Program
  PROVE  \/ UNCHANGED <<rejected, handled, tracked>>
         \/ \E p \in Promises : RejectPromise(p) \/ PromiseThen(p)
<1>1. CASE NewJob \/ SettleModule
  BY <1>1 DEF NewJob, SettleModule, promiseVars
<1>2. ASSUME NEW t \in TimerSet, SetTimer(t) \/ ClearTimer(t)
      PROVE  UNCHANGED <<rejected, handled, tracked>>
  BY <1>2 DEF SetTimer, ClearTimer, promiseVars
<1>3. ASSUME NEW i \in {0, 1}, NEW fd \in Fds, SetHandler(i, fd) \/ ClearHandler(i, fd)
      PROVE  UNCHANGED <<rejected, handled, tracked>>
  BY <1>3 DEF SetHandler, ClearHandler, promiseVars
<1>4. ASSUME NEW q \in Ports, SetPort(q) \/ ClearPort(q)
      PROVE  UNCHANGED <<rejected, handled, tracked>>
  BY <1>4 DEF SetPort, ClearPort, promiseVars
<1>5. ASSUME NEW s \in Signals, SetSignal(s) \/ ClearSignal(s)
      PROVE  UNCHANGED <<rejected, handled, tracked>>
  BY <1>5 DEF SetSignal, ClearSignal, promiseVars
<1> QED
  BY <1>1, <1>2, <1>3, <1>4, <1>5 DEF Program

\* The tracker hears of a rejection before the promise is handled ...
LEMMA RejectKeepsTracked ==
  ASSUME TrackedAreUnhandled, NEW p \in Promises, RejectPromise(p)
  PROVE  TrackedAreUnhandled'
<1>1. /\ p \notin rejected /\ rejected' = rejected \cup {p}
      /\ handled' = handled /\ tracking' = tracking
      /\ tracked' = IF p \in handled THEN tracked ELSE Track(p, FALSE)
  BY DEF RejectPromise
<1>2. SUFFICES ASSUME tracking
               PROVE  tracked' = (rejected \cup {p}) \ handled
  BY <1>1 DEF TrackedAreUnhandled, Unhandled
<1>3. tracked = rejected \ handled
  BY <1>2 DEF TrackedAreUnhandled, Unhandled
<1>4. CASE p \in handled
  <2>1. tracked' = tracked
    BY <1>1, <1>4
  <2> QED
    BY <2>1, <1>3, <1>4
<1>5. CASE p \notin handled
  <2>1. tracked' = tracked \cup {p}
    BY <1>1, <1>2, <1>5 DEF Track
  <2> QED
    BY <2>1, <1>3, <1>5
<1> QED
  BY <1>4, <1>5

\* ... and of a reaction that comes after it.
LEMMA ThenKeepsTracked ==
  ASSUME TrackedAreUnhandled, NEW p \in Promises, PromiseThen(p)
  PROVE  TrackedAreUnhandled'
<1>1. /\ handled' = handled \cup {p}
      /\ rejected' = rejected /\ tracking' = tracking
      /\ tracked' = IF p \in rejected THEN Track(p, TRUE) ELSE tracked
  BY DEF PromiseThen
<1>2. SUFFICES ASSUME tracking
               PROVE  tracked' = rejected \ (handled \cup {p})
  BY <1>1 DEF TrackedAreUnhandled, Unhandled
<1>3. tracked = rejected \ handled
  BY <1>2 DEF TrackedAreUnhandled, Unhandled
<1>4. CASE p \in rejected
  <2>1. tracked' = tracked \ {p}
    BY <1>1, <1>2, <1>4 DEF Track
  <2> QED
    BY <2>1, <1>3
<1>5. CASE p \notin rejected
  <2>1. tracked' = tracked
    BY <1>1, <1>5
  <2> QED
    BY <2>1, <1>3, <1>5
<1> QED
  BY <1>4, <1>5

\* Outside JavaScript the promises stand still; EnterLoop may take the tracker
\* away, and only for the REPL.
LEMMA LoopPromises ==
  ASSUME [Next]_vars, ~ Program
  PROVE  /\ UNCHANGED <<rejected, handled, tracked>>
         /\ tracking' = tracking \/ tracking' = (tracking /\ ~ Interactive)
<1>1. CASE UNCHANGED <<pc, job, jobs, promiseVars>>
  BY <1>1 DEF promiseVars
<1>2. CASE EndScript \/ AwaitFulfilled
  BY <1>2 DEF EndScript, AwaitFulfilled, EnterLoop
<1>3. CASE EndCall \/ ThrowScript \/ ThrowJob \/ AwaitRejected
  BY <1>3 DEF EndCall, ThrowScript, ThrowJob, AwaitRejected, promiseVars
<1>4. CASE RunJob \/ NoJob \/ RejectionCheck
  BY <1>4 DEF RunJob, NoJob, RejectionCheck, promiseVars
<1>5. CASE NoMoreEvents \/ Wait \/ SelectReturns
  BY <1>5 DEF NoMoreEvents, Wait, SelectReturns, promiseVars
<1>6. CASE NoSignals
  BY <1>6 DEF NoSignals, promiseVars
<1> QED
  BY <1>1, <1>2, <1>3, <1>4, <1>5, <1>6, StepKinds DEF promiseVars

\* The list of the tracker holds the rejected promises that nobody handles, in
\* whatever order promises are rejected and handled.
THEOREM TrackerCorrect == Spec => []TrackedAreUnhandled
<1>1. Init => TrackedAreUnhandled
  BY DEF Init, TrackedAreUnhandled, Unhandled
<1>2. ASSUME TrackedAreUnhandled, [Next]_vars
      PROVE  TrackedAreUnhandled'
  <2>1. CASE Program
    <3>1. CASE UNCHANGED <<rejected, handled, tracked>>
      BY <1>2, <2>1, <3>1, ProgramInJs DEF TrackedAreUnhandled, Unhandled
    <3>2. CASE \E p \in Promises : RejectPromise(p) \/ PromiseThen(p)
      BY <1>2, <3>2, RejectKeepsTracked, ThenKeepsTracked
    <3> QED
      BY <2>1, <3>1, <3>2, ProgramPromises
  <2>2. CASE ~ Program
    <3>1. tracking' => tracking
      BY <1>2, <2>2, LoopPromises
    <3>2. UNCHANGED <<rejected, handled, tracked>>
      BY <1>2, <2>2, LoopPromises
    <3> QED
      BY <1>2, <3>1, <3>2 DEF TrackedAreUnhandled, Unhandled
  <2> QED
    BY <2>1, <2>2
<1> QED
  BY <1>1, <1>2, PTL DEF Spec

\* What js_std_promise_rejection_check has found stays true until JavaScript runs.
LEMMA CheckStep ==
  ASSUME CheckInv, [Next]_vars
  PROVE  CheckInv'
<1>1. tracking' \/ Interactive
  <2>1. CASE Program
    BY <2>1, ProgramInJs DEF CheckInv
  <2>2. CASE ~ Program
    BY <2>2, LoopPromises DEF CheckInv
  <2> QED
    BY <2>1, <2>2
<1>2. /\ pc' \in Polling \cup {"exit0"} => tracked' = {}
      /\ pc' = "exitRejected" => tracked' # {}
  <2>1. CASE Program
    BY <2>1, ProgramInJs DEF Polling
  <2>2. CASE ~ Program
    <3>1. tracked' = tracked
      BY <2>2, LoopPromises
    <3>2. CASE UNCHANGED <<pc, job, jobs, promiseVars>>
      BY <3>1, <3>2 DEF CheckInv
    <3>3. CASE EndScript \/ EndCall \/ ThrowScript \/ ThrowJob
      BY <3>3 DEF EndScript, EndCall, ThrowScript, ThrowJob, Polling
    <3>4. CASE AwaitFulfilled \/ AwaitRejected \/ RunJob \/ NoJob
      BY <3>4 DEF AwaitFulfilled, AwaitRejected, RunJob, NoJob, Polling
    <3>5. CASE RejectionCheck
      BY <3>1, <3>5 DEF RejectionCheck, Polling
    <3>6. CASE NoMoreEvents \/ Wait \/ SelectReturns
      BY <3>1, <3>6 DEF NoMoreEvents, Wait, SelectReturns, CheckInv, Polling
    <3>7. CASE NoSignals
      BY <3>1, <3>7 DEF NoSignals, CheckInv, Polling
    <3>8. CASE pc \in Polling /\ pc' \in (Polling \ {"select"}) \cup {"js", "turn"}
      BY <3>1, <3>8 DEF CheckInv, Polling
    <3>9. CASE pc' \in {"js", "clear"}
      BY <3>9 DEF Polling
    <3> QED
      BY <2>2, <3>2, <3>3, <3>4, <3>5, <3>6, <3>7, <3>8, <3>9, StepKinds
  <2> QED
    BY <2>1, <2>2
<1> QED
  BY <1>1, <1>2 DEF CheckInv

\* The check's knowledge is an invariant of the loop.
LEMMA CheckCorrect == Spec => []CheckInv
<1>1. Init => CheckInv
  BY DEF Init, CheckInv, Polling
<1>2. CheckInv /\ [Next]_vars => CheckInv'
  BY CheckStep
<1> QED
  BY <1>1, <1>2, PTL DEF Spec

\* js_std_promise_rejection_check hides nothing, with or without the REPL: a program
\* that sleeps in js_os_poll or ends with status 0 while a tracker is installed has
\* handled all its rejected promises.
THEOREM NoRejectionHidden == Spec => []NoHiddenRejection
<1>1. CheckInv /\ TrackedAreUnhandled => NoHiddenRejection
  BY DEF CheckInv, TrackedAreUnhandled, NoHiddenRejection, Polling
<1> QED
  BY <1>1, CheckCorrect, TrackerCorrect, PTL

\* Without the REPL, the rejections that js_std_promise_rejection_check reports are
\* exactly the ones that nobody handles.
THEOREM ReportsCorrect ==
  ASSUME Interactive = FALSE
  PROVE  Spec => []ReportedIffUnhandled
<1>1. CheckInv /\ TrackedAreUnhandled => NoFalseAlarm
  BY DEF CheckInv, TrackedAreUnhandled, NoFalseAlarm
<1>2. NoHiddenRejection /\ NoFalseAlarm => ReportedIffUnhandled
  BY DEF ReportedIffUnhandled
<1> QED
  BY <1>1, <1>2, CheckCorrect, TrackerCorrect, NoRejectionHidden, PTL

(***************************************************************************)
(* The lists of event sources, and the signals.                            *)
(***************************************************************************)
\* list_del: the entries behind the one taken out move up by one place.
LEMMA RemoveAtIs ==
  ASSUME NEW S, NEW s \in Seq(S), NEW i \in 1..Len(s)
  PROVE  /\ RemoveAt(s, i) \in Seq(S)
         /\ Len(RemoveAt(s, i)) = Len(s) - 1
         /\ \A k \in 1..(Len(s) - 1) :
              RemoveAt(s, i)[k] = s[IF k < i THEN k ELSE k + 1]
<1> DEFINE front == SubSeq(s, 1, i - 1)
           back == SubSeq(s, i + 1, Len(s))
<1>1. /\ front \in Seq(S) /\ Len(front) = i - 1
      /\ \A k \in 1..(i - 1) : front[k] = s[k]
  OBVIOUS
<1>2. /\ back \in Seq(S) /\ Len(back) = Len(s) - i
      /\ \A k \in 1..(Len(s) - i) : back[k] = s[k + i]
  OBVIOUS
<1>3. RemoveAt(s, i) = front \o back
  BY DEF RemoveAt
<1> HIDE DEF front, back
<1>4. /\ front \o back \in Seq(S) /\ Len(front \o back) = Len(s) - 1
      /\ \A k \in 1..(Len(s) - 1) :
           (front \o back)[k] = IF k <= i - 1 THEN front[k] ELSE back[k - (i - 1)]
  BY <1>1, <1>2, ConcatProperties
<1>5. ASSUME NEW k \in 1..(Len(s) - 1)
      PROVE  (front \o back)[k] = s[IF k < i THEN k ELSE k + 1]
  <2>1. CASE k < i
    BY <1>1, <1>4, <2>1
  <2>2. CASE ~ (k < i)
    <3>1. k - (i - 1) \in 1..(Len(s) - i) /\ (k - (i - 1)) + i = k + 1
      BY <2>2
    <3>2. (front \o back)[k] = back[k - (i - 1)]
      BY <1>4, <2>2
    <3> QED
      BY <1>2, <2>2, <3>1, <3>2
  <2> QED
    BY <2>1, <2>2
<1> QED
  BY <1>3, <1>4, <1>5

\* free_rw_handler: with one entry per descriptor, the others keep theirs.
LEMMA RemoveAtKeeps ==
  ASSUME NEW S, NEW s \in Seq(S), NEW i \in 1..Len(s),
         \A j, k \in 1..Len(s) : s[j] = s[k] => j = k
  PROVE  LET r == RemoveAt(s, i)
         IN  /\ \A j, k \in 1..Len(r) : r[j] = r[k] => j = k
             /\ \A x : Contains(s, x) /\ x # s[i] => Contains(r, x)
<1> DEFINE r == RemoveAt(s, i)
           was(k) == IF k < i THEN k ELSE k + 1
<1>1. Len(s) \in Nat
  OBVIOUS
<1>2. /\ Len(r) = Len(s) - 1
      /\ \A k \in 1..(Len(s) - 1) : r[k] = s[IF k < i THEN k ELSE k + 1]
  BY RemoveAtIs
<1> HIDE DEF r
<1>3. /\ Len(s) \in Nat /\ Len(r) = Len(s) - 1
      /\ \A k \in 1..(Len(s) - 1) : r[k] = s[was(k)]
  BY <1>1, <1>2
<1>4. ASSUME NEW j \in 1..Len(r), NEW k \in 1..Len(r), r[j] = r[k]
      PROVE  j = k
  <2>1. was(j) \in 1..Len(s) /\ was(k) \in 1..Len(s) /\ s[was(j)] = s[was(k)]
    BY <1>3, <1>4
  <2>2. was(j) = was(k)
    BY <2>1
  <2> QED
    BY <1>3, <2>2
<1>5. ASSUME NEW x, Contains(s, x), x # s[i]
      PROVE  Contains(r, x)
  <2>1. PICK k \in 1..Len(s) : s[k] = x
    BY <1>5 DEF Contains
  <2>2. k # i
    BY <1>5, <2>1
  <2>3. CASE k < i
    <3>1. k \in 1..Len(r) /\ r[k] = x
      BY <1>3, <2>1, <2>3
    <3> QED
      BY <3>1 DEF Contains
  <2>4. CASE k > i
    <3>1. k - 1 \in 1..Len(r) /\ was(k - 1) = k
      BY <1>3, <2>4
    <3>2. r[k - 1] = x
      BY <1>3, <2>1, <3>1
    <3> QED
      BY <3>1, <3>2 DEF Contains
  <2> QED
    BY <2>2, <2>3, <2>4
<1> QED
  BY <1>4, <1>5 DEF r

\* A step that leaves the lists of descriptors alone, and the program running or ended.
LEMMA QuietSources ==
  ASSUME SourcesInv, UNCHANGED <<handlers, func>>,
         pc' = "exit0" => ~ HasSources'
  PROVE  SourcesInv'
  BY DEF SourcesInv

\* A read begins: what is read is what is stored, and whoever overlaps is in doubt.
LEMMA BeginKeeps ==
  ASSUME TypeOK, UpdateInv, SignalsKept, NEW u \in Updaters, NEW s \in Signals,
         BeginUpdate(u, s), UNCHANGED pending
  PROVE  /\ WordTypes' /\ UpdateInv' /\ SignalsKept'
         /\ UnderWay' = UnderWay \cup {u} /\ update'[u].sig = s
         /\ \A v \in Updaters \ {u} : update'[v].sig = update[v].sig
<1> DEFINE racing == IF UnderWay = {} THEN {} ELSE {s} \cup {update[v].sig : v \in UnderWay}
<1>1. /\ update \in [Updaters -> Updates]
      /\ owed \in [Signals -> {"no", "yes", "unknown"}]
      /\ pending \subseteq Signals
  BY DEF TypeOK, WordTypes
<1>2. /\ update' = [v \in Updaters |->
                     IF v = u THEN [sig |-> s, read |-> pending, alone |-> UnderWay = {}]
                     ELSE [update[v] EXCEPT !.alone = FALSE]]
      /\ owed' = [r \in Signals |-> IF r \in racing THEN "unknown" ELSE owed[r]]
  BY DEF BeginUpdate
<1>3. /\ update'[u].sig = s /\ update'[u].read = pending
      /\ update'[u].alone \in BOOLEAN /\ (update'[u].alone <=> UnderWay = {})
      /\ update'[u] \in Updates
  <2>1. update'[u] = [sig |-> s, read |-> pending, alone |-> UnderWay = {}]
    BY <1>2
  <2>2. CASE UnderWay = {}
    <3>1. update'[u] = [sig |-> s, read |-> pending, alone |-> TRUE]
      BY <2>1, <2>2, Zenon
    <3> QED
      BY <1>1, <2>2, <3>1 DEF Updates
  <2>3. CASE UnderWay # {}
    <3>1. update'[u] = [sig |-> s, read |-> pending, alone |-> FALSE]
      BY <2>1, <2>3, Zenon
    <3> QED
      BY <1>1, <2>3, <3>1 DEF Updates
  <2> QED
    BY <2>2, <2>3
<1>4. ASSUME NEW v \in Updaters \ {u}
      PROVE  /\ update'[v] \in Updates
             /\ update'[v].sig = update[v].sig /\ update'[v].read = update[v].read
             /\ update'[v].alone = FALSE
  <2>1. update'[v] = [update[v] EXCEPT !.alone = FALSE] /\ update[v] \in Updates
    BY <1>1, <1>2
  <2> QED
    BY <2>1 DEF Updates
<1>5. update'[u] \in Updates /\ update'[u].sig # "none"
  BY <1>3, EventLoopAssumption
<1>6. WordTypes'
  <2>1. update' \in [Updaters -> Updates]
    BY <1>2, <1>4, <1>5
  <2>2. owed' \in [Signals -> {"no", "yes", "unknown"}]
    BY <1>1, <1>2
  <2> QED
    BY <1>1, <2>1, <2>2 DEF WordTypes
<1>7. UnderWay' = UnderWay \cup {u}
  BY <1>4, <1>5 DEF UnderWay
<1> HIDE DEF racing
<1>8. \A r \in Signals : owed'[r] # "unknown" => owed[r] # "unknown" /\ owed'[r] = owed[r]
  BY <1>2
<1>9. SignalsKept'
  BY <1>8 DEF SignalsKept
<1>10. ASSUME NEW v \in UnderWay'
       PROVE  /\ update'[v].alone => UnderWay' = {v}
              /\ ~ update'[v].alone => owed'[update'[v].sig] = "unknown"
              /\ \A r \in Signals : owed'[r] # "unknown"
                    => (r \in update'[v].read <=> r \in pending')
  <2>1. CASE v = u
    <3>1. update'[v].alone <=> UnderWay = {}
      BY <1>3, <2>1
    <3>2. UnderWay # {} => s \in racing
      BY DEF racing
    <3>3. update'[v].sig = s /\ update'[v].read = pending
      BY <1>3, <2>1
    <3>4. UnderWay # {} => owed'[s] = "unknown"
      BY <1>2, <3>2
    <3> QED
      BY <1>7, <2>1, <3>1, <3>3, <3>4
  <2>2. CASE v # u
    <3>1. v \in UnderWay /\ v \in Updaters
      BY <1>7, <2>2 DEF UnderWay
    <3>2. /\ update'[v].sig = update[v].sig /\ update'[v].read = update[v].read
          /\ update'[v].alone = FALSE
      BY <1>4, <2>2, <3>1
    <3>3. update[v].sig \in Signals
      BY <1>1, <3>1 DEF UnderWay, Updates
    <3>4. update[v].sig \in racing
      BY <3>1 DEF racing
    <3>5. owed'[update[v].sig] = "unknown"
      BY <1>2, <3>3, <3>4
    <3> QED
      BY <1>8, <3>1, <3>2, <3>5 DEF UpdateInv
  <2> QED
    BY <2>1, <2>2
<1>11. UpdateInv'
  BY <1>10 DEF UpdateInv
<1>12. update'[u].sig = s /\ \A v \in Updaters \ {u} : update'[v].sig = update[v].sig
  BY <1>3, <1>4
<1> QED
  BY <1>6, <1>7, <1>9, <1>11, <1>12

\* A store: if the update was alone its signal is known again; in any case it puts back, of
\* the signals that are not in doubt, what is there.
LEMMA EndKeeps ==
  ASSUME TypeOK, UpdateInv, SignalsKept, NEW u \in UnderWay, NEW word, NEW o \in {"no", "yes"},
         EndUpdate(u, word, o),
         word \subseteq Signals,
         \A r \in Signals \ {update[u].sig} : r \in word <=> r \in update[u].read,
         update[u].sig \in word <=> o = "yes"
  PROVE  /\ WordTypes' /\ UpdateInv' /\ SignalsKept'
         /\ UnderWay' = UnderWay \ {u}
         /\ \A v \in Updaters \ {u} : update'[v].sig = update[v].sig
<1> DEFINE sig == update[u].sig
<1>1. /\ update \in [Updaters -> Updates]
      /\ owed \in [Signals -> {"no", "yes", "unknown"}]
      /\ u \in Updaters /\ sig \in Signals /\ update[u].alone \in BOOLEAN
  BY DEF TypeOK, WordTypes, UnderWay, Updates
<1>2. /\ pending' = word
      /\ owed' = [owed EXCEPT ![sig] = IF update[u].alone THEN o ELSE "unknown"]
      /\ update' = [update EXCEPT ![u] = NoUpdate]
  BY DEF EndUpdate
<1>3. update'[u] = NoUpdate /\ \A v \in Updaters \ {u} : update'[v] = update[v]
  <2>1. /\ update' = [update EXCEPT ![u] = NoUpdate] /\ u \in Updaters
        /\ update \in [Updaters -> Updates]
    BY <1>1, <1>2
  <2> QED
    BY <2>1
<1>4. UnderWay' = UnderWay \ {u}
  BY <1>3 DEF UnderWay, NoUpdate
<1>5. WordTypes'
  <2>1. update' \in [Updaters -> Updates]
    <3>1. NoUpdate \in Updates
      BY DEF NoUpdate, Updates
    <3> QED
      BY <1>1, <1>2, <3>1
  <2>2. owed' \in [Signals -> {"no", "yes", "unknown"}]
    BY <1>1, <1>2
  <2> QED
    BY <1>2, <2>1, <2>2 DEF WordTypes
<1> HIDE DEF sig
<1>6. ASSUME NEW r \in Signals, r # sig, owed'[r] # "unknown"
      PROVE  owed'[r] = owed[r] /\ (r \in pending' <=> r \in pending)
  <2>1. owed'[r] = owed[r]
    BY <1>1, <1>2, <1>6
  <2>2. r \in update[u].read <=> r \in pending
    BY <1>6, <2>1 DEF UpdateInv
  <2> QED
    BY <1>2, <1>6, <2>1, <2>2 DEF sig
<1>7. owed'[sig] # "unknown" => update[u].alone /\ owed'[sig] = o
  BY <1>1, <1>2
<1>8. SignalsKept'
  <2> SUFFICES ASSUME NEW r \in Signals, owed'[r] # "unknown"
               PROVE  r \in pending' <=> owed'[r] = "yes"
    BY DEF SignalsKept
  <2>1. CASE r = sig
    BY <1>2, <1>7, <2>1 DEF sig
  <2>2. CASE r # sig
    BY <1>6, <2>2 DEF SignalsKept
  <2> QED
    BY <2>1, <2>2
<1>9. ASSUME NEW v \in UnderWay'
      PROVE  /\ update'[v].alone => UnderWay' = {v}
             /\ ~ update'[v].alone => owed'[update'[v].sig] = "unknown"
             /\ \A r \in Signals : owed'[r] # "unknown"
                   => (r \in update'[v].read <=> r \in pending')
  <2>1. v \in UnderWay /\ v # u /\ update'[v] = update[v] /\ v \in Updaters
    BY <1>3, <1>4 DEF UnderWay
  <2>2. ~ update[u].alone /\ ~ update[v].alone
    BY <2>1 DEF UpdateInv
  <2>3. owed'[sig] = "unknown"
    BY <1>1, <1>7, <2>2
  <2>4. update[v].sig \in Signals /\ owed[update[v].sig] = "unknown"
    BY <1>1, <2>1, <2>2 DEF UpdateInv, UnderWay, Updates
  <2>5. owed'[update[v].sig] = "unknown"
    BY <1>1, <1>2, <2>3, <2>4
  <2>6. ASSUME NEW r \in Signals, owed'[r] # "unknown"
        PROVE  r \in update[v].read <=> r \in pending'
    BY <1>6, <2>1, <2>3, <2>6 DEF UpdateInv
  <2> QED
    BY <2>1, <2>2, <2>5, <2>6
<1>10. UpdateInv'
  BY <1>9 DEF UpdateInv
<1> QED
  BY <1>3, <1>4, <1>5, <1>8, <1>10

\* A step that leaves os_pending_signals and its updates alone.
LEMMA QuietWord ==
  ASSUME UpdateInv, SignalsKept, UNCHANGED wordVars
  PROVE  UpdateInv' /\ SignalsKept' /\ UNCHANGED UnderWay
<1>1. UNCHANGED <<pending, update, owed>> /\ UnderWay' = UnderWay
  BY DEF wordVars, UnderWay
<1> QED
  BY <1>1 DEF UpdateInv, SignalsKept

\* JavaScript changes jobs and promises only: NewJob, SettleModule, reject and then.
LEMMA PromiseCalls ==
  ASSUME IInv,
         \/ NewJob \/ SettleModule
         \/ \E p \in Promises : RejectPromise(p) \/ PromiseThen(p)
  PROVE  IInv'
<1>1. pc' = "js" /\ UNCHANGED <<sourceVars, signalVars, phase, job, tracking>>
  BY DEF NewJob, SettleModule, RejectPromise, PromiseThen, InJs, promiseVars
<1>2. jobs' \in 0..MaxJobs
  <2>1. UNCHANGED jobs \/ \E n \in {0, 1} : Enqueue(n)
    BY DEF NewJob, SettleModule, RejectPromise, PromiseThen
  <2> QED
    BY <2>1, EventLoopAssumption DEF IInv, TypeOK, Enqueue
<1>3. module' \in {"none", "pending", "fulfilled", "rejected"}
  BY DEF IInv, TypeOK, NewJob, SettleModule, RejectPromise, PromiseThen
<1>4. rejected' \subseteq Promises /\ handled' \subseteq Promises /\ tracked' \subseteq Promises
  BY DEF IInv, TypeOK, NewJob, SettleModule, RejectPromise, PromiseThen, Track, promiseVars
<1>5. TypeOK'
  BY <1>1, <1>2, <1>3, <1>4 DEF IInv, TypeOK, WordTypes, PCs, sourceVars, signalVars, wordVars
<1>6. SourcesInv' /\ MainInv' /\ UpdateInv' /\ SignalsKept'
  BY <1>1, QuietSources, QuietWord DEF IInv, MainInv, sourceVars, signalVars
<1> QED
  BY <1>5, <1>6 DEF IInv

\* os.setTimeout, clearTimeout, onmessage and os.signal: one list changes.
LEMMA ListCalls ==
  ASSUME IInv,
         \/ \E t \in TimerSet : SetTimer(t) \/ ClearTimer(t)
         \/ \E q \in Ports : SetPort(q) \/ ClearPort(q)
         \/ \E s \in Signals : SetSignal(s) \/ ClearSignal(s)
  PROVE  IInv'
<1> USE DEF SetTimer, ClearTimer, SetPort, ClearPort, SetSignal, ClearSignal
<1>1. /\ pc' = "js"
      /\ UNCHANGED <<phase, module, job, jobs, promiseVars, handlers, func, scan, wordVars>>
  BY DEF InJs, sourceVars, signalVars
<1>2. timers' \in Seq(TimerSet)
  <2>1. CASE UNCHANGED timers
    BY <2>1 DEF IInv, TypeOK
  <2>2. ASSUME NEW t \in TimerSet, SetTimer(t)
        PROVE  timers' \in Seq(TimerSet)
    BY <2>2 DEF IInv, TypeOK
  <2>3. ASSUME NEW i \in 1..Len(timers), timers' = RemoveAt(timers, i)
        PROVE  timers' \in Seq(TimerSet)
    BY <2>3, RemoveAtIs DEF IInv, TypeOK
  <2> QED
    BY <2>1, <2>2, <2>3 DEF sourceVars
<1>3. ports' \in Seq(Ports)
  <2>1. CASE UNCHANGED ports
    BY <2>1 DEF IInv, TypeOK
  <2>2. ASSUME NEW q \in Ports, SetPort(q)
        PROVE  ports' \in Seq(Ports)
    BY <2>2 DEF IInv, TypeOK
  <2>3. ASSUME NEW i \in 1..Len(ports), ports' = RemoveAt(ports, i)
        PROVE  ports' \in Seq(Ports)
    BY <2>3, RemoveAtIs DEF IInv, TypeOK
  <2> QED
    BY <2>1, <2>2, <2>3 DEF sourceVars
<1>4. sigs' \in Seq(Signals)
  <2>1. CASE UNCHANGED sigs
    BY <2>1 DEF IInv, TypeOK
  <2>2. ASSUME NEW s \in Signals, SetSignal(s)
        PROVE  sigs' \in Seq(Signals)
    BY <2>2 DEF IInv, TypeOK
  <2>3. ASSUME NEW i \in 1..Len(sigs), sigs' = RemoveAt(sigs, i)
        PROVE  sigs' \in Seq(Signals)
    BY <2>3, RemoveAtIs DEF IInv, TypeOK
  <2> QED
    BY <2>1, <2>2, <2>3 DEF signalVars
<1>5. due' \subseteq TimerSet
  BY DEF IInv, TypeOK, sourceVars
<1>6. TypeOK'
  BY <1>1, <1>2, <1>3, <1>4, <1>5 DEF IInv, TypeOK, WordTypes, PCs, promiseVars, wordVars
<1>7. SourcesInv' /\ MainInv' /\ UpdateInv' /\ SignalsKept'
  BY <1>1, QuietSources, QuietWord DEF IInv, MainInv
<1> QED
  BY <1>6, <1>7 DEF IInv

\* os.setReadHandler and setWriteHandler: an entry exists as long as one function does.
LEMMA HandlerCalls ==
  ASSUME IInv, NEW i \in {0, 1}, NEW fd \in Fds, SetHandler(i, fd) \/ ClearHandler(i, fd)
  PROVE  IInv'
<1>1. /\ pc' = "js"
      /\ UNCHANGED <<phase, module, job, jobs, promiseVars, timers, due, ports, signalVars>>
  BY DEF SetHandler, ClearHandler, InJs
<1>2. func \in [{0, 1} -> SUBSET Fds] /\ handlers \in Seq(Fds)
  BY DEF IInv, TypeOK
<1>3. handlers' \in Seq(Fds) /\ func' \in [{0, 1} -> SUBSET Fds] /\ SourcesInv'
  <2>1. CASE SetHandler(i, fd)
    <3>1. func' = [func EXCEPT ![i] = @ \cup {fd}]
      BY <2>1 DEF SetHandler
    <3>2. CASE Contains(handlers, fd)
      <4>1. handlers' = handlers
        BY <2>1, <3>2 DEF SetHandler
      <4> QED
        BY <1>1, <1>2, <3>1, <3>2, <4>1 DEF IInv, SourcesInv
    <3>3. CASE ~ Contains(handlers, fd)
      <4>1. handlers' = Append(handlers, fd)
        BY <2>1, <3>3 DEF SetHandler
      <4>2. /\ handlers' \in Seq(Fds) /\ Len(handlers') = Len(handlers) + 1
            /\ \A k \in 1..Len(handlers) : handlers'[k] = handlers[k]
            /\ handlers'[Len(handlers) + 1] = fd /\ Len(handlers) \in Nat
        BY <1>2, <4>1
      <4>3. \A j, k \in 1..Len(handlers') : handlers'[j] = handlers'[k] => j = k
        BY <3>3, <4>2 DEF IInv, SourcesInv, Contains
      <4>4. Contains(handlers', fd) /\ \A x : Contains(handlers, x) => Contains(handlers', x)
        BY <4>2 DEF Contains
      <4>5. \A m \in {0, 1} : \A x \in func'[m] : Contains(handlers', x)
        BY <1>2, <3>1, <4>4 DEF IInv, SourcesInv
      <4> QED
        BY <1>1, <1>2, <3>1, <4>2, <4>3, <4>5 DEF SourcesInv
    <3> QED
      BY <3>2, <3>3
  <2>2. CASE ClearHandler(i, fd)
    <3>1. func' = [func EXCEPT ![i] = @ \ {fd}]
      BY <2>2 DEF ClearHandler
    <3>2. PICK k \in 1..Len(handlers) :
             /\ handlers[k] = fd
             /\ handlers' = IF fd \in func[1 - i] THEN handlers ELSE RemoveAt(handlers, k)
      BY <2>2 DEF ClearHandler
    <3>3. CASE fd \in func[1 - i]
      BY <1>1, <1>2, <3>1, <3>2, <3>3 DEF IInv, SourcesInv
    <3>4. CASE fd \notin func[1 - i]
      <4>1. handlers' = RemoveAt(handlers, k)
        BY <3>2, <3>4
      <4>2. handlers' \in Seq(Fds)
        BY <1>2, <4>1, RemoveAtIs
      <4>3. /\ \A j, m \in 1..Len(handlers') : handlers'[j] = handlers'[m] => j = m
            /\ \A x : Contains(handlers, x) /\ x # fd => Contains(handlers', x)
        BY <1>2, <3>2, <4>1, RemoveAtKeeps DEF IInv, SourcesInv
      <4>4. \A m \in {0, 1} : m = i \/ m = 1 - i
        OBVIOUS
      <4>5. \A m \in {0, 1} : \A x \in func'[m] : x \in func[m] /\ x # fd
        BY <1>2, <3>1, <3>4, <4>4
      <4>6. \A m \in {0, 1} : \A x \in func'[m] : Contains(handlers', x)
        BY <4>3, <4>5 DEF IInv, SourcesInv
      <4> QED
        BY <1>1, <1>2, <3>1, <4>2, <4>3, <4>6 DEF SourcesInv
    <3> QED
      BY <3>3, <3>4
  <2> QED
    BY <2>1, <2>2
<1>4. TypeOK'
  BY <1>1, <1>3 DEF IInv, TypeOK, WordTypes, PCs, promiseVars, signalVars, wordVars
<1>5. MainInv' /\ UpdateInv' /\ SignalsKept'
  BY <1>1, QuietWord DEF IInv, MainInv, signalVars
<1> QED
  BY <1>3, <1>4, <1>5 DEF IInv

\* The steps of eval_buf, js_std_await and js_std_loop leave the lists alone.
LEMMA LoopSteps ==
  ASSUME IInv,
         \/ EndScript \/ ThrowScript \/ EndCall \/ ThrowJob \/ AwaitFulfilled \/ AwaitRejected
         \/ RunJob \/ NoJob \/ RejectionCheck
         \/ Wait \/ CallHandler \/ CallOnMessage \/ SelectReturns
  PROVE  IInv'
<1> USE DEF EndScript, ThrowScript, EndCall, ThrowJob, AwaitFulfilled, AwaitRejected, RunJob,
            NoJob, RejectionCheck, Wait, CallHandler, CallOnMessage, SelectReturns,
            Dispatch, EnterLoop
<1>1. UNCHANGED <<sourceVars, signalVars, module, rejected, handled, tracked>>
  BY DEF promiseVars
<1>2. /\ pc' \in PCs /\ pc' \notin {"clear", "scan", "unmask", "call", "exit0"}
      /\ phase' \in {"script", "await", "loop"}
      /\ job' \in {"none", "running", "threw"}
  BY DEF IInv, TypeOK, PCs, Polling, Ended
<1>3. jobs' \in 0..MaxJobs
  BY EventLoopAssumption DEF IInv, TypeOK, WantsJob
<1>4. tracking' \in BOOLEAN
  BY EventLoopAssumption DEF IInv, TypeOK, promiseVars
<1>5. TypeOK'
  BY <1>1, <1>2, <1>3, <1>4 DEF IInv, TypeOK, WordTypes, sourceVars, signalVars, wordVars
<1>6. SourcesInv' /\ MainInv' /\ UpdateInv' /\ SignalsKept'
  BY <1>1, <1>2, QuietSources, QuietWord DEF IInv, MainInv, sourceVars, signalVars
<1> QED
  BY <1>5, <1>6 DEF IInv

\* js_os_poll: a timer fires or no source is left.
LEMMA PollSteps ==
  ASSUME IInv, NoMoreEvents \/ FireTimer
  PROVE  IInv'
<1>1. CASE NoMoreEvents
  <2>1. /\ pc' \in {"exit0", "turn"} /\ ~ HasSources
        /\ UNCHANGED <<phase, module, job, jobs, promiseVars, sourceVars, signalVars>>
    BY <1>1 DEF NoMoreEvents
  <2>2. TypeOK'
    BY <2>1 DEF IInv, TypeOK, WordTypes, PCs, Ended, promiseVars, sourceVars, signalVars, wordVars
  <2>3. SourcesInv' /\ MainInv' /\ UpdateInv' /\ SignalsKept'
    BY <2>1, QuietSources, QuietWord
       DEF IInv, MainInv, sourceVars, HasSources, signalVars
  <2> QED
    BY <2>2, <2>3 DEF IInv
<1>2. CASE FireTimer
  <2>1. /\ pc' = "js"
        /\ UNCHANGED <<phase, module, job, jobs, promiseVars, handlers, func, ports, signalVars>>
    BY <1>2 DEF FireTimer
  <2>2. PICK i \in 1..Len(timers) : /\ due' = due \ {timers[i]}
                                    /\ timers' = RemoveAt(timers, i)
    BY <1>2 DEF FireTimer
  <2>3. timers' \in Seq(TimerSet) /\ due' \subseteq TimerSet
    BY <2>2, RemoveAtIs DEF IInv, TypeOK
  <2>4. TypeOK'
    BY <2>1, <2>3 DEF IInv, TypeOK, WordTypes, PCs, promiseVars, signalVars, wordVars
  <2>5. SourcesInv' /\ MainInv' /\ UpdateInv' /\ SignalsKept'
    BY <2>1, QuietSources, QuietWord DEF IInv, MainInv, signalVars
  <2> QED
    BY <2>4, <2>5 DEF IInv
<1> QED
  BY <1>1, <1>2

\* js_os_poll looks for a signal.
LEMMA ScanSteps ==
  ASSUME IInv, ScanSignals \/ NextSignal \/ FindSignal \/ NoSignals
  PROVE  IInv'
<1>1. /\ pc' \in {"scan", "unmask", "sources"} /\ scan' \in Nat
      /\ UNCHANGED <<phase, module, job, jobs, promiseVars, sourceVars, sigs, wordVars>>
  BY DEF IInv, TypeOK, ScanSignals, NextSignal, FindSignal, NoSignals, signalVars
<1>2. TypeOK'
  BY <1>1 DEF IInv, TypeOK, WordTypes, PCs, Polling, promiseVars, sourceVars, wordVars
<1>3. MainInv'
  BY DEF IInv, TypeOK, MainInv, ScanSignals, NextSignal, FindSignal, NoSignals, signalVars
<1>4. SourcesInv' /\ UpdateInv' /\ SignalsKept'
  BY <1>1, QuietSources, QuietWord DEF IInv, sourceVars
<1> QED
  BY <1>2, <1>3, <1>4 DEF IInv

\* An update of os_pending_signals begins: on the main thread or in a handler.
LEMMA ReadSteps ==
  ASSUME IInv,
         \/ EvalScript \/ ReadMask
         \/ \E a \in Activations, s \in Signals : SignalReads(a, s)
  PROVE  IInv'
<1>1. /\ scan' \in Nat /\ pc' \in PCs /\ (pc' = "exit0" => pc = "exit0")
      /\ UNCHANGED <<phase, module, job, jobs, promiseVars, sourceVars, sigs, pending>>
  BY DEF IInv, TypeOK, EvalScript, ReadMask, SignalReads, PCs, Polling
<1>2. PICK u \in Updaters, s \in Signals :
         /\ BeginUpdate(u, s)
         /\ \/ u = "main" /\ pc' = "clear" /\ s = Sigint
            \/ u = "main" /\ pc' = "call"
            \/ u # "main" /\ UNCHANGED <<pc, scan>>
  <2>1. CASE EvalScript
    BY <2>1, EventLoopAssumption DEF EvalScript, Updaters
  <2>2. CASE ReadMask
    <3>1. sigs[scan] \in Signals
      BY <2>2 DEF ReadMask, IInv, TypeOK, MainInv
    <3> QED
      BY <2>2, <3>1 DEF ReadMask, Updaters
  <2>3. ASSUME NEW a \in Activations, NEW s \in Signals, SignalReads(a, s)
        PROVE  a \in Updaters /\ a # "main" /\ BeginUpdate(a, s) /\ UNCHANGED <<pc, scan>>
    BY <2>3, EventLoopAssumption DEF SignalReads, Updaters
  <2> QED
    BY <2>1, <2>2, <2>3
<1>3. /\ WordTypes' /\ UpdateInv' /\ SignalsKept'
      /\ UnderWay' = UnderWay \cup {u} /\ update'[u].sig = s
      /\ \A v \in Updaters \ {u} : update'[v].sig = update[v].sig
  BY <1>1, <1>2, BeginKeeps DEF IInv
<1>4. TypeOK'
  BY <1>1, <1>3 DEF IInv, TypeOK, promiseVars, sourceVars
<1>5. MainInv'
  BY <1>1, <1>2, <1>3 DEF IInv, MainInv, Updaters
<1>6. SourcesInv'
  BY <1>1, QuietSources DEF IInv, SourcesInv, HasSources, sourceVars
<1> QED
  BY <1>3, <1>4, <1>5, <1>6 DEF IInv

\* An update of os_pending_signals ends.
LEMMA StoreSteps ==
  ASSUME IInv, ClearSigint \/ CallSignal \/ \E a \in Activations : SignalStores(a)
  PROVE  IInv'
<1>1. /\ pc' \in PCs /\ (pc' = "exit0" => pc = "exit0")
      /\ UNCHANGED <<phase, module, job, jobs, promiseVars, sourceVars, sigs, scan>>
  BY DEF IInv, TypeOK, ClearSigint, CallSignal, SignalStores, PCs
<1>2. ASSUME NEW u \in UnderWay, NEW word, NEW o \in {"no", "yes"},
             EndUpdate(u, word, o),
             \/ word = update[u].read \ {update[u].sig} /\ o = "no"
             \/ word = update[u].read \cup {update[u].sig} /\ o = "yes"
      PROVE  /\ WordTypes' /\ UpdateInv' /\ SignalsKept'
             /\ UnderWay' = UnderWay \ {u}
             /\ \A v \in Updaters \ {u} : update'[v].sig = update[v].sig
  <2>1. update[u].sig \in Signals /\ update[u].read \subseteq Signals
    BY DEF IInv, TypeOK, WordTypes, UnderWay, Updates
  <2>2. /\ word \subseteq Signals
        /\ \A r \in Signals \ {update[u].sig} : r \in word <=> r \in update[u].read
        /\ update[u].sig \in word <=> o = "yes"
    BY <1>2, <2>1
  <2> QED
    BY <1>2, <2>2, EndKeeps DEF IInv
<1>3. WordTypes' /\ UpdateInv' /\ SignalsKept' /\ MainInv'
  <2>1. CASE ClearSigint \/ CallSignal
    <3>1. /\ "main" \in UnderWay /\ pc' = "js"
          /\ EndUpdate("main", update["main"].read \ {update["main"].sig}, "no")
      BY <2>1 DEF ClearSigint, CallSignal, IInv, MainInv
    <3>2. MainInv'
      BY <3>1 DEF MainInv
    <3> QED
      BY <1>2, <3>1, <3>2
  <2>2. ASSUME NEW a \in Activations, SignalStores(a)
        PROVE  WordTypes' /\ UpdateInv' /\ SignalsKept' /\ MainInv'
    <3>1. /\ a \in UnderWay /\ UNCHANGED <<pc, sigs, scan>>
          /\ EndUpdate(a, update[a].read \cup {update[a].sig}, "yes")
      BY <2>2 DEF SignalStores
    <3>2. /\ WordTypes' /\ UpdateInv' /\ SignalsKept'
          /\ UnderWay' = UnderWay \ {a}
          /\ \A v \in Updaters \ {a} : update'[v].sig = update[v].sig
      BY <1>2, <3>1
    <3>3. a # "main" /\ "main" \in Updaters
      BY EventLoopAssumption DEF Updaters
    <3>4. MainInv'
      BY <3>1, <3>2, <3>3 DEF IInv, MainInv
    <3> QED
      BY <3>2, <3>4
  <2> QED
    BY <2>1, <2>2
<1>4. TypeOK'
  BY <1>1, <1>3 DEF IInv, TypeOK, promiseVars, sourceVars
<1>5. SourcesInv'
  BY <1>1, QuietSources DEF IInv, SourcesInv, HasSources, sourceVars
<1> QED
  BY <1>3, <1>4, <1>5 DEF IInv

\* Time passes, or nothing happens.
LEMMA OutsideSteps ==
  ASSUME IInv, UNCHANGED vars \/ \E t \in TimerSet : Expire(t)
  PROVE  IInv'
<1>1. /\ due' \subseteq TimerSet
      /\ UNCHANGED <<pc, phase, module, job, jobs, promiseVars, timers, handlers, func,
                     ports, signalVars>>
  BY DEF IInv, TypeOK, Expire, vars, sourceVars
<1>2. TypeOK'
  BY <1>1 DEF IInv, TypeOK, WordTypes, promiseVars, signalVars, wordVars
<1>3. SourcesInv'
  BY <1>1 DEF IInv, SourcesInv, HasSources
<1>4. UNCHANGED <<pc, sigs, scan, update>> /\ UpdateInv' /\ SignalsKept' /\ UNCHANGED UnderWay
  BY <1>1, QuietWord DEF IInv, signalVars, wordVars
<1>5. MainInv'
  BY <1>4 DEF IInv, MainInv
<1> QED
  BY <1>2, <1>3, <1>4, <1>5 DEF IInv

\* IInv holds in every state.
THEOREM Inductive == Spec => []IInv
<1>1. Init => IInv
  <2> SUFFICES ASSUME Init PROVE IInv
    OBVIOUS
  <2>1. UnderWay = {}
    BY DEF Init, UnderWay, NoUpdate
  <2>2. WordTypes
    BY DEF Init, WordTypes, Updates, NoUpdate
  <2>3. TypeOK
    BY <2>2, EventLoopAssumption DEF Init, TypeOK, PCs
  <2>4. SourcesInv /\ MainInv /\ UpdateInv /\ SignalsKept
    BY <2>1 DEF Init, SourcesInv, MainInv, UpdateInv, SignalsKept
  <2> QED
    BY <2>3, <2>4 DEF IInv
<1>2. IInv /\ [Next]_vars => IInv'
  <2> SUFFICES ASSUME IInv, [Next]_vars PROVE IInv'
    OBVIOUS
  <2>1. CASE Program
    BY <2>1, PromiseCalls, ListCalls, HandlerCalls DEF Program
  <2>2. CASE Loop \/ ThrowScript \/ ThrowJob \/ CallHandler \/ CallOnMessage \/ SelectReturns
    BY <2>2, LoopSteps, PollSteps, ScanSteps, ReadSteps, StoreSteps DEF Loop, ServeSignal
  <2> QED
    BY <2>1, <2>2, ReadSteps, StoreSteps, OutsideSteps DEF Next
<1> QED
  BY <1>1, <1>2, PTL DEF Spec

\* The state of the loop is well-typed, the queue of jobs within its bound.
THEOREM TypeCorrect == Spec => []TypeOK
<1>1. IInv => TypeOK
  BY DEF IInv
<1> QED
  BY <1>1, Inductive, PTL

\* js_std_loop ends with status 0 only when no timer, no read or write function and no
\* port is left that could call JavaScript again.
THEOREM EndCorrect == Spec => []EndsWhenIdle
<1>1. ASSUME IInv
      PROVE  EndsWhenIdle
  <2> SUFFICES ASSUME pc = "exit0"
               PROVE  timers = <<>> /\ func[0] \cup func[1] = {} /\ ports = <<>>
    BY DEF EndsWhenIdle
  <2>1. timers = <<>> /\ ports = <<>> /\ handlers = <<>>
    BY <1>1 DEF IInv, SourcesInv, HasSources
  <2>2. \A x : ~ Contains(<<>>, x)
    BY DEF Contains
  <2>3. func[0] = {} /\ func[1] = {}
    BY <1>1, <2>1, <2>2 DEF IInv, SourcesInv
  <2> QED
    BY <2>1, <2>3
<1> QED
  BY <1>1, Inductive, PTL

\* js_os_poll, evalScript and the handlers of any number of threads keep every signal and
\* make up none, but for those whose updates overlapped another update.
THEOREM SignalsCorrect == Spec => []SignalsKept
<1>1. IInv => SignalsKept
  BY DEF IInv
<1> QED
  BY <1>1, Inductive, PTL
-----------------------------------------------------------------------------
(* Timers *)
\* Owners are handles (with an id) or sleeps (without).
LEMMA Kinds ==
  /\ Owners = Handles \cup Sleeps /\ Handles \cap Sleeps = {}
  /\ \A x \in Owners : x \in Handles <=> x \notin Sleeps
  BY TimersAssumption DEF Owners, Handles

\* An entry of the list.
LEMMA EntryTypes ==
  ASSUME TimersIInv, NEW i \in 1..Len(osTimers)
  PROVE  /\ osTimers[i] \in Timer
         /\ osTimers[i].own \in Owners /\ osTimers[i].left \in Nat /\ osTimers[i].id \in Int
         /\ armed[osTimers[i].own]
<1>1. osTimers[i] \in Timer
  BY DEF TimersIInv, TimersTypeOK
<1>2. osTimers[i].own \in Owners /\ osTimers[i].left \in Nat /\ osTimers[i].id \in Int
  BY <1>1 DEF Timer
<1> QED
  BY <1>1, <1>2 DEF TimersIInv, ListInv, Listed

\* Two ids given out less than max calls ago are equal only if they are one.
LEMMA CycleInjective ==
  ASSUME NEW max \in Nat, NEW next \in 1..max,
         NEW a \in 0..(max - 1), NEW b \in 0..(max - 1),
         (IF a + 1 < next THEN next - a - 1 ELSE next - a - 1 + max)
           = (IF b + 1 < next THEN next - b - 1 ELSE next - b - 1 + max)
  PROVE  a = b
  OBVIOUS

\* Within MaxId calls of js_os_setTimeout an id means one timer only, although ids are
\* given out again after MaxId.
LEMMA SameId ==
  ASSUME TimersIInv, NEW x \in Handles, NEW y \in Handles,
         ref[x] # 0, age[x] < MaxId, ref[y] # 0, age[y] < MaxId, ref[x] = ref[y]
  PROVE  x = y
<1>1. /\ age[x] \in 0..MaxId /\ age[y] \in 0..MaxId /\ nextId \in 1..MaxId
      /\ MaxId \in Nat
  BY Kinds, TimersAssumption DEF TimersIInv, TimersTypeOK
<1>2. /\ ref[x] = IF age[x] + 1 < nextId THEN nextId - age[x] - 1
                                         ELSE nextId - age[x] - 1 + MaxId
      /\ ref[y] = IF age[y] + 1 < nextId THEN nextId - age[y] - 1
                                         ELSE nextId - age[y] - 1 + MaxId
  BY DEF TimersIInv, IdInv
<1>3. age[x] \in 0..(MaxId - 1) /\ age[y] \in 0..(MaxId - 1)
  BY <1>1
<1>4. age[x] = age[y]
  BY <1>1, <1>2, <1>3, CycleInjective
<1> QED
  BY <1>3, <1>4, <1>1 DEF TimersIInv, IdInv

\* js_os_clearTimeout of a handle takes out the handle's own timer or, when it has
\* fired or was cleared before, nothing.
LEMMA ClearIs ==
  ASSUME TimersIInv, NEW x \in Handles, age[x] < MaxId, ClearId(ref[x])
  PROVE  \/ ~ armed[x] /\ osTimers' = osTimers
         \/ \E i \in 1..Len(osTimers) :
              osTimers[i].own = x /\ osTimers' = RemoveAt(osTimers, i)
<1>1. ASSUME NEW i \in 1..Len(osTimers), ref[x] > 0, osTimers[i].id = ref[x]
      PROVE  osTimers[i].own = x
  <2> DEFINE y == osTimers[i].own
  <2>1. y \in Owners /\ armed[y]
    BY EntryTypes
  <2>2. osTimers[i].id = IF y \in Sleeps THEN -1 ELSE ref[y]
    BY DEF TimersIInv, ListInv
  <2>3. y \in Handles /\ ref[y] = ref[x]
    BY <1>1, <2>1, <2>2, Kinds
  <2>4. ref[y] # 0 /\ age[y] < MaxId
    BY <2>1, <2>3 DEF TimersIInv, IdInv
  <2> QED
    BY <1>1, <2>3, <2>4, SameId
<1>2. CASE \E i \in FoundById(ref[x]) : osTimers' = RemoveAt(osTimers, i)
  BY <1>1, <1>2 DEF FoundById
<1>3. CASE FoundById(ref[x]) = {} /\ UNCHANGED osTimers
  <2> SUFFICES ASSUME armed[x] PROVE FALSE
    BY <1>3
  <2>1. PICK i \in 1..Len(osTimers) : osTimers[i].own = x
    BY Kinds DEF TimersIInv, ListInv, Listed
  <2>2. ref[x] > 0 /\ osTimers[i].id = ref[x]
    <3>1. ref[x] # 0 /\ ref[x] \in 0..MaxId /\ MaxId \in Nat
      BY Kinds, TimersAssumption DEF TimersIInv, IdInv, TimersTypeOK
    <3> QED
      BY <2>1, <3>1, Kinds DEF TimersIInv, ListInv
  <2>3. \A j \in 1..(i - 1) : osTimers[j].id # ref[x]
    <3> SUFFICES ASSUME NEW j \in 1..(i - 1), osTimers[j].id = ref[x] PROVE FALSE
      OBVIOUS
    <3>1. j \in 1..Len(osTimers) /\ j < i
      BY DEF TimersIInv, TimersTypeOK
    <3>2. osTimers[j].own = x
      BY <1>1, <2>2, <3>1
    <3> QED
      BY <2>1, <3>1, <3>2 DEF TimersIInv, ListInv
  <2>4. i \in FoundById(ref[x])
    BY <2>2, <2>3 DEF FoundById
  <2> QED
    BY <1>3, <2>4
<1> QED
  BY <1>2, <1>3 DEF ClearId

\* An entry is taken out and its owner disarmed: the rest of the list stays in order.
LEMMA Removed ==
  ASSUME TimersIInv, NEW i \in 1..Len(osTimers), osTimers' = RemoveAt(osTimers, i),
         armed' = [armed EXCEPT ![osTimers[i].own] = FALSE],
         ref' = ref, age' = age
  PROVE  osTimers' \in Seq(Timer) /\ ListInv'
<1> DEFINE old(k) == IF k < i THEN k ELSE k + 1
<1>1. osTimers \in Seq(Timer) /\ Len(osTimers) \in Nat
  BY DEF TimersIInv, TimersTypeOK
<1>2. /\ osTimers' \in Seq(Timer) /\ Len(osTimers') = Len(osTimers) - 1
      /\ \A k \in 1..Len(osTimers') : osTimers'[k] = osTimers[old(k)]
  BY <1>1, RemoveAtIs
<1>3. \A k \in 1..Len(osTimers') : old(k) \in 1..Len(osTimers) \ {i}
  BY <1>1, <1>2
<1>4. \A k, m \in 1..Len(osTimers') : k < m => old(k) < old(m)
  BY <1>1, <1>2
<1>5. \A m \in 1..Len(osTimers) \ {i} : \E k \in 1..Len(osTimers') : old(k) = m
  <2> TAKE m \in 1..Len(osTimers) \ {i}
  <2>1. CASE m < i
    BY <1>1, <1>2, <2>1
  <2>2. CASE m > i
    <3>1. m - 1 \in 1..Len(osTimers') /\ old(m - 1) = m
      BY <1>1, <1>2, <2>2
    <3> QED
      BY <3>1
  <2> QED
    BY <2>1, <2>2
<1> HIDE DEF old
<1>6. \A m \in 1..Len(osTimers) \ {i} : osTimers[m].own # osTimers[i].own
  BY <1>1 DEF TimersIInv, ListInv
<1>7. \A x \in Owners : armed'[x] <=> Listed(x)'
  <2> TAKE x \in Owners
  <2>1. armed'[x] <=> armed[x] /\ x # osTimers[i].own
    BY DEF TimersIInv, TimersTypeOK
  <2>2. Listed(x)' <=> \E m \in 1..Len(osTimers) \ {i} : osTimers[m].own = x
    <3>1. ASSUME NEW k \in 1..Len(osTimers'), osTimers'[k].own = x
          PROVE  \E m \in 1..Len(osTimers) \ {i} : osTimers[m].own = x
      BY <1>2, <1>3, <3>1
    <3>2. ASSUME NEW m \in 1..Len(osTimers) \ {i}, osTimers[m].own = x
          PROVE  \E k \in 1..Len(osTimers') : osTimers'[k].own = x
      BY <1>2, <1>5, <3>2
    <3> QED
      BY <3>1, <3>2 DEF Listed
  <2> QED
    BY <1>6, <2>1, <2>2 DEF TimersIInv, ListInv, Listed
<1>8. \A k \in 1..Len(osTimers') :
        osTimers'[k].id = IF osTimers'[k].own \in Sleeps THEN -1 ELSE ref'[osTimers'[k].own]
  BY <1>2, <1>3 DEF TimersIInv, ListInv
<1>9. \A k, m \in 1..Len(osTimers') : k < m =>
        /\ osTimers'[k].own # osTimers'[m].own
        /\ osTimers'[k].own \in Handles /\ osTimers'[m].own \in Handles =>
             age'[osTimers'[k].own] > age'[osTimers'[m].own]
  BY <1>2, <1>3, <1>4 DEF TimersIInv, ListInv
<1> QED
  BY <1>2, <1>7, <1>8, <1>9 DEF ListInv

\* What an id given out a calls ago was, told one call later.
LEMMA CycleNext ==
  ASSUME NEW max \in Nat \ {0}, NEW next \in 1..max, NEW a \in 0..(max - 1)
  PROVE  LET after == IF next = max THEN 1 ELSE next + 1
         IN /\ after \in 1..max
            /\ a + 1 < max =>
                 (IF (a + 1) + 1 < after THEN after - (a + 1) - 1
                                         ELSE after - (a + 1) - 1 + max)
                   = (IF a + 1 < next THEN next - a - 1 ELSE next - a - 1 + max)
            /\ next = IF 0 + 1 < after THEN after - 0 - 1 ELSE after - 0 - 1 + max
  OBVIOUS

\* js_os_setTimeout: the new entry is the last of the list, its id is free.
LEMMA NewTimerKeeps ==
  ASSUME TimersIInv, NEW x \in Handles, NEW d \in Nat, ~ armed[x], NewTimer(x, d)
  PROVE  /\ osTimers' \in Seq(Timer) /\ nextId' \in 1..MaxId
         /\ ref' \in [Owners -> 0..MaxId] /\ age' \in [Owners -> 0..MaxId]
         /\ armed' \in [Owners -> BOOLEAN]
         /\ IdInv' /\ ListInv'
<1> DEFINE entry == [id |-> nextId, left |-> d, own |-> x]
<1>1. /\ x \in Owners /\ x \notin Sleeps /\ Handles \subseteq Owners
      /\ MaxId \in Nat \ {0} /\ nextId \in 1..MaxId /\ nextId # 0
      /\ entry \in Timer
  BY Kinds, TimersAssumption DEF TimersIInv, TimersTypeOK, Timer
<1>2. nextId' \in 1..MaxId /\ nextId' = IF nextId = MaxId THEN 1 ELSE nextId + 1
  BY <1>1, CycleNext DEF NewTimer, NextTimerId
<1>3. /\ osTimers' = Append(osTimers, entry) /\ osTimers \in Seq(Timer)
      /\ osTimers' \in Seq(Timer) /\ Len(osTimers') = Len(osTimers) + 1 /\ Len(osTimers) \in Nat
      /\ \A i \in 1..Len(osTimers) : osTimers'[i] = osTimers[i]
      /\ osTimers'[Len(osTimers) + 1] = entry
  <2>1. osTimers' = Append(osTimers, entry) /\ osTimers \in Seq(Timer)
    BY DEF TimersIInv, TimersTypeOK, NewTimer, AddTimer
  <2> HIDE DEF entry
  <2> QED
    BY <1>1, <2>1
<1>4. \A y \in Owners : /\ age[y] \in 0..MaxId /\ ref[y] \in 0..MaxId
                        /\ y # x => /\ ref'[y] = ref[y]
                                    /\ age'[y] = IF age[y] < MaxId THEN age[y] + 1
                                                                   ELSE age[y]
                                    /\ armed'[y] = armed[y]
  BY DEF TimersIInv, TimersTypeOK, NewTimer
<1>5. ref'[x] = nextId /\ age'[x] = 0 /\ armed'[x] = TRUE
  BY <1>1 DEF TimersIInv, TimersTypeOK, NewTimer
<1>6. /\ ref' \in [Owners -> 0..MaxId] /\ age' \in [Owners -> 0..MaxId]
      /\ armed' \in [Owners -> BOOLEAN]
  BY <1>1 DEF TimersIInv, TimersTypeOK, NewTimer
<1>7. \A y \in Handles : armed[y] => /\ ref[y] # 0 /\ age[y] + 1 < MaxId
                                     /\ y # x /\ age'[y] = age[y] + 1
  <2> SUFFICES ASSUME NEW y \in Handles, armed[y]
               PROVE  ref[y] # 0 /\ age[y] + 1 < MaxId /\ y # x /\ age'[y] = age[y] + 1
    OBVIOUS
  <2>1. ref[y] # 0 /\ age[y] < MaxId - 1 /\ y # x /\ y \in Owners
    BY Kinds DEF TimersIInv, IdInv, NewTimer, WindowOpen
  <2> QED
    BY <1>1, <1>4, <2>1
<1>8. IdInv'
  <2>1. ASSUME NEW y \in Handles, ref'[y] # 0, age'[y] < MaxId
        PROVE  ref'[y] = IF age'[y] + 1 < nextId' THEN nextId' - age'[y] - 1
                                                  ELSE nextId' - age'[y] - 1 + MaxId
    <3>1. CASE y = x
      BY <1>1, <1>2, <1>5, <3>1, CycleNext
    <3>2. CASE y # x
      <4>1. /\ ref'[y] = ref[y] /\ ref[y] # 0 /\ age[y] \in 0..(MaxId - 1)
            /\ age'[y] = age[y] + 1 /\ age[y] + 1 < MaxId
        BY <1>1, <1>4, <2>1, <3>2
      <4>2. ref[y] = IF age[y] + 1 < nextId THEN nextId - age[y] - 1
                                            ELSE nextId - age[y] - 1 + MaxId
        BY <1>1, <4>1 DEF TimersIInv, IdInv
      <4> QED
        BY <1>1, <1>2, <4>1, <4>2, CycleNext
    <3> QED
      BY <3>1, <3>2
  <2>2. ASSUME NEW y \in Handles, NEW z \in Handles, ref'[y] # 0, ref'[z] # 0, y # z,
               age'[y] = age'[z]
        PROVE  age'[y] = MaxId
    <3>1. \A w \in Handles : w # x => age'[w] # 0
      BY <1>1, <1>4
    <3>2. y # x /\ z # x
      BY <1>5, <2>2, <3>1
    <3>3. CASE age[y] = age[z]
      BY <1>1, <1>4, <2>2, <3>2, <3>3 DEF TimersIInv, IdInv
    <3>4. CASE age[y] # age[z]
      BY <1>1, <1>4, <2>2, <3>2, <3>4
    <3> QED
      BY <3>3, <3>4
  <2>3. ASSUME NEW y \in Handles, armed'[y]
        PROVE  ref'[y] # 0 /\ age'[y] < MaxId
    BY <1>1, <1>4, <1>5, <1>7, <2>3
  <2> QED
    BY <2>1, <2>2, <2>3 DEF IdInv
<1>9. ListInv'
  <2>1. ASSUME NEW y \in Owners
        PROVE  armed'[y] <=> Listed(y)'
    <3>1. Listed(y)' <=> Listed(y) \/ y = x
      BY <1>3 DEF Listed
    <3> QED
      BY <1>4, <1>5, <3>1 DEF TimersIInv, ListInv
  <2>2. \A i \in 1..Len(osTimers) : osTimers[i].own # x /\ osTimers[i].own \in Owners
    BY <1>1, EntryTypes
  <2>3. ASSUME NEW i \in 1..Len(osTimers')
        PROVE  osTimers'[i].id = IF osTimers'[i].own \in Sleeps THEN -1
                                                                  ELSE ref'[osTimers'[i].own]
    <3>1. CASE i \in 1..Len(osTimers)
      BY <1>3, <1>4, <2>2, <3>1 DEF TimersIInv, ListInv
    <3>2. CASE i = Len(osTimers) + 1
      BY <1>1, <1>3, <1>5, <3>2
    <3> QED
      BY <1>3, <3>1, <3>2
  <2>4. ASSUME NEW i \in 1..Len(osTimers'), NEW j \in 1..Len(osTimers'), i < j
        PROVE  /\ osTimers'[i].own # osTimers'[j].own
               /\ osTimers'[i].own \in Handles /\ osTimers'[j].own \in Handles =>
                    age'[osTimers'[i].own] > age'[osTimers'[j].own]
    <3>1. i \in 1..Len(osTimers) /\ osTimers'[i] = osTimers[i]
      BY <1>3, <2>4
    <3>2. osTimers[i].own # x /\ osTimers[i].own \in Owners /\ armed[osTimers[i].own]
      BY <2>2, <3>1, EntryTypes
    <3>3. CASE j \in 1..Len(osTimers)
      <4>1. osTimers'[j] = osTimers[j] /\ armed[osTimers[j].own] /\ osTimers[j].own \in Owners
        BY <1>3, <3>3, EntryTypes
      <4>2. /\ osTimers[i].own # osTimers[j].own
            /\ osTimers[i].own \in Handles /\ osTimers[j].own \in Handles =>
                 age[osTimers[i].own] > age[osTimers[j].own]
        BY <2>4, <3>1, <3>3 DEF TimersIInv, ListInv
      <4>3. ASSUME osTimers[i].own \in Handles, osTimers[j].own \in Handles
            PROVE  age'[osTimers[i].own] > age'[osTimers[j].own]
        <5>1. /\ age'[osTimers[i].own] = age[osTimers[i].own] + 1
              /\ age'[osTimers[j].own] = age[osTimers[j].own] + 1
          BY <1>7, <3>2, <4>1, <4>3
        <5>2. age[osTimers[i].own] \in Int /\ age[osTimers[j].own] \in Int
          BY <1>1, <1>4, <3>2, <4>1
        <5> QED
          BY <4>2, <4>3, <5>1, <5>2
      <4> QED
        BY <3>1, <4>1, <4>2, <4>3
    <3>4. CASE j = Len(osTimers) + 1
      <4>1. osTimers'[j].own = x
        BY <1>3, <3>4
      <4>2. osTimers[i].own \in Handles => age'[osTimers[i].own] > 0
        <5>1. osTimers[i].own \in Handles =>
                /\ age'[osTimers[i].own] = age[osTimers[i].own] + 1
                /\ age[osTimers[i].own] \in 0..MaxId
          BY <1>4, <1>7, <3>2
        <5> QED
          BY <1>1, <5>1
      <4> QED
        BY <1>5, <3>1, <3>2, <4>1, <4>2
    <3> QED
      BY <1>3, <3>3, <3>4
  <2> QED
    BY <2>1, <2>3, <2>4 DEF ListInv
<1> QED
  BY <1>2, <1>3, <1>6, <1>8, <1>9

\* Disarming a timer disturbs no id.
LEMMA Disarmed ==
  ASSUME TimersIInv, NEW x \in Owners, armed' = [armed EXCEPT ![x] = FALSE],
         UNCHANGED <<nextId, ref, age>>
  PROVE  /\ IdInv' /\ armed' \in [Owners -> BOOLEAN]
         /\ \A y \in Owners : armed'[y] = IF y = x THEN FALSE ELSE armed[y]
<1>1. /\ armed' \in [Owners -> BOOLEAN]
      /\ \A y \in Owners : armed'[y] = IF y = x THEN FALSE ELSE armed[y]
  BY DEF TimersIInv, TimersTypeOK
<1>2. \A y \in Handles : armed'[y] => armed[y]
  BY <1>1, Kinds
<1>3. IdInv'
  BY <1>2 DEF TimersIInv, IdInv
<1> QED
  BY <1>1, <1>3

\* js_os_clearTimeout of the id of x, by clearTimeout or clearInterval.
LEMMA ClearKeeps ==
  ASSUME TimersIInv, NEW x \in Handles, age[x] < MaxId, ClearId(ref[x]),
         armed' = [armed EXCEPT ![x] = FALSE], UNCHANGED <<nextId, ref, age>>
  PROVE  osTimers' \in Seq(Timer) /\ IdInv' /\ ListInv'
<1>1. x \in Owners
  BY Kinds
<1>2. CASE ~ armed[x] /\ osTimers' = osTimers
  <2>1. armed' = armed
    BY <1>1, <1>2 DEF TimersIInv, TimersTypeOK
  <2> QED
    BY <1>2, <2>1 DEF TimersIInv, TimersTypeOK, IdInv, ListInv, Listed
<1>3. ASSUME NEW i \in 1..Len(osTimers), osTimers[i].own = x, osTimers' = RemoveAt(osTimers, i)
      PROVE  osTimers' \in Seq(Timer) /\ IdInv' /\ ListInv'
  <2>1. osTimers' \in Seq(Timer) /\ ListInv'
    BY <1>3, Removed
  <2> QED
    BY <1>1, <2>1, Disarmed
<1> QED
  BY <1>2, <1>3, ClearIs

\* globalThis.setTimeout of a variable whose timer is not pending.
LEMMA SetTimeoutStep ==
  ASSUME TimersIInv, NEW x \in Timeouts, NEW d \in Delays, SetTimeout(x, d)
  PROVE  TimersIInv'
<1>1. x \in Handles /\ d \in Nat /\ x \notin Intervals
  BY TimersAssumption DEF Handles, Delays
<1>2. /\ osTimers' \in Seq(Timer) /\ nextId' \in 1..MaxId
      /\ ref' \in [Owners -> 0..MaxId] /\ age' \in [Owners -> 0..MaxId]
      /\ armed' \in [Owners -> BOOLEAN]
      /\ IdInv' /\ ListInv'
  BY <1>1, NewTimerKeeps DEF SetTimeout
<1>3. TimersTypeOK'
  BY <1>2 DEF TimersIInv, TimersTypeOK, SetTimeout
<1>4. TickInv'
  <2>1. \A h \in Intervals : armed'[h] = armed[h]
    BY <1>1 DEF TimersIInv, TimersTypeOK, Owners, SetTimeout, NewTimer
  <2> QED
    BY <2>1 DEF TimersIInv, TickInv, SetTimeout
<1> QED
  BY <1>2, <1>3, <1>4 DEF TimersIInv

\* globalThis.clearTimeout, on a pending timer or one that has fired.
LEMMA ClearTimeoutStep ==
  ASSUME TimersIInv, NEW x \in Timeouts, ClearTimeout(x)
  PROVE  TimersIInv'
<1>1. x \in Handles /\ x \in Owners /\ x \notin Intervals
  BY TimersAssumption DEF Handles, Owners
<1>2. osTimers' \in Seq(Timer) /\ IdInv' /\ ListInv'
  BY <1>1, ClearKeeps DEF ClearTimeout, InWindow
<1>3. TimersTypeOK'
  BY <1>2, <1>1 DEF TimersIInv, TimersTypeOK, ClearTimeout
<1>4. TickInv'
  <2>1. \A h \in Intervals : armed'[h] = armed[h]
    BY <1>1 DEF TimersIInv, TimersTypeOK, Owners, ClearTimeout
  <2> QED
    BY <2>1 DEF TimersIInv, TickInv, ClearTimeout
<1> QED
  BY <1>2, <1>3, <1>4 DEF TimersIInv

\* clearTimeout of 0 or -1: nothing is found, entries of id -1 included.
LEMMA ClearNoTimerStep ==
  ASSUME TimersIInv, NEW id \in {-1, 0}, ClearNoTimer(id)
  PROVE  TimersIInv'
<1>1. osTimers' = osTimers
  BY DEF ClearNoTimer, ClearId, FoundById
<1>2. TimersTypeOK'
  BY <1>1 DEF TimersIInv, TimersTypeOK, ClearNoTimer
<1>3. IdInv' /\ ListInv' /\ TickInv'
  BY <1>1 DEF TimersIInv, IdInv, ListInv, Listed, TickInv, ClearNoTimer
<1> QED
  BY <1>2, <1>3 DEF TimersIInv

\* globalThis.setInterval makes a new object, which has no timer yet.
LEMMA SetIntervalStep ==
  ASSUME TimersIInv, NEW h \in Intervals, NEW d \in Delays, SetInterval(h, d)
  PROVE  TimersIInv'
<1>1. h \in Handles /\ h \in Owners /\ d \in Nat
  BY TimersAssumption DEF Handles, Owners, Delays
<1>2. ~ armed[h]
  BY DEF TimersIInv, TickInv, SetInterval
<1>3. /\ osTimers' \in Seq(Timer) /\ nextId' \in 1..MaxId
      /\ ref' \in [Owners -> 0..MaxId] /\ age' \in [Owners -> 0..MaxId]
      /\ armed' \in [Owners -> BOOLEAN]
      /\ IdInv' /\ ListInv'
  BY <1>1, <1>2, NewTimerKeeps DEF SetInterval
<1>4. TimersTypeOK'
  BY <1>3 DEF TimersIInv, TimersTypeOK, SetInterval
<1>5. TickInv'
  <2>1. \A g \in Intervals : armed'[g] = IF g = h THEN TRUE ELSE armed[g]
    BY <1>1 DEF TimersIInv, TimersTypeOK, Owners, SetInterval, NewTimer
  <2>2. \A g \in Intervals : /\ active'[g] = IF g = h THEN TRUE ELSE active[g]
                             /\ threw'[g] = IF g = h THEN FALSE ELSE threw[g]
    BY DEF TimersIInv, TimersTypeOK, SetInterval
  <2> QED
    BY <2>1, <2>2 DEF TimersIInv, TickInv, SetInterval
<1> QED
  BY <1>3, <1>4, <1>5 DEF TimersIInv

\* globalThis.clearInterval: neither the chain nor a timer of it goes on.
LEMMA ClearIntervalStep ==
  ASSUME TimersIInv, NEW h \in Intervals, ClearInterval(h)
  PROVE  TimersIInv'
<1>1. h \in Handles /\ h \in Owners
  BY DEF Handles, Owners
<1>2. osTimers' \in Seq(Timer) /\ IdInv' /\ ListInv'
  BY <1>1, ClearKeeps DEF ClearInterval, InWindow
<1>3. TimersTypeOK'
  BY <1>2, <1>1 DEF TimersIInv, TimersTypeOK, ClearInterval
<1>4. TickInv'
  <2>1. \A g \in Intervals : /\ armed'[g] = IF g = h THEN FALSE ELSE armed[g]
                             /\ active'[g] = IF g = h THEN FALSE ELSE active[g]
    BY <1>1 DEF TimersIInv, TimersTypeOK, Owners, ClearInterval
  <2> QED
    BY <2>1 DEF TimersIInv, TickInv, ClearInterval
<1> QED
  BY <1>2, <1>3, <1>4 DEF TimersIInv

\* js_os_sleepAsync: an entry that no id leads to.
LEMMA SleepAsyncStep ==
  ASSUME TimersIInv, NEW x \in Sleeps, NEW d \in Delays, SleepAsync(x, d)
  PROVE  TimersIInv'
<1> DEFINE entry == [id |-> -1, left |-> d, own |-> x]
<1>1. /\ x \in Owners /\ x \notin Handles /\ d \in Nat /\ entry \in Timer
      /\ Handles \subseteq Owners
  BY Kinds, TimersAssumption DEF Delays, Timer
<1>2. /\ osTimers' \in Seq(Timer) /\ Len(osTimers') = Len(osTimers) + 1 /\ Len(osTimers) \in Nat
      /\ \A i \in 1..Len(osTimers) : osTimers'[i] = osTimers[i]
      /\ osTimers'[Len(osTimers) + 1] = entry
  <2>1. osTimers' = Append(osTimers, entry) /\ osTimers \in Seq(Timer)
    BY DEF TimersIInv, TimersTypeOK, SleepAsync, AddTimer
  <2> HIDE DEF entry
  <2> QED
    BY <1>1, <2>1
<1>3. \A y \in Owners : armed'[y] = IF y = x THEN TRUE ELSE armed[y]
  BY DEF TimersIInv, TimersTypeOK, SleepAsync
<1>4. TimersTypeOK'
  BY <1>1, <1>2 DEF TimersIInv, TimersTypeOK, SleepAsync
<1>5. IdInv'
  BY <1>1, <1>3 DEF TimersIInv, IdInv, SleepAsync
<1>6. ListInv'
  <2>1. ASSUME NEW y \in Owners
        PROVE  armed'[y] <=> Listed(y)'
    <3>1. Listed(y)' <=> Listed(y) \/ y = x
      BY <1>2 DEF Listed
    <3> QED
      BY <1>3, <3>1 DEF TimersIInv, ListInv
  <2>2. \A i \in 1..Len(osTimers) : osTimers[i].own # x
    BY EntryTypes DEF SleepAsync
  <2>3. ASSUME NEW i \in 1..Len(osTimers')
        PROVE  osTimers'[i].id = IF osTimers'[i].own \in Sleeps THEN -1
                                                                  ELSE ref'[osTimers'[i].own]
    <3>1. CASE i \in 1..Len(osTimers)
      BY <1>2, <3>1 DEF TimersIInv, ListInv, SleepAsync
    <3>2. CASE i = Len(osTimers) + 1
      BY <1>2, <3>2
    <3> QED
      BY <1>2, <3>1, <3>2
  <2>4. ASSUME NEW i \in 1..Len(osTimers'), NEW j \in 1..Len(osTimers'), i < j
        PROVE  /\ osTimers'[i].own # osTimers'[j].own
               /\ osTimers'[i].own \in Handles /\ osTimers'[j].own \in Handles =>
                    age'[osTimers'[i].own] > age'[osTimers'[j].own]
    <3>1. i \in 1..Len(osTimers) /\ osTimers'[i] = osTimers[i]
      BY <1>2, <2>4
    <3>2. CASE j \in 1..Len(osTimers)
      BY <1>2, <2>4, <3>1, <3>2 DEF TimersIInv, ListInv, SleepAsync
    <3>3. CASE j = Len(osTimers) + 1
      BY <1>1, <1>2, <2>2, <3>1, <3>3
    <3> QED
      BY <1>2, <3>2, <3>3
  <2> QED
    BY <2>1, <2>3, <2>4 DEF ListInv
<1>7. TickInv'
  BY <1>1, <1>3 DEF TimersIInv, TickInv, SleepAsync, Handles, Owners
<1> QED
  BY <1>4, <1>5, <1>6, <1>7 DEF TimersIInv

\* js_os_poll takes an expired timer out of the list before it calls it.
LEMMA FireStep ==
  ASSUME TimersIInv, Fire
  PROVE  TimersIInv'
<1>1. PICK i \in 1..Len(osTimers) :
        /\ osTimers' = RemoveAt(osTimers, i)
        /\ armed' = [armed EXCEPT ![osTimers[i].own] = FALSE]
        /\ run' = IF osTimers[i].own \in Intervals /\ ~ active[osTimers[i].own]
                  THEN Idle ELSE osTimers[i].own
  BY DEF Fire
<1> DEFINE x == osTimers[i].own
<1>2. UNCHANGED <<nextId, ref, active, period, threw, age>> /\ run = Idle
  BY DEF Fire
<1>3. x \in Owners /\ armed[x]
  BY EntryTypes
<1>4. osTimers' \in Seq(Timer) /\ ListInv'
  BY <1>1, <1>2, Removed
<1>5. /\ IdInv' /\ armed' \in [Owners -> BOOLEAN]
      /\ \A y \in Owners : armed'[y] = IF y = x THEN FALSE ELSE armed[y]
  BY <1>1, <1>2, <1>3, Disarmed
<1> HIDE DEF x
<1>6. TimersTypeOK'
  BY <1>1, <1>2, <1>3, <1>4, <1>5 DEF TimersIInv, TimersTypeOK, x
<1>7. TickInv'
  <2>1. Idle \notin Intervals /\ Intervals \subseteq Owners
    BY TimersAssumption DEF Owners
  <2>2. x \in Intervals => active[x]
    BY <1>3 DEF TimersIInv, TickInv
  <2>3. run' = x
    BY <1>1, <2>2 DEF x
  <2>4. \A h \in Intervals : run # h
    BY <1>2, <2>1
  <2> QED
    BY <1>2, <1>5, <2>1, <2>3, <2>4 DEF TimersIInv, TickInv
<1> QED
  BY <1>4, <1>5, <1>6, <1>7 DEF TimersIInv

\* A callback ends and sets no timer.
LEMMA EndCallbackStep ==
  ASSUME TimersIInv, EndCallback \/ ThrowTick
  PROVE  TimersIInv'
<1>1. TimersTypeOK'
  BY DEF TimersIInv, TimersTypeOK, EndCallback, ThrowTick
<1>2. IdInv' /\ ListInv'
  BY DEF TimersIInv, IdInv, ListInv, Listed, EndCallback, ThrowTick
<1>3. TickInv'
  <2>1. Idle \notin Intervals
    BY TimersAssumption DEF Owners
  <2>2. CASE EndCallback
    BY <2>1, <2>2 DEF TimersIInv, TickInv, EndCallback
  <2>3. CASE ThrowTick
    BY <2>1, <2>3 DEF TimersIInv, TimersTypeOK, TickInv, ThrowTick
  <2> QED
    BY <2>2, <2>3
<1> QED
  BY <1>1, <1>2, <1>3 DEF TimersIInv

\* The tick of an active interval sets the next timer: the interval has none.
LEMMA EndTickStep ==
  ASSUME TimersIInv, EndTick
  PROVE  TimersIInv'
<1>1. /\ run \in Intervals /\ run \in Handles /\ run \in Owners /\ ~ armed[run]
      /\ period[run] \in Nat
  BY TimersAssumption DEF TimersIInv, TimersTypeOK, TickInv, EndTick, Handles, Owners, Delays
<1>2. /\ osTimers' \in Seq(Timer) /\ nextId' \in 1..MaxId
      /\ ref' \in [Owners -> 0..MaxId] /\ age' \in [Owners -> 0..MaxId]
      /\ armed' \in [Owners -> BOOLEAN]
      /\ IdInv' /\ ListInv'
  BY <1>1, NewTimerKeeps DEF EndTick
<1>3. TimersTypeOK'
  BY <1>2 DEF TimersIInv, TimersTypeOK, EndTick
<1>4. TickInv'
  <2>1. \A h \in Intervals : armed'[h] = IF h = run THEN TRUE ELSE armed[h]
    BY <1>1 DEF TimersIInv, TimersTypeOK, Owners, EndTick, NewTimer
  <2>2. Idle \notin Intervals
    BY TimersAssumption DEF Owners
  <2> QED
    BY <2>1, <2>2 DEF TimersIInv, TickInv, EndTick
<1> QED
  BY <1>2, <1>3, <1>4 DEF TimersIInv

\* Time passes: entries keep their places, owners and ids.
LEMMA TickStep ==
  ASSUME TimersIInv, Tick
  PROVE  TimersIInv'
<1>1. osTimers \in Seq(Timer) /\ Len(osTimers) \in Nat
  BY DEF TimersIInv, TimersTypeOK
<1>2. ASSUME NEW i \in 1..Len(osTimers)
      PROVE  LET e == [osTimers[i] EXCEPT !.left = IF @ > 0 THEN @ - 1 ELSE 0]
             IN e \in Timer /\ e.id = osTimers[i].id /\ e.own = osTimers[i].own
  BY EntryTypes DEF Timer
<1>3. osTimers' = [i \in 1..Len(osTimers) |->
                   [osTimers[i] EXCEPT !.left = IF @ > 0 THEN @ - 1 ELSE 0]]
  BY DEF Tick
<1>4. osTimers' \in [1..Len(osTimers) -> Timer]
  BY <1>2, <1>3
<1>5. osTimers' \in Seq(Timer) /\ Len(osTimers') = Len(osTimers)
  BY <1>1, <1>4
<1>6. \A i \in 1..Len(osTimers) : /\ osTimers'[i].id = osTimers[i].id
                                  /\ osTimers'[i].own = osTimers[i].own
  BY <1>2, <1>3
<1>7. TimersTypeOK'
  BY <1>5 DEF TimersIInv, TimersTypeOK, Tick
<1>8. ListInv'
  BY <1>5, <1>6 DEF TimersIInv, ListInv, Listed, Tick
<1>9. IdInv' /\ TickInv'
  BY DEF TimersIInv, IdInv, TickInv, Tick
<1> QED
  BY <1>7, <1>8, <1>9 DEF TimersIInv

\* No timer has been set.
LEMMA TimersInitIInv == TimersInit => TimersIInv
<1> SUFFICES ASSUME TimersInit PROVE TimersIInv
  OBVIOUS
<1>1. 0 \in 0..MaxId /\ 1 \in 1..MaxId /\ 0 \in Delays
  BY TimersAssumption DEF Delays
<1>2. TimersTypeOK
  BY <1>1 DEF TimersInit, TimersTypeOK
<1>3. IdInv /\ ListInv /\ TickInv
  BY TimersAssumption DEF TimersInit, IdInv, ListInv, Listed, TickInv, Owners, Handles
<1> QED
  BY <1>2, <1>3 DEF TimersIInv

\* IInv holds in every state.
THEOREM TimersInductive == TimersSpec => []TimersIInv
<1>1. TimersIInv /\ [TimersNext]_timerVars => TimersIInv'
  <2> SUFFICES ASSUME TimersIInv, [TimersNext]_timerVars PROVE TimersIInv'
    OBVIOUS
  <2>1. CASE TimersProgram
    BY <2>1, SetTimeoutStep, ClearTimeoutStep, ClearNoTimerStep, SetIntervalStep,
       ClearIntervalStep, SleepAsyncStep
    DEF TimersProgram
  <2>2. CASE Fire
    BY <2>2, FireStep
  <2>3. CASE Return
    BY <2>3, EndCallbackStep, EndTickStep DEF Return
  <2>4. CASE Tick
    BY <2>4, TickStep
  <2>5. CASE UNCHANGED timerVars
    <3>1. TimersTypeOK'
      BY <2>5 DEF TimersIInv, TimersTypeOK, timerVars
    <3>2. IdInv' /\ ListInv' /\ TickInv'
      BY <2>5 DEF TimersIInv, IdInv, ListInv, Listed, TickInv, timerVars
    <3> QED
      BY <3>1, <3>2 DEF TimersIInv
  <2> QED
    BY <2>1, <2>2, <2>3, <2>4, <2>5 DEF TimersNext
<1> QED
  BY <1>1, TimersInitIInv, PTL DEF TimersSpec

\* The list holds what was set and has neither fired nor been cleared, once; ids of
\* pending timers differ, although they are given out again after MaxId.
THEOREM ListCorrect == TimersSpec => []ArmedIffListed
<1>1. ASSUME TimersIInv
      PROVE  ArmedIffListed
  <2>1. ASSUME NEW i \in 1..Len(osTimers), NEW j \in 1..Len(osTimers), i # j
        PROVE  osTimers[i].own # osTimers[j].own
    <3>1. i < j \/ j < i
      BY <2>1, <1>1 DEF TimersIInv, TimersTypeOK
    <3> QED
      BY <1>1, <3>1 DEF TimersIInv, ListInv
  <2>2. ASSUME NEW i \in 1..Len(osTimers), NEW j \in 1..Len(osTimers), i # j,
               osTimers[i].id > 0, osTimers[i].id = osTimers[j].id
        PROVE  FALSE
    <3> DEFINE x == osTimers[i].own
               y == osTimers[j].own
    <3>1. x \in Owners /\ armed[x] /\ y \in Owners /\ armed[y]
      BY <1>1, EntryTypes
    <3>2. /\ osTimers[i].id = IF x \in Sleeps THEN -1 ELSE ref[x]
          /\ osTimers[j].id = IF y \in Sleeps THEN -1 ELSE ref[y]
      BY <1>1 DEF TimersIInv, ListInv
    <3>3. x \in Handles /\ y \in Handles /\ ref[x] = ref[y]
      <4>1. osTimers[i].id # -1 /\ osTimers[j].id # -1
        BY <2>2
      <4>2. x \notin Sleeps /\ y \notin Sleeps
        BY <3>2, <4>1
      <4> QED
        BY <2>2, <3>1, <3>2, <4>2, Kinds
    <3>4. ref[x] # 0 /\ age[x] < MaxId /\ ref[y] # 0 /\ age[y] < MaxId
      BY <1>1, <3>1, <3>3 DEF TimersIInv, IdInv
    <3> QED
      BY <1>1, <2>1, <2>2, <3>3, <3>4, SameId
  <2> QED
    BY <1>1, <2>1, <2>2 DEF TimersIInv, ListInv, ArmedIffListed
<1> QED
  BY <1>1, TimersInductive, PTL

\* setInterval keeps going until it is cleared or throws.
THEOREM IntervalsCorrect == TimersSpec => []IntervalKeepsGoing
<1>1. TimersIInv => IntervalKeepsGoing
  BY DEF TimersIInv, ListInv, TickInv, IntervalKeepsGoing, Owners
<1> QED
  BY <1>1, TimersInductive, PTL

\* js_os_poll calls due timers in the order in which they were set.
THEOREM OrderCorrect == TimersSpec => OldestDueFirst
<1>1. ASSUME TimersIInv, [TimersNext]_timerVars
      PROVE  TakesOldest
  <2> SUFFICES ASSUME NEW y \in Handles, run = Idle, armed[y], ~ armed'[y],
                      NEW k \in 1..Len(osTimers), osTimers[k].own \notin Sleeps,
                      age[osTimers[k].own] > age[y]
               PROVE  osTimers[k].left > 0
    BY DEF TakesOldest, Handles
  <2>1. y \in Owners
    BY Kinds
  <2>2. Fire
    BY <1>1, TimersAssumption
    DEF TimersNext, TimersProgram, Return, Tick, SetTimeout, ClearTimeout, ClearNoTimer, SetInterval,
        ClearInterval, SleepAsync, EndCallback, EndTick, ThrowTick, InScript, timerVars, Owners
  <2>3. PICK i \in 1..Len(osTimers) :
          /\ \A j \in 1..(i - 1) : osTimers[j].left > 0
          /\ armed' = [armed EXCEPT ![osTimers[i].own] = FALSE]
    BY <2>2 DEF Fire
  <2>4. osTimers[i].own = y
    BY <1>1, <2>1, <2>3 DEF TimersIInv, TimersTypeOK
  <2>5. osTimers[k].own \in Handles
    BY <1>1, EntryTypes, Kinds
  <2>6. k # i /\ ~ (i < k)
    <3>1. ~ (age[y] > age[osTimers[k].own])
      BY <1>1, <2>1, <2>5, Kinds, TimersAssumption DEF TimersIInv, TimersTypeOK
    <3> QED
      BY <1>1, <2>4, <2>5, <3>1 DEF TimersIInv, ListInv
  <2> QED
    BY <1>1, <2>3, <2>6 DEF TimersIInv, TimersTypeOK
<1> QED
  BY <1>1, TimersInductive, PTL DEF TimersSpec, OldestDueFirst
=============================================================================
