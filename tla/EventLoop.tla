----------------------------- MODULE EventLoop ------------------------------
(***************************************************************************)
(* The event loop of one thread: the evaluation of the main script         *)
(* (eval_buf, js_std_await), then js_std_loop; the queue of promise jobs;  *)
(* the tracker of rejected promises; and js_os_poll, which fires one timer *)
(* or calls one handler per call; and the signals of os.signal, whose C    *)
(* handler may run at any moment and on any thread of the process.  Its    *)
(* `os_pending_signals |= bit' is no more atomic than the `&= ~mask' of    *)
(* the main thread: each is two steps here, a read of the word and a       *)
(* store, and the steps of several threads interleave.  A handler that     *)
(* interrupts the main thread runs to its end between two of its steps.    *)
(*                                                                         *)
(* Which descriptors and ports are ready is the environment's choice, made *)
(* when select() returns.  Timers.tla and WorkerPipe.tla model the timer   *)
(* list and the pipes behind the ports in detail.                          *)
(***************************************************************************)
EXTENDS Integers, Sequences, SequencesExt, FiniteSets

CONSTANTS
  Promises,      \* promises that the program may reject and handle
  TimerSet,      \* timers of the program
  Fds,           \* descriptors it sets read and write handlers on
  Ports,         \* workers it sets onmessage for
  Signals,       \* signals it sets handlers for
  Sigint,        \* SIGINT, one of them
  Activations,   \* bound: runs of os_signal_handler under way at once
  MaxJobs,       \* bound: jobs pending at once
  MaxSources,    \* bound: timers, descriptors, ports and signal handlers set at once
  Programs,      \* the sets of these that a program uses
  Interactive    \* qnode -i script: the REPL follows the script

ASSUME EventLoopAssumption ==
  /\ MaxJobs \in Nat /\ MaxSources \in Nat
  /\ Interactive \in BOOLEAN
  /\ Sigint \in Signals
  /\ "main" \notin Activations /\ "none" \notin Signals

VARIABLES
  uses,          \* what this program uses
  pc,            \* where control is
  phase,         \* what called it: eval_buf, js_std_await or js_std_loop
  module,        \* the promise of the script's module ("none": not a module)
  job,           \* the job of the current turn: none, it runs, it threw
  jobs,          \* number of entries of rt->job_list
  rejected,      \* promises in state JS_PROMISE_REJECTED
  handled,       \* promises with is_handled
  tracked,       \* ts->rejected_promise_list
  tracking,      \* a rejection tracker is installed
  timers,        \* ts->os_timers, as a sequence
  due,           \* the timers of it whose time has come
  handlers,      \* ts->os_rw_handlers, as a sequence of descriptors
  func,          \* func[i]: descriptors with rw_func[i] set (0 read, 1 write)
  ports,         \* ts->port_list, as a sequence
  sigs,          \* ts->os_signal_handlers, as a sequence of signals
  scan,          \* the entry of it that js_os_poll looks at
  pending,       \* os_pending_signals, as a set
  update,        \* updates of it under way: what each thread has read
  owed           \* history: has a signal come that nobody has served yet?

promiseVars == <<rejected, handled, tracked, tracking>>
sourceVars == <<timers, due, handlers, func, ports>>
wordVars == <<pending, update, owed>>
signalVars == <<sigs, scan, wordVars>>
vars == <<uses, pc, phase, module, job, jobs, promiseVars, sourceVars, signalVars>>

Ended == {"exit0", "exitRejected", "exitFail"}
Polling == {"poll", "scan", "unmask", "call", "sources", "select"}
PCs == {"js", "clear", "turn", "check"} \cup Polling \cup Ended

\* Who updates os_pending_signals: runs of the C handler, on any thread, and the main
\* thread's JavaScript and poll.
Updaters == Activations \cup {"main"}
NoUpdate == [sig |-> "none", read |-> {}, alone |-> FALSE]
UnderWay == {u \in Updaters : update[u].sig # "none"}

Init ==
  /\ uses \in Programs
  /\ pc = "js"
  /\ phase = "script"
  /\ module \in {"none", "pending"}
  /\ job = "none"
  /\ jobs = 0
  /\ rejected = {} /\ handled = {} /\ tracked = {}
  /\ tracking = TRUE
  /\ timers = <<>> /\ due = {}
  /\ handlers = <<>>
  /\ func = [i \in {0, 1} |-> {}]
  /\ ports = <<>>
  /\ sigs = <<>> /\ scan = 0 /\ pending = {}
  /\ update = [u \in Updaters |-> NoUpdate]
  /\ owed = [s \in Signals |-> "no"]
-----------------------------------------------------------------------------
(***************************************************************************)
(* What running JavaScript does.                                           *)
(***************************************************************************)
InJs == pc = "js"

\* JS_EnqueueJob, n times
Enqueue(n) == jobs + n <= MaxJobs /\ jobs' = jobs + n

\* A promise that is already fulfilled gets a reaction, an await continues ...
NewJob ==
  /\ InJs
  /\ Enqueue(1)
  /\ UNCHANGED <<pc, phase, module, job, promiseVars, sourceVars, signalVars>>

\* (faulty variant: entries are never taken back)
Track_NeverRemove(p, isHandled) ==
  IF tracking /\ ~ isHandled THEN tracked \cup {p} ELSE tracked

\* js_std_promise_rejection_tracker
Track(p, isHandled) ==
  IF ~ tracking THEN tracked
  ELSE IF isHandled THEN tracked \ {p} ELSE tracked \cup {p}

\* fulfill_or_reject_promise: the tracker hears of it unless p has a reaction,
\* which becomes a job.
RejectPromise(p) ==
  /\ InJs
  /\ p \notin rejected
  /\ Enqueue(IF p \in handled THEN 1 ELSE 0)
  /\ rejected' = rejected \cup {p}
  /\ tracked' = IF p \in handled THEN tracked ELSE Track(p, FALSE)
  /\ UNCHANGED <<pc, phase, module, job, handled, tracking, sourceVars, signalVars>>

\* perform_promise_then (p.then, p.catch, await p)
PromiseThen(p) ==
  /\ InJs
  /\ p \notin handled
  /\ Enqueue(IF p \in rejected THEN 1 ELSE 0)
  /\ handled' = handled \cup {p}
  /\ tracked' = IF p \in rejected THEN Track(p, TRUE) ELSE tracked
  /\ UNCHANGED <<pc, phase, module, job, rejected, tracking, sourceVars, signalVars>>

MoreSources == Len(timers) + Len(handlers) + Len(ports) + Len(sigs) < MaxSources

SetTimer(t) ==
  /\ InJs /\ MoreSources
  /\ ~ Contains(timers, t)
  /\ timers' = Append(timers, t)
  /\ UNCHANGED <<pc, phase, module, job, jobs, promiseVars, due, handlers,
                 func, ports, signalVars>>

ClearTimer(t) ==
  /\ InJs
  /\ \E i \in 1..Len(timers) : timers[i] = t /\ timers' = RemoveAt(timers, i)
  /\ due' = due \ {t}
  /\ UNCHANGED <<pc, phase, module, job, jobs, promiseVars, handlers, func,
                 ports, signalVars>>

\* js_os_setReadHandler (i = 0) and setWriteHandler (i = 1) with a function
SetHandler(i, fd) ==
  /\ InJs
  /\ func' = [func EXCEPT ![i] = @ \cup {fd}]
  /\ \/ Contains(handlers, fd) /\ UNCHANGED handlers
     \/ ~ Contains(handlers, fd) /\ MoreSources /\ handlers' = Append(handlers, fd)
  /\ UNCHANGED <<pc, phase, module, job, jobs, promiseVars, timers, due, ports, signalVars>>

\* ... with null: the entry goes once both functions are null
ClearHandler(i, fd) ==
  /\ InJs
  /\ func' = [func EXCEPT ![i] = @ \ {fd}]
  /\ \E k \in 1..Len(handlers) :
       /\ handlers[k] = fd
       /\ handlers' = IF fd \in func[1 - i] THEN handlers ELSE RemoveAt(handlers, k)
  /\ UNCHANGED <<pc, phase, module, job, jobs, promiseVars, timers, due, ports, signalVars>>

\* js_worker_set_onmessage with a function, and with null
SetPort(q) ==
  /\ InJs /\ MoreSources
  /\ ~ Contains(ports, q)
  /\ ports' = Append(ports, q)
  /\ UNCHANGED <<pc, phase, module, job, jobs, promiseVars, timers, due,
                 handlers, func, signalVars>>
ClearPort(q) ==
  /\ InJs
  /\ \E i \in 1..Len(ports) : ports[i] = q /\ ports' = RemoveAt(ports, i)
  /\ UNCHANGED <<pc, phase, module, job, jobs, promiseVars, timers, due,
                 handlers, func, signalVars>>

\* u reads os_pending_signals for an update of the bit of s.  Two updates that overlap may
\* undo each other: what their signals are owed is known again after an update of its own.
BeginUpdate(u, s) ==
  LET racing == IF UnderWay = {} THEN {} ELSE {s} \cup {update[v].sig : v \in UnderWay}
  IN  /\ update' = [v \in Updaters |->
                      IF v = u THEN [sig |-> s, read |-> pending, alone |-> UnderWay = {}]
                      ELSE [update[v] EXCEPT !.alone = FALSE]]
      /\ owed' = [r \in Signals |-> IF r \in racing THEN "unknown" ELSE owed[r]]

\* It stores the word; its signal has come, or is served.
EndUpdate(u, word, o) ==
  /\ pending' = word
  /\ owed' = [owed EXCEPT ![update[u].sig] = IF update[u].alone THEN o ELSE "unknown"]
  /\ update' = [update EXCEPT ![u] = NoUpdate]

\* js_os_signal with a function, and with null or undefined: the entry goes, the bit
\* in os_pending_signals stays
SetSignal(s) ==
  /\ InJs /\ MoreSources
  /\ ~ Contains(sigs, s)
  /\ sigs' = Append(sigs, s)
  /\ UNCHANGED <<pc, phase, module, job, jobs, promiseVars, sourceVars, scan, wordVars>>
ClearSignal(s) ==
  /\ InJs
  /\ \E i \in 1..Len(sigs) : sigs[i] = s /\ sigs' = RemoveAt(sigs, i)
  /\ UNCHANGED <<pc, phase, module, job, jobs, promiseVars, sourceVars, scan, wordVars>>

\* std.evalScript returns: SIGINT was its to be interrupted by, and the bit is cleared.
EvalScript ==
  /\ InJs
  /\ BeginUpdate("main", Sigint)
  /\ pc' = "clear"
  /\ UNCHANGED <<phase, module, job, jobs, promiseVars, sourceVars, sigs, scan, pending>>
ClearSigint ==
  /\ pc = "clear"
  /\ EndUpdate("main", update["main"].read \ {Sigint}, "no")
  /\ pc' = "js"
  /\ UNCHANGED <<phase, module, job, jobs, promiseVars, sourceVars, sigs, scan>>

\* The body of the module returns or throws (possibly after top-level awaits).
SettleModule ==
  /\ InJs
  /\ module = "pending"
  /\ module' \in {"fulfilled", "rejected"}
  /\ UNCHANGED <<pc, phase, job, jobs, promiseVars, sourceVars, signalVars>>

Program ==
  \/ NewJob \/ SettleModule
  \/ \E p \in Promises \cap uses : RejectPromise(p) \/ PromiseThen(p)
  \/ \E t \in TimerSet \cap uses : SetTimer(t) \/ ClearTimer(t)
  \/ \E i \in {0, 1}, fd \in Fds \cap uses : SetHandler(i, fd) \/ ClearHandler(i, fd)
  \/ \E q \in Ports \cap uses : SetPort(q) \/ ClearPort(q)
  \/ \E s \in Signals \cap uses : SetSignal(s) \/ ClearSignal(s)
-----------------------------------------------------------------------------
\* main(): the REPL runs without a tracker
EnterLoop ==
  /\ phase' = "loop"
  /\ tracking' = (tracking /\ ~ Interactive)

\* The script ends: a module is awaited, for any other script js_std_loop starts.
EndScript ==
  /\ InJs /\ phase = "script"
  /\ pc' = "turn"
  /\ \/ module = "none" /\ EnterLoop
     \/ module # "none" /\ phase' = "await" /\ UNCHANGED tracking
  /\ UNCHANGED <<module, job, jobs, rejected, handled, tracked, sourceVars, signalVars>>

\* A script that is no module throws: eval_buf fails.
ThrowScript ==
  /\ InJs /\ phase = "script" /\ module = "none"
  /\ pc' = "exitFail"
  /\ UNCHANGED <<phase, module, job, jobs, promiseVars, sourceVars, signalVars>>

\* A job returns, or an event handler does (if it throws, call_handler prints
\* the error and goes on).
EndCall ==
  /\ InJs /\ phase # "script"
  /\ pc' = "turn"
  /\ job' = "none"
  /\ UNCHANGED <<phase, module, jobs, promiseVars, sourceVars, signalVars>>

\* A job throws: js_std_loop leaves its inner loop, js_std_await goes on.
ThrowJob ==
  /\ InJs /\ job = "running"
  /\ pc' = IF phase = "loop" THEN "check" ELSE "turn"
  /\ job' = "threw"
  /\ UNCHANGED <<phase, module, jobs, promiseVars, sourceVars, signalVars>>

\* js_std_await: the module's promise is settled
AwaitFulfilled ==
  /\ pc = "turn" /\ phase = "await" /\ module = "fulfilled"
  /\ EnterLoop
  /\ UNCHANGED <<pc, module, job, jobs, rejected, handled, tracked, sourceVars, signalVars>>
AwaitRejected ==
  /\ pc = "turn" /\ phase = "await" /\ module = "rejected"
  /\ pc' = "exitFail"
  /\ UNCHANGED <<phase, module, job, jobs, promiseVars, sourceVars, signalVars>>

WantsJob == pc = "turn" /\ (phase = "await" => module = "pending")

\* (faulty variant: the queue is not looked at first)
RunJob_Unguarded ==
  /\ WantsJob
  /\ jobs' = jobs - 1
  /\ job' = "running"
  /\ pc' = "js"
  /\ UNCHANGED <<phase, module, promiseVars, sourceVars, signalVars>>

\* JS_ExecutePendingJob takes the first job and runs it
RunJob ==
  /\ WantsJob /\ jobs > 0
  /\ jobs' = jobs - 1
  /\ job' = "running"
  /\ pc' = "js"
  /\ UNCHANGED <<phase, module, promiseVars, sourceVars, signalVars>>

\* (faulty variant: one job per turn of the loop)
NoJob_OnePerTurn ==
  /\ WantsJob
  /\ pc' = "check"
  /\ UNCHANGED <<phase, module, job, jobs, promiseVars, sourceVars, signalVars>>

\* ... and returns 0 when there is none
NoJob ==
  /\ WantsJob /\ jobs = 0
  /\ pc' = "check"
  /\ UNCHANGED <<phase, module, job, jobs, promiseVars, sourceVars, signalVars>>

\* (faulty variant: the check is left to the end of the program)
RejectionCheck_Late ==
  /\ pc = "check"
  /\ pc' = "poll"
  /\ UNCHANGED <<phase, module, job, jobs, promiseVars, sourceVars, signalVars>>

\* js_std_promise_rejection_check
RejectionCheck ==
  /\ pc = "check"
  /\ pc' = IF tracked # {} THEN "exitRejected" ELSE "poll"
  /\ UNCHANGED <<phase, module, job, jobs, promiseVars, sourceVars, signalVars>>
-----------------------------------------------------------------------------
(***************************************************************************)
(* js_os_poll of Unix.  (That of Windows has no branch for signals.)       *)
(***************************************************************************)
\* The list of os.signal is searched for a pending signal, in order; what handlers do
\* to os_pending_signals meanwhile is seen or not.
ScanSignals ==
  /\ pc = "poll" /\ pending # {}
  /\ pc' = "scan"
  /\ scan' = 1
  /\ UNCHANGED <<phase, module, job, jobs, promiseVars, sourceVars, sigs, wordVars>>
NextSignal ==
  /\ pc = "scan" /\ scan <= Len(sigs) /\ sigs[scan] \notin pending
  /\ scan' = scan + 1
  /\ UNCHANGED <<pc, phase, module, job, jobs, promiseVars, sourceVars, sigs, wordVars>>
FindSignal ==
  /\ pc = "scan" /\ scan <= Len(sigs) /\ sigs[scan] \in pending
  /\ pc' = "unmask"
  /\ UNCHANGED <<phase, module, job, jobs, promiseVars, sourceVars, signalVars>>

\* os_pending_signals &= ~mask reads ...
ReadMask ==
  /\ pc = "unmask"
  /\ BeginUpdate("main", sigs[scan])
  /\ scan' = 0
  /\ pc' = "call"
  /\ UNCHANGED <<phase, module, job, jobs, promiseVars, sourceVars, sigs, pending>>

\* (faulty variant: all bits are cleared)
CallSignal_All ==
  /\ pc = "call"
  /\ EndUpdate("main", {}, "no")
  /\ pc' = "js"
  /\ UNCHANGED <<phase, module, job, jobs, promiseVars, sourceVars, sigs, scan>>

\* ... and stores, with no regard to what came in between; the function is called.
CallSignal ==
  /\ pc = "call"
  /\ EndUpdate("main", update["main"].read \ {update["main"].sig}, "no")
  /\ pc' = "js"
  /\ UNCHANGED <<phase, module, job, jobs, promiseVars, sourceVars, sigs, scan>>

\* No signal is pending, or none that has a function: on to the other sources.
NoSignals ==
  /\ \/ pc = "poll" /\ pending = {}
     \/ pc = "scan" /\ scan > Len(sigs)
  /\ pc' = "sources"
  /\ scan' = 0
  /\ UNCHANGED <<phase, module, job, jobs, promiseVars, sourceVars, sigs, wordVars>>

\* (faulty variant: the ports are forgotten)
HasSources_NoPorts == handlers # <<>> \/ timers # <<>>

HasSources == handlers # <<>> \/ timers # <<>> \/ ports # <<>>

\* return -1: js_std_loop ends, js_std_await takes no notice
NoMoreEvents ==
  /\ pc = "sources" /\ ~ HasSources
  /\ pc' = IF phase = "loop" THEN "exit0" ELSE "turn"
  /\ UNCHANGED <<phase, module, job, jobs, promiseVars, sourceVars, signalVars>>

\* (faulty variant: the expired timer found last is the one that fires)
FireTimer_Last ==
  /\ pc = "sources"
  /\ \E i \in 1..Len(timers) :
       /\ timers[i] \in due
       /\ \A j \in (i + 1)..Len(timers) : timers[j] \notin due
       /\ due' = due \ {timers[i]}
       /\ timers' = RemoveAt(timers, i)
  /\ pc' = "js"
  /\ UNCHANGED <<phase, module, job, jobs, promiseVars, handlers, func, ports, signalVars>>

\* The first expired timer is freed and called.
FireTimer ==
  /\ pc = "sources"
  /\ \E i \in 1..Len(timers) :
       /\ timers[i] \in due
       /\ \A j \in 1..(i - 1) : timers[j] \notin due
       /\ due' = due \ {timers[i]}
       /\ timers' = RemoveAt(timers, i)
  /\ pc' = "js"
  /\ UNCHANGED <<phase, module, job, jobs, promiseVars, handlers, func, ports, signalVars>>

\* No timer has expired: wait for the rest.
Wait ==
  /\ pc = "sources" /\ HasSources
  /\ due = {}
  /\ pc' = "select"
  /\ UNCHANGED <<phase, module, job, jobs, promiseVars, sourceVars, signalVars>>

\* A handler is called, then js_os_poll returns ("the list may have been modified").
Dispatch ==
  /\ pc' = "js"
  /\ UNCHANGED <<phase, module, job, jobs, promiseVars, sourceVars, signalVars>>

\* select() finds a descriptor of the list ready.  (Windows waits for stdin only.)
CallHandler ==
  /\ pc = "select"
  /\ \E i \in 1..Len(handlers) : handlers[i] \in func[0] \cup func[1]
  /\ Dispatch

\* select() finds a port's waker ready.  (Windows does not serve it while stdin
\* has a read handler.)
CallOnMessage ==
  /\ pc = "select"
  /\ ports # <<>>
  /\ Dispatch

\* The wait for the next timer (10 seconds at most) is over, or a signal that is no
\* business of the program interrupts select(): nothing is called.
SelectReturns ==
  /\ pc = "select"
  /\ pc' = "turn"
  /\ UNCHANGED <<phase, module, job, jobs, promiseVars, sourceVars, signalVars>>

\* The time of timer t comes.
Expire(t) ==
  /\ pc \notin Ended
  /\ Contains(timers, t) /\ t \notin due
  /\ due' = due \cup {t}
  /\ UNCHANGED <<pc, phase, module, job, jobs, promiseVars, timers, handlers,
                 func, ports, signalVars>>

\* os_signal_handler, on any thread, reads os_pending_signals ...
SignalReads(a, s) ==
  /\ pc \notin Ended
  /\ a \notin UnderWay
  /\ Contains(sigs, s)
  /\ BeginUpdate(a, s)
  /\ UNCHANGED <<pc, phase, module, job, jobs, promiseVars, sourceVars, sigs, scan,
                 pending>>

\* ... and stores it with the bit set.  (On the main thread it ends select(), which is
\* SelectReturns.)
SignalStores(a) ==
  /\ pc \notin Ended
  /\ a \in UnderWay
  /\ EndUpdate(a, update[a].read \cup {update[a].sig}, "yes")
  /\ UNCHANGED <<pc, phase, module, job, jobs, promiseVars, sourceVars, sigs, scan>>

ServeSignal == ScanSignals \/ NextSignal \/ FindSignal \/ ReadMask \/ CallSignal

Loop ==
  \/ EndScript \/ EndCall
  \/ AwaitFulfilled \/ AwaitRejected \/ RunJob \/ NoJob \/ RejectionCheck
  \/ ClearSigint \/ ServeSignal \/ NoSignals
  \/ NoMoreEvents \/ FireTimer \/ Wait

Wakeup == due # {} /\ SelectReturns

Next ==
  /\ UNCHANGED uses
  /\ \/ Program \/ EvalScript \/ ThrowScript \/ ThrowJob
     \/ Loop
     \/ CallHandler \/ CallOnMessage \/ SelectReturns
     \/ \E t \in TimerSet : Expire(t)
     \/ \E a \in Activations : SignalStores(a) \/ \E s \in Signals : SignalReads(a, s)

Spec == Init /\ [][Next]_vars

\* Scripts, jobs and handlers return; the thread runs; select() returns when
\* its timeout is over.
FairSpec == Spec /\ WF_vars(Loop /\ UNCHANGED uses) /\ WF_vars(Wakeup /\ UNCHANGED uses)
-----------------------------------------------------------------------------
Updates == [sig : Signals \cup {"none"}, read : SUBSET Signals, alone : BOOLEAN]
WordTypes ==
  /\ pending \subseteq Signals
  /\ update \in [Updaters -> Updates]
  /\ owed \in [Signals -> {"no", "yes", "unknown"}]

TypeOK ==
  /\ pc \in PCs
  /\ phase \in {"script", "await", "loop"}
  /\ module \in {"none", "pending", "fulfilled", "rejected"}
  /\ job \in {"none", "running", "threw"}
  /\ jobs \in 0..MaxJobs
  /\ rejected \subseteq Promises /\ handled \subseteq Promises
  /\ tracked \subseteq Promises
  /\ tracking \in BOOLEAN
  /\ timers \in Seq(TimerSet)
  /\ due \subseteq TimerSet
  /\ handlers \in Seq(Fds)
  /\ func \in [{0, 1} -> SUBSET Fds]
  /\ ports \in Seq(Ports)
  /\ sigs \in Seq(Signals)
  /\ scan \in Nat
  /\ WordTypes

\* Promise jobs come before everything else: the thread never polls, sleeps or
\* ends (by a rejection or normally) while js_std_loop or js_std_await still has
\* a job to run.  Only a job that throws breaks this.
JobsFirst ==
  pc \in Polling \cup {"check", "exitRejected", "exit0"} /\ job # "threw" => jobs = 0

\* The list of js_std_promise_rejection_tracker is what it stands for, whatever
\* the order in which promises are rejected and handled.
Unhandled == rejected \ handled
TrackedAreUnhandled == tracking => tracked = Unhandled

\* Rejections are reported exactly when nobody handles them.  A program that sleeps, or
\* ends with status 0, has handled all of them; and a promise that was handled before
\* the check ("It must be done asynchrously in case a rejected promise is handled
\* later") does not end the program.
NoHiddenRejection == pc \in {"select", "exit0"} /\ tracking => Unhandled = {}
NoFalseAlarm == pc = "exitRejected" => Unhandled # {}
ReportedIffUnhandled == NoHiddenRejection /\ NoFalseAlarm

\* What the check knows of the list: it is empty from the check on until JavaScript
\* runs again, and was not empty when it ended the program; main() takes the
\* tracker away only for the REPL.
CheckInv ==
  /\ pc \in Polling \cup {"exit0"} => tracked = {}
  /\ pc = "exitRejected" => tracked # {}
  /\ tracking \/ Interactive

\* The program ends with status 0 only when nothing can call JavaScript again.
EndsWhenIdle ==
  pc = "exit0" => timers = <<>> /\ func[0] \cup func[1] = {} /\ ports = <<>>

\* An expired timer is not starved by jobs, handlers, messages or other timers,
\* as long as the program does not queue job after job for ever and signals do not
\* come without end (they go before timers).
\* The entries of os_signal_handlers whose signal is pending.
Servable == {i \in 1..Len(sigs) : sigs[i] \in pending}

TimersNotStarved ==
  []<>(pc \notin {"js", "clear", "turn"}) /\ <>[](Servable = {}) =>
    \A t \in TimerSet : (t \in due) ~> (t \notin due \/ pc \in Ended)

\* No signal is forgotten and none is made up: a bit is set exactly when the signal has
\* come and neither its function nor the end of evalScript has served it since, whatever
\* else js_os_poll serves and os.signal changes.  Only updates that overlap put this in
\* doubt, and only for their own signals, not for those whose bits they carry along.
SignalsKept ==
  \A s \in Signals : owed[s] # "unknown" => (s \in pending <=> owed[s] = "yes")

\* Behind EndsWhenIdle: os_rw_handlers has one entry per descriptor, and one for every
\* descriptor with a function; the loop ends when all lists are empty.
SourcesInv ==
  /\ \A j, k \in 1..Len(handlers) : handlers[j] = handlers[k] => j = k
  /\ \A i \in {0, 1} : \A fd \in func[i] : Contains(handlers, fd)
  /\ pc = "exit0" => ~ HasSources

\* Behind UpdateInv: where the main thread is when it updates os_pending_signals, and that
\* js_os_poll has found an entry.
MainInv ==
  /\ pc \in {"clear", "call"} => "main" \in UnderWay
  /\ pc = "clear" => update["main"].sig = Sigint
  /\ pc \in {"scan", "unmask"} => scan > 0
  /\ pc = "unmask" => scan <= Len(sigs)

\* Behind SignalsKept: an update that has overlapped another has put its signal in doubt,
\* one that has not is the only one; and what any of them has read and will store back is
\* right but for signals in doubt.
UpdateInv ==
  \A u \in UnderWay :
    /\ update[u].alone => UnderWay = {u}
    /\ ~ update[u].alone => owed[update[u].sig] = "unknown"
    /\ \A s \in Signals : owed[s] # "unknown" => (s \in update[u].read <=> s \in pending)

IInv == TypeOK /\ SourcesInv /\ MainInv /\ UpdateInv /\ SignalsKept

\* A signal with a handler is served, unless it comes too late for the test in
\* js_os_poll and the thread goes to sleep, or its entry is removed; provided that
\* the program does not queue jobs for ever and other signals do not keep coming.
SignalsServed ==
  \A s \in Signals :
    []<>(pc \notin {"js", "clear", "turn"}) /\ <>[](pending \subseteq {s}) =>
      (s \in pending /\ Contains(sigs, s))
        ~> (s \notin pending \/ ~ Contains(sigs, s) \/ pc \in Ended \cup {"select"})

\* js_os_poll serves every event: expired timers and pending signals.
EventsServed == TimersNotStarved /\ SignalsServed
=============================================================================
