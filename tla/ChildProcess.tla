---------------------------- MODULE ChildProcess ----------------------------
(***************************************************************************)
(* exec() and execFile(): the JavaScript layer of child_process.c.  The    *)
(* constructor of ChildProcess polls the new process at once; then a chain *)
(* of 10 ms timers does.  A poll drains stdout and stderr, asks whether    *)
(* the process has exited, and in the end drains again, emits 'exit',      *)
(* closes the pipes and emits 'close'.  execFile attaches its listeners    *)
(* after the constructor has returned; it cannot if options.stdio says     *)
(* 'ignore' for stdout or stderr: there is no object to attach them to,    *)
(* and execFile throws with the child and the timers running.              *)
(*                                                                         *)
(* The child runs concurrently.  Output is counted in chunks: an OS pipe   *)
(* keeps their order.                                                      *)
(***************************************************************************)
EXTENDS Integers, Sequences, FiniteSets

CONSTANTS
  Codes,        \* exit codes of children
  KillCode,     \* the exit code of a child that kill() ended
  StillActive,  \* a code that pollProcess takes for "running" (259 on Windows)
  PipeCap,      \* chunks an OS pipe holds before a writer blocks
  MaxChunks     \* bound: chunks a child writes to one stream

ASSUME ChildProcessAssumption ==
  /\ PipeCap \in Nat \ {0} /\ MaxChunks \in Nat
  /\ KillCode \in Codes /\ -1 \notin Codes

Streams == {"stdout", "stderr"}
Fds == Streams \cup {"stdin"}
Sides == {"parent", "child"}

VARIABLES
  child,        \* the process: not created yet, running or exited
  status,       \* its exit code
  written,      \* written[s]: chunks it has written to s
  read,         \* read[s]: chunks _readPipe has taken out of s
  piped,        \* the streams that have a pipe: options.stdio does not ignore them
  pc,           \* the next step of the parent ("idle": in the event loop)
  stream,       \* the stream that _drain is at
  attached,     \* execFile has attached its listeners, as far as it gets
  timers,       \* pending _setTimeout(_poll, 10) calls
  exited,       \* this._exited
  exitCode,     \* this.exitCode (-1 for null)
  open,         \* descriptors with _fd >= 0
  leaked,       \* ends of pipes, <<stream, side>>, that a failed create_process forgets
  closes,       \* closes[f]: calls of _closePipe on descriptor f
  got,          \* got[s]: chunks in stdout_str, stderr_str
  calls         \* the arguments of every call of execFile's callback

pipeVars == <<written, read>>
fdVars == <<piped, leaked, open, closes>>
vars == <<child, status, pipeVars, pc, stream, attached, timers, exited,
          exitCode, fdVars, got, calls>>

Init ==
  /\ child = "none" /\ status = -1
  /\ written = [s \in Streams |-> 0] /\ read = [s \in Streams |-> 0]
  /\ pc = "spawn" /\ stream = "stdout"
  /\ attached = FALSE
  /\ timers = 0
  /\ exited = FALSE /\ exitCode = -1
  /\ piped = {} /\ open = {} /\ leaked = {} /\ closes = [f \in Fds |-> 0]
  /\ got = [s \in Streams |-> 0]
  /\ calls = <<>>
-----------------------------------------------------------------------------
(***************************************************************************)
(* The child process.                                                      *)
(***************************************************************************)
Waiting(s) == written[s] - read[s]

ChildWrite(s) ==
  /\ child = "running" /\ s \in piped
  /\ written[s] < MaxChunks /\ Waiting(s) < PipeCap
  /\ written' = [written EXCEPT ![s] = @ + 1]
  /\ UNCHANGED <<child, status, read, pc, stream, attached, timers, exited,
                 exitCode, fdVars, got, calls>>

ChildExit(c) ==
  /\ child = "running"
  /\ child' = "exited" /\ status' = c
  /\ UNCHANGED <<pipeVars, pc, stream, attached, timers, exited, exitCode,
                 fdVars, got, calls>>
-----------------------------------------------------------------------------
(***************************************************************************)
(* The parent.                                                             *)
(***************************************************************************)
\* js_cp_spawnProcess: create_process makes the pipes, new ChildProcess(raw)
Spawn ==
  /\ pc = "spawn"
  /\ child' = "running"
  /\ piped' \in SUBSET Fds
  /\ open' = piped'
  /\ pc' = "drain" /\ stream' = "stdout"
  /\ UNCHANGED <<status, pipeVars, leaked, attached, timers, exited, exitCode,
                 closes, got, calls>>

\* create_process fails: _spawnProcess throws, exec throws.  The pipes have been made;
\* CreateProcess has the child's ends closed, fork none, and their numbers are gone.
SpawnFails ==
  /\ pc = "spawn"
  /\ \E streams \in SUBSET Fds, sides \in {{"parent"}, Sides} :
       leaked' = streams \X sides
  /\ pc' = "threw"
  /\ UNCHANGED <<child, status, pipeVars, stream, attached, timers, exited,
                 exitCode, piped, open, closes, got, calls>>

\* cp.stdout.on, cp.stderr.on and cp.on('exit'): the first that fails is the last.
ListensTo(s) == attached /\ {"stdout", s} \subseteq piped
Returned == attached /\ Streams \subseteq piped

Draining == pc \in {"drain", "drainAgain"}

\* _drain: _readPipe returns what is there, emit('data') passes it to the
\* listeners attached so far
Drain ==
  /\ Draining
  /\ stream \in open
  /\ \E n \in 1..Waiting(stream) :
       /\ read' = [read EXCEPT ![stream] = @ + n]
       /\ got' = IF ListensTo(stream) THEN [got EXCEPT ![stream] = @ + n] ELSE got
  /\ UNCHANGED <<child, status, written, pc, stream, attached, timers, exited,
                 exitCode, fdVars, calls>>

\* _readPipe returns null: on to stderr, then to what follows _drain()
Drained ==
  /\ Draining
  /\ stream \notin open \/ Waiting(stream) = 0
  /\ stream' = IF stream = "stdout" THEN "stderr" ELSE "stdout"
  /\ pc' = IF stream = "stdout" THEN pc
           ELSE IF pc = "drain" THEN "status" ELSE "exit"
  /\ UNCHANGED <<child, status, pipeVars, attached, timers, exited, exitCode,
                 fdVars, got, calls>>

\* Where _poll returns to: the constructor, or the event loop.
Return == IF attached THEN "idle" ELSE "attach"

\* (faulty variant: 'exit' is emitted without a second _drain)
PollExited_NoDrain ==
  /\ pc = "status"
  /\ child = "exited" /\ status # StillActive
  /\ exited' = TRUE /\ exitCode' = status
  /\ pc' = "exit"
  /\ UNCHANGED <<child, status, pipeVars, stream, attached, timers, fdVars, got,
                 calls>>

\* (faulty variant: the answer of _pollProcess is not looked at)
PollExited_Unchecked ==
  /\ pc = "status"
  /\ exited' = TRUE /\ exitCode' = status
  /\ pc' = "drainAgain"
  /\ UNCHANGED <<child, status, pipeVars, stream, attached, timers, fdVars, got,
                 calls>>

\* _pollProcess says that the process has exited
PollExited ==
  /\ pc = "status"
  /\ child = "exited" /\ status # StillActive
  /\ exited' = TRUE /\ exitCode' = status
  /\ pc' = "drainAgain"
  /\ UNCHANGED <<child, status, pipeVars, stream, attached, timers, fdVars, got,
                 calls>>

\* (faulty variant: no timer from the second poll on)
PollRunning_Once ==
  /\ pc = "status"
  /\ ~ (child = "exited" /\ status # StillActive)
  /\ timers' = IF attached THEN timers ELSE timers + 1
  /\ pc' = Return
  /\ UNCHANGED <<child, status, pipeVars, stream, attached, exited, exitCode,
                 fdVars, got, calls>>

\* ... that it is still running: _setTimeout
PollRunning ==
  /\ pc = "status"
  /\ ~ (child = "exited" /\ status # StillActive)
  /\ timers' = timers + 1
  /\ pc' = Return
  /\ UNCHANGED <<child, status, pipeVars, stream, attached, exited, exitCode,
                 fdVars, got, calls>>

\* emit('exit'): execFile's listener calls back
EmitExit ==
  /\ pc = "exit"
  /\ calls' = IF Returned THEN Append(calls, [code |-> exitCode, out |-> got])
              ELSE calls
  /\ pc' = "closing"
  /\ UNCHANGED <<child, status, pipeVars, stream, attached, timers, exited,
                 exitCode, fdVars, got>>

\* _closeAll, then emit('close'), to which execFile does not listen
CloseAll ==
  /\ pc = "closing"
  /\ closes' = [f \in Fds |-> IF f \in open THEN closes[f] + 1 ELSE closes[f]]
  /\ open' = {}
  /\ pc' = Return
  /\ UNCHANGED <<child, status, pipeVars, stream, attached, timers, exited,
                 exitCode, piped, leaked, got, calls>>

\* The constructor has returned: execFile attaches its listeners, or throws in the
\* middle of it (ListensTo), which stops neither the child nor the polls.
Attach ==
  /\ pc = "attach"
  /\ attached' = TRUE
  /\ pc' = "idle"
  /\ UNCHANGED <<child, status, pipeVars, stream, timers, exited, exitCode,
                 fdVars, got, calls>>

\* The timer fires: _poll
TimerFires ==
  /\ pc = "idle" /\ timers > 0
  /\ timers' = timers - 1
  /\ pc' = IF exited THEN "idle" ELSE "drain"
  /\ UNCHANGED <<child, status, pipeVars, stream, attached, exited, exitCode,
                 fdVars, got, calls>>

\* The program's own code runs between the polls, and in the callback.
UserCode == pc \in {"idle", "closing"} /\ Returned

\* (faulty variant: _fd keeps its value)
StdinEnd_KeepFd ==
  /\ UserCode
  /\ "stdin" \in open
  /\ closes' = [closes EXCEPT !["stdin"] = @ + 1]
  /\ UNCHANGED <<child, status, pipeVars, pc, stream, attached, timers, exited,
                 exitCode, piped, leaked, open, got, calls>>

\* cp.stdin.end()
StdinEnd ==
  /\ UserCode
  /\ "stdin" \in open
  /\ closes' = [closes EXCEPT !["stdin"] = @ + 1]
  /\ open' = open \ {"stdin"}
  /\ UNCHANGED <<child, status, pipeVars, pc, stream, attached, timers, exited,
                 exitCode, piped, leaked, got, calls>>

\* cp.kill() while the child runs; an exited child is left as it is
Kill ==
  /\ UserCode
  /\ ChildExit(KillCode)

Child ==
  \/ \E s \in Streams : ChildWrite(s)
  \/ \E c \in Codes : ChildExit(c)

Parent ==
  \/ Spawn \/ SpawnFails \/ Drain \/ Drained \/ PollExited \/ PollRunning
  \/ EmitExit \/ CloseAll \/ Attach \/ TimerFires

Next == Child \/ Parent \/ StdinEnd \/ Kill

Spec == Init /\ [][Next]_vars

\* The event loop runs; the child exits some time (or is killed).
FairSpec == Spec /\ WF_vars(Parent) /\ WF_vars(\E c \in Codes : ChildExit(c))
-----------------------------------------------------------------------------
Called == calls # <<>>

TypeOK ==
  /\ child \in {"none", "running", "exited"}
  /\ status \in Codes \cup {-1}
  /\ written \in [Streams -> 0..MaxChunks]
  /\ read \in [Streams -> 0..MaxChunks]
  /\ pc \in {"spawn", "threw", "drain", "status", "drainAgain", "exit",
             "closing", "attach", "idle"}
  /\ stream \in Streams
  /\ attached \in BOOLEAN
  /\ timers \in Nat
  /\ exited \in BOOLEAN
  /\ exitCode \in Codes \cup {-1}
  /\ piped \subseteq Fds /\ open \subseteq piped
  /\ leaked \subseteq Fds \X Sides
  /\ closes \in [Fds -> Nat]
  /\ got \in [Streams -> 0..MaxChunks]
  /\ calls \in Seq([code : Codes, out : [Streams -> 0..MaxChunks]])

\* Everything the child wrote, up to its very last moment, has been read when
\* the pipes are closed: output written between the first drain and the exit is
\* not lost.
ReadBeforeClose ==
  exited /\ Streams \cap open = {} => read = written

\* The callback is called once at most, with the exit code of the child, and not
\* before the child is gone.
CalledOnceWithStatus ==
  /\ Len(calls) <= 1
  /\ Called => child = "exited" /\ calls[1].code = status

\* A child that runs leaves no timer and no descriptor behind, and none is let go twice.
\* (The handle of its process on Windows is kept for good; it is not modelled.)  Between
\* polls the chain of timers has one link while the child is polled, and none afterwards:
\* two would poll for ever in parallel, a left-over one would keep the event loop from
\* ending.  No descriptor is closed twice (its number may be in use again), whichever of
\* stdin.end() and _closeAll comes first, and none stays open, even if execFile throws
\* and nobody has the ChildProcess.  Pipe ends are forgotten by a failed create_process
\* only, which leaves no child, no timer and no descriptor with a number.
ResourcesOnce ==
  /\ TypeOK
  /\ pc = "idle" => timers = IF exited THEN 0 ELSE 1
  /\ \A f \in Fds : closes[f] <= 1
  /\ pc = "idle" /\ exited => \A f \in piped : closes[f] = 1
  /\ leaked # {} => child = "none" /\ timers = 0 /\ open = {}

\* A child that was still running in the constructor's poll is reported: the
\* callback is called, unless execFile throws because a stream is ignored.
CallbackWhenRunning == (pc = "idle" /\ ~ exited /\ Returned) ~> Called

\* exec without options calls back with the output of the child, as the tests expect,
\* whatever the child has done by the time of the constructor's poll.
ExecReports == (pc = "drain" /\ piped = Fds) ~> (Called /\ calls[1].out = written)
-----------------------------------------------------------------------------
(***************************************************************************)
(* The inductive invariant behind the three safety properties.             *)
(***************************************************************************)
\* What the parent knows of the child at each of its steps.
Before == {"spawn", "threw"}
ExitInv ==
  /\ child = "none" <=> pc \in Before
  /\ child = "exited" => status \in Codes
  /\ exited => child = "exited" /\ exitCode = status
  /\ pc \in {"drainAgain", "exit", "closing"} => exited
  /\ pc \in Before \cup {"drain", "status"} => ~ exited
  /\ pc \in Before \cup {"attach"} => ~ attached
  /\ pc = "idle" => attached

\* Chunks are counted in the order written, read, passed on; once the child is gone,
\* what _drain has read to the end stays read.
ReadInv ==
  /\ \A s \in Streams : got[s] <= read[s] /\ read[s] <= written[s]
  /\ \A s \in Streams \ piped : written[s] = 0
  /\ pc \notin {"drain", "drainAgain"} => stream = "stdout"
  /\ pc = "drainAgain" /\ stream = "stderr" => read["stdout"] = written["stdout"]
  /\ exited /\ pc # "drainAgain" => \A s \in Streams : read[s] = written[s]

\* Descriptors are open until _closeAll, stdin until stdin.end() at the latest, and
\* have been closed once if they are not.  Only a failed create_process forgets any.
OpenInv ==
  /\ IF pc \in Before \/ (pc \in {"attach", "idle"} /\ exited)
     THEN open = {} ELSE piped \cap Streams \subseteq open
  /\ \A f \in Fds : closes[f] = IF f \in piped \ open THEN 1 ELSE 0
  /\ pc \in Before => piped = {}
  /\ leaked # {} => pc = "threw"

TimerInv == timers = IF pc \in {"attach", "idle"} /\ ~ exited THEN 1 ELSE 0

\* The callback comes with 'exit', after which there is no other poll.
CallInv ==
  /\ Len(calls) <= 1
  /\ Called => /\ exited /\ Returned
               /\ pc \in {"closing", "idle"}
               /\ calls[1].code = status

IInv == TypeOK /\ ExitInv /\ ReadInv /\ OpenInv /\ TimerInv /\ CallInv
=============================================================================
