----------------------------- MODULE SpawnSync ------------------------------
(***************************************************************************)
(* spawnSync (js_child_spawnSync, read_all_from_fd): the parent writes the *)
(* input, then reads both pipes and waits for the child in turns, reads    *)
(* what is left and reports the output and the status.  On Windows the     *)
(* wait is a poll with a sleep; on Unix it is a blocking waitpid().        *)
(*                                                                         *)
(* The child is any program that reads some input and writes some output;  *)
(* it blocks in a write to a full pipe and in a read from an empty one.    *)
(* Data is counted in units; unit n of a stream is the number n.           *)
(***************************************************************************)
EXTENDS Integers, Sequences, SequencesExt, FiniteSets

CONSTANTS
  Platforms,    \* systems that the program is built for
  Codes,        \* exit codes of children
  StillActive,  \* the code that Windows reports for a running process
  PipeCap,      \* units an OS pipe holds
  ReadMax,      \* units that one read() takes (8192 bytes in the code)
  MaxBuffer,    \* options.maxBuffer
  MaxInput,     \* bound: units of options.input
  MaxOutput     \* bound: units the child writes to one stream

ASSUME SpawnSyncAssumption ==
  /\ Platforms \subseteq {"windows", "unix"}
  /\ {PipeCap, ReadMax} \subseteq Nat \ {0}
  /\ {MaxBuffer, MaxInput, MaxOutput} \subseteq Nat
  /\ -1 \notin Codes

Streams == {"stdout", "stderr"}

VARIABLES
  platform,     \* the system of this build
  child,        \* what the child is doing ("none": not created, "exited")
  code,         \* its exit code (-1 before it exits)
  reaped,       \* waitpid() has returned its status
  plan,         \* plan[s]: units it still wants to write to s
  written,      \* written[s]: units it has written to s
  pipe,         \* pipe[s]: the units in the OS pipe of s
  toWrite,      \* units of the input not yet written by the parent
  stdin,        \* units in the pipe of stdin
  stdinOpen,    \* the parent's end of stdin is open
  pc,           \* the next step of the parent
  out,          \* out[s]: gb_out, gb_err
  status        \* the status in the result (-1 for null)

parentVars == <<toWrite, stdinOpen, pc, out, status>>
childVars == <<child, code, plan, written>>
vars == <<platform, childVars, parentVars, reaped, pipe, stdin>>

Init ==
  /\ platform \in Platforms
  /\ child = "none" /\ code = -1 /\ reaped = FALSE
  /\ plan \in [Streams -> 0..MaxOutput]
  /\ written = [s \in Streams |-> 0]
  /\ pipe = [s \in Streams |-> <<>>]
  /\ toWrite \in 0..MaxInput
  /\ stdin = 0 /\ stdinOpen = FALSE
  /\ pc = "create"
  /\ out = [s \in Streams |-> <<>>]
  /\ status = -1
-----------------------------------------------------------------------------
(***************************************************************************)
(* The child: it decides on its next system call, then makes it.           *)
(***************************************************************************)
ChildDecides ==
  /\ child = "running"
  /\ \/ \E s \in Streams : plan[s] > 0 /\ child' = s
     \/ child' = "stdin"
     \/ (\A s \in Streams : plan[s] = 0) /\ child' = "exiting"
  /\ UNCHANGED <<platform, code, plan, written, parentVars, reaped, pipe, stdin>>

ChildWrites(s) ==
  /\ child = s
  /\ Len(pipe[s]) < PipeCap
  /\ pipe' = [pipe EXCEPT ![s] = Append(@, written[s] + 1)]
  /\ written' = [written EXCEPT ![s] = @ + 1]
  /\ plan' = [plan EXCEPT ![s] = @ - 1]
  /\ child' = "running"
  /\ UNCHANGED <<platform, code, parentVars, reaped, stdin>>

\* One unit, or end of file.
ChildReads ==
  /\ child = "stdin"
  /\ stdin > 0 \/ ~ stdinOpen
  /\ stdin' = IF stdin > 0 THEN stdin - 1 ELSE 0
  /\ child' = "running"
  /\ UNCHANGED <<platform, code, plan, written, parentVars, reaped, pipe>>

ChildExits(c) ==
  /\ child = "exiting"
  /\ child' = "exited" /\ code' = c
  /\ UNCHANGED <<platform, plan, written, parentVars, reaped, pipe, stdin>>
-----------------------------------------------------------------------------
(***************************************************************************)
(* The parent.                                                             *)
(***************************************************************************)
CreateProcess ==
  /\ pc = "create"
  /\ child' = "running"
  /\ stdinOpen' = TRUE
  /\ pc' = "input"
  /\ UNCHANGED <<platform, code, plan, written, toWrite, out, status, reaped,
                 pipe, stdin>>

\* create_process returns -1: the result has status null and an error
CreateFails ==
  /\ pc = "create"
  /\ pc' = "error"
  /\ UNCHANGED <<platform, childVars, toWrite, stdinOpen, out, status, reaped,
                 pipe, stdin>>

\* _write() of the whole input blocks while the pipe is full.
WriteInput ==
  /\ pc = "input" /\ toWrite > 0
  /\ child # "exited" /\ stdin < PipeCap
  /\ stdin' = stdin + 1
  /\ toWrite' = toWrite - 1
  /\ UNCHANGED <<platform, childVars, stdinOpen, pc, out, status, reaped, pipe>>

\* The child is gone: _write() fails on Windows, and nobody looks at its result;
\* on Unix SIGPIPE ends the program.
WriteFails ==
  /\ pc = "input" /\ toWrite > 0
  /\ child = "exited"
  /\ toWrite' = 0
  /\ pc' = IF platform = "windows" THEN pc ELSE "sigpipe"
  /\ UNCHANGED <<platform, childVars, stdinOpen, out, status, reaped, pipe, stdin>>

CloseStdin ==
  /\ pc = "input" /\ toWrite = 0
  /\ stdinOpen' = FALSE
  /\ pc' = "stdout"
  /\ UNCHANGED <<platform, childVars, toWrite, out, status, reaped, pipe, stdin>>

\* The two rounds of read_all_from_fd, and the stream each step of them reads.
StreamOf(label) == IF label \in {"stdout", "lastStdout"} THEN "stdout" ELSE "stderr"
After == [stdout |-> "stderr", stderr |-> "wait",
          lastStdout |-> "lastStderr", lastStderr |-> "status"]

\* The next read() takes what there is, up to the size of the buffer.
Available(s) == IF Len(pipe[s]) < ReadMax THEN Len(pipe[s]) ELSE ReadMax

Fits(s) == Len(out[s]) + Available(s) <= MaxBuffer

\* read_all_from_fd: one round of its loop
ReadChunk ==
  /\ pc \in DOMAIN After
  /\ LET s == StreamOf(pc) IN
     /\ pipe[s] # <<>> /\ Fits(s)
     /\ out' = [out EXCEPT ![s] = @ \o SubSeq(pipe[s], 1, Available(s))]
     /\ pipe' = [pipe EXCEPT ![s] = SubSeq(@, Available(s) + 1, Len(@))]
  /\ UNCHANGED <<platform, childVars, toWrite, stdinOpen, pc, status, reaped,
                 stdin>>

\* ... over maxBuffer: returns -1, which is ignored; the chunk it has read is lost
ReadTooMuch ==
  /\ pc \in DOMAIN After
  /\ LET s == StreamOf(pc) IN
     /\ pipe[s] # <<>> /\ ~ Fits(s)
     /\ pipe' = [pipe EXCEPT ![s] = SubSeq(@, Available(s) + 1, Len(@))]
  /\ pc' = After[pc]
  /\ UNCHANGED <<platform, childVars, toWrite, stdinOpen, out, status, reaped,
                 stdin>>

\* (faulty variant: no final reads)
ReadDone_NoFinal ==
  /\ pc \in DOMAIN After
  /\ pipe[StreamOf(pc)] = <<>> \/ pc \in {"lastStdout", "lastStderr"}
  /\ pc' = After[pc]
  /\ UNCHANGED <<platform, childVars, toWrite, stdinOpen, out, status, reaped,
                 pipe, stdin>>

\* ... nothing left (or end of file)
ReadDone ==
  /\ pc \in DOMAIN After
  /\ pipe[StreamOf(pc)] = <<>>
  /\ pc' = After[pc]
  /\ UNCHANGED <<platform, childVars, toWrite, stdinOpen, out, status, reaped,
                 pipe, stdin>>

\* (faulty variant: Windows waits for the process like Unix does)
PollWindows_Blocks ==
  /\ platform = "windows" /\ pc = "wait"
  /\ child = "exited" /\ code # StillActive
  /\ pc' = "lastStdout"
  /\ UNCHANGED <<platform, childVars, toWrite, stdinOpen, out, status, reaped,
                 pipe, stdin>>

\* GetExitCodeProcess; Sleep(1)
PollWindows ==
  /\ platform = "windows" /\ pc = "wait"
  /\ pc' = IF child = "exited" /\ code # StillActive THEN "lastStdout" ELSE "stdout"
  /\ UNCHANGED <<platform, childVars, toWrite, stdinOpen, out, status, reaped,
                 pipe, stdin>>

\* waitpid(pid, &status, 0) blocks until the child has exited; the status goes
\* to a variable of the loop's body.
WaitUnix ==
  /\ platform = "unix" /\ pc = "wait"
  /\ child = "exited"
  /\ reaped' = TRUE
  /\ pc' = "lastStdout"
  /\ UNCHANGED <<platform, childVars, toWrite, stdinOpen, out, status, pipe, stdin>>

\* (faulty variant: 0 for every process that ended)
ReportStatus_Zero ==
  /\ pc = "status"
  /\ status' = 0
  /\ pc' = "done"
  /\ UNCHANGED <<platform, childVars, toWrite, stdinOpen, out, reaped, pipe, stdin>>

\* GetExitCodeProcess once more, or two more waitpid() calls: they find no child
\* to wait for when it has been reaped, which leaves status 0.
ReportStatus ==
  /\ pc = "status"
  /\ status' = IF platform = "windows" \/ ~ reaped THEN code ELSE 0
  /\ pc' = "done"
  /\ UNCHANGED <<platform, childVars, toWrite, stdinOpen, out, reaped, pipe, stdin>>

Child ==
  \/ ChildDecides \/ ChildReads
  \/ \E s \in Streams : ChildWrites(s)
  \/ \E c \in Codes : ChildExits(c)

Parent ==
  \/ CreateProcess \/ CreateFails \/ WriteInput \/ WriteFails \/ CloseStdin
  \/ ReadChunk \/ ReadTooMuch \/ ReadDone
  \/ PollWindows \/ WaitUnix \/ ReportStatus

Next == Child \/ Parent

Spec == Init /\ [][Next]_vars

\* Both processes run, and the child does not read for ever.
FairSpec ==
  /\ Spec
  /\ WF_vars(Parent) /\ WF_vars(Child)
  /\ \A s \in Streams : SF_vars(child' = s /\ ChildDecides)
  /\ SF_vars(child' = "exiting" /\ ChildDecides)
-----------------------------------------------------------------------------
TypeOK ==
  /\ platform \in Platforms
  /\ child \in {"none", "running", "stdin", "exiting", "exited"} \cup Streams
  /\ code \in Codes \cup {-1}
  /\ reaped \in BOOLEAN
  /\ plan \in [Streams -> 0..MaxOutput]
  /\ written \in [Streams -> 0..MaxOutput]
  /\ pipe \in [Streams -> Seq(1..MaxOutput)]
  /\ toWrite \in 0..MaxInput
  /\ stdin \in 0..PipeCap
  /\ stdinOpen \in BOOLEAN
  /\ pc \in {"create", "error", "input", "sigpipe", "wait", "status", "done"}
            \cup DOMAIN After
  /\ out \in [Streams -> Seq(1..MaxOutput)]
  /\ status \in Codes \cup {-1, 0}

\* A child that stays within maxBuffer is reported with all of its output, in
\* order, although it writes while the parent polls; one that writes more never makes
\* the result larger than maxBuffer.
OutputComplete ==
  /\ TypeOK
  /\ \A s \in Streams : Len(out[s]) <= MaxBuffer
  /\ pc = "done" =>
       \A s \in Streams : written[s] <= MaxBuffer => out[s] = [i \in 1..written[s] |-> i]

\* The status in the result is the exit code of the child, as the tests expect.
StatusReported == pc = "done" => status = code

\* The Windows code asks for the exit code again after the loop and gets it.
StatusOnWindows == platform = "windows" => StatusReported

\* spawnSync returns: it reads the output until the process exits, so that the
\* two never wait for each other for ever.
Returns == <>(pc \in {"done", "error"})

\* The Windows code does, for an input that fits in the pipe.
ReturnsOnWindows == platform = "windows" => Returns
-----------------------------------------------------------------------------
(***************************************************************************)
(* The inductive invariant behind the two safety properties.               *)
(***************************************************************************)
\* The child keeps to its plan.
PlanInv ==
  \A s \in Streams : /\ plan[s] + written[s] <= MaxOutput
                     /\ child = s => plan[s] > 0

\* The units 1..n, one half after the other.
InOrder(front, back, n) ==
  /\ Len(front) + Len(back) = n
  /\ \A i \in 1..Len(front) : front[i] = i
  /\ \A i \in 1..Len(back) : back[i] = Len(front) + i

\* Output within maxBuffer is in the result or in the pipe behind it, in order.
DataInv ==
  \A s \in Streams :
    /\ Len(out[s]) <= MaxBuffer
    /\ written[s] <= MaxBuffer => InOrder(out[s], pipe[s], written[s])

\* The final reads begin when the child has exited, and leave nothing behind.
FinalInv ==
  /\ pc \in {"lastStdout", "lastStderr", "status", "done"} => child = "exited"
  /\ pc \in {"lastStderr", "status", "done"} =>
       (written["stdout"] <= MaxBuffer => pipe["stdout"] = <<>>)
  /\ pc \in {"status", "done"} =>
       (written["stderr"] <= MaxBuffer => pipe["stderr"] = <<>>)

IInv == TypeOK /\ PlanInv /\ DataInv /\ FinalInv /\ StatusOnWindows
=============================================================================
