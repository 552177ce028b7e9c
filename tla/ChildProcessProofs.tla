------------------------- MODULE ChildProcessProofs -------------------------
(***************************************************************************)
(* Proofs about exec() and execFile(), for any exit codes, any capacity of *)
(* the pipes and any amount of output: what the child wrote is read before *)
(* the pipes are closed, the callback comes once at most and with the      *)
(* child's exit code, the timers and descriptors of a child that runs are  *)
(* neither leaked nor let go twice, whichever streams are ignored.         *)
(*                                                                         *)
(* Everything follows from the invariant IInv of ChildProcess, whose parts *)
(* each step of the parent needs of the one before: ExitInv says at which  *)
(* steps the exit has been seen, and ReadInv, OpenInv, TimerInv and        *)
(* CallInv what has been read, closed, started and called by then.         *)
(***************************************************************************)
EXTENDS ChildProcess, TLAPS

USE DEF Streams, Fds, Sides, Before, Returned, pipeVars, fdVars

\* The child writes a chunk: it is not gone, so nothing is claimed to be read to the
\* end yet.
LEMMA ChildWriteStep ==
  ASSUME IInv, NEW s \in Streams, ChildWrite(s)
  PROVE  IInv'
<1>1. TypeOK'
  <2>1. written' \in [Streams -> 0..MaxChunks]
    BY ChildProcessAssumption DEF IInv, ChildWrite, TypeOK
  <2> QED
    BY <2>1 DEF IInv, ChildWrite, TypeOK
<1>2. ReadInv'
  BY DEF IInv, ChildWrite, Waiting, TypeOK, ExitInv, ReadInv, OpenInv
<1>3. ExitInv' /\ OpenInv' /\ TimerInv' /\ CallInv'
  BY DEF IInv, ChildWrite, Waiting, TypeOK, ExitInv, OpenInv, TimerInv,
     CallInv, Called
<1> QED
  BY <1>1, <1>2, <1>3 DEF IInv

\* The child ends (by itself or killed): the parent has not seen an exit before.
LEMMA ChildExitStep ==
  ASSUME IInv, NEW c \in Codes, ChildExit(c)
  PROVE  IInv'
<1>1. TypeOK'
  BY ChildProcessAssumption DEF IInv, ChildExit, TypeOK, ExitInv
<1>2. ExitInv'
  BY DEF IInv, ChildExit, TypeOK, ExitInv
<1>3. CallInv'
  BY DEF IInv, ChildExit, TypeOK, ExitInv, CallInv, Called
<1>4. ReadInv' /\ OpenInv' /\ TimerInv'
  BY DEF IInv, ChildExit, TypeOK, ExitInv, ReadInv, OpenInv, TimerInv
<1> QED
  BY <1>1, <1>2, <1>3, <1>4 DEF IInv

\* create_process succeeds: a descriptor comes open for every stream that is not ignored,
\* none has been closed.
LEMMA SpawnStep ==
  ASSUME IInv, Spawn
  PROVE  IInv'
<1>1. TypeOK'
  BY ChildProcessAssumption DEF IInv, Spawn, TypeOK, ExitInv
<1>2. ExitInv'
  BY DEF IInv, Spawn, TypeOK, ExitInv
<1>3. ReadInv'
  BY DEF IInv, Spawn, TypeOK, ExitInv, ReadInv, OpenInv
<1>4. OpenInv'
  BY DEF IInv, Spawn, TypeOK, ExitInv, OpenInv
<1>5. TimerInv'
  BY DEF IInv, Spawn, TypeOK, ExitInv, TimerInv
<1>6. CallInv'
  BY DEF IInv, Spawn, TypeOK, ExitInv, CallInv, Called
<1> QED
  BY <1>1, <1>2, <1>3, <1>4, <1>5, <1>6 DEF IInv

\* create_process fails: exec throws, and what it leaves behind are pipe ends without a
\* number.
LEMMA SpawnFailsStep ==
  ASSUME IInv, SpawnFails
  PROVE  IInv'
<1>1. TypeOK'
  BY ChildProcessAssumption DEF IInv, SpawnFails, TypeOK, ExitInv
<1>2. ExitInv'
  BY DEF IInv, SpawnFails, TypeOK, ExitInv
<1>3. ReadInv'
  BY DEF IInv, SpawnFails, TypeOK, ExitInv, ReadInv, OpenInv
<1>4. OpenInv'
  BY DEF IInv, SpawnFails, TypeOK, ExitInv, OpenInv
<1>5. TimerInv'
  BY DEF IInv, SpawnFails, TypeOK, ExitInv, TimerInv
<1>6. CallInv'
  BY DEF IInv, SpawnFails, TypeOK, ExitInv, CallInv, Called
<1> QED
  BY <1>1, <1>2, <1>3, <1>4, <1>5, <1>6 DEF IInv

\* _readPipe takes no more out of a pipe than is in it.
LEMMA DrainStep ==
  ASSUME IInv, Drain
  PROVE  IInv'
<1>1. PICK n \in 1..Waiting(stream) :
        /\ read' = [read EXCEPT ![stream] = @ + n]
        /\ got' = IF ListensTo(stream) THEN [got EXCEPT ![stream] = @ + n] ELSE got
  BY DEF Drain
<1>2. /\ stream \in Streams
      /\ n \in Nat \ {0} /\ read[stream] + n <= written[stream]
      /\ read[stream] \in Nat /\ written[stream] \in 0..MaxChunks
      /\ got[stream] \in Nat /\ got[stream] <= read[stream]
  BY ChildProcessAssumption DEF IInv, TypeOK, ReadInv, Waiting
<1>3. TypeOK'
  <2>1. /\ read[stream] + n \in 0..MaxChunks
        /\ got[stream] + n \in 0..MaxChunks
    BY <1>2, ChildProcessAssumption
  <2>2. read' \in [Streams -> 0..MaxChunks] /\ got' \in [Streams -> 0..MaxChunks]
    BY <1>1, <2>1 DEF IInv, TypeOK
  <2> QED
    BY <2>2 DEF IInv, Drain, TypeOK
<1>4. ASSUME NEW s \in Streams
      PROVE  /\ got'[s] <= read'[s] /\ read'[s] <= written'[s]
             /\ read[s] = written[s] => read'[s] = written'[s]
  <2>1. CASE s = stream
    <3>1. /\ read'[s] = read[stream] + n /\ written' = written
          /\ got'[s] \in {got[stream], got[stream] + n}
      BY <1>1, <2>1 DEF IInv, Drain, TypeOK
    <3>2. read[stream] # written[stream]
      BY <1>2
    <3> QED
      BY <1>2, <2>1, <3>1, <3>2
  <2>2. CASE s # stream
    <3>1. /\ read'[s] = read[s] /\ got'[s] = got[s] /\ written' = written
      BY <1>1, <2>2 DEF IInv, Drain, TypeOK
    <3> QED
      BY <3>1 DEF IInv, ReadInv
  <2> QED
    BY <2>1, <2>2
<1>5. ReadInv'
  BY <1>4 DEF IInv, Drain, Draining, TypeOK, ReadInv
<1>6. ExitInv' /\ OpenInv' /\ TimerInv' /\ CallInv'
  BY DEF IInv, Drain, TypeOK, ExitInv, OpenInv, TimerInv, CallInv, Called
<1> QED
  BY <1>3, <1>5, <1>6 DEF IInv

\* _readPipe found nothing: once the child is gone, that pipe is read to the end.
LEMMA DrainedStep ==
  ASSUME IInv, Drained
  PROVE  IInv'
<1>1. TypeOK'
  BY ChildProcessAssumption DEF IInv, Drained, Draining, Waiting, TypeOK,
     ExitInv
<1>2. ExitInv'
  BY DEF IInv, Drained, Draining, Waiting, TypeOK, ExitInv
<1>3. ReadInv'
  BY DEF IInv, Drained, Draining, Waiting, TypeOK, ExitInv, ReadInv, OpenInv
<1>4. OpenInv'
  BY DEF IInv, Drained, Draining, Waiting, TypeOK, ExitInv, OpenInv
<1>5. TimerInv'
  BY DEF IInv, Drained, Draining, Waiting, TypeOK, ExitInv, TimerInv
<1>6. CallInv'
  BY DEF IInv, Drained, Draining, Waiting, TypeOK, ExitInv, CallInv, Called
<1> QED
  BY <1>1, <1>2, <1>3, <1>4, <1>5, <1>6 DEF IInv

\* _pollProcess sees the exit: no timer is pending, and _drain starts over at stdout.
LEMMA PollExitedStep ==
  ASSUME IInv, PollExited
  PROVE  IInv'
<1>1. TypeOK'
  BY ChildProcessAssumption DEF IInv, PollExited, TypeOK, ExitInv
<1>2. ExitInv'
  BY DEF IInv, PollExited, TypeOK, ExitInv
<1>3. ReadInv'
  BY DEF IInv, PollExited, TypeOK, ExitInv, ReadInv, OpenInv
<1>4. OpenInv'
  BY DEF IInv, PollExited, TypeOK, ExitInv, OpenInv
<1>5. TimerInv'
  BY DEF IInv, PollExited, TypeOK, ExitInv, TimerInv
<1>6. CallInv'
  BY DEF IInv, PollExited, TypeOK, ExitInv, CallInv, Called
<1> QED
  BY <1>1, <1>2, <1>3, <1>4, <1>5, <1>6 DEF IInv

\* _pollProcess sees the child run: one timer is started, none was pending.
LEMMA PollRunningStep ==
  ASSUME IInv, PollRunning
  PROVE  IInv'
<1>1. TypeOK'
  BY ChildProcessAssumption DEF IInv, PollRunning, Return, TypeOK, ExitInv
<1>2. ExitInv'
  BY DEF IInv, PollRunning, Return, TypeOK, ExitInv
<1>3. ReadInv'
  BY DEF IInv, PollRunning, Return, TypeOK, ExitInv, ReadInv, OpenInv
<1>4. OpenInv'
  BY DEF IInv, PollRunning, Return, TypeOK, ExitInv, OpenInv
<1>5. TimerInv'
  BY DEF IInv, PollRunning, Return, TypeOK, ExitInv, TimerInv
<1>6. CallInv'
  BY DEF IInv, PollRunning, Return, TypeOK, ExitInv, CallInv, Called
<1> QED
  BY <1>1, <1>2, <1>3, <1>4, <1>5, <1>6 DEF IInv

\* 'exit' is emitted at most once: a call of the callback would have moved pc on.
LEMMA EmitExitStep ==
  ASSUME IInv, EmitExit
  PROVE  IInv'
<1> DEFINE Call == [code |-> exitCode, out |-> got]
           CallType == [code : Codes, out : [Streams -> 0..MaxChunks]]
<1>1. calls = <<>>
  BY DEF IInv, EmitExit, CallInv, Called
<1>2. exited /\ exitCode = status /\ status \in Codes
  BY DEF IInv, EmitExit, ExitInv
<1>3. Call \in CallType
  BY <1>2 DEF IInv, TypeOK
<1>4. /\ Append(calls, Call) \in Seq(CallType)
      /\ Len(Append(calls, Call)) = 1
      /\ Append(calls, Call)[1] = Call
  BY <1>1, <1>3
<1>5. TypeOK'
  <2>1. calls' \in Seq(CallType)
    BY <1>4 DEF IInv, EmitExit, TypeOK
  <2> QED
    BY <2>1 DEF IInv, EmitExit, TypeOK
<1>6. CallInv'
  <2>1. CASE Returned
    BY <2>1, <1>2, <1>4 DEF IInv, EmitExit, CallInv, Called
  <2>2. CASE ~ Returned
    BY <2>2, <1>1 DEF IInv, EmitExit, CallInv, Called
  <2> QED
    BY <2>1, <2>2
<1>7. ExitInv'
  BY DEF IInv, EmitExit, TypeOK, ExitInv
<1>8. ReadInv' /\ OpenInv' /\ TimerInv'
  BY <1>2 DEF IInv, EmitExit, TypeOK, ReadInv, OpenInv, TimerInv
<1> QED
  BY <1>5, <1>6, <1>7, <1>8 DEF IInv

\* _closeAll closes what is still open, once.
LEMMA CloseAllStep ==
  ASSUME IInv, CloseAll
  PROVE  IInv'
<1>1. TypeOK'
  BY ChildProcessAssumption DEF IInv, CloseAll, Return, TypeOK, ExitInv
<1>2. ExitInv'
  BY DEF IInv, CloseAll, Return, TypeOK, ExitInv
<1>3. ReadInv'
  BY DEF IInv, CloseAll, Return, TypeOK, ExitInv, ReadInv, OpenInv
<1>4. OpenInv'
  BY DEF IInv, CloseAll, Return, TypeOK, ExitInv, OpenInv
<1>5. TimerInv'
  BY DEF IInv, CloseAll, Return, TypeOK, ExitInv, TimerInv
<1>6. CallInv'
  BY DEF IInv, CloseAll, Return, TypeOK, ExitInv, CallInv, Called
<1> QED
  BY <1>1, <1>2, <1>3, <1>4, <1>5, <1>6 DEF IInv

\* execFile attaches its listeners, or throws: too late for a callback if the child has
\* exited.
LEMMA AttachStep ==
  ASSUME IInv, Attach
  PROVE  IInv'
<1>1. TypeOK'
  BY ChildProcessAssumption DEF IInv, Attach, TypeOK, ExitInv
<1>2. ExitInv'
  BY DEF IInv, Attach, TypeOK, ExitInv
<1>3. ReadInv'
  BY DEF IInv, Attach, TypeOK, ExitInv, ReadInv, OpenInv
<1>4. OpenInv'
  BY DEF IInv, Attach, TypeOK, ExitInv, OpenInv
<1>5. TimerInv'
  BY DEF IInv, Attach, TypeOK, ExitInv, TimerInv
<1>6. CallInv'
  BY DEF IInv, Attach, TypeOK, ExitInv, CallInv, Called
<1> QED
  BY <1>1, <1>2, <1>3, <1>4, <1>5, <1>6 DEF IInv

\* A timer fires: it was the only one, and the child has not been seen to exit.
LEMMA TimerFiresStep ==
  ASSUME IInv, TimerFires
  PROVE  IInv'
<1>1. TypeOK'
  BY ChildProcessAssumption DEF IInv, TimerFires, TypeOK, ExitInv
<1>2. ExitInv'
  BY DEF IInv, TimerFires, TypeOK, ExitInv
<1>3. ReadInv'
  BY DEF IInv, TimerFires, TypeOK, ExitInv, ReadInv, OpenInv
<1>4. OpenInv'
  BY DEF IInv, TimerFires, TypeOK, ExitInv, OpenInv
<1>5. TimerInv'
  BY DEF IInv, TimerFires, TypeOK, ExitInv, TimerInv
<1>6. CallInv'
  BY DEF IInv, TimerFires, TypeOK, ExitInv, CallInv, Called
<1> QED
  BY <1>1, <1>2, <1>3, <1>4, <1>5, <1>6 DEF IInv

\* cp.stdin.end() closes stdin unless it is closed already.
LEMMA StdinEndStep ==
  ASSUME IInv, StdinEnd
  PROVE  IInv'
<1>1. TypeOK'
  BY ChildProcessAssumption DEF IInv, StdinEnd, UserCode, TypeOK, ExitInv
<1>2. OpenInv'
  BY DEF IInv, StdinEnd, UserCode, TypeOK, ExitInv, OpenInv
<1>3. ExitInv' /\ ReadInv' /\ TimerInv' /\ CallInv'
  BY DEF IInv, StdinEnd, UserCode, TypeOK, ExitInv, ReadInv, TimerInv,
     CallInv, Called
<1> QED
  BY <1>1, <1>2, <1>3 DEF IInv

\* Nothing has been started: IInv holds at the start.
LEMMA InitIInv == Init => IInv
<1> SUFFICES ASSUME Init PROVE IInv
  OBVIOUS
<1>1. TypeOK
  <2>1. 0 \in 0..MaxChunks
    BY ChildProcessAssumption
  <2>2. calls \in Seq([code : Codes, out : [Streams -> 0..MaxChunks]])
    BY DEF Init
  <2> QED
    BY <2>1, <2>2 DEF Init, TypeOK
<1>2. ExitInv /\ ReadInv /\ OpenInv /\ TimerInv /\ CallInv
  BY DEF Init, ExitInv, ReadInv, OpenInv, TimerInv, CallInv, Called
<1> QED
  BY <1>1, <1>2 DEF IInv

\* A step that changes no variable of this module.
LEMMA StutterStep ==
  ASSUME IInv, UNCHANGED vars
  PROVE  IInv'
  BY DEF IInv, vars, TypeOK, ExitInv, ReadInv, OpenInv, TimerInv, CallInv, Called

\* IInv holds in every state, for every value of the constants.
THEOREM Inductive == Spec => []IInv
<1>1. IInv /\ [Next]_vars => IInv'
  <2> SUFFICES ASSUME IInv, [Next]_vars PROVE IInv'
    OBVIOUS
  <2>1. CASE Child
    BY <2>1, ChildWriteStep, ChildExitStep DEF Child
  <2>2. CASE Parent
    BY <2>2, SpawnStep, SpawnFailsStep, DrainStep, DrainedStep, PollExitedStep,
       PollRunningStep, EmitExitStep, CloseAllStep, AttachStep, TimerFiresStep
    DEF Parent
  <2>3. CASE StdinEnd
    BY <2>3, StdinEndStep
  <2>4. CASE Kill
    BY <2>4, ChildExitStep, ChildProcessAssumption DEF Kill
  <2>5. CASE UNCHANGED vars
    BY <2>5, StutterStep
  <2> QED
    BY <2>1, <2>2, <2>3, <2>4, <2>5 DEF Next
<1> QED
  BY <1>1, InitIInv, PTL DEF Spec

\* _poll loses no output, however the child's writes and its exit fall between the
\* steps of the parent: when the pipes are closed, all that was written is read.
THEOREM ReadCorrect == Spec => []ReadBeforeClose
<1>1. IInv => ReadBeforeClose
  BY DEF IInv, TypeOK, ExitInv, ReadInv, OpenInv, ReadBeforeClose
<1> QED
  BY <1>1, Inductive, PTL

\* execFile's callback is called at most once, after the child has exited and with
\* its exit code.
THEOREM CallCorrect == Spec => []CalledOnceWithStatus
<1>1. IInv => CalledOnceWithStatus
  BY DEF IInv, ExitInv, CallInv, CalledOnceWithStatus
<1> QED
  BY <1>1, Inductive, PTL

\* One timer while the child is polled and none afterwards, even if execFile has thrown;
\* each descriptor is closed once, by cp.stdin.end() or by _closeAll.  A create_process
\* that fails after it has made pipes is the only one to forget ends of them.
THEOREM ResourcesCorrect == Spec => []ResourcesOnce
<1>1. ASSUME IInv
      PROVE  ResourcesOnce
  <2>1. \A f \in Fds : closes[f] \in {0, 1}
    BY <1>1 DEF IInv, OpenInv
  <2>2. pc = "idle" /\ exited => \A f \in piped : closes[f] = 1
    BY <1>1 DEF IInv, TypeOK, OpenInv
  <2>3. /\ pc = "idle" => timers = IF exited THEN 0 ELSE 1
        /\ leaked # {} => child = "none" /\ timers = 0 /\ open = {}
    BY <1>1 DEF IInv, ExitInv, OpenInv, TimerInv
  <2> QED
    BY <1>1, <2>1, <2>2, <2>3 DEF IInv, ResourcesOnce
<1> QED
  BY <1>1, Inductive, PTL
=============================================================================
