--------------------------- MODULE SpawnSyncProofs --------------------------
(***************************************************************************)
(* Proofs about SpawnSync, for pipes, buffers, inputs and outputs of every *)
(* size: the inductive invariant IInv, and from it OutputComplete and      *)
(* StatusOnWindows.                                                        *)
(***************************************************************************)
EXTENDS SpawnSync, SequenceTheorems, TLAPS

USE DEF Streams, parentVars, childVars

\* The numeric constants.
LEMMA Constants ==
  /\ PipeCap \in Nat /\ PipeCap > 0 /\ ReadMax \in Nat /\ ReadMax > 0
  /\ MaxBuffer \in Nat /\ MaxInput \in Nat /\ MaxOutput \in Nat
  BY SpawnSyncAssumption

\* The order in which read_all_from_fd is called.
LEMMA AfterIs ==
  /\ DOMAIN After = {"stdout", "stderr", "lastStdout", "lastStderr"}
  /\ After["stdout"] = "stderr" /\ After["stderr"] = "wait"
  /\ After["lastStdout"] = "lastStderr" /\ After["lastStderr"] = "status"
  BY DEF After

\* A step that leaves the data alone.
LEMMA QuietData ==
  ASSUME IInv, UNCHANGED <<written, pipe, out>>
  PROVE  DataInv'
  BY DEF IInv, DataInv

\* A sequence cut in two.
LEMMA Split ==
  ASSUME NEW S, NEW q \in Seq(S), NEW n \in 1..Len(q)
  PROVE  /\ SubSeq(q, 1, n) \in Seq(S) /\ Len(SubSeq(q, 1, n)) = n
         /\ \A i \in 1..n : SubSeq(q, 1, n)[i] = q[i]
         /\ SubSeq(q, n + 1, Len(q)) \in Seq(S)
         /\ Len(SubSeq(q, n + 1, Len(q))) = Len(q) - n
         /\ \A i \in 1..(Len(q) - n) : SubSeq(q, n + 1, Len(q))[i] = q[i + n]
<1>1. /\ SubSeq(q, 1, n) \in Seq(S) /\ Len(SubSeq(q, 1, n)) = n
      /\ \A i \in 1..n : SubSeq(q, 1, n)[i] = q[i]
  OBVIOUS
<1>2. /\ SubSeq(q, n + 1, Len(q)) \in Seq(S)
      /\ Len(SubSeq(q, n + 1, Len(q))) = Len(q) - n
      /\ \A i \in 1..(Len(q) - n) : SubSeq(q, n + 1, Len(q))[i] = q[i + n]
  OBVIOUS
<1> QED
  BY <1>1, <1>2

\* A unit written goes behind those in the pipe.
LEMMA AppendInOrder ==
  ASSUME NEW S, NEW o \in Seq(S), NEW q \in Seq(S), NEW w \in Nat, InOrder(o, q, w)
  PROVE  InOrder(o, Append(q, w + 1), w + 1)
<1>1. /\ Len(o) \in Nat /\ Len(q) \in Nat /\ Len(o) + Len(q) = w
      /\ \A i \in 1..Len(o) : o[i] = i
      /\ \A i \in 1..Len(q) : q[i] = Len(o) + i
  BY DEF InOrder
<1>2. /\ Len(Append(q, w + 1)) = Len(q) + 1
      /\ \A i \in 1..Len(q) : Append(q, w + 1)[i] = q[i]
      /\ Append(q, w + 1)[Len(q) + 1] = w + 1
  OBVIOUS
<1>3. ASSUME NEW i \in 1..(Len(q) + 1)
      PROVE  Append(q, w + 1)[i] = Len(o) + i
  <2>1. CASE i \in 1..Len(q)
    BY <1>1, <1>2, <2>1
  <2>2. CASE i = Len(q) + 1
    BY <1>1, <1>2, <2>2
  <2> QED
    BY <1>1, <2>1, <2>2
<1> QED
  BY <1>1, <1>2, <1>3 DEF InOrder

\* A chunk read goes behind what is in the result.
LEMMA ReadInOrder ==
  ASSUME NEW S, NEW o \in Seq(S), NEW q \in Seq(S), NEW w \in Nat, InOrder(o, q, w),
         NEW n \in 1..Len(q)
  PROVE  InOrder(o \o SubSeq(q, 1, n), SubSeq(q, n + 1, Len(q)), w)
<1> DEFINE taken == SubSeq(q, 1, n)
           rest == SubSeq(q, n + 1, Len(q))
<1>1. /\ Len(o) \in Nat /\ Len(q) \in Nat /\ Len(o) + Len(q) = w
      /\ \A i \in 1..Len(o) : o[i] = i
      /\ \A i \in 1..Len(q) : q[i] = Len(o) + i
  BY DEF InOrder
<1>2. /\ taken \in Seq(S) /\ Len(taken) = n /\ \A i \in 1..n : taken[i] = q[i]
      /\ Len(rest) = Len(q) - n
      /\ \A i \in 1..(Len(q) - n) : rest[i] = q[i + n]
  BY Split
<1> HIDE DEF taken, rest
<1>3. /\ Len(o \o taken) = Len(o) + n
      /\ \A i \in 1..(Len(o) + n) :
           (o \o taken)[i] = IF i <= Len(o) THEN o[i] ELSE taken[i - Len(o)]
  BY <1>2, ConcatProperties
<1>4. ASSUME NEW i \in 1..(Len(o) + n)
      PROVE  (o \o taken)[i] = i
  <2>1. CASE i <= Len(o)
    BY <1>1, <1>3, <2>1
  <2>2. CASE ~ (i <= Len(o))
    <3>1. i - Len(o) \in 1..n /\ i - Len(o) \in 1..Len(q)
      BY <1>1, <2>2
    <3>2. (o \o taken)[i] = q[i - Len(o)]
      BY <1>2, <1>3, <2>2, <3>1
    <3> QED
      BY <1>1, <3>1, <3>2
  <2> QED
    BY <2>1, <2>2
<1>5. ASSUME NEW i \in 1..(Len(q) - n)
      PROVE  rest[i] = (Len(o) + n) + i
  <2>1. i + n \in 1..Len(q) /\ rest[i] = q[i + n]
    BY <1>1, <1>2
  <2> QED
    BY <1>1, <2>1
<1>6. (Len(o) + n) + (Len(q) - n) = w
  BY <1>1
<1> QED
  BY <1>2, <1>3, <1>4, <1>5, <1>6 DEF InOrder, taken, rest

\* read(): what one call takes out of a pipe, and what it leaves.
LEMMA ReadTakes ==
  ASSUME IInv, NEW s \in Streams, pipe[s] # <<>>
  PROVE  LET n == Available(s)
             taken == SubSeq(pipe[s], 1, n)
             rest == SubSeq(pipe[s], n + 1, Len(pipe[s]))
         IN /\ n \in 1..Len(pipe[s]) /\ Len(pipe[s]) \in Nat
            /\ taken \in Seq(1..MaxOutput) /\ Len(taken) = n
            /\ \A i \in 1..n : taken[i] = pipe[s][i]
            /\ rest \in Seq(1..MaxOutput) /\ Len(rest) = Len(pipe[s]) - n
            /\ \A i \in 1..(Len(pipe[s]) - n) : rest[i] = pipe[s][i + n]
<1>1. pipe[s] \in Seq(1..MaxOutput) /\ Len(pipe[s]) \in Nat \ {0}
  BY DEF IInv, TypeOK
<1>2. Available(s) \in 1..Len(pipe[s])
  BY <1>1, Constants DEF Available
<1> HIDE DEF Available
<1> QED
  BY <1>1, <1>2, Split

\* A child that stays within maxBuffer never has a chunk that does not fit.
LEMMA WithinBuffer ==
  ASSUME IInv, NEW s \in Streams, written[s] <= MaxBuffer, pipe[s] # <<>>
  PROVE  Fits(s)
<1>1. /\ Available(s) \in 1..Len(pipe[s]) /\ Len(pipe[s]) \in Nat
  BY ReadTakes
<1>2. Len(out[s]) \in Nat /\ written[s] \in Nat /\ MaxBuffer \in Nat
  BY Constants DEF IInv, TypeOK
<1>3. Len(out[s]) + Len(pipe[s]) = written[s]
  BY DEF IInv, DataInv, InOrder
<1> DEFINE a == Available(s)
           p == Len(pipe[s])
           o == Len(out[s])
<1>4. a \in 1..p /\ p \in Nat /\ o \in Nat /\ o + p <= MaxBuffer
  BY <1>1, <1>2, <1>3
<1> HIDE DEF a, p, o
<1>5. o + a <= MaxBuffer
  BY <1>2, <1>4
<1> QED
  BY <1>5 DEF Fits, a, o

\* The child decides, reads its input or exits: it writes nothing.
LEMMA ChildQuietStep ==
  ASSUME IInv, ChildDecides \/ ChildReads \/ \E c \in Codes : ChildExits(c)
  PROVE  IInv'
<1>1. TypeOK'
  BY Constants
  DEF IInv, TypeOK, ChildDecides, ChildReads, ChildExits
<1>2. PlanInv'
  BY DEF IInv, TypeOK, PlanInv, ChildDecides, ChildReads, ChildExits
<1>3. DataInv'
  BY QuietData DEF ChildDecides, ChildReads, ChildExits
<1>4. FinalInv'
  BY DEF IInv, FinalInv, ChildDecides, ChildReads, ChildExits
<1>5. StatusOnWindows'
  BY DEF IInv, FinalInv, StatusOnWindows, StatusReported, ChildDecides, ChildReads,
         ChildExits
<1> QED
  BY <1>1, <1>2, <1>3, <1>4, <1>5 DEF IInv

\* The child writes a unit: it goes to the end of the pipe.
LEMMA ChildWritesStep ==
  ASSUME IInv, NEW s \in Streams, ChildWrites(s)
  PROVE  IInv'
<1> DEFINE q == pipe[s]
           w == written[s]
<1>1. /\ w \in Nat /\ plan[s] \in Nat \ {0} /\ w + 1 \in 1..MaxOutput
      /\ plan[s] - 1 \in 0..MaxOutput
      /\ (plan[s] - 1) + (w + 1) <= MaxOutput
      /\ q \in Seq(1..MaxOutput) /\ Len(q) \in Nat
  <2>1. /\ w \in 0..MaxOutput /\ plan[s] \in 0..MaxOutput /\ plan[s] > 0
        /\ plan[s] + w <= MaxOutput /\ MaxOutput \in Nat
        /\ q \in Seq(1..MaxOutput)
    BY Constants DEF IInv, TypeOK, PlanInv, ChildWrites
  <2> QED
    BY <2>1
<1>2. /\ Append(q, w + 1) \in Seq(1..MaxOutput) /\ Len(Append(q, w + 1)) = Len(q) + 1
      /\ \A i \in 1..Len(q) : Append(q, w + 1)[i] = q[i]
      /\ Append(q, w + 1)[Len(q) + 1] = w + 1
  BY <1>1
<1>3. /\ pipe'[s] = Append(q, w + 1) /\ written'[s] = w + 1 /\ plan'[s] = plan[s] - 1
      /\ \A r \in Streams : r # s => /\ pipe'[r] = pipe[r] /\ written'[r] = written[r]
                                     /\ plan'[r] = plan[r]
      /\ out' = out /\ pc' = pc /\ child' = "running" /\ child = s
  BY DEF IInv, TypeOK, ChildWrites
<1>4. TypeOK'
  <2>1. pipe' \in [Streams -> Seq(1..MaxOutput)]
    BY <1>2 DEF IInv, TypeOK, ChildWrites
  <2>2. written' \in [Streams -> 0..MaxOutput]
    <3>1. w + 1 \in 0..MaxOutput
      BY <1>1, Constants
    <3>2. written \in [Streams -> 0..MaxOutput] /\ written' = [written EXCEPT ![s] = w + 1]
      BY DEF IInv, TypeOK, ChildWrites
    <3> HIDE DEF w
    <3> QED
      BY <3>1, <3>2
  <2>3. plan' \in [Streams -> 0..MaxOutput]
    <3> DEFINE left == plan[s] - 1
    <3>1. left \in 0..MaxOutput
      BY <1>1
    <3>2. plan \in [Streams -> 0..MaxOutput] /\ plan' = [plan EXCEPT ![s] = left]
      BY DEF IInv, TypeOK, ChildWrites
    <3> HIDE DEF left
    <3> QED
      BY <3>1, <3>2
  <2> QED
    BY <2>1, <2>2, <2>3 DEF IInv, TypeOK, ChildWrites
<1>5. PlanInv'
  BY <1>1, <1>3 DEF IInv, PlanInv
<1>6. DataInv'
  <2>1. \A r \in Streams : out'[r] = out[r] /\ Len(out[r]) <= MaxBuffer
    BY <1>3 DEF IInv, DataInv
  <2>2. w + 1 <= MaxBuffer => InOrder(out[s], pipe'[s], w + 1)
    <3>1. w + 1 <= MaxBuffer => w <= MaxBuffer
      BY <1>1, Constants
    <3>2. w <= MaxBuffer => InOrder(out[s], q, w)
      BY DEF IInv, DataInv
    <3>3. out[s] \in Seq(1..MaxOutput)
      BY DEF IInv, TypeOK
    <3> QED
      BY <1>1, <1>3, <3>1, <3>2, <3>3, AppendInOrder
  <2> QED
    BY <1>3, <2>1, <2>2 DEF IInv, DataInv
<1>7. FinalInv'
  BY <1>3 DEF IInv, FinalInv
<1>8. StatusOnWindows'
  BY DEF IInv, StatusOnWindows, StatusReported, ChildWrites
<1> QED
  BY <1>4, <1>5, <1>6, <1>7, <1>8 DEF IInv

\* Steps of the parent up to the first read: no output is touched.
LEMMA InputStep ==
  ASSUME IInv,
         CreateProcess \/ CreateFails \/ WriteInput \/ WriteFails \/ CloseStdin
  PROVE  IInv'
<1> USE DEF CreateProcess, CreateFails, WriteInput, WriteFails, CloseStdin
<1>1. TypeOK'
  <2>1. stdin' \in 0..PipeCap /\ toWrite' \in 0..MaxInput
    BY Constants DEF IInv, TypeOK
  <2>2. pc' \in {"create", "error", "input", "sigpipe", "stdout"}
    BY DEF IInv, TypeOK
  <2>3. child' \in {"none", "running", "stdin", "exiting", "exited"} \cup Streams
    BY DEF IInv, TypeOK
  <2>4. stdinOpen' \in BOOLEAN
    BY DEF IInv, TypeOK
  <2>5. UNCHANGED <<platform, code, reaped, plan, written, pipe, out, status>>
    OBVIOUS
  <2> QED
    BY <2>1, <2>2, <2>3, <2>4, <2>5, AfterIs DEF IInv, TypeOK
<1>2. PlanInv'
  BY DEF IInv, PlanInv
<1>3. DataInv'
  BY QuietData
<1>4. FinalInv'
  BY DEF IInv, FinalInv
<1>5. StatusOnWindows'
  BY DEF IInv, StatusOnWindows, StatusReported
<1> QED
  BY <1>1, <1>2, <1>3, <1>4, <1>5 DEF IInv

\* The wait for the child, and the report.
LEMMA WaitStep ==
  ASSUME IInv, PollWindows \/ WaitUnix \/ ReportStatus
  PROVE  IInv'
<1> USE DEF PollWindows, WaitUnix, ReportStatus
<1>1. TypeOK'
  BY AfterIs DEF IInv, TypeOK
<1>2. PlanInv'
  BY DEF IInv, PlanInv
<1>3. DataInv'
  BY QuietData
<1>4. FinalInv'
  BY DEF IInv, FinalInv
<1>5. StatusOnWindows'
  BY DEF IInv, StatusOnWindows, StatusReported
<1> QED
  BY <1>1, <1>2, <1>3, <1>4, <1>5 DEF IInv

\* read_all_from_fd comes to the end of what there is.
LEMMA ReadDoneStep ==
  ASSUME IInv, ReadDone
  PROVE  IInv'
<1> USE AfterIs DEF ReadDone
<1>1. TypeOK'
  BY DEF IInv, TypeOK
<1>2. PlanInv'
  BY DEF IInv, PlanInv
<1>3. DataInv'
  BY QuietData
<1>4. FinalInv'
  BY DEF IInv, FinalInv, StreamOf
<1>5. StatusOnWindows'
  BY DEF IInv, StatusOnWindows, StatusReported
<1> QED
  BY <1>1, <1>2, <1>3, <1>4, <1>5 DEF IInv

\* read_all_from_fd: a chunk that fits moves from the pipe to the result.
LEMMA ReadChunkStep ==
  ASSUME IInv, ReadChunk
  PROVE  IInv'
<1> DEFINE s == StreamOf(pc)
           q == pipe[s]
           n == Available(s)
           taken == SubSeq(q, 1, n)
           rest == SubSeq(q, n + 1, Len(q))
<1>1. s \in Streams /\ q # <<>> /\ Fits(s)
  BY AfterIs DEF ReadChunk, StreamOf
<1>2. /\ out' = [out EXCEPT ![s] = @ \o taken] /\ pipe' = [pipe EXCEPT ![s] = rest]
      /\ UNCHANGED <<platform, child, code, plan, written, toWrite, stdinOpen, pc, status,
                     reaped, stdin>>
  BY DEF ReadChunk
<1>3. /\ n \in 1..Len(q) /\ Len(q) \in Nat
      /\ taken \in Seq(1..MaxOutput) /\ Len(taken) = n
      /\ rest \in Seq(1..MaxOutput)
  BY <1>1, ReadTakes
<1>4. /\ out[s] \in Seq(1..MaxOutput) /\ q \in Seq(1..MaxOutput) /\ written[s] \in Nat
      /\ Len(out[s]) \in Nat
  BY <1>1, Constants DEF IInv, TypeOK
<1>5. Len(out[s]) + n <= MaxBuffer
  BY <1>1 DEF Fits
<1> HIDE DEF s, n, taken, rest
<1>6. out[s] \o taken \in Seq(1..MaxOutput) /\ Len(out[s] \o taken) = Len(out[s]) + n
  BY <1>3, <1>4, ConcatProperties
<1>7. /\ out'[s] = out[s] \o taken /\ pipe'[s] = rest
      /\ \A r \in Streams : r # s => out'[r] = out[r] /\ pipe'[r] = pipe[r]
  BY <1>1, <1>2 DEF IInv, TypeOK
<1>8. TypeOK'
  <2>1. out' \in [Streams -> Seq(1..MaxOutput)] /\ pipe' \in [Streams -> Seq(1..MaxOutput)]
    BY <1>1, <1>2, <1>3, <1>6 DEF IInv, TypeOK
  <2> QED
    BY <1>2, <2>1 DEF IInv, TypeOK
<1>9. PlanInv' /\ StatusOnWindows'
  BY <1>2 DEF IInv, PlanInv, StatusOnWindows, StatusReported
<1>10. DataInv'
  <2>1. written[s] <= MaxBuffer => InOrder(out[s] \o taken, rest, written[s])
    BY <1>1, <1>3, <1>4, ReadInOrder DEF IInv, DataInv, taken, rest
  <2> QED
    BY <1>2, <1>5, <1>6, <1>7, <2>1 DEF IInv, DataInv
<1>11. FinalInv'
  BY <1>1, <1>2, <1>7, AfterIs DEF IInv, FinalInv, ReadChunk, StreamOf, s
<1> QED
  BY <1>8, <1>9, <1>10, <1>11 DEF IInv

\* ... one that does not fit is dropped: the child has written more than maxBuffer.
LEMMA ReadTooMuchStep ==
  ASSUME IInv, ReadTooMuch
  PROVE  IInv'
<1> DEFINE s == StreamOf(pc)
           rest == SubSeq(pipe[s], Available(s) + 1, Len(pipe[s]))
<1>1. s \in Streams /\ pipe[s] # <<>> /\ ~ Fits(s) /\ pc \in DOMAIN After
  BY AfterIs DEF ReadTooMuch, StreamOf
<1>2. /\ pipe' = [pipe EXCEPT ![s] = rest] /\ pc' = After[pc]
      /\ UNCHANGED <<platform, child, code, plan, written, toWrite, stdinOpen, out, status,
                     reaped, stdin>>
  BY DEF ReadTooMuch
<1>3. rest \in Seq(1..MaxOutput)
  BY <1>1, ReadTakes
<1>4. ~ (written[s] <= MaxBuffer)
  BY <1>1, WithinBuffer
<1> HIDE DEF rest
<1>5. \A r \in Streams : r # s => pipe'[r] = pipe[r]
  BY <1>1, <1>2 DEF IInv, TypeOK
<1>6. TypeOK'
  <2>1. pipe' \in [Streams -> Seq(1..MaxOutput)]
    BY <1>1, <1>2, <1>3 DEF IInv, TypeOK
  <2>2. pc' \in {"stderr", "wait", "lastStderr", "status"}
    BY <1>1, <1>2, AfterIs
  <2> QED
    BY <1>2, <2>1, <2>2, AfterIs DEF IInv, TypeOK
<1>7. PlanInv'
  BY <1>2 DEF IInv, PlanInv
<1>8. StatusOnWindows'
  BY <1>1, <1>2, AfterIs DEF StatusOnWindows, StatusReported
<1>9. DataInv'
  BY <1>2, <1>4, <1>5 DEF IInv, DataInv
<1>10. FinalInv'
  BY <1>1, <1>2, <1>4, <1>5, AfterIs DEF IInv, FinalInv, StreamOf
<1> QED
  BY <1>6, <1>7, <1>8, <1>9, <1>10 DEF IInv

\* Nothing is written, read or reported yet.
LEMMA InitIInv == Init => IInv
<1> SUFFICES ASSUME Init PROVE IInv
  OBVIOUS
<1>1. TypeOK
  <2>1. 0 \in 0..MaxOutput /\ 0 \in 0..PipeCap /\ <<>> \in Seq(1..MaxOutput)
    BY Constants
  <2>2. /\ written \in [Streams -> 0..MaxOutput]
        /\ pipe \in [Streams -> Seq(1..MaxOutput)]
        /\ out \in [Streams -> Seq(1..MaxOutput)]
    BY <2>1 DEF Init
  <2> QED
    BY <2>1, <2>2 DEF Init, TypeOK
<1>2. PlanInv
  BY Constants DEF Init, PlanInv
<1>3. DataInv
  BY Constants DEF Init, DataInv, InOrder
<1>4. FinalInv /\ StatusOnWindows
  BY DEF Init, FinalInv, StatusOnWindows, StatusReported
<1> QED
  BY <1>1, <1>2, <1>3, <1>4 DEF IInv

\* IInv holds in every state, on both platforms.
THEOREM Inductive == Spec => []IInv
<1>1. IInv /\ [Next]_vars => IInv'
  <2> SUFFICES ASSUME IInv, [Next]_vars PROVE IInv'
    OBVIOUS
  <2>1. CASE Child
    BY <2>1, ChildQuietStep, ChildWritesStep DEF Child
  <2>2. CASE Parent
    BY <2>2, InputStep, ReadChunkStep, ReadTooMuchStep, ReadDoneStep, WaitStep DEF Parent
  <2>3. CASE UNCHANGED vars
    <3>1. TypeOK'
      BY <2>3 DEF IInv, TypeOK, vars
    <3>2. PlanInv' /\ FinalInv' /\ StatusOnWindows'
      BY <2>3 DEF IInv, PlanInv, FinalInv, StatusOnWindows, StatusReported, vars
    <3>3. DataInv'
      BY <2>3, QuietData DEF vars
    <3> QED
      BY <3>1, <3>2, <3>3 DEF IInv
  <2> QED
    BY <2>1, <2>2, <2>3 DEF Next
<1> QED
  BY <1>1, InitIInv, PTL DEF Spec

\* spawnSync reports all the output of a child that stays within maxBuffer, in order,
\* and never more than maxBuffer.
THEOREM OutputCorrect == Spec => []OutputComplete
<1>1. ASSUME IInv
      PROVE  OutputComplete
  <2>1. ASSUME pc = "done", NEW s \in Streams, written[s] <= MaxBuffer
        PROVE  out[s] = [i \in 1..written[s] |-> i]
    <3>1. pipe[s] = <<>>
      BY <1>1, <2>1 DEF IInv, FinalInv
    <3>2. out[s] \in Seq(1..MaxOutput) /\ Len(out[s]) \in Nat /\ written[s] \in Nat
      BY <1>1, Constants DEF IInv, TypeOK
    <3>3. InOrder(out[s], <<>>, written[s])
      BY <1>1, <2>1, <3>1 DEF IInv, DataInv
    <3>4. Len(<<>>) = 0
      OBVIOUS
    <3>5. Len(out[s]) = written[s] /\ \A i \in 1..Len(out[s]) : out[s][i] = i
      BY <3>2, <3>3, <3>4 DEF InOrder
    <3> QED
      BY <3>2, <3>5
  <2> QED
    BY <1>1, <2>1 DEF IInv, DataInv, OutputComplete
<1> QED
  BY <1>1, Inductive, PTL

\* On Windows the status in the result is the exit code of the child.
THEOREM StatusCorrect == Spec => []StatusOnWindows
<1>1. IInv => StatusOnWindows
  BY DEF IInv
<1> QED
  BY <1>1, Inductive, PTL
=============================================================================
