-------------------------- MODULE WorkerPipeProofs --------------------------
(***************************************************************************)
(* Proofs about WorkerPipe for any number of workers and of messages.      *)
(***************************************************************************)
EXTENDS WorkerPipe, SequenceTheorems, TLAPS

USE DEF Sender, Receiver

\* A pipe joins two different threads.
LEMMA PipeEnds ==
  /\ Pipes # {}
  /\ \A p \in Pipes : p[1] \in Threads /\ p[2] \in Threads /\ p[1] # p[2]
<1>1. Pipes # {}
  <2>1. PICK w \in Workers : TRUE
    BY WorkerPipeAssumption
  <2>2. <<Main, w>> \in Pipes
    BY <2>1 DEF Pipes
  <2> QED
    BY <2>2
<1>2. ASSUME NEW p \in Pipes
      PROVE  p[1] \in Threads /\ p[2] \in Threads /\ p[1] # p[2]
  BY WorkerPipeAssumption DEF Pipes, Threads
<1> QED
  BY <1>1, <1>2

\* A free mutex is held by no thread.
LEMMA NoThreadIsNone == NoThread \notin Threads
BY WorkerPipeAssumption DEF Threads

(***************************************************************************)
(* The three ways a step treats the mutexes: it takes one, releases one,   *)
(* or leaves them alone while one thread moves within or outside its       *)
(* critical section.                                                       *)
(***************************************************************************)
\* pthread_mutex_lock on a free mutex by a thread outside critical sections.
LEMMA LockTaken ==
  ASSUME TypeOK, LockInv, NEW t \in Threads, NEW q \in Pipes, NEW label \in Critical,
         mutex[q] = NoThread, pc[t] \notin Critical,
         mutex' = [mutex EXCEPT ![q] = t],
         cur' = [cur EXCEPT ![t] = q],
         pc' = [pc EXCEPT ![t] = label]
  PROVE  LockInv'
<1> SUFFICES ASSUME NEW r \in Pipes, NEW u \in Threads
             PROVE  mutex'[r] = u <=> cur'[u] = r /\ pc'[u] \in Critical
  BY DEF LockInv
<1>1. mutex[r] = u <=> cur[u] = r /\ pc[u] \in Critical
  BY DEF LockInv
<1>2. CASE u = t
  BY <1>1, <1>2 DEF TypeOK
<1>3. CASE u # t
  BY <1>1, <1>3, NoThreadIsNone DEF TypeOK
<1> QED
  BY <1>2, <1>3

\* pthread_mutex_unlock by the thread in the critical section.
LEMMA LockReleased ==
  ASSUME TypeOK, LockInv, NEW t \in Threads, NEW label, label \notin Critical,
         pc[t] \in Critical,
         mutex' = [mutex EXCEPT ![cur[t]] = NoThread],
         cur' = cur,
         pc' = [pc EXCEPT ![t] = label]
  PROVE  LockInv'
BY NoThreadIsNone DEF TypeOK, LockInv

\* A step that touches no mutex and enters or leaves no critical section.
LEMMA LockKept ==
  ASSUME TypeOK, LockInv, NEW t \in Threads, NEW label,
         mutex' = mutex,
         pc' = [pc EXCEPT ![t] = label],
         \/ pc[t] \in Critical /\ label \in Critical /\ cur' = cur
         \/ /\ pc[t] \notin Critical /\ label \notin Critical
            /\ \A u \in Threads \ {t} : cur'[u] = cur[u]
  PROVE  LockInv'
<1> SUFFICES ASSUME NEW q \in Pipes, NEW u \in Threads
             PROVE  mutex[q] = u <=> cur'[u] = q /\ pc'[u] \in Critical
  BY DEF LockInv
<1>1. mutex[q] = u <=> cur[u] = q /\ pc[u] \in Critical
  BY DEF LockInv
<1>2. CASE u = t
  BY <1>1, <1>2 DEF TypeOK
<1>3. CASE u # t
  BY <1>1, <1>3 DEF TypeOK
<1> QED
  BY <1>2, <1>3

\* The invariant holds before the first Worker is constructed.
LEMMA InitIInv == Init => IInv
<1> SUFFICES ASSUME Init PROVE IInv
  OBVIOUS
<1>1. TypeOK
  BY PipeEnds DEF Init, TypeOK, PCs, Critical, Sending, Taking
<1>2. LockInv
  BY <1>1, NoThreadIsNone DEF Init, LockInv, TypeOK, Critical, Sending, Taking
<1>3. EndInv
  BY <1>1 DEF Init, EndInv, TypeOK, Critical, Sending, Taking
<1>4. WokenInv
  BY <1>1 DEF Init, WokenInv, TypeOK
<1>5. WakerMatchesQueue
  BY <1>1 DEF Init, WakerMatchesQueue, MidUpdate, TypeOK
<1>6. InOrder
  BY <1>1, PipeEnds DEF Init, InOrder, InHand, Taken, TypeOK
<1> QED
  BY <1>1, <1>2, <1>3, <1>4, <1>5, <1>6 DEF IInv
(***************************************************************************)
(* The messages of a pipe keep their order when its queue and counters are *)
(* left alone and its receiver neither picks up nor puts down a message.   *)
(***************************************************************************)
LEMMA OrderKept ==
  ASSUME InOrder, UNCHANGED <<queue, posted, received>>,
         \A q \in Pipes :
           /\ InHand(q)' <=> InHand(q)
           /\ InHand(q) => msg'[Receiver(q)] = msg[Receiver(q)]
  PROVE  InOrder'
BY DEF InOrder, Taken

\* list_add_tail in postMessage numbers and places the new message last.
LEMMA PostAppendOrder ==
  ASSUME TypeOK, EndInv, InOrder, NEW t \in Threads, PostAppend(t)
  PROVE  InOrder'
<1> DEFINE p == cur[t]
<1>1. /\ pc[t] = "append" /\ pc' = [pc EXCEPT ![t] = "js"]
      /\ queue' = [queue EXCEPT ![p] = Append(@, posted[p] + 1)]
      /\ posted' = [posted EXCEPT ![p] = @ + 1]
      /\ UNCHANGED <<received, cur, msg>>
  BY DEF PostAppend, At, Goto
<1>2. \A q \in Pipes : InHand(q)' <=> InHand(q)
  BY <1>1, PipeEnds DEF TypeOK, InHand
<1>3. \A q \in Pipes : Taken(q)' = Taken(q)
  BY <1>1, <1>2 DEF Taken
<1>4. p \in Pipes
  BY DEF TypeOK
<1>5. ASSUME NEW q \in Pipes
      PROVE  /\ posted'[q] = Taken(q) + Len(queue'[q])
             /\ \A i \in 1..Len(queue'[q]) : queue'[q][i] = Taken(q) + i
  <2>1. CASE q # p
    BY <1>1, <2>1 DEF TypeOK, InOrder
  <2>2. CASE q = p
    <3>1. posted[p] = Taken(p) + Len(queue[p])
      BY <1>4 DEF InOrder
    <3>2. \A i \in 1..Len(queue[p]) : queue[p][i] = Taken(p) + i
      BY <1>4 DEF InOrder
    <3>3. posted'[p] = posted[p] + 1 /\ queue'[p] = Append(queue[p], posted[p] + 1)
      BY <1>1, <1>4 DEF TypeOK
    <3>4. queue[p] \in Seq(Nat) /\ posted[p] \in Nat
      BY <1>4 DEF TypeOK
    <3>5. Taken(p) \in Nat
      BY <1>4 DEF TypeOK, Taken
    <3> HIDE DEF p
    <3>6. /\ Len(queue'[p]) = Len(queue[p]) + 1
          /\ queue'[p][Len(queue[p]) + 1] = posted[p] + 1
          /\ \A i \in 1..Len(queue[p]) : queue'[p][i] = queue[p][i]
      BY <3>3, <3>4
    <3>7. ASSUME NEW i \in 1..(Len(queue[p]) + 1)
          PROVE  queue'[p][i] = Taken(p) + i
      <4>1. CASE i = Len(queue[p]) + 1
        BY <4>1, <3>1, <3>4, <3>5, <3>6
      <4>2. CASE i # Len(queue[p]) + 1
        BY <4>2, <3>2, <3>4, <3>6
      <4> QED
        BY <4>1, <4>2
    <3> QED
      BY <2>2, <3>1, <3>3, <3>4, <3>5, <3>6, <3>7
  <2> QED
    BY <2>1, <2>2
<1> QED
  BY <1>1, <1>2, <1>3, <1>5 DEF InOrder
\* list_del in handle_posted_message moves the oldest message into the hand.
LEMMA RecvPopOrder ==
  ASSUME TypeOK, EndInv, InOrder, NEW t \in Threads, RecvPop(t)
  PROVE  InOrder'
<1>0. PICK p \in Pipes : p = cur[t]
  BY DEF TypeOK
<1>1. /\ pc[t] = "pop" /\ pc' = [pc EXCEPT ![t] = "clear"]
      /\ queue[p] # <<>> /\ queue' = [queue EXCEPT ![p] = Tail(@)]
      /\ msg' = [msg EXCEPT ![t] = Head(queue[p])]
      /\ UNCHANGED <<posted, received, cur>>
  BY <1>0 DEF RecvPop, At, Goto
<1>2. Receiver(p) = t
  BY <1>0, <1>1 DEF TypeOK, EndInv, Taking
<1>3. ASSUME NEW q \in Pipes, q # p
      PROVE  /\ InHand(q)' <=> InHand(q)
             /\ InHand(q) => msg'[Receiver(q)] = msg[Receiver(q)]
             /\ queue'[q] = queue[q]
  BY <1>0, <1>1, <1>3, PipeEnds DEF TypeOK, InHand
<1>4. ~ InHand(p) /\ InHand(p)' /\ msg'[Receiver(p)] = Head(queue[p])
  BY <1>0, <1>1, <1>2 DEF TypeOK, InHand
<1>5. Taken(p) = received[p] /\ Taken(p)' = received[p] + 1
  BY <1>1, <1>2, <1>4 DEF TypeOK, Taken
<1>6. queue'[p] = Tail(queue[p])
  BY <1>1, <1>2 DEF TypeOK
<1>7. /\ posted[p] = received[p] + Len(queue[p])
      /\ \A i \in 1..Len(queue[p]) : queue[p][i] = received[p] + i
  BY <1>2, <1>5 DEF InOrder
<1>8. queue[p] \in Seq(Nat) /\ posted[p] \in Nat /\ received[p] \in Nat
  BY <1>2 DEF TypeOK
<1>9. ASSUME NEW q \in Pipes
      PROVE  /\ posted[q] = Taken(q)' + Len(queue'[q])
             /\ \A i \in 1..Len(queue'[q]) : queue'[q][i] = Taken(q)' + i
             /\ InHand(q)' => msg'[Receiver(q)] = received[q] + 1
  <2>1. CASE q # p
    BY <1>1, <1>3, <2>1 DEF InOrder, Taken
  <2>2. CASE q = p
    <3>1. /\ Len(Tail(queue[p])) = Len(queue[p]) - 1
          /\ \A i \in 1..Len(Tail(queue[p])) : Tail(queue[p])[i] = queue[p][i + 1]
          /\ Head(queue[p]) = queue[p][1] /\ Len(queue[p]) >= 1
      BY <1>1, <1>8
    <3>2. ASSUME NEW i \in 1..(Len(queue[p]) - 1)
          PROVE  queue[p][i + 1] = received[p] + 1 + i
      <4>1. i + 1 \in 1..Len(queue[p])
        BY <1>8
      <4>2. queue[p][i + 1] = received[p] + (i + 1)
        BY <4>1, <1>7
      <4> QED
        BY <4>2, <1>8
    <3>3. queue[p][1] = received[p] + 1
      BY <1>7, <1>8, <3>1
    <3>4. posted[p] = received[p] + 1 + (Len(queue[p]) - 1)
      BY <1>7, <1>8
    <3> QED
      BY <2>2, <1>4, <1>5, <1>6, <3>1, <3>2, <3>3, <3>4
  <2> QED
    BY <2>1, <2>2
<1> QED
  BY <1>1, <1>9 DEF InOrder

\* Freeing the popped message completes it.
LEMMA MessageDoneOrder ==
  ASSUME TypeOK, EndInv, InOrder, NEW t \in Threads, MessageDone(t)
  PROVE  InOrder'
<1>0. PICK p \in Pipes : p = cur[t]
  BY DEF TypeOK
<1>1. /\ pc[t] = "deliver" /\ pc' = [pc EXCEPT ![t] = "js"]
      /\ received' = [received EXCEPT ![p] = @ + 1]
      /\ msg' = [msg EXCEPT ![t] = 0]
      /\ UNCHANGED <<queue, posted, cur>>
  BY <1>0 DEF MessageDone, At, Goto
<1>2. Receiver(p) = t
  BY <1>0, <1>1 DEF TypeOK, EndInv
<1>3. ASSUME NEW q \in Pipes, q # p
      PROVE  /\ InHand(q)' <=> InHand(q)
             /\ InHand(q) => msg'[Receiver(q)] = msg[Receiver(q)]
             /\ received'[q] = received[q]
  BY <1>0, <1>1, <1>3, PipeEnds DEF TypeOK, InHand
<1>4. InHand(p) /\ ~ InHand(p)'
  BY <1>0, <1>1, <1>2 DEF TypeOK, InHand
<1>5. Taken(p)' = Taken(p)
  BY <1>1, <1>2, <1>4 DEF TypeOK, Taken
<1>6. ASSUME NEW q \in Pipes
      PROVE  /\ posted[q] = Taken(q)' + Len(queue[q])
             /\ \A i \in 1..Len(queue[q]) : queue[q][i] = Taken(q)' + i
             /\ InHand(q)' => msg'[Receiver(q)] = received'[q] + 1
  <2>1. CASE q # p
    BY <1>3, <2>1 DEF InOrder, Taken
  <2>2. CASE q = p
    BY <2>2, <1>4, <1>5 DEF InOrder
  <2> QED
    BY <2>1, <2>2
<1> QED
  BY <1>1, <1>6 DEF InOrder

(***************************************************************************)
(* The waker of a pipe under the four steps of the critical sections.  The *)
(* mutex makes the acting thread the only one in mid-update.               *)
(***************************************************************************)
\* Two threads inside the critical section of one pipe are the same thread.
LEMMA OnlyOneCritical ==
  ASSUME TypeOK, LockInv, NEW t \in Threads, pc[t] \in Critical,
         NEW u \in Threads, pc[u] \in Critical, cur[u] = cur[t]
  PROVE  u = t
BY DEF TypeOK, LockInv

\* A step inside a critical section that leaves the right byte count behind.
LEMMA CriticalWaker ==
  ASSUME TypeOK, LockInv, WakerMatchesQueue, NEW t \in Threads, NEW label,
         pc[t] \in Critical, pc' = [pc EXCEPT ![t] = label], cur' = cur,
         \A q \in Pipes \ {cur[t]} : waker'[q] = waker[q] /\ queue'[q] = queue[q],
         waker'[cur[t]] =
           IF queue'[cur[t]] = <<>> /\ label \notin {"append", "clear"} THEN 0 ELSE 1
  PROVE  WakerMatchesQueue'
<1> SUFFICES ASSUME NEW q \in Pipes
             PROVE  waker'[q] = IF queue'[q] = <<>> /\ ~ MidUpdate(q)' THEN 0 ELSE 1
  BY DEF WakerMatchesQueue
<1>1. CASE q # cur[t]
  <2>1. MidUpdate(q)' <=> MidUpdate(q)
    BY <1>1 DEF MidUpdate, TypeOK
  <2> QED
    BY <1>1, <2>1 DEF WakerMatchesQueue
<1>2. CASE q = cur[t]
  <2>1. MidUpdate(q)' <=> label \in {"append", "clear"}
    BY <1>2, OnlyOneCritical DEF MidUpdate, TypeOK, Critical, Sending, Taking
  <2> QED
    BY <1>2, <2>1
<1> QED
  BY <1>1, <1>2

\* In the critical section, the waker is what the queue and the step say.
LEMMA CriticalWakerNow ==
  ASSUME TypeOK, LockInv, WakerMatchesQueue, NEW t \in Threads, pc[t] \in Critical
  PROVE  waker[cur[t]] =
           IF queue[cur[t]] = <<>> /\ pc[t] \notin {"append", "clear"} THEN 0 ELSE 1
<1>1. MidUpdate(cur[t]) <=> pc[t] \in {"append", "clear"}
  BY OnlyOneCritical DEF MidUpdate, TypeOK, Critical, Sending, Taking
<1> QED
  BY <1>1 DEF WakerMatchesQueue, TypeOK
-----------------------------------------------------------------------------
(***************************************************************************)
(* One lemma per action: it preserves the inductive invariant.             *)
(***************************************************************************)
\* js_worker_ctor starts a thread.
LEMMA WorkerCtorIInv ==
  ASSUME IInv, NEW w \in Workers, WorkerCtor(w)
  PROVE  IInv'
<1>a. TypeOK /\ LockInv /\ EndInv /\ WokenInv /\ WakerMatchesQueue /\ InOrder
  BY DEF IInv
<1>b. /\ w \in Threads /\ pc[w] = "unborn" /\ pc' = [pc EXCEPT ![w] = "js"]
      /\ UNCHANGED <<queue, waker, mutex, ports, cur, msg, posted, received, last>>
  BY DEF WorkerCtor, Goto, Threads
<1>1. TypeOK'
  BY <1>a, <1>b DEF TypeOK, PCs
<1>2. LockInv'
  BY <1>a, <1>b, LockKept DEF Critical, Sending, Taking
<1>3. EndInv'
  BY <1>a, <1>b DEF TypeOK, EndInv, Sending, Taking
<1>4. WokenInv'
  BY <1>a, <1>b DEF TypeOK, WokenInv
<1>5. WakerMatchesQueue'
  BY <1>a, <1>b DEF TypeOK, WakerMatchesQueue, MidUpdate
<1>6. InOrder'
  BY <1>a, <1>b, PipeEnds, OrderKept DEF TypeOK, InHand
<1> QED
  BY <1>1, <1>2, <1>3, <1>4, <1>5, <1>6 DEF IInv

\* js_worker_postMessage takes the mutex.
LEMMA PostLockIInv ==
  ASSUME IInv, NEW t \in Threads, NEW p \in Pipes, PostLock(t, p)
  PROVE  IInv'
<1>a. TypeOK /\ LockInv /\ EndInv /\ WokenInv /\ WakerMatchesQueue /\ InOrder
  BY DEF IInv
<1>b. /\ pc[t] = "js" /\ pc' = [pc EXCEPT ![t] = "signal"]
      /\ Sender(p) = t /\ cur' = [cur EXCEPT ![t] = p]
      /\ mutex[p] = NoThread /\ mutex' = [mutex EXCEPT ![p] = t]
      /\ UNCHANGED <<queue, waker, ports, msg, posted, received, last>>
  BY DEF PostLock, At, Goto
<1>1. TypeOK'
  BY <1>a, <1>b DEF TypeOK, PCs, Critical, Sending
<1>2. LockInv'
  BY <1>a, <1>b, LockTaken DEF Critical, Sending, Taking
<1>3. EndInv'
  BY <1>a, <1>b DEF TypeOK, EndInv, Sending, Taking
<1>4. WokenInv'
  BY <1>a, <1>b DEF TypeOK, WokenInv
<1>5. WakerMatchesQueue'
  <2>1. ASSUME NEW q \in Pipes
        PROVE  MidUpdate(q)' <=> MidUpdate(q)
    BY <1>a, <1>b DEF TypeOK, MidUpdate
  <2> QED
    BY <1>a, <1>b, <2>1 DEF WakerMatchesQueue
<1>6. InOrder'
  BY <1>a, <1>b, PipeEnds, OrderKept DEF TypeOK, InHand
<1> QED
  BY <1>1, <1>2, <1>3, <1>4, <1>5, <1>6 DEF IInv

\* js_worker_postMessage signals the waker of an empty queue.
LEMMA PostSignalIInv ==
  ASSUME IInv, NEW t \in Threads, PostSignal(t)
  PROVE  IInv'
<1>a. TypeOK /\ LockInv /\ EndInv /\ WokenInv /\ WakerMatchesQueue /\ InOrder
  BY DEF IInv
<1>b. /\ pc[t] = "signal" /\ pc' = [pc EXCEPT ![t] = "append"]
      /\ waker' = IF queue[cur[t]] = <<>> THEN [waker EXCEPT ![cur[t]] = @ + 1]
                                          ELSE waker
      /\ UNCHANGED <<queue, mutex, ports, cur, msg, posted, received, last>>
  BY DEF PostSignal, WakerSignal, At, Goto
<1>c. pc[t] \in Critical
  BY <1>b DEF Critical, Sending
<1>d. waker[cur[t]] = IF queue[cur[t]] = <<>> THEN 0 ELSE 1
  BY <1>a, <1>b, <1>c, CriticalWakerNow
<1>1. TypeOK'
  BY <1>a, <1>b DEF TypeOK, PCs, Critical, Sending
<1>2. LockInv'
  BY <1>a, <1>b, <1>c, LockKept DEF Critical, Sending
<1>3. EndInv'
  BY <1>a, <1>b DEF TypeOK, EndInv, Sending, Taking
<1>4. WokenInv'
  BY <1>a, <1>b DEF TypeOK, WokenInv
<1>5. WakerMatchesQueue'
  <2>1. \A q \in Pipes \ {cur[t]} : waker'[q] = waker[q] /\ queue'[q] = queue[q]
    BY <1>a, <1>b DEF TypeOK
  <2>2. waker'[cur[t]] = 1
    BY <1>a, <1>b, <1>d DEF TypeOK
  <2> QED
    BY <1>a, <1>b, <1>c, <2>1, <2>2, CriticalWaker
<1>6. InOrder'
  BY <1>a, <1>b, PipeEnds, OrderKept DEF TypeOK, InHand
<1> QED
  BY <1>1, <1>2, <1>3, <1>4, <1>5, <1>6 DEF IInv

\* js_worker_postMessage appends and unlocks.
LEMMA PostAppendIInv ==
  ASSUME IInv, NEW t \in Threads, PostAppend(t)
  PROVE  IInv'
<1>a. TypeOK /\ LockInv /\ EndInv /\ WokenInv /\ WakerMatchesQueue /\ InOrder
  BY DEF IInv
<1>b. /\ pc[t] = "append" /\ pc' = [pc EXCEPT ![t] = "js"]
      /\ queue' = [queue EXCEPT ![cur[t]] = Append(@, posted[cur[t]] + 1)]
      /\ posted' = [posted EXCEPT ![cur[t]] = @ + 1]
      /\ mutex' = [mutex EXCEPT ![cur[t]] = NoThread]
      /\ UNCHANGED <<waker, ports, cur, msg, received, last>>
  BY DEF PostAppend, At, Goto
<1>c. pc[t] \in Critical
  BY <1>b DEF Critical, Sending
<1>d. queue[cur[t]] \in Seq(Nat) /\ cur[t] \in Pipes /\ posted[cur[t]] \in Nat
  BY <1>a DEF TypeOK
<1>e. LET s == Append(queue[cur[t]], posted[cur[t]] + 1)
      IN  queue'[cur[t]] = s /\ s \in Seq(Nat) /\ s # <<>>
  <2>1. \A s \in Seq(Nat), n \in Nat : Append(s, n) \in Seq(Nat) /\ Append(s, n) # <<>>
    BY AppendProperties
  <2> QED
    BY <1>a, <1>b, <1>d, <2>1 DEF TypeOK
<1>1. TypeOK'
  BY <1>a, <1>b, <1>d, <1>e DEF TypeOK, PCs
<1>2. LockInv'
  BY <1>a, <1>b, <1>c, LockReleased DEF Critical, Sending, Taking
<1>3. EndInv'
  BY <1>a, <1>b DEF TypeOK, EndInv, Sending, Taking
<1>4. WokenInv'
  BY <1>a, <1>b DEF TypeOK, WokenInv
<1>5. WakerMatchesQueue'
  <2>1. waker[cur[t]] = 1
    BY <1>a, <1>b, <1>c, CriticalWakerNow
  <2> QED
    BY <1>a, <1>b, <1>c, <1>e, <2>1, CriticalWaker DEF TypeOK
<1>6. InOrder'
  BY <1>a, PostAppendOrder
<1> QED
  BY <1>1, <1>2, <1>3, <1>4, <1>5, <1>6 DEF IInv

\* What a step that only changes the port list of a thread has to show.
LEMMA PortsIInv ==
  ASSUME IInv, NEW t \in Threads, NEW s \in Seq(Pipes),
         \A i \in 1..Len(s) : Receiver(s[i]) = t,
         ports' = [ports EXCEPT ![t] = s],
         UNCHANGED <<queue, waker, mutex, pc, cur, msg, posted, received, last>>
  PROVE  IInv'
<1>a. TypeOK /\ LockInv /\ EndInv /\ WokenInv /\ WakerMatchesQueue /\ InOrder
  BY DEF IInv
<1>1. TypeOK'
  BY <1>a DEF TypeOK
<1>2. LockInv'
  BY <1>a DEF LockInv
<1>3. EndInv'
  BY <1>a DEF TypeOK, EndInv
<1>4. WokenInv'
  BY <1>a DEF WokenInv
<1>5. WakerMatchesQueue'
  BY <1>a DEF WakerMatchesQueue, MidUpdate
<1>6. InOrder'
  BY <1>a, OrderKept DEF InHand
<1> QED
  BY <1>1, <1>2, <1>3, <1>4, <1>5, <1>6 DEF IInv

\* js_worker_set_onmessage links a new port.
LEMMA SetOnMessageIInv ==
  ASSUME IInv, NEW t \in Threads, NEW p \in Pipes, SetOnMessage(t, p)
  PROVE  IInv'
<1>1. ports[t] \in Seq(Pipes) /\ \A i \in 1..Len(ports[t]) : Receiver(ports[t][i]) = t
  BY DEF IInv, TypeOK, EndInv
<1>2. Receiver(p) = t /\ ports' = [ports EXCEPT ![t] = Append(ports[t], p)]
  BY DEF SetOnMessage, IInv, TypeOK
<1>3. Append(ports[t], p) \in Seq(Pipes)
  BY <1>1
<1>4. \A i \in 1..Len(Append(ports[t], p)) : Receiver(Append(ports[t], p)[i]) = t
  <2> HIDE DEF Receiver
  <2> QED
    BY <1>1, <1>2
<1> QED
  BY <1>2, <1>3, <1>4, PortsIInv DEF SetOnMessage

\* js_free_port unlinks a port.
LEMMA ClearOnMessageIInv ==
  ASSUME IInv, NEW t \in Threads, NEW p \in Pipes, ClearOnMessage(t, p)
  PROVE  IInv'
<1>1. ports[t] \in Seq(Pipes) /\ \A i \in 1..Len(ports[t]) : Receiver(ports[t][i]) = t
  BY DEF IInv, TypeOK, EndInv
<1>2. PICK k \in 1..Len(ports[t]) : ports' = [ports EXCEPT ![t] = RemoveAt(ports[t], k)]
  BY DEF ClearOnMessage, IInv, TypeOK
<1> DEFINE a == SubSeq(ports[t], 1, k - 1)
           b == SubSeq(ports[t], k + 1, Len(ports[t]))
<1>3. a \in Seq(Pipes) /\ \A i \in 1..Len(a) : Receiver(a[i]) = t
  <2> HIDE DEF Receiver
  <2> QED
    BY <1>1, <1>2
<1>4. b \in Seq(Pipes) /\ \A i \in 1..Len(b) : Receiver(b[i]) = t
  <2> HIDE DEF Receiver
  <2> QED
    BY <1>1, <1>2
<1>5. a \o b \in Seq(Pipes) /\ \A i \in 1..Len(a \o b) : Receiver((a \o b)[i]) = t
  <2> HIDE DEF Receiver, a, b
  <2> QED
    BY <1>3, <1>4
<1>6. RemoveAt(ports[t], k) = a \o b
  BY DEF RemoveAt
<1> QED
  BY <1>2, <1>5, <1>6, PortsIInv DEF ClearOnMessage

\* js_std_loop calls js_os_poll.
LEMMA PollIInv ==
  ASSUME IInv, NEW t \in Threads, Poll(t)
  PROVE  IInv'
<1>a. TypeOK /\ LockInv /\ EndInv /\ WokenInv /\ WakerMatchesQueue /\ InOrder
  BY DEF IInv
<1>b. PICK label \in {"done", "select"} :
        /\ pc[t] = "js" /\ pc' = [pc EXCEPT ![t] = label]
        /\ UNCHANGED <<queue, waker, mutex, ports, cur, msg, posted, received, last>>
  BY DEF Poll, At, Goto
<1>1. TypeOK'
  BY <1>a, <1>b DEF TypeOK, PCs
<1>2. LockInv'
  BY <1>a, <1>b, LockKept DEF Critical, Sending, Taking
<1>3. EndInv'
  BY <1>a, <1>b DEF TypeOK, EndInv, Sending, Taking
<1>4. WokenInv'
  BY <1>a, <1>b DEF TypeOK, WokenInv
<1>5. WakerMatchesQueue'
  BY <1>a, <1>b DEF TypeOK, WakerMatchesQueue, MidUpdate
<1>6. InOrder'
  BY <1>a, <1>b, PipeEnds, OrderKept DEF TypeOK, InHand
<1> QED
  BY <1>1, <1>2, <1>3, <1>4, <1>5, <1>6 DEF IInv

\* select() returns with a readable port.
LEMMA SelectIInv ==
  ASSUME IInv, NEW t \in Threads, Select(t)
  PROVE  IInv'
<1>a. TypeOK /\ LockInv /\ EndInv /\ WokenInv /\ WakerMatchesQueue /\ InOrder
  BY DEF IInv
<1>b. PICK i \in 1..Len(ports[t]) :
        waker[ports[t][i]] > 0 /\ cur' = [cur EXCEPT ![t] = ports[t][i]]
  BY DEF Select
<1>c. PICK p \in Pipes : p = ports[t][i] /\ Receiver(p) = t
  <2>1. ports[t] \in Seq(Pipes) /\ Receiver(ports[t][i]) = t
    BY <1>a, <1>b DEF TypeOK, EndInv
  <2>2. ports[t][i] \in Pipes
    BY <2>1
  <2> QED
    BY <2>1, <2>2
<1>d. /\ pc[t] = "select" /\ pc' = [pc EXCEPT ![t] = "lock"]
      /\ cur' = [cur EXCEPT ![t] = p] /\ waker[p] > 0
      /\ UNCHANGED <<queue, waker, mutex, ports, msg, posted, received, last>>
  BY <1>b, <1>c DEF Select, At, Goto
<1>1. TypeOK'
  BY <1>a, <1>d DEF TypeOK, PCs
<1>2. LockInv'
  <2>1. \A u \in Threads \ {t} : cur'[u] = cur[u]
    BY <1>a, <1>d DEF TypeOK
  <2> QED
    BY <1>a, <1>d, <2>1, LockKept DEF Critical, Sending, Taking
<1>3. EndInv'
  BY <1>a, <1>c, <1>d DEF TypeOK, EndInv, Sending, Taking
<1>4. WokenInv'
  BY <1>a, <1>d DEF TypeOK, WokenInv
<1>5. WakerMatchesQueue'
  BY <1>a, <1>d DEF TypeOK, WakerMatchesQueue, MidUpdate
<1>6. InOrder'
  BY <1>a, <1>d, PipeEnds, OrderKept DEF TypeOK, InHand
<1> QED
  BY <1>1, <1>2, <1>3, <1>4, <1>5, <1>6 DEF IInv

\* handle_posted_message takes the mutex.
LEMMA RecvLockIInv ==
  ASSUME IInv, NEW t \in Threads, RecvLock(t)
  PROVE  IInv'
<1>a. TypeOK /\ LockInv /\ EndInv /\ WokenInv /\ WakerMatchesQueue /\ InOrder
  BY DEF IInv
<1>b. /\ pc[t] = "lock" /\ pc' = [pc EXCEPT ![t] = "pop"]
      /\ mutex[cur[t]] = NoThread /\ mutex' = [mutex EXCEPT ![cur[t]] = t]
      /\ UNCHANGED <<queue, waker, ports, cur, msg, posted, received, last>>
  BY DEF RecvLock, At, Goto
<1>1. TypeOK'
  BY <1>a, <1>b DEF TypeOK, PCs, Critical, Taking
<1>2. LockInv'
  <2>1. cur' = [cur EXCEPT ![t] = cur[t]] /\ cur[t] \in Pipes
    BY <1>a, <1>b DEF TypeOK
  <2> QED
    BY <1>a, <1>b, <2>1, LockTaken DEF Critical, Sending, Taking
<1>3. EndInv'
  BY <1>a, <1>b DEF TypeOK, EndInv, Sending, Taking
<1>4. WokenInv'
  BY <1>a, <1>b DEF TypeOK, WokenInv
<1>5. WakerMatchesQueue'
  BY <1>a, <1>b DEF TypeOK, WakerMatchesQueue, MidUpdate
<1>6. InOrder'
  BY <1>a, <1>b, PipeEnds, OrderKept DEF TypeOK, InHand
<1> QED
  BY <1>1, <1>2, <1>3, <1>4, <1>5, <1>6 DEF IInv

\* handle_posted_message removes the head of the queue.
LEMMA RecvPopIInv ==
  ASSUME IInv, NEW t \in Threads, RecvPop(t)
  PROVE  IInv'
<1>a. TypeOK /\ LockInv /\ EndInv /\ WokenInv /\ WakerMatchesQueue /\ InOrder
  BY DEF IInv
<1>b. /\ pc[t] = "pop" /\ pc' = [pc EXCEPT ![t] = "clear"]
      /\ queue[cur[t]] # <<>> /\ queue' = [queue EXCEPT ![cur[t]] = Tail(@)]
      /\ msg' = [msg EXCEPT ![t] = Head(queue[cur[t]])]
      /\ UNCHANGED <<waker, mutex, ports, cur, posted, received, last>>
  BY DEF RecvPop, At, Goto
<1>c. pc[t] \in Critical
  BY <1>b DEF Critical, Taking
<1>d. queue[cur[t]] \in Seq(Nat) /\ cur[t] \in Pipes
  BY <1>a DEF TypeOK
<1>e. Tail(queue[cur[t]]) \in Seq(Nat) /\ Head(queue[cur[t]]) \in Nat
  BY <1>b, <1>d
<1>1. TypeOK'
  BY <1>a, <1>b, <1>e DEF TypeOK, PCs, Critical, Taking
<1>2. LockInv'
  BY <1>a, <1>b, <1>c, LockKept DEF Critical, Taking
<1>3. EndInv'
  BY <1>a, <1>b DEF TypeOK, EndInv, Sending, Taking
<1>4. WokenInv'
  BY <1>a, <1>b DEF TypeOK, WokenInv
<1>5. WakerMatchesQueue'
  <2>1. waker[cur[t]] = 1
    BY <1>a, <1>b, <1>c, CriticalWakerNow
  <2>2. \A q \in Pipes \ {cur[t]} : waker'[q] = waker[q] /\ queue'[q] = queue[q]
    BY <1>a, <1>b DEF TypeOK
  <2> QED
    BY <1>a, <1>b, <1>c, <2>1, <2>2, CriticalWaker
<1>6. InOrder'
  BY <1>a, RecvPopOrder
<1> QED
  BY <1>1, <1>2, <1>3, <1>4, <1>5, <1>6 DEF IInv

\* handle_posted_message clears the waker of an emptied queue and unlocks.
LEMMA RecvClearIInv ==
  ASSUME IInv, NEW t \in Threads, RecvClear(t)
  PROVE  IInv'
<1>a. TypeOK /\ LockInv /\ EndInv /\ WokenInv /\ WakerMatchesQueue /\ InOrder
  BY DEF IInv
<1>b. /\ pc[t] = "clear" /\ pc' = [pc EXCEPT ![t] = "deliver"]
      /\ waker' = IF queue[cur[t]] = <<>> THEN WakerClear(cur[t]) ELSE waker
      /\ mutex' = [mutex EXCEPT ![cur[t]] = NoThread]
      /\ UNCHANGED <<queue, ports, cur, msg, posted, received, last>>
  BY DEF RecvClear, At, Goto
<1>c. pc[t] \in Critical /\ cur[t] \in Pipes
  BY <1>a, <1>b DEF TypeOK, Critical, Taking
<1>d. waker[cur[t]] = 1
  BY <1>a, <1>b, <1>c, CriticalWakerNow
<1>e. waker' = IF queue[cur[t]] = <<>> THEN [waker EXCEPT ![cur[t]] = 0] ELSE waker
  BY <1>a, <1>b, <1>c, <1>d DEF TypeOK, WakerClear
<1>f. Receiver(cur[t]) = t
  BY <1>a, <1>b DEF EndInv, Taking
<1>1. TypeOK'
  <2>1. waker' \in [Pipes -> Nat]
    BY <1>a, <1>c, <1>e DEF TypeOK
  <2> QED
    BY <1>a, <1>b, <2>1 DEF TypeOK, PCs
<1>2. LockInv'
  BY <1>a, <1>b, <1>c, LockReleased DEF Critical, Sending, Taking
<1>3. EndInv'
  BY <1>a, <1>b DEF TypeOK, EndInv, Sending, Taking
<1>4. WokenInv'
  <2> SUFFICES ASSUME NEW u \in Threads, pc'[u] \in {"lock", "pop"}
               PROVE  waker'[cur[u]] > 0
    BY <1>b DEF WokenInv
  <2>1. u # t /\ pc[u] \in {"lock", "pop"}
    BY <1>a, <1>b DEF TypeOK
  <2>2. Receiver(cur[u]) = u
    BY <1>a, <2>1 DEF EndInv, Taking
  <2>3. cur[u] # cur[t]
    BY <1>f, <2>1, <2>2
  <2> QED
    BY <1>a, <1>e, <2>1, <2>3 DEF WokenInv, TypeOK
<1>5. WakerMatchesQueue'
  <2>1. \A q \in Pipes \ {cur[t]} : waker'[q] = waker[q] /\ queue'[q] = queue[q]
    BY <1>a, <1>b, <1>e DEF TypeOK
  <2>2. waker'[cur[t]] = IF queue'[cur[t]] = <<>> THEN 0 ELSE 1
    BY <1>a, <1>b, <1>c, <1>d, <1>e DEF TypeOK
  <2> QED
    BY <1>a, <1>b, <1>c, <2>1, <2>2, CriticalWaker
<1>6. InOrder'
  BY <1>a, <1>b, PipeEnds, OrderKept DEF TypeOK, InHand
<1> QED
  BY <1>1, <1>2, <1>3, <1>4, <1>5, <1>6 DEF IInv

\* handle_posted_message frees the message and returns.
LEMMA MessageDoneIInv ==
  ASSUME IInv, NEW t \in Threads, MessageDone(t), last' \in [Pipes -> Nat]
  PROVE  IInv'
<1>a. TypeOK /\ LockInv /\ EndInv /\ WokenInv /\ WakerMatchesQueue /\ InOrder
  BY DEF IInv
<1>b. /\ pc[t] = "deliver" /\ pc' = [pc EXCEPT ![t] = "js"]
      /\ received' = [received EXCEPT ![cur[t]] = @ + 1]
      /\ msg' = [msg EXCEPT ![t] = 0]
      /\ UNCHANGED <<queue, waker, mutex, ports, cur, posted>>
  BY DEF MessageDone, At, Goto
<1>1. TypeOK'
  BY <1>a, <1>b DEF TypeOK, PCs
<1>2. LockInv'
  BY <1>a, <1>b, LockKept DEF Critical, Sending, Taking
<1>3. EndInv'
  BY <1>a, <1>b DEF TypeOK, EndInv, Sending, Taking
<1>4. WokenInv'
  BY <1>a, <1>b DEF TypeOK, WokenInv
<1>5. WakerMatchesQueue'
  BY <1>a, <1>b DEF TypeOK, WakerMatchesQueue, MidUpdate
<1>6. InOrder'
  BY <1>a, MessageDoneOrder
<1> QED
  BY <1>1, <1>2, <1>3, <1>4, <1>5, <1>6 DEF IInv

\* A step that changes nothing.
LEMMA StutterIInv ==
  ASSUME IInv, UNCHANGED vars
  PROVE  IInv'
BY DEF IInv, vars, TypeOK, LockInv, EndInv, WokenInv, WakerMatchesQueue, MidUpdate,
       InOrder, InHand, Taken

\* Every step of every thread.
LEMMA NextIInv ==
  ASSUME IInv, [Next]_vars
  PROVE  IInv'
<1>1. CASE UNCHANGED vars
  BY <1>1, StutterIInv
<1>2. ASSUME NEW t \in Threads, JsStep(t)
      PROVE  IInv'
  BY <1>2, PostLockIInv, SetOnMessageIInv, ClearOnMessageIInv, WorkerCtorIInv DEF JsStep
<1>3. ASSUME NEW t \in Threads, Deliver(t) \/ Unreadable(t)
      PROVE  IInv'
  <2>1. last' \in [Pipes -> Nat]
    BY <1>3 DEF Deliver, Unreadable, IInv, TypeOK
  <2> QED
    BY <1>3, <2>1, MessageDoneIInv DEF Deliver, Unreadable
<1>4. ASSUME NEW t \in Threads, ThreadStep(t)
      PROVE  IInv'
  BY <1>4, <1>3, PostSignalIInv, PostAppendIInv, PollIInv, SelectIInv, RecvLockIInv,
     RecvPopIInv, RecvClearIInv DEF ThreadStep
<1> QED
  BY <1>1, <1>2, <1>4 DEF Next
-----------------------------------------------------------------------------
\* The inductive invariant holds in every reachable state.
THEOREM Inductive == Spec => []IInv
BY InitIInv, NextIInv, PTL DEF Spec

\* Type correctness, for any number of workers and messages.
THEOREM TypeCorrect == Spec => []TypeOK
<1>1. IInv => TypeOK
  BY DEF IInv
<1> QED
  BY <1>1, Inductive, PTL

\* js_waker_signal and js_waker_clear keep the waker at one unread byte while
\* the queue has a message and at none otherwise: no lost and no stale wakeup.
THEOREM WakerCorrect == Spec => []WakerMatchesQueue
<1>1. IInv => WakerMatchesQueue
  BY DEF IInv
<1> QED
  BY <1>1, Inductive, PTL

\* handle_posted_message always finds a message when js_os_poll calls it.
THEOREM NoEmptyWakeup == Spec => []ServesAMessage
<1>1. IInv => ServesAMessage
  <2> SUFFICES ASSUME IInv, NEW t \in Threads, pc[t] = "pop"
               PROVE  queue[cur[t]] # <<>>
    BY DEF ServesAMessage
  <2>1. pc[t] \in Critical
    BY DEF Critical, Taking
  <2>2. waker[cur[t]] > 0
    BY DEF IInv, WokenInv
  <2> QED
    BY <2>1, <2>2, CriticalWakerNow DEF IInv
<1> QED
  BY <1>1, Inductive, PTL

\* No message is lost, duplicated or reordered inside the pipe.
THEOREM OrderCorrect == Spec => []InOrder
<1>1. IInv => InOrder
  BY DEF IInv
<1> QED
  BY <1>1, Inductive, PTL

(***************************************************************************)
(* Every step of the two threads is a step of the FIFO channels, or none.  *)
(***************************************************************************)
\* Finishing a message is a receive (or a reported loss) of the oldest one.
LEMMA DeliverRefines ==
  ASSUME IInv, NEW t \in Threads, MessageDone(t)
  PROVE  /\ Channels!Take(cur[t])
         /\ Deliver(t) => Channels!Receive(cur[t])
         /\ Unreadable(t) => Channels!Lose(cur[t])
<1>1. cur[t] \in Pipes /\ Receiver(cur[t]) = t /\ InHand(cur[t])
  BY DEF IInv, TypeOK, EndInv, MessageDone, At, InHand
<1>2. posted[cur[t]] = received[cur[t]] + 1 + Len(queue[cur[t]])
  BY <1>1 DEF IInv, InOrder, Taken
<1>3. /\ posted[cur[t]] \in Nat /\ received[cur[t]] \in Nat
      /\ Len(queue[cur[t]]) \in Nat
  BY <1>1 DEF IInv, TypeOK
<1>4. msg[t] = received[cur[t]] + 1
  BY <1>1 DEF IInv, InOrder
<1>5. Channels!Take(cur[t])
  BY <1>2, <1>3 DEF MessageDone, Channels!Take
<1> QED
  BY <1>4, <1>5 DEF Deliver, Unreadable, Channels!Receive, Channels!Lose

\* Every other step is a send or invisible.
LEMMA NextRefines ==
  ASSUME IInv, [Next]_vars
  PROVE  [Channels!ChanNext]_Channels!chanVars
<1> USE DEF Channels!chanVars
<1>1. CASE UNCHANGED vars
  BY <1>1 DEF vars
<1>2. ASSUME NEW t \in Threads, JsStep(t)
      PROVE  UNCHANGED <<posted, received, last>>
  BY <1>2 DEF JsStep, PostLock, SetOnMessage, ClearOnMessage, WorkerCtor
<1>3. ASSUME NEW t \in Threads, ThreadStep(t)
      PROVE  Channels!ChanNext \/ UNCHANGED <<posted, received, last>>
  <2>0. cur[t] \in Pipes
    BY DEF IInv, TypeOK
  <2>1. CASE PostAppend(t)
    BY <2>0, <2>1 DEF PostAppend, Channels!ChanNext, Channels!Send
  <2>2. CASE Deliver(t) \/ Unreadable(t)
    BY <2>0, <2>2, DeliverRefines DEF Deliver, Unreadable, Channels!ChanNext
  <2>3. CASE PostSignal(t) \/ Poll(t) \/ Select(t) \/ RecvLock(t) \/ RecvPop(t)
               \/ RecvClear(t)
    BY <2>3 DEF PostSignal, Poll, Select, RecvLock, RecvPop, RecvClear
  <2> QED
    BY <1>3, <2>1, <2>2, <2>3 DEF ThreadStep
<1> QED
  BY <1>1, <1>2, <1>3 DEF Next

\* The pipes implement the FIFO channels: what JavaScript sees is in order and
\* at most once, and a message is skipped only when it cannot be rebuilt.
THEOREM PipesAreFifo == Spec => ChannelSpec
<1>1. Init => Channels!ChanInit
  BY DEF Init, Channels!ChanInit
<1>2. IInv /\ [Next]_vars => [Channels!ChanNext]_Channels!chanVars
  BY NextRefines
<1> QED
  BY <1>1, <1>2, Inductive, PTL DEF Spec, ChannelSpec, Channels!Spec
=============================================================================
