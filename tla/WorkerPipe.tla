----------------------------- MODULE WorkerPipe -----------------------------
(***************************************************************************)
(* Worker threads and the message pipes between them (the os.Worker class  *)
(* of quickjs-libc.c).  The main thread owns one Worker object per worker  *)
(* thread; each pair is joined by two JSWorkerMessagePipes, one in each    *)
(* direction.  A pipe is a queue under a mutex plus a waker, an OS object  *)
(* (a pipe on Unix, an event on Windows) that select() looks at WITHOUT    *)
(* the mutex.  Every thread alternates between running JavaScript and      *)
(* js_os_poll(), which waits for a waker and hands at most one message to  *)
(* an onmessage handler.                                                   *)
(*                                                                         *)
(* A message is the number of its postMessage() call on that pipe.         *)
(***************************************************************************)
EXTENDS Integers, Sequences, SequencesExt, FiniteSets

CONSTANTS
  Main,       \* the main thread
  Workers,    \* the worker threads
  NoThread,   \* what holds a mutex that is free
  MaxPosts    \* bound: messages posted to one pipe

ASSUME WorkerPipeAssumption ==
  /\ Main \notin Workers
  /\ NoThread \notin Workers \cup {Main}
  /\ Workers # {}
  /\ MaxPosts \in Nat

Threads == {Main} \cup Workers

\* A pipe is named by the thread that sends on it and the one that receives.
Pipes == ({Main} \X Workers) \cup (Workers \X {Main})
Sender(p) == p[1]
Receiver(p) == p[2]

VARIABLES
  queue,      \* queue[p]:  ps->msg_queue
  waker,      \* waker[p]:  unread bytes in the waker
  mutex,      \* mutex[p]:  the thread holding ps->mutex
  ports,      \* ports[t]:  ts->port_list, as a sequence of pipes
  pc,         \* pc[t]:     where thread t is
  cur,        \* cur[t]:    the pipe t is working on, when pc[t] says so
  msg,        \* msg[t]:    the message t took out of a queue (0 for none)
  posted,     \* posted[p]: number of messages appended to p
  received,   \* received[p]: number of messages that t is done with
  last        \* last[p]:   the last message given to an onmessage handler

vars == <<queue, waker, mutex, ports, pc, cur, msg, posted, received, last>>

\* The thread is inside the critical section of postMessage() ...
Sending == {"signal", "append"}
\* ... or of handle_posted_message().
Taking == {"pop", "clear"}
Critical == Sending \cup Taking

PCs == {"unborn", "js", "select", "lock", "deliver", "done"} \cup Critical

Init ==
  /\ queue = [p \in Pipes |-> <<>>]
  /\ waker = [p \in Pipes |-> 0]
  /\ mutex = [p \in Pipes |-> NoThread]
  /\ ports = [t \in Threads |-> <<>>]
  /\ pc = [t \in Threads |-> IF t = Main THEN "js" ELSE "unborn"]
  /\ cur = [t \in Threads |-> CHOOSE p \in Pipes : TRUE]
  /\ msg = [t \in Threads |-> 0]
  /\ posted = [p \in Pipes |-> 0]
  /\ received = [p \in Pipes |-> 0]
  /\ last = [p \in Pipes |-> 0]
-----------------------------------------------------------------------------
(***************************************************************************)
(* When the main thread leaves its loop the process exits, whatever the    *)
(* (detached) worker threads are doing.                                    *)
(***************************************************************************)
Alive == pc[Main] # "done"

At(t, label) == Alive /\ pc[t] = label

Goto(t, label) == pc' = [pc EXCEPT ![t] = label]

\* js_waker_signal: one byte is written, on top of what is unread.
WakerSignal(p) == [waker EXCEPT ![p] = @ + 1]

\* js_waker_clear: one read() of at most 16 bytes.
WakerClear(p) == [waker EXCEPT ![p] = IF @ > 16 THEN @ - 16 ELSE 0]

\* js_worker_ctor: both pipes exist and are empty when the thread starts.
WorkerCtor(w) ==
  /\ At(Main, "js")
  /\ pc[w] = "unborn"
  /\ Goto(w, "js")
  /\ UNCHANGED <<queue, waker, mutex, ports, cur, msg, posted, received, last>>

\* The other end of a pipe exists: a thread has a Worker object for it.
HasObject(t, p) == pc[Sender(p)] # "unborn" /\ pc[Receiver(p)] # "unborn"

\* js_worker_postMessage: the message is serialised, then the mutex is taken.
PostLock(t, p) ==
  /\ At(t, "js")
  /\ HasObject(t, p) /\ Sender(p) = t
  /\ posted[p] < MaxPosts
  /\ mutex[p] = NoThread
  /\ mutex' = [mutex EXCEPT ![p] = t]
  /\ cur' = [cur EXCEPT ![t] = p]
  /\ Goto(t, "signal")
  /\ UNCHANGED <<queue, waker, ports, msg, posted, received, last>>

\* (faulty variant: signals without looking at the queue)
PostSignal_Always(t) ==
  /\ At(t, "signal")
  /\ waker' = WakerSignal(cur[t])
  /\ Goto(t, "append")
  /\ UNCHANGED <<queue, mutex, ports, cur, msg, posted, received, last>>

\* if (list_empty(&ps->msg_queue)) js_waker_signal(&ps->waker)
PostSignal(t) ==
  /\ At(t, "signal")
  /\ waker' = IF queue[cur[t]] = <<>> THEN WakerSignal(cur[t]) ELSE waker
  /\ Goto(t, "append")
  /\ UNCHANGED <<queue, mutex, ports, cur, msg, posted, received, last>>

\* list_add_tail, pthread_mutex_unlock
PostAppend(t) ==
  LET p == cur[t] IN
  /\ At(t, "append")
  /\ queue' = [queue EXCEPT ![p] = Append(@, posted[p] + 1)]
  /\ posted' = [posted EXCEPT ![p] = @ + 1]
  /\ mutex' = [mutex EXCEPT ![p] = NoThread]
  /\ Goto(t, "js")
  /\ UNCHANGED <<waker, ports, cur, msg, received, last>>

\* js_worker_set_onmessage with a function: a new port goes to the list's tail,
\* an existing one only gets the new function.
SetOnMessage(t, p) ==
  /\ At(t, "js")
  /\ HasObject(t, p) /\ Receiver(p) = t
  /\ ~ Contains(ports[t], p)
  /\ ports' = [ports EXCEPT ![t] = Append(@, p)]
  /\ UNCHANGED <<queue, waker, mutex, pc, cur, msg, posted, received, last>>

\* js_worker_set_onmessage with null: js_free_port unlinks the port.
ClearOnMessage(t, p) ==
  /\ At(t, "js")
  /\ \E i \in 1..Len(ports[t]) :
       ports[t][i] = p /\ ports' = [ports EXCEPT ![t] = RemoveAt(@, i)]
  /\ UNCHANGED <<queue, waker, mutex, pc, cur, msg, posted, received, last>>

\* js_std_loop ran all jobs and calls js_os_poll.  Without a port (and with no
\* timer or fd handler, which are not part of this module) the thread ends.
Poll(t) ==
  /\ At(t, "js")
  /\ Goto(t, IF ports[t] = <<>> THEN "done" ELSE "select")
  /\ UNCHANGED <<queue, waker, mutex, ports, cur, msg, posted, received, last>>

\* select() / WaitForMultipleObjects(): blocks until some port's waker is
\* readable; the first such port of the list is the one that is served.
Select(t) ==
  /\ At(t, "select")
  /\ \E i \in 1..Len(ports[t]) :
       /\ waker[ports[t][i]] > 0
       /\ \A j \in 1..(i - 1) : waker[ports[t][j]] = 0
       /\ cur' = [cur EXCEPT ![t] = ports[t][i]]
  /\ Goto(t, "lock")
  /\ UNCHANGED <<queue, waker, mutex, ports, msg, posted, received, last>>

\* handle_posted_message: pthread_mutex_lock
RecvLock(t) ==
  /\ At(t, "lock")
  /\ mutex[cur[t]] = NoThread
  /\ mutex' = [mutex EXCEPT ![cur[t]] = t]
  /\ Goto(t, "pop")
  /\ UNCHANGED <<queue, waker, ports, cur, msg, posted, received, last>>

\* Remove the message at the head.  The else branch (empty queue, return 0) is
\* never taken: ServesAMessage below.
RecvPop(t) ==
  LET p == cur[t] IN
  /\ At(t, "pop")
  /\ queue[p] # <<>>
  /\ msg' = [msg EXCEPT ![t] = Head(queue[p])]
  /\ queue' = [queue EXCEPT ![p] = Tail(@)]
  /\ Goto(t, "clear")
  /\ UNCHANGED <<waker, mutex, ports, cur, posted, received, last>>

\* (faulty variants: the waker is never cleared, or cleared with messages left)
RecvClear_Never(t) ==
  /\ At(t, "clear")
  /\ mutex' = [mutex EXCEPT ![cur[t]] = NoThread]
  /\ Goto(t, "deliver")
  /\ UNCHANGED <<queue, waker, ports, cur, msg, posted, received, last>>
RecvClear_Always(t) ==
  /\ At(t, "clear")
  /\ waker' = WakerClear(cur[t])
  /\ mutex' = [mutex EXCEPT ![cur[t]] = NoThread]
  /\ Goto(t, "deliver")
  /\ UNCHANGED <<queue, ports, cur, msg, posted, received, last>>

\* if (list_empty(&ps->msg_queue)) js_waker_clear(&ps->waker); unlock
RecvClear(t) ==
  LET p == cur[t] IN
  /\ At(t, "clear")
  /\ waker' = IF queue[p] = <<>> THEN WakerClear(p) ELSE waker
  /\ mutex' = [mutex EXCEPT ![p] = NoThread]
  /\ Goto(t, "deliver")
  /\ UNCHANGED <<queue, ports, cur, msg, posted, received, last>>

\* The popped message is freed; control is back in js_std_loop.
MessageDone(t) ==
  /\ At(t, "deliver")
  /\ received' = [received EXCEPT ![cur[t]] = @ + 1]
  /\ msg' = [msg EXCEPT ![t] = 0]
  /\ Goto(t, "js")
  /\ UNCHANGED <<queue, waker, mutex, ports, cur, posted>>

\* (faulty variant: the message at the head of the queue is handed over)
Deliver_Next(t) ==
  /\ MessageDone(t)
  /\ last' = [last EXCEPT ![cur[t]] = IF queue[cur[t]] = <<>> THEN msg[t]
                                      ELSE Head(queue[cur[t]])]

\* JS_ReadObject succeeds and the onmessage function is called.
Deliver(t) ==
  /\ MessageDone(t)
  /\ last' = [last EXCEPT ![cur[t]] = msg[t]]

\* JS_ReadObject or JS_NewObject throws: the error is dumped, the message is gone.
Unreadable(t) ==
  /\ MessageDone(t)
  /\ UNCHANGED last

JsStep(t) ==
  \/ \E p \in Pipes : PostLock(t, p) \/ SetOnMessage(t, p) \/ ClearOnMessage(t, p)
  \/ \E w \in Workers : t = Main /\ WorkerCtor(w)

ThreadStep(t) ==
  \/ PostSignal(t) \/ PostAppend(t)
  \/ Poll(t) \/ Select(t)
  \/ RecvLock(t) \/ RecvPop(t) \/ RecvClear(t)
  \/ Deliver(t) \/ Unreadable(t)

Next == \E t \in Threads : JsStep(t) \/ ThreadStep(t)

Spec == Init /\ [][Next]_vars

\* Every thread is scheduled, and user code returns to the event loop.
FairSpec == Spec /\ \A t \in Threads : WF_vars(ThreadStep(t))
-----------------------------------------------------------------------------
TypeOK ==
  /\ queue \in [Pipes -> Seq(Nat)]
  /\ waker \in [Pipes -> Nat]
  /\ mutex \in [Pipes -> Threads \cup {NoThread}]
  /\ ports \in [Threads -> Seq(Pipes)]
  /\ pc \in [Threads -> PCs]
  /\ cur \in [Threads -> Pipes]
  /\ msg \in [Threads -> Nat]
  /\ posted \in [Pipes -> Nat]
  /\ received \in [Pipes -> Nat]
  /\ last \in [Pipes -> Nat]

\* Some thread has signalled and not yet appended, or popped and not cleared.
MidUpdate(p) == \E t \in Threads : cur[t] = p /\ pc[t] \in {"append", "clear"}

\* The waker is readable exactly while the pipe has a message for select() to
\* find: a missing byte would leave a message behind a sleeping thread, extra
\* bytes would wake it for nothing and, piling up, block the sender in write()
\* while it holds the mutex.
WakerMatchesQueue ==
  \A p \in Pipes : waker[p] = IF queue[p] = <<>> /\ ~ MidUpdate(p) THEN 0 ELSE 1

\* A thread that select() woke for a port finds a message in its queue, so the
\* "no message" branch of handle_posted_message is dead and js_os_poll never
\* goes on to a later port.
ServesAMessage ==
  \A t \in Threads : pc[t] = "pop" => queue[cur[t]] # <<>>

\* The first message not yet handled: what the receiver holds, then the queue.
InHand(p) == pc[Receiver(p)] \in {"clear", "deliver"} /\ cur[Receiver(p)] = p
Taken(p) == received[p] + (IF InHand(p) THEN 1 ELSE 0)

\* No message is lost, duplicated or reordered between postMessage() and the
\* onmessage call, whatever the interleaving of the two threads.
InOrder ==
  \A p \in Pipes :
    /\ posted[p] = Taken(p) + Len(queue[p])
    /\ \A i \in 1..Len(queue[p]) : queue[p][i] = Taken(p) + i
    /\ InHand(p) => msg[Receiver(p)] = received[p] + 1

\* The mutex excludes: one holder at a time, inside its critical section.
LockInv ==
  \A p \in Pipes, t \in Threads :
    mutex[p] = t <=> cur[t] = p /\ pc[t] \in Critical

\* A thread works on a pipe from its own end of it.
EndInv ==
  \A t \in Threads :
    /\ pc[t] \in Sending => Sender(cur[t]) = t
    /\ pc[t] \in Taking \cup {"lock", "deliver"} => Receiver(cur[t]) = t
    /\ \A i \in 1..Len(ports[t]) : Receiver(ports[t][i]) = t

\* Nobody takes back the byte that woke a thread before it has the mutex.
WokenInv ==
  \A t \in Threads : pc[t] \in {"lock", "pop"} => waker[cur[t]] > 0

\* The inductive invariant: the safety properties above need each other.
IInv ==
  /\ TypeOK
  /\ LockInv
  /\ EndInv
  /\ WokenInv
  /\ WakerMatchesQueue
  /\ InOrder

\* The pipes, seen from JavaScript, are the abstract FIFO channels: what an
\* onmessage handler is given is always the oldest message not yet taken.
Channels == INSTANCE FifoChannel
              WITH Chans <- Pipes, sent <- posted, received <- received, last <- last
ChannelSpec == Channels!Spec

\* A posted message reaches the receiver unless its handler is (at some point)
\* unset or the main thread ends the process.
Delivery ==
  \A p \in Pipes : \A n \in 1..MaxPosts :
    (posted[p] >= n) ~> ( \/ received[p] >= n
                          \/ ~ Contains(ports[Receiver(p)], p)
                          \/ ~ Alive )
=============================================================================
