--------------------------- MODULE WorkerLifecycle --------------------------
(***************************************************************************)
(* Who owns the memory that the main thread and a worker thread share: the *)
(* two JSWorkerMessagePipes of a worker and a SharedArrayBuffer sent over  *)
(* them.  Both are reference counted with atomic operations; references    *)
(* are held by the arguments of the new thread (later its JSThreadState),  *)
(* by the Worker object of each side, by its port (the onmessage handler), *)
(* and, for the buffer, by JavaScript objects and by messages.             *)
(***************************************************************************)
EXTENDS Integers, Sequences, FiniteSets

CONSTANTS
  MaxMsgs,     \* bound: messages in one queue
  MaxObjs      \* bound: SharedArrayBuffer objects of one thread

ASSUME WorkerLifecycleAssumption == {MaxMsgs, MaxObjs} \subseteq Nat \ {0}

Threads == {"main", "worker"}
Pipes == {"down", "up"}
\* The pipe that a thread sends on and the one it receives from.
SendPipe(t) == IF t = "main" THEN "down" ELSE "up"
RecvPipe(t) == IF t = "main" THEN "up" ELSE "down"

\* Holders of a reference to a pipe: the thread's arguments or state, and the
\* Worker object and the port of either thread.
Object(t) == <<"object", t>>
Port(t) == <<"port", t>>
Args == <<"args", "worker">>
Holders == {Args} \cup {Object(t) : t \in Threads} \cup {Port(t) : t \in Threads}

VARIABLES
  pc,          \* pc[t]: where thread t is
  pipe,        \* pipe[p]: "none", "live" or "freed"
  refs,        \* refs[p]: ps->ref_count
  held,        \* held[p]: holders with a pointer to p
  queue,       \* queue[p]: messages (with a reference to the buffer) in p
  todo,        \* todo[t]: references that t is about to drop, in order
  hand,        \* hand[t]: the message t took out of its queue
  sab,         \* the buffer: "live" or "freed"
  sabRefs,     \* sab->ref_count
  objs         \* objs[t]: SharedArrayBuffer objects of t on the buffer

pipeVars == <<pipe, refs, held, queue>>
sabVars == <<sab, sabRefs, objs>>
vars == <<pc, pipeVars, todo, hand, sabVars>>

Hands == {"none", "popped", "read"}

Init ==
  /\ pc = [t \in Threads |-> IF t = "main" THEN "newRecvPipe" ELSE "unborn"]
  /\ pipe = [p \in Pipes |-> "none"]
  /\ refs = [p \in Pipes |-> 0]
  /\ held = [p \in Pipes |-> {}]
  /\ queue = [p \in Pipes |-> 0]
  /\ todo = [t \in Threads |-> <<>>]
  /\ hand = [t \in Threads |-> "none"]
  /\ sab = "live" /\ sabRefs = 1
  /\ objs = [t \in Threads |-> IF t = "main" THEN 1 ELSE 0]
-----------------------------------------------------------------------------
\* When the main thread has ended, so has the process.
Alive == pc["main"] # "exited"

At(t, label) == Alive /\ pc[t] = label /\ todo[t] = <<>>

Goto(t, label) == pc' = [pc EXCEPT ![t] = label]

\* js_new_message_pipe: one reference, for the arguments of the thread
NewPipe(p, label, next) ==
  /\ At("main", label)
  /\ pipe' = [pipe EXCEPT ![p] = "live"]
  /\ refs' = [refs EXCEPT ![p] = 1]
  /\ held' = [held EXCEPT ![p] = {Args}]
  /\ Goto("main", next)
  /\ UNCHANGED <<queue, todo, hand, sabVars>>

\* js_dup_message_pipe
Dup(h, ps) ==
  /\ refs' = [p \in Pipes |-> IF p \in ps THEN refs[p] + 1 ELSE refs[p]]
  /\ held' = [p \in Pipes |-> IF p \in ps THEN held[p] \cup {h} ELSE held[p]]

\* The two references of a Worker object, then that of its port, in the order in
\* which js_worker_finalizer drops them
ObjectRefs(t) == << <<Object(t), RecvPipe(t)>>, <<Object(t), SendPipe(t)>>,
                    <<Port(t), RecvPipe(t)>> >>
ArgsRefs == << <<Args, "down">>, <<Args, "up">> >>

\* js_worker_ctor_internal
NewObject(t, label, next) ==
  /\ At(t, label)
  /\ Dup(Object(t), Pipes)
  /\ Goto(t, next)
  /\ UNCHANGED <<pipe, queue, todo, hand, sabVars>>

\* js_worker_ctor: an allocation or pthread_create fails
CtorFails ==
  /\ \E label \in {"newRecvPipe", "newSendPipe", "newObject", "newThread"} :
       At("main", label)
  /\ todo' = [todo EXCEPT !["main"] = ArgsRefs \o ObjectRefs("main")]
  /\ Goto("main", "noWorker")
  /\ UNCHANGED <<pipeVars, hand, sabVars>>

\* ... or pthread_create succeeds: the references of args are now the thread's
NewThread ==
  /\ At("main", "newThread")
  /\ pc' = [pc EXCEPT !["main"] = "js", !["worker"] = "osInit"]
  /\ UNCHANGED <<pipeVars, todo, hand, sabVars>>

\* A worker that does not import the os module has no Worker.parent.
NoParentObject ==
  /\ At("worker", "osInit")
  /\ Goto("worker", "js")
  /\ UNCHANGED <<pipeVars, todo, hand, sabVars>>

\* (faulty variant: the pipe is freed by the last but one reference)
Freed_Early(p) == refs[p] - 1 <= 1

\* js_free_message_pipe: the last reference frees the pipe
Freed(p) == refs[p] - 1 = 0

\* ... and the messages in its queue
MessagesFreed(p) == IF Freed(p) THEN queue[p] ELSE 0

\* js_free_message_pipe of the next reference to drop
DropRef(t) ==
  LET h == Head(todo[t])[1]
      p == Head(todo[t])[2]
  IN
  /\ Alive /\ todo[t] # <<>>
  /\ h \in held[p]
  /\ refs' = [refs EXCEPT ![p] = @ - 1]
  /\ held' = [held EXCEPT ![p] = @ \ {h}]
  /\ pipe' = [pipe EXCEPT ![p] = IF Freed(p) THEN "freed" ELSE @]
  /\ queue' = [queue EXCEPT ![p] = IF Freed(p) THEN 0 ELSE @]
  /\ sabRefs' = sabRefs - MessagesFreed(p)
  /\ sab' = IF sabRefs' = 0 THEN "freed" ELSE sab
  /\ todo' = [todo EXCEPT ![t] = Tail(@)]
  /\ UNCHANGED <<pc, hand, objs>>

\* The pointer is NULL: nothing to do
DropNull(t) ==
  /\ Alive /\ todo[t] # <<>>
  /\ Head(todo[t])[1] \notin held[Head(todo[t])[2]]
  /\ todo' = [todo EXCEPT ![t] = Tail(@)]
  /\ UNCHANGED <<pc, pipeVars, hand, sabVars>>

\* JavaScript runs: t is not inside handle_posted_message.
InJs(t) == At(t, "js") /\ hand[t] = "none"

\* js_worker_finalizer: the program has dropped its last reference to the Worker.
\* The garbage collector may find out at any allocation, JS_ReadObject's included.
Finalize ==
  /\ At("main", "js")
  /\ todo' = [todo EXCEPT !["main"] = ObjectRefs("main")]
  /\ UNCHANGED <<pc, pipeVars, hand, sabVars>>

HasObject(t) == Object(t) \in held[SendPipe(t)]
HasPort(t) == Port(t) \in held[RecvPipe(t)]

\* (faulty variant: the port shares the reference of the object)
SetOnMessage_NoDup(t) ==
  /\ InJs(t)
  /\ HasObject(t) /\ ~ HasPort(t)
  /\ held' = [held EXCEPT ![RecvPipe(t)] = @ \cup {Port(t)}]
  /\ UNCHANGED <<pc, pipe, refs, queue, todo, hand, sabVars>>

\* js_worker_set_onmessage, with a function and with null
SetOnMessage(t) ==
  /\ InJs(t)
  /\ HasObject(t) /\ ~ HasPort(t)
  /\ Dup(Port(t), {RecvPipe(t)})
  /\ UNCHANGED <<pc, pipe, queue, todo, hand, sabVars>>
ClearOnMessage(t) ==
  /\ InJs(t)
  /\ HasObject(t) /\ HasPort(t)
  /\ todo' = [todo EXCEPT ![t] = << <<Port(t), RecvPipe(t)>> >>]
  /\ UNCHANGED <<pc, pipeVars, hand, sabVars>>

\* js_worker_postMessage of a message with the buffer: js_sab_dup, then enqueue
PostMessage(t) ==
  LET p == SendPipe(t) IN
  /\ InJs(t)
  /\ HasObject(t)
  /\ objs[t] > 0
  /\ queue[p] < MaxMsgs
  /\ queue' = [queue EXCEPT ![p] = @ + 1]
  /\ sabRefs' = sabRefs + 1
  /\ UNCHANGED <<pc, pipe, refs, held, todo, hand, sab, objs>>

\* handle_posted_message: the message is taken out of the queue,
PopMessage(t) ==
  LET p == RecvPipe(t) IN
  /\ InJs(t)
  /\ HasPort(t)
  /\ queue[p] > 0 /\ objs[t] < MaxObjs
  /\ queue' = [queue EXCEPT ![p] = @ - 1]
  /\ hand' = [hand EXCEPT ![t] = "popped"]
  /\ UNCHANGED <<pc, pipe, refs, held, todo, sabVars>>

\* ... JS_ReadObject makes an object on the same buffer (js_sab_dup),
ReadObject(t) ==
  /\ At(t, "js")
  /\ hand[t] = "popped"
  /\ objs' = [objs EXCEPT ![t] = @ + 1]
  /\ sabRefs' = sabRefs + 1
  /\ hand' = [hand EXCEPT ![t] = "read"]
  /\ UNCHANGED <<pc, pipeVars, todo, sab>>

\* ... or throws,
ReadFails(t) ==
  /\ At(t, "js")
  /\ hand[t] = "popped"
  /\ hand' = [hand EXCEPT ![t] = "read"]
  /\ UNCHANGED <<pc, pipeVars, todo, sabVars>>

\* js_sab_free: the last reference frees the buffer
DropSab ==
  /\ sabRefs' = sabRefs - 1
  /\ sab' = IF sabRefs - 1 = 0 THEN "freed" ELSE sab

\* js_free_message
FreeMessage(t) ==
  /\ At(t, "js")
  /\ hand[t] = "read"
  /\ DropSab
  /\ hand' = [hand EXCEPT ![t] = "none"]
  /\ UNCHANGED <<pc, pipeVars, todo, objs>>

\* A SharedArrayBuffer object of t is garbage.
FreeObject(t) ==
  /\ Alive
  /\ objs[t] > 0
  /\ DropSab
  /\ objs' = [objs EXCEPT ![t] = @ - 1]
  /\ UNCHANGED <<pc, pipeVars, todo, hand>>

\* worker_func: js_std_loop has returned.  Worker.parent goes with the context,
\* or with the runtime, after js_std_free_handlers.
WorkerEnds ==
  /\ InJs("worker")
  /\ \E order \in {ObjectRefs("worker") \o ArgsRefs, ArgsRefs \o ObjectRefs("worker")} :
       todo' = [todo EXCEPT !["worker"] = order]
  /\ Goto("worker", "ended")
  /\ UNCHANGED <<pipeVars, hand, sabVars>>

\* main: js_std_loop has returned, the context and the runtime are freed
MainEnds ==
  /\ InJs("main")
  /\ todo' = [todo EXCEPT !["main"] = ObjectRefs("main")]
  /\ Goto("main", "ending")
  /\ UNCHANGED <<pipeVars, hand, sabVars>>
MainExits ==
  /\ At("main", "ending")
  /\ Goto("main", "exited")
  /\ UNCHANGED <<pipeVars, todo, hand, sabVars>>

Ctor ==
  \/ NewPipe("down", "newRecvPipe", "newSendPipe")
  \/ NewPipe("up", "newSendPipe", "newObject")
  \/ NewObject("main", "newObject", "newThread")
  \/ NewThread \/ CtorFails

Next ==
  \/ Ctor
  \/ NewObject("worker", "osInit", "js") \/ NoParentObject
  \/ Finalize \/ WorkerEnds \/ MainEnds \/ MainExits
  \/ \E t \in Threads :
       \/ DropRef(t) \/ DropNull(t)
       \/ SetOnMessage(t) \/ ClearOnMessage(t) \/ PostMessage(t)
       \/ PopMessage(t) \/ ReadObject(t) \/ ReadFails(t) \/ FreeMessage(t)
       \/ FreeObject(t)

Spec == Init /\ [][Next]_vars
-----------------------------------------------------------------------------
TypeOK ==
  /\ pc \in [Threads -> {"newRecvPipe", "newSendPipe", "newObject", "newThread",
                         "noWorker", "unborn", "osInit", "js", "ended", "ending",
                         "exited"}]
  /\ pipe \in [Pipes -> {"none", "live", "freed"}]
  /\ refs \in [Pipes -> Nat]
  /\ held \in [Pipes -> SUBSET Holders]
  /\ queue \in [Pipes -> Nat]
  /\ todo \in [Threads -> Seq(Holders \X Pipes)]
  /\ hand \in [Threads -> Hands]
  /\ sab \in {"live", "freed"}
  /\ sabRefs \in Nat
  /\ objs \in [Threads -> Nat]

\* References to the shared buffer: objects, and messages on their way.
InHand(t) == IF hand[t] = "none" THEN 0 ELSE 1
Messages == queue["down"] + queue["up"] + InHand("main") + InHand("worker")
SabHolders == objs["main"] + objs["worker"] + Messages

\* A pipe is freed when, and only when, nobody has a pointer to it any more, whichever
\* thread lets go last and wherever the constructor failed; the shared buffer when no
\* object and no message refers to it.  So a message in a queue keeps the buffer it
\* refers to, even when the sender has dropped it, and goes with its pipe.
FreedWithLastOwner ==
  /\ \A p \in Pipes : pipe[p] = "live" <=> held[p] # {}
  /\ sab = "live" <=> SabHolders > 0
  /\ \A p \in Pipes : queue[p] > 0 => pipe[p] = "live" /\ sab = "live"

\* The counters count: ps->ref_count is the number of pointers to the pipe, and
\* sab->ref_count the number of objects and messages that refer to the buffer.
CountsOwners ==
  /\ TypeOK
  /\ \A p \in Pipes : refs[p] = Cardinality(held[p])
  /\ sabRefs = SabHolders
-----------------------------------------------------------------------------
(***************************************************************************)
(* The inductive invariant behind the two safety properties.               *)
(***************************************************************************)
RefsInv ==
  \A p \in Pipes : /\ refs[p] = Cardinality(held[p])
                   /\ pipe[p] = "live" <=> held[p] # {}

SabInv ==
  /\ sabRefs = SabHolders
  /\ sab = "live" <=> SabHolders > 0
  /\ \A p \in Pipes : queue[p] > 0 => held[p] # {}

\* What is there while the Worker is made: the worker thread comes last, and the
\* references of args stay until it ends.
Making == {"newRecvPipe", "newSendPipe", "newObject", "newThread"}
MakingInv ==
  /\ pc["main"] \in Making \cup {"noWorker"} => pc["worker"] = "unborn"
  /\ pc["main"] \in Making => todo["main"] = <<>>
  /\ pc["main"] \in {"newSendPipe", "newObject", "newThread"} => Args \in held["down"]
  /\ pc["main"] \in {"newObject", "newThread"} => Args \in held["up"]
  /\ pc["main"] \in Making \ {"newThread"} =>
       \A p \in Pipes : Object("main") \notin held[p]
  /\ pc["worker"] \in {"unborn", "osInit"} =>
       /\ todo["worker"] = <<>>
       /\ \A p \in Pipes : Object("worker") \notin held[p]
  /\ pc["worker"] \in {"osInit", "js"} => \A p \in Pipes : Args \in held[p]

\* A thread drops references of its own, those of args only when there is no worker
\* (any more), and the two of its Worker object in order.
TodoInv ==
  \A t \in Threads : \A i \in 1..Len(todo[t]) :
    /\ todo[t][i][1] \in {Args, Object(t), Port(t)}
    /\ todo[t][i][1] = Args => pc[t] = IF t = "main" THEN "noWorker" ELSE "ended"
    /\ todo[t][i] = <<Object(t), RecvPipe(t)>> =>
         \E j \in (i + 1)..Len(todo[t]) : todo[t][j] = <<Object(t), SendPipe(t)>>

\* The Worker object of the main thread has both its pipes, or is being finalized.
ObjectInv ==
  Object("main") \in held["down"] =>
    \/ Object("main") \in held["up"]
    \/ \E i \in 1..Len(todo["main"]) : todo["main"][i] = <<Object("main"), "down">>

IInv == TypeOK /\ RefsInv /\ SabInv /\ MakingInv /\ TodoInv /\ ObjectInv
=============================================================================
