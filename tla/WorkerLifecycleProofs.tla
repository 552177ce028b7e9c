------------------------ MODULE WorkerLifecycleProofs -----------------------
(***************************************************************************)
(* Proofs about WorkerLifecycle for any number of messages and of buffer   *)
(* objects: the reference counts of the two pipes and of the shared buffer *)
(* count their owners, and what they count is freed with its last owner.   *)
(*                                                                         *)
(* A count goes wrong in two ways: a dup by somebody who is an owner       *)
(* already, or of something that is freed.  MakingInv and ObjectInv        *)
(* exclude both for the Worker object and the port, which take their       *)
(* references long after the constructor made the pipes; TodoInv says why  *)
(* they last: a thread drops the references of args only when there is no  *)
(* worker (any more), and those of an object in one go.                    *)
(***************************************************************************)
EXTENDS WorkerLifecycle, FiniteSetTheorems, TLAPS

USE DEF Threads, Pipes, SendPipe, RecvPipe

\* The holders of a pipe are finitely many: they can be counted.
LEMMA HoldersFinite ==
  ASSUME NEW S \in SUBSET Holders
  PROVE  IsFiniteSet(S)
<1>1. Holders = {Args} \cup {Object("main")} \cup {Object("worker")}
                \cup {Port("main")} \cup {Port("worker")}
  BY DEF Holders
<1>2. IsFiniteSet(Holders)
  BY <1>1, FS_Singleton, FS_Union
<1> QED
  BY <1>2, FS_Subset

\* The holders are distinct.
LEMMA HoldersDistinct ==
  /\ Args # Object("main") /\ Args # Object("worker")
  /\ \A t, u \in Threads : Port(t) # Args /\ Port(t) # Object(u)
  /\ Object("main") # Object("worker") /\ Port("main") # Port("worker")
  BY DEF Args, Object, Port

\* js_dup_message_pipe: a new holder, one more reference.
LEMMA DupCounts ==
  ASSUME NEW S \in SUBSET Holders, NEW h, h \notin S
  PROVE  Cardinality(S \cup {h}) = Cardinality(S) + 1
  BY HoldersFinite, FS_AddElement

\* js_free_message_pipe: one holder less, and the count is 0 when it was the last.
LEMMA DropCounts ==
  ASSUME NEW S \in SUBSET Holders, NEW h \in S
  PROVE  /\ Cardinality(S) \in Nat
         /\ Cardinality(S \ {h}) = Cardinality(S) - 1
         /\ Cardinality(S) - 1 \in Nat
         /\ Cardinality(S) - 1 = 0 <=> S \ {h} = {}
<1>1. IsFiniteSet(S) /\ IsFiniteSet(S \ {h})
  BY HoldersFinite, FS_RemoveElement
<1>2. Cardinality(S) \in Nat /\ Cardinality(S \ {h}) \in Nat
  BY <1>1, FS_CardinalityType
<1>3. Cardinality(S \ {h}) = Cardinality(S) - 1
  BY HoldersFinite, FS_RemoveElement
<1>4. Cardinality(S \ {h}) = 0 <=> S \ {h} = {}
  BY <1>1, FS_EmptySet
<1> QED
  BY <1>2, <1>3, <1>4

\* A thread that moves on while it has nothing to drop does not disturb TodoInv.
LEMMA QuietTodo ==
  ASSUME IInv, NEW t \in Threads, NEW label,
         todo[t] = <<>>, pc' = [pc EXCEPT ![t] = label], todo' = todo
  PROVE  TodoInv'
<1> SUFFICES ASSUME NEW u \in Threads, NEW i \in 1..Len(todo[u])
             PROVE  u # t /\ pc'[u] = pc[u]
  BY DEF IInv, TodoInv
<1>1. u # t
  OBVIOUS
<1> QED
  BY <1>1 DEF IInv, TypeOK

\* js_new_message_pipe
LEMMA NewPipeStep ==
  ASSUME IInv, NEW p \in Pipes, NEW label, NEW next,
         \/ p = "down" /\ label = "newRecvPipe" /\ next = "newSendPipe"
         \/ p = "up" /\ label = "newSendPipe" /\ next = "newObject",
         NewPipe(p, label, next)
  PROVE  IInv'
<1>1. TypeOK'
  BY DEF IInv, TypeOK, NewPipe, Goto, sabVars, Holders
<1>2. RefsInv'
  BY FS_Singleton DEF IInv, TypeOK, RefsInv, NewPipe
<1>3. SabInv'
  BY DEF IInv, TypeOK, SabInv, SabHolders, Messages, InHand, NewPipe, sabVars
<1>4. MakingInv'
  BY HoldersDistinct DEF IInv, TypeOK, MakingInv, Making, NewPipe, At, Goto
<1>5. TodoInv'
  BY QuietTodo DEF NewPipe, At, Goto
<1>6. ObjectInv'
  BY HoldersDistinct
  DEF IInv, TypeOK, ObjectInv, MakingInv, Making, NewPipe, At, Goto
<1> QED
  BY <1>1, <1>2, <1>3, <1>4, <1>5, <1>6 DEF IInv

\* js_worker_ctor_internal
LEMMA NewObjectStep ==
  ASSUME IInv, NEW t \in Threads, NEW label, NEW next,
         \/ t = "main" /\ label = "newObject" /\ next = "newThread"
         \/ t = "worker" /\ label = "osInit" /\ next = "js",
         NewObject(t, label, next)
  PROVE  IInv'
<1>1. \A p \in Pipes : held[p] \in SUBSET Holders /\ Object(t) \notin held[p] /\ Args \in held[p]
  BY DEF IInv, TypeOK, MakingInv, Making, NewObject, At
<1>2. \A p \in Pipes : held'[p] = held[p] \cup {Object(t)} /\ refs'[p] = refs[p] + 1
  BY DEF NewObject, Dup
<1>3. TypeOK'
  BY DEF IInv, TypeOK, NewObject, Dup, Goto, sabVars, Holders
<1>4. RefsInv'
  BY <1>1, <1>2, DupCounts DEF IInv, RefsInv, NewObject
<1>5. SabInv'
  BY <1>2
  DEF IInv, TypeOK, SabInv, SabHolders, Messages, InHand, NewObject, sabVars
<1>6. MakingInv'
  BY <1>1, <1>2, HoldersDistinct DEF IInv, TypeOK, MakingInv, Making, NewObject, At, Goto
<1>7. TodoInv'
  BY QuietTodo DEF NewObject, At, Goto
<1>8. ObjectInv'
  BY <1>2, HoldersDistinct DEF IInv, ObjectInv, NewObject
<1> QED
  BY <1>3, <1>4, <1>5, <1>6, <1>7, <1>8 DEF IInv

\* The lists of references that a thread is given to drop, as TodoInv describes them.
LEMMA ListsOk ==
  ASSUME NEW t \in Threads, NEW list,
         \/ list = ObjectRefs(t)
         \/ list = << <<Port(t), RecvPipe(t)>> >>
         \/ list = ArgsRefs \o ObjectRefs(t)
         \/ list = ObjectRefs(t) \o ArgsRefs
  PROVE  /\ list \in Seq(Holders \X Pipes)
         /\ \A i \in 1..Len(list) :
              /\ list[i][1] \in {Args, Object(t), Port(t)}
              /\ list[i] = <<Object(t), RecvPipe(t)>> =>
                   \E j \in (i + 1)..Len(list) : list[j] = <<Object(t), SendPipe(t)>>
<1> USE HoldersDistinct DEF ObjectRefs, ArgsRefs, Holders
<1>1. CASE list = ObjectRefs(t)
  BY <1>1
<1>2. CASE list = << <<Port(t), RecvPipe(t)>> >>
  BY <1>2
<1>3. CASE list = ArgsRefs \o ObjectRefs(t)
  BY <1>3
<1>4. CASE list = ObjectRefs(t) \o ArgsRefs
  BY <1>4
<1> QED
  BY <1>1, <1>2, <1>3, <1>4

\* Neither js_worker_finalizer nor js_worker_set_onmessage drops references of args.
LEMMA ListsWithoutArgs ==
  ASSUME NEW t \in Threads,
         NEW list \in {ObjectRefs(t), << <<Port(t), RecvPipe(t)>> >>},
         NEW i \in 1..Len(list)
  PROVE  list[i][1] # Args
<1>1. CASE list = ObjectRefs(t)
  BY <1>1, HoldersDistinct DEF ObjectRefs
<1>2. CASE list = << <<Port(t), RecvPipe(t)>> >>
  BY <1>2, HoldersDistinct
<1> QED
  BY <1>1, <1>2

\* A thread that has nothing to drop is given a list of references to drop: the steps
\* that end the constructor in failure, finalize an object, clear onmessage, or end a
\* thread.
LEMMA GivenStep ==
  ASSUME IInv, NEW t \in Threads, NEW label, NEW list,
         At(t, pc[t]),
         \/ /\ t = "main" /\ pc[t] \in Making /\ label = "noWorker"
            /\ list = ArgsRefs \o ObjectRefs(t)
         \/ /\ pc[t] = "js" /\ label = "js"
            /\ list \in {ObjectRefs(t), << <<Port(t), RecvPipe(t)>> >>}
         \/ /\ t = "worker" /\ pc[t] = "js" /\ label = "ended"
            /\ list \in {ArgsRefs \o ObjectRefs(t), ObjectRefs(t) \o ArgsRefs}
         \/ /\ t = "main" /\ pc[t] = "js" /\ label = "ending"
            /\ list = ObjectRefs(t),
         todo' = [todo EXCEPT ![t] = list], pc' = [pc EXCEPT ![t] = label],
         UNCHANGED <<pipeVars, hand, sabVars>>
  PROVE  IInv'
<1>1. todo[t] = <<>>
  BY DEF At
<1>2. /\ list \in Seq(Holders \X Pipes)
      /\ \A i \in 1..Len(list) :
           /\ list[i][1] \in {Args, Object(t), Port(t)}
           /\ list[i] = <<Object(t), RecvPipe(t)>> =>
                \E j \in (i + 1)..Len(list) : list[j] = <<Object(t), SendPipe(t)>>
  BY ListsOk
<1>3. TypeOK'
  BY <1>2 DEF IInv, TypeOK, pipeVars, sabVars
<1>4. RefsInv' /\ SabInv'
  BY DEF IInv, RefsInv, SabInv, SabHolders, Messages, InHand, pipeVars, sabVars
<1>5. MakingInv'
  BY DEF IInv, TypeOK, MakingInv, Making, pipeVars
<1>6. TodoInv'
  <2> SUFFICES ASSUME NEW u \in Threads, NEW i \in 1..Len(todo'[u])
               PROVE  /\ todo'[u][i][1] \in {Args, Object(u), Port(u)}
                      /\ todo'[u][i][1] = Args =>
                           pc'[u] = IF u = "main" THEN "noWorker" ELSE "ended"
                      /\ todo'[u][i] = <<Object(u), RecvPipe(u)>> =>
                           \E j \in (i + 1)..Len(todo'[u]) :
                             todo'[u][j] = <<Object(u), SendPipe(u)>>
    BY DEF TodoInv
  <2>1. CASE u # t
    <3>1. todo'[u] = todo[u] /\ pc'[u] = pc[u]
      BY <2>1 DEF IInv, TypeOK
    <3> QED
      BY <3>1 DEF IInv, TodoInv
  <2>2. CASE u = t
    <3>1. todo'[u] = list /\ pc'[u] = label
      BY <2>2 DEF IInv, TypeOK
    <3>2. list[i][1] = Args => label = IF u = "main" THEN "noWorker" ELSE "ended"
      BY <2>2, <3>1, ListsWithoutArgs
    <3> QED
      BY <1>2, <2>2, <3>1, <3>2
  <2> QED
    BY <2>1, <2>2
<1>7. ObjectInv'
  <2>1. CASE t = "main"
    BY <1>1, <2>1 DEF IInv, ObjectInv, pipeVars
  <2>2. CASE t # "main"
    BY <2>2 DEF IInv, TypeOK, ObjectInv, pipeVars
  <2> QED
    BY <2>1, <2>2
<1> QED
  BY <1>3, <1>4, <1>5, <1>6, <1>7 DEF IInv

\* The first reference of a list has been dealt with: what TodoInv says of the list
\* it says of the rest.
LEMMA TailTodo ==
  ASSUME IInv, NEW t \in Threads, todo[t] # <<>>,
         todo' = [todo EXCEPT ![t] = Tail(@)], pc' = pc
  PROVE  /\ TodoInv'
         /\ todo' \in [Threads -> Seq(Holders \X Pipes)]
         /\ Len(todo'[t]) = Len(todo[t]) - 1 /\ Len(todo[t]) \in Nat
         /\ \A i \in 1..Len(todo'[t]) : todo'[t][i] = todo[t][i + 1]
         /\ \A u \in Threads : u # t => todo'[u] = todo[u]
<1>1. todo[t] \in Seq(Holders \X Pipes)
  BY DEF IInv, TypeOK
<1>2. /\ Tail(todo[t]) \in Seq(Holders \X Pipes)
      /\ Len(Tail(todo[t])) = Len(todo[t]) - 1 /\ Len(todo[t]) \in Nat
      /\ \A i \in 1..Len(Tail(todo[t])) : Tail(todo[t])[i] = todo[t][i + 1]
  BY <1>1
<1>3. todo'[t] = Tail(todo[t]) /\ \A u \in Threads : u # t => todo'[u] = todo[u]
  BY DEF IInv, TypeOK
<1>4. TodoInv'
  <2> SUFFICES ASSUME NEW u \in Threads, NEW i \in 1..Len(todo'[u])
               PROVE  /\ todo'[u][i][1] \in {Args, Object(u), Port(u)}
                      /\ todo'[u][i][1] = Args =>
                           pc'[u] = IF u = "main" THEN "noWorker" ELSE "ended"
                      /\ todo'[u][i] = <<Object(u), RecvPipe(u)>> =>
                           \E j \in (i + 1)..Len(todo'[u]) :
                             todo'[u][j] = <<Object(u), SendPipe(u)>>
    BY DEF TodoInv
  <2>1. CASE u # t
    BY <2>1, <1>3 DEF IInv, TodoInv
  <2>2. CASE u = t
    <3> DEFINE old == todo[t]
               new == todo'[u]
    <3>1. /\ Len(new) = Len(old) - 1 /\ Len(old) \in Nat
          /\ \A k \in 1..Len(new) : new[k] = old[k + 1]
      BY <1>2, <1>3, <2>2
    <3>2. \A k \in 1..Len(old) :
            /\ old[k][1] \in {Args, Object(u), Port(u)}
            /\ old[k][1] = Args => pc[u] = IF u = "main" THEN "noWorker" ELSE "ended"
            /\ old[k] = <<Object(u), RecvPipe(u)>> =>
                 \E j \in (k + 1)..Len(old) : old[j] = <<Object(u), SendPipe(u)>>
      BY <2>2 DEF IInv, TodoInv
    <3> HIDE DEF old, new
    <3>3. i \in 1..Len(new) /\ i + 1 \in 1..Len(old) /\ new[i] = old[i + 1]
      <4>1. i \in 1..Len(new)
        BY DEF new
      <4> QED
        BY <3>1, <4>1
    <3>4. ASSUME new[i] = <<Object(u), RecvPipe(u)>>
          PROVE  \E j \in (i + 1)..Len(new) : new[j] = <<Object(u), SendPipe(u)>>
      <4>1. PICK j \in ((i + 1) + 1)..Len(old) : old[j] = <<Object(u), SendPipe(u)>>
        BY <3>2, <3>3, <3>4
      <4>2. j - 1 \in (i + 1)..Len(new) /\ (j - 1) + 1 = j
        BY <3>1
      <4>3. new[j - 1] = old[j]
        BY <3>1, <4>2
      <4> QED
        BY <4>1, <4>2, <4>3
    <3> QED
      BY <3>2, <3>3, <3>4 DEF new
  <2> QED
    BY <2>1, <2>2
<1> QED
  BY <1>2, <1>3, <1>4 DEF IInv, TypeOK

\* A step that touches neither control nor references to pipes.
LEMMA QuietPipes ==
  ASSUME IInv, UNCHANGED <<pc, pipe, refs, held, todo>>
  PROVE  RefsInv' /\ MakingInv' /\ TodoInv' /\ ObjectInv'
<1>1. RefsInv'
  BY DEF IInv, RefsInv
<1>2. MakingInv'
  BY DEF IInv, MakingInv
<1>3. TodoInv'
  BY DEF IInv, TodoInv
<1>4. ObjectInv'
  BY DEF IInv, ObjectInv
<1> QED
  BY <1>1, <1>2, <1>3, <1>4

\* What the counts of the shared buffer are made of.
LEMMA SabTypes ==
  ASSUME IInv
  PROVE  /\ \A t \in Threads : objs[t] \in Nat /\ InHand(t) \in {0, 1}
         /\ \A p \in Pipes : queue[p] \in Nat
         /\ Messages \in Nat /\ SabHolders \in Nat /\ sabRefs \in Nat
<1>1. /\ \A t \in Threads : objs[t] \in Nat /\ InHand(t) \in {0, 1}
      /\ \A p \in Pipes : queue[p] \in Nat
      /\ sabRefs \in Nat
  BY DEF IInv, TypeOK, InHand
<1> QED
  BY <1>1 DEF Messages, SabHolders

\* js_worker_postMessage: the sender's object keeps the pipe, its buffer object the
\* buffer.
LEMMA PostMessageStep ==
  ASSUME IInv, NEW t \in Threads, PostMessage(t)
  PROVE  IInv'
<1>1. TypeOK'
  BY DEF IInv, TypeOK, PostMessage
<1>2. SabInv'
  <2>1. SabHolders' = SabHolders + 1 /\ SabHolders > 0
    <3>1. /\ objs' = objs /\ objs[t] > 0
          /\ \A u \in Threads : InHand(u)' = InHand(u)
          /\ \A p \in Pipes : queue'[p] = IF p = SendPipe(t) THEN queue[p] + 1 ELSE queue[p]
      BY DEF IInv, TypeOK, PostMessage, InHand
    <3> QED
      BY <3>1, SabTypes DEF SabHolders, Messages
  <2>2. \A p \in Pipes : queue'[p] > 0 => held'[p] # {}
    BY DEF IInv, TypeOK, SabInv, PostMessage, HasObject
  <2> QED
    BY <2>1, <2>2, SabTypes DEF IInv, SabInv, PostMessage
<1> QED
  BY <1>1, <1>2, QuietPipes DEF IInv, PostMessage

\* handle_posted_message: the reference moves from the queue to the hand.
LEMMA PopMessageStep ==
  ASSUME IInv, NEW t \in Threads, PopMessage(t)
  PROVE  IInv'
<1>1. TypeOK'
  BY DEF IInv, TypeOK, PopMessage, Hands, sabVars
<1>2. SabInv'
  <2>1. SabHolders' = SabHolders
    <3>1. /\ objs' = objs
          /\ \A u \in Threads : InHand(u)' = IF u = t THEN 1 ELSE InHand(u)
          /\ InHand(t) = 0
          /\ \A p \in Pipes : queue'[p] = IF p = RecvPipe(t) THEN queue[p] - 1 ELSE queue[p]
      BY DEF IInv, TypeOK, PopMessage, InJs, InHand, sabVars
    <3> QED
      BY <3>1, SabTypes DEF SabHolders, Messages
  <2>2. \A p \in Pipes : queue'[p] > 0 => held'[p] # {}
    BY DEF IInv, TypeOK, SabInv, PopMessage
  <2> QED
    BY <2>1, <2>2 DEF IInv, SabInv, PopMessage, sabVars
<1> QED
  BY <1>1, <1>2, QuietPipes DEF IInv, PopMessage

\* JS_ReadObject: one more object, or none.
LEMMA ReadObjectStep ==
  ASSUME IInv, NEW t \in Threads, ReadObject(t) \/ ReadFails(t)
  PROVE  IInv'
<1>1. TypeOK'
  BY DEF IInv, TypeOK, ReadObject, ReadFails, Hands, pipeVars, sabVars
<1>2. SabInv'
  <2>1. SabHolders > 0
    BY SabTypes
    DEF IInv, TypeOK, ReadObject, ReadFails, SabHolders, Messages, InHand
  <2>2. CASE ReadObject(t)
    <3>1. SabHolders' = SabHolders + 1
      <4>1. /\ queue' = queue /\ \A u \in Threads : InHand(u)' = InHand(u)
            /\ \A u \in Threads : objs'[u] = IF u = t THEN objs[u] + 1 ELSE objs[u]
        BY <2>2 DEF IInv, TypeOK, ReadObject, InHand, pipeVars
      <4> QED
        BY <4>1, SabTypes DEF SabHolders, Messages
    <3> QED
      BY <2>1, <2>2, <3>1, SabTypes DEF IInv, SabInv, ReadObject, pipeVars
  <2>3. CASE ReadFails(t)
    <3>1. SabHolders' = SabHolders
      BY <2>3, SabTypes
      DEF IInv, TypeOK, Hands, ReadFails, SabHolders, Messages, InHand, pipeVars, sabVars
    <3> QED
      BY <2>3, <3>1 DEF IInv, SabInv, ReadFails, pipeVars, sabVars
  <2> QED
    BY <2>2, <2>3
<1> QED
  BY <1>1, <1>2, QuietPipes DEF IInv, ReadObject, ReadFails, pipeVars

\* js_free_message and js_sab_free: one holder less, and the buffer goes with the last.
LEMMA DropSabStep ==
  ASSUME IInv, NEW t \in Threads, FreeMessage(t) \/ FreeObject(t)
  PROVE  IInv'
<1>1. SabHolders > 0 /\ SabHolders' = SabHolders - 1
  <2>1. CASE FreeMessage(t)
    <3>1. /\ queue' = queue /\ objs' = objs /\ InHand(t) = 1
          /\ \A u \in Threads : InHand(u)' = IF u = t THEN 0 ELSE InHand(u)
      BY <2>1 DEF IInv, TypeOK, FreeMessage, InHand, pipeVars
    <3>2. CASE t = "main"
      BY <3>1, <3>2, SabTypes DEF SabHolders, Messages
    <3>3. CASE t = "worker"
      BY <3>1, <3>3, SabTypes DEF SabHolders, Messages
    <3> QED
      BY <3>2, <3>3
  <2>2. CASE FreeObject(t)
    <3>1. /\ queue' = queue /\ objs[t] > 0
          /\ \A u \in Threads : /\ InHand(u)' = InHand(u)
                               /\ objs'[u] = IF u = t THEN objs[u] - 1 ELSE objs[u]
      BY <2>2 DEF IInv, TypeOK, FreeObject, InHand, pipeVars
    <3>2. CASE t = "main"
      BY <3>1, <3>2, SabTypes DEF SabHolders, Messages
    <3>3. CASE t = "worker"
      BY <3>1, <3>3, SabTypes DEF SabHolders, Messages
    <3> QED
      BY <3>2, <3>3
  <2> QED
    BY <2>1, <2>2
<1>2. sabRefs' = sabRefs - 1 /\ sab' = IF sabRefs - 1 = 0 THEN "freed" ELSE sab
  BY DEF FreeMessage, FreeObject, DropSab
<1>3. TypeOK'
  <2>1. sabRefs' \in Nat
    BY <1>1, <1>2, SabTypes DEF IInv, SabInv
  <2> QED
    BY <1>2, <2>1 DEF IInv, TypeOK, FreeMessage, FreeObject, Hands, pipeVars
<1>4. SabInv'
  BY <1>1, <1>2, SabTypes DEF IInv, TypeOK, SabInv, FreeMessage, FreeObject, pipeVars
<1> QED
  BY <1>3, <1>4, QuietPipes DEF IInv, FreeMessage, FreeObject, pipeVars

\* js_worker_set_onmessage: the port is a new holder of a pipe that is there.
LEMMA SetOnMessageStep ==
  ASSUME IInv, NEW t \in Threads, SetOnMessage(t)
  PROVE  IInv'
<1> DEFINE p == RecvPipe(t)
<1>1. p \in Pipes /\ Port(t) \notin held[p] /\ held[p] \in SUBSET Holders
  BY DEF IInv, TypeOK, SetOnMessage, HasPort
<1>2. held[p] # {}
  <2>1. CASE t = "worker"
    BY <2>1 DEF IInv, MakingInv, SetOnMessage, InJs, At
  <2>2. CASE t = "main"
    BY <2>2 DEF IInv, ObjectInv, SetOnMessage, InJs, At, HasObject
  <2> QED
    BY <2>1, <2>2
<1>3. /\ held'[p] = held[p] \cup {Port(t)} /\ refs'[p] = refs[p] + 1
      /\ \A q \in Pipes : q # p => held'[q] = held[q] /\ refs'[q] = refs[q]
  BY <1>1 DEF SetOnMessage, Dup
<1>4. TypeOK'
  <2>1. Port(t) \in Holders
    BY DEF Holders
  <2> QED
    BY <2>1 DEF IInv, TypeOK, SetOnMessage, Dup, sabVars
<1>5. RefsInv'
  BY <1>1, <1>2, <1>3, DupCounts DEF IInv, RefsInv, SetOnMessage
<1>6. SabInv'
  BY <1>3 DEF IInv, SabInv, SabHolders, Messages, InHand, SetOnMessage, sabVars
<1>7. ASSUME NEW q \in Pipes, NEW h, h # Port(t)
      PROVE  h \in held'[q] <=> h \in held[q]
  BY <1>3, <1>7
<1>8. MakingInv'
  BY <1>7, HoldersDistinct DEF IInv, MakingInv, SetOnMessage
<1>9. TodoInv' /\ ObjectInv'
  BY <1>7, HoldersDistinct DEF IInv, TodoInv, ObjectInv, SetOnMessage
<1> QED
  BY <1>4, <1>5, <1>6, <1>8, <1>9 DEF IInv

\* js_free_message_pipe of a reference that is there: the pipe goes with its last
\* holder, and the messages in its queue with the pipe.
LEMMA DropRefStep ==
  ASSUME IInv, NEW t \in Threads, DropRef(t)
  PROVE  IInv'
<1> DEFINE h == Head(todo[t])[1]
           p == Head(todo[t])[2]
<1>1. /\ todo[t] # <<>> /\ todo[t] \in Seq(Holders \X Pipes)
      /\ todo' = [todo EXCEPT ![t] = Tail(@)] /\ pc' = pc
      /\ h \in held[p]
  BY DEF IInv, TypeOK, DropRef
<1>2. /\ Head(todo[t]) = todo[t][1] /\ 1 \in 1..Len(todo[t])
      /\ todo[t][1] \in Holders \X Pipes /\ todo[t][1] = <<h, p>>
  BY <1>1
<1>3. /\ h \in {Args, Object(t), Port(t)}
      /\ h = Args => pc[t] = IF t = "main" THEN "noWorker" ELSE "ended"
      /\ <<h, p>> = <<Object(t), RecvPipe(t)>> =>
           \E j \in (1 + 1)..Len(todo[t]) : todo[t][j] = <<Object(t), SendPipe(t)>>
  <2> HIDE DEF h, p
  <2>1. <<h, p>>[1] = h
    OBVIOUS
  <2> QED
    BY <1>2, <2>1 DEF IInv, TodoInv
<1>4. /\ TodoInv'
      /\ todo' \in [Threads -> Seq(Holders \X Pipes)]
      /\ Len(todo'[t]) = Len(todo[t]) - 1 /\ Len(todo[t]) \in Nat
      /\ \A i \in 1..Len(todo'[t]) : todo'[t][i] = todo[t][i + 1]
      /\ \A u \in Threads : u # t => todo'[u] = todo[u]
  BY <1>1, TailTodo
<1>5. /\ p \in Pipes /\ held[p] \in SUBSET Holders /\ refs[p] = Cardinality(held[p])
      /\ pipe[p] = "live"
  BY <1>1, <1>2 DEF IInv, TypeOK, RefsInv
<1>6. /\ refs[p] \in Nat /\ refs[p] - 1 \in Nat
      /\ Cardinality(held[p] \ {h}) = refs[p] - 1
      /\ Freed(p) <=> held[p] \ {h} = {}
  BY <1>1, <1>5, DropCounts DEF Freed
<1>7. /\ held' = [held EXCEPT ![p] = @ \ {h}]
      /\ refs' = [refs EXCEPT ![p] = @ - 1]
      /\ pipe' = [pipe EXCEPT ![p] = IF Freed(p) THEN "freed" ELSE @]
      /\ queue' = [queue EXCEPT ![p] = IF Freed(p) THEN 0 ELSE @]
      /\ sabRefs' = sabRefs - MessagesFreed(p)
      /\ sab' = IF sabRefs' = 0 THEN "freed" ELSE sab
      /\ UNCHANGED <<hand, objs>>
  BY DEF DropRef
<1> HIDE DEF h, p
<1>8. SabHolders' = SabHolders - MessagesFreed(p) /\ SabHolders' \in Nat
      /\ MessagesFreed(p) \in Nat
  <2>1. /\ \A q \in Pipes : queue'[q] = IF q = p THEN queue[q] - MessagesFreed(p) ELSE queue[q]
        /\ \A u \in Threads : InHand(u)' = InHand(u)
        /\ objs' = objs
        /\ MessagesFreed(p) \in Nat /\ MessagesFreed(p) <= queue[p]
    BY <1>5, <1>7, SabTypes DEF IInv, TypeOK, MessagesFreed, InHand
  <2> HIDE DEF MessagesFreed
  <2>2. CASE p = "down"
    BY <2>1, <2>2, SabTypes DEF SabHolders, Messages
  <2>3. CASE p = "up"
    BY <2>1, <2>3, SabTypes DEF SabHolders, Messages
  <2> QED
    BY <2>2, <2>3, <1>5
<1>9. TypeOK'
  <2>1. sabRefs' \in Nat
    BY <1>7, <1>8 DEF IInv, SabInv
  <2>2. held' \in [Pipes -> SUBSET Holders] /\ refs' \in [Pipes -> Nat]
    BY <1>5, <1>6, <1>7 DEF IInv, TypeOK
  <2>3. pipe' \in [Pipes -> {"none", "live", "freed"}] /\ queue' \in [Pipes -> Nat]
    BY <1>5, <1>7 DEF IInv, TypeOK
  <2> QED
    BY <1>1, <1>4, <1>7, <2>1, <2>2, <2>3 DEF IInv, TypeOK
<1>10. RefsInv'
  BY <1>5, <1>6, <1>7 DEF IInv, TypeOK, RefsInv
<1>11. SabInv'
  <2>1. \A q \in Pipes : queue'[q] > 0 => held'[q] # {}
    BY <1>5, <1>6, <1>7 DEF IInv, TypeOK, SabInv
  <2> QED
    BY <1>7, <1>8, <2>1, SabTypes DEF IInv, TypeOK, SabInv
<1>12. \A q \in Pipes : \A x : x # h \/ q # p => (x \in held'[q] <=> x \in held[q])
  BY <1>5, <1>7 DEF IInv, TypeOK
<1>13. MakingInv'
  BY <1>1, <1>3, <1>4, <1>12, HoldersDistinct DEF IInv, MakingInv, Making
<1>14. ObjectInv'
  <2> SUFFICES ASSUME Object("main") \in held'["down"], Object("main") \notin held'["up"]
               PROVE  \E i \in 1..Len(todo'["main"]) :
                        todo'["main"][i] = <<Object("main"), "down">>
    BY DEF ObjectInv
  <2>1. Object("main") \in held["down"]
    BY <1>7, <1>5 DEF IInv, TypeOK
  <2>2. PICK i \in 1..Len(todo["main"]) :
          /\ todo["main"][i] = <<Object("main"), "down">>
          /\ t = "main" => i # 1
    <3>1. CASE Object("main") \in held["up"]
      <4>1. h = Object("main") /\ p = "up"
        BY <1>12, <3>1
      <4>2. t = "main"
        BY <1>3, <4>1, HoldersDistinct
      <4> QED
        BY <1>3, <1>4, <4>1, <4>2
    <3>2. CASE Object("main") \notin held["up"]
      <4>1. PICK i \in 1..Len(todo["main"]) : todo["main"][i] = <<Object("main"), "down">>
        BY <2>1, <3>2 DEF IInv, ObjectInv
      <4>2. ~ (h = Object("main") /\ p = "down")
        BY <1>5, <1>7 DEF IInv, TypeOK
      <4>3. <<h, p>> = <<Object("main"), "down">> => h = Object("main") /\ p = "down"
        OBVIOUS
      <4>4. t = "main" => i # 1
        BY <1>2, <4>1, <4>2, <4>3
      <4> QED
        BY <4>1, <4>4
    <3> QED
      BY <3>1, <3>2
  <2>3. CASE t = "main"
    <3> DEFINE new == todo'["main"]
               old == todo["main"]
    <3>1. /\ Len(new) = Len(old) - 1 /\ Len(old) \in Nat
          /\ \A k \in 1..Len(new) : new[k] = old[k + 1]
          /\ i \in 1..Len(old) /\ i # 1
      BY <1>4, <2>2, <2>3
    <3>2. old[i] = <<Object("main"), "down">>
      BY <2>2
    <3> HIDE DEF new, old
    <3>3. i - 1 \in 1..Len(new) /\ new[i - 1] = old[(i - 1) + 1] /\ (i - 1) + 1 = i
      BY <3>1
    <3>4. new[i - 1] = <<Object("main"), "down">>
      BY <3>2, <3>3
    <3> QED
      BY <3>3, <3>4 DEF new
  <2>4. CASE t # "main"
    <3>1. todo'["main"] = todo["main"]
      BY <1>4, <2>4
    <3> QED
      BY <2>2, <3>1
  <2> QED
    BY <2>3, <2>4
<1> QED
  BY <1>4, <1>9, <1>10, <1>11, <1>13, <1>14 DEF IInv

\* The pointer is NULL: the reference at the head of the list is not there.
LEMMA DropNullStep ==
  ASSUME IInv, NEW t \in Threads, DropNull(t)
  PROVE  IInv'
<1>1. /\ todo[t] # <<>> /\ todo[t] \in Seq(Holders \X Pipes)
      /\ todo' = [todo EXCEPT ![t] = Tail(@)] /\ pc' = pc
      /\ Head(todo[t])[1] \notin held[Head(todo[t])[2]]
      /\ UNCHANGED <<pipeVars, hand, sabVars>>
  BY DEF IInv, TypeOK, DropNull
<1>2. /\ TodoInv'
      /\ todo' \in [Threads -> Seq(Holders \X Pipes)]
      /\ Len(todo'[t]) = Len(todo[t]) - 1 /\ Len(todo[t]) \in Nat
      /\ \A i \in 1..Len(todo'[t]) : todo'[t][i] = todo[t][i + 1]
      /\ \A u \in Threads : u # t => todo'[u] = todo[u]
  BY <1>1, TailTodo
<1>3. TypeOK'
  BY <1>1, <1>2 DEF IInv, TypeOK, pipeVars, sabVars
<1>4. RefsInv' /\ SabInv'
  BY <1>1 DEF IInv, RefsInv, SabInv, SabHolders, Messages, InHand, pipeVars, sabVars
<1>5. MakingInv'
  BY <1>1, <1>2 DEF IInv, MakingInv, pipeVars
<1>6. ObjectInv'
  <2> SUFFICES ASSUME Object("main") \in held["down"], Object("main") \notin held["up"]
               PROVE  \E i \in 1..Len(todo'["main"]) :
                        todo'["main"][i] = <<Object("main"), "down">>
    BY <1>1 DEF ObjectInv, pipeVars
  <2>1. PICK i \in 1..Len(todo["main"]) : todo["main"][i] = <<Object("main"), "down">>
    BY DEF IInv, ObjectInv
  <2>2. CASE t = "main"
    <3>1. i # 1
      BY <1>1, <2>1, <2>2
    <3>2. i - 1 \in 1..Len(todo'["main"]) /\ (i - 1) + 1 = i
      BY <1>2, <2>2, <3>1
    <3>3. todo'["main"][i - 1] = todo["main"][(i - 1) + 1]
      BY <1>2, <2>2, <3>2
    <3> QED
      BY <2>1, <3>2, <3>3
  <2>3. CASE t # "main"
    BY <1>2, <2>1, <2>3
  <2> QED
    BY <2>2, <2>3
<1> QED
  BY <1>2, <1>3, <1>4, <1>5, <1>6 DEF IInv

\* pthread_create succeeds: the references of args are the new thread's.
LEMMA NewThreadStep ==
  ASSUME IInv, NewThread
  PROVE  IInv'
<1>1. pc["worker"] = "unborn" /\ todo["main"] = <<>> /\ todo["worker"] = <<>>
  BY DEF IInv, MakingInv, Making, NewThread, At
<1>2. TypeOK'
  BY DEF IInv, TypeOK, NewThread, pipeVars, sabVars
<1>3. RefsInv' /\ SabInv'
  BY DEF IInv, RefsInv, SabInv, SabHolders, Messages, InHand, NewThread, pipeVars, sabVars
<1>4. MakingInv'
  BY <1>1 DEF IInv, TypeOK, MakingInv, Making, NewThread, At, pipeVars
<1>5. TodoInv'
  BY <1>1 DEF TodoInv, NewThread
<1>6. ObjectInv'
  BY DEF IInv, ObjectInv, NewThread, pipeVars
<1> QED
  BY <1>2, <1>3, <1>4, <1>5, <1>6 DEF IInv

\* Steps of control only: a worker without Worker.parent, the end of the process.
LEMMA ControlStep ==
  ASSUME IInv, NoParentObject \/ MainExits
  PROVE  IInv'
<1>1. TypeOK'
  BY DEF IInv, TypeOK, NoParentObject, MainExits, Goto, pipeVars, sabVars
<1>2. RefsInv' /\ SabInv'
  BY DEF IInv, RefsInv, SabInv, SabHolders, Messages, InHand, NoParentObject, MainExits,
         pipeVars, sabVars
<1>3. MakingInv'
  BY DEF IInv, TypeOK, MakingInv, Making, NoParentObject, MainExits, At, Goto, pipeVars
<1>4. TodoInv'
  BY QuietTodo DEF NoParentObject, MainExits, At, Goto
<1>5. ObjectInv'
  BY DEF IInv, ObjectInv, NoParentObject, MainExits, pipeVars
<1> QED
  BY <1>1, <1>2, <1>3, <1>4, <1>5 DEF IInv

\* At the start there are no pipes, and the buffer has one object.
LEMMA InitIInv == Init => IInv
<1> SUFFICES ASSUME Init PROVE IInv
  OBVIOUS
<1>1. TypeOK
  BY DEF Init, TypeOK, Hands
<1>2. RefsInv
  BY FS_EmptySet DEF Init, RefsInv
<1>3. SabInv
  BY DEF Init, SabInv, SabHolders, Messages, InHand
<1>4. MakingInv /\ TodoInv /\ ObjectInv
  BY DEF Init, MakingInv, Making, TodoInv, ObjectInv
<1> QED
  BY <1>1, <1>2, <1>3, <1>4 DEF IInv

\* IInv holds in every state, however many messages and objects there may be.
THEOREM Inductive == Spec => []IInv
<1>1. IInv /\ [Next]_vars => IInv'
  <2> SUFFICES ASSUME IInv, [Next]_vars PROVE IInv'
    OBVIOUS
  <2>1. CASE NewPipe("down", "newRecvPipe", "newSendPipe")
    BY <2>1, NewPipeStep
  <2>2. CASE NewPipe("up", "newSendPipe", "newObject")
    BY <2>2, NewPipeStep
  <2>3. CASE NewObject("main", "newObject", "newThread")
    BY <2>3, NewObjectStep
  <2>4. CASE NewObject("worker", "osInit", "js")
    BY <2>4, NewObjectStep
  <2>5. CASE NewThread
    BY <2>5, NewThreadStep
  <2>6. CASE NoParentObject \/ MainExits
    BY <2>6, ControlStep
  <2>7. CASE CtorFails
    BY <2>7, GivenStep DEF CtorFails, At, Goto, Making
  <2>8. CASE Finalize
    <3>1. pc' = [pc EXCEPT !["main"] = "js"]
      BY <2>8 DEF IInv, TypeOK, Finalize, At
    <3> QED
      BY <2>8, <3>1, GivenStep DEF Finalize, At
  <2>9. CASE WorkerEnds
    BY <2>9, GivenStep DEF WorkerEnds, InJs, At, Goto
  <2>10. CASE MainEnds
    BY <2>10, GivenStep DEF MainEnds, InJs, At, Goto
  <2>11. ASSUME NEW t \in Threads, ClearOnMessage(t)
         PROVE  IInv'
    <3>1. pc' = [pc EXCEPT ![t] = "js"]
      BY <2>11 DEF IInv, TypeOK, ClearOnMessage, InJs, At
    <3> QED
      BY <2>11, <3>1, GivenStep DEF ClearOnMessage, InJs, At
  <2>12. ASSUME NEW t \in Threads,
                \/ DropRef(t) \/ DropNull(t) \/ SetOnMessage(t) \/ PostMessage(t)
                \/ PopMessage(t) \/ ReadObject(t) \/ ReadFails(t) \/ FreeMessage(t)
                \/ FreeObject(t)
         PROVE  IInv'
    BY <2>12, DropRefStep, DropNullStep, SetOnMessageStep, PostMessageStep,
       PopMessageStep, ReadObjectStep, DropSabStep
  <2>13. CASE UNCHANGED vars
    <3>1. TypeOK' /\ SabInv'
      BY <2>13
      DEF IInv, TypeOK, SabInv, SabHolders, Messages, InHand, vars, pipeVars, sabVars
    <3> QED
      BY <2>13, <3>1, QuietPipes DEF IInv, vars, pipeVars
  <2> QED
    BY <2>1, <2>2, <2>3, <2>4, <2>5, <2>6, <2>7, <2>8, <2>9, <2>10, <2>11, <2>12,
       <2>13
    DEF Next, Ctor
<1> QED
  BY <1>1, InitIInv, PTL DEF Spec

\* ps->ref_count is the number of pointers to a pipe and sab->ref_count that of the
\* objects and messages with the buffer, in every interleaving of the two threads.
THEOREM CountsCorrect == Spec => []CountsOwners
<1>1. IInv => CountsOwners
  BY DEF IInv, RefsInv, SabInv, CountsOwners
<1> QED
  BY <1>1, Inductive, PTL

\* Pipes and buffer are freed with their last owner: neither before (no use after
\* free) nor never (no leak), wherever the constructor fails and whoever ends first.
THEOREM FreedCorrect == Spec => []FreedWithLastOwner
<1>1. ASSUME IInv
      PROVE  FreedWithLastOwner
  <2>1. \A p \in Pipes : queue[p] > 0 => SabHolders > 0
    BY <1>1, SabTypes DEF SabHolders, Messages
  <2> QED
    BY <1>1, <2>1 DEF IInv, RefsInv, SabInv, FreedWithLastOwner
<1> QED
  BY <1>1, Inductive, PTL
=============================================================================
