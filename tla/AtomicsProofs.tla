---------------------------- MODULE AtomicsProofs ---------------------------
(***************************************************************************)
(* Proofs about Atomics for any workers, cells and number of values: no    *)
(* waiter outlives its call on either list, no wake-up is lost, and notify *)
(* takes the oldest waiters.                                               *)
(***************************************************************************)
EXTENDS Atomics, SequenceTheorems, FiniteSetTheorems, TLAPS

\* The main thread is not a worker; cells have at least one value.
LEMMA ThreadKinds ==
  /\ Workers \subseteq Threads /\ Main \in Threads
  /\ \A t \in Threads : t \in Workers \/ t = Main
  /\ Main \notin Workers /\ Modulus \in Nat \ {0} /\ 0 \in Values
  BY AtomicsAssumption DEF Threads, Values

\* "All" is a number that the waiters never reach.
LEMMA CountsAre ==
  /\ Counts \subseteq Nat \ {0} /\ Cardinality(Threads) \in Nat
  /\ \A S \in SUBSET Workers : Cardinality(S) \in Nat /\ Cardinality(S) < Cardinality(Threads)
<1>1. IsFiniteSet(Workers) /\ Main \notin Workers
  BY AtomicsAssumption
<1>2. IsFiniteSet(Threads) /\ Cardinality(Threads) = Cardinality(Workers) + 1
  BY <1>1, FS_AddElement DEF Threads
<1>3. Cardinality(Workers) \in Nat
  BY <1>1, FS_CardinalityType
<1>4. \A S \in SUBSET Workers : Cardinality(S) \in Nat /\ Cardinality(S) <= Cardinality(Workers)
  BY <1>1, FS_Subset, FS_CardinalityType
<1>5. Counts \subseteq Nat \ {0}
  BY <1>2, <1>3 DEF Counts
<1> QED
  BY <1>2, <1>3, <1>4, <1>5

\* What an atomic operation stores is a value of a cell.
LEMMA NewValueType ==
  ASSUME NEW op \in {"add", "exchange", "compareExchange"},
         NEW a \in Values, NEW x \in Values, NEW y \in Values
  PROVE  NewValue(op, a, x, y) \in Values
<1>1. a + x \in Nat /\ Modulus \in Nat \ {0}
  BY ThreadKinds DEF Values
<1>2. (a + x) % Modulus \in 0..(Modulus - 1)
  BY <1>1
<1> QED
  BY <1>2 DEF NewValue, Values

\* Nobody is in the two critical sections while the mutex is free ...
LEMMA MutexFree ==
  ASSUME IInv, mutex = {}
  PROVE  /\ \A t \in Threads : pc[t] \notin {"link", "notify"}
         /\ woken = {}
  BY DEF IInv, MutexInv, NotifyInv

\* ... and nobody else while a thread is in one.
LEMMA MutexHeld ==
  ASSUME IInv, NEW t \in Threads, pc[t] \in {"link", "notify"}
  PROVE  /\ mutex = {t}
         /\ \A u \in Threads : u # t => pc[u] \notin {"link", "notify"}
<1>1. t \in mutex /\ mutex \subseteq Threads
  BY DEF IInv, MutexInv, TypeOK
<1> QED
  BY <1>1 DEF IInv, MutexInv

\* list_del: the entries behind the one taken out move up by one place.
LEMMA RemoveAtIs ==
  ASSUME NEW S, NEW s \in Seq(S), NEW i \in 1..Len(s)
  PROVE  /\ RemoveAt(s, i) \in Seq(S)
         /\ Len(RemoveAt(s, i)) = Len(s) - 1
         /\ \A k \in 1..(Len(s) - 1) :
              RemoveAt(s, i)[k] = s[IF k < i THEN k ELSE k + 1]
<1> DEFINE front == SubSeq(s, 1, i - 1)
           back == SubSeq(s, i + 1, Len(s))
<1>1. /\ front \in Seq(S) /\ Len(front) = i - 1
      /\ \A k \in 1..(i - 1) : front[k] = s[k]
  OBVIOUS
<1>2. /\ back \in Seq(S) /\ Len(back) = Len(s) - i
      /\ \A k \in 1..(Len(s) - i) : back[k] = s[k + i]
  OBVIOUS
<1>3. RemoveAt(s, i) = front \o back
  BY DEF RemoveAt
<1> HIDE DEF front, back
<1>4. /\ front \o back \in Seq(S) /\ Len(front \o back) = Len(s) - 1
      /\ \A k \in 1..(Len(s) - 1) :
           (front \o back)[k] = IF k <= i - 1 THEN front[k] ELSE back[k - (i - 1)]
  BY <1>1, <1>2, ConcatProperties
<1>5. ASSUME NEW k \in 1..(Len(s) - 1)
      PROVE  (front \o back)[k] = s[IF k < i THEN k ELSE k + 1]
  <2>1. CASE k < i
    BY <1>1, <1>4, <2>1
  <2>2. CASE ~ (k < i)
    <3>1. k - (i - 1) \in 1..(Len(s) - i) /\ (k - (i - 1)) + i = k + 1
      BY <2>2
    <3>2. (front \o back)[k] = back[k - (i - 1)]
      BY <1>4, <2>2
    <3> QED
      BY <1>2, <2>2, <3>1, <3>2
  <2> QED
    BY <2>1, <2>2
<1> QED
  BY <1>3, <1>4, <1>5

\* The list without one waiter: the others stay, once each and in the same order.
LEMMA RemoveWaiter ==
  ASSUME IInv, NEW i \in 1..Len(list)
  PROVE  LET r == RemoveAt(list, i)
         IN  /\ r \in Seq(Workers) /\ IsInjective(r) /\ Range(r) = linked \ {list[i]}
             /\ \A a, b \in 1..Len(r) : a < b => ticket[r[a]] < ticket[r[b]]
<1> DEFINE r == RemoveAt(list, i)
           was(k) == IF k < i THEN k ELSE k + 1
<1>1. list \in Seq(Workers) /\ Len(list) \in Nat /\ DOMAIN list = 1..Len(list)
  BY DEF IInv, TypeOK
<1>2. /\ r \in Seq(Workers) /\ Len(r) = Len(list) - 1
      /\ \A k \in 1..(Len(list) - 1) : r[k] = list[IF k < i THEN k ELSE k + 1]
  BY <1>1, RemoveAtIs
<1> HIDE DEF r
<1>3. DOMAIN r = 1..Len(r)
  BY <1>2
<1>4. \A k \in 1..Len(r) : was(k) \in 1..Len(list) /\ was(k) # i /\ r[k] = list[was(k)]
  BY <1>1, <1>2
<1>5. \A a, b \in 1..Len(r) : /\ a < b => was(a) < was(b)
                              /\ was(a) = was(b) => a = b
  BY <1>1, <1>2
<1>6. \A a, b \in 1..Len(list) : list[a] = list[b] => a = b
  BY <1>1 DEF IInv, WaitersOnStack, IsInjective
<1>7. linked = {list[k] : k \in 1..Len(list)}
  BY <1>1 DEF IInv, WaitersOnStack, Range
<1>8. IsInjective(r)
  BY <1>3, <1>4, <1>5, <1>6 DEF IsInjective
<1>9. Range(r) = linked \ {list[i]}
  <2>1. ASSUME NEW u \in Range(r)
        PROVE  u \in linked /\ u # list[i]
    <3>1. PICK k \in 1..Len(r) : u = r[k]
      BY <1>3 DEF Range
    <3> QED
      BY <1>4, <1>6, <1>7, <3>1
  <2>2. ASSUME NEW u \in linked, u # list[i]
        PROVE  u \in Range(r)
    <3>1. PICK k \in 1..Len(list) : u = list[k]
      BY <1>7
    <3>2. k # i
      BY <2>2, <3>1
    <3>3. CASE k < i
      <4>1. k \in 1..Len(r) /\ was(k) = k
        BY <1>1, <1>2, <3>3
      <4> QED
        BY <1>3, <1>4, <3>1, <4>1 DEF Range
    <3>4. CASE k > i
      <4>1. k - 1 \in 1..Len(r) /\ was(k - 1) = k
        BY <1>1, <1>2, <3>4
      <4> QED
        BY <1>3, <1>4, <3>1, <4>1 DEF Range
    <3> QED
      BY <3>2, <3>3, <3>4
  <2> QED
    BY <2>1, <2>2
<1>10. \A a, b \in 1..Len(r) : a < b => ticket[r[a]] < ticket[r[b]]
  BY <1>4, <1>5 DEF IInv, TicketInv
<1> QED
  BY <1>2, <1>8, <1>9, <1>10 DEF r

\* A step of one thread that stays outside the critical sections and keeps its waiter,
\* if it has one, as it is.
LEMMA OneThread ==
  ASSUME IInv, TypeOK', NEW t \in Workers, NEW label,
         pc' = [pc EXCEPT ![t] = label],
         {pc[t], label} \cap {"link", "notify"} = {},
         label # "idle" => ptr'[t] \in Cells,
         \A u \in Threads \ {t} : ptr'[u] = ptr[u] /\ v'[u] = v[u] /\ ticket'[u] = ticket[u],
         ticket'[t] <= tickets,
         t \in linked \cup woken => /\ label \in {"asleep", "relock"}
                                    /\ ptr'[t] = ptr[t] /\ v'[t] = v[t] /\ ticket'[t] = ticket[t],
         UNCHANGED <<mem, mutex, list, linked, notifyVars, tickets, changed>>
  PROVE  IInv'
<1>1. t \in Threads /\ pc \in [Threads -> {"idle", "lock", "link", "asleep", "relock", "notify"}]
  BY ThreadKinds DEF IInv, TypeOK
<1>2. pc'[t] = label /\ \A u \in Threads : u # t => pc'[u] = pc[u]
  BY <1>1
<1>3. \A u \in Threads : pc'[u] \in {"link", "notify"} => u # t /\ pc'[u] = pc[u]
  BY <1>2
<1>4. \A u \in Threads : pc[u] \in {"link", "notify"} => u # t /\ pc'[u] = pc[u]
  BY <1>2
<1>5. \A u \in linked \cup woken : /\ u \in Threads
                                   /\ ptr'[u] = ptr[u] /\ v'[u] = v[u] /\ ticket'[u] = ticket[u]
  BY ThreadKinds DEF IInv, TypeOK
<1>6. WaitersOnStack'
  BY <1>2, <1>5 DEF IInv, WaitersOnStack, notifyVars
<1>7. MutexInv'
  BY <1>3, <1>4 DEF IInv, MutexInv
<1>8. ArgsInv'
  BY <1>2, ThreadKinds DEF IInv, ArgsInv
<1>9. TicketInv'
  <2>1. \A u \in Threads : ticket'[u] <= tickets'
    BY DEF IInv, TicketInv
  <2>2. \A i \in 1..Len(list) : list[i] \in linked
    BY DEF IInv, TypeOK, WaitersOnStack, Range
  <2> QED
    BY <1>3, <1>5, <2>1, <2>2 DEF IInv, TicketInv
<1>10. NotifyInv'
  <2>1. (\A u \in Threads : pc'[u] # "notify") => woken' = {}
    BY <1>4 DEF IInv, NotifyInv, notifyVars
  <2>2. ASSUME NEW u \in Threads, pc'[u] = "notify"
        PROVE  /\ Cardinality(woken') <= count'
               /\ \A x \in woken' : ptr'[x] = ptr'[u]
               /\ \A x \in woken', w \in linked' : ptr'[w] = ptr'[u] => ticket'[x] < ticket'[w]
    <3>1. u # t /\ pc[u] = "notify" /\ ptr'[u] = ptr[u]
      BY <1>3, <2>2
    <3> QED
      BY <1>5, <3>1 DEF IInv, NotifyInv, notifyVars
  <2> QED
    BY <2>1, <2>2 DEF NotifyInv
<1>11. SeenInv'
  <2>1. ASSUME NEW u \in Workers, pc'[u] = "link" \/ u \in linked
        PROVE  ptr'[u] = ptr[u] /\ v'[u] = v[u] /\ (pc[u] = "link" \/ u \in linked)
    BY <1>3, <1>5, <2>1, ThreadKinds
  <2> QED
    BY <2>1 DEF IInv, SeenInv
<1> QED
  BY <1>6, <1>7, <1>8, <1>9, <1>10, <1>11 DEF IInv

\* An atomic write: whoever waits for the old value is owed a notification.
LEMMA WriteStep ==
  ASSUME IInv, NEW t \in Threads, NEW c \in Cells, NEW x \in Values, NEW y \in Values,
         NEW op \in {"add", "exchange", "compareExchange"}, Write(t, c, op, x, y)
  PROVE  IInv'
<1>1. /\ mem' = [mem EXCEPT ![c] = NewValue(op, mem[c], x, y)]
      /\ changed' = IF mem'[c] # mem[c] THEN changed \cup {c} ELSE changed
      /\ ops \in Nat /\ ops' = ops + 1
      /\ UNCHANGED <<mutex, listVars, pc, waitVars, notifyVars, result, waits, ticket, tickets>>
  BY DEF Write, IInv, TypeOK
<1>2. mem \in [Cells -> Values] /\ NewValue(op, mem[c], x, y) \in Values
  BY NewValueType DEF IInv, TypeOK
<1>3. TypeOK'
  <2>1. mem' \in [Cells -> Values]
    BY <1>1, <1>2
  <2>2. changed' \subseteq Cells /\ ops' \in Nat
    BY <1>1 DEF IInv, TypeOK
  <2> QED
    BY <1>1, <2>1, <2>2 DEF IInv, TypeOK, listVars, waitVars, notifyVars
<1>4. WaitersOnStack' /\ MutexInv' /\ ArgsInv'
  BY <1>1 DEF IInv, WaitersOnStack, MutexInv, ArgsInv, listVars, waitVars, notifyVars
<1>5. TicketInv' /\ NotifyInv'
  BY <1>1 DEF IInv, TicketInv, NotifyInv, listVars, waitVars, notifyVars
<1>6. SeenInv'
  <2> SUFFICES ASSUME NEW u \in Workers, pc[u] = "link" \/ u \in linked
               PROVE  mem'[ptr[u]] = v[u] \/ ptr[u] \in changed'
    BY <1>1 DEF SeenInv, listVars, waitVars
  <2>1. ptr[u] \in Cells
    BY ThreadKinds DEF IInv, ArgsInv, WaitersOnStack
  <2>2. mem[ptr[u]] = v[u] \/ ptr[u] \in changed
    BY DEF IInv, SeenInv
  <2>3. ptr[u] # c => mem'[ptr[u]] = mem[ptr[u]]
    BY <1>1, <1>2, <2>1
  <2> QED
    BY <1>1, <2>2, <2>3
<1> QED
  BY <1>3, <1>4, <1>5, <1>6 DEF IInv

\* The call of Atomics.wait.
LEMMA WaitCallStep ==
  ASSUME IInv, NEW t \in Workers, NEW c \in Cells, NEW x \in Values, NEW b \in BOOLEAN,
         WaitCall(t, c, x, b)
  PROVE  IInv'
<1>1. /\ pc[t] = "idle" /\ pc' = [pc EXCEPT ![t] = "lock"]
      /\ ptr' = [ptr EXCEPT ![t] = c] /\ v' = [v EXCEPT ![t] = x]
      /\ timed' \in {timed \cup {t}, timed \ {t}}
      /\ result' = [result EXCEPT ![t] = None]
      /\ waits' = waits + 1
      /\ UNCHANGED <<mem, mutex, listVars, notifyVars, ops, historyVars>>
  BY DEF WaitCall
<1>2. t \in Threads
  BY ThreadKinds
<1>3. TypeOK'
  BY <1>1, <1>2 DEF IInv, TypeOK, listVars, notifyVars, historyVars
<1>4. t \notin linked \cup woken
  BY <1>1 DEF IInv, WaitersOnStack
<1>5. /\ ptr'[t] = c /\ ticket' = ticket /\ ticket[t] <= tickets
      /\ \A u \in Threads \ {t} : ptr'[u] = ptr[u] /\ v'[u] = v[u]
  BY <1>1, <1>2 DEF IInv, TypeOK, TicketInv, historyVars
<1> QED
  BY <1>1, <1>3, <1>4, <1>5, OneThread DEF listVars, historyVars

\* The comparison, with the mutex: the call returns, or keeps the mutex and gets the
\* next number.
LEMMA CompareStep ==
  ASSUME IInv, NEW t \in Workers, Compare(t)
  PROVE  IInv'
<1>1. /\ pc[t] = "lock" /\ mutex = {} /\ t \in Threads
      /\ UNCHANGED <<mem, listVars, notifyVars, waits, ops, changed>>
  BY ThreadKinds DEF Compare
<1>2. t \notin linked \cup woken
  BY <1>1 DEF IInv, WaitersOnStack
<1>3. CASE mem[ptr[t]] # v[t]
  <2>1. /\ pc' = [pc EXCEPT ![t] = "idle"] /\ ptr' = [ptr EXCEPT ![t] = None]
        /\ v' = [v EXCEPT ![t] = 0] /\ timed' = timed \ {t}
        /\ ticket' = [ticket EXCEPT ![t] = 0]
        /\ result' = [result EXCEPT ![t] = "not-equal"]
        /\ UNCHANGED <<tickets, mutex>>
    BY <1>3 DEF Compare, Leave
  <2>2. TypeOK'
    BY <1>1, <2>1, ThreadKinds DEF IInv, TypeOK, listVars, notifyVars
  <2>3. /\ ticket'[t] = 0 /\ 0 <= tickets
        /\ \A u \in Threads \ {t} : ptr'[u] = ptr[u] /\ v'[u] = v[u] /\ ticket'[u] = ticket[u]
    BY <1>1, <2>1 DEF IInv, TypeOK
  <2> QED
    BY <1>1, <1>2, <2>1, <2>2, <2>3, OneThread DEF listVars
<1>4. CASE mem[ptr[t]] = v[t]
  <2>1. /\ pc' = [pc EXCEPT ![t] = "link"] /\ mutex' = {t}
        /\ ticket' = [ticket EXCEPT ![t] = tickets + 1] /\ tickets' = tickets + 1
        /\ UNCHANGED <<waitVars, result>>
    BY <1>4 DEF Compare
  <2>2. TypeOK'
    BY <1>1, <2>1 DEF IInv, TypeOK, listVars, waitVars, notifyVars
  <2>3. /\ pc'[t] = "link" /\ \A u \in Threads : u # t => pc'[u] = pc[u]
        /\ ticket'[t] = tickets + 1 /\ \A u \in Threads : u # t => ticket'[u] = ticket[u]
        /\ \A u \in Threads : ticket[u] \in Nat /\ tickets \in Nat /\ ticket[u] <= tickets
    BY <1>1, <2>1 DEF IInv, TypeOK, TicketInv
  <2>4. woken = {} /\ \A u \in Threads : pc[u] \notin {"link", "notify"}
    BY <1>1, MutexFree
  <2>5. WaitersOnStack' /\ MutexInv' /\ ArgsInv'
    <3>1. WaitersOnStack'
      BY <1>1, <1>2, <2>3, ThreadKinds DEF IInv, TypeOK, WaitersOnStack, listVars, notifyVars
    <3>2. MutexInv'
      BY <1>1, <2>1, <2>3, <2>4 DEF MutexInv
    <3>3. ArgsInv'
      BY <1>1, <2>1, <2>3, ThreadKinds DEF IInv, ArgsInv, waitVars
    <3> QED
      BY <3>1, <3>2, <3>3
  <2>6. TicketInv'
    <3>1. \A u \in Threads : ticket'[u] <= tickets'
      BY <2>1, <2>3
    <3>2. \A u \in linked : u \in Threads /\ u # t
      BY <1>2, ThreadKinds DEF IInv, TypeOK
    <3>3. \A i \in 1..Len(list) : list[i] \in linked
      BY DEF IInv, TypeOK, WaitersOnStack, Range
    <3>4. \A i, j \in 1..Len(list) : i < j => ticket'[list[i]] < ticket'[list[j]]
      BY <2>3, <3>2, <3>3 DEF IInv, TicketInv
    <3>5. \A u \in linked : ticket'[u] < ticket'[t]
      BY <2>3, <3>2
    <3>6. \A u \in Threads : pc'[u] = "link" => u = t
      BY <2>3, <2>4
    <3> QED
      BY <1>1, <3>1, <3>4, <3>5, <3>6 DEF TicketInv, listVars
  <2>7. NotifyInv'
    BY <1>1, <2>3, <2>4 DEF NotifyInv, notifyVars
  <2>8. SeenInv'
    BY <1>1, <1>4, <2>1, <2>3, ThreadKinds DEF IInv, SeenInv, listVars, waitVars
  <2> QED
    BY <2>2, <2>5, <2>6, <2>7, <2>8 DEF IInv
<1> QED
  BY <1>3, <1>4

\* The waiter goes to the end of the list, and the mutex is free.
LEMMA LinkStep ==
  ASSUME IInv, NEW t \in Workers, Link(t)
  PROVE  IInv'
<1>1. /\ pc[t] = "link" /\ pc' = [pc EXCEPT ![t] = "asleep"]
      /\ list' = Append(list, t) /\ linked' = linked \cup {t}
      /\ signalled' = signalled \ {t} /\ mutex' = mutex \ {t} /\ t \in Threads
      /\ UNCHANGED <<mem, waitVars, notifyVars, result, waits, ops, historyVars>>
  BY ThreadKinds DEF Link, AddWaiter
<1>2. mutex' = {} /\ \A u \in Threads : u # t => pc[u] \notin {"link", "notify"}
  BY <1>1, MutexHeld
<1>3. /\ pc'[t] = "asleep" /\ \A u \in Threads : u # t => pc'[u] = pc[u]
  BY <1>1 DEF IInv, TypeOK
<1>4. woken = {}
  BY <1>1, <1>2 DEF IInv, NotifyInv
<1>5. t \notin linked /\ \A u \in linked : u \in Threads /\ u # t
  BY <1>1, ThreadKinds DEF IInv, TypeOK, WaitersOnStack
<1>6. /\ list \in Seq(Workers) /\ Len(list) \in Nat /\ DOMAIN list = 1..Len(list)
      /\ list' \in Seq(Workers) /\ Len(list') = Len(list) + 1
      /\ DOMAIN list' = 1..(Len(list) + 1)
      /\ \A i \in 1..Len(list) : list'[i] = list[i]
      /\ list'[Len(list) + 1] = t
  BY <1>1 DEF IInv, TypeOK
<1>7. \A i \in 1..Len(list) : list[i] \in linked
  BY <1>6 DEF IInv, WaitersOnStack, Range
<1>8. TypeOK'
  BY <1>1, <1>6 DEF IInv, TypeOK, waitVars, notifyVars, historyVars
<1>9. WaitersOnStack'
  <2>1. IsInjective(list')
    <3>1. \A i, j \in 1..Len(list) : list[i] = list[j] => i = j
      BY <1>6 DEF IInv, WaitersOnStack, IsInjective
    <3> QED
      BY <1>5, <1>6, <1>7, <3>1 DEF IsInjective
  <2>2. Range(list') = linked'
    <3>1. linked = {list[i] : i \in 1..Len(list)}
      BY <1>6 DEF IInv, WaitersOnStack, Range
    <3>2. Range(list') = {list'[i] : i \in 1..(Len(list) + 1)}
      BY <1>6 DEF Range
    <3> QED
      BY <1>1, <1>6, <3>1, <3>2
  <2>3. \A u \in linked' : pc'[u] \in {"asleep", "relock"}
    BY <1>1, <1>3, <1>5 DEF IInv, WaitersOnStack
  <2> QED
    BY <1>1, <1>4, <2>1, <2>2, <2>3 DEF WaitersOnStack, notifyVars
<1>10. MutexInv' /\ NotifyInv'
  BY <1>1, <1>2, <1>3, <1>4 DEF MutexInv, NotifyInv, notifyVars
<1>11. ArgsInv'
  BY <1>1, <1>3, ThreadKinds DEF IInv, ArgsInv, waitVars
<1>12. TicketInv'
  <2>1. \A u \in linked : ticket[u] < ticket[t]
    BY <1>1 DEF IInv, TicketInv
  <2>2. ASSUME NEW i \in 1..Len(list'), NEW j \in 1..Len(list'), i < j
        PROVE  ticket[list'[i]] < ticket[list'[j]]
    <3>1. i \in 1..Len(list)
      BY <1>6, <2>2
    <3>2. CASE j \in 1..Len(list)
      BY <1>6, <2>2, <3>1, <3>2 DEF IInv, TicketInv
    <3>3. CASE j = Len(list) + 1
      BY <1>6, <1>7, <2>1, <3>1, <3>3
    <3> QED
      BY <1>6, <3>2, <3>3
  <2>3. \A u \in Threads : pc'[u] # "link"
    BY <1>2, <1>3
  <2> QED
    BY <1>1, <2>2, <2>3 DEF IInv, TicketInv, historyVars
<1>13. SeenInv'
  BY <1>1, <1>3, ThreadKinds DEF IInv, SeenInv, waitVars, historyVars
<1> QED
  BY <1>8, <1>9, <1>10, <1>11, <1>12, <1>13 DEF IInv

\* A thread wakes up, for whatever reason; its waiter stays where it is.
LEMMA WakeStep ==
  ASSUME IInv, NEW t \in Workers, NEW why, Wake(t, why)
  PROVE  IInv'
<1>1. /\ pc[t] = "asleep" /\ pc' = [pc EXCEPT ![t] = "relock"] /\ t \in Threads
      /\ result' \in {[result EXCEPT ![t] = "timed-out"], [result EXCEPT ![t] = "ok"]}
      /\ UNCHANGED <<mem, mutex, listVars, waitVars, notifyVars, waits, ops, historyVars>>
  BY ThreadKinds DEF Wake
<1>2. TypeOK'
  BY <1>1 DEF IInv, TypeOK, listVars, waitVars, notifyVars, historyVars
<1>3. ptr[t] \in Cells /\ ticket[t] <= tickets
  BY <1>1 DEF IInv, ArgsInv, TicketInv
<1> QED
  BY <1>1, <1>2, <1>3, OneThread DEF listVars, waitVars, historyVars

\* The wait returns and takes its waiter off the list unless notify has done so.
LEMMA ReturnStep ==
  ASSUME IInv, NEW t \in Workers, Return(t)
  PROVE  IInv'
<1>1. /\ pc[t] = "relock" /\ mutex = {} /\ t \in Threads
      /\ pc' = [pc EXCEPT ![t] = "idle"] /\ ptr' = [ptr EXCEPT ![t] = None]
      /\ v' = [v EXCEPT ![t] = 0] /\ timed' = timed \ {t}
      /\ ticket' = [ticket EXCEPT ![t] = 0]
      /\ list' = Unlink(t) /\ linked' = linked \ {t} /\ signalled' = signalled \ {t}
      /\ UNCHANGED <<mem, mutex, notifyVars, result, waits, ops, tickets, changed>>
  BY ThreadKinds DEF Return, Leave
<1>2. woken = {} /\ \A u \in Threads : pc[u] \notin {"link", "notify"}
  BY <1>1, MutexFree
<1>3. /\ pc'[t] = "idle" /\ \A u \in Threads : u # t => pc'[u] = pc[u]
      /\ ticket'[t] = 0 /\ tickets \in Nat
      /\ \A u \in Threads : u # t => ptr'[u] = ptr[u] /\ v'[u] = v[u] /\ ticket'[u] = ticket[u]
  BY <1>1 DEF IInv, TypeOK
<1>4. /\ list' \in Seq(Workers) /\ IsInjective(list') /\ Range(list') = linked'
      /\ \A a, b \in 1..Len(list') : a < b => ticket[list'[a]] < ticket[list'[b]]
  <2>1. CASE t \in linked
    <3> DEFINE i == CHOOSE k \in 1..Len(list) : list[k] = t
    <3>1. \E k \in 1..Len(list) : list[k] = t
      BY <2>1 DEF IInv, TypeOK, WaitersOnStack, Range
    <3>2. i \in 1..Len(list) /\ list[i] = t
      BY <3>1
    <3>3. list' = RemoveAt(list, i)
      BY <1>1, <2>1 DEF Unlink
    <3> HIDE DEF i
    <3> QED
      BY <1>1, <3>2, <3>3, RemoveWaiter
  <2>2. CASE t \notin linked
    <3>1. list' = list /\ linked' = linked
      BY <1>1, <2>2 DEF Unlink
    <3> QED
      BY <3>1 DEF IInv, TypeOK, WaitersOnStack, TicketInv
  <2> QED
    BY <2>1, <2>2
<1>5. \A u \in linked' : u \in linked /\ u # t /\ u \in Threads
  BY <1>1, ThreadKinds DEF IInv, TypeOK
<1>6. TypeOK'
  <2>1. ptr' \in [Threads -> Cells \cup {None}] /\ v' \in [Threads -> Values]
    BY <1>1, ThreadKinds DEF IInv, TypeOK
  <2>2. /\ pc' \in [Threads -> {"idle", "lock", "link", "asleep", "relock", "notify"}]
        /\ ticket' \in [Threads -> Nat]
    BY <1>1 DEF IInv, TypeOK
  <2>3. linked' \subseteq Workers /\ signalled' \subseteq Workers /\ timed' \subseteq Workers
    BY <1>1 DEF IInv, TypeOK
  <2> QED
    BY <1>1, <1>4, <2>1, <2>2, <2>3 DEF IInv, TypeOK, notifyVars
<1>7. WaitersOnStack'
  BY <1>1, <1>2, <1>3, <1>4, <1>5 DEF IInv, WaitersOnStack, notifyVars
<1>8. MutexInv' /\ NotifyInv'
  BY <1>1, <1>2, <1>3 DEF MutexInv, NotifyInv, notifyVars
<1>9. ArgsInv'
  BY <1>1, <1>3, ThreadKinds DEF IInv, ArgsInv
<1>10. TicketInv'
  <2>1. \A u \in Threads : ticket'[u] <= tickets'
    BY <1>1, <1>3 DEF IInv, TicketInv
  <2>2. \A i \in 1..Len(list') : list'[i] \in linked'
    BY <1>4 DEF Range
  <2>3. \A u \in linked' : ticket'[u] = ticket[u]
    BY <1>3, <1>5
  <2>4. \A u \in Threads : pc'[u] # "link"
    BY <1>2, <1>3
  <2> QED
    BY <1>4, <2>1, <2>2, <2>3, <2>4 DEF TicketInv
<1>11. SeenInv'
  <2>1. ASSUME NEW u \in Workers, pc'[u] = "link" \/ u \in linked'
        PROVE  u \in linked /\ ptr'[u] = ptr[u] /\ v'[u] = v[u]
    BY <1>2, <1>3, <1>5, <2>1, ThreadKinds
  <2> QED
    BY <1>1, <2>1 DEF IInv, SeenInv
<1> QED
  BY <1>6, <1>7, <1>8, <1>9, <1>10, <1>11 DEF IInv

\* Atomics.notify takes the mutex.
LEMMA NotifyStepBegins ==
  ASSUME IInv, NEW t \in Threads, NEW c \in Cells, NEW n \in Counts, Notify(t, c, n)
  PROVE  IInv'
<1>1. /\ pc[t] = "idle" /\ mutex = {} /\ mutex' = {t}
      /\ pc' = [pc EXCEPT ![t] = "notify"] /\ ptr' = [ptr EXCEPT ![t] = c]
      /\ count' = n /\ ops' = ops + 1
      /\ UNCHANGED <<mem, listVars, v, timed, woken, result, waits, historyVars>>
  BY DEF Notify
<1>2. woken = {} /\ \A u \in Threads : pc[u] \notin {"link", "notify"}
  BY <1>1, MutexFree
<1>3. /\ pc'[t] = "notify" /\ ptr'[t] = c
      /\ \A u \in Threads : u # t => pc'[u] = pc[u] /\ ptr'[u] = ptr[u]
  BY <1>1 DEF IInv, TypeOK
<1>4. t \notin linked /\ \A u \in linked : u \in Threads /\ u # t
  BY <1>1, ThreadKinds DEF IInv, TypeOK, WaitersOnStack
<1>5. n \in Nat
  BY CountsAre
<1>6. TypeOK'
  BY <1>1, <1>5 DEF IInv, TypeOK, listVars, historyVars
<1>7. WaitersOnStack'
  BY <1>1, <1>2, <1>3, <1>4 DEF IInv, WaitersOnStack, listVars
<1>8. MutexInv'
  BY <1>1, <1>2, <1>3 DEF MutexInv
<1>9. ArgsInv'
  BY <1>3, ThreadKinds DEF IInv, ArgsInv
<1>10. TicketInv'
  <2>1. \A u \in Threads : pc'[u] # "link"
    BY <1>2, <1>3
  <2> QED
    BY <1>1, <2>1 DEF IInv, TicketInv, listVars, historyVars
<1>11. NotifyInv'
  <2>1. Cardinality({}) = 0
    BY FS_EmptySet
  <2> QED
    BY <1>1, <1>2, <1>3, <1>5, <2>1 DEF NotifyInv
<1>12. SeenInv'
  <2>1. ASSUME NEW u \in Workers, pc'[u] = "link" \/ u \in linked
        PROVE  u \in linked /\ ptr'[u] = ptr[u]
    BY <1>2, <1>3, <1>4, <2>1, ThreadKinds
  <2> QED
    BY <1>1, <2>1 DEF IInv, SeenInv, listVars, historyVars
<1> QED
  BY <1>6, <1>7, <1>8, <1>9, <1>10, <1>11, <1>12 DEF IInv

\* notify moves the first waiter for its cell: it is older than the others.
LEMMA TakeWaiterStep ==
  ASSUME IInv, NEW t \in Threads, TakeWaiter(t)
  PROVE  IInv'
<1>1. /\ pc[t] = "notify" /\ Cardinality(woken) < count
      /\ UNCHANGED <<mem, mutex, signalled, pc, waitVars, count, result, waits, ops, historyVars>>
  BY DEF TakeWaiter
<1>2. PICK i \in Places(t) : /\ \A j \in Places(t) : i <= j
                             /\ list' = RemoveAt(list, i)
                             /\ linked' = linked \ {list[i]}
                             /\ woken' = woken \cup {list[i]}
  BY DEF TakeWaiter
<1> DEFINE x == list[i]
<1>3. /\ i \in 1..Len(list) /\ ptr[x] = ptr[t] /\ Len(list) \in Nat /\ list \in Seq(Workers)
  BY DEF Places, IInv, TypeOK
<1>4. /\ x \in linked /\ x \in Workers /\ x \in Threads /\ x \notin woken
      /\ pc[x] \in {"asleep", "relock"}
  <2>1. x \in linked
    BY <1>3 DEF IInv, WaitersOnStack, Range
  <2> QED
    BY <2>1, ThreadKinds DEF IInv, TypeOK, WaitersOnStack
<1>5. /\ list' \in Seq(Workers) /\ IsInjective(list') /\ Range(list') = linked'
      /\ \A a, b \in 1..Len(list') : a < b => ticket[list'[a]] < ticket[list'[b]]
  BY <1>2, <1>3, RemoveWaiter
<1>6. \A w \in linked' : ptr[w] = ptr[t] => ticket[x] < ticket[w]
  <2> SUFFICES ASSUME NEW w \in linked', ptr[w] = ptr[t]
               PROVE  ticket[x] < ticket[w]
    OBVIOUS
  <2>1. w \in linked /\ w # x
    BY <1>2
  <2>2. PICK j \in 1..Len(list) : list[j] = w
    BY <1>3, <2>1 DEF IInv, WaitersOnStack, Range
  <2>3. j \in Places(t) /\ j # i
    BY <2>1, <2>2 DEF Places
  <2>4. i < j
    BY <1>2, <1>3, <2>3
  <2> QED
    BY <1>3, <2>2, <2>4 DEF IInv, TicketInv
<1> HIDE DEF x
<1>7. linked' \subseteq linked /\ woken' = woken \cup {x}
  BY <1>2 DEF x
<1>8. TypeOK'
  BY <1>1, <1>4, <1>5, <1>7 DEF IInv, TypeOK, waitVars, historyVars
<1>9. WaitersOnStack'
  <2>1. woken' \cap linked' = {}
    BY <1>2, <1>4 DEF IInv, WaitersOnStack, x
  <2> QED
    BY <1>1, <1>4, <1>5, <1>7, <2>1 DEF IInv, WaitersOnStack
<1>10. MutexInv' /\ ArgsInv'
  BY <1>1 DEF IInv, MutexInv, ArgsInv, waitVars
<1>11. TicketInv'
  BY <1>1, <1>5, <1>7 DEF IInv, TicketInv, historyVars
<1>12. NotifyInv'
  <2>1. \A u \in Threads : pc[u] = "notify" => u = t
    BY <1>1, MutexHeld
  <2>2. Cardinality(woken') <= count'
    <3>1. IsFiniteSet(woken)
      BY AtomicsAssumption, FS_Subset DEF IInv, TypeOK
    <3>2. Cardinality(woken') = Cardinality(woken) + 1 /\ Cardinality(woken) \in Nat
      BY <1>4, <1>7, <3>1, FS_AddElement, FS_CardinalityType
    <3>3. count \in Nat /\ count' = count
      BY <1>1 DEF IInv, TypeOK
    <3> QED
      BY <1>1, <3>2, <3>3
  <2>3. \A u \in woken' : ptr[u] = ptr[t]
    BY <1>1, <1>3, <1>7 DEF IInv, NotifyInv, x
  <2>4. \A u \in woken', w \in linked' : ptr[w] = ptr[t] => ticket[u] < ticket[w]
    BY <1>1, <1>6, <1>7 DEF IInv, NotifyInv
  <2> QED
    BY <1>1, <2>1, <2>2, <2>3, <2>4 DEF NotifyInv, waitVars, historyVars
<1>13. SeenInv'
  BY <1>1, <1>7 DEF IInv, SeenInv, waitVars, historyVars
<1> QED
  BY <1>8, <1>9, <1>10, <1>11, <1>12, <1>13 DEF IInv

\* A notify that is to wake all leaves no waiter of its cell on the list.
LEMMA LeavesNone ==
  ASSUME IInv, NEW t \in Threads, NotifyReturns(t), count = Cardinality(Threads),
         NEW u \in linked
  PROVE  ptr[u] # ptr[t]
<1>1. Cardinality(woken) # count
  <2>1. woken \in SUBSET Workers
    BY DEF IInv, TypeOK
  <2>2. /\ Cardinality(woken) \in Nat /\ Cardinality(Threads) \in Nat
        /\ Cardinality(woken) < Cardinality(Threads)
    BY <2>1, CountsAre
  <2> QED
    BY <2>2
<1>2. Places(t) = {}
  BY <1>1 DEF NotifyReturns
<1>3. \E i \in 1..Len(list) : list[i] = u
  BY DEF IInv, TypeOK, WaitersOnStack, Range
<1> QED
  BY <1>2, <1>3 DEF Places

\* notify signals what it has taken and lets the mutex go.
LEMMA NotifyReturnsStep ==
  ASSUME IInv, NEW t \in Threads, NotifyReturns(t)
  PROVE  IInv'
<1>1. /\ pc[t] = "notify"
      /\ signalled' = signalled \cup {u \in woken : pc[u] = "asleep"}
      /\ woken' = {} /\ count' = 0 /\ mutex' = mutex \ {t}
      /\ pc' = [pc EXCEPT ![t] = "idle"] /\ ptr' = [ptr EXCEPT ![t] = None]
      /\ changed' = IF count = Cardinality(Threads) THEN changed \ {ptr[t]} ELSE changed
      /\ UNCHANGED <<mem, list, linked, v, timed, result, waits, ops, ticket, tickets>>
  BY DEF NotifyReturns, Signal
<1>2. mutex' = {} /\ \A u \in Threads : u # t => pc[u] \notin {"link", "notify"}
  BY <1>1, MutexHeld
<1>3. /\ pc'[t] = "idle"
      /\ \A u \in Threads : u # t => pc'[u] = pc[u] /\ ptr'[u] = ptr[u]
  BY <1>1 DEF IInv, TypeOK
<1>4. t \notin linked /\ \A u \in linked : u \in Threads /\ u # t
  BY <1>1, ThreadKinds DEF IInv, TypeOK, WaitersOnStack
<1>5. TypeOK'
  BY <1>1 DEF IInv, TypeOK
<1>6. WaitersOnStack'
  BY <1>1, <1>3, <1>4 DEF IInv, WaitersOnStack
<1>7. MutexInv' /\ NotifyInv'
  BY <1>1, <1>2, <1>3 DEF MutexInv, NotifyInv
<1>8. ArgsInv'
  BY <1>3, ThreadKinds DEF IInv, ArgsInv
<1>9. TicketInv'
  <2>1. \A u \in Threads : pc'[u] # "link"
    BY <1>2, <1>3
  <2> QED
    BY <1>1, <2>1 DEF IInv, TicketInv
<1>10. SeenInv'
  <2>1. ASSUME NEW u \in Workers, pc'[u] = "link" \/ u \in linked
        PROVE  u \in linked /\ ptr'[u] = ptr[u]
    BY <1>2, <1>3, <1>4, <2>1, ThreadKinds
  <2>2. ASSUME NEW u \in linked
        PROVE  ptr[u] \in changed => ptr[u] \in changed'
    BY <1>1, <2>2, LeavesNone
  <2> QED
    BY <1>1, <2>1, <2>2 DEF IInv, SeenInv
<1> QED
  BY <1>5, <1>6, <1>7, <1>8, <1>9, <1>10 DEF IInv

\* At the start no thread is in a call.
LEMMA InitIInv == Init => IInv
<1> SUFFICES ASSUME Init PROVE IInv
  OBVIOUS
<1>1. TypeOK
  BY ThreadKinds DEF Init, TypeOK
<1>2. WaitersOnStack
  BY DEF Init, WaitersOnStack, IsInjective, Range
<1>3. MutexInv /\ ArgsInv
  BY ThreadKinds DEF Init, MutexInv, ArgsInv
<1>4. TicketInv /\ NotifyInv /\ SeenInv
  BY ThreadKinds DEF Init, TicketInv, NotifyInv, SeenInv
<1> QED
  BY <1>1, <1>2, <1>3, <1>4 DEF IInv

\* IInv holds in every state.
THEOREM Inductive == Spec => []IInv
<1>1. IInv /\ [Next]_vars => IInv'
  <2> SUFFICES ASSUME IInv, [Next]_vars PROVE IInv'
    OBVIOUS
  <2>1. ASSUME NEW t \in Threads, NEW c \in Cells, NEW x \in Values, NEW y \in Values,
               \/ Write(t, c, "add", x, y) /\ y = 0
               \/ Write(t, c, "exchange", x, y) /\ y = 0
               \/ Write(t, c, "compareExchange", x, y)
        PROVE  IInv'
    BY <2>1, WriteStep
  <2>2. ASSUME NEW t \in Workers, WaitStep(t) \/ Wake(t, "spurious")
        PROVE  IInv'
    BY <2>2, CompareStep, LinkStep, WakeStep, ReturnStep DEF WaitStep
  <2>3. ASSUME NEW t \in Threads, NotifyStep(t)
        PROVE  IInv'
    BY <2>3, TakeWaiterStep, NotifyReturnsStep DEF NotifyStep
  <2>4. CASE UNCHANGED vars
    <3> USE <2>4 DEF vars, listVars, waitVars, notifyVars, historyVars
    <3>1. TypeOK' /\ MutexInv' /\ ArgsInv'
      BY DEF IInv, TypeOK, MutexInv, ArgsInv
    <3>2. WaitersOnStack' /\ TicketInv' /\ NotifyInv' /\ SeenInv'
      BY DEF IInv, WaitersOnStack, TicketInv, NotifyInv, SeenInv
    <3> QED
      BY <3>1, <3>2 DEF IInv
  <2> QED
    BY <2>1, <2>2, <2>3, <2>4, WaitCallStep, NotifyStepBegins DEF Next
<1> QED
  BY <1>1, InitIInv, PTL DEF Spec

\* Neither list ever holds a waiter whose call has returned, and no waiter is on both:
\* list_del and pthread_cond_signal only touch waiters that exist.
THEOREM WaitersCorrect == Spec => []WaitersOnStack
<1>1. IInv => WaitersOnStack
  BY DEF IInv
<1> QED
  BY <1>1, Inductive, PTL

\* No wake-up is lost between the comparison and the sleep, wherever stores fall.
THEOREM WakeupsCorrect == Spec => []NoLostWakeup
<1>1. IInv => NoLostWakeup
  BY DEF IInv, SeenInv, NoLostWakeup, Asleep
<1> QED
  BY <1>1, Inductive, PTL

\* A thread leaves js_atomics_notify only through its end.
LEMMA LeavesNotify ==
  ASSUME IInv, [Next]_vars, NEW t \in Threads, pc[t] = "notify", pc'[t] # "notify"
  PROVE  NotifyReturns(t)
<1> USE DEF IInv, TypeOK
<1>1. ASSUME NEW u \in Threads, NEW label, pc' = [pc EXCEPT ![u] = label]
      PROVE  u = t
  BY <1>1
<1>2. CASE UNCHANGED pc
  BY <1>2
<1>3. ASSUME NEW u \in Workers, NEW c \in Cells, NEW x \in Values, NEW b \in BOOLEAN,
             WaitCall(u, c, x, b)
      PROVE  FALSE
  BY <1>1, <1>3, ThreadKinds DEF WaitCall
<1>4. ASSUME NEW u \in Workers, Compare(u) \/ Link(u) \/ Return(u) \/ \E why : Wake(u, why)
      PROVE  FALSE
  <2>1. pc[u] \in {"lock", "link", "relock", "asleep"} /\ u \in Threads
    BY <1>4, ThreadKinds DEF Compare, Link, Return, Wake
  <2>2. \E label : pc' = [pc EXCEPT ![u] = label]
    BY <1>4 DEF Compare, Link, Return, Wake, Leave
  <2> QED
    BY <1>1, <2>1, <2>2
<1>5. ASSUME NEW u \in Threads, NEW c \in Cells, NEW n \in Counts, Notify(u, c, n)
      PROVE  FALSE
  BY <1>1, <1>5 DEF Notify
<1>6. ASSUME NEW u \in Threads, NotifyStep(u)
      PROVE  NotifyReturns(t)
  <2>1. CASE TakeWaiter(u)
    BY <1>2, <2>1 DEF TakeWaiter
  <2>2. CASE NotifyReturns(u)
    BY <1>1, <2>2 DEF NotifyReturns
  <2> QED
    BY <1>6, <2>1, <2>2 DEF NotifyStep
<1>7. ASSUME NEW u \in Threads, NEW c \in Cells, NEW x \in Values, NEW y \in Values, NEW op,
             Write(u, c, op, x, y)
      PROVE  UNCHANGED pc
  BY <1>7 DEF Write
<1>8. UNCHANGED vars => UNCHANGED pc
  BY DEF vars
<1> QED
  BY <1>2, <1>3, <1>4, <1>5, <1>6, <1>7, <1>8 DEF Next, WaitStep

\* notify wakes the waiters of its cell in the order in which they began to wait.
THEOREM OrderCorrect == Spec => OldestFirst
<1>1. ASSUME IInv, [Next]_vars
      PROVE  TakesOldest
  <2> SUFFICES ASSUME NEW t \in Threads, pc[t] = "notify", pc'[t] # "notify"
               PROVE  /\ \A u \in woken : ptr[u] = ptr[t]
                      /\ \A w \in linked' : ptr[w] = ptr[t] =>
                           /\ Cardinality(woken) = count
                           /\ \A u \in woken : ticket[u] < ticket[w]
    BY DEF TakesOldest
  <2>1. NotifyReturns(t)
    BY <1>1, LeavesNotify
  <2>2. linked' = linked /\ (Cardinality(woken) = count \/ Places(t) = {})
    BY <2>1 DEF NotifyReturns
  <2>3. \A w \in linked : \E i \in 1..Len(list) : list[i] = w
    BY <1>1 DEF IInv, TypeOK, WaitersOnStack, Range
  <2>4. \A w \in linked : ptr[w] = ptr[t] => Places(t) # {}
    BY <2>3 DEF Places
  <2> QED
    BY <1>1, <2>2, <2>4 DEF IInv, NotifyInv
<1>2. IInv /\ [Next]_vars => [TakesOldest]_vars
  BY <1>1
<1> QED
  BY <1>2, Inductive, PTL DEF Spec, OldestFirst
=============================================================================
