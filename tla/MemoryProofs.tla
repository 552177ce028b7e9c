---------------------------- MODULE MemoryProofs ----------------------------
(***************************************************************************)
(* Proofs about memory: the engine's heap (Heap, first part) and the       *)
(* ArrayBuffers that Buffers are views of (Buffer, second part).  The two  *)
(* specifications are independent; the proofs share facts about sequences. *)
(*                                                                         *)
(* Heap.  HeapInv (in Heap) is inductive.  It says for every value of pc   *)
(* what the counts are: the references held by the objects that the        *)
(* collector has not visited, and those of variables, callbacks and        *)
(* entries.  The phases of the collector (Steady, Decreasing, Scanning,    *)
(* Restoring, Freeing) give it the form each action needs.                 *)
(*                                                                         *)
(* Buffer.  BufferInv says that every view lies in its memory, which has   *)
(* at most MaxSize bytes.  Each operation stores at positions of its own   *)
(* view, and no sum or difference of a copy within its target and from a   *)
(* range that is not reversed wraps around; the encodings are undone group *)
(* by group.                                                               *)
(***************************************************************************)
EXTENDS Heap, Buffer, FiniteSetTheorems, SequenceTheorems, WellFoundedInduction, TLAPS

\* A nonempty set of natural numbers has a least element.
LEMMA LeastIs ==
  ASSUME NEW S \in SUBSET Nat, S # {}
  PROVE  \E n \in S : \A m \in S : n <= m
<1> DEFINE R == OpToRel(<, Nat)
<1>1. IsWellFoundedOn(R, Nat)
  BY NatLessThanWellFounded
<1>2. PICK n \in S : \A m \in S : ~ (<<m, n>> \in R)
  BY <1>1, WFMin
<1>3. \A m \in S : ~ (m < n)
  BY <1>2 DEF OpToRel
<1> QED BY <1>3
-----------------------------------------------------------------------------
(* The lists of objects: sequences without repetition. *)

List(s) == s \in Seq(Objects) /\ IsInjective(s)

LEMMA ShortenedIs ==
  ASSUME NEW S, NEW s \in Seq(S), NEW i \in 1..Len(s)
  PROVE  /\ RemoveAt(s, i) \in Seq(S)
         /\ Len(RemoveAt(s, i)) = Len(s) - 1
         /\ \A k \in 1..(Len(s) - 1) :
              RemoveAt(s, i)[k] = s[IF k < i THEN k ELSE k + 1]
<1> DEFINE front == SubSeq(s, 1, i - 1)
           back == SubSeq(s, i + 1, Len(s))
<1>1. /\ front \in Seq(S) /\ Len(front) = i - 1
      /\ \A k \in 1..(i - 1) : front[k] = s[k]
  OBVIOUS
<1>2. /\ back \in Seq(S) /\ Len(back) = Len(s) - i
      /\ \A k \in 1..(Len(s) - i) : back[k] = s[k + i]
  OBVIOUS
<1>3. RemoveAt(s, i) = front \o back
  BY DEF RemoveAt
<1> HIDE DEF front, back
<1>4. /\ front \o back \in Seq(S) /\ Len(front \o back) = Len(s) - 1
      /\ \A k \in 1..(Len(s) - 1) :
           (front \o back)[k] = IF k <= i - 1 THEN front[k] ELSE back[k - (i - 1)]
  BY <1>1, <1>2, ConcatProperties
<1>5. ASSUME NEW k \in 1..(Len(s) - 1)
      PROVE  (front \o back)[k] = s[IF k < i THEN k ELSE k + 1]
  <2>1. CASE k < i
    BY <1>1, <1>4, <2>1
  <2>2. CASE ~ (k < i)
    BY <1>2, <1>4, <2>2
  <2> QED BY <2>1, <2>2
<1> QED BY <1>3, <1>4, <1>5

\* Where RemoveFirst takes its element from.
LEMMA FirstIs ==
  ASSUME NEW S, NEW s \in Seq(S), NEW e, e \in Range(s)
  PROVE  \E i \in 1..Len(s) : s[i] = e /\ RemoveFirst(s, e) = RemoveAt(s, i)
<1> DEFINE I == {i \in 1..Len(s) : s[i] = e}
<1>1. I \in SUBSET Nat /\ I # {}
  BY DEF Range
<1>2. PICK i \in I : \A m \in I : i <= m
  BY <1>1, LeastIs
<1>3. SelectInSeq(s, LAMBDA v : v = e) = Min(I)
  BY <1>1 DEF SelectInSeq
<1>4. Min(I) \in I
  BY <1>2 DEF Min
<1>5. RemoveFirst(s, e) = RemoveAt(s, Min(I))
  BY <1>1, <1>3 DEF RemoveFirst
<1> QED BY <1>4, <1>5

LEMMA RemovedType ==
  ASSUME NEW S, NEW s \in Seq(S), NEW e
  PROVE  RemoveFirst(s, e) \in Seq(S)
<1>1. CASE e \in Range(s)
  BY <1>1, FirstIs, ShortenedIs
<1>2. CASE e \notin Range(s)
  BY <1>2 DEF RemoveFirst, Range
<1> QED BY <1>1, <1>2

LEMMA RemovedAbsent ==
  ASSUME NEW s \in Seq(Objects), NEW e, e \notin Range(s)
  PROVE  RemoveFirst(s, e) = s
BY DEF RemoveFirst, Range

\* What is left of a list when an object is taken from it.
LEMMA RemovedIs ==
  ASSUME NEW s, List(s), NEW e
  PROVE  List(RemoveFirst(s, e)) /\ Range(RemoveFirst(s, e)) = Range(s) \ {e}
<1>1. CASE e \notin Range(s)
  BY <1>1, RemovedAbsent DEF List
<1>2. CASE e \in Range(s)
  <2>1. s \in Seq(Objects) /\ IsInjective(s)
    BY DEF List
  <2>2. PICK i \in 1..Len(s) : s[i] = e /\ RemoveFirst(s, e) = RemoveAt(s, i)
    BY <1>2, <2>1, FirstIs
  <2> DEFINE r == RemoveAt(s, i)
             was(k) == IF k < i THEN k ELSE k + 1
  <2>3. /\ r \in Seq(Objects) /\ Len(s) \in Nat /\ Len(r) = Len(s) - 1
        /\ \A k \in 1..(Len(s) - 1) : r[k] = s[was(k)]
    BY <2>1, ShortenedIs
  <2> HIDE DEF r
  <2>4. DOMAIN r = 1..Len(r) /\ DOMAIN s = 1..Len(s)
    BY <2>1, <2>3
  <2>5. \A j, k \in 1..Len(s) : s[j] = s[k] => j = k
    BY <2>1, <2>4 DEF IsInjective
  <2>6. ASSUME NEW j \in 1..Len(r), NEW k \in 1..Len(r), r[j] = r[k]
        PROVE  j = k
    <3>1. was(j) \in 1..Len(s) /\ was(k) \in 1..Len(s) /\ s[was(j)] = s[was(k)]
      BY <2>3, <2>6
    <3>2. was(j) = was(k)
      BY <3>1, <2>5
    <3> QED BY <2>3, <3>2
  <2>7. IsInjective(r)
    BY <2>4, <2>6 DEF IsInjective
  <2>8. ASSUME NEW k \in 1..Len(r) PROVE r[k] \in Range(s) \ {e}
    <3>1. was(k) \in 1..Len(s) /\ was(k) # i /\ r[k] = s[was(k)]
      BY <2>3
    <3> QED BY <3>1, <2>4, <2>5, <2>2 DEF Range
  <2>9. ASSUME NEW k \in 1..Len(s), s[k] # e PROVE s[k] \in Range(r)
    <3>1. k # i
      BY <2>2, <2>9
    <3>2. CASE k < i
      <4>1. k \in 1..Len(r) /\ r[k] = s[k]
        BY <2>3, <3>2
      <4> QED BY <4>1, <2>4 DEF Range
    <3>3. CASE k > i
      <4>1. k - 1 \in 1..Len(r) /\ was(k - 1) = k
        BY <2>3, <3>3
      <4>2. r[k - 1] = s[k]
        BY <4>1, <2>3
      <4> QED BY <4>1, <4>2, <2>4 DEF Range
    <3> QED BY <3>1, <3>2, <3>3
  <2>10. Range(r) = Range(s) \ {e}
    BY <2>4, <2>8, <2>9 DEF Range
  <2> QED BY <2>2, <2>3, <2>7, <2>10 DEF List, r
<1> QED BY <1>1, <1>2

LEMMA PrependedIs ==
  ASSUME NEW s, List(s), NEW o \in Objects, o \notin Range(s)
  PROVE  List(<<o>> \o s) /\ Range(<<o>> \o s) = Range(s) \cup {o}
<1> DEFINE t == <<o>> \o s
<1>1. /\ s \in Seq(Objects) /\ Len(s) \in Nat /\ DOMAIN s = 1..Len(s)
      /\ \A j, k \in 1..Len(s) : s[j] = s[k] => j = k
  BY DEF List, IsInjective
<1>2. /\ t \in Seq(Objects) /\ Len(t) = Len(s) + 1 /\ t[1] = o
      /\ \A k \in 1..Len(s) : t[k + 1] = s[k]
  BY <1>1
<1> HIDE DEF t
<1>3. DOMAIN t = 1..Len(t)
  BY <1>2
<1>4. \A k \in 1..Len(t) : k # 1 => k - 1 \in 1..Len(s) /\ t[k] = s[k - 1]
  BY <1>1, <1>2
<1>5. \A k \in 1..Len(s) : s[k] # o
  BY <1>1 DEF Range
<1>6. IsInjective(t)
  <2>1. SUFFICES ASSUME NEW j \in 1..Len(t), NEW k \in 1..Len(t), t[j] = t[k]
                 PROVE  j = k
    BY <1>3 DEF IsInjective
  <2>2. CASE j = 1 \/ k = 1
    BY <2>1, <2>2, <1>2, <1>4, <1>5
  <2>3. CASE j # 1 /\ k # 1
    <3>1. j - 1 = k - 1
      BY <2>1, <2>3, <1>1, <1>4
    <3> QED BY <3>1
  <2> QED BY <2>2, <2>3
<1>7. Range(t) \subseteq Range(s) \cup {o}
  <2>1. ASSUME NEW k \in 1..Len(t) PROVE t[k] \in Range(s) \cup {o}
    <3>1. CASE k = 1
      BY <3>1, <1>2
    <3>2. CASE k # 1
      BY <3>2, <1>1, <1>4 DEF Range
    <3> QED BY <3>1, <3>2
  <2> QED BY <2>1, <1>3 DEF Range
<1>8. Range(s) \cup {o} \subseteq Range(t)
  <2>1. \A k \in 1..Len(s) : k + 1 \in 1..Len(t) /\ t[k + 1] = s[k]
    BY <1>1, <1>2
  <2>2. 1 \in 1..Len(t)
    BY <1>1, <1>2
  <2>3. o \in Range(t)
    BY <2>2, <1>2, <1>3 DEF Range
  <2>4. ASSUME NEW k \in 1..Len(s) PROVE s[k] \in Range(t)
    BY <2>1, <1>3 DEF Range
  <2> QED BY <2>3, <2>4, <1>1 DEF Range
<1> QED BY <1>2, <1>6, <1>7, <1>8 DEF List, t

LEMMA AppendedIs ==
  ASSUME NEW s, List(s), NEW o \in Objects, o \notin Range(s)
  PROVE  /\ List(Append(s, o)) /\ Range(Append(s, o)) = Range(s) \cup {o}
         /\ Len(Append(s, o)) = Len(s) + 1
         /\ \A i \in 1..Len(s) : Append(s, o)[i] = s[i]
<1> DEFINE t == Append(s, o)
<1>1. /\ s \in Seq(Objects) /\ Len(s) \in Nat /\ DOMAIN s = 1..Len(s)
      /\ \A j, k \in 1..Len(s) : s[j] = s[k] => j = k
  BY DEF List, IsInjective
<1>2. /\ t \in Seq(Objects) /\ Len(t) = Len(s) + 1 /\ t[Len(s) + 1] = o
      /\ \A k \in 1..Len(s) : t[k] = s[k]
  BY <1>1
<1> HIDE DEF t
<1>3. DOMAIN t = 1..Len(t)
  BY <1>2
<1>4. \A k \in 1..Len(t) : k = Len(s) + 1 \/ (k \in 1..Len(s) /\ t[k] = s[k])
  BY <1>1, <1>2
<1>5. \A k \in 1..Len(s) : s[k] # o
  BY <1>1 DEF Range
<1>6. IsInjective(t)
  <2>1. SUFFICES ASSUME NEW j \in 1..Len(t), NEW k \in 1..Len(t), t[j] = t[k]
                 PROVE  j = k
    BY <1>3 DEF IsInjective
  <2> QED BY <2>1, <1>1, <1>2, <1>4, <1>5
<1>7. Range(t) = Range(s) \cup {o}
  <2>1. Range(t) \subseteq Range(s) \cup {o}
    BY <1>1, <1>2, <1>3, <1>4 DEF Range
  <2>2. Len(s) + 1 \in 1..Len(t) /\ 1..Len(s) \subseteq 1..Len(t)
    BY <1>1, <1>2
  <2> QED BY <2>1, <2>2, <1>1, <1>2, <1>3 DEF Range
<1> QED BY <1>2, <1>6, <1>7 DEF List, t

LEMMA ListEmpty ==
  ASSUME NEW s, List(s)
  PROVE  s = <<>> <=> Range(s) = {}
<1>1. s \in Seq(Objects) /\ DOMAIN s = 1..Len(s) /\ Len(s) \in Nat
  BY DEF List
<1>2. ASSUME s # <<>> PROVE s[1] \in Range(s)
  <2>1. 1 \in 1..Len(s)
    BY <1>1, <1>2
  <2> QED BY <2>1, <1>1 DEF Range
<1>3. ASSUME s = <<>> PROVE Range(s) = {}
  BY <1>3 DEF Range
<1> QED BY <1>2, <1>3

LEMMA HeadIs ==
  ASSUME NEW s, List(s), s # <<>>
  PROVE  /\ Head(s) \in Objects /\ Head(s) \in Range(s)
         /\ List(Tail(s)) /\ Range(Tail(s)) = Range(s) \ {Head(s)}
<1> DEFINE t == Tail(s)
<1>1. /\ s \in Seq(Objects) /\ Len(s) \in Nat /\ DOMAIN s = 1..Len(s)
      /\ \A j, k \in 1..Len(s) : s[j] = s[k] => j = k
  BY DEF List, IsInjective
<1>2. Len(s) # 0 /\ Head(s) = s[1]
  BY <1>1
<1>3. /\ t \in Seq(Objects) /\ Len(t) = Len(s) - 1
      /\ \A k \in 1..Len(t) : t[k] = s[k + 1]
  BY <1>1, <1>2
<1> HIDE DEF t
<1>4. DOMAIN t = 1..Len(t)
  BY <1>3
<1>5. \A k \in 1..Len(t) : k + 1 \in 1..Len(s) /\ k + 1 # 1
  BY <1>1, <1>2, <1>3
<1>6. IsInjective(t)
  <2>1. SUFFICES ASSUME NEW j \in 1..Len(t), NEW k \in 1..Len(t), t[j] = t[k]
                 PROVE  j = k
    BY <1>4 DEF IsInjective
  <2>2. j + 1 = k + 1
    BY <2>1, <1>1, <1>3, <1>5
  <2> QED BY <2>2
<1>7. 1 \in 1..Len(s)
  BY <1>1, <1>2
<1>8. Range(t) \subseteq Range(s) \ {s[1]}
  BY <1>1, <1>3, <1>4, <1>5, <1>7 DEF Range
<1>9. Range(s) \ {s[1]} \subseteq Range(t)
  <2>1. \A k \in 1..Len(s) : k # 1 => k - 1 \in 1..Len(t) /\ t[k - 1] = s[k]
    BY <1>1, <1>2, <1>3
  <2> QED BY <2>1, <1>1, <1>4 DEF Range
<1>10. s[1] \in Range(s) /\ s[1] \in Objects
  BY <1>7, <1>1 DEF Range
<1> QED BY <1>2, <1>3, <1>6, <1>8, <1>9, <1>10 DEF List, t
-----------------------------------------------------------------------------
(* Counting the references to an object. *)

Is(x, o) == IF x = o THEN 1 ELSE 0
Times(f, P, o) == Cardinality({p \in P : f[p] = o})

\* The number of elements of P that f takes to o is a natural number, and it is not
\* zero if there is one.
LEMMA TimesType ==
  ASSUME NEW P, IsFiniteSet(P), NEW f, NEW o
  PROVE  Times(f, P, o) \in Nat /\ (Times(f, P, o) = 0 <=> \A p \in P : f[p] # o)
<1> DEFINE S == {p \in P : f[p] = o}
<1>1. S \in SUBSET P
  OBVIOUS
<1>2. IsFiniteSet(S)
  BY <1>1, FS_Subset
<1>3. Cardinality(S) \in Nat /\ (Cardinality(S) = 0 <=> S = {})
  BY <1>2, FS_CardinalityType, FS_EmptySet
<1> QED BY <1>3 DEF Times

\* One more element.
LEMMA TimesAdd ==
  ASSUME NEW P, IsFiniteSet(P), NEW f, NEW o, NEW q, q \notin P
  PROVE  Times(f, P \cup {q}, o) = Times(f, P, o) + Is(f[q], o)
<1> DEFINE S == {p \in P : f[p] = o}
           T == {p \in P \cup {q} : f[p] = o}
<1>1. IsFiniteSet(S) /\ q \notin S
  <2>1. S \in SUBSET P
    OBVIOUS
  <2> QED BY <2>1, FS_Subset
<1>2. Cardinality(S) \in Nat /\ Cardinality(S \cup {q}) = Cardinality(S) + 1
  BY <1>1, FS_AddElement, FS_CardinalityType
<1>3. CASE f[q] = o
  <2>1. T = S \cup {q}
    BY <1>3
  <2> QED BY <2>1, <1>2, <1>3 DEF Times, Is
<1>4. CASE f[q] # o
  <2>1. T = S
    BY <1>4
  <2> QED BY <2>1, <1>2, <1>4 DEF Times, Is
<1> QED BY <1>3, <1>4

\* Functions that agree on P.
LEMMA TimesSame ==
  ASSUME NEW P, NEW f, NEW g, NEW o, \A p \in P : f[p] = g[p]
  PROVE  Times(f, P, o) = Times(g, P, o)
<1>1. {p \in P : f[p] = o} = {p \in P : g[p] = o}
  OBVIOUS
<1> QED BY <1>1 DEF Times

\* Elements that f does not take to o do not count.
LEMMA TimesMore ==
  ASSUME NEW P, NEW Q, NEW f, NEW o,
         \A p \in P \ Q : f[p] # o, \A p \in Q \ P : f[p] # o
  PROVE  Times(f, P, o) = Times(f, Q, o)
<1>1. {p \in P : f[p] = o} = {p \in Q : f[p] = o}
  OBVIOUS
<1> QED BY <1>1 DEF Times

\* One element is taken elsewhere.
LEMMA TimesSet ==
  ASSUME NEW P, IsFiniteSet(P), NEW f, NEW g, NEW o, NEW q \in P,
         \A p \in P \ {q} : f[p] = g[p]
  PROVE  Times(g, P, o) = Times(f, P, o) - Is(f[q], o) + Is(g[q], o)
<1> DEFINE Q == P \ {q}
<1>1. IsFiniteSet(Q) /\ q \notin Q /\ P = Q \cup {q}
  BY FS_RemoveElement
<1>2. Times(g, Q, o) = Times(f, Q, o)
  BY TimesSame
<1> HIDE DEF Q
<1>3. Times(f, Q \cup {q}, o) = Times(f, Q, o) + Is(f[q], o)
  BY <1>1, TimesAdd
<1>4. Times(g, Q \cup {q}, o) = Times(g, Q, o) + Is(g[q], o)
  BY <1>1, TimesAdd
<1>5. Times(f, Q, o) \in Nat
  BY <1>1, TimesType
<1>6. Is(f[q], o) \in Nat /\ Is(g[q], o) \in Nat
  BY DEF Is
<1> QED BY <1>1, <1>2, <1>3, <1>4, <1>5, <1>6

\* A subset counts at most as much.
LEMMA TimesLess ==
  ASSUME NEW P, IsFiniteSet(P), NEW Q \in SUBSET P, NEW f, NEW o
  PROVE  Times(f, Q, o) <= Times(f, P, o) /\ Times(f, Q, o) \in Nat
<1> DEFINE S == {p \in P : f[p] = o}
           T == {p \in Q : f[p] = o}
<1>1. S \in SUBSET P /\ T \in SUBSET S /\ T \in SUBSET P
  OBVIOUS
<1>2. IsFiniteSet(S) /\ IsFiniteSet(T)
  BY <1>1, FS_Subset
<1>3. Cardinality(T) <= Cardinality(S) /\ Cardinality(T) \in Nat
  BY <1>1, <1>2, FS_Subset, FS_CardinalityType
<1> QED BY <1>3 DEF Times

\* The held values of the queued callbacks.
LEMMA TimesAppend ==
  ASSUME NEW S, NEW s \in Seq(S), NEW v \in S, NEW o
  PROVE  Times(Append(s, v), DOMAIN Append(s, v), o) = Times(s, DOMAIN s, o) + Is(v, o)
<1> DEFINE t == Append(s, v)
           n == Len(s) + 1
<1>1. /\ Len(s) \in Nat /\ DOMAIN s = 1..Len(s) /\ DOMAIN t = 1..n
      /\ t[n] = v /\ \A i \in 1..Len(s) : t[i] = s[i]
  OBVIOUS
<1> HIDE DEF t
<1>2. DOMAIN t = DOMAIN s \cup {n} /\ n \notin DOMAIN s
  BY <1>1
<1>3. IsFiniteSet(DOMAIN s)
  BY <1>1, FS_Interval
<1> HIDE DEF n
<1>4. Times(t, DOMAIN s \cup {n}, o) = Times(t, DOMAIN s, o) + Is(t[n], o)
  BY <1>2, <1>3, TimesAdd
<1>5. Times(t, DOMAIN s, o) = Times(s, DOMAIN s, o)
  <2>1. \A i \in DOMAIN s : t[i] = s[i]
    BY <1>1
  <2>2. {i \in DOMAIN s : t[i] = o} = {i \in DOMAIN s : s[i] = o}
    BY <2>1
  <2> QED BY <2>2 DEF Times
<1> QED BY <1>1, <1>2, <1>4, <1>5 DEF t

LEMMA TimesTail ==
  ASSUME NEW S, NEW s \in Seq(S), s # <<>>, NEW o
  PROVE  Times(Tail(s), DOMAIN Tail(s), o) = Times(s, DOMAIN s, o) - Is(Head(s), o)
<1> DEFINE t == Tail(s)
           A == {i \in 2..Len(s) : s[i] = o}
           B == {i \in 1..Len(t) : t[i] = o}
<1>1. /\ Len(s) \in Nat /\ Len(s) # 0 /\ DOMAIN s = 1..Len(s) /\ Head(s) = s[1]
      /\ t \in Seq(S) /\ Len(t) = Len(s) - 1 /\ DOMAIN t = 1..Len(t)
      /\ \A i \in 1..Len(t) : t[i] = s[i + 1]
  OBVIOUS
<1> HIDE DEF t
<1>2. IsFiniteSet(2..Len(s)) /\ A \in SUBSET (2..Len(s))
  BY <1>1, FS_Interval
<1>3. IsFiniteSet(A)
  BY <1>2, FS_Subset
<1> DEFINE b == [i \in A |-> i - 1]
<1>4. b \in Bijection(A, B)
  <2>1. ASSUME NEW i \in A PROVE b[i] \in B
    <3>1. i \in 2..Len(s) /\ s[i] = o /\ b[i] = i - 1
      OBVIOUS
    <3>2. i - 1 \in 1..Len(t) /\ (i - 1) + 1 = i
      BY <1>1, <3>1
    <3> QED BY <3>1, <3>2, <1>1
  <2>2. ASSUME NEW i \in A, NEW j \in A, b[i] = b[j] PROVE i = j
    <3>1. i \in 2..Len(s) /\ j \in 2..Len(s) /\ i - 1 = j - 1
      BY <2>2
    <3> QED BY <3>1
  <2>3. ASSUME NEW i \in B PROVE \E j \in A : b[j] = i
    <3>1. i \in 1..Len(t) /\ t[i] = o /\ s[i + 1] = o
      BY <1>1
    <3>2. i + 1 \in A /\ (i + 1) - 1 = i
      BY <3>1, <1>1
    <3> QED BY <3>2
  <2> HIDE DEF A, B
  <2>4. b \in [A -> B]
    BY <2>1
  <2> QED BY <2>2, <2>3, <2>4 DEF Bijection, Injection, Surjection, IsInjective
<1>5. Cardinality(B) = Cardinality(A)
  BY <1>3, <1>4, FS_Bijection DEF ExistsBijection
<1>6. Times(t, DOMAIN t, o) = Times(s, 2..Len(s), o)
  BY <1>1, <1>5 DEF Times
<1>7. 1..Len(s) = (2..Len(s)) \cup {1} /\ 1 \notin 2..Len(s)
  BY <1>1
<1>8. Times(s, (2..Len(s)) \cup {1}, o) = Times(s, 2..Len(s), o) + Is(s[1], o)
  BY <1>2, <1>7, TimesAdd
<1>9. Times(s, 2..Len(s), o) \in Nat /\ Is(s[1], o) \in Nat
  BY <1>2, TimesType DEF Is
<1>10. Times(s, DOMAIN s, o) = Times(s, 2..Len(s), o) + Is(Head(s), o)
  BY <1>1, <1>7, <1>8, Zenon
<1>11. Is(Head(s), o) \in Nat
  BY DEF Is
<1>12. Times(t, DOMAIN t, o) = Times(s, DOMAIN s, o) - Is(Head(s), o)
  <2> HIDE DEF A, B, b
  <2> QED BY <1>6, <1>9, <1>10, <1>11
<1> QED BY <1>12 DEF t
-----------------------------------------------------------------------------
(* The fields of the heap after an update. *)

Fields(g, memory, rc, weak, mark, gc, zero, tmp, faults) ==
  /\ g \in HeapRecord
  /\ g.mem = memory /\ g.rc = rc /\ g.weak = weak /\ g.mark = mark
  /\ g.gc = gc /\ g.zero = zero /\ g.tmp = tmp /\ g.faults = faults

LEMMA PutRc ==
  ASSUME NEW h \in HeapRecord, NEW f \in [Objects -> Int]
  PROVE  Fields([h EXCEPT !.rc = f], h.mem, f, h.weak, h.mark, h.gc, h.zero, h.tmp, h.faults)
BY DEF HeapRecord, Fields

LEMMA PutWeak ==
  ASSUME NEW h \in HeapRecord, NEW f \in [Objects -> Int]
  PROVE  Fields([h EXCEPT !.weak = f], h.mem, h.rc, f, h.mark, h.gc, h.zero, h.tmp, h.faults)
BY DEF HeapRecord, Fields

LEMMA PutMark ==
  ASSUME NEW h \in HeapRecord, NEW f \in [Objects -> {0, 1}]
  PROVE  Fields([h EXCEPT !.mark = f], h.mem, h.rc, h.weak, f, h.gc, h.zero, h.tmp, h.faults)
BY DEF HeapRecord, Fields

LEMMA PutMem ==
  ASSUME NEW h \in HeapRecord, NEW f \in [Objects -> {"free", "object", "husk"}]
  PROVE  Fields([h EXCEPT !.mem = f], f, h.rc, h.weak, h.mark, h.gc, h.zero, h.tmp, h.faults)
BY DEF HeapRecord, Fields

LEMMA IncIs ==
  ASSUME NEW h \in HeapRecord, NEW o \in Objects
  PROVE  Fields([h EXCEPT !.rc[o] = @ + 1], h.mem, [h.rc EXCEPT ![o] = h.rc[o] + 1], h.weak,
                h.mark, h.gc, h.zero, h.tmp, h.faults)
<1> DEFINE f == [h.rc EXCEPT ![o] = h.rc[o] + 1]
<1>1. f \in [Objects -> Int]
  BY DEF HeapRecord
<1>2. [h EXCEPT !.rc[o] = @ + 1] = [h EXCEPT !.rc = f]
  BY DEF HeapRecord
<1> HIDE DEF f
<1>3. Fields([h EXCEPT !.rc = f], h.mem, f, h.weak, h.mark, h.gc, h.zero, h.tmp, h.faults)
  BY <1>1, PutRc
<1> QED BY <1>2, <1>3 DEF f

LEMMA DecIs ==
  ASSUME NEW h \in HeapRecord, NEW o \in Objects
  PROVE  Fields([h EXCEPT !.rc[o] = @ - 1], h.mem, [h.rc EXCEPT ![o] = h.rc[o] - 1], h.weak,
                h.mark, h.gc, h.zero, h.tmp, h.faults)
<1> DEFINE f == [h.rc EXCEPT ![o] = h.rc[o] - 1]
<1>1. f \in [Objects -> Int]
  BY DEF HeapRecord
<1>2. [h EXCEPT !.rc[o] = @ - 1] = [h EXCEPT !.rc = f]
  BY DEF HeapRecord
<1> HIDE DEF f
<1>3. Fields([h EXCEPT !.rc = f], h.mem, f, h.weak, h.mark, h.gc, h.zero, h.tmp, h.faults)
  BY <1>1, PutRc
<1> QED BY <1>2, <1>3 DEF f

LEMMA WeakIncIs ==
  ASSUME NEW h \in HeapRecord, NEW o \in Objects
  PROVE  Fields([h EXCEPT !.weak[o] = @ + 1], h.mem, h.rc, [h.weak EXCEPT ![o] = h.weak[o] + 1],
                h.mark, h.gc, h.zero, h.tmp, h.faults)
<1> DEFINE f == [h.weak EXCEPT ![o] = h.weak[o] + 1]
<1>1. f \in [Objects -> Int]
  BY DEF HeapRecord
<1>2. [h EXCEPT !.weak[o] = @ + 1] = [h EXCEPT !.weak = f]
  BY DEF HeapRecord
<1> HIDE DEF f
<1>3. Fields([h EXCEPT !.weak = f], h.mem, h.rc, f, h.mark, h.gc, h.zero, h.tmp, h.faults)
  BY <1>1, PutWeak
<1> QED BY <1>2, <1>3 DEF f

LEMMA WeakDecIs ==
  ASSUME NEW h \in HeapRecord, NEW o \in Objects
  PROVE  Fields([h EXCEPT !.weak[o] = @ - 1], h.mem, h.rc, [h.weak EXCEPT ![o] = h.weak[o] - 1],
                h.mark, h.gc, h.zero, h.tmp, h.faults)
<1> DEFINE f == [h.weak EXCEPT ![o] = h.weak[o] - 1]
<1>1. f \in [Objects -> Int]
  BY DEF HeapRecord
<1>2. [h EXCEPT !.weak[o] = @ - 1] = [h EXCEPT !.weak = f]
  BY DEF HeapRecord
<1> HIDE DEF f
<1>3. Fields([h EXCEPT !.weak = f], h.mem, h.rc, f, h.mark, h.gc, h.zero, h.tmp, h.faults)
  BY <1>1, PutWeak
<1> QED BY <1>2, <1>3 DEF f

LEMMA TouchIs ==
  ASSUME NEW h \in HeapRecord, NEW o \in Objects, h.mem[o] # "free"
  PROVE  Touch(h, o) = h
BY DEF Touch

LEMMA ReleaseIs ==
  ASSUME NEW h \in HeapRecord, NEW o \in Objects, h.mem[o] # "free"
  PROVE  Fields(Release(h, o), [h.mem EXCEPT ![o] = "free"], h.rc, h.weak,
                h.mark, h.gc, h.zero, h.tmp, h.faults)
<1> DEFINE f == [h.mem EXCEPT ![o] = "free"]
<1>1. f \in [Objects -> {"free", "object", "husk"}]
  BY DEF HeapRecord
<1>2. Release(h, o) = [h EXCEPT !.mem[o] = "free"]
  BY TouchIs DEF Release
<1>3. [h EXCEPT !.mem[o] = "free"] = [h EXCEPT !.mem = f]
  BY DEF HeapRecord
<1> HIDE DEF f
<1>4. Fields([h EXCEPT !.mem = f], f, h.rc, h.weak, h.mark, h.gc, h.zero, h.tmp, h.faults)
  BY <1>1, PutMem
<1> QED BY <1>2, <1>3, <1>4 DEF f

LEMMA UnlistIs ==
  ASSUME NEW h \in HeapRecord, NEW o \in Objects
  PROVE  Fields(Unlist(h, o), h.mem, h.rc, h.weak, h.mark,
                RemoveFirst(h.gc, o), RemoveFirst(h.zero, o), RemoveFirst(h.tmp, o), h.faults)
<1> DEFINE gc == RemoveFirst(h.gc, o)
           zero == RemoveFirst(h.zero, o)
           tmp == RemoveFirst(h.tmp, o)
<1>1. h.gc \in Seq(Objects) /\ h.zero \in Seq(Objects) /\ h.tmp \in Seq(Objects)
  BY DEF HeapRecord
<1>2. gc \in Seq(Objects) /\ zero \in Seq(Objects) /\ tmp \in Seq(Objects)
  BY <1>1, RemovedType
<1>3. Unlist(h, o) = [h EXCEPT !.gc = gc, !.zero = zero, !.tmp = tmp]
  BY DEF Unlist
<1> HIDE DEF gc, zero, tmp
<1>4. Fields([h EXCEPT !.gc = gc, !.zero = zero, !.tmp = tmp],
             h.mem, h.rc, h.weak, h.mark, gc, zero, tmp, h.faults)
  BY <1>2 DEF HeapRecord, Fields
<1> QED BY <1>3, <1>4 DEF gc, zero, tmp

LEMMA ToZeroIs ==
  ASSUME NEW h \in HeapRecord, NEW o \in Objects
  PROVE  Fields([h EXCEPT !.zero = <<o>> \o @, !.mark[o] = 1], h.mem, h.rc, h.weak,
                [h.mark EXCEPT ![o] = 1], h.gc, <<o>> \o h.zero, h.tmp, h.faults)
<1> DEFINE f == [h.mark EXCEPT ![o] = 1]
           z == <<o>> \o h.zero
<1>1. f \in [Objects -> {0, 1}] /\ z \in Seq(Objects)
  BY DEF HeapRecord
<1>2. [h EXCEPT !.zero = <<o>> \o @, !.mark[o] = 1] = [h EXCEPT !.zero = z, !.mark = f]
  BY DEF HeapRecord
<1> HIDE DEF f, z
<1>3. Fields([h EXCEPT !.zero = z, !.mark = f],
             h.mem, h.rc, h.weak, f, h.gc, z, h.tmp, h.faults)
  BY <1>1 DEF HeapRecord, Fields
<1> QED BY <1>2, <1>3 DEF f, z
-----------------------------------------------------------------------------
(* The operations on the heap, outside the removal of cycles. *)

Living(h) == {o \in Objects : h.mem[o] = "object"}

\* What JavaScript operations and free_zero_refcount keep: where each object is follows
\* from its count.
Lists(h) ==
  /\ List(h.gc) /\ List(h.zero) /\ h.tmp = <<>>
  /\ Range(h.gc) = {o \in Living(h) : h.rc[o] > 0}
  /\ Range(h.zero) = {o \in Living(h) : h.rc[o] = 0}
Marks(h) ==
  /\ \A o \in Range(h.gc) : h.mark[o] = 0
  /\ \A o \in Range(h.zero) : h.mark[o] = 1
Husks(h) ==
  /\ \A o \in Objects : h.mem[o] = "free" => h.weak[o] = 0
  /\ \A o \in Objects : h.mem[o] = "husk" => h.rc[o] = 0 /\ h.mark[o] = 0 /\ h.weak[o] > 0
Sound(h) ==
  /\ h \in HeapRecord /\ h.faults = {}
  /\ Lists(h) /\ Marks(h) /\ Husks(h)
  /\ \A o \in Living(h) : h.rc[o] >= 0

LEMMA NoneIsNot == \A x \in Objects : Is(None, x) = 0
BY HeapAssumption DEF Is

\* One more strong reference to an object that has some.
LEMMA DupIs ==
  ASSUME NEW h, Sound(h), NEW o \in MaybeObjects,
         o # None => o \in Living(h) /\ h.rc[o] > 0
  PROVE  LET g == Dup(h, o) IN
         /\ Sound(g) /\ g.weak = h.weak /\ g.mem = h.mem
         /\ \A x \in Objects : g.rc[x] = h.rc[x] + Is(o, x)
<1>1. CASE o = None
  <2>1. Dup(h, o) = h
    BY <1>1 DEF Dup
  <2>2. \A x \in Objects : h.rc[x] \in Int
    BY DEF Sound, HeapRecord
  <2> QED BY <1>1, <2>1, <2>2, NoneIsNot
<1>2. CASE o # None
  <2> DEFINE g == [h EXCEPT !.rc[o] = @ + 1]
  <2>1. o \in Objects /\ h.mem[o] = "object" /\ h.rc[o] > 0
    BY <1>2 DEF Living
  <2>2. Dup(h, o) = g
    BY <1>2, <2>1, TouchIs DEF Dup, Sound
  <2>3. Fields(g, h.mem, [h.rc EXCEPT ![o] = h.rc[o] + 1], h.weak, h.mark, h.gc, h.zero, h.tmp, h.faults)
    BY <2>1, IncIs DEF Sound
  <2> HIDE DEF g
  <2> USE <2>3 DEF Fields
  <2>4. \A x \in Objects : h.rc[x] \in Int /\ g.rc[x] = h.rc[x] + Is(o, x)
    BY <2>1 DEF Sound, HeapRecord, Is
  <2>5. Living(g) = Living(h)
    BY DEF Living
  <2>6. \A x \in Objects : x # o => g.rc[x] = h.rc[x]
    BY <2>4 DEF Is
  <2>7. g.rc[o] > 0
    BY <2>1, <2>4 DEF Is
  <2>8. Lists(g)
    BY <2>1, <2>3, <2>5, <2>6, <2>7 DEF Sound, Lists, Living
  <2>9. Marks(g) /\ Husks(g)
    BY <2>1, <2>3, <2>6 DEF Sound, Marks, Husks
  <2>10. \A x \in Living(g) : g.rc[x] >= 0
    <3> SUFFICES ASSUME NEW x \in Living(h) PROVE g.rc[x] >= 0
      BY <2>5
    <3>1. x \in Objects /\ h.rc[x] >= 0
      BY DEF Sound, Living
    <3> QED BY <3>1, <2>6, <2>7, <2>4
  <2> QED BY <2>2, <2>3, <2>4, <2>8, <2>9, <2>10 DEF Sound
<1> QED BY <1>1, <1>2

\* One strong reference less, of an object that has some.
LEMMA FreeValueIs ==
  ASSUME NEW h, Sound(h), pc # "cycles", NEW o \in MaybeObjects,
         o # None => o \in Living(h) /\ h.rc[o] > 0
  PROVE  LET g == FreeValue(h, o) IN
         /\ Sound(g) /\ g.weak = h.weak /\ g.mem = h.mem
         /\ \A x \in Objects : g.rc[x] = h.rc[x] - Is(o, x)
<1>1. CASE o = None
  <2>1. FreeValue(h, o) = h
    BY <1>1 DEF FreeValue
  <2>2. \A x \in Objects : h.rc[x] \in Int
    BY DEF Sound, HeapRecord
  <2> QED BY <1>1, <2>1, <2>2, NoneIsNot
<1>2. CASE o # None
  <2> DEFINE h1 == [h EXCEPT !.rc[o] = @ - 1]
             g == FreeValue(h, o)
  <2>1. o \in Objects /\ h.mem[o] = "object" /\ h.rc[o] > 0
    BY <1>2 DEF Living
  <2>2. g = IF h1.rc[o] > 0 THEN h1 ELSE [Unlist(h1, o) EXCEPT !.zero = <<o>> \o @, !.mark[o] = 1]
    BY <1>2, <2>1, TouchIs DEF FreeValue, Sound
  <2>0. Fields(h1, h.mem, [h.rc EXCEPT ![o] = h.rc[o] - 1], h.weak, h.mark, h.gc, h.zero, h.tmp, h.faults)
    BY <2>1, DecIs DEF Sound
  <2> HIDE DEF h1
  <2>3. /\ h1 \in HeapRecord
        /\ h1.mem = h.mem /\ h1.weak = h.weak /\ h1.mark = h.mark /\ h1.gc = h.gc
        /\ h1.zero = h.zero /\ h1.tmp = h.tmp /\ h1.faults = h.faults
        /\ h1.rc = [h.rc EXCEPT ![o] = h.rc[o] - 1]
    BY <2>0 DEF Fields
  <2>4. \A x \in Objects : h.rc[x] \in Int /\ h1.rc[x] = h.rc[x] - Is(o, x)
    BY <2>1, <2>3 DEF Sound, HeapRecord, Is
  <2>6. \A x \in Objects : x # o => h1.rc[x] = h.rc[x]
    BY <2>4 DEF Is
  <2>7. h1.rc[o] = h.rc[o] - 1 /\ h.rc[o] \in Int
    BY <2>1, <2>4 DEF Is
  <2>a. CASE h1.rc[o] > 0
    <3>1. g = h1
      BY <2>a, <2>2
    <3> HIDE DEF g
    <3>2. Living(g) = Living(h)
      BY <3>1, <2>3 DEF Living
    <3>3. Lists(g)
      BY <3>1, <2>a, <2>1, <2>3, <3>2, <2>6 DEF Sound, Lists, Living
    <3>4. Marks(g) /\ Husks(g)
      BY <3>1, <2>1, <2>3, <2>6 DEF Sound, Marks, Husks
    <3>5. \A x \in Living(g) : g.rc[x] >= 0
      <4> SUFFICES ASSUME NEW x \in Living(h) PROVE g.rc[x] >= 0
        BY <3>2
      <4>1. x \in Objects /\ h.rc[x] >= 0
        BY DEF Sound, Living
      <4> QED BY <4>1, <3>1, <2>6, <2>a, <2>4, <2>7
    <3> QED BY <2>3, <2>4, <3>1, <3>3, <3>4, <3>5 DEF Sound, g
  <2>b. CASE ~ (h1.rc[o] > 0)
    <3>0. h1.rc[o] = 0
      BY <2>b, <2>7, <2>1
    <3> DEFINE u == Unlist(h1, o)
    <3>1. /\ g = [u EXCEPT !.zero = <<o>> \o @, !.mark[o] = 1]
          /\ Fields(u, h1.mem, h1.rc, h1.weak, h1.mark,
                    RemoveFirst(h1.gc, o), RemoveFirst(h1.zero, o), RemoveFirst(h1.tmp, o), h1.faults)
      BY <2>b, <2>1, <2>2, <2>3, UnlistIs
    <3> HIDE DEF u, g
    <3>2. /\ List(h.gc) /\ List(h.zero) /\ h.tmp = <<>>
          /\ o \in Range(h.gc) /\ o \notin Range(h.zero)
      BY <2>1 DEF Sound, Lists, Living
    <3>3. /\ List(RemoveFirst(h.gc, o)) /\ Range(RemoveFirst(h.gc, o)) = Range(h.gc) \ {o}
          /\ RemoveFirst(h.zero, o) = h.zero /\ RemoveFirst(h.tmp, o) = <<>>
      <4>1. <<>> \in Seq(Objects) /\ o \notin Range(<<>>) /\ h.zero \in Seq(Objects)
        BY <3>2 DEF Range, List
      <4> QED BY <4>1, <3>2, RemovedAbsent, RemovedIs
    <3>4. List(<<o>> \o h.zero) /\ Range(<<o>> \o h.zero) = Range(h.zero) \cup {o}
      BY <2>1, <3>2, PrependedIs
    <3>5. Fields(g, h.mem, h1.rc, h.weak, [h.mark EXCEPT ![o] = 1],
                 RemoveFirst(h.gc, o), <<o>> \o h.zero, <<>>, h.faults)
      <4>1. /\ u \in HeapRecord /\ u.mem = h.mem /\ u.rc = h1.rc /\ u.weak = h.weak /\ u.mark = h.mark
            /\ u.gc = RemoveFirst(h.gc, o) /\ u.zero = h.zero /\ u.tmp = <<>> /\ u.faults = h.faults
        BY <3>1, <3>3, <2>3 DEF Fields
      <4>2. Fields(g, u.mem, u.rc, u.weak, [u.mark EXCEPT ![o] = 1], u.gc, <<o>> \o u.zero, u.tmp, u.faults)
        BY <4>1, <3>1, <2>1, ToZeroIs
      <4> QED BY <4>1, <4>2
    <3> USE DEF Fields
    <3>6. Living(g) = Living(h)
      BY <3>5 DEF Living
    <3>7. Range(g.gc) = Range(h.gc) \ {o} /\ Range(g.zero) = Range(h.zero) \cup {o}
      BY <3>3, <3>4, <3>5
    <3>8. Lists(g)
      <4>1. Range(g.gc) = {x \in Living(g) : g.rc[x] > 0}
        BY <3>7, <3>6, <3>5, <3>0, <2>1, <2>6 DEF Sound, Lists, Living
      <4>2. Range(g.zero) = {x \in Living(g) : g.rc[x] = 0}
        BY <3>7, <3>6, <3>5, <3>0, <2>1, <2>6 DEF Sound, Lists, Living
      <4> QED BY <4>1, <4>2, <3>3, <3>4, <3>5 DEF Lists
    <3>9. Marks(g)
      <4>1. \A x \in Objects : g.mark[x] = IF x = o THEN 1 ELSE h.mark[x]
        BY <3>5, <2>1 DEF Sound, HeapRecord
      <4>2. Range(h.gc) \subseteq Objects /\ Range(h.zero) \subseteq Objects
        BY DEF Sound, Lists, Living
      <4>3. ASSUME NEW x \in Range(g.gc) PROVE g.mark[x] = 0
        BY <4>1, <4>2, <3>7 DEF Sound, Marks
      <4>4. ASSUME NEW x \in Range(g.zero) PROVE g.mark[x] = 1
        BY <4>1, <4>2, <3>7, <2>1 DEF Sound, Marks
      <4> QED BY <4>3, <4>4 DEF Marks
    <3>10. Husks(g)
      <4>1. \A x \in Objects : x # o => g.mark[x] = h.mark[x]
        BY <3>5, <2>1 DEF Sound, HeapRecord
      <4> QED BY <4>1, <3>5, <2>1, <2>6 DEF Sound, Husks
    <3>11. \A x \in Living(g) : g.rc[x] >= 0
      BY <3>6, <3>5, <3>0, <2>6 DEF Sound, Living
    <3>12. \A x \in Objects : g.rc[x] = h.rc[x] - Is(o, x)
      BY <3>5, <2>4
    <3>13. Sound(g)
      BY <3>5, <3>8, <3>9, <3>10, <3>11 DEF Sound
    <3> QED BY <3>5, <3>12, <3>13 DEF g
  <2> QED BY <2>a, <2>b
<1> QED BY <1>1, <1>2

\* One more weak reference to an object or a husk.
LEMMA WeakNewIs ==
  ASSUME NEW h, Sound(h), NEW o \in Objects, h.mem[o] # "free"
  PROVE  LET g == WeakNew(h, o) IN
         /\ Sound(g) /\ g.rc = h.rc /\ g.mem = h.mem
         /\ \A x \in Objects : g.weak[x] = h.weak[x] + Is(o, x)
<1> DEFINE g == [h EXCEPT !.weak[o] = @ + 1]
<1>1. h \in HeapRecord
  BY DEF Sound
<1>2. WeakNew(h, o) = g
  BY <1>1, TouchIs DEF WeakNew
<1>3. Fields(g, h.mem, h.rc, [h.weak EXCEPT ![o] = h.weak[o] + 1], h.mark, h.gc, h.zero, h.tmp, h.faults)
  BY <1>1, WeakIncIs
<1> HIDE DEF g
<1> USE <1>3 DEF Fields
<1>4. \A x \in Objects : h.weak[x] \in Int /\ g.weak[x] = h.weak[x] + Is(o, x)
  BY <1>1 DEF HeapRecord, Is
<1>5. Living(g) = Living(h)
  BY DEF Living
<1>6. Lists(g) /\ Marks(g)
  BY <1>5 DEF Sound, Lists, Marks
<1>7. Husks(g)
  <2>1. \A x \in Objects : g.weak[x] >= h.weak[x] /\ (x # o => g.weak[x] = h.weak[x])
    BY <1>4 DEF Is
  <2>2. ASSUME NEW x \in Objects, g.mem[x] = "free" PROVE g.weak[x] = 0
    <3>1. x # o /\ h.weak[x] = 0
      BY <2>2 DEF Sound, Husks
    <3> QED BY <3>1, <2>1
  <2>3. ASSUME NEW x \in Objects, g.mem[x] = "husk"
        PROVE  g.rc[x] = 0 /\ g.mark[x] = 0 /\ g.weak[x] > 0
    <3>1. h.rc[x] = 0 /\ h.mark[x] = 0 /\ h.weak[x] > 0
      BY <2>3 DEF Sound, Husks
    <3>2. g.weak[x] > 0
      BY <3>1, <2>1, <1>4 DEF Is
    <3> QED BY <3>1, <3>2
  <2> QED BY <2>2, <2>3 DEF Husks
<1>8. Sound(g)
  BY <1>5, <1>6, <1>7 DEF Sound
<1> QED BY <1>2, <1>4, <1>8

(* Weak references, at any time. *)

\* A husk that is not to be swept has a weak reference, and js_weakref_free finds the mark
\* of everything that is still to be freed.
Spared(h) ==
  /\ h \in HeapRecord /\ h.faults = {}
  /\ \A o \in Objects : h.mem[o] = "free" => h.weak[o] = 0
  /\ \A o \in Objects : h.mem[o] = "husk" /\ o \notin Range(h.zero) =>
       h.rc[o] = 0 /\ h.mark[o] = 0 /\ h.weak[o] > 0
  /\ \A o \in Objects : h.mem[o] = "object" \/ o \in Range(h.zero) => h.rc[o] # 0 \/ h.mark[o] = 1

\* Only weak counts differ, and husks that had none left.
Same(h, g) ==
  /\ g.rc = h.rc /\ g.mark = h.mark /\ g.gc = h.gc /\ g.zero = h.zero /\ g.tmp = h.tmp
  /\ \A o \in Objects : h.mem[o] = "object" \/ o \in Range(h.zero) => g.mem[o] = h.mem[o]
  /\ Living(g) = Living(h)

LEMMA WeakFreeIs ==
  ASSUME NEW h, Spared(h), NEW o \in Objects, h.weak[o] > 0
  PROVE  LET g == WeakFree(h, o) IN
         /\ Spared(g) /\ Same(h, g)
         /\ \A x \in Objects : g.weak[x] = h.weak[x] - Is(o, x)
<1> DEFINE h1 == [h EXCEPT !.weak[o] = @ - 1]
           g == WeakFree(h, o)
<1>1. h \in HeapRecord /\ h.mem[o] # "free"
  BY DEF Spared
<1>2. g = IF h1.weak[o] = 0 /\ h1.rc[o] = 0 /\ h1.mark[o] = 0 THEN Release(h1, o) ELSE h1
  BY <1>1, TouchIs DEF WeakFree
<1>0. Fields(h1, h.mem, h.rc, [h.weak EXCEPT ![o] = h.weak[o] - 1], h.mark, h.gc, h.zero, h.tmp, h.faults)
  BY <1>1, WeakDecIs
<1> HIDE DEF h1
<1>3. /\ h1 \in HeapRecord
      /\ h1.mem = h.mem /\ h1.rc = h.rc /\ h1.mark = h.mark /\ h1.gc = h.gc
      /\ h1.zero = h.zero /\ h1.tmp = h.tmp /\ h1.faults = h.faults
  BY <1>0 DEF Fields
<1>4. \A x \in Objects : h.weak[x] \in Int /\ h1.weak[x] = h.weak[x] - Is(o, x)
  BY <1>0, <1>1 DEF HeapRecord, Is, Fields
<1>5. \A x \in Objects : x # o => h1.weak[x] = h.weak[x]
  BY <1>4 DEF Is
<1>6. h1.weak[o] = h.weak[o] - 1
  BY <1>4 DEF Is
<1>a. CASE h1.weak[o] = 0 /\ h1.rc[o] = 0 /\ h1.mark[o] = 0
  <2>1. Fields(g, [h1.mem EXCEPT ![o] = "free"], h1.rc, h1.weak, h1.mark, h1.gc, h1.zero, h1.tmp, h1.faults)
    BY <1>a, <1>1, <1>2, <1>3, ReleaseIs
  <2> HIDE DEF g
  <2>2. /\ g \in HeapRecord
        /\ g.rc = h.rc /\ g.weak = h1.weak /\ g.mark = h.mark /\ g.gc = h.gc
        /\ g.zero = h.zero /\ g.tmp = h.tmp /\ g.faults = h.faults
        /\ g.mem[o] = "free" /\ \A x \in Objects : x # o => g.mem[x] = h.mem[x]
    BY <2>1, <1>1, <1>3 DEF Fields, HeapRecord
  <2>3. h.mem[o] # "object" /\ o \notin Range(h.zero)
    BY <1>a, <1>3 DEF Spared
  <2>4. Same(h, g)
    BY <2>2, <2>3 DEF Living, Same
  <2>5. Spared(g)
    BY <2>2, <2>3, <1>a, <1>5 DEF Spared
  <2> QED BY <2>2, <2>4, <2>5, <1>4 DEF g
<1>b. CASE ~ (h1.weak[o] = 0 /\ h1.rc[o] = 0 /\ h1.mark[o] = 0)
  <2>1. g = h1
    BY <1>b, <1>2
  <2> HIDE DEF g
  <2>2. Same(h, g)
    BY <2>1, <1>3 DEF Living, Same
  <2>3. ASSUME NEW x \in Objects, g.mem[x] = "free" PROVE g.weak[x] = 0
    BY <2>3, <2>1, <1>1, <1>3, <1>5 DEF Spared
  <2>4. ASSUME NEW x \in Objects, g.mem[x] = "husk", x \notin Range(g.zero)
        PROVE  g.rc[x] = 0 /\ g.mark[x] = 0 /\ g.weak[x] > 0
    <3>1. h.rc[x] = 0 /\ h.mark[x] = 0 /\ h.weak[x] > 0
      BY <2>4, <2>1, <1>3 DEF Spared
    <3>2. CASE x # o
      BY <3>1, <3>2, <2>1, <1>3, <1>5
    <3>3. CASE x = o
      <4>1. h1.weak[o] # 0
        BY <1>b, <3>1, <3>3, <1>3
      <4> QED BY <4>1, <3>1, <3>3, <2>1, <1>3, <1>4, <1>6
    <3> QED BY <3>2, <3>3
  <2>5. Spared(g)
    BY <2>1, <2>3, <2>4, <1>3 DEF Spared
  <2> QED BY <2>1, <2>2, <2>5, <1>3, <1>4 DEF g
<1> QED BY <1>a, <1>b

LEMMA SameTwice ==
  ASSUME NEW h, NEW g, NEW k, Same(h, g), Same(g, k)
  PROVE  Same(h, k)
BY DEF Same, Living

\* The second weak reference that an entry has to its key: the token of a registry.
Token(w) == IF kind[w] = "finrec" THEN entry[w].key ELSE None

LEMMA FreeKeyIs ==
  ASSUME NEW h, Spared(h), NEW w \in Objects, HeapTypeOK,
         \A x \in Objects : h.weak[x] >= Is(entry[w].key, x) + Is(Token(w), x)
  PROVE  LET g == FreeKey(h, w) IN
         /\ Spared(g) /\ Same(h, g)
         /\ \A x \in Objects : g.weak[x] = h.weak[x] - Is(entry[w].key, x) - Is(Token(w), x)
<1> DEFINE key == entry[w].key
           g1 == WeakFree(h, key)
<1>1. \A x \in Objects : h.weak[x] \in Int
  BY DEF Spared, HeapRecord
<1>2. key \in MaybeObjects
  BY DEF HeapTypeOK
<1> HIDE DEF key
<1>a. CASE key = None
  <2>1. FreeKey(h, w) = h /\ Token(w) = None
    BY <1>a DEF FreeKey, Token, key
  <2>2. Same(h, h)
    BY DEF Same
  <2> QED BY <1>a, <2>1, <2>2, <1>1, NoneIsNot DEF key
<1>b. CASE key # None
  <2>1. key \in Objects
    BY <1>b, <1>2 DEF MaybeObjects
  <2>2. h.weak[key] >= 1 /\ (kind[w] = "finrec" => h.weak[key] >= 2)
    BY <2>1, <1>1 DEF Is, Token, key
  <2>3. h.weak[key] > 0
    BY <2>1, <2>2, <1>1
  <2>4. /\ Spared(g1) /\ Same(h, g1)
        /\ \A x \in Objects : g1.weak[x] = h.weak[x] - Is(key, x)
    BY <2>1, <2>3, WeakFreeIs
  <2> HIDE DEF g1
  <2>c. CASE kind[w] = "finrec"
    <3>1. FreeKey(h, w) = WeakFree(g1, key) /\ Token(w) = key
      BY <1>b, <2>c DEF FreeKey, Token, key, g1
    <3>2. g1.weak[key] > 0
      BY <2>1, <2>2, <2>4, <2>c, <1>1 DEF Is
    <3>3. LET g == WeakFree(g1, key) IN
          /\ Spared(g) /\ Same(g1, g)
          /\ \A x \in Objects : g.weak[x] = g1.weak[x] - Is(key, x)
      BY <2>1, <2>4, <3>2, WeakFreeIs
    <3>4. Same(h, WeakFree(g1, key))
      BY <3>3, <2>4, SameTwice
    <3> QED BY <3>1, <3>3, <3>4, <2>4 DEF key
  <2>d. CASE kind[w] # "finrec"
    <3>1. FreeKey(h, w) = g1 /\ Token(w) = None
      BY <1>b, <2>d DEF FreeKey, Token, key, g1
    <3>2. \A x \in Objects : g1.weak[x] = h.weak[x] - Is(key, x) - Is(Token(w), x)
      BY <3>1, <2>4, <1>1, NoneIsNot DEF Is
    <3> QED BY <3>1, <3>2, <2>4 DEF key
  <2> QED BY <2>c, <2>d
<1> QED BY <1>a, <1>b

LEMMA SoundSpared ==
  ASSUME NEW h, Sound(h)
  PROVE  Spared(h)
<1>1. \A o \in Objects : h.mem[o] = "object" \/ o \in Range(h.zero) => h.rc[o] # 0 \/ h.mark[o] = 1
  BY DEF Sound, Lists, Living, Marks
<1> QED BY <1>1 DEF Sound, Husks, Spared

LEMMA SoundSame ==
  ASSUME NEW h, NEW g, Sound(h), Spared(g), Same(h, g)
  PROVE  Sound(g)
<1>1. Lists(g) /\ Marks(g)
  BY DEF Sound, Same, Lists, Marks
<1>2. Husks(g)
  BY <1>1 DEF Spared, Husks, Lists, Living
<1>3. \A o \in Living(g) : g.rc[o] >= 0
  BY DEF Sound, Same
<1> QED BY <1>1, <1>2, <1>3 DEF Sound, Spared

LEMMA FreeEntryIs ==
  ASSUME NEW h, Sound(h), pc # "cycles", NEW w \in Objects, HeapTypeOK,
         \A x \in Objects : h.weak[x] >= Is(entry[w].key, x) + Is(Token(w), x),
         entry[w].val # None => entry[w].val \in Living(h) /\ h.rc[entry[w].val] > 0
  PROVE  LET g == FreeEntry(h, w) IN
         /\ Sound(g) /\ Living(g) = Living(h)
         /\ \A x \in Objects : g.rc[x] = h.rc[x] - Is(entry[w].val, x)
         /\ \A x \in Objects : g.weak[x] = h.weak[x] - Is(entry[w].key, x) - Is(Token(w), x)
<1> DEFINE k == FreeKey(h, w)
           g == FreeValue(k, entry[w].val)
<1>0. /\ Spared(k) /\ Same(h, k)
      /\ \A x \in Objects : k.weak[x] = h.weak[x] - Is(entry[w].key, x) - Is(Token(w), x)
  BY SoundSpared, FreeKeyIs
<1>1. /\ Sound(k) /\ k.rc = h.rc /\ Living(k) = Living(h)
      /\ \A x \in Objects : k.weak[x] = h.weak[x] - Is(entry[w].key, x) - Is(Token(w), x)
  BY <1>0, SoundSame DEF Same
<1> HIDE DEF k
<1>2. entry[w].val \in MaybeObjects
  BY DEF HeapTypeOK
<1>3. /\ Sound(g) /\ g.weak = k.weak /\ g.mem = k.mem
      /\ \A x \in Objects : g.rc[x] = k.rc[x] - Is(entry[w].val, x)
  BY <1>1, <1>2, FreeValueIs
<1>4. FreeEntry(h, w) = g
  BY DEF FreeEntry, k
<1> HIDE DEF g
<1>5. Living(g) = Living(k)
  BY <1>3 DEF Living
<1> QED BY <1>1, <1>3, <1>4, <1>5

\* The end of free_object, in free_zero_refcount.
LEMMA DisposeIs ==
  ASSUME NEW h, Sound(h), pc # "cycles", NEW p \in Living(h), h.rc[p] = 0, h.weak[p] >= 0
  PROVE  LET g == Dispose(Unlist(h, p), p) IN
         /\ Sound(g) /\ Living(g) = Living(h) \ {p} /\ g.rc = h.rc /\ g.weak = h.weak
<1> DEFINE u == Unlist(h, p)
           g == Dispose(u, p)
<1>1. h \in HeapRecord /\ p \in Objects /\ h.mem[p] = "object"
  BY DEF Sound, Living
<1>2. p \in Range(h.zero) /\ p \notin Range(h.gc) /\ List(h.gc) /\ List(h.zero) /\ h.tmp = <<>>
  BY <1>1 DEF Sound, Lists, Living
<1>3. /\ RemoveFirst(h.gc, p) = h.gc /\ RemoveFirst(h.tmp, p) = <<>>
      /\ List(RemoveFirst(h.zero, p)) /\ Range(RemoveFirst(h.zero, p)) = Range(h.zero) \ {p}
  <2>1. <<>> \in Seq(Objects) /\ p \notin Range(<<>>) /\ h.gc \in Seq(Objects)
    BY <1>2 DEF Range, List
  <2> QED BY <2>1, <1>2, RemovedAbsent, RemovedIs
<1>4. Fields(u, h.mem, h.rc, h.weak, h.mark,
             RemoveFirst(h.gc, p), RemoveFirst(h.zero, p), RemoveFirst(h.tmp, p), h.faults)
  BY <1>1, UnlistIs
<1> HIDE DEF u
<1>5. /\ u \in HeapRecord /\ u.mem = h.mem /\ u.rc = h.rc /\ u.weak = h.weak /\ u.mark = h.mark
      /\ u.gc = h.gc /\ u.tmp = <<>> /\ u.faults = {}
      /\ List(u.gc) /\ List(u.zero) /\ Range(u.zero) = Range(h.zero) \ {p}
  BY <1>2, <1>3, <1>4 DEF Fields, Sound
<1>6. /\ g \in HeapRecord /\ g.rc = u.rc /\ g.weak = u.weak
      /\ g.gc = u.gc /\ g.zero = u.zero /\ g.tmp = u.tmp /\ g.faults = u.faults
      /\ \A x \in Objects : x # p => g.mem[x] = u.mem[x] /\ g.mark[x] = u.mark[x]
      /\ IF u.weak[p] = 0 THEN g.mem[p] = "free" ELSE g.mem[p] = "husk" /\ g.mark[p] = 0
  <2>1. CASE u.weak[p] = 0
    <3>1. g = Release(u, p)
      BY <2>1 DEF Dispose
    <3>2. Fields(g, [u.mem EXCEPT ![p] = "free"], u.rc, u.weak, u.mark, u.gc, u.zero, u.tmp, u.faults)
      BY <3>1, <1>1, <1>5, ReleaseIs
    <3> HIDE DEF g
    <3> QED BY <3>2, <2>1, <1>1, <1>5 DEF Fields, HeapRecord
  <2>2. CASE u.weak[p] # 0
    <3> DEFINE m == [u.mem EXCEPT ![p] = "husk"]
               k == [u.mark EXCEPT ![p] = 0]
    <3>1. m \in [Objects -> {"free", "object", "husk"}] /\ k \in [Objects -> {0, 1}]
      BY <1>5 DEF HeapRecord
    <3>2. g = [u EXCEPT !.mark[p] = 0, !.mem[p] = "husk"]
      BY <2>2 DEF Dispose
    <3>3. [u EXCEPT !.mark[p] = 0, !.mem[p] = "husk"] = [u EXCEPT !.mark = k, !.mem = m]
      BY <1>5 DEF HeapRecord
    <3> HIDE DEF m, k, g
    <3>4. Fields([u EXCEPT !.mark = k, !.mem = m], m, u.rc, u.weak, k, u.gc, u.zero, u.tmp, u.faults)
      BY <3>1, <1>5 DEF HeapRecord, Fields
    <3>5. Fields(g, m, u.rc, u.weak, k, u.gc, u.zero, u.tmp, u.faults)
      BY <3>2, <3>3, <3>4
    <3>6. /\ \A x \in Objects : x # p => m[x] = u.mem[x] /\ k[x] = u.mark[x]
          /\ m[p] = "husk" /\ k[p] = 0
      BY <1>1, <1>5 DEF HeapRecord, m, k
    <3> QED BY <3>5, <3>6, <2>2 DEF Fields
  <2> QED BY <2>1, <2>2
<1> HIDE DEF g
<1>7. Living(g) = Living(h) \ {p}
  BY <1>5, <1>6 DEF Living
<1>8. Lists(g)
  BY <1>2, <1>5, <1>6, <1>7 DEF Sound, Lists
<1>9. Marks(g)
  <2>1. Range(h.gc) \subseteq Objects \ {p} /\ Range(g.zero) \subseteq Range(h.zero) \ {p}
    BY <1>2, <1>5, <1>6 DEF Sound, Lists, Living
  <2>2. Range(h.zero) \subseteq Objects
    BY DEF Sound, Lists, Living
  <2> QED BY <2>1, <2>2, <1>5, <1>6 DEF Sound, Marks
<1>10. Husks(g)
  <2>1. h.weak[p] \in Int
    BY <1>1 DEF HeapRecord
  <2> QED BY <2>1, <1>5, <1>6 DEF Sound, Husks
<1>11. \A x \in Living(g) : g.rc[x] >= 0
  BY <1>5, <1>6, <1>7 DEF Sound
<1>12. Sound(g)
  BY <1>5, <1>6, <1>8, <1>9, <1>10, <1>11 DEF Sound
<1> QED BY <1>5, <1>6, <1>7, <1>12 DEF g, u
-----------------------------------------------------------------------------
(* What the counts should be, for roots R, jobs J, fields F, entries E and kinds K, when  *)
(* the objects of P are counted.                                                          *)

In(R, o) == IF o \in R THEN 1 ELSE 0
Vals(E) == [p \in Objects |-> E[p].val]
Keys(E) == [p \in Objects |-> E[p].key]
Tokens(E, K) == [p \in Objects |-> IF K[p] = "finrec" THEN E[p].key ELSE None]
RefCount(R, J, F, E, P, o) ==
  In(R, o) + Times(J, DOMAIN J, o) + Times(F, P, o) + Times(Vals(E), P, o)
WeakCount(E, K, o) == Times(Keys(E), Objects, o) + Times(Tokens(E, K), Objects, o)

LEMMA IsType == \A x, o : Is(x, o) \in Nat
BY DEF Is

LEMMA InType == \A R, o : In(R, o) \in Nat
BY DEF In

LEMMA PartFinite ==
  ASSUME NEW P \in SUBSET Objects
  PROVE  IsFiniteSet(P)
BY HeapAssumption, FS_Subset

LEMMA JobsFinite ==
  ASSUME NEW S, NEW J \in Seq(S)
  PROVE  IsFiniteSet(DOMAIN J)
<1>1. DOMAIN J = 1..Len(J) /\ Len(J) \in Nat
  OBVIOUS
<1> QED BY <1>1, FS_Interval

LEMMA RefCountType ==
  ASSUME NEW R, NEW S, NEW J \in Seq(S), NEW F, NEW E, NEW P \in SUBSET Objects, NEW o
  PROVE  /\ RefCount(R, J, F, E, P, o) \in Nat
         /\ RefCount(R, J, F, E, P, o) = 0 =>
              /\ o \notin R /\ o \notin Range(J)
              /\ \A p \in P : F[p] # o /\ E[p].val # o
         /\ RefCount(R, J, F, E, P, o) > 0 =>
              \/ o \in R \/ o \in Range(J)
              \/ \E p \in P : F[p] = o \/ E[p].val = o
<1>1. In(R, o) \in Nat /\ (In(R, o) = 0 <=> o \notin R)
  BY DEF In
<1>2. Times(J, DOMAIN J, o) \in Nat /\ (Times(J, DOMAIN J, o) = 0 <=> o \notin Range(J))
  BY JobsFinite, TimesType DEF Range
<1>3. Times(F, P, o) \in Nat /\ (Times(F, P, o) = 0 <=> \A p \in P : F[p] # o)
  BY PartFinite, TimesType
<1>4. Times(Vals(E), P, o) \in Nat /\ (Times(Vals(E), P, o) = 0 <=> \A p \in P : E[p].val # o)
  <2>1. \A p \in P : Vals(E)[p] = E[p].val
    BY DEF Vals
  <2>2. Times(Vals(E), P, o) \in Nat /\ (Times(Vals(E), P, o) = 0 <=> \A p \in P : Vals(E)[p] # o)
    BY PartFinite, TimesType
  <2> QED BY <2>1, <2>2
<1> DEFINE a == In(R, o)
           b == Times(J, DOMAIN J, o)
           c == Times(F, P, o)
           d == Times(Vals(E), P, o)
<1>5. RefCount(R, J, F, E, P, o) = a + b + c + d
  BY DEF RefCount
<1>6. a \in Nat /\ b \in Nat /\ c \in Nat /\ d \in Nat
  BY <1>1, <1>2, <1>3, <1>4
<1> HIDE DEF a, b, c, d
<1>7. /\ RefCount(R, J, F, E, P, o) \in Nat
      /\ (RefCount(R, J, F, E, P, o) = 0 <=> a = 0 /\ b = 0 /\ c = 0 /\ d = 0)
  BY <1>5, <1>6
<1>8. a = 0 /\ b = 0 /\ c = 0 /\ d = 0 <=>
        o \notin R /\ o \notin Range(J) /\ \A p \in P : F[p] # o /\ E[p].val # o
  BY <1>1, <1>2, <1>3, <1>4 DEF a, b, c, d
<1> QED BY <1>7, <1>8

\* The references of one more object.
LEMMA RefCountAdd ==
  ASSUME NEW R, NEW S, NEW J \in Seq(S), NEW F, NEW E, NEW P \in SUBSET Objects,
         NEW q \in Objects, q \notin P, NEW o
  PROVE  RefCount(R, J, F, E, P \cup {q}, o) =
           RefCount(R, J, F, E, P, o) + Is(F[q], o) + Is(E[q].val, o)
<1>1. Times(F, P \cup {q}, o) = Times(F, P, o) + Is(F[q], o)
  BY PartFinite, TimesAdd
<1>2. Times(Vals(E), P \cup {q}, o) = Times(Vals(E), P, o) + Is(Vals(E)[q], o)
  BY PartFinite, TimesAdd
<1>3. Vals(E)[q] = E[q].val
  BY DEF Vals
<1>4. /\ In(R, o) \in Nat /\ Times(J, DOMAIN J, o) \in Nat
      /\ Times(F, P, o) \in Nat /\ Times(Vals(E), P, o) \in Nat
      /\ Is(F[q], o) \in Nat /\ Is(E[q].val, o) \in Nat
  BY InType, IsType, JobsFinite, PartFinite, TimesType
<1> QED BY <1>1, <1>2, <1>3, <1>4 DEF RefCount

\* Only what the objects of P refer to matters.
LEMMA RefCountSame ==
  ASSUME NEW R, NEW J, NEW F, NEW E, NEW F2, NEW E2, NEW P \in SUBSET Objects, NEW o,
         \A p \in P : F2[p] = F[p] /\ E2[p] = E[p]
  PROVE  RefCount(R, J, F2, E2, P, o) = RefCount(R, J, F, E, P, o)
<1>1. Times(F2, P, o) = Times(F, P, o)
  BY TimesSame
<1>2. \A p \in P : Vals(E2)[p] = Vals(E)[p]
  BY DEF Vals
<1>3. Times(Vals(E2), P, o) = Times(Vals(E), P, o)
  BY <1>2, TimesSame
<1> QED BY <1>1, <1>3 DEF RefCount

\* The references of one object are replaced.
LEMMA RefCountSet ==
  ASSUME NEW R, NEW S, NEW J \in Seq(S), NEW F, NEW E, NEW F2, NEW E2,
         NEW P \in SUBSET Objects, NEW q \in P, NEW o,
         \A p \in P \ {q} : F2[p] = F[p] /\ E2[p] = E[p]
  PROVE  RefCount(R, J, F2, E2, P, o) =
           RefCount(R, J, F, E, P, o) - Is(F[q], o) - Is(E[q].val, o) + Is(F2[q], o) + Is(E2[q].val, o)
<1> DEFINE Q == P \ {q}
<1>1. Q \in SUBSET Objects /\ q \in Objects /\ q \notin Q /\ P = Q \cup {q}
  OBVIOUS
<1>2. RefCount(R, J, F2, E2, Q, o) = RefCount(R, J, F, E, Q, o)
  BY <1>1, RefCountSame
<1> HIDE DEF Q
<1>3. RefCount(R, J, F, E, Q \cup {q}, o) = RefCount(R, J, F, E, Q, o) + Is(F[q], o) + Is(E[q].val, o)
  BY <1>1, RefCountAdd
<1>4. RefCount(R, J, F2, E2, Q \cup {q}, o) = RefCount(R, J, F2, E2, Q, o) + Is(F2[q], o) + Is(E2[q].val, o)
  BY <1>1, RefCountAdd
<1>5. /\ RefCount(R, J, F, E, Q, o) \in Nat
      /\ Is(F[q], o) \in Nat /\ Is(E[q].val, o) \in Nat /\ Is(F2[q], o) \in Nat /\ Is(E2[q].val, o) \in Nat
  BY <1>1, RefCountType, IsType
<1> QED BY <1>1, <1>2, <1>3, <1>4, <1>5

\* The references of one of the objects that are counted.
LEMMA RefCountLeast ==
  ASSUME NEW R, NEW S, NEW J \in Seq(S), NEW F, NEW E, NEW P \in SUBSET Objects, NEW q \in P, NEW o
  PROVE  RefCount(R, J, F, E, P, o) >= Is(F[q], o) + Is(E[q].val, o)
<1> DEFINE Q == P \ {q}
<1>1. Q \in SUBSET Objects /\ q \in Objects /\ q \notin Q /\ P = Q \cup {q}
  OBVIOUS
<1> HIDE DEF Q
<1>2. RefCount(R, J, F, E, Q \cup {q}, o) = RefCount(R, J, F, E, Q, o) + Is(F[q], o) + Is(E[q].val, o)
  BY <1>1, RefCountAdd
<1>3. /\ RefCount(R, J, F, E, Q, o) \in Nat
      /\ Is(F[q], o) \in Nat /\ Is(E[q].val, o) \in Nat
  BY <1>1, RefCountType, IsType
<1> QED BY <1>1, <1>2, <1>3

\* Objects without references to o do not matter.
LEMMA RefCountMore ==
  ASSUME NEW R, NEW J, NEW F, NEW E, NEW P \in SUBSET Objects, NEW Q \in SUBSET Objects, NEW o,
         \A p \in (P \ Q) \cup (Q \ P) : F[p] # o /\ E[p].val # o
  PROVE  RefCount(R, J, F, E, P, o) = RefCount(R, J, F, E, Q, o)
<1>1. Times(F, P, o) = Times(F, Q, o)
  <2>1. \A p \in P \ Q : F[p] # o
    OBVIOUS
  <2>2. \A p \in Q \ P : F[p] # o
    OBVIOUS
  <2> QED BY <2>1, <2>2, TimesMore
<1>2. Times(Vals(E), P, o) = Times(Vals(E), Q, o)
  <2>1. \A p \in P \ Q : Vals(E)[p] # o
    BY DEF Vals
  <2>2. \A p \in Q \ P : Vals(E)[p] # o
    BY DEF Vals
  <2> QED BY <2>1, <2>2, TimesMore
<1> QED BY <1>1, <1>2 DEF RefCount

LEMMA RefCountLess ==
  ASSUME NEW R, NEW S, NEW J \in Seq(S), NEW F, NEW E, NEW P \in SUBSET Objects, NEW Q \in SUBSET P, NEW o
  PROVE  RefCount(R, J, F, E, Q, o) <= RefCount(R, J, F, E, P, o)
<1>1. Times(F, Q, o) <= Times(F, P, o) /\ Times(F, Q, o) \in Nat /\ Times(F, P, o) \in Nat
  BY PartFinite, TimesLess, TimesType
<1>2. /\ Times(Vals(E), Q, o) <= Times(Vals(E), P, o)
      /\ Times(Vals(E), Q, o) \in Nat /\ Times(Vals(E), P, o) \in Nat
  BY PartFinite, TimesLess, TimesType
<1>3. In(R, o) \in Nat /\ Times(J, DOMAIN J, o) \in Nat
  BY InType, JobsFinite, TimesType
<1> QED BY <1>1, <1>2, <1>3 DEF RefCount

LEMMA WeakCountType ==
  ASSUME NEW E, NEW K, NEW o, NEW q \in Objects
  PROVE  /\ WeakCount(E, K, o) \in Nat
         /\ WeakCount(E, K, o) >= Is(E[q].key, o) + Is(Tokens(E, K)[q], o)
<1> DEFINE Q == Objects \ {q}
<1>1. IsFiniteSet(Q) /\ IsFiniteSet(Objects) /\ q \notin Q /\ Objects = Q \cup {q}
  BY PartFinite
<1> HIDE DEF Q
<1>2. /\ Times(Keys(E), Q \cup {q}, o) = Times(Keys(E), Q, o) + Is(Keys(E)[q], o)
      /\ Times(Tokens(E, K), Q \cup {q}, o) = Times(Tokens(E, K), Q, o) + Is(Tokens(E, K)[q], o)
  BY <1>1, TimesAdd
<1>3. /\ Times(Keys(E), Q, o) \in Nat /\ Times(Tokens(E, K), Q, o) \in Nat
      /\ Is(E[q].key, o) \in Nat /\ Is(Tokens(E, K)[q], o) \in Nat
  BY <1>1, TimesType, IsType
<1>4. Keys(E)[q] = E[q].key
  BY DEF Keys
<1>5. /\ Times(Keys(E), Objects, o) = Times(Keys(E), Q, o) + Is(E[q].key, o)
      /\ Times(Tokens(E, K), Objects, o) = Times(Tokens(E, K), Q, o) + Is(Tokens(E, K)[q], o)
  BY <1>1, <1>2, <1>4
<1> QED BY <1>3, <1>5 DEF WeakCount

\* Functions that agree but at q.
But(f, g, q) == \A p \in Objects \ {q} : f[p] = g[p]

\* The entry of one object is replaced.
LEMMA WeakCountSet ==
  ASSUME NEW E, NEW K, NEW E2, NEW K2, NEW o, NEW q \in Objects,
         But(E2, E, q), But(K2, K, q)
  PROVE  WeakCount(E2, K2, o) =
           WeakCount(E, K, o) - Is(E[q].key, o) - Is(Tokens(E, K)[q], o)
             + Is(E2[q].key, o) + Is(Tokens(E2, K2)[q], o)
<1>1. \A p \in Objects \ {q} : Keys(E)[p] = Keys(E2)[p]
  BY DEF Keys, But
<1>2. \A p \in Objects \ {q} : Tokens(E, K)[p] = Tokens(E2, K2)[p]
  BY DEF Tokens, But
<1>3. Times(Keys(E2), Objects, o) = Times(Keys(E), Objects, o) - Is(Keys(E)[q], o) + Is(Keys(E2)[q], o)
  BY <1>1, HeapAssumption, TimesSet
<1>4. Times(Tokens(E2, K2), Objects, o) =
        Times(Tokens(E, K), Objects, o) - Is(Tokens(E, K)[q], o) + Is(Tokens(E2, K2)[q], o)
  BY <1>2, HeapAssumption, TimesSet
<1>5. Keys(E)[q] = E[q].key /\ Keys(E2)[q] = E2[q].key
  BY DEF Keys
<1>6. /\ Times(Keys(E), Objects, o) \in Nat /\ Times(Tokens(E, K), Objects, o) \in Nat
      /\ Is(E[q].key, o) \in Nat /\ Is(E2[q].key, o) \in Nat
      /\ Is(Tokens(E, K)[q], o) \in Nat /\ Is(Tokens(E2, K2)[q], o) \in Nat
  BY HeapAssumption, TimesType, IsType
<1> QED BY <1>3, <1>4, <1>5, <1>6 DEF WeakCount
-----------------------------------------------------------------------------
(* The inductive invariant in these terms. *)

Exact(h, R, J, F, E, K, P) ==
  \A x \in Objects : h.rc[x] = RefCount(R, J, F, E, P, x) /\ h.weak[x] = WeakCount(E, K, x)

\* Every reference leads to an element of L.
Intact(L, R, J, F, E) ==
  /\ R \cup (Range(J) \ {None}) \subseteq L
  /\ \A o \in Objects : {F[o], E[o].val} \ {None} \subseteq L

\* What is not in L has no references.
Bare(L, F, E) == \A o \in Objects \ L : F[o] = None /\ E[o] = NoEntry

LEMMA CountsAre ==
  HeapTypeOK => \A P \in SUBSET Objects : \A o \in Objects :
    BaseRefs(o) + RefsFrom(P, o) = RefCount(roots, jobs, field, entry, P, o)
<1> SUFFICES ASSUME HeapTypeOK, NEW P \in SUBSET Objects, NEW o \in Objects
             PROVE  BaseRefs(o) + RefsFrom(P, o) = RefCount(roots, jobs, field, entry, P, o)
  OBVIOUS
<1>1. Cardinality(roots \cap {o}) = In(roots, o)
  <2>1. CASE o \in roots
    <3>1. roots \cap {o} = {o}
      BY <2>1
    <3> QED BY <3>1, <2>1, FS_Singleton DEF In
  <2>2. CASE o \notin roots
    <3>1. roots \cap {o} = {}
      BY <2>2
    <3> QED BY <3>1, <2>2, FS_EmptySet DEF In
  <2> QED BY <2>1, <2>2
<1>2. Cardinality({p \in P : entry[p].val = o}) = Times(Vals(entry), P, o)
  <2>1. {p \in P : entry[p].val = o} = {p \in P : Vals(entry)[p] = o}
    BY DEF Vals
  <2> QED BY <2>1 DEF Times
<1>3. jobs \in Seq(MaybeObjects)
  BY DEF HeapTypeOK
<1>4. /\ In(roots, o) \in Nat /\ Times(jobs, DOMAIN jobs, o) \in Nat
      /\ Times(field, P, o) \in Nat /\ Times(Vals(entry), P, o) \in Nat
  BY <1>3, InType, JobsFinite, PartFinite, TimesType
<1>5. BaseRefs(o) = In(roots, o) + Times(jobs, DOMAIN jobs, o)
  BY <1>1 DEF BaseRefs, Times
<1>6. RefsFrom(P, o) = Times(field, P, o) + Times(Vals(entry), P, o)
  BY <1>2 DEF RefsFrom, Times
<1> QED BY <1>4, <1>5, <1>6 DEF RefCount

LEMMA WeaksAre ==
  Bare(Living(heap), field, entry) => \A o \in Objects : WeakRefs(o) = WeakCount(entry, kind, o)
<1> SUFFICES ASSUME Bare(Living(heap), field, entry), NEW o \in Objects
             PROVE  WeakRefs(o) = WeakCount(entry, kind, o)
  OBVIOUS
<1>1. Alive = Living(heap)
  BY DEF Alive, Living
<1>2. \A p \in Objects \ Alive : entry[p].key # o
  BY <1>1, HeapAssumption DEF Bare, NoEntry
<1> DEFINE of == {p \in Alive : entry[p].key = o}
<1>3. of = {p \in Objects : Keys(entry)[p] = o}
  BY <1>2 DEF Keys, Alive
<1>4. {p \in of : kind[p] = "finrec"} = {p \in Objects : Tokens(entry, kind)[p] = o}
  BY <1>3, HeapAssumption DEF Tokens, Keys
<1>5. WeakRefs(o) = Cardinality(of) + Cardinality({p \in of : kind[p] = "finrec"})
  BY DEF WeakRefs
<1> HIDE DEF of
<1> QED BY <1>3, <1>4, <1>5 DEF WeakCount, Times

\* While JavaScript runs, while objects without references are freed, and while the weak
\* holders are gone through.
Steady ==
  /\ pc \in {"idle", "drain", "weak"} /\ HeapTypeOK
  /\ Sound(heap) /\ Exact(heap, roots, jobs, field, entry, kind, Objects)
  /\ Intact(Living(heap), roots, jobs, field, entry) /\ Bare(Living(heap), field, entry)
  /\ pc = "idle" => heap.zero = <<>>

LEMMA ExactFrom ==
  HeapInv => Exact(heap, roots, jobs, field, entry, kind, Counted) /\ Bare(Living(heap), field, entry)
             /\ Counted \in SUBSET Objects
<1> SUFFICES ASSUME HeapInv
             PROVE  Exact(heap, roots, jobs, field, entry, kind, Counted) /\ Bare(Living(heap), field, entry)
                    /\ Counted \in SUBSET Objects
  OBVIOUS
<1>1. Counted \in SUBSET Objects
  <2>1. \A i \in DOMAIN heap.gc : heap.gc[i] \in Objects
    BY DEF HeapInv, HeapTypeOK, HeapRecord
  <2>2. \A i \in DOMAIN heap.tmp : heap.tmp[i] \in Objects
    BY DEF HeapInv, HeapTypeOK, HeapRecord
  <2>3. pc = "scan" => \A i \in 1..cursor - 1 : i \in DOMAIN heap.gc
    <3> SUFFICES ASSUME pc = "scan", NEW i \in 1..cursor - 1 PROVE i \in DOMAIN heap.gc
      OBVIOUS
    <3>1. cursor \in 1..Len(heap.gc) + 1 /\ heap.gc \in Seq(Objects)
      BY DEF HeapInv, ListInv, HeapTypeOK, HeapRecord
    <3> QED BY <3>1
  <2>4. pc = "restore" => \A i \in 1..cursor - 1 : i \in DOMAIN heap.tmp
    <3> SUFFICES ASSUME pc = "restore", NEW i \in 1..cursor - 1 PROVE i \in DOMAIN heap.tmp
      OBVIOUS
    <3>1. cursor \in 1..Len(heap.tmp) + 1 /\ heap.tmp \in Seq(Objects)
      BY DEF HeapInv, ListInv, HeapTypeOK, HeapRecord
    <3> QED BY <3>1
  <2> QED BY <2>1, <2>2, <2>3, <2>4 DEF Counted, Range
<1>2. Bare(Living(heap), field, entry)
  BY DEF HeapInv, DeadInv, Bare, Alive, Living
<1>3. \A o \in Objects : WeakRefs(o) = WeakCount(entry, kind, o)
  BY <1>2, WeaksAre
<1>4. \A o \in Objects : BaseRefs(o) + RefsFrom(Counted, o) = RefCount(roots, jobs, field, entry, Counted, o)
  BY <1>1, CountsAre DEF HeapInv
<1> QED BY <1>1, <1>2, <1>3, <1>4 DEF Exact, HeapInv, CountInv

LEMMA SteadyFrom == HeapInv /\ pc \in {"idle", "drain", "weak"} => Steady
<1> SUFFICES ASSUME HeapInv, pc \in {"idle", "drain", "weak"} PROVE Steady
  OBVIOUS
<1>1. Alive = Living(heap) /\ Counted = Objects /\ Kept = Alive
  BY DEF Alive, Living, Counted, Kept
<1>2. Exact(heap, roots, jobs, field, entry, kind, Objects) /\ Bare(Living(heap), field, entry)
  BY <1>1, ExactFrom
<1>3. HeapTypeOK /\ heap \in HeapRecord /\ heap.faults = {} /\ jobs \in Seq(MaybeObjects)
  BY DEF HeapInv, HeapTypeOK, DeadInv
<1>4. List(heap.gc) /\ List(heap.zero) /\ List(heap.tmp)
  BY <1>3 DEF HeapInv, ListInv, List, HeapRecord
<1>5. /\ Range(heap.gc) = {o \in Living(heap) : heap.rc[o] > 0} /\ Marks(heap)
      /\ Range(heap.zero) = {o \in Living(heap) : heap.rc[o] = 0} /\ Range(heap.tmp) = {}
      /\ pc = "idle" => Range(heap.zero) = {}
  BY <1>1 DEF HeapInv, ListInv, Marks
<1>6. heap.tmp = <<>> /\ (pc = "idle" => heap.zero = <<>>)
  BY <1>4, <1>5, ListEmpty
<1>7. Husks(heap)
  BY <1>5 DEF HeapInv, DeadInv, Husks, Living
<1>8. \A o \in Living(heap) : heap.rc[o] >= 0
  <2> SUFFICES ASSUME NEW o \in Objects PROVE heap.rc[o] >= 0
    BY DEF Living
  <2>1. RefCount(roots, jobs, field, entry, Objects, o) \in Nat
    BY <1>3, RefCountType
  <2> QED BY <2>1, <1>2 DEF Exact
<1>9. Sound(heap)
  BY <1>3, <1>4, <1>5, <1>6, <1>7, <1>8 DEF Sound, Lists
<1>10. Intact(Living(heap), roots, jobs, field, entry)
  BY <1>1 DEF HeapInv, RefInv, Closed, Refers, Intact
<1> QED BY <1>2, <1>3, <1>6, <1>9, <1>10 DEF Steady

LEMMA SteadyGives == Steady => HeapInv
<1> SUFFICES ASSUME Steady PROVE HeapInv
  OBVIOUS
<1>1. Alive = Living(heap) /\ Counted = Objects /\ Kept = Alive /\ Alive \subseteq Objects
  BY DEF Alive, Living, Counted, Kept, Steady
<1>2. HeapTypeOK /\ heap \in HeapRecord /\ Bare(Living(heap), field, entry)
  BY DEF Steady, HeapTypeOK
<1>3. CountInv
  <2>1. \A o \in Objects : WeakRefs(o) = WeakCount(entry, kind, o)
    BY <1>2, WeaksAre
  <2>2. \A o \in Objects : BaseRefs(o) + RefsFrom(Objects, o) = RefCount(roots, jobs, field, entry, Objects, o)
    BY <1>2, CountsAre
  <2> QED BY <1>1, <2>1, <2>2 DEF CountInv, Steady, Exact
<1>4. RefInv
  <2>1. pc # "cycles"
    BY DEF Steady
  <2>2. Closed(Alive)
    BY <1>1 DEF Steady, Intact, Closed, Refers
  <2>3. \A o \in Objects : Refers(o) \subseteq Alive
    BY <1>1 DEF Steady, Intact, Refers
  <2> QED BY <1>1, <2>1, <2>2, <2>3 DEF RefInv
<1>5. DeadInv
  BY <1>1, <1>2 DEF Steady, Sound, Husks, Bare, DeadInv
<1>6. ListInv
  <2>1. List(heap.gc) /\ List(heap.zero) /\ heap.tmp = <<>>
    BY DEF Steady, Sound, Lists
  <2>2. List(heap.tmp)
    BY <2>1 DEF List, IsInjective
  <2>3. Range(heap.tmp) = {} /\ (pc = "idle" => Range(heap.zero) = {})
    BY <2>1, <2>2, ListEmpty DEF Steady
  <2> QED BY <1>1, <2>1, <2>2, <2>3 DEF Steady, Sound, Lists, Marks, List, ListInv
<1> QED BY <1>2, <1>3, <1>4, <1>5, <1>6 DEF HeapInv
-----------------------------------------------------------------------------
(* What the program can reach. *)

LEMMA ReachableLeast ==
  ASSUME NEW S \in SUBSET Objects, Closed(S)
  PROVE  Reachable \subseteq S
BY DEF Reachable

LEMMA ReachableClosed ==
  ASSUME roots \subseteq Objects, Range(jobs) \subseteq MaybeObjects,
         \A o \in Objects : Refers(o) \subseteq Objects
  PROVE  Closed(Reachable) /\ Reachable \in SUBSET Objects
<1>1. \A S \in SUBSET Objects : Closed(S) => roots \cup (Range(jobs) \ {None}) \subseteq S
  BY DEF Closed
<1>2. roots \cup (Range(jobs) \ {None}) \subseteq Reachable
  BY <1>1 DEF Reachable, MaybeObjects
<1>3. ASSUME NEW o \in Reachable, NEW x \in Refers(o) PROVE x \in Reachable
  <2>1. x \in Objects /\ o \in Objects
    BY DEF Reachable
  <2>2. ASSUME NEW S \in SUBSET Objects, Closed(S) PROVE x \in S
    BY <2>2, ReachableLeast DEF Closed
  <2> QED BY <2>1, <2>2 DEF Reachable
<1>4. Reachable \in SUBSET Objects
  BY DEF Reachable
<1> QED BY <1>2, <1>3, <1>4 DEF Closed

\* In a steady state every object that is referred to is there, with a count.
LEMMA SteadyCounts ==
  ASSUME Steady
  PROVE  /\ \A x \in Objects : heap.rc[x] \in Nat /\ heap.weak[x] \in Nat
         /\ \A x \in roots : x \in Living(heap) /\ heap.rc[x] > 0
         /\ \A x \in Range(jobs) \ {None} : x \in Living(heap) /\ heap.rc[x] > 0
         /\ \A p \in Objects : \A x \in Refers(p) : x \in Living(heap) /\ heap.rc[x] > 0
<1>1. jobs \in Seq(MaybeObjects)
  BY DEF Steady, HeapTypeOK
<1>2. ASSUME NEW x \in Objects PROVE heap.rc[x] \in Nat /\ heap.weak[x] \in Nat
  <2>1. RefCount(roots, jobs, field, entry, Objects, x) \in Nat
    BY <1>1, RefCountType
  <2>2. WeakCount(entry, kind, x) \in Nat
    BY WeakCountType
  <2> QED BY <2>1, <2>2 DEF Steady, Exact
<1>3. ASSUME NEW x \in Objects, heap.rc[x] = 0
      PROVE  x \notin roots /\ x \notin Range(jobs) /\ \A p \in Objects : x \notin Refers(p)
  <2>1. RefCount(roots, jobs, field, entry, Objects, x) = 0
    BY <1>3 DEF Steady, Exact
  <2>2. x \notin roots /\ x \notin Range(jobs) /\ \A p \in Objects : field[p] # x /\ entry[p].val # x
    BY <1>1, <2>1, RefCountType
  <2> QED BY <2>2 DEF Refers
<1>4. Living(heap) \subseteq Objects
  BY DEF Living
<1>5. /\ roots \subseteq Living(heap) /\ Range(jobs) \ {None} \subseteq Living(heap)
      /\ \A p \in Objects : Refers(p) \subseteq Living(heap)
  BY DEF Steady, Intact, Refers
<1>6. \A x \in Objects : heap.rc[x] # 0 => heap.rc[x] > 0
  BY <1>2
<1> QED BY <1>2, <1>3, <1>4, <1>5, <1>6

LEMMA SteadyReach ==
  ASSUME Steady
  PROVE  \A o \in Reachable : o \in Living(heap) /\ heap.rc[o] > 0
<1> DEFINE S == {o \in Living(heap) : heap.rc[o] > 0}
<1>1. S \in SUBSET Objects
  BY DEF Living
<1>2. Closed(S)
  BY <1>1, SteadyCounts DEF Closed
<1>3. Reachable \subseteq S
  <2> HIDE DEF S
  <2> QED BY <1>1, <1>2, ReachableLeast
<1> QED BY <1>3
-----------------------------------------------------------------------------
(* The operations of JavaScript. *)

LEMMA RootsAdd ==
  ASSUME NEW R, NEW q, q \notin R, NEW S, NEW J \in Seq(S), NEW F, NEW E, NEW P \in SUBSET Objects, NEW o
  PROVE  RefCount(R \cup {q}, J, F, E, P, o) = RefCount(R, J, F, E, P, o) + Is(q, o)
<1>1. In(R \cup {q}, o) = In(R, o) + Is(q, o)
  BY DEF In, Is
<1>2. /\ In(R, o) \in Nat /\ Is(q, o) \in Nat /\ Times(J, DOMAIN J, o) \in Nat
      /\ Times(F, P, o) \in Nat /\ Times(Vals(E), P, o) \in Nat
  BY InType, IsType, JobsFinite, PartFinite, TimesType
<1> QED BY <1>1, <1>2 DEF RefCount

LEMMA RootsDrop ==
  ASSUME NEW R, NEW q, q \in R, NEW S, NEW J \in Seq(S), NEW F, NEW E, NEW P \in SUBSET Objects, NEW o
  PROVE  RefCount(R \ {q}, J, F, E, P, o) = RefCount(R, J, F, E, P, o) - Is(q, o)
<1>1. In(R \ {q}, o) = In(R, o) - Is(q, o)
  BY DEF In, Is
<1>2. /\ In(R, o) \in Nat /\ Is(q, o) \in Nat /\ Times(J, DOMAIN J, o) \in Nat
      /\ Times(F, P, o) \in Nat /\ Times(Vals(E), P, o) \in Nat
  BY InType, IsType, JobsFinite, PartFinite, TimesType
<1> QED BY <1>1, <1>2 DEF RefCount

LEMMA JobsPush ==
  ASSUME NEW R, NEW S, NEW J \in Seq(S), NEW v \in S, NEW F, NEW E, NEW P \in SUBSET Objects, NEW o
  PROVE  RefCount(R, Append(J, v), F, E, P, o) = RefCount(R, J, F, E, P, o) + Is(v, o)
<1>1. Times(Append(J, v), DOMAIN Append(J, v), o) = Times(J, DOMAIN J, o) + Is(v, o)
  BY TimesAppend
<1>2. /\ In(R, o) \in Nat /\ Is(v, o) \in Nat /\ Times(J, DOMAIN J, o) \in Nat
      /\ Times(F, P, o) \in Nat /\ Times(Vals(E), P, o) \in Nat
  BY InType, IsType, JobsFinite, PartFinite, TimesType
<1> QED BY <1>1, <1>2 DEF RefCount

LEMMA JobsPop ==
  ASSUME NEW R, NEW S, NEW J \in Seq(S), J # <<>>, NEW F, NEW E, NEW P \in SUBSET Objects, NEW o
  PROVE  RefCount(R, Tail(J), F, E, P, o) = RefCount(R, J, F, E, P, o) - Is(Head(J), o)
<1>1. Times(Tail(J), DOMAIN Tail(J), o) = Times(J, DOMAIN J, o) - Is(Head(J), o)
  BY TimesTail
<1>2. /\ In(R, o) \in Nat /\ Is(Head(J), o) \in Nat /\ Times(J, DOMAIN J, o) \in Nat
      /\ Times(F, P, o) \in Nat /\ Times(Vals(E), P, o) \in Nat
  BY InType, IsType, JobsFinite, PartFinite, TimesType
<1> QED BY <1>1, <1>2 DEF RefCount

\* The type of everything but the heap and the program counter.
RefTypes ==
  /\ kind \in [Objects -> Kinds] /\ field \in [Objects -> MaybeObjects]
  /\ entry \in [Objects -> [key : MaybeObjects, val : MaybeObjects]]
  /\ roots \subseteq Objects /\ jobs \in Seq(MaybeObjects) /\ weakList \in Seq(Objects)

LEMMA LeavesSteady ==
  ASSUME Steady, Running, NEW h, Leaves(h), Sound(h), RefTypes',
         Exact(h, roots', jobs', field', entry', kind', Objects),
         Intact(Living(h), roots', jobs', field', entry'), Bare(Living(h), field', entry')
  PROVE  Steady'
<1>1. heap' = h /\ pc' \in {"idle", "drain"} /\ (pc' = "idle" => h.zero = <<>>)
  BY DEF Leaves
<1>2. after' = after /\ cursor' = cursor /\ after = "idle" /\ cursor \in Nat
  BY DEF Leaves, Steady, HeapTypeOK, Running
<1>3. HeapTypeOK'
  BY <1>1, <1>2 DEF RefTypes, HeapTypeOK, PCs, Sound
<1> QED BY <1>1, <1>3 DEF Steady

LEMMA HoldSteady ==
  ASSUME Steady, NEW o \in Objects, o \notin roots, o \in Living(heap), heap.rc[o] > 0,
         Running, roots' = roots \cup {o}, Leaves(Dup(heap, o)),
         UNCHANGED <<kind, field, entry, jobs, weakList>>
  PROVE  Steady'
<1> DEFINE g == Dup(heap, o)
<1>1. /\ Sound(g) /\ g.weak = heap.weak /\ g.mem = heap.mem
      /\ \A x \in Objects : g.rc[x] = heap.rc[x] + Is(o, x)
  BY DupIs DEF Steady, MaybeObjects
<1> HIDE DEF g
<1>2. Living(g) = Living(heap)
  BY <1>1 DEF Living
<1>3. RefTypes'
  BY DEF Steady, HeapTypeOK, RefTypes
<1>4. Exact(g, roots', jobs', field', entry', kind', Objects)
  <2> SUFFICES ASSUME NEW x \in Objects
               PROVE  /\ g.rc[x] = RefCount(roots \cup {o}, jobs, field, entry, Objects, x)
                      /\ g.weak[x] = WeakCount(entry, kind, x)
    BY DEF Exact
  <2>1. RefCount(roots \cup {o}, jobs, field, entry, Objects, x)
          = RefCount(roots, jobs, field, entry, Objects, x) + Is(o, x)
    BY RootsAdd DEF Steady, HeapTypeOK
  <2> QED BY <2>1, <1>1 DEF Steady, Exact
<1>5. Intact(Living(g), roots', jobs', field', entry') /\ Bare(Living(g), field', entry')
  BY <1>2 DEF Steady, Intact, Bare
<1> QED BY <1>1, <1>3, <1>4, <1>5, LeavesSteady DEF g

LEMMA HoldOK ==
  ASSUME Steady, NEW o \in Objects, Hold(o)
  PROVE  Steady'
BY SteadyReach, HoldSteady DEF Hold

LEMMA DerefOK ==
  ASSUME Steady, NEW o \in Objects, Deref(o)
  PROVE  Steady'
<1> DEFINE k == entry[o].key
<1>1. /\ k # None /\ k \notin roots /\ heap.rc[k] # 0 /\ Running
      /\ roots' = roots \cup {k} /\ Leaves(Dup(heap, k))
      /\ UNCHANGED <<kind, field, entry, jobs, weakList>>
  BY DEF Deref
<1>2. k \in Objects
  BY <1>1 DEF Steady, HeapTypeOK, MaybeObjects
<1> HIDE DEF k
<1>3. heap.rc[k] > 0
  BY <1>1, <1>2, SteadyCounts
<1>4. k \in Living(heap)
  <2>1. SUFFICES ASSUME heap.mem[k] # "object" PROVE FALSE
    BY <1>2 DEF Living
  <2>2. RefCount(roots, jobs, field, entry, Objects, k) > 0 /\ jobs \in Seq(MaybeObjects)
    BY <1>2, <1>3 DEF Steady, Exact, HeapTypeOK
  <2>3. k \in roots \/ k \in Range(jobs) \/ \E p \in Objects : field[p] = k \/ entry[p].val = k
    BY <2>2, <1>2, RefCountType
  <2> QED BY <2>1, <2>3, <1>1 DEF Steady, Intact, Living
<1> QED BY <1>1, <1>2, <1>3, <1>4, HoldSteady

LEMMA ForgetOK ==
  ASSUME Steady, NEW o \in Objects, Forget(o)
  PROVE  Steady'
<1> DEFINE g == FreeValue(heap, o)
<1>0. /\ Running /\ o \in roots /\ roots' = roots \ {o} /\ Leaves(g)
      /\ UNCHANGED <<kind, field, entry, jobs, weakList>>
  BY DEF Forget
<1>1. /\ Sound(g) /\ g.weak = heap.weak /\ g.mem = heap.mem
      /\ \A x \in Objects : g.rc[x] = heap.rc[x] - Is(o, x)
  BY <1>0, FreeValueIs, SteadyCounts DEF Steady, MaybeObjects
<1> HIDE DEF g
<1>2. Living(g) = Living(heap)
  BY <1>1 DEF Living
<1>3. RefTypes'
  BY <1>0 DEF Steady, HeapTypeOK, RefTypes
<1>4. Exact(g, roots', jobs', field', entry', kind', Objects)
  <2> SUFFICES ASSUME NEW x \in Objects
               PROVE  /\ g.rc[x] = RefCount(roots \ {o}, jobs, field, entry, Objects, x)
                      /\ g.weak[x] = WeakCount(entry, kind, x)
    BY <1>0 DEF Exact
  <2>1. RefCount(roots \ {o}, jobs, field, entry, Objects, x)
          = RefCount(roots, jobs, field, entry, Objects, x) - Is(o, x)
    BY <1>0, RootsDrop DEF Steady, HeapTypeOK
  <2> QED BY <2>1, <1>1 DEF Steady, Exact
<1>5. Intact(Living(g), roots', jobs', field', entry') /\ Bare(Living(g), field', entry')
  BY <1>0, <1>2 DEF Steady, Intact, Bare
<1> QED BY <1>0, <1>1, <1>3, <1>4, <1>5, LeavesSteady

LEMMA SetFieldOK ==
  ASSUME Steady, NEW o \in Objects, NEW x \in MaybeObjects, SetField(o, x)
  PROVE  Steady'
<1> DEFINE d == Dup(heap, x)
           old == field[o]
           g == FreeValue(d, old)
<1>0. /\ Running /\ o \in Reachable /\ x \in Reachable \cup {None}
      /\ field' = [field EXCEPT ![o] = x] /\ Leaves(g)
      /\ UNCHANGED <<kind, entry, roots, jobs, weakList>>
  BY DEF SetField
<1>1. /\ Sound(d) /\ d.weak = heap.weak /\ d.mem = heap.mem
      /\ \A y \in Objects : d.rc[y] = heap.rc[y] + Is(x, y)
  BY <1>0, DupIs, SteadyReach DEF Steady
<1> HIDE DEF d
<1>2. old \in MaybeObjects /\ (old # None => old \in Living(heap) /\ heap.rc[old] > 0)
  <2>1. old # None => old \in Refers(o)
    BY DEF Refers
  <2> QED BY <2>1, SteadyCounts DEF Steady, HeapTypeOK
<1> HIDE DEF old
<1>3. old # None => old \in Living(d) /\ d.rc[old] > 0
  <2>1. Is(x, old) \in Nat
    BY IsType
  <2>2. old # None => old \in Objects /\ heap.rc[old] \in Nat
    BY <1>2, SteadyCounts DEF MaybeObjects
  <2> QED BY <2>1, <2>2, <1>1, <1>2 DEF Living
<1>4. /\ Sound(g) /\ g.weak = d.weak /\ g.mem = d.mem
      /\ \A y \in Objects : g.rc[y] = d.rc[y] - Is(old, y)
  BY <1>0, <1>1, <1>2, <1>3, FreeValueIs DEF Running
<1> HIDE DEF g
<1>5. Living(g) = Living(heap)
  BY <1>1, <1>4 DEF Living
<1>6. RefTypes'
  BY <1>0 DEF Steady, HeapTypeOK, RefTypes
<1>7. Exact(g, roots', jobs', field', entry', kind', Objects)
  <2> SUFFICES ASSUME NEW y \in Objects
               PROVE  /\ g.rc[y] = RefCount(roots, jobs, field', entry, Objects, y)
                      /\ g.weak[y] = WeakCount(entry, kind, y)
    BY <1>0 DEF Exact
  <2>1. /\ \A p \in Objects \ {o} : field'[p] = field[p] /\ entry[p] = entry[p]
        /\ field'[o] = x /\ jobs \in Seq(MaybeObjects)
    BY <1>0 DEF Steady, HeapTypeOK
  <2>2. RefCount(roots, jobs, field', entry, Objects, y)
          = RefCount(roots, jobs, field, entry, Objects, y)
              - Is(field[o], y) - Is(entry[o].val, y) + Is(field'[o], y) + Is(entry[o].val, y)
    BY <2>1, RefCountSet
  <2>3. /\ RefCount(roots, jobs, field, entry, Objects, y) \in Nat
        /\ Is(old, y) \in Nat /\ Is(entry[o].val, y) \in Nat /\ Is(x, y) \in Nat
    BY <2>1, RefCountType, IsType
  <2>4. RefCount(roots, jobs, field', entry, Objects, y)
          = RefCount(roots, jobs, field, entry, Objects, y) - Is(old, y) + Is(x, y)
    BY <2>1, <2>2, <2>3 DEF old
  <2>5. heap.rc[y] = RefCount(roots, jobs, field, entry, Objects, y) /\ heap.weak[y] = WeakCount(entry, kind, y)
    BY DEF Steady, Exact
  <2> QED BY <2>3, <2>4, <2>5, <1>1, <1>4
<1>8. Intact(Living(g), roots', jobs', field', entry') /\ Bare(Living(g), field', entry')
  <2>1. x # None => x \in Living(heap)
    BY <1>0, SteadyReach
  <2>2. o \in Living(heap)
    BY <1>0, SteadyReach
  <2>3. field \in [Objects -> MaybeObjects]
    BY DEF Steady, HeapTypeOK
  <2>4. \A p \in Objects : field'[p] = IF p = o THEN x ELSE field[p]
    BY <1>0, <2>3
  <2>5. Intact(Living(heap), roots', jobs', field', entry')
    BY <1>0, <2>1, <2>4 DEF Steady, Intact
  <2>6. Bare(Living(heap), field', entry')
    BY <1>0, <2>2, <2>4 DEF Steady, Bare
  <2> QED BY <2>5, <2>6, <1>5
<1> QED BY <1>0, <1>4, <1>6, <1>7, <1>8, LeavesSteady

\* The counts when an entry is replaced.
LEMMA EntryCounts ==
  ASSUME NEW R, NEW S, NEW J \in Seq(S), NEW F, NEW E, NEW E2, NEW o \in Objects,
         But(E2, E, o), NEW y
  PROVE  RefCount(R, J, F, E2, Objects, y) = RefCount(R, J, F, E, Objects, y) - Is(E[o].val, y) + Is(E2[o].val, y)
<1>1. \A p \in Objects \ {o} : F[p] = F[p] /\ E2[p] = E[p]
  BY DEF But
<1>2. RefCount(R, J, F, E2, Objects, y)
        = RefCount(R, J, F, E, Objects, y) - Is(F[o], y) - Is(E[o].val, y) + Is(F[o], y) + Is(E2[o].val, y)
  BY <1>1, RefCountSet
<1>3. /\ RefCount(R, J, F, E, Objects, y) \in Nat
      /\ Is(F[o], y) \in Nat /\ Is(E[o].val, y) \in Nat /\ Is(E2[o].val, y) \in Nat
  BY RefCountType, IsType
<1> QED BY <1>2, <1>3

\* An entry is replaced: what every operation on entries has in common.
LEMMA EntrySteady ==
  ASSUME Steady, Running, NEW o \in Living(heap), NEW e \in [key : MaybeObjects, val : MaybeObjects],
         NEW g, Sound(g), Living(g) = Living(heap),
         e.val # None => e.val \in Living(heap),
         \A x \in Objects : g.rc[x] = heap.rc[x] - Is(entry[o].val, x) + Is(e.val, x),
         \A x \in Objects : g.weak[x] =
           heap.weak[x] - Is(entry[o].key, x) - Is(Token(o), x)
             + Is(e.key, x) + Is(IF kind[o] = "finrec" THEN e.key ELSE None, x),
         entry' = [entry EXCEPT ![o] = e], Leaves(g),
         UNCHANGED <<kind, field, roots, jobs, weakList>>
  PROVE  Steady'
<1>1. /\ entry \in [Objects -> [key : MaybeObjects, val : MaybeObjects]] /\ o \in Objects
      /\ jobs \in Seq(MaybeObjects)
  BY DEF Steady, HeapTypeOK, Living
<1>2. \A p \in Objects : entry'[p] = IF p = o THEN e ELSE entry[p]
  BY <1>1
<1>3. RefTypes'
  BY <1>1 DEF Steady, HeapTypeOK, RefTypes
<1>4. Exact(g, roots', jobs', field', entry', kind', Objects)
  <2> SUFFICES ASSUME NEW y \in Objects
               PROVE  /\ g.rc[y] = RefCount(roots, jobs, field, entry', Objects, y)
                      /\ g.weak[y] = WeakCount(entry', kind, y)
    BY DEF Exact
  <2>1. /\ RefCount(roots, jobs, field, entry', Objects, y)
             = RefCount(roots, jobs, field, entry, Objects, y) - Is(entry[o].val, y) + Is(e.val, y)
        /\ WeakCount(entry', kind, y) =
             WeakCount(entry, kind, y) - Is(entry[o].key, y) - Is(Token(o), y)
               + Is(e.key, y) + Is(IF kind[o] = "finrec" THEN e.key ELSE None, y)
    <3>1. PICK E2 : E2 = entry'
      OBVIOUS
    <3>2. But(E2, entry, o) /\ E2[o] = e
      BY <3>1, <1>1, <1>2, Zenon DEF But
    <3>3. RefCount(roots, jobs, field, E2, Objects, y)
            = RefCount(roots, jobs, field, entry, Objects, y) - Is(entry[o].val, y) + Is(E2[o].val, y)
      BY <1>1, <3>2, EntryCounts
    <3>5. But(kind, kind, o)
      BY DEF But
    <3>6. WeakCount(E2, kind, y) =
            WeakCount(entry, kind, y) - Is(entry[o].key, y) - Is(Tokens(entry, kind)[o], y)
              + Is(E2[o].key, y) + Is(Tokens(E2, kind)[o], y)
      BY <1>1, <3>2, <3>5, WeakCountSet
    <3>4. /\ Tokens(entry, kind)[o] = Token(o)
          /\ Tokens(E2, kind)[o] = IF kind[o] = "finrec" THEN e.key ELSE None
      BY <1>1, <3>2 DEF Tokens, Token
    <3> QED BY <3>1, <3>2, <3>3, <3>4, <3>6, Zenon
  <2>6. heap.rc[y] = RefCount(roots, jobs, field, entry, Objects, y) /\ heap.weak[y] = WeakCount(entry, kind, y)
    BY DEF Steady, Exact
  <2>7. g.rc[y] = RefCount(roots, jobs, field, entry', Objects, y)
    BY <2>1, <2>6, Zenon
  <2>8. g.weak[y] = WeakCount(entry', kind, y)
    BY <2>1, <2>6, Zenon
  <2> QED BY <2>7, <2>8
<1>5. Intact(Living(g), roots', jobs', field', entry')
  BY <1>1, <1>2 DEF Steady, Intact
<1>6. Bare(Living(g), field', entry')
  BY <1>1, <1>2 DEF Steady, Bare
<1> QED BY <1>3, <1>4, <1>5, <1>6, LeavesSteady

LEMMA MapSetOK ==
  ASSUME Steady, NEW o \in Objects, NEW x \in Objects, NEW y \in MaybeObjects, MapSet(o, x, y)
  PROVE  Steady'
<1> DEFINE w == WeakNew(heap, x)
           g == Dup(w, y)
           e == [key |-> x, val |-> y]
<1>0. /\ kind[o] = "weakmap" /\ Running /\ {o, x} \subseteq Reachable /\ y \in Reachable \cup {None}
      /\ entry[o] = NoEntry /\ entry' = [entry EXCEPT ![o] = e] /\ Leaves(g)
      /\ UNCHANGED <<kind, field, roots, jobs, weakList>>
  BY DEF MapSet, AddEntry
<1>1. o \in Living(heap) /\ x \in Living(heap) /\ (y # None => y \in Living(heap) /\ heap.rc[y] > 0)
  BY <1>0, SteadyReach
<1>2. /\ Sound(w) /\ w.rc = heap.rc /\ w.mem = heap.mem
      /\ \A z \in Objects : w.weak[z] = heap.weak[z] + Is(x, z)
  BY <1>1, WeakNewIs DEF Steady, Living
<1> HIDE DEF w
<1>3. /\ Sound(g) /\ g.weak = w.weak /\ g.mem = w.mem
      /\ \A z \in Objects : g.rc[z] = w.rc[z] + Is(y, z)
  BY <1>1, <1>2, DupIs DEF Living
<1> HIDE DEF g
<1>4. Living(g) = Living(heap)
  BY <1>2, <1>3 DEF Living
<1>5. Token(o) = None /\ entry[o].key = None /\ entry[o].val = None
  BY <1>0 DEF Token, NoEntry
<1>6. \A z \in Objects : heap.rc[z] \in Nat /\ heap.weak[z] \in Nat /\ Is(None, z) = 0
  BY SteadyCounts, NoneIsNot
<1>7. \A z \in Objects : Is(x, z) \in Nat /\ Is(y, z) \in Nat
  BY IsType
<1>8. \A z \in Objects : g.rc[z] = heap.rc[z] - Is(entry[o].val, z) + Is(e.val, z)
  BY <1>2, <1>3, <1>5, <1>6, <1>7
<1>9. \A z \in Objects : g.weak[z] =
        heap.weak[z] - Is(entry[o].key, z) - Is(Token(o), z)
          + Is(e.key, z) + Is(IF kind[o] = "finrec" THEN e.key ELSE None, z)
  BY <1>0, <1>2, <1>3, <1>5, <1>6, <1>7
<1>10. e \in [key : MaybeObjects, val : MaybeObjects] /\ (e.val # None => e.val \in Living(heap))
  BY <1>1 DEF MaybeObjects
<1> HIDE DEF e
<1> QED BY <1>0, <1>1, <1>3, <1>4, <1>8, <1>9, <1>10, EntrySteady

LEMMA RegisterOK ==
  ASSUME Steady, NEW o \in Objects, NEW x \in Objects, NEW y \in MaybeObjects, Register(o, x, y)
  PROVE  Steady'
<1> DEFINE w == WeakNew(heap, x)
           d == Dup(w, y)
           g == WeakNew(d, x)
           e == [key |-> x, val |-> y]
<1>0. /\ kind[o] = "finrec" /\ Running /\ {o, x} \subseteq Reachable /\ y \in Reachable \cup {None}
      /\ entry[o] = NoEntry /\ entry' = [entry EXCEPT ![o] = e] /\ Leaves(g)
      /\ UNCHANGED <<kind, field, roots, jobs, weakList>>
  BY DEF Register, AddEntry
<1>1. o \in Living(heap) /\ x \in Living(heap) /\ (y # None => y \in Living(heap) /\ heap.rc[y] > 0)
  BY <1>0, SteadyReach
<1>2. /\ Sound(w) /\ w.rc = heap.rc /\ w.mem = heap.mem
      /\ \A z \in Objects : w.weak[z] = heap.weak[z] + Is(x, z)
  BY <1>1, WeakNewIs DEF Steady, Living
<1> HIDE DEF w
<1>3. /\ Sound(d) /\ d.weak = w.weak /\ d.mem = w.mem
      /\ \A z \in Objects : d.rc[z] = w.rc[z] + Is(y, z)
  BY <1>1, <1>2, DupIs DEF Living
<1> HIDE DEF d
<1>3a. /\ Sound(g) /\ g.rc = d.rc /\ g.mem = d.mem
       /\ \A z \in Objects : g.weak[z] = d.weak[z] + Is(x, z)
  BY <1>1, <1>2, <1>3, WeakNewIs DEF Living
<1> HIDE DEF g
<1>4. Living(g) = Living(heap)
  BY <1>2, <1>3, <1>3a DEF Living
<1>5. Token(o) = None /\ entry[o].key = None /\ entry[o].val = None
  BY <1>0 DEF Token, NoEntry
<1>6. \A z \in Objects : heap.rc[z] \in Nat /\ heap.weak[z] \in Nat /\ Is(None, z) = 0
  BY SteadyCounts, NoneIsNot
<1>7. \A z \in Objects : Is(x, z) \in Nat /\ Is(y, z) \in Nat
  BY IsType
<1>8. \A z \in Objects : g.rc[z] = heap.rc[z] - Is(entry[o].val, z) + Is(e.val, z)
  BY <1>2, <1>3, <1>3a, <1>5, <1>6, <1>7
<1>9. \A z \in Objects : g.weak[z] =
        heap.weak[z] - Is(entry[o].key, z) - Is(Token(o), z)
          + Is(e.key, z) + Is(IF kind[o] = "finrec" THEN e.key ELSE None, z)
  BY <1>0, <1>2, <1>3, <1>3a, <1>5, <1>6, <1>7
<1>10. e \in [key : MaybeObjects, val : MaybeObjects] /\ (e.val # None => e.val \in Living(heap))
  BY <1>1 DEF MaybeObjects
<1> HIDE DEF e
<1> QED BY <1>0, <1>1, <1>3a, <1>4, <1>8, <1>9, <1>10, EntrySteady

LEMMA MapReplaceOK ==
  ASSUME Steady, NEW o \in Objects, NEW y \in MaybeObjects, MapReplace(o, y)
  PROVE  Steady'
<1> DEFINE old == entry[o].val
           key == entry[o].key
           f == FreeValue(heap, old)
           g == Dup(f, y)
           e == [key |-> key, val |-> y]
<1>0. /\ kind[o] = "weakmap" /\ Running /\ {o, key} \subseteq Reachable /\ y \in roots \cup {None} /\ y # old
      /\ entry' = [entry EXCEPT ![o].val = y] /\ Leaves(g)
      /\ UNCHANGED <<kind, field, roots, jobs, weakList>>
  BY DEF MapReplace
<1>t. entry \in [Objects -> [key : MaybeObjects, val : MaybeObjects]]
  BY DEF Steady, HeapTypeOK
<1>e. entry' = [entry EXCEPT ![o] = e]
  <2>1. [entry[o] EXCEPT !.val = y] = e
    BY <1>t
  <2> QED BY <2>1, <1>0
<1>1. /\ o \in Living(heap) /\ (y # None => y \in Living(heap) /\ heap.rc[y] > 0)
      /\ old \in MaybeObjects /\ (old # None => old \in Living(heap) /\ heap.rc[old] > 0)
  <2>1. old # None => old \in Refers(o)
    BY DEF Refers
  <2> QED BY <2>1, <1>0, <1>t, SteadyReach, SteadyCounts
<1>2. /\ Sound(f) /\ f.weak = heap.weak /\ f.mem = heap.mem
      /\ \A z \in Objects : f.rc[z] = heap.rc[z] - Is(old, z)
  BY <1>0, <1>1, FreeValueIs DEF Steady, Running
<1> HIDE DEF f
<1>3. y # None => y \in Living(f) /\ f.rc[y] > 0
  <2>1. y # None => y \in Objects /\ heap.rc[y] \in Nat
    BY <1>1, SteadyCounts DEF Living
  <2> QED BY <2>1, <1>0, <1>1, <1>2 DEF Living, Is
<1>4. /\ Sound(g) /\ g.weak = f.weak /\ g.mem = f.mem
      /\ \A z \in Objects : g.rc[z] = f.rc[z] + Is(y, z)
  BY <1>2, <1>3, DupIs
<1> HIDE DEF g
<1>5. Living(g) = Living(heap)
  BY <1>2, <1>4 DEF Living
<1>6. \A z \in Objects : g.rc[z] = heap.rc[z] - Is(entry[o].val, z) + Is(e.val, z)
  BY <1>2, <1>4
<1>7. \A z \in Objects : g.weak[z] =
        heap.weak[z] - Is(entry[o].key, z) - Is(Token(o), z)
          + Is(e.key, z) + Is(IF kind[o] = "finrec" THEN e.key ELSE None, z)
  <2> SUFFICES ASSUME NEW z \in Objects
               PROVE  heap.weak[z] = heap.weak[z] - Is(key, z) - Is(None, z) + Is(key, z) + Is(None, z)
    BY <1>0, <1>2, <1>4 DEF Token
  <2>1. heap.weak[z] \in Nat /\ Is(key, z) \in Nat /\ Is(None, z) = 0
    BY SteadyCounts, IsType, NoneIsNot
  <2> HIDE DEF key
  <2> QED BY <2>1
<1>8. e \in [key : MaybeObjects, val : MaybeObjects] /\ (e.val # None => e.val \in Living(heap))
  BY <1>1, <1>t
<1>9. /\ Running /\ o \in Living(heap) /\ Sound(g) /\ Leaves(g)
      /\ UNCHANGED <<kind, field, roots, jobs, weakList>>
  BY <1>0, <1>1, <1>4
<1> HIDE DEF e, key, old
<1> QED BY <1>e, <1>5, <1>6, <1>7, <1>8, <1>9, EntrySteady, ZenonT(30)

\* The references that an entry has are among those that are counted.
LEMMA EntryCounted ==
  ASSUME Steady, NEW w \in Objects
  PROVE  /\ \A x \in Objects : heap.weak[x] >= Is(entry[w].key, x) + Is(Token(w), x)
         /\ entry[w].val \in MaybeObjects
         /\ entry[w].val # None => entry[w].val \in Living(heap) /\ heap.rc[entry[w].val] > 0
<1>1. ASSUME NEW x \in Objects PROVE heap.weak[x] >= Is(entry[w].key, x) + Is(Token(w), x)
  <2>1. WeakCount(entry, kind, x) >= Is(entry[w].key, x) + Is(Tokens(entry, kind)[w], x)
    BY WeakCountType
  <2>2. Tokens(entry, kind)[w] = Token(w) /\ heap.weak[x] = WeakCount(entry, kind, x)
    BY DEF Tokens, Token, Steady, Exact
  <2> QED BY <2>1, <2>2
<1>2. entry[w].val \in MaybeObjects
  BY DEF Steady, HeapTypeOK
<1>3. entry[w].val # None => entry[w].val \in Refers(w)
  BY DEF Refers
<1> QED BY <1>1, <1>2, <1>3, SteadyCounts

LEMMA DeleteEntryOK ==
  ASSUME Steady, NEW o \in Objects, DeleteEntry(o)
  PROVE  Steady'
<1> DEFINE g == FreeEntry(heap, o)
<1>0. /\ Running /\ o \in Reachable /\ entry' = [entry EXCEPT ![o] = NoEntry] /\ Leaves(g)
      /\ UNCHANGED <<kind, field, roots, jobs, weakList>>
  BY DEF DeleteEntry
<1>1. /\ Sound(g) /\ Living(g) = Living(heap)
      /\ \A x \in Objects : g.rc[x] = heap.rc[x] - Is(entry[o].val, x)
      /\ \A x \in Objects : g.weak[x] = heap.weak[x] - Is(entry[o].key, x) - Is(Token(o), x)
  BY <1>0, EntryCounted, FreeEntryIs DEF Steady, Running
<1> HIDE DEF g
<1>2. \A x \in Objects : heap.rc[x] \in Nat /\ heap.weak[x] \in Nat
  BY SteadyCounts
<1>3. NoEntry \in [key : MaybeObjects, val : MaybeObjects] /\ NoEntry.key = None /\ NoEntry.val = None
  BY DEF NoEntry, MaybeObjects
<1>4. \A x \in Objects : g.rc[x] = heap.rc[x] - Is(entry[o].val, x) + Is(NoEntry.val, x)
  BY <1>1, <1>2, <1>3, NoneIsNot, IsType
<1>5. \A x \in Objects : g.weak[x] =
        heap.weak[x] - Is(entry[o].key, x) - Is(Token(o), x)
          + Is(NoEntry.key, x) + Is(IF kind[o] = "finrec" THEN NoEntry.key ELSE None, x)
  BY <1>1, <1>2, <1>3, NoneIsNot, IsType
<1>6. o \in Living(heap)
  BY <1>0, SteadyReach
<1> HIDE DEF NoEntry
<1> QED BY <1>0, <1>1, <1>3, <1>4, <1>5, <1>6, EntrySteady

LEMMA RunJobOK ==
  ASSUME Steady, RunJob
  PROVE  Steady'
<1> DEFINE o == Head(jobs)
           g == FreeValue(heap, o)
<1>0. /\ Running /\ jobs # <<>> /\ jobs' = Tail(jobs) /\ Leaves(g)
      /\ UNCHANGED <<kind, field, entry, roots, weakList>>
  BY DEF RunJob
<1>j. jobs \in Seq(MaybeObjects)
  BY DEF Steady, HeapTypeOK
<1>1. o \in MaybeObjects /\ o \in Range(jobs) /\ jobs' \in Seq(MaybeObjects) /\ Range(jobs') \subseteq Range(jobs)
  <2>1. /\ Len(jobs) \in Nat /\ 1 \in 1..Len(jobs) /\ DOMAIN jobs = 1..Len(jobs) /\ o = jobs[1]
        /\ jobs' \in Seq(MaybeObjects) /\ DOMAIN jobs' = 1..(Len(jobs) - 1)
        /\ \A i \in 1..(Len(jobs) - 1) : jobs'[i] = jobs[i + 1]
    BY <1>0, <1>j
  <2> HIDE DEF o
  <2>2. \A i \in 1..(Len(jobs) - 1) : i + 1 \in DOMAIN jobs
    BY <2>1
  <2>3. jobs[1] \in MaybeObjects
    BY <2>1, <1>j
  <2> QED BY <2>1, <2>2, <2>3 DEF Range
<1> HIDE DEF o
<1>2. /\ Sound(g) /\ g.weak = heap.weak /\ g.mem = heap.mem
      /\ \A x \in Objects : g.rc[x] = heap.rc[x] - Is(o, x)
  BY <1>0, <1>1, FreeValueIs, SteadyCounts DEF Steady, Running
<1> HIDE DEF g
<1>3. Living(g) = Living(heap)
  BY <1>2 DEF Living
<1>4. RefTypes'
  BY <1>0, <1>1 DEF Steady, HeapTypeOK, RefTypes
<1>5. Exact(g, roots', jobs', field', entry', kind', Objects)
  <2> SUFFICES ASSUME NEW x \in Objects
               PROVE  /\ g.rc[x] = RefCount(roots, Tail(jobs), field, entry, Objects, x)
                      /\ g.weak[x] = WeakCount(entry, kind, x)
    BY <1>0 DEF Exact
  <2>1. RefCount(roots, Tail(jobs), field, entry, Objects, x)
          = RefCount(roots, jobs, field, entry, Objects, x) - Is(Head(jobs), x)
    BY <1>0, <1>j, JobsPop
  <2> QED BY <2>1, <1>2 DEF Steady, Exact, o
<1>6. Intact(Living(g), roots', jobs', field', entry') /\ Bare(Living(g), field', entry')
  BY <1>0, <1>1, <1>3 DEF Steady, Intact, Bare
<1> QED BY <1>0, <1>2, <1>4, <1>5, <1>6, LeavesSteady

\* A structure is used for a new object, with one reference.
LEMMA NewIs ==
  ASSUME NEW h, Sound(h), NEW o \in Objects, h.mem[o] = "free"
  PROVE  LET g == [h EXCEPT !.mem[o] = "object", !.rc[o] = 1, !.weak[o] = 0, !.mark[o] = 0,
                            !.gc = Append(@, o)]
         IN  /\ Sound(g) /\ g.weak = h.weak /\ Living(g) = Living(h) \cup {o}
             /\ \A x \in Objects : g.rc[x] = IF x = o THEN 1 ELSE h.rc[x]
<1> DEFINE memory == [h.mem EXCEPT ![o] = "object"]
           rc == [h.rc EXCEPT ![o] = 1]
           weak == [h.weak EXCEPT ![o] = 0]
           mark == [h.mark EXCEPT ![o] = 0]
           gc == Append(h.gc, o)
           g == [h EXCEPT !.mem[o] = "object", !.rc[o] = 1, !.weak[o] = 0, !.mark[o] = 0,
                          !.gc = Append(@, o)]
<1>1. h \in HeapRecord /\ List(h.gc) /\ o \notin Range(h.gc) /\ o \notin Range(h.zero)
  BY DEF Sound, Lists, Living
<1>2. g = [h EXCEPT !.mem = memory, !.rc = rc, !.weak = weak, !.mark = mark, !.gc = gc]
  BY <1>1 DEF HeapRecord
<1>3. List(gc) /\ Range(gc) = Range(h.gc) \cup {o}
  BY <1>1, AppendedIs
<1>4. /\ memory \in [Objects -> {"free", "object", "husk"}] /\ rc \in [Objects -> Int]
      /\ weak \in [Objects -> Int] /\ mark \in [Objects -> {0, 1}] /\ gc \in Seq(Objects)
  BY <1>1, <1>3 DEF HeapRecord, List
<1>5. /\ \A x \in Objects : memory[x] = IF x = o THEN "object" ELSE h.mem[x]
      /\ \A x \in Objects : rc[x] = IF x = o THEN 1 ELSE h.rc[x]
      /\ \A x \in Objects : mark[x] = IF x = o THEN 0 ELSE h.mark[x]
  BY <1>1 DEF HeapRecord
<1>6. weak = h.weak
  BY <1>1 DEF HeapRecord, Sound, Husks
<1> HIDE DEF memory, rc, weak, mark, gc, g
<1>7. Fields(g, memory, rc, weak, mark, gc, h.zero, h.tmp, h.faults)
  <2>1. Fields([h EXCEPT !.mem = memory, !.rc = rc, !.weak = weak, !.mark = mark, !.gc = gc],
               memory, rc, weak, mark, gc, h.zero, h.tmp, h.faults)
    BY <1>1, <1>4 DEF HeapRecord, Fields
  <2> QED BY <2>1, <1>2
<1> USE <1>7 DEF Fields
<1>8. Living(g) = Living(h) \cup {o}
  BY <1>5 DEF Living
<1>9. Range(h.gc) \subseteq Objects /\ Range(h.zero) \subseteq Objects
  BY DEF Sound, Lists, Living
<1>10. Lists(g)
  <2>1. Range(g.gc) = {x \in Living(g) : g.rc[x] > 0}
    BY <1>3, <1>5, <1>8 DEF Sound, Lists, Living
  <2>2. Range(g.zero) = {x \in Living(g) : g.rc[x] = 0}
    BY <1>1, <1>5, <1>8 DEF Sound, Lists, Living
  <2> QED BY <2>1, <2>2, <1>3 DEF Sound, Lists
<1>11. Marks(g)
  BY <1>1, <1>3, <1>5, <1>9 DEF Sound, Marks
<1>12. Husks(g)
  BY <1>5, <1>6 DEF Sound, Husks
<1>13. \A x \in Living(g) : g.rc[x] >= 0
  BY <1>5, <1>8 DEF Sound, Living
<1>14. Sound(g)
  BY <1>10, <1>11, <1>12, <1>13 DEF Sound
<1> QED BY <1>5, <1>6, <1>8, <1>14 DEF g

LEMMA NewOK ==
  ASSUME Steady, NEW o \in Objects, NEW k \in Kinds, NEW aim \in MaybeObjects, New(o, k, aim)
  PROVE  Steady'
<1> DEFINE h == [heap EXCEPT !.mem[o] = "object", !.rc[o] = 1, !.weak[o] = 0, !.mark[o] = 0,
                             !.gc = Append(@, o)]
           g == IF k = "weakref" THEN WeakNew(h, aim) ELSE h
<1>0. /\ Running /\ heap.mem[o] = "free" /\ (IF k = "weakref" THEN aim \in Reachable ELSE aim = None)
      /\ kind' = [kind EXCEPT ![o] = k] /\ roots' = roots \cup {o}
      /\ entry' = [entry EXCEPT ![o].key = aim] /\ Leaves(g)
      /\ weakList' = (IF k = "plain" THEN weakList ELSE Append(weakList, o))
      /\ UNCHANGED <<field, jobs>>
  BY DEF New
<1>1. /\ Sound(h) /\ h.weak = heap.weak /\ Living(h) = Living(heap) \cup {o}
      /\ \A x \in Objects : h.rc[x] = IF x = o THEN 1 ELSE heap.rc[x]
  BY <1>0, NewIs DEF Steady
<1> HIDE DEF h
<1>2. o \notin Living(heap) /\ o \notin roots /\ field[o] = None /\ entry[o] = NoEntry /\ heap.rc[o] = 0
  <2>1. o \notin Living(heap)
    BY <1>0 DEF Living
  <2>2. field[o] = None /\ entry[o] = NoEntry
    BY <2>1 DEF Steady, Bare
  <2>3. /\ o \notin roots /\ o \notin Range(jobs)
        /\ \A p \in Objects : field[p] # o /\ entry[p].val # o
    BY <2>1, HeapAssumption DEF Steady, Intact
  <2>4. RefCount(roots, jobs, field, entry, Objects, o) = 0
    BY <2>3, RefCountType DEF Steady, HeapTypeOK
  <2> QED BY <2>1, <2>2, <2>3, <2>4 DEF Steady, Exact
<1>3. /\ Sound(g) /\ Living(g) = Living(heap) \cup {o} /\ g.rc = h.rc
      /\ \A x \in Objects : g.weak[x] = heap.weak[x] + Is(aim, x)
  <2>1. CASE k = "weakref"
    <3>1. aim \in Living(heap)
      BY <1>0, <2>1, SteadyReach
    <3>2. aim \in Objects /\ h.mem[aim] # "free"
      BY <3>1, <1>1 DEF Living
    <3>3. LET n == WeakNew(h, aim) IN
          /\ Sound(n) /\ n.rc = h.rc /\ n.mem = h.mem
          /\ \A x \in Objects : n.weak[x] = h.weak[x] + Is(aim, x)
      BY <3>2, <1>1, WeakNewIs
    <3> QED BY <3>3, <2>1, <1>1 DEF Living
  <2>2. CASE k # "weakref"
    <3>1. aim = None /\ g = h
      BY <1>0, <2>2
    <3>2. \A x \in Objects : heap.weak[x] \in Nat /\ Is(None, x) = 0
      BY SteadyCounts, NoneIsNot
    <3> QED BY <3>1, <3>2, <1>1
  <2> QED BY <2>1, <2>2
<1> HIDE DEF g
<1>4. \A x \in Objects : g.rc[x] = heap.rc[x] + Is(o, x)
  <2>1. \A x \in Objects : heap.rc[x] \in Nat
    BY SteadyCounts
  <2> QED BY <2>1, <1>1, <1>2, <1>3 DEF Is
<1>5. /\ entry \in [Objects -> [key : MaybeObjects, val : MaybeObjects]] /\ kind \in [Objects -> Kinds]
      /\ field \in [Objects -> MaybeObjects]
      /\ jobs \in Seq(MaybeObjects) /\ weakList \in Seq(Objects) /\ roots \subseteq Objects
  BY DEF Steady, HeapTypeOK
<1>6. RefTypes'
  <2>1. Append(weakList, o) \in Seq(Objects)
    BY <1>5
  <2> QED BY <2>1, <1>0, <1>5 DEF RefTypes
<1>7. /\ But(entry', entry, o) /\ But(kind', kind, o) /\ kind'[o] = k
      /\ entry'[o].val = None /\ entry'[o].key = aim
  BY <1>0, <1>2, <1>5 DEF But, NoEntry
<1>8. Exact(g, roots', jobs', field', entry', kind', Objects)
  <2> SUFFICES ASSUME NEW x \in Objects
               PROVE  /\ g.rc[x] = RefCount(roots \cup {o}, jobs, field, entry', Objects, x)
                      /\ g.weak[x] = WeakCount(entry', kind', x)
    BY <1>0 DEF Exact
  <2>1. heap.rc[x] = RefCount(roots, jobs, field, entry, Objects, x) /\ heap.weak[x] = WeakCount(entry, kind, x)
    BY DEF Steady, Exact
  <2>e. PICK E2, K2 : E2 = entry' /\ K2 = kind'
    OBVIOUS
  <2>2. But(E2, entry, o) /\ But(K2, kind, o) /\ K2[o] = k /\ E2[o].val = None /\ E2[o].key = aim
    BY <1>7, <2>e
  <2>3. RefCount(roots \cup {o}, jobs, field, E2, Objects, x) = RefCount(roots, jobs, field, E2, Objects, x) + Is(o, x)
    BY <1>2, <1>5, RootsAdd
  <2>4. RefCount(roots, jobs, field, E2, Objects, x)
          = RefCount(roots, jobs, field, entry, Objects, x) - Is(entry[o].val, x) + Is(E2[o].val, x)
    BY <1>5, <2>2, EntryCounts
  <2>5. WeakCount(E2, K2, x) =
          WeakCount(entry, kind, x) - Is(entry[o].key, x) - Is(Tokens(entry, kind)[o], x)
            + Is(E2[o].key, x) + Is(Tokens(E2, K2)[o], x)
    BY <2>2, WeakCountSet
  <2>6. Tokens(entry, kind)[o] = None /\ Tokens(E2, K2)[o] = None /\ entry[o].key = None /\ entry[o].val = None
    BY <1>0, <1>2, <2>2 DEF Tokens, NoEntry
  <2>7. heap.rc[x] \in Nat /\ heap.weak[x] \in Nat /\ Is(None, x) = 0 /\ Is(aim, x) \in Nat
    BY SteadyCounts, NoneIsNot, IsType
  <2>8. RefCount(roots, jobs, field, E2, Objects, x) = heap.rc[x]
    BY <2>1, <2>2, <2>4, <2>6, <2>7
  <2>9. WeakCount(E2, K2, x) = heap.weak[x] + Is(aim, x)
    BY <2>1, <2>2, <2>5, <2>6, <2>7
  <2> QED BY <2>3, <2>8, <2>9, <2>e, <1>3, <1>4
<1>9. Intact(Living(g), roots', jobs', field', entry')
  <2>1. \A p \in Objects : entry'[p].val = entry[p].val
    BY <1>2, <1>7 DEF But, NoEntry
  <2> QED BY <2>1, <1>0, <1>3 DEF Steady, Intact
<1>10. Bare(Living(g), field', entry')
  BY <1>0, <1>3, <1>7 DEF Steady, Bare, But
<1> QED BY <1>0, <1>3, <1>6, <1>8, <1>9, <1>10, LeavesSteady
-----------------------------------------------------------------------------
(* free_zero_refcount and the pass over the weak holders. *)

\* The references of p go.
LEMMA WithoutRefs ==
  ASSUME HeapTypeOK, NEW p \in Objects, NEW F2, NEW E2, NEW K2,
         But(F2, field, p), But(E2, entry, p), But(K2, kind, p), F2[p] = None, E2[p] = NoEntry, NEW x \in Objects
  PROVE  /\ RefCount(roots, jobs, F2, E2, Objects, x)
              = RefCount(roots, jobs, field, entry, Objects, x) - Is(field[p], x) - Is(entry[p].val, x)
         /\ WeakCount(E2, K2, x) = WeakCount(entry, kind, x) - Is(entry[p].key, x) - Is(Token(p), x)
<1>1. jobs \in Seq(MaybeObjects)
  BY DEF HeapTypeOK
<1>2. \A q \in Objects \ {p} : F2[q] = field[q] /\ E2[q] = entry[q]
  BY DEF But
<1>3. RefCount(roots, jobs, F2, E2, Objects, x)
        = RefCount(roots, jobs, field, entry, Objects, x)
            - Is(field[p], x) - Is(entry[p].val, x) + Is(F2[p], x) + Is(E2[p].val, x)
  BY <1>1, <1>2, RefCountSet
<1>4. WeakCount(E2, K2, x) =
        WeakCount(entry, kind, x) - Is(entry[p].key, x) - Is(Tokens(entry, kind)[p], x)
          + Is(E2[p].key, x) + Is(Tokens(E2, K2)[p], x)
  BY WeakCountSet
<1>5. Tokens(entry, kind)[p] = Token(p) /\ Tokens(E2, K2)[p] = None /\ E2[p].key = None /\ E2[p].val = None
  BY DEF Tokens, Token, NoEntry
<1>6. /\ RefCount(roots, jobs, field, entry, Objects, x) \in Nat /\ WeakCount(entry, kind, x) \in Nat
      /\ Is(field[p], x) \in Nat /\ Is(entry[p].val, x) \in Nat
      /\ Is(entry[p].key, x) \in Nat /\ Is(Token(p), x) \in Nat /\ Is(None, x) = 0
  BY <1>1, RefCountType, WeakCountType, IsType, NoneIsNot
<1> QED BY <1>3, <1>4, <1>5, <1>6

\* What free_object leaves of p, besides the heap.
LEMMA FreedRefs ==
  ASSUME HeapTypeOK, NEW p \in Objects, FreeObject(p)
  PROVE  /\ RefTypes' /\ UNCHANGED <<roots, jobs, after>>
         /\ But(field', field, p) /\ But(entry', entry, p) /\ But(kind', kind, p)
         /\ field'[p] = None /\ entry'[p] = NoEntry
<1>1. /\ field' = [field EXCEPT ![p] = None] /\ entry' = [entry EXCEPT ![p] = NoEntry]
      /\ kind' = [kind EXCEPT ![p] = "plain"] /\ weakList' = RemoveFirst(weakList, p)
      /\ UNCHANGED <<roots, jobs, after>>
  BY DEF FreeObject
<1>2. /\ entry \in [Objects -> [key : MaybeObjects, val : MaybeObjects]] /\ kind \in [Objects -> Kinds]
      /\ field \in [Objects -> MaybeObjects]
      /\ jobs \in Seq(MaybeObjects) /\ weakList \in Seq(Objects) /\ roots \subseteq Objects
  BY DEF HeapTypeOK
<1>3. NoEntry \in [key : MaybeObjects, val : MaybeObjects]
  BY DEF NoEntry, MaybeObjects
<1>4. weakList' \in Seq(Objects)
  BY <1>1, <1>2, RemovedType
<1>5. /\ field' \in [Objects -> MaybeObjects] /\ kind' \in [Objects -> Kinds]
      /\ entry' \in [Objects -> [key : MaybeObjects, val : MaybeObjects]]
  BY <1>1, <1>2, <1>3 DEF Kinds, MaybeObjects
<1>6. But(field', field, p) /\ But(entry', entry, p) /\ But(kind', kind, p)
  BY <1>1, <1>2 DEF But
<1>7. field'[p] = None /\ entry'[p] = NoEntry
  BY <1>1, <1>2
<1> QED BY <1>1, <1>2, <1>4, <1>5, <1>6, <1>7 DEF RefTypes

\* An object without references is freed.
LEMMA DrainOneOK ==
  ASSUME Steady, pc = "drain", heap.zero # <<>>, FreeObject(Head(heap.zero)), UNCHANGED <<pc, cursor>>
  PROVE  Steady' /\ KeepsEntries
<1> DEFINE p == Head(heap.zero)
           f == FreeValue(heap, field[p])
           h == FreeEntry(f, p)
           g == Dispose(Unlist(h, p), p)
<1>1. p \in Living(heap) /\ p \in Objects /\ heap.rc[p] = 0
  <2>1. List(heap.zero) /\ Range(heap.zero) = {o \in Living(heap) : heap.rc[o] = 0}
    BY DEF Steady, Sound, Lists
  <2> QED BY <2>1, HeadIs
<1>2. FreeObject(p) /\ heap' = g
  BY DEF FreeObject
<1> HIDE DEF p
<1>3. \A x \in Objects : heap.rc[x] \in Nat /\ heap.weak[x] \in Nat
  BY SteadyCounts
<1>4. field[p] \in MaybeObjects /\ (field[p] # None => field[p] \in Living(heap) /\ heap.rc[field[p]] > 0)
  <2>1. field[p] # None => field[p] \in Refers(p)
    BY DEF Refers
  <2> QED BY <2>1, <1>1, SteadyCounts DEF Steady, HeapTypeOK
<1>5. /\ Sound(f) /\ f.weak = heap.weak /\ f.mem = heap.mem
      /\ \A x \in Objects : f.rc[x] = heap.rc[x] - Is(field[p], x)
  BY <1>4, FreeValueIs DEF Steady
<1> HIDE DEF f
<1>c. \A x \in Objects : heap.rc[x] >= Is(field[p], x) + Is(entry[p].val, x)
  <2> SUFFICES ASSUME NEW x \in Objects PROVE heap.rc[x] >= Is(field[p], x) + Is(entry[p].val, x)
    OBVIOUS
  <2>1. RefCount(roots, jobs, field, entry, Objects, x) >= Is(field[p], x) + Is(entry[p].val, x)
    BY <1>1, RefCountLeast DEF Steady, HeapTypeOK
  <2> QED BY <2>1 DEF Steady, Exact
<1>6. entry[p].val # None => entry[p].val \in Living(f) /\ f.rc[entry[p].val] > 0
  <2> SUFFICES ASSUME entry[p].val # None PROVE entry[p].val \in Living(f) /\ f.rc[entry[p].val] > 0
    OBVIOUS
  <2> DEFINE v == entry[p].val
  <2>1. v \in Living(heap) /\ v \in Objects
    BY <1>1, EntryCounted DEF Living
  <2>2. Is(v, v) = 1 /\ Is(field[p], v) \in Nat
    BY DEF Is
  <2> HIDE DEF v
  <2>3. f.rc[v] > 0
    <3>1. heap.rc[v] >= Is(field[p], v) + Is(v, v)
      BY <1>c, <2>1 DEF v
    <3> QED BY <3>1, <2>1, <2>2, <1>3, <1>5
  <2> QED BY <2>1, <2>3, <1>5 DEF Living, v
<1>7. /\ Sound(h) /\ Living(h) = Living(f)
      /\ \A x \in Objects : h.rc[x] = f.rc[x] - Is(entry[p].val, x)
      /\ \A x \in Objects : h.weak[x] = f.weak[x] - Is(entry[p].key, x) - Is(Token(p), x)
  BY <1>1, <1>5, <1>6, EntryCounted, FreeEntryIs DEF Steady
<1> HIDE DEF h
<1>8. Living(h) = Living(heap)
  BY <1>5, <1>7 DEF Living
<1>9. h.rc[p] = 0 /\ h.weak[p] >= 0
  <2>1. /\ heap.rc[p] >= Is(field[p], p) + Is(entry[p].val, p)
        /\ heap.weak[p] >= Is(entry[p].key, p) + Is(Token(p), p)
    BY <1>1, <1>c, EntryCounted
  <2>2. /\ Is(field[p], p) \in Nat /\ Is(entry[p].val, p) \in Nat
        /\ Is(entry[p].key, p) \in Nat /\ Is(Token(p), p) \in Nat
    BY IsType
  <2> QED BY <2>1, <2>2, <1>1, <1>3, <1>5, <1>7
<1>10. /\ Sound(g) /\ Living(g) = Living(heap) \ {p} /\ g.rc = h.rc /\ g.weak = h.weak
  BY <1>1, <1>7, <1>8, <1>9, DisposeIs
<1> HIDE DEF g
<1>11. /\ RefTypes' /\ UNCHANGED <<roots, jobs, after>>
       /\ But(field', field, p) /\ But(entry', entry, p) /\ But(kind', kind, p)
       /\ field'[p] = None /\ entry'[p] = NoEntry
  BY <1>1, <1>2, FreedRefs DEF Steady
<1>12. Exact(g, roots', jobs', field', entry', kind', Objects)
  <2> SUFFICES ASSUME NEW x \in Objects
               PROVE  /\ g.rc[x] = RefCount(roots, jobs, field', entry', Objects, x)
                      /\ g.weak[x] = WeakCount(entry', kind', x)
    BY <1>11 DEF Exact
  <2>e. PICK F2, E2, K2 : F2 = field' /\ E2 = entry' /\ K2 = kind'
    OBVIOUS
  <2>1. But(F2, field, p) /\ But(E2, entry, p) /\ But(K2, kind, p) /\ F2[p] = None /\ E2[p] = NoEntry
    BY <2>e, <1>11
  <2>2. /\ RefCount(roots, jobs, F2, E2, Objects, x)
             = RefCount(roots, jobs, field, entry, Objects, x) - Is(field[p], x) - Is(entry[p].val, x)
        /\ WeakCount(E2, K2, x) = WeakCount(entry, kind, x) - Is(entry[p].key, x) - Is(Token(p), x)
    BY <2>1, <1>1, WithoutRefs DEF Steady
  <2>3. heap.rc[x] = RefCount(roots, jobs, field, entry, Objects, x) /\ heap.weak[x] = WeakCount(entry, kind, x)
    BY DEF Steady, Exact
  <2> QED BY <2>e, <2>2, <2>3, <1>5, <1>7, <1>10
<1>13. Intact(Living(g), roots', jobs', field', entry')
  <2>1. /\ p \notin roots /\ p \notin Range(jobs) /\ \A q \in Objects : p \notin Refers(q)
    <3>1. p # None
      BY <1>1, HeapAssumption
    <3> QED BY <3>1, <1>1, SteadyCounts
  <2>2. ASSUME NEW q \in Objects PROVE {field'[q], entry'[q].val} \ {None} \subseteq Living(g)
    <3>1. CASE q = p
      BY <3>1, <1>11 DEF NoEntry
    <3>2. CASE q # p
      <4>1. field'[q] = field[q] /\ entry'[q] = entry[q]
        BY <3>2, <1>11 DEF But
      <4>2. Refers(q) \subseteq Living(heap) \ {p}
        BY <2>1 DEF Steady, Intact, Refers
      <4> QED BY <4>1, <4>2, <1>10 DEF Refers
    <3> QED BY <3>1, <3>2
  <2> QED BY <2>1, <2>2, <1>10, <1>11 DEF Steady, Intact
<1>14. Bare(Living(g), field', entry')
  BY <1>10, <1>11 DEF Steady, Bare, But
<1>15. KeepsEntries
  <2>1. p \notin Reachable /\ Reachable \subseteq Objects
    BY <1>1, SteadyReach DEF Reachable
  <2> QED BY <2>1, <1>11 DEF KeepsEntries, But
<1>16. HeapTypeOK'
  BY <1>2, <1>10, <1>11 DEF Steady, HeapTypeOK, RefTypes, Sound
<1> QED BY <1>2, <1>10, <1>12, <1>13, <1>14, <1>15, <1>16 DEF Steady

LEMMA RunGCOK ==
  ASSUME Steady, RunGC
  PROVE  Steady'
<1>1. pc' = "weak" /\ cursor' = 1 /\ UNCHANGED <<heap, kind, field, entry, roots, jobs, weakList, after>>
      /\ pc = "idle"
  BY DEF RunGC, refVars, Running
<1>2. HeapTypeOK'
  BY <1>1 DEF Steady, HeapTypeOK, PCs
<1> QED BY <1>1, <1>2 DEF Steady

LEMMA WeakRemovedOK ==
  ASSUME Steady, WeakRemoved
  PROVE  Steady' /\ KeepsEntries
<1>1. pc' = "drain" /\ cursor' = 0 /\ after' = "decref"
      /\ UNCHANGED <<heap, kind, field, entry, roots, jobs, weakList>>
  BY DEF WeakRemoved, refVars
<1>2. HeapTypeOK'
  BY <1>1 DEF Steady, HeapTypeOK, PCs
<1> QED BY <1>1, <1>2 DEF Steady, KeepsEntries

\* The entry of w goes because its key is dead; J2 are the jobs then, with n more times
\* the value of the entry.
LEMMA RemovedEntry ==
  ASSUME Steady, pc = "weak", NEW w \in Objects, entry[w].key # None, heap.rc[entry[w].key] = 0,
         entry' = [entry EXCEPT ![w] = NoEntry], jobs' \in Seq(MaybeObjects),
         Range(jobs') \subseteq Range(jobs) \cup {entry[w].val},
         Sound(heap'), Living(heap') = Living(heap),
         \A x \in Objects : heap'.rc[x] =
           heap.rc[x] - Is(entry[w].val, x)
             + (RefCount(roots, jobs', field, entry', Objects, x) - RefCount(roots, jobs, field, entry', Objects, x)),
         \A x \in Objects : heap'.weak[x] = heap.weak[x] - Is(entry[w].key, x) - Is(Token(w), x),
         UNCHANGED <<kind, field, roots, weakList, pc, after>>, cursor' \in Nat \ {0}
  PROVE  Steady' /\ KeepsEntries
<1>1. /\ entry \in [Objects -> [key : MaybeObjects, val : MaybeObjects]] /\ jobs \in Seq(MaybeObjects)
  BY DEF Steady, HeapTypeOK
<1>2. But(entry', entry, w) /\ entry'[w] = NoEntry
  BY <1>1 DEF But
<1>3. HeapTypeOK'
  <2>1. NoEntry \in [key : MaybeObjects, val : MaybeObjects]
    BY DEF NoEntry, MaybeObjects
  <2>2. entry' \in [Objects -> [key : MaybeObjects, val : MaybeObjects]]
    BY <1>1, <2>1
  <2> QED BY <2>2 DEF Steady, HeapTypeOK, Sound
<1>4. Exact(heap', roots', jobs', field', entry', kind', Objects)
  <2> SUFFICES ASSUME NEW x \in Objects
               PROVE  /\ heap'.rc[x] = RefCount(roots, jobs', field, entry', Objects, x)
                      /\ heap'.weak[x] = WeakCount(entry', kind, x)
    BY DEF Exact
  <2>e. PICK E2, J2 : E2 = entry' /\ J2 = jobs'
    OBVIOUS
  <2>1. But(E2, entry, w) /\ But(kind, kind, w) /\ E2[w] = NoEntry
    BY <2>e, <1>2 DEF But
  <2>2. RefCount(roots, jobs, field, E2, Objects, x)
          = RefCount(roots, jobs, field, entry, Objects, x) - Is(entry[w].val, x) + Is(E2[w].val, x)
    BY <2>1, <1>1, EntryCounts
  <2>3. WeakCount(E2, kind, x) =
          WeakCount(entry, kind, x) - Is(entry[w].key, x) - Is(Tokens(entry, kind)[w], x)
            + Is(E2[w].key, x) + Is(Tokens(E2, kind)[w], x)
    BY <2>1, WeakCountSet
  <2>4. Tokens(entry, kind)[w] = Token(w) /\ Tokens(E2, kind)[w] = None /\ E2[w].key = None /\ E2[w].val = None
    BY <2>1 DEF Tokens, Token, NoEntry
  <2>5. heap.rc[x] = RefCount(roots, jobs, field, entry, Objects, x) /\ heap.weak[x] = WeakCount(entry, kind, x)
    BY DEF Steady, Exact
  <2>6. /\ RefCount(roots, jobs, field, entry, Objects, x) \in Nat /\ WeakCount(entry, kind, x) \in Nat
        /\ RefCount(roots, J2, field, E2, Objects, x) \in Nat
        /\ Is(entry[w].val, x) \in Nat /\ Is(entry[w].key, x) \in Nat /\ Is(Token(w), x) \in Nat /\ Is(None, x) = 0
    <3>1. J2 \in Seq(MaybeObjects) /\ RefCount(roots, jobs, field, entry, Objects, x) \in Nat
      BY <2>e, <1>1, RefCountType
    <3>2. RefCount(roots, J2, field, E2, Objects, x) \in Nat
      BY <3>1, RefCountType
    <3> QED BY <3>1, <3>2, WeakCountType, IsType, NoneIsNot
  <2>7. heap'.rc[x] =
           heap.rc[x] - Is(entry[w].val, x)
             + (RefCount(roots, J2, field, E2, Objects, x) - RefCount(roots, jobs, field, E2, Objects, x))
    BY <2>e
  <2>8. heap'.weak[x] = heap.weak[x] - Is(entry[w].key, x) - Is(Token(w), x)
    OBVIOUS
  <2>9. heap'.rc[x] = RefCount(roots, J2, field, E2, Objects, x)
    BY <2>2, <2>4, <2>5, <2>6, <2>7
  <2>10. heap'.weak[x] = WeakCount(E2, kind, x)
    BY <2>3, <2>4, <2>5, <2>6, <2>8
  <2> QED BY <2>e, <2>9, <2>10
<1>5. Intact(Living(heap'), roots', jobs', field', entry')
  <2>1. ASSUME NEW q \in Objects PROVE {field[q], entry'[q].val} \ {None} \subseteq Living(heap)
    BY <1>2 DEF Steady, Intact, But, NoEntry
  <2>2. Range(jobs') \ {None} \subseteq Living(heap)
    BY DEF Steady, Intact
  <2> QED BY <2>1, <2>2 DEF Steady, Intact
<1>6. Bare(Living(heap'), field', entry')
  BY <1>2 DEF Steady, Bare, But
<1>7. KeepsEntries
  <2>1. entry[w].key \notin Reachable /\ Reachable \subseteq Objects
    BY SteadyReach DEF Reachable
  <2> QED BY <2>1, <1>2 DEF KeepsEntries, But
<1> QED BY <1>3, <1>4, <1>5, <1>6, <1>7 DEF Steady

LEMMA RemoveWeakOK ==
  ASSUME Steady, RemoveWeak
  PROVE  Steady' /\ KeepsEntries
<1> DEFINE w == weakList[cursor]
           v == entry[w].val
           dead == entry[w].key # None /\ ~ Live(entry[w].key)
<1>0. /\ pc = "weak" /\ cursor <= Len(weakList) /\ cursor' = cursor + 1 /\ cursor \in Nat \ {0} /\ cursor' \in Nat \ {0}
      /\ UNCHANGED <<kind, field, roots, weakList, pc, after>>
  BY DEF RemoveWeak, Steady, HeapTypeOK
<1>w. w \in Objects
  BY <1>0 DEF Steady, HeapTypeOK
<1>s. \/ dead /\ kind[w] = "finrec" /\ DeleteAndQueue(w)
      \/ dead /\ kind[w] # "finrec" /\ DeleteWeakrefs(w)
      \/ ~ dead /\ UNCHANGED <<heap, entry, jobs>>
  BY DEF RemoveWeak
<1> HIDE DEF w
<1>n. \A x \in Objects : heap.rc[x] \in Nat
  BY SteadyCounts
<1>j. jobs \in Seq(MaybeObjects)
  BY DEF Steady, HeapTypeOK
<1>1. CASE dead /\ kind[w] = "finrec" /\ DeleteAndQueue(w)
  <2> DEFINE d == Dup(heap, v)
             g == FreeEntry(d, w)
  <2>1. /\ entry' = [entry EXCEPT ![w] = NoEntry] /\ jobs' = Append(jobs, v) /\ heap' = g
        /\ entry[w].key # None /\ heap.rc[entry[w].key] = 0
    BY <1>1 DEF DeleteAndQueue, Live
  <2>2. /\ v \in MaybeObjects /\ (v # None => v \in Living(heap) /\ heap.rc[v] > 0)
        /\ \A x \in Objects : heap.weak[x] >= Is(entry[w].key, x) + Is(Token(w), x)
    BY <1>w, EntryCounted
  <2>3. /\ Sound(d) /\ d.weak = heap.weak /\ d.mem = heap.mem
        /\ \A x \in Objects : d.rc[x] = heap.rc[x] + Is(v, x)
    BY <2>2, DupIs DEF Steady
  <2> HIDE DEF d
  <2>4. v # None => v \in Living(d) /\ d.rc[v] > 0
    <3>1. Is(v, v) = 1
      BY DEF Is
    <3> QED BY <3>1, <2>2, <2>3, <1>n DEF Living
  <2>5. /\ Sound(g) /\ Living(g) = Living(d)
        /\ \A x \in Objects : g.rc[x] = d.rc[x] - Is(v, x)
        /\ \A x \in Objects : g.weak[x] = d.weak[x] - Is(entry[w].key, x) - Is(Token(w), x)
    BY <1>0, <1>w, <2>2, <2>3, <2>4, FreeEntryIs DEF Steady
  <2> HIDE DEF g
  <2>6. Living(heap') = Living(heap)
    BY <2>1, <2>3, <2>5 DEF Living
  <2>7. jobs' \in Seq(MaybeObjects) /\ Range(jobs') \subseteq Range(jobs) \cup {v}
    <3>1. /\ jobs' \in Seq(MaybeObjects) /\ DOMAIN jobs' = 1..(Len(jobs) + 1) /\ Len(jobs) \in Nat
          /\ DOMAIN jobs = 1..Len(jobs)
          /\ \A i \in 1..(Len(jobs) + 1) : jobs'[i] = IF i <= Len(jobs) THEN jobs[i] ELSE v
      BY <2>1, <2>2, <1>j
    <3>2. ASSUME NEW i \in 1..(Len(jobs) + 1) PROVE jobs'[i] \in Range(jobs) \cup {v}
      <4>1. CASE i <= Len(jobs)
        <5>1. i \in DOMAIN jobs /\ jobs'[i] = jobs[i]
          BY <3>1, <4>1
        <5> QED BY <5>1 DEF Range
      <4>2. CASE ~ (i <= Len(jobs))
        BY <3>1, <4>2
      <4> QED BY <4>1, <4>2
    <3> QED BY <3>1, <3>2 DEF Range
  <2>8. ASSUME NEW x \in Objects
        PROVE  heap'.rc[x] =
                 heap.rc[x] - Is(v, x)
                   + (RefCount(roots, jobs', field, entry', Objects, x)
                        - RefCount(roots, jobs, field, entry', Objects, x))
    <3>e. PICK E2 : E2 = entry'
      OBVIOUS
    <3>1. RefCount(roots, Append(jobs, v), field, E2, Objects, x)
            = RefCount(roots, jobs, field, E2, Objects, x) + Is(v, x)
      BY <1>j, <2>2, JobsPush
    <3>2. RefCount(roots, jobs, field, E2, Objects, x) \in Nat /\ Is(v, x) \in Nat
      BY <1>j, RefCountType, IsType
    <3>3. RefCount(roots, Append(jobs, v), field, E2, Objects, x) - RefCount(roots, jobs, field, E2, Objects, x)
            = Is(v, x)
      BY <3>1, <3>2
    <3>4. heap'.rc[x] = heap.rc[x] - Is(v, x) + Is(v, x)
      BY <2>1, <2>3, <2>5, <3>2, <1>n
    <3> QED BY <3>e, <3>3, <3>4, <2>1
  <2>9. \A x \in Objects : heap'.weak[x] = heap.weak[x] - Is(entry[w].key, x) - Is(Token(w), x)
    BY <2>1, <2>3, <2>5
  <2>10. Sound(heap')
    BY <2>1, <2>5
  <2> QED BY <1>0, <1>w, <2>1, <2>6, <2>7, <2>8, <2>9, <2>10, RemovedEntry
<1>2. CASE dead /\ kind[w] # "finrec" /\ DeleteWeakrefs(w)
  <2> DEFINE g == FreeEntry(heap, w)
  <2>1. /\ entry' = [entry EXCEPT ![w] = NoEntry] /\ jobs' = jobs /\ heap' = g
        /\ entry[w].key # None /\ heap.rc[entry[w].key] = 0
    BY <1>2 DEF DeleteWeakrefs, Live
  <2>2. /\ Sound(g) /\ Living(g) = Living(heap)
        /\ \A x \in Objects : g.rc[x] = heap.rc[x] - Is(v, x)
        /\ \A x \in Objects : g.weak[x] = heap.weak[x] - Is(entry[w].key, x) - Is(Token(w), x)
    BY <1>0, <1>w, EntryCounted, FreeEntryIs DEF Steady
  <2> HIDE DEF g
  <2>3. ASSUME NEW x \in Objects
        PROVE  heap'.rc[x] =
                 heap.rc[x] - Is(v, x)
                   + (RefCount(roots, jobs', field, entry', Objects, x)
                        - RefCount(roots, jobs, field, entry', Objects, x))
    <3>e. PICK E2 : E2 = entry'
      OBVIOUS
    <3>1. RefCount(roots, jobs, field, E2, Objects, x) \in Nat /\ Is(v, x) \in Nat
      BY <1>j, RefCountType, IsType
    <3>2. RefCount(roots, jobs, field, E2, Objects, x) - RefCount(roots, jobs, field, E2, Objects, x) = 0
      BY <3>1
    <3>3. heap'.rc[x] = heap.rc[x] - Is(v, x) + 0
      BY <2>1, <2>2, <3>1, <1>n
    <3> QED BY <3>e, <3>2, <3>3, <2>1
  <2>4. jobs' \in Seq(MaybeObjects) /\ Range(jobs') \subseteq Range(jobs) \cup {v}
    BY <2>1, <1>j
  <2> QED BY <1>0, <1>w, <2>1, <2>2, <2>3, <2>4, RemovedEntry
<1>3. CASE ~ dead /\ UNCHANGED <<heap, entry, jobs>>
  <2>1. HeapTypeOK'
    BY <1>0, <1>3 DEF Steady, HeapTypeOK
  <2> QED BY <1>0, <1>3, <2>1 DEF Steady, KeepsEntries
<1> QED BY <1>s, <1>1, <1>2, <1>3
-----------------------------------------------------------------------------
(* The collector: gc_decref. *)

LEMMA InitOK == Init => HeapInv
<1> SUFFICES ASSUME Init PROVE Steady
  BY SteadyGives
<1>1. /\ heap.mem = [o \in Objects |-> "free"] /\ heap.rc = [o \in Objects |-> 0]
      /\ heap.weak = [o \in Objects |-> 0] /\ heap.mark = [o \in Objects |-> 0]
      /\ heap.gc = <<>> /\ heap.zero = <<>> /\ heap.tmp = <<>> /\ heap.faults = {}
  BY DEF Init
<1>2. heap \in HeapRecord
  BY DEF Init, HeapRecord
<1>3. HeapTypeOK
  BY <1>2 DEF Init, HeapTypeOK, MaybeObjects, NoEntry, Kinds, PCs
<1>4. List(<<>>) /\ Range(<<>>) = {}
  BY DEF List, IsInjective, Range
<1>5. Living(heap) = {}
  BY <1>1 DEF Living
<1>6. Sound(heap)
  BY <1>1, <1>2, <1>4, <1>5 DEF Sound, Lists, Marks, Husks
<1>7. /\ roots = {} /\ jobs = <<>> /\ (\A o \in Objects : field[o] = None /\ entry[o] = NoEntry)
      /\ pc = "idle"
  BY DEF Init
<1>8. Intact(Living(heap), roots, jobs, field, entry) /\ Bare(Living(heap), field, entry)
  BY <1>4, <1>7 DEF Intact, Bare, NoEntry
<1>9. Exact(heap, roots, jobs, field, entry, kind, Objects)
  <2> SUFFICES ASSUME NEW x \in Objects
               PROVE  RefCount(roots, jobs, field, entry, Objects, x) = 0 /\ WeakCount(entry, kind, x) = 0
    BY <1>1 DEF Exact
  <2>0. x # None
    BY HeapAssumption
  <2>1. In(roots, x) = 0
    BY <1>7 DEF In
  <2>2. Times(jobs, DOMAIN jobs, x) = 0
    <3>1. DOMAIN jobs = {}
      BY <1>7
    <3> QED BY <3>1, FS_EmptySet, TimesType
  <2>3. Times(field, Objects, x) = 0
    BY <2>0, <1>7, HeapAssumption, TimesType
  <2>4. Times(Vals(entry), Objects, x) = 0
    <3>1. \A p \in Objects : Vals(entry)[p] # x
      BY <2>0, <1>7 DEF Vals, NoEntry
    <3> QED BY <3>1, HeapAssumption, TimesType
  <2>5. Times(Keys(entry), Objects, x) = 0
    <3>1. \A p \in Objects : Keys(entry)[p] # x
      BY <2>0, <1>7 DEF Keys, NoEntry
    <3> QED BY <3>1, HeapAssumption, TimesType
  <2>6. Times(Tokens(entry, kind), Objects, x) = 0
    <3>1. \A p \in Objects : Tokens(entry, kind)[p] # x
      BY <2>0, <1>7 DEF Tokens, NoEntry
    <3> QED BY <3>1, HeapAssumption, TimesType
  <2> QED BY <2>1, <2>2, <2>3, <2>4, <2>5, <2>6 DEF RefCount, WeakCount
<1> QED BY <1>1, <1>3, <1>6, <1>7, <1>8, <1>9 DEF Steady

\* In all of gc_decref and gc_scan nothing is freed; the references of P are counted.
Tracing(P) ==
  /\ HeapTypeOK /\ heap.faults = {} /\ Husks(heap)
  /\ List(heap.gc) /\ heap.zero = <<>> /\ List(heap.tmp)
  /\ P \subseteq Objects /\ Exact(heap, roots, jobs, field, entry, kind, P)
  /\ Intact(Living(heap), roots, jobs, field, entry) /\ Bare(Living(heap), field, entry)

LEMMA TracingFrom == HeapInv /\ pc \in {"decref", "scan", "restore"} => Tracing(Counted)
<1> SUFFICES ASSUME HeapInv, pc \in {"decref", "scan", "restore"} PROVE Tracing(Counted)
  OBVIOUS
<1>1. Alive = Living(heap)
  BY DEF Alive, Living
<1>2. /\ Exact(heap, roots, jobs, field, entry, kind, Counted) /\ Bare(Living(heap), field, entry)
      /\ Counted \in SUBSET Objects
  BY ExactFrom
<1>3. HeapTypeOK /\ heap \in HeapRecord /\ heap.faults = {}
  BY DEF HeapInv, HeapTypeOK, DeadInv
<1>4. List(heap.gc) /\ List(heap.zero) /\ List(heap.tmp) /\ Range(heap.zero) = {}
  BY <1>3 DEF HeapInv, ListInv, List, HeapRecord
<1>5. heap.zero = <<>>
  BY <1>4, ListEmpty
<1>6. Husks(heap)
  BY <1>4 DEF HeapInv, DeadInv, Husks
<1>7. Intact(Living(heap), roots, jobs, field, entry)
  <2>1. \A o \in Objects : Refers(o) \subseteq Living(heap)
    BY <1>1 DEF HeapInv, RefInv
  <2>2. Kept \subseteq Living(heap)
    BY <1>1 DEF Kept, HeapInv, ListInv
  <2>3. roots \cup (Range(jobs) \ {None}) \subseteq Kept
    BY DEF HeapInv, RefInv, Closed
  <2> QED BY <2>1, <2>2, <2>3 DEF Intact, Refers
<1> QED BY <1>2, <1>3, <1>4, <1>5, <1>6, <1>7 DEF Tracing

LEMMA TracingGives == Tracing(Counted) /\ pc \in {"decref", "scan", "restore"} /\ ListInv /\ Closed(Kept) => HeapInv
<1> SUFFICES ASSUME Tracing(Counted), pc \in {"decref", "scan", "restore"}, ListInv, Closed(Kept) PROVE HeapInv
  OBVIOUS
<1>1. Alive = Living(heap)
  BY DEF Alive, Living
<1>2. HeapTypeOK /\ heap \in HeapRecord /\ Bare(Living(heap), field, entry) /\ Counted \in SUBSET Objects
  BY DEF Tracing, HeapTypeOK
<1>3. CountInv
  <2>1. \A o \in Objects : WeakRefs(o) = WeakCount(entry, kind, o)
    BY <1>2, WeaksAre
  <2>2. \A o \in Objects : BaseRefs(o) + RefsFrom(Counted, o) = RefCount(roots, jobs, field, entry, Counted, o)
    BY <1>2, CountsAre
  <2> QED BY <2>1, <2>2 DEF CountInv, Tracing, Exact
<1>4. RefInv
  <2>1. \A o \in Objects : Refers(o) \subseteq Alive
    BY <1>1 DEF Tracing, Intact, Refers
  <2> QED BY <2>1 DEF RefInv
<1>5. DeadInv
  BY <1>1, <1>2 DEF Tracing, Husks, Bare, DeadInv
<1> QED BY <1>2, <1>3, <1>4, <1>5 DEF HeapInv

\* Only objects that are there count.
LEMMA LivingCount ==
  ASSUME Bare(Living(heap), field, entry), NEW P \in SUBSET Objects, NEW Q \in SUBSET Objects,
         P \cap Living(heap) = Q \cap Living(heap), NEW x \in Objects
  PROVE  RefCount(roots, jobs, field, entry, P, x) = RefCount(roots, jobs, field, entry, Q, x)
<1>1. \A p \in (P \ Q) \cup (Q \ P) : field[p] # x /\ entry[p].val # x
  BY HeapAssumption DEF Bare, NoEntry
<1> QED BY <1>1, RefCountMore

\* An object is on tmp_obj_list when it was visited and no other reference to it is known.
DecLists(h) ==
  /\ h \in HeapRecord /\ h.faults = {} /\ List(h.gc) /\ h.zero = <<>> /\ List(h.tmp)
  /\ Range(h.tmp) = {o \in Living(h) : h.rc[o] = 0 /\ h.mark[o] = 1}
  /\ Range(h.gc) = Living(h) \ Range(h.tmp)

Decreasing == pc = "decref" /\ Tracing({o \in Objects : heap.mark[o] = 0}) /\ DecLists(heap)

LEMMA DecreasingFrom == HeapInv /\ pc = "decref" => Decreasing
<1> SUFFICES ASSUME HeapInv, pc = "decref" PROVE Decreasing
  OBVIOUS
<1>1. Counted = {o \in Objects : heap.mark[o] = 0} /\ Alive = Living(heap)
  BY DEF Counted, Alive, Living
<1>2. Tracing({o \in Objects : heap.mark[o] = 0})
  BY <1>1, TracingFrom
<1>3. DecLists(heap)
  BY <1>1, <1>2 DEF Tracing, HeapTypeOK, HeapInv, ListInv, DecLists
<1> QED BY <1>2, <1>3 DEF Decreasing

LEMMA DecreasingGives == Decreasing => HeapInv
<1> SUFFICES ASSUME Decreasing PROVE HeapInv
  OBVIOUS
<1>1. /\ Counted = {o \in Objects : heap.mark[o] = 0} /\ Alive = Living(heap) /\ pc = "decref"
      /\ Kept = Alive /\ Alive \subseteq Objects
  BY DEF Counted, Alive, Living, Decreasing, Kept
<1>2. Tracing(Counted)
  BY <1>1 DEF Decreasing
<1>3. ListInv
  <2>1. Range(heap.zero) = {} /\ IsInjective(heap.zero)
    BY DEF Range, IsInjective, Decreasing, DecLists
  <2> QED BY <1>1, <2>1 DEF Decreasing, DecLists, List, ListInv
<1>4. Closed(Kept)
  BY <1>1, <1>2 DEF Tracing, Intact, Closed, Refers
<1> QED BY <1>1, <1>2, <1>3, <1>4, TracingGives

\* The list of objects without references is empty: back to JavaScript, or on with the
\* collection.
LEMMA DrainedOK ==
  ASSUME Steady, pc = "drain", heap.zero = <<>>, pc' = after, after' = "idle",
         UNCHANGED <<heap, refVars, cursor>>
  PROVE  (Steady' \/ Decreasing') /\ KeepsEntries
<1>1. /\ UNCHANGED <<heap, kind, field, entry, roots, jobs, weakList, cursor>>
      /\ after \in {"idle", "decref"} /\ after' = "idle"
  BY DEF refVars, Steady, HeapTypeOK
<1>2. KeepsEntries
  BY <1>1 DEF KeepsEntries
<1>3. CASE after = "idle"
  <2>1. HeapTypeOK'
    BY <1>1, <1>3 DEF Steady, HeapTypeOK, PCs
  <2>2. Steady'
    BY <2>1, <1>1, <1>3 DEF Steady
  <2> QED BY <2>2, <1>2
<1>4. CASE after = "decref"
  <2> DEFINE P == {o \in Objects : heap.mark[o] = 0}
  <2>1. HeapTypeOK'
    BY <1>1, <1>4 DEF Steady, HeapTypeOK, PCs
  <2>2. Range(heap.zero) = {}
    BY DEF Range
  <2>3. /\ Range(heap.gc) = Living(heap) /\ heap.tmp = <<>> /\ List(heap.tmp) /\ Range(heap.tmp) = {}
        /\ \A o \in Living(heap) : heap.mark[o] = 0
    <3>1. /\ Range(heap.gc) = {o \in Living(heap) : heap.rc[o] > 0} /\ heap.tmp = <<>>
          /\ {o \in Living(heap) : heap.rc[o] = 0} = {} /\ \A o \in Range(heap.gc) : heap.mark[o] = 0
      BY <2>2 DEF Steady, Sound, Lists, Marks
    <3>2. \A o \in Living(heap) : heap.rc[o] \in Nat
      BY SteadyCounts DEF Living
    <3>3. \A o \in Living(heap) : heap.rc[o] > 0
      BY <3>1, <3>2
    <3> QED BY <3>1, <3>3 DEF List, IsInjective, Range
  <2>4. DecLists(heap)
    BY <2>3 DEF DecLists, Steady, Sound, Lists
  <2>5. Tracing(P)
    <3>1. Exact(heap, roots, jobs, field, entry, kind, P)
      <4> SUFFICES ASSUME NEW x \in Objects
                   PROVE  RefCount(roots, jobs, field, entry, P, x) = RefCount(roots, jobs, field, entry, Objects, x)
        BY DEF Exact, Steady
      <4>1. P \in SUBSET Objects /\ P \cap Living(heap) = Objects \cap Living(heap)
        BY <2>3 DEF Living
      <4> QED BY <4>1, LivingCount DEF Steady
    <3> QED BY <3>1, <2>3 DEF Tracing, Steady, Sound, Lists
  <2>6. Decreasing'
    BY <2>1, <2>4, <2>5, <1>1, <1>4 DEF Decreasing, Tracing
  <2> QED BY <2>6, <1>2
<1> QED BY <1>1, <1>3, <1>4

\* An object goes to the end of tmp_obj_list.
ToTmp(h, o) == [Unlist(h, o) EXCEPT !.tmp = Append(@, o)]

LEMMA ToTmpIs ==
  ASSUME NEW h \in HeapRecord, NEW o \in Objects,
         List(h.gc), List(h.tmp), h.zero = <<>>, o \notin Range(h.tmp)
  PROVE  LET g == ToTmp(h, o) IN
         /\ g \in HeapRecord /\ g.mem = h.mem /\ g.rc = h.rc /\ g.weak = h.weak /\ g.mark = h.mark
         /\ g.faults = h.faults /\ g.zero = <<>>
         /\ List(g.gc) /\ Range(g.gc) = Range(h.gc) \ {o}
         /\ List(g.tmp) /\ Range(g.tmp) = Range(h.tmp) \cup {o}
<1> DEFINE u == Unlist(h, o)
           t == Append(u.tmp, o)
           g == [u EXCEPT !.tmp = t]
<1>1. Fields(u, h.mem, h.rc, h.weak, h.mark,
             RemoveFirst(h.gc, o), RemoveFirst(h.zero, o), RemoveFirst(h.tmp, o), h.faults)
  BY UnlistIs
<1> HIDE DEF u
<1>2. u \in HeapRecord /\ u.gc = RemoveFirst(h.gc, o) /\ u.zero = <<>> /\ u.tmp = h.tmp
  <2>1. <<>> \in Seq(Objects) /\ o \notin Range(<<>>) /\ h.tmp \in Seq(Objects)
    BY DEF Range, List
  <2> QED BY <2>1, <1>1, RemovedAbsent DEF Fields
<1>3. List(u.gc) /\ Range(u.gc) = Range(h.gc) \ {o}
  BY <1>2, RemovedIs
<1>4. List(t) /\ Range(t) = Range(h.tmp) \cup {o}
  BY <1>2, AppendedIs
<1> HIDE DEF t
<1>5. t \in Seq(Objects)
  BY <1>4 DEF List
<1>6. Fields(g, u.mem, u.rc, u.weak, u.mark, u.gc, u.zero, t, u.faults)
  BY <1>2, <1>5 DEF HeapRecord, Fields
<1>7. [u EXCEPT !.tmp = Append(@, o)] = g
  BY <1>2 DEF HeapRecord, t
<1>8. ToTmp(h, o) = g
  BY <1>7 DEF ToTmp, u
<1> HIDE DEF g
<1> QED BY <1>1, <1>2, <1>3, <1>4, <1>6, <1>8 DEF Fields

LEMMA DecrefChildIs ==
  ASSUME NEW h, DecLists(h), NEW o \in MaybeObjects, o # None => o \in Living(h) /\ h.rc[o] > 0
  PROVE  LET g == DecrefChild(h, o) IN
         /\ DecLists(g) /\ g.weak = h.weak /\ g.mem = h.mem /\ g.mark = h.mark
         /\ \A x \in Objects : g.rc[x] = h.rc[x] - Is(o, x)
<1>0. \A x \in Objects : h.rc[x] \in Int
  BY DEF DecLists, HeapRecord
<1>1. CASE o = None
  <2>1. DecrefChild(h, o) = h
    BY <1>1 DEF DecrefChild
  <2> QED BY <1>0, <1>1, <2>1, NoneIsNot
<1>2. CASE o # None
  <2> DEFINE h1 == [h EXCEPT !.rc[o] = @ - 1]
             g == DecrefChild(h, o)
  <2>1. o \in Objects /\ h.mem[o] = "object" /\ h.rc[o] > 0 /\ h \in HeapRecord
    BY <1>2 DEF Living, DecLists
  <2>2. g = IF h1.rc[o] = 0 /\ h1.mark[o] = 1 THEN ToTmp(h1, o) ELSE h1
    BY <1>2, <2>1, TouchIs DEF DecrefChild, ToTmp
  <2>3. Fields(h1, h.mem, [h.rc EXCEPT ![o] = h.rc[o] - 1], h.weak, h.mark, h.gc, h.zero, h.tmp, h.faults)
    BY <2>1, DecIs
  <2> HIDE DEF h1
  <2>4. /\ h1 \in HeapRecord /\ h1.mem = h.mem /\ h1.weak = h.weak /\ h1.mark = h.mark
        /\ h1.gc = h.gc /\ h1.zero = <<>> /\ h1.tmp = h.tmp /\ h1.faults = {}
    BY <2>3 DEF Fields, DecLists
  <2>5. \A x \in Objects : h1.rc[x] = h.rc[x] - Is(o, x)
    BY <2>1, <2>3 DEF Fields, HeapRecord, Is
  <2>6. /\ \A x \in Objects : x # o => h1.rc[x] = h.rc[x]
        /\ h1.rc[o] = h.rc[o] - 1
    BY <1>0, <2>1, <2>5 DEF Is
  <2>7. Living(h1) = Living(h) /\ Living(h) \subseteq Objects
    BY <2>4 DEF Living
  <2>8. o \notin Range(h.tmp) /\ List(h.gc) /\ List(h.tmp)
    BY <2>1 DEF DecLists
  <2>a. CASE h1.rc[o] = 0 /\ h1.mark[o] = 1
    <3>1. /\ g \in HeapRecord /\ g.mem = h1.mem /\ g.rc = h1.rc /\ g.weak = h1.weak /\ g.mark = h1.mark
          /\ g.faults = h1.faults /\ g.zero = <<>>
          /\ List(g.gc) /\ Range(g.gc) = Range(h1.gc) \ {o}
          /\ List(g.tmp) /\ Range(g.tmp) = Range(h1.tmp) \cup {o}
      BY <2>a, <2>1, <2>2, <2>4, <2>8, ToTmpIs
    <3> HIDE DEF g
    <3>2. Living(g) = Living(h)
      BY <3>1, <2>7 DEF Living
    <3>3. Range(g.tmp) = {x \in Living(g) : g.rc[x] = 0 /\ g.mark[x] = 1}
      BY <3>1, <3>2, <2>a, <2>1, <2>4, <2>6, <2>7 DEF DecLists, Living
    <3>4. DecLists(g)
      BY <3>1, <3>2, <3>3, <2>4 DEF DecLists
    <3> QED BY <3>1, <3>4, <2>4, <2>5 DEF g
  <2>b. CASE ~ (h1.rc[o] = 0 /\ h1.mark[o] = 1)
    <3>1. Range(h1.tmp) = {x \in Living(h1) : h1.rc[x] = 0 /\ h1.mark[x] = 1}
      BY <2>b, <2>1, <2>4, <2>6, <2>7, <2>8 DEF DecLists
    <3>2. DecLists(h1)
      BY <3>1, <2>4, <2>7 DEF DecLists
    <3> QED BY <3>2, <2>2, <2>b, <2>4, <2>5
  <2> QED BY <2>a, <2>b
<1> QED BY <1>1, <1>2

\* A record of the heap with one more mark.
LEMMA MarkIs ==
  ASSUME NEW h \in HeapRecord, NEW p \in Objects, NEW m \in {0, 1}
  PROVE  LET g == [h EXCEPT !.mark[p] = m] IN
         /\ Fields(g, h.mem, h.rc, h.weak, [h.mark EXCEPT ![p] = m], h.gc, h.zero, h.tmp, h.faults)
         /\ g.mark[p] = m /\ \A x \in Objects : x # p => g.mark[x] = h.mark[x]
<1> DEFINE f == [h.mark EXCEPT ![p] = m]
<1>1. /\ f \in [Objects -> {0, 1}] /\ f[p] = m /\ \A x \in Objects : x # p => f[x] = h.mark[x]
  BY DEF HeapRecord
<1>2. [h EXCEPT !.mark[p] = m] = [h EXCEPT !.mark = f]
  BY DEF HeapRecord
<1> HIDE DEF f
<1>3. Fields([h EXCEPT !.mark = f], h.mem, h.rc, h.weak, f, h.gc, h.zero, h.tmp, h.faults)
  BY <1>1, PutMark
<1>4. [h EXCEPT !.mark = f].mark = f
  BY <1>3 DEF Fields
<1> QED BY <1>1, <1>2, <1>3, <1>4 DEF f

\* The visit of p in gc_decref.
LEMMA VisitedIs ==
  ASSUME DecLists(heap), NEW p \in Living(heap), heap.mark[p] = 0, HeapTypeOK,
         \A x \in Objects : heap.rc[x] \in Nat /\ heap.rc[x] >= Is(field[p], x) + Is(entry[p].val, x),
         Refers(p) \subseteq Living(heap)
  PROVE  LET g == Visited(p) IN
         /\ DecLists(g) /\ g.weak = heap.weak /\ g.mem = heap.mem
         /\ \A x \in Objects : g.rc[x] = heap.rc[x] - Is(field[p], x) - Is(entry[p].val, x)
         /\ g.mark[p] = 1 /\ \A x \in Objects : x # p => g.mark[x] = heap.mark[x]
<1> DEFINE v == entry[p].val
           a == DecrefChild(heap, field[p])
           b == DecrefChild(a, v)
           h == [b EXCEPT !.mark[p] = 1]
           g == Visited(p)
<1>1. p \in Objects /\ field[p] \in MaybeObjects /\ v \in MaybeObjects
  BY DEF Living, HeapTypeOK
<1>2. field[p] # None => field[p] \in Living(heap) /\ heap.rc[field[p]] > 0
  <2> SUFFICES ASSUME field[p] # None PROVE field[p] \in Living(heap) /\ heap.rc[field[p]] > 0
    OBVIOUS
  <2>1. field[p] \in Living(heap) /\ field[p] \in Objects
    BY DEF Refers, Living
  <2>2. Is(field[p], field[p]) = 1 /\ Is(v, field[p]) \in Nat
    BY DEF Is
  <2> QED BY <2>1, <2>2
<1>3. /\ DecLists(a) /\ a.weak = heap.weak /\ a.mem = heap.mem /\ a.mark = heap.mark
      /\ \A x \in Objects : a.rc[x] = heap.rc[x] - Is(field[p], x)
  BY <1>1, <1>2, DecrefChildIs
<1> HIDE DEF a
<1>4. v # None => v \in Living(a) /\ a.rc[v] > 0
  <2> SUFFICES ASSUME v # None PROVE v \in Living(a) /\ a.rc[v] > 0
    OBVIOUS
  <2>1. v \in Living(heap) /\ v \in Objects
    BY DEF Refers, Living
  <2>2. Is(v, v) = 1 /\ Is(field[p], v) \in Nat
    BY DEF Is
  <2>3. heap.rc[v] \in Nat /\ heap.rc[v] >= Is(field[p], v) + Is(v, v)
    BY <2>1
  <2> HIDE DEF v
  <2>4. a.rc[v] > 0
    BY <2>1, <2>2, <2>3, <1>3
  <2> QED BY <2>1, <2>4, <1>3 DEF Living
<1>5. /\ DecLists(b) /\ b.weak = a.weak /\ b.mem = a.mem /\ b.mark = a.mark
      /\ \A x \in Objects : b.rc[x] = a.rc[x] - Is(v, x)
  BY <1>1, <1>3, <1>4, DecrefChildIs
<1>6. g = IF h.rc[p] = 0 THEN ToTmp(h, p) ELSE h
  BY DEF Visited, ToTmp, a
<1> HIDE DEF b
<1>7. /\ Fields(h, b.mem, b.rc, b.weak, [b.mark EXCEPT ![p] = 1], b.gc, b.zero, b.tmp, b.faults)
      /\ h.mark[p] = 1 /\ \A x \in Objects : x # p => h.mark[x] = b.mark[x]
  BY <1>1, <1>5, MarkIs DEF DecLists
<1> HIDE DEF h
<1>8. /\ h \in HeapRecord /\ h.mem = heap.mem /\ h.rc = b.rc /\ h.weak = heap.weak
      /\ h.gc = b.gc /\ h.zero = <<>> /\ h.tmp = b.tmp /\ h.faults = {}
      /\ h.mark[p] = 1 /\ \A x \in Objects : x # p => h.mark[x] = heap.mark[x]
  BY <1>3, <1>5, <1>7 DEF Fields, DecLists
<1>9. /\ Living(b) = Living(heap) /\ Living(h) = Living(heap) /\ Living(heap) \subseteq Objects
      /\ b.mark = heap.mark
  BY <1>3, <1>5, <1>8 DEF Living
<1>10. List(h.gc) /\ List(h.tmp) /\ p \notin Range(h.tmp) /\ p \in Range(h.gc)
  BY <1>5, <1>8, <1>9 DEF DecLists
<1>11. \A x \in Objects : b.rc[x] = heap.rc[x] - Is(field[p], x) - Is(v, x)
  BY <1>3, <1>5
<1>a. CASE h.rc[p] = 0
  <2>0. g = ToTmp(h, p)
    BY <1>a, <1>6
  <2>5. h \in HeapRecord /\ h.zero = <<>> /\ p \in Objects
    BY <1>1, <1>8
  <2> HIDE DEF g
  <2>1. /\ g \in HeapRecord /\ g.mem = h.mem /\ g.rc = h.rc /\ g.weak = h.weak /\ g.mark = h.mark
        /\ g.faults = h.faults /\ g.zero = <<>>
        /\ List(g.gc) /\ Range(g.gc) = Range(h.gc) \ {p}
        /\ List(g.tmp) /\ Range(g.tmp) = Range(h.tmp) \cup {p}
    BY <2>0, <2>5, <1>10, ToTmpIs
  <2>2. Living(g) = Living(heap)
    BY <2>1, <1>8 DEF Living
  <2>3. Range(g.tmp) = {x \in Living(g) : g.rc[x] = 0 /\ g.mark[x] = 1}
    BY <2>1, <2>2, <1>a, <1>5, <1>8, <1>9 DEF DecLists
  <2>4. DecLists(g)
    BY <2>1, <2>2, <2>3, <1>5, <1>8, <1>9 DEF DecLists
  <2> QED BY <2>1, <2>4, <1>8, <1>11 DEF g
<1>b. CASE h.rc[p] # 0
  <2>1. Range(h.tmp) = {x \in Living(h) : h.rc[x] = 0 /\ h.mark[x] = 1}
    BY <1>b, <1>5, <1>8, <1>9, <1>10 DEF DecLists
  <2>2. DecLists(h)
    BY <2>1, <1>5, <1>8, <1>9 DEF DecLists
  <2> QED BY <2>2, <1>b, <1>6, <1>8, <1>11
<1> QED BY <1>a, <1>b

\* What the counts say in the passes of the collector.
LEMMA TracingCounts ==
  ASSUME NEW P, Tracing(P)
  PROVE  /\ \A x \in Objects : heap.rc[x] \in Nat /\ heap.weak[x] \in Nat
         /\ \A p \in Objects : Refers(p) \subseteq Living(heap)
         /\ \A p \in P : \A x \in Objects : heap.rc[x] >= Is(field[p], x) + Is(entry[p].val, x)
<1>1. jobs \in Seq(MaybeObjects) /\ P \in SUBSET Objects
  BY DEF Tracing, HeapTypeOK
<1>2. ASSUME NEW x \in Objects PROVE heap.rc[x] \in Nat /\ heap.weak[x] \in Nat
  <2>1. RefCount(roots, jobs, field, entry, P, x) \in Nat
    BY <1>1, RefCountType
  <2>2. WeakCount(entry, kind, x) \in Nat
    BY WeakCountType
  <2> QED BY <2>1, <2>2 DEF Tracing, Exact
<1>3. ASSUME NEW p \in P, NEW x \in Objects PROVE heap.rc[x] >= Is(field[p], x) + Is(entry[p].val, x)
  <2>1. RefCount(roots, jobs, field, entry, P, x) >= Is(field[p], x) + Is(entry[p].val, x)
    BY <1>1, RefCountLeast
  <2> QED BY <2>1 DEF Tracing, Exact
<1>4. \A p \in Objects : Refers(p) \subseteq Living(heap)
  BY DEF Tracing, Intact, Refers
<1> QED BY <1>2, <1>3, <1>4

\* What the program can reach does not change while the collector only counts.
LEMMA ReachableSame ==
  ASSUME UNCHANGED <<roots, jobs, field, entry>>
  PROVE  Reachable' = Reachable
<1>1. \A S : Closed(S)' <=> Closed(S)
  BY DEF Closed, Refers
<1> QED BY <1>1 DEF Reachable

\* A step of the collector that changes counts, marks and lists only.
LEMMA TracingStep ==
  ASSUME NEW P, Tracing(P), NEW g, heap' = g, g \in HeapRecord, g.faults = {},
         g.mem = heap.mem, g.weak = heap.weak, List(g.gc), g.zero = <<>>, List(g.tmp),
         \A x \in Objects : x \notin Living(heap) => g.rc[x] = heap.rc[x] /\ g.mark[x] = heap.mark[x],
         NEW Q \in SUBSET Objects,
         \A x \in Objects : g.rc[x] = RefCount(roots, jobs, field, entry, Q, x),
         UNCHANGED <<refVars, after>>, pc \in {"decref", "scan", "restore"}, pc' = pc, cursor' \in Nat
  PROVE  Tracing(Q)' /\ KeepsEntries /\ Living(heap') = Living(heap)
<1>0. UNCHANGED <<kind, field, entry, roots, jobs, weakList, after>>
  BY DEF refVars
<1>1. HeapTypeOK'
  BY <1>0 DEF Tracing, HeapTypeOK
<1>2. Living(g) = Living(heap)
  BY DEF Living
<1>3. Husks(g)
  <2>1. \A x \in Objects : g.mem[x] = "husk" => x \notin Living(heap)
    BY DEF Living
  <2> QED BY <2>1 DEF Tracing, Husks
<1>4. Exact(g, roots, jobs, field, entry, kind, Q)
  BY DEF Tracing, Exact
<1>5. Tracing(Q)'
  BY <1>0, <1>1, <1>2, <1>3, <1>4 DEF Tracing
<1> QED BY <1>0, <1>2, <1>5 DEF KeepsEntries

LEMMA DecrefOneOK ==
  ASSUME Decreasing, NEW p \in Range(heap.gc), heap.mark[p] = 0, heap' = Visited(p),
         UNCHANGED <<refVars, after, pc, cursor>>
  PROVE  Decreasing' /\ KeepsEntries
<1> DEFINE g == Visited(p)
<1>0. PICK P, Q : P = {o \in Objects : heap.mark[o] = 0} /\ Q = P \ {p}
  OBVIOUS
<1>1. Tracing(P) /\ DecLists(heap) /\ HeapTypeOK /\ pc = "decref" /\ jobs \in Seq(MaybeObjects)
  BY <1>0 DEF Decreasing, Tracing, HeapTypeOK
<1>2. p \in Living(heap) /\ p \in Objects /\ p \in P
  BY <1>0, <1>1 DEF DecLists, Living
<1>3. P \in SUBSET Objects /\ Q \in SUBSET Objects /\ p \notin Q /\ P = Q \cup {p}
  BY <1>0, <1>2
<1>4. /\ \A x \in Objects : heap.rc[x] \in Nat /\ heap.rc[x] >= Is(field[p], x) + Is(entry[p].val, x)
      /\ Refers(p) \subseteq Living(heap)
  BY <1>1, <1>2, TracingCounts
<1>5. /\ DecLists(g) /\ g.weak = heap.weak /\ g.mem = heap.mem
      /\ \A x \in Objects : g.rc[x] = heap.rc[x] - Is(field[p], x) - Is(entry[p].val, x)
      /\ g.mark[p] = 1 /\ \A x \in Objects : x # p => g.mark[x] = heap.mark[x]
  BY <1>1, <1>2, <1>4, VisitedIs
<1>6. heap' = g
  OBVIOUS
<1> HIDE DEF g
<1>7. ASSUME NEW x \in Objects PROVE g.rc[x] = RefCount(roots, jobs, field, entry, Q, x)
  <2>1. RefCount(roots, jobs, field, entry, Q \cup {p}, x) =
          RefCount(roots, jobs, field, entry, Q, x) + Is(field[p], x) + Is(entry[p].val, x)
    BY <1>1, <1>2, <1>3, RefCountAdd
  <2>2. heap.rc[x] = RefCount(roots, jobs, field, entry, Q \cup {p}, x)
    BY <1>1, <1>3 DEF Tracing, Exact
  <2>3. RefCount(roots, jobs, field, entry, Q, x) \in Nat /\ Is(field[p], x) \in Nat /\ Is(entry[p].val, x) \in Nat
    BY <1>1, <1>3, RefCountType, IsType
  <2> QED BY <2>1, <2>2, <2>3, <1>5
<1>8. \A x \in Objects : x \notin Living(heap) => g.rc[x] = heap.rc[x] /\ g.mark[x] = heap.mark[x]
  <2> SUFFICES ASSUME NEW x \in Objects, x \notin Living(heap)
               PROVE  g.rc[x] = heap.rc[x] /\ g.mark[x] = heap.mark[x]
    OBVIOUS
  <2>1. x \notin Refers(p) /\ x # p /\ x # None
    BY <1>2, <1>4, HeapAssumption
  <2>2. Is(field[p], x) = 0 /\ Is(entry[p].val, x) = 0
    BY <2>1 DEF Is, Refers
  <2> QED BY <2>1, <2>2, <1>4, <1>5
<1>a. /\ g \in HeapRecord /\ g.faults = {} /\ List(g.gc) /\ g.zero = <<>> /\ List(g.tmp)
      /\ pc' = pc /\ cursor' \in Nat
  BY <1>1, <1>5 DEF DecLists, HeapTypeOK
<1>9. Tracing(Q)' /\ KeepsEntries
  BY <1>a, <1>1, <1>3, <1>5, <1>6, <1>7, <1>8, TracingStep
<1>10. Q = {o \in Objects : g.mark[o] = 0}
  BY <1>0, <1>2, <1>5
<1>11. Decreasing'
  <2>1. pc' = "decref" /\ DecLists(heap)'
    BY <1>1, <1>5, <1>6
  <2>2. Tracing({o \in Objects : heap.mark[o] = 0})'
    BY <1>6, <1>9, <1>10
  <2> QED BY <2>1, <2>2 DEF Decreasing
<1> QED BY <1>9, <1>11
-----------------------------------------------------------------------------
(* The collector: gc_scan. *)

\* The elements of a list before position n.
Before(s, n) == {s[i] : i \in 1..n - 1}

LEMMA BeforeIs ==
  ASSUME NEW s, List(s)
  PROVE  /\ Before(s, 1) = {} /\ Before(s, Len(s) + 1) = Range(s)
         /\ \A n \in 1..Len(s) + 1 : Before(s, n) \subseteq Range(s)
         /\ \A n \in 1..Len(s) : /\ Before(s, n + 1) = Before(s, n) \cup {s[n]} /\ s[n] \notin Before(s, n)
                                 /\ s[n] \in Range(s)
<1>1. /\ s \in Seq(Objects) /\ Len(s) \in Nat /\ DOMAIN s = 1..Len(s)
      /\ \A j, k \in 1..Len(s) : s[j] = s[k] => j = k
  BY DEF List, IsInjective
<1>2. Before(s, 1) = {}
  BY DEF Before
<1>3. Before(s, Len(s) + 1) = Range(s)
  <2>1. 1..(Len(s) + 1) - 1 = DOMAIN s
    BY <1>1
  <2> QED BY <2>1 DEF Before, Range
<1>4. ASSUME NEW n \in 1..Len(s) + 1 PROVE Before(s, n) \subseteq Range(s)
  <2>1. 1..n - 1 \subseteq DOMAIN s
    BY <1>1
  <2> QED BY <2>1 DEF Before, Range
<1>5. ASSUME NEW n \in 1..Len(s)
      PROVE  /\ Before(s, n + 1) = Before(s, n) \cup {s[n]} /\ s[n] \notin Before(s, n)
             /\ s[n] \in Range(s)
  <2>1. 1..(n + 1) - 1 = (1..n - 1) \cup {n}
    BY <1>1
  <2>2. Before(s, n + 1) = Before(s, n) \cup {s[n]}
    BY <2>1 DEF Before
  <2>3. \A i \in 1..n - 1 : i \in 1..Len(s) /\ i # n
    BY <1>1
  <2>4. s[n] \notin Before(s, n)
    BY <1>1, <2>3 DEF Before
  <2>5. s[n] \in Range(s)
    BY <1>1 DEF Range
  <2> QED BY <2>2, <2>4, <2>5
<1> QED BY <1>2, <1>3, <1>4, <1>5

\* Where an object is follows from its count again.
ScanLists(h) ==
  /\ h \in HeapRecord /\ h.faults = {} /\ List(h.gc) /\ h.zero = <<>> /\ List(h.tmp)
  /\ Range(h.gc) = {o \in Living(h) : h.rc[o] > 0}
  /\ Range(h.tmp) = {o \in Living(h) : h.rc[o] = 0}
  /\ \A o \in Range(h.tmp) : h.mark[o] = 1
  /\ \A o \in Living(h) : h.rc[o] >= 0

Scanning ==
  /\ pc = "scan" /\ Tracing(Before(heap.gc, cursor)) /\ ScanLists(heap)
  /\ cursor \in 1..Len(heap.gc) + 1
  /\ \A o \in Before(heap.gc, cursor) : heap.mark[o] = 0
  /\ Range(heap.gc) \subseteq Reachable

LEMMA ScanningFrom == HeapInv /\ pc = "scan" => Scanning
<1> SUFFICES ASSUME HeapInv, pc = "scan" PROVE Scanning
  OBVIOUS
<1>1. Counted = Before(heap.gc, cursor) /\ Alive = Living(heap)
  BY DEF Counted, Alive, Living, Before
<1>2. Tracing(Before(heap.gc, cursor))
  BY <1>1, TracingFrom
<1>3. \A o \in Living(heap) : heap.rc[o] >= 0
  BY <1>2, TracingCounts DEF Living
<1>4. ScanLists(heap)
  BY <1>1, <1>2, <1>3 DEF Tracing, HeapTypeOK, HeapInv, ListInv, ScanLists
<1> QED BY <1>1, <1>2, <1>4 DEF Scanning, HeapInv, ListInv

LEMMA ScanningGives == Scanning => HeapInv
<1> SUFFICES ASSUME Scanning PROVE HeapInv
  OBVIOUS
<1>1. /\ Counted = Before(heap.gc, cursor) /\ Alive = Living(heap) /\ pc = "scan"
      /\ Kept = Alive /\ Alive \subseteq Objects
  BY DEF Counted, Alive, Living, Scanning, Kept, Before
<1>2. Tracing(Counted)
  BY <1>1 DEF Scanning
<1>3. ListInv
  <2>1. Range(heap.zero) = {} /\ IsInjective(heap.zero)
    BY DEF Range, IsInjective, Scanning, ScanLists
  <2> QED BY <1>1, <2>1 DEF Scanning, ScanLists, List, ListInv
<1>4. Closed(Kept)
  BY <1>1, <1>2 DEF Tracing, Intact, Closed, Refers
<1> QED BY <1>1, <1>2, <1>3, <1>4, TracingGives

\* Every object was visited: the counts are those of the references from outside.
LEMMA DecrefDoneOK ==
  ASSUME Decreasing, \A i \in DOMAIN heap.gc : heap.mark[heap.gc[i]] = 1,
         pc' = "scan", cursor' = 1, UNCHANGED <<heap, refVars, after>>
  PROVE  Scanning' /\ KeepsEntries
<1>0. UNCHANGED <<heap, kind, field, entry, roots, jobs, weakList, after>>
  BY DEF refVars
<1>1. PICK P : P = {o \in Objects : heap.mark[o] = 0}
  OBVIOUS
<1>2. Tracing(P) /\ DecLists(heap) /\ HeapTypeOK /\ pc = "decref" /\ jobs \in Seq(MaybeObjects)
  BY <1>1 DEF Decreasing, Tracing, HeapTypeOK
<1>3. Range(heap.gc) \cup Range(heap.tmp) = Living(heap) /\ Living(heap) \subseteq Objects
  BY <1>2 DEF DecLists, Living
<1>4. \A o \in Living(heap) : heap.mark[o] = 1
  <2>1. \A o \in Range(heap.gc) : heap.mark[o] = 1
    BY DEF Range
  <2>2. \A o \in Range(heap.tmp) : heap.mark[o] = 1
    BY <1>2 DEF DecLists
  <2> QED BY <2>1, <2>2, <1>3
<1>5. \A x \in Objects : heap.rc[x] \in Nat
  BY <1>2, TracingCounts
<1>6. ASSUME NEW x \in Objects PROVE heap.rc[x] = RefCount(roots, jobs, field, entry, {}, x)
  <2>1. P \in SUBSET Objects /\ P \cap Living(heap) = {} \cap Living(heap)
    BY <1>1, <1>4
  <2>2. RefCount(roots, jobs, field, entry, P, x) = RefCount(roots, jobs, field, entry, {}, x)
    BY <2>1, <1>2, LivingCount DEF Tracing
  <2> QED BY <2>2, <1>2 DEF Tracing, Exact
<1>7. Tracing({})
  BY <1>2, <1>6 DEF Tracing, Exact
<1>8. ScanLists(heap)
  <2>1. /\ Range(heap.tmp) = {o \in Living(heap) : heap.rc[o] = 0}
        /\ Range(heap.gc) = {o \in Living(heap) : heap.rc[o] > 0}
    BY <1>2, <1>3, <1>4, <1>5 DEF DecLists
  <2>2. \A o \in Living(heap) : heap.rc[o] >= 0
    BY <1>3, <1>5
  <2> QED BY <2>1, <2>2, <1>2, <1>3, <1>4 DEF DecLists, ScanLists
<1>9. Range(heap.gc) \subseteq Reachable
  <2> SUFFICES ASSUME NEW x \in Range(heap.gc) PROVE x \in Reachable
    OBVIOUS
  <2>1. x \in Objects /\ heap.rc[x] > 0
    BY <1>3, <1>8 DEF ScanLists
  <2>2. x \in roots \/ x \in Range(jobs)
    BY <2>1, <1>2, <1>6, RefCountType
  <2>3. \A S \in SUBSET Objects : Closed(S) => x \in S
    BY <2>1, <2>2, HeapAssumption DEF Closed
  <2> QED BY <2>1, <2>3 DEF Reachable
<1>10. Before(heap.gc, 1) = {} /\ 1 \in 1..Len(heap.gc) + 1
  <2>1. List(heap.gc) /\ Len(heap.gc) \in Nat
    BY <1>8 DEF ScanLists, List
  <2> QED BY <2>1, BeforeIs
<1>11. HeapTypeOK'
  BY <1>0, <1>2 DEF HeapTypeOK, PCs
<1>12. Tracing({})'
  BY <1>0, <1>7, <1>11 DEF Tracing
<1>13. Reachable' = Reachable
  BY <1>0, ReachableSame
<1>14. Scanning'
  BY <1>0, <1>8, <1>9, <1>10, <1>12, <1>13 DEF Scanning
<1> QED BY <1>0, <1>14 DEF KeepsEntries

\* An object goes to the end of gc_obj_list, without its mark.
ToGc(h, o) == [Unlist(h, o) EXCEPT !.gc = Append(@, o), !.mark[o] = 0]

Moved(h, o, g) ==
  /\ g \in HeapRecord /\ g.mem = h.mem /\ g.rc = h.rc /\ g.weak = h.weak
  /\ g.faults = h.faults /\ g.zero = <<>>
  /\ g.mark[o] = 0 /\ \A x \in Objects : x # o => g.mark[x] = h.mark[x]
  /\ List(g.gc) /\ Range(g.gc) = Range(h.gc) \cup {o}
  /\ Len(g.gc) = Len(h.gc) + 1 /\ \A i \in 1..Len(h.gc) : g.gc[i] = h.gc[i]
  /\ List(g.tmp) /\ Range(g.tmp) = Range(h.tmp) \ {o}

LEMMA ToGcIs ==
  ASSUME NEW h \in HeapRecord, NEW o \in Objects,
         List(h.gc), List(h.tmp), h.zero = <<>>, o \notin Range(h.gc)
  PROVE  Moved(h, o, ToGc(h, o))
<1> DEFINE u == Unlist(h, o)
           t == Append(u.gc, o)
           f == [u.mark EXCEPT ![o] = 0]
           g == [u EXCEPT !.gc = t, !.mark = f]
<1>1. Fields(u, h.mem, h.rc, h.weak, h.mark,
             RemoveFirst(h.gc, o), RemoveFirst(h.zero, o), RemoveFirst(h.tmp, o), h.faults)
  BY UnlistIs
<1> HIDE DEF u
<1>2. u \in HeapRecord /\ u.tmp = RemoveFirst(h.tmp, o) /\ u.zero = <<>> /\ u.gc = h.gc /\ u.mark = h.mark
  <2>1. <<>> \in Seq(Objects) /\ o \notin Range(<<>>) /\ h.gc \in Seq(Objects)
    BY DEF Range, List
  <2> QED BY <2>1, <1>1, RemovedAbsent DEF Fields
<1>3. List(u.tmp) /\ Range(u.tmp) = Range(h.tmp) \ {o}
  BY <1>2, RemovedIs
<1>4. /\ List(t) /\ Range(t) = Range(h.gc) \cup {o}
      /\ Len(t) = Len(h.gc) + 1 /\ \A i \in 1..Len(h.gc) : t[i] = h.gc[i]
  BY <1>2, AppendedIs
<1>5. f \in [Objects -> {0, 1}] /\ f[o] = 0 /\ \A x \in Objects : x # o => f[x] = h.mark[x]
  BY <1>2 DEF HeapRecord
<1>6. ToGc(h, o) = g
  BY <1>2 DEF HeapRecord, ToGc, u
<1> HIDE DEF t, f
<1>7. t \in Seq(Objects)
  BY <1>4 DEF List
<1>8. Fields(g, u.mem, u.rc, u.weak, f, t, u.zero, u.tmp, u.faults)
  BY <1>2, <1>5, <1>7 DEF HeapRecord, Fields
<1> HIDE DEF g
<1> QED BY <1>1, <1>2, <1>3, <1>4, <1>5, <1>6, <1>8 DEF Fields, Moved

\* The list s goes on as t, with elements of S.
Longer(s, t, S) ==
  /\ Len(t) >= Len(s) /\ (\A i \in 1..Len(s) : t[i] = s[i]) /\ Range(t) \subseteq Range(s) \cup S

LEMMA IncrefChildIs ==
  ASSUME NEW h, ScanLists(h), NEW o \in MaybeObjects, o # None => o \in Living(h)
  PROVE  LET g == IncrefChild(h, o) IN
         /\ ScanLists(g) /\ g.weak = h.weak /\ g.mem = h.mem
         /\ Longer(h.gc, g.gc, {o} \ {None})
         /\ \A x \in Objects : x \notin Range(h.tmp) => g.mark[x] = h.mark[x]
         /\ \A x \in Objects : g.rc[x] = h.rc[x] + Is(o, x)
<1>0. (\A x \in Objects : h.rc[x] \in Int) /\ Len(h.gc) \in Nat
  BY DEF ScanLists, HeapRecord, List
<1>1. CASE o = None
  <2>1. IncrefChild(h, o) = h
    BY <1>1 DEF IncrefChild
  <2>2. Longer(h.gc, h.gc, {o} \ {None})
    BY <1>0 DEF Longer
  <2> QED BY <1>0, <1>1, <2>1, <2>2, NoneIsNot
<1>2. CASE o # None
  <2> DEFINE h1 == [h EXCEPT !.rc[o] = @ + 1]
             g == IncrefChild(h, o)
  <2>1. o \in Objects /\ h.mem[o] = "object" /\ h.rc[o] >= 0 /\ h \in HeapRecord
    BY <1>2 DEF Living, ScanLists
  <2>2. g = IF h1.rc[o] = 1 THEN ToGc(h1, o) ELSE h1
    BY <1>2, <2>1, TouchIs DEF IncrefChild, ToGc
  <2>3. Fields(h1, h.mem, [h.rc EXCEPT ![o] = h.rc[o] + 1], h.weak, h.mark, h.gc, h.zero, h.tmp, h.faults)
    BY <2>1, IncIs
  <2> HIDE DEF h1
  <2>4. /\ h1 \in HeapRecord /\ h1.mem = h.mem /\ h1.weak = h.weak /\ h1.mark = h.mark
        /\ h1.gc = h.gc /\ h1.zero = <<>> /\ h1.tmp = h.tmp /\ h1.faults = {}
    BY <2>3 DEF Fields, ScanLists
  <2>5. \A x \in Objects : h1.rc[x] = h.rc[x] + Is(o, x)
    BY <2>1, <2>3 DEF Fields, HeapRecord, Is
  <2>6. /\ \A x \in Objects : x # o => h1.rc[x] = h.rc[x]
        /\ h1.rc[o] = h.rc[o] + 1
    BY <1>0, <2>1, <2>5 DEF Is
  <2>7. Living(h1) = Living(h) /\ Living(h) \subseteq Objects /\ o \in Living(h)
    BY <2>1, <2>4 DEF Living
  <2>8. List(h.gc) /\ List(h.tmp)
    BY DEF ScanLists
  <2>9. \A x \in Living(h) : h1.rc[x] >= 0
    <3>1. h1.rc[o] >= 0
      BY <1>0, <2>1, <2>6
    <3> QED BY <3>1, <2>6, <2>7 DEF ScanLists
  <2>a. CASE h1.rc[o] = 1
    <3>0. h.rc[o] = 0 /\ o \in Range(h.tmp) /\ o \notin Range(h.gc) /\ g = ToGc(h1, o)
      <4>1. h.rc[o] = 0
        BY <2>a, <1>0, <2>1, <2>6
      <4> QED BY <4>1, <2>a, <2>2, <2>7 DEF ScanLists
    <3> HIDE DEF g
    <3>1. /\ g \in HeapRecord /\ g.mem = h1.mem /\ g.rc = h1.rc /\ g.weak = h1.weak
          /\ g.faults = h1.faults /\ g.zero = <<>>
          /\ g.mark[o] = 0 /\ \A x \in Objects : x # o => g.mark[x] = h1.mark[x]
          /\ List(g.gc) /\ Range(g.gc) = Range(h1.gc) \cup {o}
          /\ Len(g.gc) = Len(h1.gc) + 1 /\ \A i \in 1..Len(h1.gc) : g.gc[i] = h1.gc[i]
          /\ List(g.tmp) /\ Range(g.tmp) = Range(h1.tmp) \ {o}
      <4>1. /\ h1 \in HeapRecord /\ o \in Objects /\ o \notin Range(h1.gc)
            /\ List(h1.gc) /\ List(h1.tmp) /\ h1.zero = <<>>
        BY <3>0, <2>1, <2>4, <2>8
      <4>2. Moved(h1, o, ToGc(h1, o))
        BY <4>1, ToGcIs
      <4> QED BY <4>2, <3>0 DEF Moved
    <3>2. Living(g) = Living(h)
      BY <3>1, <2>7 DEF Living
    <3>3. Longer(h.gc, g.gc, {o} \ {None})
      <4>1. Len(g.gc) >= Len(h.gc)
        BY <3>1, <2>4, <1>0
      <4> QED BY <4>1, <3>1, <2>4, <1>2 DEF Longer
    <3>4. Range(g.gc) = {x \in Living(g) : g.rc[x] > 0}
      BY <3>1, <3>2, <2>a, <2>4, <2>6, <2>7 DEF ScanLists
    <3>5. Range(g.tmp) = {x \in Living(g) : g.rc[x] = 0}
      BY <3>1, <3>2, <2>a, <2>4, <2>6, <2>7 DEF ScanLists
    <3>6. \A x \in Range(g.tmp) : g.mark[x] = 1
      BY <3>1, <3>2, <3>5, <2>4, <2>7 DEF ScanLists
    <3>7. ScanLists(g)
      BY <3>1, <3>2, <3>4, <3>5, <3>6, <2>4, <2>9 DEF ScanLists
    <3>8. \A x \in Objects : x \notin Range(h.tmp) => g.mark[x] = h.mark[x]
      BY <3>0, <3>1, <2>4
    <3> QED BY <3>1, <3>3, <3>7, <3>8, <2>4, <2>5 DEF g
  <2>b. CASE h1.rc[o] # 1
    <3>0. h.rc[o] > 0 /\ h1.rc[o] > 0
      BY <2>b, <1>0, <2>1, <2>6
    <3>1. Range(h1.gc) = {x \in Living(h1) : h1.rc[x] > 0}
      BY <3>0, <2>4, <2>6, <2>7 DEF ScanLists
    <3>2. Range(h1.tmp) = {x \in Living(h1) : h1.rc[x] = 0}
      BY <3>0, <2>4, <2>6, <2>7 DEF ScanLists
    <3>3. ScanLists(h1)
      BY <3>1, <3>2, <2>4, <2>7, <2>8, <2>9 DEF ScanLists
    <3>4. Longer(h.gc, h1.gc, {o} \ {None})
      BY <2>4, <1>0 DEF Longer
    <3> QED BY <3>3, <3>4, <2>2, <2>b, <2>4, <2>5
  <2> QED BY <2>a, <2>b
<1> QED BY <1>1, <1>2

LEMMA LongerTwice ==
  ASSUME NEW r, NEW s, NEW t, List(r), List(s), List(t), NEW A, NEW B, Longer(r, s, A), Longer(s, t, B)
  PROVE  Longer(r, t, A \cup B)
<1>1. Len(r) \in Nat /\ Len(s) \in Nat /\ Len(t) \in Nat
  BY DEF List
<1>2. Len(t) >= Len(r) /\ \A i \in 1..Len(r) : i \in 1..Len(s)
  BY <1>1 DEF Longer
<1> QED BY <1>2 DEF Longer

LEMMA LongerBefore ==
  ASSUME NEW s, NEW t, NEW A, List(s), Longer(s, t, A), NEW n \in 1..Len(s) + 1
  PROVE  Before(t, n) = Before(s, n)
<1>1. \A i \in 1..n - 1 : i \in 1..Len(s)
  BY DEF List
<1> QED BY <1>1 DEF Before, Longer

\* The mark of an object that is scanned goes.
LEMMA UnmarkIs ==
  ASSUME NEW h, ScanLists(h), NEW p \in Range(h.gc)
  PROVE  LET g == [h EXCEPT !.mark[p] = 0] IN
         /\ ScanLists(g) /\ g.weak = h.weak /\ g.mem = h.mem /\ g.rc = h.rc /\ g.gc = h.gc /\ g.tmp = h.tmp
         /\ g.mark[p] = 0 /\ \A x \in Objects : x # p => g.mark[x] = h.mark[x]
<1> DEFINE g == [h EXCEPT !.mark[p] = 0]
<1>1. p \in Objects /\ h \in HeapRecord /\ p \notin Range(h.tmp)
  BY DEF ScanLists, Living
<1>2. /\ Fields(g, h.mem, h.rc, h.weak, [h.mark EXCEPT ![p] = 0], h.gc, h.zero, h.tmp, h.faults)
      /\ g.mark[p] = 0 /\ \A x \in Objects : x # p => g.mark[x] = h.mark[x]
  BY <1>1, MarkIs
<1> HIDE DEF g
<1>3. Living(g) = Living(h) /\ Living(h) \subseteq Objects
  BY <1>2 DEF Living, Fields
<1>4. ScanLists(g)
  <2>1. /\ g \in HeapRecord /\ g.faults = h.faults /\ g.gc = h.gc /\ g.zero = h.zero /\ g.tmp = h.tmp /\ g.rc = h.rc
    BY <1>2 DEF Fields
  <2>2. \A x \in Range(g.tmp) : g.mark[x] = 1
    BY <2>1, <1>1, <1>2, <1>3 DEF ScanLists
  <2> QED BY <2>1, <2>2, <1>3 DEF ScanLists
<1> QED BY <1>2, <1>4 DEF Fields, g

\* The scan of p in gc_scan.
LEMMA ScannedIs ==
  ASSUME ScanLists(heap), NEW p \in Range(heap.gc), HeapTypeOK, Refers(p) \subseteq Living(heap)
  PROVE  LET g == IncrefChild(IncrefChild([heap EXCEPT !.mark[p] = 0], field[p]), entry[p].val) IN
         /\ ScanLists(g) /\ g.weak = heap.weak /\ g.mem = heap.mem
         /\ Longer(heap.gc, g.gc, Refers(p))
         /\ g.mark[p] = 0
         /\ \A x \in Objects \ {p} : x \notin Range(heap.tmp) => g.mark[x] = heap.mark[x]
         /\ \A x \in Objects : g.rc[x] = heap.rc[x] + Is(field[p], x) + Is(entry[p].val, x)
<1> DEFINE v == entry[p].val
           u == [heap EXCEPT !.mark[p] = 0]
           a == IncrefChild(u, field[p])
           g == IncrefChild(a, v)
<1>1. p \in Objects /\ p \in Living(heap) /\ p \notin Range(heap.tmp) /\ Range(heap.tmp) \subseteq Living(heap)
  BY DEF ScanLists, Living
<1>2. field[p] \in MaybeObjects /\ v \in MaybeObjects
  BY <1>1 DEF HeapTypeOK
<1>3. /\ field[p] # None => field[p] \in Living(heap)
      /\ v # None => v \in Living(heap)
      /\ ({field[p]} \ {None}) \cup ({v} \ {None}) = Refers(p)
  BY DEF Refers
<1>4. /\ ScanLists(u) /\ u.weak = heap.weak /\ u.mem = heap.mem /\ u.rc = heap.rc /\ u.gc = heap.gc /\ u.tmp = heap.tmp
      /\ u.mark[p] = 0 /\ \A x \in Objects : x # p => u.mark[x] = heap.mark[x]
  BY UnmarkIs
<1> HIDE DEF u
<1>5. field[p] # None => field[p] \in Living(u)
  BY <1>3, <1>4 DEF Living
<1>6. /\ ScanLists(a) /\ a.weak = u.weak /\ a.mem = u.mem
      /\ Longer(u.gc, a.gc, {field[p]} \ {None})
      /\ \A x \in Objects : x \notin Range(u.tmp) => a.mark[x] = u.mark[x]
      /\ \A x \in Objects : a.rc[x] = u.rc[x] + Is(field[p], x)
  BY <1>2, <1>4, <1>5, IncrefChildIs
<1> HIDE DEF a
<1>7. v # None => v \in Living(a)
  BY <1>3, <1>4, <1>6 DEF Living
<1>8. /\ ScanLists(g) /\ g.weak = a.weak /\ g.mem = a.mem
      /\ Longer(a.gc, g.gc, {v} \ {None})
      /\ \A x \in Objects : x \notin Range(a.tmp) => g.mark[x] = a.mark[x]
      /\ \A x \in Objects : g.rc[x] = a.rc[x] + Is(v, x)
  BY <1>2, <1>6, <1>7, IncrefChildIs
<1>9. g = IncrefChild(IncrefChild([heap EXCEPT !.mark[p] = 0], field[p]), entry[p].val)
  BY DEF a, u
<1> HIDE DEF g
<1>10. Longer(heap.gc, g.gc, Refers(p))
  <2>1. Longer(heap.gc, g.gc, ({field[p]} \ {None}) \cup ({v} \ {None}))
    BY <1>4, <1>6, <1>8, LongerTwice DEF ScanLists
  <2> QED BY <2>1, <1>3
<1>11. \A x \in Objects : x \notin Range(heap.tmp) => x \notin Range(a.tmp)
  <2> SUFFICES ASSUME NEW x \in Objects, x \in Range(a.tmp) PROVE x \in Range(heap.tmp)
    OBVIOUS
  <2>1. x \in Living(a) /\ a.rc[x] = 0
    BY <1>6 DEF ScanLists
  <2>2. x \in Living(heap) /\ heap.rc[x] \in Int /\ heap.rc[x] >= 0
    BY <2>1, <1>4, <1>6 DEF Living, ScanLists, HeapRecord
  <2>3. Is(field[p], x) \in Nat /\ a.rc[x] = heap.rc[x] + Is(field[p], x)
    BY <1>4, <1>6, IsType
  <2>4. heap.rc[x] = 0
    BY <2>1, <2>2, <2>3
  <2> QED BY <2>2, <2>4 DEF ScanLists
<1>12. /\ g.mark[p] = 0
       /\ \A x \in Objects \ {p} : x \notin Range(heap.tmp) => g.mark[x] = heap.mark[x]
  BY <1>1, <1>4, <1>6, <1>8, <1>11
<1>13. \A x \in Objects : g.rc[x] = heap.rc[x] + Is(field[p], x) + Is(v, x)
  BY <1>4, <1>6, <1>8
<1> QED BY <1>4, <1>6, <1>8, <1>9, <1>10, <1>12, <1>13

LEMMA ScanOneOK ==
  ASSUME Scanning, cursor <= Len(heap.gc), cursor' = cursor + 1, UNCHANGED <<refVars, after, pc>>,
         LET p == heap.gc[cursor] IN
         heap' = IncrefChild(IncrefChild([heap EXCEPT !.mark[p] = 0], field[p]), entry[p].val)
  PROVE  Scanning' /\ KeepsEntries
<1>0. PICK p, P, g : p = heap.gc[cursor] /\ P = Before(heap.gc, cursor) /\ g = heap'
  OBVIOUS
<1>1. PICK Q : Q = P \cup {p}
  OBVIOUS
<1>2. /\ Tracing(P) /\ ScanLists(heap) /\ HeapTypeOK /\ pc = "scan" /\ jobs \in Seq(MaybeObjects)
      /\ List(heap.gc) /\ Len(heap.gc) \in Nat /\ cursor \in 1..Len(heap.gc) + 1 /\ cursor \in 1..Len(heap.gc)
  BY <1>0 DEF Scanning, Tracing, HeapTypeOK, List
<1>3. /\ p \in Range(heap.gc) /\ p \notin P /\ Before(heap.gc, cursor + 1) = Q /\ P \subseteq Range(heap.gc)
  BY <1>0, <1>1, <1>2, BeforeIs
<1>4. Range(heap.gc) \subseteq Living(heap) /\ Living(heap) \subseteq Objects /\ Range(heap.tmp) \subseteq Living(heap)
      /\ Range(heap.gc) \cap Range(heap.tmp) = {}
  BY <1>2 DEF ScanLists, Living
<1>5. (\A x \in Objects : heap.rc[x] \in Nat) /\ Refers(p) \subseteq Living(heap)
  BY <1>2, <1>3, <1>4, TracingCounts
<1>6. /\ ScanLists(g) /\ g.weak = heap.weak /\ g.mem = heap.mem
      /\ Longer(heap.gc, g.gc, Refers(p))
      /\ g.mark[p] = 0
      /\ \A x \in Objects \ {p} : x \notin Range(heap.tmp) => g.mark[x] = heap.mark[x]
      /\ \A x \in Objects : g.rc[x] = heap.rc[x] + Is(field[p], x) + Is(entry[p].val, x)
  <2>1. g = IncrefChild(IncrefChild([heap EXCEPT !.mark[p] = 0], field[p]), entry[p].val)
    BY <1>0
  <2> QED BY <2>1, <1>2, <1>3, <1>5, ScannedIs
<1>7. ASSUME NEW x \in Objects PROVE g.rc[x] = RefCount(roots, jobs, field, entry, Q, x)
  <2>0. P \in SUBSET Objects /\ p \in Objects /\ Q = P \cup {p}
    BY <1>1, <1>3, <1>4
  <2>1. RefCount(roots, jobs, field, entry, P \cup {p}, x) =
          RefCount(roots, jobs, field, entry, P, x) + Is(field[p], x) + Is(entry[p].val, x)
    BY <2>0, <1>2, <1>3, RefCountAdd
  <2>2. heap.rc[x] = RefCount(roots, jobs, field, entry, P, x)
    BY <1>2 DEF Tracing, Exact
  <2> QED BY <2>0, <2>1, <2>2, <1>6
<1>8. \A x \in Objects : x \notin Living(heap) => g.rc[x] = heap.rc[x] /\ g.mark[x] = heap.mark[x]
  <2> SUFFICES ASSUME NEW x \in Objects, x \notin Living(heap)
               PROVE  g.rc[x] = heap.rc[x] /\ g.mark[x] = heap.mark[x]
    OBVIOUS
  <2>1. x \notin Refers(p) /\ x # p /\ x # None /\ x \notin Range(heap.tmp)
    BY <1>3, <1>4, <1>5, HeapAssumption
  <2>2. Is(field[p], x) = 0 /\ Is(entry[p].val, x) = 0
    BY <2>1 DEF Is, Refers
  <2> QED BY <2>1, <2>2, <1>5, <1>6
<1>a. /\ g \in HeapRecord /\ g.faults = {} /\ List(g.gc) /\ g.zero = <<>> /\ List(g.tmp)
      /\ pc' = pc /\ cursor' \in Nat /\ Q \in SUBSET Objects /\ heap' = g
  <2>1. g \in HeapRecord /\ g.faults = {} /\ List(g.gc) /\ g.zero = <<>> /\ List(g.tmp)
    BY <1>6 DEF ScanLists
  <2>2. pc' = pc /\ heap' = g
    BY <1>0
  <2>3. cursor' \in Nat
    BY <1>2
  <2>4. Q \in SUBSET Objects
    BY <1>1, <1>3, <1>4
  <2> QED BY <2>1, <2>2, <2>3, <2>4
<1>9. Tracing(Q)' /\ KeepsEntries
  BY <1>a, <1>2, <1>6, <1>7, <1>8, TracingStep
<1>10. /\ Before(g.gc, cursor + 1) = Q /\ cursor + 1 \in 1..Len(g.gc) + 1
  <2>1. cursor + 1 \in 1..Len(heap.gc) + 1 /\ Len(g.gc) \in Nat /\ Len(g.gc) >= Len(heap.gc)
    BY <1>2, <1>6, <1>a DEF Longer, List
  <2>2. Before(g.gc, cursor + 1) = Before(heap.gc, cursor + 1)
    BY <2>1, <1>2, <1>6, LongerBefore
  <2> QED BY <2>1, <2>2, <1>2, <1>3
<1>11. \A x \in Q : g.mark[x] = 0
  <2>1. \A x \in P : heap.mark[x] = 0
    BY <1>0 DEF Scanning
  <2> QED BY <2>1, <1>1, <1>3, <1>4, <1>6
<1>12. Range(g.gc) \subseteq Reachable
  <2>1. Closed(Reachable)
    <3>1. roots \subseteq Objects /\ Range(jobs) \subseteq MaybeObjects /\ \A o \in Objects : Refers(o) \subseteq Objects
      <4>1. \A o \in Objects : Refers(o) \subseteq Living(heap)
        BY <1>2, TracingCounts
      <4> QED BY <4>1, <1>2, <1>4 DEF HeapTypeOK, Range
    <3> QED BY <3>1, ReachableClosed
  <2>2. Range(heap.gc) \subseteq Reachable
    BY DEF Scanning
  <2> QED BY <2>1, <2>2, <1>3, <1>6 DEF Closed, Longer
<1>13. Reachable' = Reachable
  BY ReachableSame DEF refVars
<1>14. Scanning'
  <2>1. pc' = "scan" /\ cursor' = cursor + 1 /\ heap' = g
    BY <1>0, <1>2
  <2> QED BY <2>1, <1>6, <1>9, <1>10, <1>11, <1>12, <1>13 DEF Scanning
<1> QED BY <1>9, <1>14
-----------------------------------------------------------------------------
(* The collector: gc_scan restores the counts of the garbage, gc_free_cycles frees it. *)

\* gc_obj_list holds what stays, tmp_obj_list what goes, and gc_zero_ref_count_list the
\* structures of what has gone.
Sorted(h) ==
  /\ h \in HeapRecord /\ h.faults = {} /\ List(h.gc) /\ List(h.zero) /\ List(h.tmp)
  /\ Range(h.gc) \cup Range(h.tmp) = Living(h) /\ Range(h.gc) \cap Range(h.tmp) = {}
  /\ \A o \in Range(h.gc) : h.mark[o] = 0
  /\ \A o \in Range(h.tmp) \cup Range(h.zero) : h.mark[o] = 1
  /\ \A o \in Range(h.zero) : h.mem[o] = "husk"
  /\ \A o \in Objects : h.mem[o] = "free" => h.weak[o] = 0
  /\ \A o \in Objects : h.mem[o] = "husk" /\ o \notin Range(h.zero) =>
       h.rc[o] = 0 /\ h.mark[o] = 0 /\ h.weak[o] > 0

\* The objects of G are those that the program can reach.
Rooted(G) ==
  /\ Closed(G) /\ G \subseteq Reachable
  /\ \A o \in G : RefCount(roots, jobs, field, entry, G, o) > 0

\* P are the objects whose references are counted.
Sorting(P) ==
  /\ HeapTypeOK /\ Sorted(heap) /\ Rooted(Range(heap.gc))
  /\ P \subseteq Objects /\ Exact(heap, roots, jobs, field, entry, kind, P)
  /\ Bare(Living(heap), field, entry)
  /\ \A o \in Objects : Refers(o) \subseteq Living(heap) \cup Range(heap.zero)

SortPCs == {"restore", "cycles", "sweep", "collected"}
SortPhase ==
  /\ pc \in SortPCs
  /\ pc = "restore" => heap.zero = <<>> /\ cursor \in 1..Len(heap.tmp) + 1
  /\ pc = "sweep" => heap.tmp = <<>>
  /\ pc = "collected" => heap.tmp = <<>> /\ heap.zero = <<>>

LEMMA SortingFrom == HeapInv /\ pc \in SortPCs => Sorting(Counted) /\ SortPhase
<1> SUFFICES ASSUME HeapInv, pc \in SortPCs PROVE Sorting(Counted) /\ SortPhase
  OBVIOUS
<1>1. Alive = Living(heap) /\ Kept = Range(heap.gc)
  BY DEF Alive, Living, Kept, SortPCs
<1>2. /\ Exact(heap, roots, jobs, field, entry, kind, Counted) /\ Bare(Living(heap), field, entry)
      /\ Counted \in SUBSET Objects
  BY ExactFrom
<1>3. HeapTypeOK /\ heap \in HeapRecord /\ heap.faults = {}
  BY DEF HeapInv, HeapTypeOK, DeadInv
<1>4. List(heap.gc) /\ List(heap.zero) /\ List(heap.tmp)
  BY <1>3 DEF HeapInv, ListInv, List, HeapRecord
<1>5. Sorted(heap)
  <2>1. /\ Range(heap.gc) \cup Range(heap.tmp) = Living(heap) /\ Range(heap.gc) \cap Range(heap.tmp) = {}
        /\ \A o \in Range(heap.gc) : heap.mark[o] = 0
        /\ \A o \in Range(heap.tmp) \cup Range(heap.zero) : heap.mark[o] = 1
        /\ \A o \in Range(heap.zero) : heap.mem[o] = "husk"
    BY <1>1 DEF HeapInv, ListInv, SortPCs
  <2>2. /\ \A o \in Objects : heap.mem[o] = "free" => heap.weak[o] = 0
        /\ \A o \in Objects : heap.mem[o] = "husk" /\ o \notin Range(heap.zero) =>
             heap.rc[o] = 0 /\ heap.mark[o] = 0 /\ heap.weak[o] > 0
    BY DEF HeapInv, DeadInv
  <2> QED BY <2>1, <2>2, <1>3, <1>4 DEF Sorted
<1>6. Range(heap.gc) \in SUBSET Objects
  BY <1>5 DEF Sorted, Living
<1>7. Rooted(Range(heap.gc))
  <2>1. Closed(Range(heap.gc))
    BY <1>1 DEF HeapInv, RefInv
  <2>2. /\ Range(heap.gc) \subseteq Reachable
        /\ \A o \in Range(heap.gc) : BaseRefs(o) + RefsFrom(Range(heap.gc), o) > 0
    BY DEF HeapInv, ListInv, SortPCs
  <2>3. \A o \in Objects : BaseRefs(o) + RefsFrom(Range(heap.gc), o)
                             = RefCount(roots, jobs, field, entry, Range(heap.gc), o)
    BY <1>3, <1>6, CountsAre
  <2> QED BY <2>1, <2>2, <2>3, <1>6 DEF Rooted
<1>8. \A o \in Objects : Refers(o) \subseteq Living(heap) \cup Range(heap.zero)
  BY <1>1 DEF HeapInv, RefInv
<1>9. Sorting(Counted)
  BY <1>2, <1>3, <1>5, <1>7, <1>8 DEF Sorting
<1>10. SortPhase
  <2>1. /\ pc = "restore" => Range(heap.zero) = {} /\ cursor \in 1..Len(heap.tmp) + 1
        /\ pc = "sweep" => Range(heap.tmp) = {}
        /\ pc = "collected" => Range(heap.tmp) = {} /\ Range(heap.zero) = {}
    BY DEF HeapInv, ListInv
  <2> QED BY <2>1, <1>4, ListEmpty DEF SortPhase
<1> QED BY <1>9, <1>10

LEMMA SortingGives == Sorting(Counted) /\ SortPhase => HeapInv
<1> SUFFICES ASSUME Sorting(Counted), SortPhase PROVE HeapInv
  OBVIOUS
<1>1. Alive = Living(heap) /\ Kept = Range(heap.gc) /\ pc \in SortPCs
  BY DEF Alive, Living, Kept, SortPCs, SortPhase
<1>2. HeapTypeOK /\ heap \in HeapRecord /\ Bare(Living(heap), field, entry) /\ Counted \in SUBSET Objects
      /\ Sorted(heap) /\ Rooted(Range(heap.gc))
  BY DEF Sorting, HeapTypeOK
<1>3. CountInv
  <2>1. \A o \in Objects : WeakRefs(o) = WeakCount(entry, kind, o)
    BY <1>2, WeaksAre
  <2>2. \A o \in Objects : BaseRefs(o) + RefsFrom(Counted, o) = RefCount(roots, jobs, field, entry, Counted, o)
    BY <1>2, CountsAre
  <2> QED BY <2>1, <2>2 DEF CountInv, Sorting, Exact
<1>4. List(heap.gc) /\ List(heap.zero) /\ List(heap.tmp)
  BY <1>2 DEF Sorted
<1>5. /\ pc = "restore" => Range(heap.zero) = {} /\ cursor \in 1..Len(heap.tmp) + 1
      /\ pc = "sweep" => Range(heap.tmp) = {}
      /\ pc = "collected" => Range(heap.tmp) = {} /\ Range(heap.zero) = {}
  BY <1>4, ListEmpty DEF SortPhase
<1>6. RefInv
  <2>1. Closed(Kept)
    BY <1>1, <1>2 DEF Rooted
  <2>2. \A o \in Objects : Refers(o) \subseteq Alive \cup Range(heap.zero)
    BY <1>1 DEF Sorting
  <2>3. ASSUME pc # "cycles", NEW o \in Objects PROVE Refers(o) \subseteq Alive
    <3>1. CASE pc = "restore" \/ pc = "collected"
      BY <3>1, <2>2, <1>5
    <3>2. CASE pc = "sweep"
      <4>1. Range(heap.gc) = Living(heap)
        BY <3>2, <1>2, <1>5 DEF Sorted
      <4>2. CASE o \in Living(heap)
        BY <4>1, <4>2, <2>1, <1>1 DEF Closed
      <4>3. CASE o \notin Living(heap)
        BY <4>3, <1>2 DEF Bare, Refers, NoEntry
      <4> QED BY <4>2, <4>3
    <3> QED BY <2>3, <3>1, <3>2, <1>1 DEF SortPCs
  <2> QED BY <2>1, <2>2, <2>3 DEF RefInv
<1>7. DeadInv
  BY <1>1, <1>2 DEF Sorted, Bare, DeadInv
<1>8. ListInv
  <2>1. Range(heap.gc) \in SUBSET Objects
    BY <1>2 DEF Sorted, Living
  <2>2. \A o \in Objects : BaseRefs(o) + RefsFrom(Range(heap.gc), o)
                             = RefCount(roots, jobs, field, entry, Range(heap.gc), o)
    BY <1>2, <2>1, CountsAre
  <2>3. \A o \in Range(heap.gc) : BaseRefs(o) + RefsFrom(Range(heap.gc), o) > 0
    BY <1>2, <2>1, <2>2 DEF Rooted
  <2>4. IsInjective(heap.gc) /\ IsInjective(heap.zero) /\ IsInjective(heap.tmp)
    BY <1>4 DEF List
  <2>5. /\ Range(heap.gc) \cup Range(heap.tmp) = Alive /\ Range(heap.gc) \cap Range(heap.tmp) = {}
        /\ \A o \in Range(heap.gc) : heap.mark[o] = 0
        /\ \A o \in Range(heap.tmp) \cup Range(heap.zero) : heap.mark[o] = 1
        /\ \A o \in Range(heap.zero) : heap.mem[o] = "husk"
    BY <1>1, <1>2 DEF Sorted
  <2>6. Range(heap.gc) \subseteq Reachable
    BY <1>2 DEF Rooted
  <2> QED BY <2>3, <2>4, <2>5, <2>6, <1>1, <1>5 DEF ListInv, SortPCs
<1> QED BY <1>2, <1>3, <1>6, <1>7, <1>8 DEF HeapInv

Restoring == SortPhase /\ pc = "restore" /\ Sorting(Range(heap.gc) \cup Before(heap.tmp, cursor))
Freeing == SortPhase /\ pc # "restore" /\ Sorting(Objects)

LEMMA RestoringFrom == HeapInv /\ pc = "restore" => Restoring
<1> SUFFICES ASSUME HeapInv, pc = "restore" PROVE Restoring
  OBVIOUS
<1>1. Counted = Range(heap.gc) \cup Before(heap.tmp, cursor)
  BY DEF Counted, Before
<1> QED BY <1>1, SortingFrom DEF Restoring, SortPCs

LEMMA FreeingFrom == HeapInv /\ pc \in {"cycles", "sweep", "collected"} => Freeing
<1> SUFFICES ASSUME HeapInv, pc \in {"cycles", "sweep", "collected"} PROVE Freeing
  OBVIOUS
<1>1. Counted = Objects
  BY DEF Counted
<1> QED BY <1>1, SortingFrom DEF Freeing, SortPCs

LEMMA SortingDone == Restoring \/ Freeing => HeapInv
<1>1. ASSUME Restoring PROVE HeapInv
  <2>1. Counted = Range(heap.gc) \cup Before(heap.tmp, cursor)
    BY <1>1 DEF Counted, Before, Restoring
  <2> QED BY <1>1, <2>1, SortingGives DEF Restoring
<1>2. ASSUME Freeing PROVE HeapInv
  <2>1. Counted = Objects
    BY <1>2 DEF Counted, Freeing, SortPhase, SortPCs
  <2> QED BY <1>2, <2>1, SortingGives DEF Freeing
<1> QED BY <1>1, <1>2

\* References do not change in gc_scan and in the second loop of gc_free_cycles.
LEMMA RootedSame ==
  ASSUME NEW G, Rooted(G), UNCHANGED <<roots, jobs, field, entry>>
  PROVE  Rooted(G)'
<1>1. Reachable' = Reachable
  BY ReachableSame
<1>2. Closed(G)'
  BY DEF Rooted, Closed, Refers
<1> QED BY <1>1, <1>2 DEF Rooted

\* All that the objects with references from outside lead to is back on gc_obj_list.
LEMMA ScanDoneOK ==
  ASSUME Scanning, cursor > Len(heap.gc), pc' = "restore", cursor' = 1, UNCHANGED <<heap, refVars, after>>
  PROVE  Restoring' /\ KeepsEntries
<1>0. UNCHANGED <<heap, kind, field, entry, roots, jobs, weakList, after>>
  BY DEF refVars
<1>1. PICK G : G = Range(heap.gc)
  OBVIOUS
<1>2. /\ ScanLists(heap) /\ HeapTypeOK /\ pc = "scan" /\ jobs \in Seq(MaybeObjects) /\ List(heap.gc) /\ List(heap.tmp)
      /\ Len(heap.gc) \in Nat /\ Len(heap.tmp) \in Nat /\ cursor \in 1..Len(heap.gc) + 1 /\ heap.zero = <<>>
  BY DEF Scanning, Tracing, HeapTypeOK, List, ScanLists
<1>3. cursor = Len(heap.gc) + 1
  BY <1>2
<1>4. Before(heap.gc, cursor) = G
  BY <1>1, <1>2, <1>3, BeforeIs
<1>5. Tracing(G) /\ (\A o \in G : heap.mark[o] = 0) /\ G \subseteq Reachable
  BY <1>1, <1>4 DEF Scanning
<1>6. \A x \in Objects : heap.rc[x] \in Nat /\ heap.rc[x] = RefCount(roots, jobs, field, entry, G, x)
  BY <1>5, TracingCounts DEF Tracing, Exact
<1>7. /\ G = {o \in Living(heap) : heap.rc[o] > 0} /\ G \subseteq Objects /\ Living(heap) \subseteq Objects
      /\ Range(heap.tmp) = {o \in Living(heap) : heap.rc[o] = 0}
      /\ \A o \in Range(heap.tmp) : heap.mark[o] = 1
  BY <1>1, <1>2 DEF ScanLists, Living
<1>s. jobs \in Seq(MaybeObjects) /\ G \in SUBSET Objects
  BY <1>2, <1>7
<1>8. Rooted(G)
  <2>1. ASSUME NEW x \in Living(heap), x \in roots \/ x \in Range(jobs) \/ \E p \in G : x \in Refers(p)
        PROVE  x \in G
    <3>1. x \in Objects
      BY <1>7
    <3>2. RefCount(roots, jobs, field, entry, G, x) # 0
      <4> SUFFICES ASSUME RefCount(roots, jobs, field, entry, G, x) = 0 PROVE FALSE
        OBVIOUS
      <4>1. x \notin roots /\ x \notin Range(jobs) /\ \A p \in G : field[p] # x /\ entry[p].val # x
        BY <1>s, RefCountType
      <4> QED BY <4>1, <2>1 DEF Refers
    <3>3. heap.rc[x] > 0
      BY <3>1, <3>2, <1>6
    <3> QED BY <3>3, <1>7
  <2>2. roots \cup (Range(jobs) \ {None}) \subseteq Living(heap) /\ \A p \in G : Refers(p) \subseteq Living(heap)
    BY <1>5, <1>7, TracingCounts DEF Tracing, Intact
  <2>3. Closed(G)
    BY <2>1, <2>2 DEF Closed
  <2> QED BY <2>3, <1>5, <1>6, <1>7 DEF Rooted
<1>9. Sorted(heap)
  <2>1. Range(heap.zero) = {} /\ List(heap.zero)
    BY <1>2 DEF Range, List, IsInjective
  <2>0. \A x \in Living(heap) : heap.rc[x] \in Nat
    BY <1>6, <1>7
  <2>2. Range(heap.gc) \cup Range(heap.tmp) = Living(heap) /\ Range(heap.gc) \cap Range(heap.tmp) = {}
    BY <2>0, <1>1, <1>7
  <2>3. Husks(heap) /\ heap.faults = {} /\ heap \in HeapRecord
    BY <1>2, <1>5 DEF Tracing, HeapTypeOK
  <2> QED BY <2>1, <2>2, <2>3, <1>1, <1>2, <1>5, <1>7 DEF Sorted, Husks
<1>10. Before(heap.tmp, 1) = {} /\ 1 \in 1..Len(heap.tmp) + 1
  BY <1>2, BeforeIs
<1>11. HeapTypeOK'
  BY <1>0, <1>2 DEF HeapTypeOK, PCs
<1>12. Rooted(G)'
  BY <1>0, <1>8, RootedSame
<1>13. Range(heap.gc)' = G /\ Before(heap.tmp, cursor)' = {}
  BY <1>0, <1>1, <1>10
<1>14. (\A o \in Objects : Refers(o) \subseteq Living(heap) \cup Range(heap.zero))'
  <2>1. \A o \in Objects : Refers(o) \subseteq Living(heap)
    BY <1>5, TracingCounts
  <2> QED BY <2>1, <1>0 DEF Refers
<1>15. Sorting(G)'
  <2>1. (G \subseteq Objects)' /\ Exact(heap, roots, jobs, field, entry, kind, G)' /\ Bare(Living(heap), field, entry)'
    BY <1>0, <1>5, <1>7 DEF Tracing
  <2>2. Sorted(heap)' /\ Rooted(Range(heap.gc))'
    BY <1>0, <1>9, <1>12, <1>13
  <2> QED BY <2>1, <2>2, <1>11, <1>14 DEF Sorting
<1>16. SortPhase'
  BY <1>0, <1>2, <1>10 DEF SortPhase, SortPCs
<1>17. Restoring'
  <2>1. (Range(heap.gc) \cup Before(heap.tmp, cursor))' = G
    BY <1>13
  <2> QED BY <2>1, <1>15, <1>16 DEF Restoring
<1> QED BY <1>0, <1>17 DEF KeepsEntries

LEMMA RaiseIs ==
  ASSUME NEW h \in HeapRecord, NEW o \in MaybeObjects, o # None => o \in Living(h)
  PROVE  LET g == Dup(h, o) IN
         /\ g \in HeapRecord /\ g.mem = h.mem /\ g.weak = h.weak /\ g.mark = h.mark /\ g.faults = h.faults
         /\ g.gc = h.gc /\ g.zero = h.zero /\ g.tmp = h.tmp
         /\ \A x \in Objects : g.rc[x] = h.rc[x] + Is(o, x)
<1>0. \A x \in Objects : h.rc[x] \in Int
  BY DEF HeapRecord
<1>1. CASE o = None
  <2>1. Dup(h, o) = h
    BY <1>1 DEF Dup
  <2> QED BY <1>0, <1>1, <2>1, NoneIsNot
<1>2. CASE o # None
  <2> DEFINE g == [h EXCEPT !.rc[o] = @ + 1]
  <2>1. o \in Objects /\ h.mem[o] # "free"
    BY <1>2 DEF Living
  <2>2. Dup(h, o) = g
    BY <1>2, <2>1, TouchIs DEF Dup
  <2>3. Fields(g, h.mem, [h.rc EXCEPT ![o] = h.rc[o] + 1], h.weak, h.mark, h.gc, h.zero, h.tmp, h.faults)
    BY <2>1, IncIs
  <2> HIDE DEF g
  <2>4. \A x \in Objects : g.rc[x] = h.rc[x] + Is(o, x)
    BY <1>0, <2>1, <2>3 DEF Fields, HeapRecord, Is
  <2> QED BY <2>2, <2>3, <2>4 DEF Fields
<1> QED BY <1>1, <1>2

\* The counts of what an object of tmp_obj_list refers to are restored.
LEMMA RestoreOneOK ==
  ASSUME Restoring, cursor <= Len(heap.tmp), heap' = Restored(heap.tmp[cursor]), cursor' = cursor + 1,
         UNCHANGED <<refVars, after, pc>>
  PROVE  Restoring' /\ KeepsEntries
<1>0. UNCHANGED <<kind, field, entry, roots, jobs, weakList, after, pc>>
  BY DEF refVars
<1>1. PICK p, P, G : p = heap.tmp[cursor] /\ P = Range(heap.gc) \cup Before(heap.tmp, cursor) /\ G = Range(heap.gc)
  OBVIOUS
<1>2. PICK Q, g : Q = P \cup {p} /\ g = heap'
  OBVIOUS
<1>3. /\ Sorting(P) /\ Sorted(heap) /\ HeapTypeOK /\ pc = "restore" /\ jobs \in Seq(MaybeObjects)
      /\ List(heap.tmp) /\ Len(heap.tmp) \in Nat /\ cursor \in 1..Len(heap.tmp) + 1 /\ cursor \in 1..Len(heap.tmp)
      /\ heap.zero = <<>> /\ heap \in HeapRecord
  BY <1>1, SMTT(30) DEF Restoring, SortPhase, Sorting, Sorted, HeapTypeOK, List
<1>4. /\ p \in Range(heap.tmp) /\ p \notin Before(heap.tmp, cursor)
      /\ Before(heap.tmp, cursor + 1) = Before(heap.tmp, cursor) \cup {p}
  BY <1>1, <1>3, BeforeIs
<1>5. /\ p \in Objects /\ p \notin P /\ P \in SUBSET Objects /\ Q \in SUBSET Objects
      /\ Range(heap.gc) \cup Before(heap.tmp, cursor + 1) = Q
  <2>1. p \in Objects /\ p \notin Range(heap.gc)
    BY <1>3, <1>4 DEF Sorted, Living
  <2>2. P \in SUBSET Objects
    BY <1>3 DEF Sorting
  <2> QED BY <2>1, <2>2, <1>1, <1>2, <1>4
<1>6. Refers(p) \subseteq Living(heap) /\ Living(heap) \subseteq Objects
  <2>1. Range(heap.zero) = {}
    BY <1>3 DEF Range
  <2> QED BY <2>1, <1>3, <1>5 DEF Sorting, Living
<1> DEFINE v == entry[p].val
           a == Dup(heap, field[p])
           b == Dup(a, v)
<1>7. /\ field[p] \in MaybeObjects /\ v \in MaybeObjects
      /\ (field[p] # None => field[p] \in Living(heap)) /\ (v # None => v \in Living(heap))
  BY <1>3, <1>5, <1>6 DEF HeapTypeOK, Refers
<1>8. /\ a \in HeapRecord /\ a.mem = heap.mem /\ a.weak = heap.weak /\ a.mark = heap.mark /\ a.faults = heap.faults
      /\ a.gc = heap.gc /\ a.zero = heap.zero /\ a.tmp = heap.tmp
      /\ \A x \in Objects : a.rc[x] = heap.rc[x] + Is(field[p], x)
  BY <1>3, <1>7, RaiseIs
<1>9. g = b
  BY <1>1, <1>2 DEF Restored
<1> HIDE DEF a
<1>10. v # None => v \in Living(a)
  BY <1>7, <1>8 DEF Living
<1>11. /\ b \in HeapRecord /\ b.mem = a.mem /\ b.weak = a.weak /\ b.mark = a.mark /\ b.faults = a.faults
       /\ b.gc = a.gc /\ b.zero = a.zero /\ b.tmp = a.tmp
       /\ \A x \in Objects : b.rc[x] = a.rc[x] + Is(v, x)
  BY <1>7, <1>8, <1>10, RaiseIs
<1> HIDE DEF b
<1>12. /\ g \in HeapRecord /\ g.mem = heap.mem /\ g.weak = heap.weak /\ g.mark = heap.mark /\ g.faults = heap.faults
       /\ g.gc = heap.gc /\ g.zero = heap.zero /\ g.tmp = heap.tmp
       /\ \A x \in Objects : g.rc[x] = heap.rc[x] + Is(field[p], x) + Is(v, x)
  BY <1>8, <1>9, <1>11
<1>13. Living(g) = Living(heap)
  BY <1>12 DEF Living
<1>14. \A x \in Objects : x \notin Living(heap) => g.rc[x] = heap.rc[x]
  <2> SUFFICES ASSUME NEW x \in Objects, x \notin Living(heap) PROVE g.rc[x] = heap.rc[x]
    OBVIOUS
  <2>1. Is(field[p], x) = 0 /\ Is(v, x) = 0
    BY <1>6, HeapAssumption DEF Is, Refers
  <2>2. heap.rc[x] \in Int
    BY <1>3 DEF HeapRecord
  <2> QED BY <2>1, <2>2, <1>12
<1>15. Sorted(g)
  <2>1. \A x \in Objects : g.mem[x] = "husk" => g.rc[x] = heap.rc[x]
    BY <1>12, <1>14 DEF Living
  <2> QED BY <2>1, <1>3, <1>12, <1>13 DEF Sorted
<1>16. Exact(g, roots, jobs, field, entry, kind, Q)
  <2> SUFFICES ASSUME NEW x \in Objects
               PROVE  g.rc[x] = RefCount(roots, jobs, field, entry, Q, x) /\ g.weak[x] = WeakCount(entry, kind, x)
    BY DEF Exact
  <2>1. RefCount(roots, jobs, field, entry, P \cup {p}, x) =
          RefCount(roots, jobs, field, entry, P, x) + Is(field[p], x) + Is(entry[p].val, x)
    BY <1>3, <1>5, RefCountAdd
  <2>2. heap.rc[x] = RefCount(roots, jobs, field, entry, P, x) /\ heap.weak[x] = WeakCount(entry, kind, x)
    BY <1>3 DEF Sorting, Exact
  <2> QED BY <2>1, <2>2, <1>2, <1>12
<1>17. Rooted(G)'
  <2>1. Rooted(G)
    BY <1>1, <1>3 DEF Sorting
  <2> QED BY <2>1, <1>0, RootedSame
<1>h. heap' = g /\ pc' = "restore" /\ cursor' = cursor + 1 /\ cursor' \in Nat /\ cursor' \in 1..Len(heap.tmp) + 1
  BY <1>0, <1>2, <1>3
<1>18. HeapTypeOK'
  BY <1>h, <1>0, <1>3, <1>12 DEF HeapTypeOK
<1>19. Sorting(Q)'
  <2>1. Sorted(heap)' /\ Exact(heap, roots, jobs, field, entry, kind, Q)'
    BY <1>h, <1>0, <1>15, <1>16
  <2>2. Range(heap.gc)' = G
    BY <1>h, <1>1, <1>12
  <2>3. Rooted(Range(heap.gc))'
    BY <2>2, <1>17
  <2>4. Bare(Living(heap), field, entry)' /\ (\A o \in Objects : Refers(o) \subseteq Living(heap) \cup Range(heap.zero))'
    <3>1. Living(heap)' = Living(heap) /\ Range(heap.zero)' = Range(heap.zero)
      BY <1>h, <1>12, <1>13
    <3>2. Bare(Living(heap), field, entry) /\ (\A o \in Objects : Refers(o) \subseteq Living(heap) \cup Range(heap.zero))
      BY <1>3 DEF Sorting
    <3> QED BY <3>1, <3>2, <1>0 DEF Bare, Refers
  <2> QED BY <2>1, <2>3, <2>4, <1>5, <1>18 DEF Sorting
<1>20. SortPhase'
  BY <1>h, <1>3, <1>12 DEF SortPhase, SortPCs
<1>21. Restoring'
  <2>1. (Range(heap.gc) \cup Before(heap.tmp, cursor))' = Q
    BY <1>h, <1>5, <1>12
  <2> QED BY <2>1, <1>h, <1>19, <1>20 DEF Restoring
<1> QED BY <1>0, <1>21 DEF KeepsEntries

LEMMA RestoreDoneOK ==
  ASSUME Restoring, cursor > Len(heap.tmp), pc' = "cycles", cursor' = 0, UNCHANGED <<heap, refVars, after>>
  PROVE  Freeing' /\ KeepsEntries
<1>0. UNCHANGED <<heap, kind, field, entry, roots, jobs, weakList, after>>
  BY DEF refVars
<1>1. PICK P, G : P = Range(heap.gc) \cup Before(heap.tmp, cursor) /\ G = Range(heap.gc)
  OBVIOUS
<1>2. /\ Sorting(P) /\ Sorted(heap) /\ HeapTypeOK /\ pc = "restore"
      /\ List(heap.tmp) /\ Len(heap.tmp) \in Nat /\ cursor \in 1..Len(heap.tmp) + 1
  BY <1>1 DEF Restoring, SortPhase, Sorting, Sorted, HeapTypeOK, List
<1>3. cursor = Len(heap.tmp) + 1
  BY <1>2
<1>4. P = Living(heap)
  BY <1>1, <1>2, <1>3, BeforeIs DEF Sorted
<1>5. Exact(heap, roots, jobs, field, entry, kind, Objects)
  <2> SUFFICES ASSUME NEW x \in Objects
               PROVE  RefCount(roots, jobs, field, entry, P, x) = RefCount(roots, jobs, field, entry, Objects, x)
    BY <1>2 DEF Exact, Sorting
  <2>1. P \in SUBSET Objects /\ P \cap Living(heap) = Objects \cap Living(heap)
    BY <1>4 DEF Living
  <2> QED BY <2>1, <1>2, LivingCount DEF Sorting
<1>6. HeapTypeOK'
  BY <1>0, <1>2 DEF HeapTypeOK, PCs
<1>7. Rooted(G)'
  <2>1. Rooted(G)
    BY <1>1, <1>2 DEF Sorting
  <2> QED BY <2>1, <1>0, RootedSame
<1>8. Sorting(Objects)'
  <2>1. Range(heap.gc)' = G
    BY <1>0, <1>1
  <2>2. Rooted(Range(heap.gc))'
    BY <2>1, <1>7
  <2>3. (\A o \in Objects : Refers(o) \subseteq Living(heap) \cup Range(heap.zero))'
    BY <1>0, <1>2 DEF Sorting, Refers
  <2>4. Sorted(heap)' /\ Exact(heap, roots, jobs, field, entry, kind, Objects)' /\ Bare(Living(heap), field, entry)'
    BY <1>0, <1>2, <1>5 DEF Sorting
  <2> QED BY <2>2, <2>3, <2>4, <1>6 DEF Sorting
<1>9. Freeing'
  BY <1>8 DEF Freeing, SortPhase, SortPCs
<1> QED BY <1>0, <1>9 DEF KeepsEntries

\* JS_FreeValueRT while cycles are removed: the count, and nothing else.
LEMMA LowerIs ==
  ASSUME NEW h, Spared(h), pc = "cycles", NEW o \in MaybeObjects,
         o # None => /\ o \in Living(h) \/ (o \in Range(h.zero) /\ h.mem[o] # "free")
                     /\ h.rc[o] # 1 \/ h.mark[o] = 1
  PROVE  LET g == FreeValue(h, o) IN
         /\ Spared(g) /\ g.mem = h.mem /\ g.weak = h.weak /\ g.mark = h.mark
         /\ g.gc = h.gc /\ g.zero = h.zero /\ g.tmp = h.tmp
         /\ \A x \in Objects : g.rc[x] = h.rc[x] - Is(o, x)
<1>0. h \in HeapRecord /\ \A x \in Objects : h.rc[x] \in Int
  BY DEF Spared, HeapRecord
<1>1. CASE o = None
  <2>1. FreeValue(h, o) = h
    BY <1>1 DEF FreeValue
  <2> QED BY <1>0, <1>1, <2>1, NoneIsNot
<1>2. CASE o # None
  <2> DEFINE g == [h EXCEPT !.rc[o] = @ - 1]
  <2>1. /\ o \in Objects /\ h.mem[o] # "free" /\ (h.mem[o] = "object" \/ o \in Range(h.zero))
        /\ h.rc[o] # 1 \/ h.mark[o] = 1
    BY <1>2 DEF Living, MaybeObjects
  <2>2. FreeValue(h, o) = g
    BY <1>0, <1>2, <2>1, TouchIs DEF FreeValue
  <2>3. Fields(g, h.mem, [h.rc EXCEPT ![o] = h.rc[o] - 1], h.weak, h.mark, h.gc, h.zero, h.tmp, h.faults)
    BY <1>0, <2>1, DecIs
  <2> HIDE DEF g
  <2>4. \A x \in Objects : g.rc[x] = h.rc[x] - Is(o, x)
    BY <1>0, <2>1, <2>3 DEF Fields, HeapRecord, Is
  <2>5. /\ g \in HeapRecord /\ g.mem = h.mem /\ g.weak = h.weak /\ g.mark = h.mark /\ g.faults = h.faults
        /\ g.gc = h.gc /\ g.zero = h.zero /\ g.tmp = h.tmp
    BY <2>3 DEF Fields
  <2>6. (\A x \in Objects : x # o => g.rc[x] = h.rc[x]) /\ g.rc[o] = h.rc[o] - 1
    BY <1>0, <2>1, <2>4 DEF Is
  <2>7. g.rc[o] # 0 \/ g.mark[o] = 1
    BY <1>0, <2>1, <2>5, <2>6
  <2>8. Spared(g)
    <3>1. ASSUME NEW x \in Objects, g.mem[x] = "husk", x \notin Range(g.zero)
          PROVE  g.rc[x] = 0 /\ g.mark[x] = 0 /\ g.weak[x] > 0
      <4>1. x # o /\ h.mem[x] = "husk" /\ x \notin Range(h.zero)
        BY <3>1, <2>1, <2>5
      <4> QED BY <4>1, <2>5, <2>6 DEF Spared
    <3>2. ASSUME NEW x \in Objects, g.mem[x] = "object" \/ x \in Range(g.zero)
          PROVE  g.rc[x] # 0 \/ g.mark[x] = 1
      <4>1. CASE x = o
        BY <4>1, <2>7
      <4>2. CASE x # o
        <5>1. h.mem[x] = "object" \/ x \in Range(h.zero)
          BY <3>2, <2>5
        <5> QED BY <5>1, <4>2, <2>5, <2>6 DEF Spared
      <4> QED BY <4>1, <4>2
    <3> QED BY <3>1, <3>2, <2>5 DEF Spared
  <2> QED BY <2>2, <2>4, <2>5, <2>8
<1> QED BY <1>1, <1>2

\* The end of free_object in gc_free_cycles.
LEMMA CulledIs ==
  ASSUME NEW h \in HeapRecord, pc = "cycles", NEW p \in Living(h), List(h.gc), List(h.zero), List(h.tmp),
         p \notin Range(h.gc), p \notin Range(h.zero)
  PROVE  LET g == Dispose(Unlist(h, p), p) IN
         /\ g \in HeapRecord /\ g.rc = h.rc /\ g.weak = h.weak /\ g.mark = h.mark /\ g.faults = h.faults
         /\ g.gc = h.gc /\ List(g.tmp) /\ Range(g.tmp) = Range(h.tmp) \ {p} /\ List(g.zero)
         /\ \A x \in Objects : x # p => g.mem[x] = h.mem[x]
         /\ IF h.rc[p] = 0 /\ h.weak[p] = 0 THEN g.mem[p] = "free" /\ g.zero = h.zero
            ELSE g.mem[p] = "husk" /\ Range(g.zero) = Range(h.zero) \cup {p}
<1> DEFINE u == Unlist(h, p)
           g == Dispose(u, p)
<1>1. p \in Objects /\ h.mem[p] = "object"
  BY DEF Living
<1>2. Fields(u, h.mem, h.rc, h.weak, h.mark,
             RemoveFirst(h.gc, p), RemoveFirst(h.zero, p), RemoveFirst(h.tmp, p), h.faults)
  BY <1>1, UnlistIs
<1> HIDE DEF u
<1>3. /\ RemoveFirst(h.gc, p) = h.gc /\ RemoveFirst(h.zero, p) = h.zero
      /\ List(RemoveFirst(h.tmp, p)) /\ Range(RemoveFirst(h.tmp, p)) = Range(h.tmp) \ {p}
  <2>1. h.gc \in Seq(Objects) /\ h.zero \in Seq(Objects)
    BY DEF List
  <2> QED BY <2>1, RemovedAbsent, RemovedIs
<1>4. /\ u \in HeapRecord /\ u.mem = h.mem /\ u.rc = h.rc /\ u.weak = h.weak /\ u.mark = h.mark
      /\ u.gc = h.gc /\ u.zero = h.zero /\ u.faults = h.faults
      /\ List(u.tmp) /\ Range(u.tmp) = Range(h.tmp) \ {p}
  BY <1>2, <1>3 DEF Fields
<1>a. CASE u.rc[p] = 0 /\ u.weak[p] = 0
  <2>1. g = Release(u, p)
    BY <1>a DEF Dispose
  <2>2. Fields(g, [u.mem EXCEPT ![p] = "free"], u.rc, u.weak, u.mark, u.gc, u.zero, u.tmp, u.faults)
    BY <2>1, <1>1, <1>4, ReleaseIs
  <2>3. g = Dispose(Unlist(h, p), p)
    BY DEF u
  <2> HIDE DEF g
  <2>4. g.mem[p] = "free" /\ \A x \in Objects : x # p => g.mem[x] = h.mem[x]
    BY <2>2, <1>1, <1>4 DEF Fields, HeapRecord
  <2> QED BY <2>2, <2>3, <2>4, <1>a, <1>4 DEF Fields
<1>b. CASE ~ (u.rc[p] = 0 /\ u.weak[p] = 0)
  <2> DEFINE m == [u.mem EXCEPT ![p] = "husk"]
             z == Append(u.zero, p)
  <2>1. /\ m \in [Objects -> {"free", "object", "husk"}]
        /\ m[p] = "husk" /\ \A x \in Objects : x # p => m[x] = h.mem[x]
    BY <1>1, <1>4 DEF HeapRecord
  <2>2. List(z) /\ Range(z) = Range(h.zero) \cup {p}
    BY <1>1, <1>4, AppendedIs
  <2>3. g = [u EXCEPT !.zero = Append(@, p), !.mem[p] = "husk"]
    BY <1>b DEF Dispose
  <2>4. [u EXCEPT !.zero = Append(@, p), !.mem[p] = "husk"] = [u EXCEPT !.zero = z, !.mem = m]
    BY <1>4 DEF HeapRecord
  <2>5. g = Dispose(Unlist(h, p), p)
    BY DEF u
  <2> HIDE DEF m, z, g
  <2>6. z \in Seq(Objects)
    BY <2>2 DEF List
  <2>7. Fields([u EXCEPT !.zero = z, !.mem = m], m, u.rc, u.weak, u.mark, u.gc, z, u.tmp, u.faults)
    BY <2>1, <2>6, <1>4 DEF HeapRecord, Fields
  <2>8. Fields(g, m, u.rc, u.weak, u.mark, u.gc, z, u.tmp, u.faults)
    BY <2>3, <2>4, <2>7
  <2> QED BY <2>1, <2>2, <2>5, <2>8, <1>b, <1>4 DEF Fields
<1> QED BY <1>a, <1>b

\* What stays when the references of p, which does not, go.
LEMMA RootedLess ==
  ASSUME NEW G \in SUBSET Objects, Rooted(G), NEW p \in Objects, p \notin G, UNCHANGED <<roots, jobs>>,
         But(field', field, p), But(entry', entry, p)
  PROVE  Rooted(G)'
<1>0. \A o \in G : field'[o] = field[o] /\ entry'[o] = entry[o]
  BY DEF But
<1>1. Closed(G)'
  <2>1. \A o \in G : Refers(o)' = Refers(o)
    BY <1>0 DEF Refers
  <2> QED BY <2>1 DEF Rooted, Closed
<1>2. G \subseteq Reachable'
  <2>1. ASSUME NEW S \in SUBSET Objects, Closed(S)' PROVE G \subseteq S
    <3>1. roots \cup (Range(jobs) \ {None}) \subseteq S /\ \A o \in S : Refers(o)' \subseteq S
      BY <2>1 DEF Closed
    <3>2. \A o \in G : Refers(o)' = Refers(o)
      BY <1>0 DEF Refers
    <3>3. Closed(S \cap G)
      BY <3>1, <3>2 DEF Closed, Rooted
    <3>4. S \cap G \in SUBSET Objects
      OBVIOUS
    <3>5. Reachable \subseteq S \cap G
      BY <3>3, <3>4, ReachableLeast
    <3> QED BY <3>5 DEF Rooted
  <2> QED BY <2>1 DEF Reachable
<1>3. ASSUME NEW o \in G PROVE (RefCount(roots, jobs, field, entry, G, o) > 0)'
  <2>1. PICK F2, E2 : F2 = field' /\ E2 = entry'
    OBVIOUS
  <2>2. RefCount(roots, jobs, F2, E2, G, o) = RefCount(roots, jobs, field, entry, G, o)
    BY <2>1, <1>0, RefCountSame
  <2>3. RefCount(roots, jobs, field, entry, G, o) > 0
    BY DEF Rooted
  <2> QED BY <2>1, <2>2, <2>3
<1> QED BY <1>1, <1>2, <1>3 DEF Rooted

\* What free_object does to the heap while cycles are removed.
LEMMA CycleHeap ==
  ASSUME Sorting(Objects), pc = "cycles", NEW p \in Range(heap.tmp)
  PROVE  LET g == Dispose(Unlist(FreeEntry(FreeValue(heap, field[p]), p), p), p) IN
         /\ Sorted(g) /\ Living(g) = Living(heap) \ {p} /\ g.gc = heap.gc
         /\ Range(g.zero) \in {Range(heap.zero), Range(heap.zero) \cup {p}}
         /\ p \in Range(g.zero) \/ g.rc[p] = 0
         /\ \A x \in Objects : g.rc[x] = heap.rc[x] - Is(field[p], x) - Is(entry[p].val, x)
         /\ \A x \in Objects : g.weak[x] = heap.weak[x] - Is(entry[p].key, x) - Is(Token(p), x)
<1> DEFINE v == entry[p].val
           f == FreeValue(heap, field[p])
           k == FreeKey(f, p)
           h == FreeValue(k, v)
           g == Dispose(Unlist(h, p), p)
           G == Range(heap.gc)
           Z == Range(heap.zero)
<1>1. /\ Sorted(heap) /\ HeapTypeOK /\ heap \in HeapRecord /\ jobs \in Seq(MaybeObjects)
      /\ List(heap.gc) /\ List(heap.zero) /\ List(heap.tmp)
  BY DEF Sorting, Sorted, HeapTypeOK
<1>2. /\ p \in Living(heap) /\ p \in Objects /\ p \notin G /\ p \notin Z /\ heap.mem[p] = "object"
      /\ G \subseteq Living(heap) /\ Living(heap) \subseteq Objects
  BY <1>1 DEF Sorted, Living
<1>3. \A x \in Objects : heap.rc[x] \in Nat /\ heap.rc[x] >= Is(field[p], x) + Is(v, x)
  <2> SUFFICES ASSUME NEW x \in Objects PROVE heap.rc[x] \in Nat /\ heap.rc[x] >= Is(field[p], x) + Is(v, x)
    OBVIOUS
  <2>1. /\ RefCount(roots, jobs, field, entry, Objects, x) \in Nat
        /\ RefCount(roots, jobs, field, entry, Objects, x) >= Is(field[p], x) + Is(entry[p].val, x)
    BY <1>1, <1>2, RefCountType, RefCountLeast
  <2> QED BY <2>1 DEF Sorting, Exact
<1>4. \A x \in Objects : heap.weak[x] \in Nat /\ heap.weak[x] >= Is(entry[p].key, x) + Is(Token(p), x)
  <2> SUFFICES ASSUME NEW x \in Objects
               PROVE  heap.weak[x] \in Nat /\ heap.weak[x] >= Is(entry[p].key, x) + Is(Token(p), x)
    OBVIOUS
  <2>1. /\ WeakCount(entry, kind, x) \in Nat
        /\ WeakCount(entry, kind, x) >= Is(entry[p].key, x) + Is(Tokens(entry, kind)[p], x)
    BY <1>2, WeakCountType
  <2>2. Tokens(entry, kind)[p] = Token(p)
    BY <1>2 DEF Tokens, Token
  <2> QED BY <2>1, <2>2 DEF Sorting, Exact
<1>5. \A x \in G : heap.rc[x] - Is(field[p], x) - Is(v, x) > 0
  <2> SUFFICES ASSUME NEW x \in G PROVE heap.rc[x] - Is(field[p], x) - Is(v, x) > 0
    OBVIOUS
  <2> DEFINE Q == Objects \ {p}
  <2>1. /\ Q \in SUBSET Objects /\ p \notin Q /\ Objects = Q \cup {p} /\ G \in SUBSET Q /\ x \in Objects
    BY <1>2
  <2> HIDE DEF Q, G
  <2>2. RefCount(roots, jobs, field, entry, Q \cup {p}, x) =
          RefCount(roots, jobs, field, entry, Q, x) + Is(field[p], x) + Is(entry[p].val, x)
    BY <2>1, <1>1, <1>2, RefCountAdd
  <2>3. RefCount(roots, jobs, field, entry, G, x) <= RefCount(roots, jobs, field, entry, Q, x)
    BY <2>1, <1>1, RefCountLess
  <2>4. RefCount(roots, jobs, field, entry, G, x) > 0
    BY DEF Sorting, Rooted, G
  <2>5. heap.rc[x] = RefCount(roots, jobs, field, entry, Q \cup {p}, x)
    BY <2>1 DEF Sorting, Exact
  <2>6. /\ RefCount(roots, jobs, field, entry, Q, x) \in Nat /\ RefCount(roots, jobs, field, entry, G, x) \in Nat
        /\ Is(field[p], x) \in Nat /\ Is(entry[p].val, x) \in Nat
    <3>1. G \in SUBSET Objects
      BY <2>1
    <3> QED BY <3>1, <2>1, <1>1, RefCountType, IsType
  <2> QED BY <2>2, <2>3, <2>4, <2>5, <2>6
<1>6. \A x \in Living(heap) \cup Z : heap.mem[x] # "free" /\ x \in Objects /\ (x \in G \/ heap.mark[x] = 1)
  <2>1. Z \subseteq Objects
    BY <1>1 DEF List, Range
  <2> QED BY <2>1, <1>1, <1>2 DEF Sorted, Living
<1>7. Refers(p) \subseteq Living(heap) \cup Z
  BY <1>2 DEF Sorting
<1>8. Spared(heap)
  <2>1. \A x \in G : heap.rc[x] # 0
    <3> SUFFICES ASSUME NEW x \in G PROVE heap.rc[x] # 0
      OBVIOUS
    <3>1. x \in Objects /\ Is(field[p], x) \in Nat /\ Is(v, x) \in Nat
      BY <1>2, IsType
    <3> QED BY <3>1, <1>3, <1>5
  <2>2. \A x \in Objects : heap.mem[x] = "object" \/ x \in Z => heap.rc[x] # 0 \/ heap.mark[x] = 1
    BY <2>1, <1>6 DEF Living
  <2> QED BY <2>2, <1>1 DEF Sorted, Spared
<1>9. field[p] \in MaybeObjects /\ v \in MaybeObjects
  BY <1>1, <1>2 DEF HeapTypeOK
<1>10. field[p] # None => /\ field[p] \in Living(heap) \/ (field[p] \in Range(heap.zero) /\ heap.mem[field[p]] # "free")
                          /\ heap.rc[field[p]] # 1 \/ heap.mark[field[p]] = 1
  <2> SUFFICES ASSUME field[p] # None
               PROVE  /\ field[p] \in Living(heap) \/ (field[p] \in Range(heap.zero) /\ heap.mem[field[p]] # "free")
                      /\ heap.rc[field[p]] # 1 \/ heap.mark[field[p]] = 1
    OBVIOUS
  <2>1. field[p] \in Living(heap) \cup Z
    BY <1>7 DEF Refers
  <2>2. Is(field[p], field[p]) = 1 /\ Is(v, field[p]) \in Nat
    BY DEF Is
  <2>3. field[p] \in G => heap.rc[field[p]] # 1
    BY <2>2, <1>2, <1>3, <1>5
  <2> QED BY <2>1, <2>3, <1>6
<1>11. /\ Spared(f) /\ f.mem = heap.mem /\ f.weak = heap.weak /\ f.mark = heap.mark
       /\ f.gc = heap.gc /\ f.zero = heap.zero /\ f.tmp = heap.tmp
       /\ \A x \in Objects : f.rc[x] = heap.rc[x] - Is(field[p], x)
  BY <1>8, <1>9, <1>10, LowerIs
<1> HIDE DEF f
<1>12. /\ Spared(k) /\ Same(f, k)
       /\ \A x \in Objects : k.weak[x] = f.weak[x] - Is(entry[p].key, x) - Is(Token(p), x)
  <2>1. \A x \in Objects : f.weak[x] >= Is(entry[p].key, x) + Is(Token(p), x)
    BY <1>4, <1>11
  <2> QED BY <2>1, <1>1, <1>2, <1>11, FreeKeyIs
<1> HIDE DEF k
<1>13. /\ k.rc = f.rc /\ k.mark = heap.mark /\ k.gc = heap.gc /\ k.zero = heap.zero /\ k.tmp = heap.tmp
       /\ Living(k) = Living(heap) /\ \A x \in Living(heap) \cup Z : k.mem[x] = heap.mem[x]
  <2>1. Living(f) = Living(heap)
    BY <1>11 DEF Living
  <2> QED BY <2>1, <1>6, <1>11, <1>12 DEF Same, Living
<1>14. v # None => /\ v \in Living(k) \/ (v \in Range(k.zero) /\ k.mem[v] # "free")
                   /\ k.rc[v] # 1 \/ k.mark[v] = 1
  <2> SUFFICES ASSUME v # None
               PROVE  /\ v \in Living(k) \/ (v \in Range(k.zero) /\ k.mem[v] # "free")
                      /\ k.rc[v] # 1 \/ k.mark[v] = 1
    OBVIOUS
  <2>1. v \in Living(heap) \cup Z
    BY <1>7 DEF Refers
  <2>2. Is(v, v) = 1 /\ Is(field[p], v) \in Nat
    BY DEF Is
  <2>3. v \in G => k.rc[v] # 1
    BY <2>2, <1>2, <1>3, <1>5, <1>11, <1>13
  <2> QED BY <2>1, <2>3, <1>6, <1>13
<1>15. /\ Spared(h) /\ h.mem = k.mem /\ h.weak = k.weak /\ h.mark = k.mark
       /\ h.gc = k.gc /\ h.zero = k.zero /\ h.tmp = k.tmp
       /\ \A x \in Objects : h.rc[x] = k.rc[x] - Is(v, x)
  BY <1>9, <1>12, <1>14, LowerIs
<1>16. g = Dispose(Unlist(FreeEntry(FreeValue(heap, field[p]), p), p), p)
  BY DEF FreeEntry, k, f
<1> HIDE DEF h
<1>17. Living(h) = Living(heap)
  BY <1>13, <1>15 DEF Living
<1>18. /\ g \in HeapRecord /\ g.rc = h.rc /\ g.weak = h.weak /\ g.mark = h.mark /\ g.faults = h.faults
       /\ g.gc = h.gc /\ List(g.tmp) /\ Range(g.tmp) = Range(h.tmp) \ {p} /\ List(g.zero)
       /\ \A x \in Objects : x # p => g.mem[x] = h.mem[x]
       /\ IF h.rc[p] = 0 /\ h.weak[p] = 0 THEN g.mem[p] = "free" /\ g.zero = h.zero
          ELSE g.mem[p] = "husk" /\ Range(g.zero) = Range(h.zero) \cup {p}
  <2>1. /\ h \in HeapRecord /\ p \in Living(h) /\ List(h.gc) /\ List(h.zero) /\ List(h.tmp)
        /\ p \notin Range(h.gc) /\ p \notin Range(h.zero)
    BY <1>1, <1>2, <1>13, <1>15, <1>17 DEF Spared
  <2> HIDE DEF g
  <2>2. g = Dispose(Unlist(h, p), p)
    BY DEF g
  <2> QED BY <2>1, <2>2, CulledIs
<1> HIDE DEF g
<1>19. (g.mem[p] # "object" /\ g.mem[p] # "free") \/ (g.mem[p] = "free" /\ h.weak[p] = 0)
  BY <1>18
<1>20. Living(g) = Living(heap) \ {p}
  <2>1. Living(g) = Living(h) \ {p}
    BY <1>18, <1>19, <1>2 DEF Living
  <2> QED BY <2>1, <1>17
<1>21. /\ Range(g.zero) \in {Z, Z \cup {p}} /\ (p \in Range(g.zero) \/ g.rc[p] = 0)
       /\ (g.mem[p] = "husk" => p \in Range(g.zero))
  BY <1>13, <1>15, <1>18
<1>22. Sorted(g)
  <2>1. Range(g.gc) \cup Range(g.tmp) = Living(g) /\ Range(g.gc) \cap Range(g.tmp) = {}
    BY <1>1, <1>2, <1>13, <1>15, <1>18, <1>20 DEF Sorted
  <2>2. /\ \A o \in Range(g.gc) : g.mark[o] = 0
        /\ \A o \in Range(g.tmp) \cup Range(g.zero) : g.mark[o] = 1
    BY <1>1, <1>13, <1>15, <1>18, <1>21 DEF Sorted
  <2>3. \A o \in Range(g.zero) : g.mem[o] = "husk"
    <3>1. \A o \in Z : g.mem[o] = "husk"
      <4>1. \A o \in Z : heap.mem[o] = "husk" /\ o # p /\ o \in Objects
        BY <1>1, <1>2, <1>6 DEF Sorted
      <4> QED BY <4>1, <1>13, <1>15, <1>18
    <3>2. p \in Range(g.zero) => g.mem[p] = "husk"
      BY <1>2, <1>13, <1>15, <1>18
    <3> QED BY <3>1, <3>2, <1>21
  <2>4. \A o \in Objects : g.mem[o] = "free" => g.weak[o] = 0
    BY <1>15, <1>18, <1>19 DEF Spared
  <2>5. \A o \in Objects : g.mem[o] = "husk" /\ o \notin Range(g.zero) =>
          g.rc[o] = 0 /\ g.mark[o] = 0 /\ g.weak[o] > 0
    <3> SUFFICES ASSUME NEW o \in Objects, g.mem[o] = "husk", o \notin Range(g.zero)
                 PROVE  g.rc[o] = 0 /\ g.mark[o] = 0 /\ g.weak[o] > 0
      OBVIOUS
    <3>1. o # p /\ o \notin Range(h.zero)
      BY <1>13, <1>15, <1>21
    <3> QED BY <3>1, <1>15, <1>18 DEF Spared
  <2>6. g.faults = {} /\ List(g.gc)
    BY <1>1, <1>13, <1>15, <1>18 DEF Spared
  <2> QED BY <2>1, <2>2, <2>3, <2>4, <2>5, <2>6, <1>18 DEF Sorted
<1>23. \A x \in Objects : g.rc[x] = heap.rc[x] - Is(field[p], x) - Is(v, x)
  BY <1>11, <1>13, <1>15, <1>18
<1>24. \A x \in Objects : g.weak[x] = heap.weak[x] - Is(entry[p].key, x) - Is(Token(p), x)
  BY <1>11, <1>12, <1>15, <1>18
<1>25. g.gc = heap.gc
  BY <1>13, <1>15, <1>18
<1> QED BY <1>16, <1>20, <1>21, <1>22, <1>23, <1>24, <1>25

\* An object of a cycle is freed.
LEMMA CycleOneOK ==
  ASSUME Freeing, pc = "cycles", heap.tmp # <<>>, FreeObject(Head(heap.tmp)), UNCHANGED <<pc, cursor>>
  PROVE  Freeing' /\ KeepsEntries
<1>0. PICK p, G, g : p = Head(heap.tmp) /\ G = Range(heap.gc) /\ g = heap'
  OBVIOUS
<1>1. Sorting(Objects) /\ Sorted(heap) /\ HeapTypeOK /\ jobs \in Seq(MaybeObjects) /\ Rooted(G)
  BY <1>0 DEF Freeing, Sorting, HeapTypeOK
<1>2. p \in Range(heap.tmp)
  BY <1>0, <1>1, HeadIs DEF Sorted
<1>3. /\ p \in Living(heap) /\ p \in Objects /\ p \notin G /\ G \in SUBSET Objects
  BY <1>0, <1>1, <1>2 DEF Sorted, Living
<1>4. FreeObject(p) /\ g = Dispose(Unlist(FreeEntry(FreeValue(heap, field[p]), p), p), p)
  BY <1>0 DEF FreeObject
<1>5. /\ Sorted(g) /\ Living(g) = Living(heap) \ {p} /\ g.gc = heap.gc
      /\ Range(g.zero) \in {Range(heap.zero), Range(heap.zero) \cup {p}}
      /\ p \in Range(g.zero) \/ g.rc[p] = 0
      /\ \A x \in Objects : g.rc[x] = heap.rc[x] - Is(field[p], x) - Is(entry[p].val, x)
      /\ \A x \in Objects : g.weak[x] = heap.weak[x] - Is(entry[p].key, x) - Is(Token(p), x)
  BY <1>1, <1>2, <1>4, CycleHeap
<1>6. /\ RefTypes' /\ UNCHANGED <<roots, jobs, after>>
      /\ But(field', field, p) /\ But(entry', entry, p) /\ But(kind', kind, p)
      /\ field'[p] = None /\ entry'[p] = NoEntry
  BY <1>1, <1>3, <1>4, FreedRefs
<1>7. PICK F2, E2, K2 : F2 = field' /\ E2 = entry' /\ K2 = kind'
  OBVIOUS
<1>8. But(F2, field, p) /\ But(E2, entry, p) /\ But(K2, kind, p) /\ F2[p] = None /\ E2[p] = NoEntry
  BY <1>6, <1>7
<1>9. Exact(g, roots, jobs, F2, E2, K2, Objects)
  <2> SUFFICES ASSUME NEW x \in Objects
               PROVE  /\ g.rc[x] = RefCount(roots, jobs, F2, E2, Objects, x)
                      /\ g.weak[x] = WeakCount(E2, K2, x)
    BY DEF Exact
  <2>1. /\ RefCount(roots, jobs, F2, E2, Objects, x)
             = RefCount(roots, jobs, field, entry, Objects, x) - Is(field[p], x) - Is(entry[p].val, x)
        /\ WeakCount(E2, K2, x) = WeakCount(entry, kind, x) - Is(entry[p].key, x) - Is(Token(p), x)
    BY <1>1, <1>3, <1>8, WithoutRefs
  <2>2. heap.rc[x] = RefCount(roots, jobs, field, entry, Objects, x) /\ heap.weak[x] = WeakCount(entry, kind, x)
    BY <1>1 DEF Sorting, Exact
  <2> QED BY <2>1, <2>2, <1>5
<1>10. ASSUME NEW q \in Objects
       PROVE  {F2[q], E2[q].val} \ {None} \subseteq Living(g) \cup Range(g.zero)
  <2>1. CASE q = p
    BY <2>1, <1>8 DEF NoEntry
  <2>2. CASE q # p
    <3>1. {F2[q], E2[q].val} \ {None} = Refers(q)
      BY <2>2, <1>8 DEF But, Refers
    <3>2. Refers(q) \subseteq Living(heap) \cup Range(heap.zero)
      BY <1>1 DEF Sorting
    <3>3. CASE p \in Range(g.zero)
      BY <3>1, <3>2, <3>3, <1>5
    <3>4. CASE g.rc[p] = 0
      <4>1. RefCount(roots, jobs, F2, E2, Objects, p) = 0
        BY <3>4, <1>3, <1>9 DEF Exact
      <4>2. F2[q] # p /\ E2[q].val # p
        BY <4>1, <1>1, RefCountType
      <4>3. p \notin Refers(q)
        BY <4>2, <3>1
      <4> QED BY <4>3, <3>1, <3>2, <1>5
    <3> QED BY <3>3, <3>4, <1>5
  <2> QED BY <2>1, <2>2
<1>11. Rooted(G)'
  BY <1>1, <1>3, <1>6, RootedLess
<1>12. HeapTypeOK'
  <2>1. g \in HeapRecord
    BY <1>5 DEF Sorted
  <2> QED BY <2>1, <1>0, <1>1, <1>6 DEF HeapTypeOK, RefTypes
<1>13. Sorting(Objects)'
  <2>1. Sorted(heap)' /\ Exact(heap, roots, jobs, field, entry, kind, Objects)'
    BY <1>0, <1>5, <1>6, <1>7, <1>9
  <2>2. Bare(Living(heap), field, entry)'
    <3>1. Bare(Living(heap), field, entry)
      BY <1>1 DEF Sorting
    <3>2. Bare(Living(g), F2, E2)
      BY <3>1, <1>5, <1>8 DEF Bare, But
    <3> QED BY <3>2, <1>0, <1>7
  <2>3. Rooted(Range(heap.gc))'
    <3>1. Range(heap.gc)' = G
      BY <1>0, <1>5
    <3> QED BY <3>1, <1>11
  <2>4. (\A o \in Objects : Refers(o) \subseteq Living(heap) \cup Range(heap.zero))'
    BY <1>0, <1>7, <1>10 DEF Refers
  <2> QED BY <2>1, <2>2, <2>3, <2>4, <1>12 DEF Sorting
<1>14. Freeing'
  BY <1>13 DEF Freeing, SortPhase, SortPCs
<1>15. KeepsEntries
  <2>1. Reachable \subseteq G
    BY <1>1, <1>3, ReachableLeast DEF Rooted
  <2> QED BY <2>1, <1>3, <1>6 DEF KeepsEntries, But
<1> QED BY <1>14, <1>15

\* The passes of the collector follow each other, and end.
LEMMA FreeingOn ==
  ASSUME Freeing, HeapTypeOK', SortPhase', pc' # "restore", UNCHANGED <<heap, refVars>>
  PROVE  Freeing' /\ KeepsEntries
<1>0. UNCHANGED <<heap, kind, field, entry, roots, jobs, weakList>>
  BY DEF refVars
<1>1. PICK G : G = Range(heap.gc)
  OBVIOUS
<1>2. Sorting(Objects) /\ Rooted(G)
  BY <1>1 DEF Freeing, Sorting
<1>3. Rooted(G)'
  BY <1>0, <1>2, RootedSame
<1>4. Rooted(Range(heap.gc))'
  <2>1. Range(heap.gc)' = G
    BY <1>0, <1>1
  <2> QED BY <2>1, <1>3
<1>5. (\A o \in Objects : Refers(o) \subseteq Living(heap) \cup Range(heap.zero))'
  BY <1>0, <1>2 DEF Sorting, Refers
<1>6. Sorting(Objects)'
  BY <1>0, <1>2, <1>4, <1>5 DEF Sorting
<1> QED BY <1>0, <1>6 DEF Freeing, KeepsEntries

LEMMA CyclesDoneOK ==
  ASSUME Freeing, pc = "cycles", heap.tmp = <<>>, pc' = "sweep", UNCHANGED <<heap, refVars, after, cursor>>
  PROVE  Freeing' /\ KeepsEntries
<1>1. HeapTypeOK'
  BY DEF Freeing, Sorting, HeapTypeOK, refVars, PCs
<1>2. SortPhase'
  BY DEF SortPhase, SortPCs
<1> QED BY <1>1, <1>2, FreeingOn

LEMMA SweepDoneOK ==
  ASSUME Freeing, pc = "sweep", heap.zero = <<>>, pc' = "collected", UNCHANGED <<heap, refVars, after, cursor>>
  PROVE  Freeing' /\ KeepsEntries
<1>1. HeapTypeOK'
  BY DEF Freeing, Sorting, HeapTypeOK, refVars, PCs
<1>2. SortPhase'
  BY DEF SortPhase, SortPCs, Freeing
<1> QED BY <1>1, <1>2, FreeingOn

\* The structure of an object of a cycle is freed or left to its weak references.
LEMMA SweptIs ==
  ASSUME NEW h, Sorted(h), h.zero # <<>>, NEW q, q = Head(h.zero), h.rc[q] = 0, h.weak[q] \in Nat
  PROVE  LET g == [SweepOne(h, q) EXCEPT !.zero = Tail(@)] IN
         /\ Sorted(g) /\ Living(g) = Living(h) /\ g.gc = h.gc /\ g.tmp = h.tmp
         /\ g.rc = h.rc /\ g.weak = h.weak /\ Range(g.zero) \subseteq Range(h.zero)
<1> DEFINE z == Tail(h.zero)
           s == SweepOne(h, q)
           g == [s EXCEPT !.zero = z]
<1>1. /\ q \in Objects /\ q \in Range(h.zero) /\ List(z) /\ Range(z) = Range(h.zero) \ {q}
  BY HeadIs DEF Sorted
<1>2. /\ h \in HeapRecord /\ h.mem[q] = "husk" /\ q \notin Living(h)
  BY <1>1 DEF Sorted, Living
<1>3. z \in Seq(Objects)
  BY <1>1 DEF List
<1>4. /\ s \in HeapRecord /\ s.rc = h.rc /\ s.weak = h.weak /\ s.faults = h.faults
      /\ s.gc = h.gc /\ s.zero = h.zero /\ s.tmp = h.tmp
      /\ \A x \in Objects : x # q => s.mem[x] = h.mem[x] /\ s.mark[x] = h.mark[x]
      /\ IF h.weak[q] # 0 THEN s.mem[q] = "husk" /\ s.mark[q] = 0 ELSE s.mem[q] = "free"
  <2>1. CASE h.weak[q] # 0
    <3> DEFINE n == [h EXCEPT !.mark[q] = 0]
    <3>1. s = n
      BY <2>1 DEF SweepOne
    <3>3. /\ Fields(n, h.mem, h.rc, h.weak, [h.mark EXCEPT ![q] = 0], h.gc, h.zero, h.tmp, h.faults)
          /\ n.mark[q] = 0 /\ \A x \in Objects : x # q => n.mark[x] = h.mark[x]
      BY <1>1, <1>2, MarkIs
    <3> HIDE DEF s, n
    <3>2. /\ Fields(s, h.mem, h.rc, h.weak, [h.mark EXCEPT ![q] = 0], h.gc, h.zero, h.tmp, h.faults)
          /\ s.mark[q] = 0 /\ \A x \in Objects : x # q => s.mark[x] = h.mark[x]
      BY <3>1, <3>3
    <3> QED BY <3>2, <2>1, <1>2 DEF Fields
  <2>2. CASE h.weak[q] = 0
    <3>1. s = Release(h, q)
      BY <2>2 DEF SweepOne
    <3>2. Fields(s, [h.mem EXCEPT ![q] = "free"], h.rc, h.weak, h.mark, h.gc, h.zero, h.tmp, h.faults)
      BY <3>1, <1>1, <1>2, ReleaseIs
    <3> HIDE DEF s
    <3>3. s.mem[q] = "free" /\ \A x \in Objects : x # q => s.mem[x] = h.mem[x]
      BY <3>2, <1>1, <1>2 DEF Fields, HeapRecord
    <3> QED BY <3>2, <3>3, <2>2 DEF Fields
  <2> QED BY <2>1, <2>2
<1>5. [SweepOne(h, q) EXCEPT !.zero = Tail(@)] = g
  BY <1>4 DEF HeapRecord
<1> HIDE DEF s, z
<1>6. Fields(g, s.mem, s.rc, s.weak, s.mark, s.gc, z, s.tmp, s.faults)
  BY <1>3, <1>4 DEF Fields, HeapRecord
<1> HIDE DEF g
<1>7. /\ g \in HeapRecord /\ g.rc = h.rc /\ g.weak = h.weak /\ g.faults = h.faults
      /\ g.gc = h.gc /\ g.tmp = h.tmp /\ List(g.zero) /\ Range(g.zero) = Range(h.zero) \ {q}
      /\ \A x \in Objects : x # q => g.mem[x] = h.mem[x] /\ g.mark[x] = h.mark[x]
      /\ IF h.weak[q] # 0 THEN g.mem[q] = "husk" /\ g.mark[q] = 0 ELSE g.mem[q] = "free"
  BY <1>1, <1>4, <1>6 DEF Fields
<1>8. Living(g) = Living(h) /\ Living(h) \subseteq Objects \ {q}
  BY <1>2, <1>7 DEF Living
<1>9. Range(h.zero) \subseteq Objects
  BY DEF Sorted, List, Range
<1>10. Sorted(g)
  <2>1. /\ \A o \in Range(g.gc) : g.mark[o] = 0
        /\ \A o \in Range(g.tmp) \cup Range(g.zero) : g.mark[o] = 1
        /\ \A o \in Range(g.zero) : g.mem[o] = "husk"
    <3>1. Range(h.gc) \subseteq Objects \ {q} /\ Range(h.tmp) \subseteq Objects \ {q}
      BY <1>8 DEF Sorted
    <3> QED BY <3>1, <1>7, <1>9 DEF Sorted
  <2>2. \A o \in Objects : g.mem[o] = "free" => g.weak[o] = 0
    BY <1>7 DEF Sorted
  <2>3. \A o \in Objects : g.mem[o] = "husk" /\ o \notin Range(g.zero) =>
          g.rc[o] = 0 /\ g.mark[o] = 0 /\ g.weak[o] > 0
    <3> SUFFICES ASSUME NEW o \in Objects, g.mem[o] = "husk", o \notin Range(g.zero)
                 PROVE  g.rc[o] = 0 /\ g.mark[o] = 0 /\ g.weak[o] > 0
      OBVIOUS
    <3>1. CASE o = q
      <4>1. h.weak[q] > 0
        BY <3>1, <1>7
      <4> QED BY <4>1, <3>1, <1>7
    <3>2. CASE o # q
      BY <3>2, <1>7 DEF Sorted
    <3> QED BY <3>1, <3>2
  <2> QED BY <2>1, <2>2, <2>3, <1>7, <1>8 DEF Sorted
<1> QED BY <1>5, <1>7, <1>8, <1>10

LEMMA SweepOneOK ==
  ASSUME Freeing, pc = "sweep", heap.zero # <<>>,
         heap' = [SweepOne(heap, Head(heap.zero)) EXCEPT !.zero = Tail(@)], UNCHANGED <<refVars, after, cursor, pc>>
  PROVE  Freeing' /\ KeepsEntries
<1>0. UNCHANGED <<kind, field, entry, roots, jobs, weakList, after, cursor, pc>>
  BY DEF refVars
<1>1. PICK q, G, g : q = Head(heap.zero) /\ G = Range(heap.gc) /\ g = heap'
  OBVIOUS
<1>2. /\ Sorting(Objects) /\ Sorted(heap) /\ HeapTypeOK /\ jobs \in Seq(MaybeObjects) /\ Rooted(G) /\ heap.tmp = <<>>
      /\ Bare(Living(heap), field, entry)
  BY <1>1 DEF Freeing, Sorting, HeapTypeOK, SortPhase
<1>3. q \in Range(heap.zero) /\ q \in Objects
  BY <1>1, <1>2, HeadIs DEF Sorted
<1>4. Living(heap) = G /\ q \notin G
  <2>1. Range(heap.tmp) = {}
    BY <1>2 DEF Range
  <2>2. heap.mem[q] = "husk"
    BY <1>2, <1>3 DEF Sorted
  <2> QED BY <2>1, <2>2, <1>1, <1>2 DEF Sorted, Living
<1>5. heap.rc[q] = 0
  <2>1. \A p \in Objects : field[p] # q /\ entry[p].val # q
    <3> SUFFICES ASSUME NEW p \in Objects PROVE field[p] # q /\ entry[p].val # q
      OBVIOUS
    <3>0. q # None
      BY <1>3, HeapAssumption
    <3>1. CASE p \in G
      <4>1. q \notin Refers(p)
        BY <3>1, <1>2, <1>4 DEF Rooted, Closed
      <4> QED BY <4>1, <3>0 DEF Refers
    <3>2. CASE p \notin G
      BY <3>0, <3>2, <1>2, <1>4 DEF Bare, NoEntry
    <3> QED BY <3>1, <3>2
  <2>2. q \notin roots /\ q \notin Range(jobs)
    BY <1>2, <1>3, <1>4, HeapAssumption DEF Rooted, Closed
  <2>0. jobs \in Seq(MaybeObjects) /\ Objects \in SUBSET Objects
    BY <1>2
  <2>3. /\ RefCount(roots, jobs, field, entry, Objects, q) \in Nat
        /\ RefCount(roots, jobs, field, entry, Objects, q) > 0 =>
             \/ q \in roots \/ q \in Range(jobs)
             \/ \E p \in Objects : field[p] = q \/ entry[p].val = q
    BY <2>0, <1>3, RefCountType, SMTT(30)
  <2>4. RefCount(roots, jobs, field, entry, Objects, q) = 0
    BY <2>1, <2>2, <2>3
  <2> QED BY <2>4, <1>2, <1>3 DEF Sorting, Exact
<1>6. heap.weak[q] \in Nat
  <2>1. WeakCount(entry, kind, q) \in Nat
    BY <1>3, WeakCountType
  <2> QED BY <2>1, <1>2, <1>3 DEF Sorting, Exact
<1>7. /\ Sorted(g) /\ Living(g) = Living(heap) /\ g.gc = heap.gc /\ g.tmp = heap.tmp
      /\ g.rc = heap.rc /\ g.weak = heap.weak /\ Range(g.zero) \subseteq Range(heap.zero)
  <2>1. g = [SweepOne(heap, q) EXCEPT !.zero = Tail(@)]
    BY <1>1
  <2> QED BY <2>1, <1>1, <1>2, <1>5, <1>6, SweptIs
<1>8. Rooted(G)'
  BY <1>0, <1>2, RootedSame
<1>9. HeapTypeOK'
  <2>1. g \in HeapRecord
    BY <1>7 DEF Sorted
  <2> QED BY <2>1, <1>0, <1>1, <1>2 DEF HeapTypeOK
<1>10. Sorting(Objects)'
  <2>1. Sorted(heap)' /\ Exact(heap, roots, jobs, field, entry, kind, Objects)'
    BY <1>0, <1>1, <1>2, <1>7 DEF Sorting, Exact
  <2>2. Bare(Living(heap), field, entry)'
    BY <1>0, <1>1, <1>2, <1>7
  <2>3. Rooted(Range(heap.gc))'
    <3>1. Range(heap.gc)' = G
      BY <1>1, <1>7
    <3> QED BY <3>1, <1>8
  <2>4. (\A o \in Objects : Refers(o) \subseteq Living(heap) \cup Range(heap.zero))'
    <3> SUFFICES ASSUME NEW o \in Objects PROVE Refers(o)' \subseteq Living(g)
      BY <1>1
    <3>0. Refers(o)' = Refers(o)
      BY <1>0 DEF Refers
    <3>1. CASE o \in G
      BY <3>0, <3>1, <1>2, <1>4, <1>7 DEF Rooted, Closed
    <3>2. CASE o \notin G
      BY <3>0, <3>2, <1>2, <1>4 DEF Bare, Refers, NoEntry
    <3> QED BY <3>1, <3>2
  <2> QED BY <2>1, <2>2, <2>3, <2>4, <1>9 DEF Sorting
<1>11. Freeing'
  BY <1>0, <1>1, <1>2, <1>7, <1>10 DEF Freeing, SortPhase, SortPCs
<1> QED BY <1>0, <1>11 DEF KeepsEntries

\* After a collection every object that is left has a count again.
LEMMA ResumeOK ==
  ASSUME Freeing, Resume
  PROVE  Steady' /\ KeepsEntries
<1>0. UNCHANGED <<heap, kind, field, entry, roots, jobs, weakList, after, cursor>> /\ pc = "collected" /\ pc' = "idle"
  BY DEF Resume, refVars
<1>1. PICK G : G = Range(heap.gc)
  OBVIOUS
<1>2. /\ Sorting(Objects) /\ Sorted(heap) /\ HeapTypeOK /\ jobs \in Seq(MaybeObjects) /\ Rooted(G)
      /\ heap.tmp = <<>> /\ heap.zero = <<>>
  BY <1>0, <1>1 DEF Freeing, Sorting, HeapTypeOK, SortPhase
<1>3. Range(heap.tmp) = {} /\ Range(heap.zero) = {}
  BY <1>2 DEF Range
<1>4. Living(heap) = G /\ G \subseteq Objects
  BY <1>1, <1>2, <1>3 DEF Sorted, Living
<1>5. \A x \in G : heap.rc[x] > 0
  <2> SUFFICES ASSUME NEW x \in G PROVE heap.rc[x] > 0
    OBVIOUS
  <2>1. x \in Objects /\ Objects \in SUBSET Objects /\ G \in SUBSET Objects
    BY <1>4
  <2>2. RefCount(roots, jobs, field, entry, G, x) <= RefCount(roots, jobs, field, entry, Objects, x)
    BY <2>1, <1>2, RefCountLess
  <2>3. RefCount(roots, jobs, field, entry, G, x) > 0
    BY <1>2 DEF Rooted
  <2>4. RefCount(roots, jobs, field, entry, G, x) \in Nat /\ RefCount(roots, jobs, field, entry, Objects, x) \in Nat
    BY <2>1, <1>2, RefCountType
  <2>5. heap.rc[x] = RefCount(roots, jobs, field, entry, Objects, x)
    BY <2>1, <1>2 DEF Sorting, Exact
  <2> QED BY <2>2, <2>3, <2>4, <2>5
<1>6. Sound(heap)
  <2>1. \A x \in G : heap.rc[x] # 0 /\ heap.rc[x] >= 0
    <3>1. \A x \in G : heap.rc[x] \in Int
      BY <1>2, <1>4 DEF Sorted, HeapRecord
    <3> QED BY <3>1, <1>5
  <2>2. Lists(heap)
    BY <2>1, <1>1, <1>2, <1>3, <1>4, <1>5 DEF Sorted, Lists
  <2>3. Marks(heap) /\ Husks(heap)
    BY <1>2, <1>3 DEF Sorted, Marks, Husks
  <2> QED BY <2>1, <2>2, <2>3, <1>2, <1>4 DEF Sound, Sorted
<1>7. Intact(Living(heap), roots, jobs, field, entry)
  <2>1. \A o \in Objects : {field[o], entry[o].val} \ {None} \subseteq Living(heap)
    BY <1>2, <1>3 DEF Sorting, Refers
  <2> QED BY <2>1, <1>2, <1>4 DEF Rooted, Closed, Intact
<1>8. HeapTypeOK'
  BY <1>0, <1>2 DEF HeapTypeOK, PCs
<1>9. Steady'
  BY <1>0, <1>2, <1>6, <1>7, <1>8 DEF Steady, Sorting
<1> QED BY <1>0, <1>9 DEF KeepsEntries
-----------------------------------------------------------------------------
(* The theorems. *)

\* A step that JavaScript takes.
LEMMA RunningStep ==
  ASSUME Steady, Running, Next
  PROVE  Steady'
<1>1. CASE \E o \in Objects, k \in Kinds, x \in Objects \cup {None} : New(o, k, x)
  BY <1>1, NewOK DEF MaybeObjects
<1>2. CASE \E o \in Objects : Hold(o) \/ Forget(o) \/ Deref(o) \/ MapDelete(o) \/ Unregister(o)
  BY <1>2, HoldOK, ForgetOK, DerefOK, DeleteEntryOK DEF MapDelete, Unregister
<1>3. CASE \E o \in Objects, x \in Objects \cup {None} : SetField(o, x) \/ MapReplace(o, x)
  BY <1>3, SetFieldOK, MapReplaceOK DEF MaybeObjects
<1>4. CASE \E o, x \in Objects, y \in Objects \cup {None} : MapSet(o, x, y) \/ Register(o, x, y)
  BY <1>4, MapSetOK, RegisterOK DEF MaybeObjects
<1>5. CASE RunJob \/ RunGC
  BY <1>5, RunJobOK, RunGCOK
<1>6. ~ (Drain \/ RemoveWeak \/ WeakRemoved \/ Decref \/ Scan \/ Restore \/ FreeCycles \/ Sweep \/ Resume)
  BY DEF Running, Drain, RemoveWeak, WeakRemoved, Decref, Scan, Restore, FreeCycles, Sweep, Resume
<1> QED BY <1>1, <1>2, <1>3, <1>4, <1>5, <1>6 DEF Next

\* The phases of the engine.
Phase == Steady \/ Decreasing \/ Scanning \/ Restoring \/ Freeing

LEMMA PhaseIs == HeapInv <=> Phase
<1>1. ASSUME HeapInv PROVE Phase
  <2>1. pc \in PCs
    BY <1>1 DEF HeapInv, HeapTypeOK
  <2> QED BY <1>1, <2>1, SteadyFrom, DecreasingFrom, ScanningFrom, RestoringFrom, FreeingFrom DEF Phase, PCs
<1>2. ASSUME Phase PROVE HeapInv
  BY <1>2, SteadyGives, DecreasingGives, ScanningGives, SortingDone DEF Phase
<1> QED BY <1>1, <1>2

\* No step of free_zero_refcount or of the collector breaks the invariant or an entry.
LEMMA PhaseStep ==
  ASSUME Phase, Next
  PROVE  Phase' /\ KeepsEntries
<1>p. pc \in PCs
  BY PhaseIs DEF HeapInv, HeapTypeOK
<1>1. CASE Steady
  <2>1. CASE Running
    BY <1>1, <2>1, RunningStep DEF Phase, KeepsEntries, Running
  <2>2. CASE pc = "drain"
    <3>1. Drain
      BY <2>2 DEF Next, New, Hold, Forget, Deref, MapDelete, Unregister, DeleteEntry, SetField, MapReplace,
         MapSet, Register, AddEntry, RunJob, RunGC, RemoveWeak, WeakRemoved, Decref, Scan, Restore, FreeCycles,
         Sweep, Resume, Running
    <3>2. CASE heap.zero # <<>>
      BY <1>1, <2>2, <3>1, <3>2, DrainOneOK DEF Drain, Phase
    <3>3. CASE heap.zero = <<>>
      BY <1>1, <2>2, <3>1, <3>3, DrainedOK DEF Drain, Phase
    <3> QED BY <3>2, <3>3
  <2>3. CASE pc = "weak"
    <3>1. RemoveWeak \/ WeakRemoved
      BY <2>3 DEF Next, New, Hold, Forget, Deref, MapDelete, Unregister, DeleteEntry, SetField, MapReplace,
         MapSet, Register, AddEntry, RunJob, RunGC, Drain, Decref, Scan, Restore, FreeCycles,
         Sweep, Resume, Running
    <3> QED BY <1>1, <3>1, RemoveWeakOK, WeakRemovedOK DEF Phase
  <2> QED BY <1>1, <2>1, <2>2, <2>3 DEF Steady, Running
<1>2. CASE Decreasing
  <2>0. pc = "decref"
    BY <1>2 DEF Decreasing
  <2>1. Decref
    BY <2>0 DEF Next, New, Hold, Forget, Deref, MapDelete, Unregister, DeleteEntry, SetField, MapReplace,
       MapSet, Register, AddEntry, RunJob, RunGC, Drain, RemoveWeak, WeakRemoved, Scan, Restore, FreeCycles,
       Sweep, Resume, Running
  <2>2. CASE \E i \in DOMAIN heap.gc :
               /\ heap.mark[heap.gc[i]] = 0 /\ heap' = Visited(heap.gc[i]) /\ UNCHANGED <<pc, cursor, refVars, after>>
    <3>1. PICK i \in DOMAIN heap.gc :
               /\ heap.mark[heap.gc[i]] = 0 /\ heap' = Visited(heap.gc[i]) /\ UNCHANGED <<pc, cursor, refVars, after>>
      BY <2>2
    <3>2. PICK p : p = heap.gc[i]
      OBVIOUS
    <3>3. p \in Range(heap.gc) /\ heap.mark[p] = 0 /\ heap' = Visited(p)
      BY <3>1, <3>2 DEF Range
    <3> QED BY <1>2, <3>1, <3>3, DecrefOneOK DEF Phase
  <2>3. CASE /\ \A i \in DOMAIN heap.gc : heap.mark[heap.gc[i]] = 1
             /\ pc' = "scan" /\ cursor' = 1 /\ UNCHANGED <<heap, refVars, after>>
    BY <1>2, <2>3, DecrefDoneOK DEF Phase
  <2> QED BY <2>1, <2>2, <2>3 DEF Decref
<1>3. CASE Scanning
  <2>0. pc = "scan"
    BY <1>3 DEF Scanning
  <2>1. Scan
    BY <2>0 DEF Next, New, Hold, Forget, Deref, MapDelete, Unregister, DeleteEntry, SetField, MapReplace,
       MapSet, Register, AddEntry, RunJob, RunGC, Drain, RemoveWeak, WeakRemoved, Decref, Restore, FreeCycles,
       Sweep, Resume, Running
  <2>2. CASE cursor <= Len(heap.gc) /\ ~ (cursor > Len(heap.gc) /\ pc' = "restore" /\ cursor' = 1 /\ UNCHANGED heap)
    BY <1>3, <2>1, <2>2, ScanOneOK DEF Scan, Phase
  <2>3. CASE cursor > Len(heap.gc) /\ pc' = "restore" /\ cursor' = 1 /\ UNCHANGED heap
    BY <1>3, <2>1, <2>3, ScanDoneOK DEF Scan, Phase
  <2> QED BY <2>1, <2>2, <2>3 DEF Scan
<1>4. CASE Restoring
  <2>0. pc = "restore"
    BY <1>4 DEF Restoring
  <2>1. Restore
    BY <2>0 DEF Next, New, Hold, Forget, Deref, MapDelete, Unregister, DeleteEntry, SetField, MapReplace,
       MapSet, Register, AddEntry, RunJob, RunGC, Drain, RemoveWeak, WeakRemoved, Decref, Scan, FreeCycles,
       Sweep, Resume, Running
  <2>2. CASE cursor <= Len(heap.tmp) /\ heap' = Restored(heap.tmp[cursor]) /\ cursor' = cursor + 1 /\ UNCHANGED pc
    BY <1>4, <2>1, <2>2, RestoreOneOK DEF Restore, Phase
  <2>3. CASE cursor > Len(heap.tmp) /\ pc' = "cycles" /\ cursor' = 0 /\ UNCHANGED heap
    BY <1>4, <2>1, <2>3, RestoreDoneOK DEF Restore, Phase
  <2> QED BY <2>1, <2>2, <2>3 DEF Restore
<1>5. CASE Freeing
  <2>0. pc \in {"cycles", "sweep", "collected"}
    BY <1>5 DEF Freeing, SortPhase, SortPCs
  <2>1. FreeCycles \/ Sweep \/ Resume
    BY <2>0 DEF Next, New, Hold, Forget, Deref, MapDelete, Unregister, DeleteEntry, SetField, MapReplace,
       MapSet, Register, AddEntry, RunJob, RunGC, Drain, RemoveWeak, WeakRemoved, Decref, Scan, Restore, Running
  <2>2. CASE FreeCycles
    BY <1>5, <2>2, CycleOneOK, CyclesDoneOK DEF FreeCycles, Phase
  <2>3. CASE Sweep
    BY <1>5, <2>3, SweepOneOK, SweepDoneOK DEF Sweep, Phase
  <2>4. CASE Resume
    BY <1>5, <2>4, ResumeOK DEF Phase
  <2> QED BY <2>1, <2>2, <2>3, <2>4
<1> QED BY <1>1, <1>2, <1>3, <1>4, <1>5 DEF Phase

\* The invariant is kept when nothing happens.
LEMMA PhaseStutter ==
  ASSUME Phase, UNCHANGED vars
  PROVE  Phase'
<1>1. UNCHANGED <<heap, kind, field, entry, roots, jobs, weakList, pc, after, cursor>>
  BY DEF vars, refVars
<1>2. HeapInv
  BY PhaseIs
<1>3. HeapInv'
  <2>1. Alive' = Alive /\ Counted' = Counted /\ Kept' = Kept
    BY <1>1 DEF Alive, Counted, Kept
  <2>2. Reachable' = Reachable
    BY <1>1, ReachableSame
  <2>3. HeapTypeOK' /\ DeadInv'
    BY <1>1, <1>2, <2>1 DEF HeapInv, HeapTypeOK, DeadInv
  <2>4. CountInv'
    BY <1>1, <1>2, <2>1 DEF HeapInv, CountInv, BaseRefs, RefsFrom, WeakRefs
  <2>5. RefInv'
    BY <1>1, <1>2, <2>1 DEF HeapInv, RefInv, Closed, Refers
  <2>6. ListInv'
    BY <1>1, <1>2, <2>1, <2>2 DEF HeapInv, ListInv, BaseRefs, RefsFrom
  <2> QED BY <2>3, <2>4, <2>5, <2>6 DEF HeapInv
<1> QED BY <1>3, PhaseIs, PTL

\* Reference counting and the collector keep the inductive invariant.
THEOREM HeapInvariant == Spec => []HeapInv
<1>1. Init => Phase
  BY InitOK, PhaseIs
<1>2. Phase /\ [Next]_vars => Phase'
  BY PhaseStep, PhaseStutter
<1>3. Phase => HeapInv
  BY PhaseIs
<1> QED BY <1>1, <1>2, <1>3, PTL DEF Spec

\* An entry whose holder and key can be reached goes only by the program's own hand.
THEOREM EntriesAreKept == Spec => EntriesOutliveKeys
<1>1. HeapInv /\ [Next]_vars => [KeepsEntries]_vars
  BY PhaseIs, PhaseStep
<1> QED BY <1>1, HeapInvariant, PTL DEF Spec, EntriesOutliveKeys

LEMMA UseAfterFree == HeapInv => NoUseAfterFree
<1> SUFFICES ASSUME HeapInv PROVE NoUseAfterFree
  OBVIOUS
<1>1. pc \in PCs /\ HeapTypeOK /\ heap.faults = {}
  BY DEF HeapInv, HeapTypeOK, DeadInv
<1>2. \A o \in Range(heap.gc) \cup Range(heap.zero) \cup Range(heap.tmp) : heap.mem[o] # "free"
  <2>1. CASE pc \in {"idle", "drain", "weak"}
    BY <2>1 DEF HeapInv, ListInv, Alive
  <2>2. CASE pc = "decref"
    BY <2>2 DEF HeapInv, ListInv, Alive
  <2>3. CASE pc = "scan"
    BY <2>3 DEF HeapInv, ListInv, Alive
  <2>4. CASE pc \in {"restore", "cycles", "sweep", "collected"}
    <3>1. /\ Range(heap.gc) \cup Range(heap.tmp) = Alive
          /\ \A o \in Range(heap.zero) : heap.mem[o] = "husk"
      BY <2>4 DEF HeapInv, ListInv
    <3> QED BY <3>1 DEF Alive
  <2> QED BY <1>1, <2>1, <2>2, <2>3, <2>4 DEF PCs
<1>3. ASSUME NEW o \in Alive, NEW x \in Refers(o) PROVE heap.mem[x] # "free"
  <2>1. o \in Objects
    BY DEF Alive
  <2>2. x \in Alive \cup Range(heap.zero)
    BY <2>1 DEF HeapInv, RefInv
  <2> QED BY <2>2, <1>2 DEF Alive
<1>4. ASSUME NEW o \in Alive, entry[o].key # None PROVE heap.mem[entry[o].key] # "free"
  <2> DEFINE x == entry[o].key
  <2>1. o \in Objects /\ x \in Objects
    BY <1>1, <1>4 DEF Alive, HeapTypeOK, MaybeObjects
  <2>2. /\ WeakCount(entry, kind, x) \in Nat
        /\ WeakCount(entry, kind, x) >= Is(entry[o].key, x) + Is(Tokens(entry, kind)[o], x)
    BY <2>1, WeakCountType
  <2>3. Is(entry[o].key, x) = 1 /\ Is(Tokens(entry, kind)[o], x) \in Nat
    BY DEF Is
  <2>4. heap.weak[x] = WeakCount(entry, kind, x)
    BY <2>1, ExactFrom DEF Exact
  <2>5. heap.weak[x] # 0
    BY <2>2, <2>3, <2>4
  <2> QED BY <2>1, <2>5 DEF HeapInv, DeadInv
<1> QED BY <1>1, <1>2, <1>3, <1>4 DEF NoUseAfterFree

LEMMA CountsHold == HeapInv => CountsExact
<1> SUFFICES ASSUME HeapInv PROVE CountsExact
  OBVIOUS
<1>1. /\ HeapTypeOK /\ jobs \in Seq(MaybeObjects) /\ Counted \in SUBSET Objects /\ Alive = Living(heap)
      /\ Exact(heap, roots, jobs, field, entry, kind, Counted) /\ Bare(Living(heap), field, entry)
  BY ExactFrom DEF HeapInv, HeapTypeOK, Alive, Living
<1>2. ASSUME NEW o \in Objects PROVE heap.rc[o] \in Nat /\ heap.weak[o] \in Nat
  <2>1. RefCount(roots, jobs, field, entry, Counted, o) \in Nat
    BY <1>1, RefCountType
  <2>2. WeakCount(entry, kind, o) \in Nat
    BY WeakCountType
  <2> QED BY <2>1, <2>2, <1>1 DEF Exact
<1>3. List(heap.gc) /\ List(heap.zero) /\ List(heap.tmp)
  BY <1>1 DEF HeapInv, HeapTypeOK, HeapRecord, ListInv, List
<1>4. pc = "drain" /\ heap.zero # <<>> => heap.rc[Head(heap.zero)] = 0
  <2> SUFFICES ASSUME pc = "drain", heap.zero # <<>> PROVE heap.rc[Head(heap.zero)] = 0
    OBVIOUS
  <2>1. Head(heap.zero) \in Range(heap.zero)
    BY <1>3, HeadIs
  <2> QED BY <2>1 DEF HeapInv, ListInv
<1>5. pc = "weak" => \A o \in Range(heap.gc) : heap.mark[o] = 0
  BY DEF HeapInv, ListInv
<1>6. pc = "scan" => \A o \in Range(heap.gc) : heap.rc[o] > 0
  BY DEF HeapInv, ListInv
<1>7. ASSUME pc = "idle"
      PROVE  /\ Range(heap.gc) = Alive /\ heap.zero = <<>> /\ heap.tmp = <<>>
             /\ \A o \in Alive : heap.rc[o] = BaseRefs(o) + RefsFrom(Alive, o) /\ heap.mark[o] = 0
             /\ \A o \in Objects : heap.mem[o] # "free" => heap.weak[o] = WeakRefs(o)
             /\ \A o \in Objects : heap.mem[o] = "husk" => WeakRefs(o) > 0
  <2>1. /\ Range(heap.gc) = {o \in Alive : heap.rc[o] > 0} /\ Range(heap.zero) = {o \in Alive : heap.rc[o] = 0}
        /\ Range(heap.zero) = {} /\ Range(heap.tmp) = {} /\ \A o \in Range(heap.gc) : heap.mark[o] = 0
    BY <1>7 DEF HeapInv, ListInv
  <2>2. \A o \in Alive : o \in Objects /\ heap.rc[o] \in Nat
    BY <1>2 DEF Alive
  <2>3. Range(heap.gc) = Alive /\ heap.zero = <<>> /\ heap.tmp = <<>>
    BY <2>1, <2>2, <1>3, ListEmpty
  <2>4. ASSUME NEW o \in Alive PROVE heap.rc[o] = BaseRefs(o) + RefsFrom(Alive, o)
    <3>0. Alive \in SUBSET Objects /\ o \in Objects /\ Counted = Objects /\ Objects \in SUBSET Objects
      BY <1>7, <2>2 DEF Counted
    <3>1. heap.rc[o] = RefCount(roots, jobs, field, entry, Objects, o)
      BY <3>0, <1>1 DEF Exact
    <3>2. Objects \cap Living(heap) = Alive \cap Living(heap)
      BY <1>1, <3>0
    <3>3. RefCount(roots, jobs, field, entry, Objects, o) = RefCount(roots, jobs, field, entry, Alive, o)
      BY <3>0, <3>2, <1>1, LivingCount
    <3>4. BaseRefs(o) + RefsFrom(Alive, o) = RefCount(roots, jobs, field, entry, Alive, o)
      BY <3>0, <1>1, CountsAre
    <3> QED BY <3>1, <3>3, <3>4
  <2>5. \A o \in Objects : heap.weak[o] = WeakRefs(o)
    BY DEF HeapInv, CountInv
  <2>6. \A o \in Objects : heap.mem[o] = "husk" => heap.weak[o] > 0
    BY <2>1 DEF HeapInv, DeadInv
  <2> QED BY <2>1, <2>3, <2>4, <2>5, <2>6
<1>8. \A o \in Objects : heap.rc[o] >= 0 /\ heap.weak[o] >= 0
  BY <1>2
<1> QED BY <1>4, <1>5, <1>6, <1>7, <1>8 DEF CountsExact

LEMMA GarbageIs == HeapInv => CollectsExactlyGarbage
<1> SUFFICES ASSUME HeapInv PROVE CollectsExactlyGarbage
  OBVIOUS
<1>1. Kept \subseteq Alive
  <2>1. CASE pc \in {"restore", "cycles", "sweep", "collected"}
    BY <2>1 DEF HeapInv, ListInv, Kept
  <2>2. CASE pc \notin {"restore", "cycles", "sweep", "collected"}
    BY <2>2 DEF Kept
  <2> QED BY <2>1, <2>2
<1>2. Kept \in SUBSET Objects /\ Closed(Kept)
  BY <1>1 DEF Alive, HeapInv, RefInv
<1>3. Reachable \subseteq Alive
  BY <1>1, <1>2, ReachableLeast
<1>4. ASSUME pc = "collected" PROVE Alive \subseteq Reachable
  BY <1>4 DEF HeapInv, ListInv
<1> QED BY <1>3, <1>4 DEF CollectsExactlyGarbage

\* No structure is used or freed after it was freed.
THEOREM NothingFreedIsUsed == Spec => []NoUseAfterFree
BY HeapInvariant, UseAfterFree, PTL

\* The assertions of the collector hold, and between collections every count is the
\* number of references.
THEOREM CountsAreExact == Spec => []CountsExact
BY HeapInvariant, CountsHold, PTL

\* The collector never frees what the program can reach, and leaves nothing else.
THEOREM GarbageIsCollected == Spec => []CollectsExactlyGarbage
BY HeapInvariant, GarbageIs, PTL
-----------------------------------------------------------------------------
(* Buffers. *)

Byte == 0..255

\* Induction up to n, with a set in place of a predicate.
LEMMA UpTo ==
  ASSUME NEW n \in Nat, NEW S, 1 \in S,
         \A i \in 1..n : i \in S /\ i < n => i + 1 \in S
  PROVE  1..n \subseteq S
<1> SUFFICES ASSUME NEW j \in 1..n, j \notin S PROVE FALSE
  OBVIOUS
<1> DEFINE Bad == {i \in 1..n : i \notin S}
<1>1. PICK m \in Bad : \A i \in Bad : m <= i
  <2>1. Bad \in SUBSET Nat /\ Bad # {}
    OBVIOUS
  <2> HIDE DEF Bad
  <2> QED BY <2>1, LeastIs
<1>2. m \in 1..n /\ m \notin S /\ m # 1
  OBVIOUS
<1>3. m - 1 \in 1..n /\ m - 1 \in S /\ m - 1 < n
  BY <1>1, <1>2
<1>4. (m - 1) + 1 \in S
  BY <1>3
<1> QED BY <1>2, <1>4

\* FlattenSeq is what its recursion says, if anything is.
LEMMA FlattenIs ==
  ASSUME NEW seqs, Len(seqs) \in Nat, Len(seqs) # 0,
         NEW W, W = [i \in 1..Len(seqs) |-> IF i = 1 THEN seqs[i] ELSE W[i - 1] \o seqs[i]]
  PROVE  FlattenSeq(seqs) = W[Len(seqs)]
<1> DEFINE F == CHOOSE g : g = [i \in 1..Len(seqs) |-> IF i = 1 THEN seqs[i] ELSE g[i - 1] \o seqs[i]]
<1>1. F = [i \in 1..Len(seqs) |-> IF i = 1 THEN seqs[i] ELSE F[i - 1] \o seqs[i]]
  <2>1. \E g : g = [i \in 1..Len(seqs) |-> IF i = 1 THEN seqs[i] ELSE g[i - 1] \o seqs[i]]
    BY Zenon
  <2> QED BY <2>1, Zenon
<1>2. FlattenSeq(seqs) = F[Len(seqs)]
  BY DEF FlattenSeq
<1> HIDE DEF F
<1> DEFINE S == {i \in 1..Len(seqs) : F[i] = W[i]}
<1>3. 1 \in S
  <2>1. F[1] = seqs[1] /\ W[1] = seqs[1]
    BY <1>1
  <2> QED BY <2>1
<1>4. ASSUME NEW i \in 1..Len(seqs), i \in S, i < Len(seqs) PROVE i + 1 \in S
  <2>1. i + 1 \in 1..Len(seqs) /\ i + 1 # 1 /\ (i + 1) - 1 = i
    BY <1>4
  <2>2. F[i + 1] = F[i] \o seqs[i + 1]
    BY <2>1, <1>1
  <2>3. W[i + 1] = W[i] \o seqs[i + 1]
    BY <2>1
  <2> QED BY <2>1, <2>2, <2>3, <1>4
<1>5. 1..Len(seqs) \subseteq S
  <2> HIDE DEF S
  <2> QED BY <1>3, <1>4, UpTo
<1>6. Len(seqs) \in S
  <2> HIDE DEF S
  <2> QED BY <1>5
<1> QED BY <1>2, <1>6

\* A part of a sequence.
LEMMA PartIs ==
  ASSUME NEW S, NEW s \in Seq(S), NEW m \in Int, NEW n \in Int, m >= 1, n <= Len(s)
  PROVE  /\ SubSeq(s, m, n) \in Seq(S)
         /\ Len(SubSeq(s, m, n)) = IF m <= n THEN n - m + 1 ELSE 0
         /\ \A i \in 1..Len(SubSeq(s, m, n)) : SubSeq(s, m, n)[i] = s[m + i - 1]
<1>1. \A i \in m..n : s[i] \in S
  BY ElementOfSeq, LenProperties
<1> QED BY <1>1, SubSeqProperties

\* One sequence after another.
LEMMA JoinIs ==
  ASSUME NEW S, NEW a \in Seq(S), NEW b \in Seq(S), NEW c \in Seq(S),
         Len(a) = Len(b) + Len(c),
         \A k \in 1..Len(b) : a[k] = b[k],
         \A k \in 1..Len(c) : a[Len(b) + k] = c[k]
  PROVE  a = b \o c
<1>1. /\ b \o c \in Seq(S) /\ Len(b \o c) = Len(a)
      /\ \A i \in 1..Len(a) : (b \o c)[i] = IF i <= Len(b) THEN b[i] ELSE c[i - Len(b)]
  BY ConcatProperties
<1>2. ASSUME NEW k \in 1..Len(a) PROVE a[k] = (b \o c)[k]
  <2>0. Len(a) \in Nat /\ Len(b) \in Nat /\ Len(c) \in Nat
    BY LenProperties
  <2>1. CASE k <= Len(b)
    <3>1. k \in 1..Len(b)
      BY <2>0, <2>1
    <3> QED BY <3>1, <2>1, <1>1
  <2>2. CASE ~ (k <= Len(b))
    <3>1. k - Len(b) \in 1..Len(c) /\ Len(b) + (k - Len(b)) = k
      BY <2>0, <2>2
    <3>2. a[Len(b) + (k - Len(b))] = c[k - Len(b)]
      BY <3>1
    <3> QED BY <3>1, <3>2, <2>2, <1>1
  <2> QED BY <2>1, <2>2
<1> QED BY <1>1, <1>2, SeqEqual

\* The first m elements.
LEMMA PrefixIs ==
  ASSUME NEW S, NEW s \in Seq(S), NEW m \in Nat, m <= Len(s)
  PROVE  /\ SubSeq(s, 1, m) \in Seq(S) /\ Len(SubSeq(s, 1, m)) = m
         /\ \A k \in 1..m : SubSeq(s, 1, m)[k] = s[k]
<1>1. /\ SubSeq(s, 1, m) \in Seq(S)
      /\ Len(SubSeq(s, 1, m)) = IF 1 <= m THEN m - 1 + 1 ELSE 0
      /\ \A k \in 1..Len(SubSeq(s, 1, m)) : SubSeq(s, 1, m)[k] = s[1 + k - 1]
  BY PartIs
<1>2. Len(SubSeq(s, 1, m)) = m
  BY <1>1
<1>3. \A k \in 1..m : 1 + k - 1 = k
  OBVIOUS
<1> QED BY <1>1, <1>2, <1>3

\* s is seqs one after the other: groups of three, the last one of at most three.
Grouped(S, s, seqs, n) ==
  /\ Len(seqs) = n
  /\ \A i \in 1..n : seqs[i] \in Seq(S)
  /\ \A i \in 1..n : i < n => Len(seqs[i]) = 3
  /\ Len(seqs[n]) <= 3 /\ Len(s) = 3 * (n - 1) + Len(seqs[n])
  /\ \A i \in 1..n : \A j \in 1..Len(seqs[i]) : seqs[i][j] = s[3 * (i - 1) + j]

LEMMA InLonger ==
  ASSUME NEW a \in Nat, NEW b \in Nat, NEW k \in 1..a
  PROVE  k \in 1..(a + b)
  OBVIOUS

\* Where group i ends.
LEMMA GroupEnd ==
  ASSUME NEW n \in Nat, NEW i \in 1..n, NEW l \in Nat, NEW d \in Nat, d <= 3,
         i < n => l = 3, i = n => l = d
  PROVE  l \in 0..3 /\ 3 * (i - 1) + l \in Nat /\ 3 * (i - 1) + l <= 3 * (n - 1) + d
  OBVIOUS

\* A sequence cut into groups of three, the last one of at most three.
LEMMA FlattenTriples ==
  ASSUME NEW S, NEW s \in Seq(S), NEW n \in Nat, n > 0, NEW seqs, Grouped(S, s, seqs, n)
  PROVE  FlattenSeq(seqs) = s
<1> DEFINE W == [i \in 1..n |-> SubSeq(s, 1, 3 * (i - 1) + Len(seqs[i]))]
<1>1. ASSUME NEW i \in 1..n
      PROVE  /\ Len(seqs[i]) \in 0..3 /\ seqs[i] \in Seq(S)
             /\ W[i] \in Seq(S) /\ Len(W[i]) = 3 * (i - 1) + Len(seqs[i])
             /\ \A k \in 1..Len(W[i]) : W[i][k] = s[k]
  <2>1. seqs[i] \in Seq(S) /\ seqs[n] \in Seq(S)
    BY DEF Grouped
  <2>2. Len(seqs[i]) \in Nat /\ Len(seqs[n]) \in Nat /\ Len(s) \in Nat
    BY <2>1, LenProperties
  <2>3. Len(seqs[n]) <= 3 /\ (i < n => Len(seqs[i]) = 3) /\ Len(s) = 3 * (n - 1) + Len(seqs[n])
    BY DEF Grouped
  <2> DEFINE m == 3 * (i - 1) + Len(seqs[i])
  <2>4. Len(seqs[i]) \in 0..3 /\ m \in Nat /\ m <= Len(s)
    <3>1. /\ Len(seqs[i]) \in 0..3 /\ 3 * (i - 1) + Len(seqs[i]) \in Nat
          /\ 3 * (i - 1) + Len(seqs[i]) <= 3 * (n - 1) + Len(seqs[n])
      BY <2>2, <2>3, GroupEnd, Zenon
    <3> QED BY <3>1, <2>3, Zenon
  <2>5. W[i] = SubSeq(s, 1, m)
    OBVIOUS
  <2> HIDE DEF W, m
  <2>6. W[i] \in Seq(S) /\ Len(W[i]) = m /\ \A k \in 1..m : W[i][k] = s[k]
    BY <2>4, <2>5, PrefixIs
  <2> QED BY <2>1, <2>4, <2>6 DEF m
<1>d. DOMAIN W = 1..n
  OBVIOUS
<1> HIDE DEF W
<1>2. W[1] = seqs[1]
  <2>1. 1 \in 1..n
    OBVIOUS
  <2>2. W[1] \in Seq(S) /\ Len(W[1]) = Len(seqs[1]) /\ seqs[1] \in Seq(S) /\ Len(seqs[1]) \in 0..3
    <3>1. /\ W[1] \in Seq(S) /\ Len(W[1]) = 3 * (1 - 1) + Len(seqs[1]) /\ seqs[1] \in Seq(S)
          /\ Len(seqs[1]) \in 0..3
      BY <1>1, <2>1, Zenon
    <3> QED BY <3>1
  <2>3. ASSUME NEW k \in 1..Len(W[1]) PROVE W[1][k] = seqs[1][k]
    <3>1. W[1][k] = s[k]
      BY <1>1, <2>1
    <3>2. seqs[1][k] = s[3 * (1 - 1) + k]
      BY <2>1, <2>2 DEF Grouped
    <3>3. 3 * (1 - 1) + k = k
      BY <2>2
    <3> QED BY <3>1, <3>2, <3>3
  <2> QED BY <2>2, <2>3, SeqEqual
<1>3. ASSUME NEW i \in 1..n, i # 1 PROVE W[i] = W[i - 1] \o seqs[i]
  <2>1. i - 1 \in 1..n /\ i - 1 < n
    BY <1>3
  <2>2. /\ W[i] \in Seq(S) /\ Len(W[i]) = 3 * (i - 1) + Len(seqs[i])
        /\ \A k \in 1..Len(W[i]) : W[i][k] = s[k]
        /\ Len(seqs[i]) \in 0..3 /\ seqs[i] \in Seq(S)
    BY <1>1
  <2>3. /\ W[i - 1] \in Seq(S) /\ Len(W[i - 1]) = 3 * (i - 1)
        /\ \A k \in 1..Len(W[i - 1]) : W[i - 1][k] = s[k]
    <3>1. /\ W[i - 1] \in Seq(S) /\ Len(W[i - 1]) = 3 * ((i - 1) - 1) + Len(seqs[i - 1])
          /\ \A k \in 1..Len(W[i - 1]) : W[i - 1][k] = s[k]
      BY <1>1, <2>1
    <3>2. Len(seqs[i - 1]) = 3
      BY <2>1 DEF Grouped
    <3>3. 3 * ((i - 1) - 1) + 3 = 3 * (i - 1)
      OBVIOUS
    <3> QED BY <3>1, <3>2, <3>3
  <2>4. \A j \in 1..Len(seqs[i]) : seqs[i][j] = s[3 * (i - 1) + j]
    BY DEF Grouped
  <2>5. ASSUME NEW k \in 1..Len(W[i - 1]) PROVE W[i][k] = W[i - 1][k]
    <3>1. k \in 1..Len(W[i])
      <4>1. Len(W[i - 1]) \in Nat /\ Len(W[i]) = Len(W[i - 1]) + Len(seqs[i]) /\ Len(seqs[i]) \in Nat
        BY <2>2, <2>3
      <4> QED BY <4>1, InLonger, Zenon
    <3> QED BY <3>1, <2>2, <2>3
  <2>6. ASSUME NEW k \in 1..Len(seqs[i]) PROVE W[i][Len(W[i - 1]) + k] = seqs[i][k]
    <3>1. 3 * (i - 1) + k \in 1..Len(W[i])
      BY <2>2
    <3> QED BY <3>1, <2>2, <2>3, <2>4
  <2>7. Len(W[i]) = Len(W[i - 1]) + Len(seqs[i])
    BY <2>2, <2>3
  <2> QED BY <2>2, <2>3, <2>5, <2>6, <2>7, JoinIs
<1>4. W = [i \in 1..Len(seqs) |-> IF i = 1 THEN seqs[i] ELSE W[i - 1] \o seqs[i]]
  <2>1. W = [i \in 1..n |-> W[i]]
    BY <1>d DEF W
  <2>2. \A i \in 1..n : W[i] = IF i = 1 THEN seqs[i] ELSE W[i - 1] \o seqs[i]
    BY <1>2, <1>3
  <2> QED BY <2>1, <2>2 DEF Grouped
<1>5. FlattenSeq(seqs) = W[n]
  <2>1. Len(seqs) = n
    BY DEF Grouped
  <2>2. FlattenSeq(seqs) = W[Len(seqs)]
    <3>1. Len(seqs) \in Nat /\ Len(seqs) # 0
      BY <2>1
    <3> QED BY <3>1, <1>4, FlattenIs, Zenon
  <2> QED BY <2>1, <2>2
<1>6. W[n] = s
  <2>1. n \in 1..n
    OBVIOUS
  <2>2. W[n] \in Seq(S) /\ Len(W[n]) = Len(s) /\ \A k \in 1..Len(W[n]) : W[n][k] = s[k]
    BY <1>1, <2>1 DEF Grouped
  <2> QED BY <2>2, SeqEqual
<1> QED BY <1>5, <1>6
-----------------------------------------------------------------------------
(* Base64 and hexadecimal *)
LEMMA TableInverse ==
  ASSUME NEW n \in 0..63, NEW url \in BOOLEAN
  PROVE  /\ B64DecodeChar(B64Table(n, url)) = n
         /\ B64Table(n, url) # Pad
  BY DEF B64DecodeChar, B64Table, Pad

\* A number of 24 bits, and its bytes.
Is24Bits(t) == t \in Nat /\ t < 16777216
High(t) == t \div 65536
Middle(t) == (t \div 256) % 256
Low(t) == t % 256

Compose(a, b, c, d) == a * 262144 + b * 4096 + c * 64 + d

\* A number of 24 bits as four of six.
LEMMA FourSixes ==
  ASSUME NEW t \in Nat, t < 16777216
  PROVE  LET e1 == (t \div 262144) % 64
             e2 == (t \div 4096) % 64
             e3 == (t \div 64) % 64
             e4 == t % 64
         IN  /\ e1 \in 0..63 /\ e2 \in 0..63 /\ e3 \in 0..63 /\ e4 \in 0..63
             /\ e1 * 262144 + e2 * 4096 + e3 * 64 + e4 = t
<1>1. t \div 64 \in Nat /\ t = 64 * (t \div 64) + (t % 64) /\ t % 64 \in 0..63
  BY SMT
<1>2. t \div 4096 \in Nat /\ t \div 4096 = (t \div 64) \div 64
  BY SMT
<1>3. t \div 262144 \in 0..63 /\ t \div 262144 = (t \div 4096) \div 64
  BY SMT
<1> DEFINE u == t \div 64  v == t \div 4096  w == t \div 262144
<1>4. u \in Nat /\ v \in Nat /\ w \in 0..63 /\ v = u \div 64 /\ w = v \div 64
  BY <1>1, <1>2, <1>3, SMT
<1> HIDE DEF u, v, w
<1>5. u = 64 * v + (u % 64) /\ u % 64 \in 0..63
  BY <1>4, SMT
<1>6. v = 64 * w + (v % 64) /\ v % 64 \in 0..63
  BY <1>4, SMT
<1>7. w % 64 = w
  BY <1>4, SMT
<1>8. t = 64 * u + (t % 64) /\ t % 64 \in 0..63
  BY <1>1, SMT DEF u
<1>9. w * 262144 + (v % 64) * 4096 + (u % 64) * 64 + (t % 64) = t
  BY <1>4, <1>5, <1>6, <1>8, SMT
<1> QED BY <1>4, <1>5, <1>6, <1>7, <1>8, <1>9, SMT DEF u, v, w

\* Three bytes as a number of 24 bits, and back.
LEMMA ThreeBytes ==
  ASSUME NEW a \in Byte, NEW b \in Byte, NEW c \in Byte
  PROVE  LET t == a * 65536 + b * 256 + c IN
         /\ t \in Nat /\ t < 16777216
         /\ t \div 65536 = a /\ (t \div 256) % 256 = b /\ t % 256 = c
         /\ c = 0 => t % 64 = 0
         /\ b = 0 /\ c = 0 => (t \div 64) % 64 = 0
<1> DEFINE t == a * 65536 + b * 256 + c
<1>0. t \in Nat /\ t < 16777216
  BY SMT DEF Byte
<1>1. t \div 65536 = a
  BY SMT DEF Byte
<1>2. t \div 256 = a * 256 + b
  BY SMT DEF Byte
<1>3. (a * 256 + b) % 256 = b
  BY SMT DEF Byte
<1>4. t % 256 = c
  BY SMT DEF Byte
<1>5. c = 0 => t % 64 = 0
  BY SMT DEF Byte
<1>6. b = 0 /\ c = 0 => (t \div 64) % 64 = 0
  <2> SUFFICES ASSUME b = 0, c = 0 PROVE (t \div 64) % 64 = 0
    BY SMT
  <2>1. t \div 64 = a * 1024
    BY SMT DEF Byte
  <2>2. (a * 1024) % 64 = 0
    BY SMT DEF Byte
  <2> QED BY <2>1, <2>2, SMT
<1> QED BY <1>0, <1>1, <1>2, <1>3, <1>4, <1>5, <1>6, SMT

\* The groups of a sequence of length len, and the length of the last one.
Groups(len) == (len + 2) \div 3
Rest(len) == len - 3 * (Groups(len) - 1)

LEMMA GroupsIs ==
  ASSUME NEW len \in Nat
  PROVE  /\ Groups(len) \in Nat
         /\ len > 0 => Groups(len) > 0 /\ Rest(len) \in 1..3 /\ len = 3 * (Groups(len) - 1) + Rest(len)
         /\ len = 0 => Groups(len) = 0
  BY DEF Groups, Rest

\* The positions of the characters of group g.
LEMMA CharPositions ==
  ASSUME NEW n \in Nat, NEW g \in 1..n
  PROVE  /\ 4 * g - 3 \in 1..(4 * n) /\ ((4 * g - 3) - 1) \div 4 = g - 1 /\ ((4 * g - 3) - 1) % 4 = 0
         /\ 4 * g - 2 \in 1..(4 * n) /\ ((4 * g - 2) - 1) \div 4 = g - 1 /\ ((4 * g - 2) - 1) % 4 = 1
         /\ 4 * g - 1 \in 1..(4 * n) /\ ((4 * g - 1) - 1) \div 4 = g - 1 /\ ((4 * g - 1) - 1) % 4 = 2
         /\ 4 * g \in 1..(4 * n) /\ (4 * g - 1) \div 4 = g - 1 /\ (4 * g - 1) % 4 = 3
  OBVIOUS

LEMMA EncodeIs ==
  ASSUME NEW s \in Seq(Byte), NEW url \in BOOLEAN, NEW g \in 1..Groups(Len(s))
  PROVE  LET text == Base64Encode(s, url)  k == 3 * (g - 1) + 1 IN
         /\ text[4 * g - 3] = Base64Char(s, url, k, 0)
         /\ text[4 * g - 2] = Base64Char(s, url, k, 1)
         /\ text[4 * g - 1] = Base64Char(s, url, k, 2)
         /\ text[4 * g] = Base64Char(s, url, k, 3)
<1>1. Len(s) \in Nat
  BY LenProperties
<1>2. Groups(Len(s)) \in Nat
  BY <1>1, GroupsIs
<1> DEFINE n == Groups(Len(s))
           f == [i \in 1..(4 * n) |-> Base64Char(s, url, 3 * ((i - 1) \div 4) + 1, (i - 1) % 4)]
<1>3. Base64Encode(s, url) = f
  BY DEF Base64Encode, Groups
<1>4. \A i \in 1..(4 * n) : f[i] = Base64Char(s, url, 3 * ((i - 1) \div 4) + 1, (i - 1) % 4)
  OBVIOUS
<1>5. n \in Nat /\ g \in 1..n
  BY <1>2
<1> HIDE DEF n, f
<1>6. f[4 * g - 3] = Base64Char(s, url, 3 * (g - 1) + 1, 0)
  BY <1>4, <1>5, CharPositions, Zenon
<1>7. f[4 * g - 2] = Base64Char(s, url, 3 * (g - 1) + 1, 1)
  BY <1>4, <1>5, CharPositions, Zenon
<1>8. f[4 * g - 1] = Base64Char(s, url, 3 * (g - 1) + 1, 2)
  BY <1>4, <1>5, CharPositions, Zenon
<1>9. f[4 * g] = Base64Char(s, url, 3 * (g - 1) + 1, 3)
  BY <1>4, <1>5, CharPositions, Zenon
<1> QED BY <1>3, <1>6, <1>7, <1>8, <1>9

\* The bytes of group g; those beyond the end count as zero.
LEMMA TripleIs ==
  ASSUME NEW s \in Seq(Byte), NEW k \in Nat, k > 0
  PROVE  /\ At(s, k, 0) \in Byte /\ Is24Bits(Triple(s, k))
         /\ k <= Len(s) => High(Triple(s, k)) = s[k]
         /\ k + 1 <= Len(s) => Middle(Triple(s, k)) = s[k + 1]
         /\ k + 2 <= Len(s) => Low(Triple(s, k)) = s[k + 2]
         /\ k + 2 > Len(s) => Triple(s, k) % 64 = 0
         /\ k + 1 > Len(s) => (Triple(s, k) \div 64) % 64 = 0
<1>1. DOMAIN s = 1..Len(s) /\ Len(s) \in Nat
  BY LenProperties
<1>2. \A i \in 1..Len(s) : s[i] \in Byte
  BY ElementOfSeq
<1>3. ASSUME NEW j \in Nat, j > 0
      PROVE  /\ At(s, j, 0) \in Byte
             /\ j <= Len(s) => At(s, j, 0) = s[j]
             /\ j > Len(s) => At(s, j, 0) = 0
  BY <1>1, <1>2, <1>3 DEF At, Byte
<1> DEFINE a == At(s, k, 0)  b == At(s, k + 1, 0)  c == At(s, k + 2, 0)
<1>4. /\ a \in Byte /\ b \in Byte /\ c \in Byte
      /\ k <= Len(s) => a = s[k]
      /\ k + 1 <= Len(s) => b = s[k + 1]
      /\ k + 2 <= Len(s) => c = s[k + 2]
      /\ k + 2 > Len(s) => c = 0
      /\ k + 1 > Len(s) => b = 0
  BY <1>3
<1>5. Triple(s, k) = a * 65536 + b * 256 + c
  BY SMT DEF Triple
<1>6. k + 1 > Len(s) => k + 2 > Len(s)
  BY <1>1
<1> HIDE DEF a, b, c
<1> DEFINE t == a * 65536 + b * 256 + c
<1>7. /\ Is24Bits(t) /\ High(t) = a /\ Middle(t) = b /\ Low(t) = c
      /\ c = 0 => t % 64 = 0
      /\ b = 0 /\ c = 0 => (t \div 64) % 64 = 0
  BY <1>4, ThreeBytes, SMT DEF Is24Bits, High, Middle, Low
<1> HIDE DEF t
<1>8. Triple(s, k) = t
  BY <1>5, SMT DEF t
<1> QED BY <1>4, <1>6, <1>7, <1>8, SMT DEF a

\* The four numbers of six bits.
Six(t, n) == CASE n = 0 -> (t \div 262144) % 64 [] n = 1 -> (t \div 4096) % 64
               [] n = 2 -> (t \div 64) % 64 [] n = 3 -> t % 64

\* What the characters of group g stand for.
LEMMA GroupChars ==
  ASSUME NEW s \in Seq(Byte), NEW url \in BOOLEAN, NEW g \in 1..Groups(Len(s))
  PROVE  LET text == Base64Encode(s, url)
             k == 3 * (g - 1) + 1
             t == Triple(s, k)
         IN  /\ B64DecodeChar(text[4 * g - 3]) = Six(t, 0) /\ text[4 * g - 3] # Pad
             /\ B64DecodeChar(text[4 * g - 2]) = Six(t, 1) /\ text[4 * g - 2] # Pad
             /\ k + 1 <= Len(s) => B64DecodeChar(text[4 * g - 1]) = Six(t, 2) /\ text[4 * g - 1] # Pad
             /\ k + 2 <= Len(s) => B64DecodeChar(text[4 * g]) = Six(t, 3) /\ text[4 * g] # Pad
             /\ ~ (k + 1 <= Len(s)) => text[4 * g - 1] = Pad
             /\ ~ (k + 2 <= Len(s)) => text[4 * g] = Pad
<1> DEFINE text == Base64Encode(s, url)  k == 3 * (g - 1) + 1  t == Triple(s, k)
<1>0. k \in Nat /\ k > 0
  BY GroupsIs, LenProperties
<1>1. Is24Bits(t)
  <2> HIDE DEF k
  <2> QED BY <1>0, TripleIs, SMT
<1>2. /\ text[4 * g - 3] = Base64Char(s, url, k, 0)
      /\ text[4 * g - 2] = Base64Char(s, url, k, 1)
      /\ text[4 * g - 1] = Base64Char(s, url, k, 2)
      /\ text[4 * g] = Base64Char(s, url, k, 3)
  BY EncodeIs, Zenon
<1>3. /\ Base64Char(s, url, k, 0) = B64Table(Six(t, 0), url)
      /\ Base64Char(s, url, k, 1) = B64Table(Six(t, 1), url)
      /\ Base64Char(s, url, k, 2) = IF k + 1 <= Len(s) THEN B64Table(Six(t, 2), url) ELSE Pad
      /\ Base64Char(s, url, k, 3) = IF k + 2 <= Len(s) THEN B64Table(Six(t, 3), url) ELSE Pad
  <2> HIDE DEF k
  <2> QED BY SMT DEF Base64Char, Six
<1> HIDE DEF text, t, k
<1>4. Six(t, 0) \in 0..63 /\ Six(t, 1) \in 0..63 /\ Six(t, 2) \in 0..63 /\ Six(t, 3) \in 0..63
  BY <1>1, FourSixes, SMT DEF Six, Is24Bits
<1>5. \A n \in 0..63 : B64DecodeChar(B64Table(n, url)) = n /\ B64Table(n, url) # Pad
  BY TableInverse
<1>6. /\ B64DecodeChar(text[4 * g - 3]) = Six(t, 0) /\ text[4 * g - 3] # Pad
      /\ B64DecodeChar(text[4 * g - 2]) = Six(t, 1) /\ text[4 * g - 2] # Pad
      /\ k + 1 <= Len(s) => B64DecodeChar(text[4 * g - 1]) = Six(t, 2) /\ text[4 * g - 1] # Pad
      /\ k + 2 <= Len(s) => B64DecodeChar(text[4 * g]) = Six(t, 3) /\ text[4 * g] # Pad
      /\ ~ (k + 1 <= Len(s)) => text[4 * g - 1] = Pad
      /\ ~ (k + 2 <= Len(s)) => text[4 * g] = Pad
  BY <1>2, <1>3, <1>4, <1>5, Zenon
<1> QED BY <1>6, Zenon DEF text, k, t

\* The padding of the last group.
LEMMA UnpaddedIs ==
  ASSUME NEW s \in Seq(Byte), NEW url \in BOOLEAN, Len(s) > 0
  PROVE  /\ Len(Base64Encode(s, url)) = 4 * Groups(Len(s))
         /\ Unpadded(Base64Encode(s, url)) = 4 * (Groups(Len(s)) - 1) + Rest(Len(s)) + 1
<1> DEFINE text == Base64Encode(s, url)  n == Groups(Len(s))  r == Rest(Len(s))
           k == 3 * (n - 1) + 1  u == 4 * (n - 1) + r + 1
<1>1. Len(s) \in Nat
  BY LenProperties
<1>2. n \in Nat /\ n > 0 /\ r \in 1..3 /\ Len(s) = 3 * (n - 1) + r
  BY <1>1, GroupsIs
<1>3. Len(text) = 4 * n
  <2>1. text = [i \in 1..(4 * n) |-> Base64Char(s, url, 3 * ((i - 1) \div 4) + 1, (i - 1) % 4)]
    BY DEF Base64Encode, Groups
  <2>2. 4 * n \in Nat
    BY <1>2
  <2> HIDE DEF text, n
  <2> QED BY <2>1, <2>2
<1>4. n \in 1..n
  BY <1>2
<1>5. /\ text[4 * n - 3] # Pad /\ text[4 * n - 2] # Pad
      /\ k + 1 <= Len(s) => text[4 * n - 1] # Pad
      /\ k + 2 <= Len(s) => text[4 * n] # Pad
      /\ ~ (k + 1 <= Len(s)) => text[4 * n - 1] = Pad
      /\ ~ (k + 2 <= Len(s)) => text[4 * n] = Pad
  BY <1>4, GroupChars, Zenon
<1>6. /\ k + 1 <= Len(s) <=> r >= 2
      /\ k + 2 <= Len(s) <=> r = 3
  BY <1>2
<1> HIDE DEF text, n, r, k
<1>7. u \in 0..(4 * n) /\ text[u] # Pad
  BY <1>2, <1>5, <1>6
<1>8. \A i \in u + 1 .. 4 * n : text[i] = Pad
  BY <1>2, <1>5, <1>6
<1>9. ASSUME NEW m \in 0..(4 * n), \A i \in m + 1 .. 4 * n : text[i] = Pad, m > 0 => text[m] # Pad
      PROVE  m = u
  <2>1. u <= m
    BY <1>7, <1>9
  <2>2. m <= u
    BY <1>7, <1>8, <1>9, <1>2
  <2> QED BY <2>1, <2>2, <1>7
<1> HIDE DEF u
<1>10. Unpadded(text) = u
  BY <1>3, <1>7, <1>8, <1>9 DEF Unpadded
<1> QED BY <1>3, <1>10 DEF u, n, r, text

\* Bytes of a group that may lack the second or the third.
UpToThree(x, y, z, m) == <<x>> \o (IF m >= 2 THEN <<y>> ELSE <<>>) \o (IF m >= 3 THEN <<z>> ELSE <<>>)

BytesOf(f, x, y, z, m) ==
  /\ f \in Seq(Byte) /\ Len(f) = m
  /\ f[1] = x /\ (m >= 2 => f[2] = y) /\ (m >= 3 => f[3] = z)

LEMMA GroupSeq ==
  ASSUME NEW x \in Byte, NEW y, NEW z, NEW m \in 1..3, m >= 2 => y \in Byte, m >= 3 => z \in Byte
  PROVE  BytesOf(UpToThree(x, y, z, m), x, y, z, m)
<1> DEFINE y1 == IF m >= 2 THEN <<y>> ELSE <<>>
           z1 == IF m >= 3 THEN <<z>> ELSE <<>>
<1>1. <<x>> \in Seq(Byte) /\ Len(<<x>>) = 1 /\ <<x>>[1] = x
  OBVIOUS
<1>2. y1 \in Seq(Byte) /\ Len(y1) = (IF m >= 2 THEN 1 ELSE 0) /\ (m >= 2 => y1[1] = y)
  OBVIOUS
<1>3. z1 \in Seq(Byte) /\ Len(z1) = (IF m >= 3 THEN 1 ELSE 0) /\ (m >= 3 => z1[1] = z)
  OBVIOUS
<1> HIDE DEF y1, z1
<1> DEFINE a == <<x>> \o y1
<1>4. /\ a \in Seq(Byte) /\ Len(a) = 1 + Len(y1)
      /\ \A i \in 1 .. 1 + Len(y1) : a[i] = IF i <= 1 THEN <<x>>[i] ELSE y1[i - 1]
  BY <1>1, <1>2, ConcatProperties
<1> DEFINE e == a \o z1
<1>5. UpToThree(x, y, z, m) = e
  BY DEF y1, z1, UpToThree
<1> HIDE DEF a
<1>6. /\ e \in Seq(Byte) /\ Len(e) = Len(a) + Len(z1)
      /\ \A i \in 1 .. Len(a) + Len(z1) : e[i] = IF i <= Len(a) THEN a[i] ELSE z1[i - Len(a)]
  <2>1. a \in Seq(Byte) /\ z1 \in Seq(Byte)
    BY <1>3, <1>4
  <2> QED BY <2>1, ConcatProperties
<1>7. a[1] = x /\ (m >= 2 => a[2] = y)
  BY <1>1, <1>2, <1>4
<1> HIDE DEF e
<1>8. Len(y1) \in Nat /\ Len(z1) \in Nat /\ Len(a) \in 1..2 /\ Len(e) \in 1..3
  BY <1>2, <1>3, <1>4, <1>6
<1>9. e[1] = x /\ (m >= 2 => e[2] = y) /\ (m >= 3 => e[3] = z)
  BY <1>2, <1>3, <1>4, <1>6, <1>7, <1>8
<1>10. Len(e) = m
  BY <1>2, <1>3, <1>4, <1>6
<1> QED BY <1>5, <1>6, <1>9, <1>10, Zenon DEF BytesOf

\* The characters of group g that are there, and its bytes.
LEMMA GroupSize ==
  ASSUME NEW G \in Nat, NEW g \in 1..G, NEW r \in 1..3, NEW n, n = 4 * (G - 1) + r + 1,
         NEW len, len = 3 * (G - 1) + r
  PROVE  /\ n \in Nat /\ 4 * g - 3 <= n /\ 4 * g - 2 <= n
         /\ (4 * g - 1 <= n <=> (3 * (g - 1) + 1) + 1 <= len)
         /\ (4 * g <= n <=> (3 * (g - 1) + 1) + 2 <= len)
  OBVIOUS

\* What group g is decoded to.
LEMMA GroupIs ==
  ASSUME NEW s \in Seq(Byte), NEW url \in BOOLEAN, Len(s) > 0, NEW g \in 1..Groups(Len(s))
  PROVE  LET text == Base64Encode(s, url)
             n == Unpadded(text)
             b == GroupBytes(text, n, 4 * g - 3)
             k == 3 * (g - 1) + 1
         IN  /\ CodeAt(text, n, 4 * g - 3, -1) \in 0..63 /\ CodeAt(text, n, 4 * g - 2, 0) \in 0..63
             /\ b \in Seq(Byte)
             /\ Len(b) = IF k + 2 <= Len(s) THEN 3 ELSE IF k + 1 <= Len(s) THEN 2 ELSE 1
             /\ k <= Len(s) /\ b[1] = s[k]
             /\ (k + 1 <= Len(s) => b[2] = s[k + 1])
             /\ (k + 2 <= Len(s) => b[3] = s[k + 2])
<1> DEFINE text == Base64Encode(s, url)  n == Unpadded(text)  G == Groups(Len(s))  r == Rest(Len(s))
           k == 3 * (g - 1) + 1  t == Triple(s, k)  p == k + 1 <= Len(s)  q == k + 2 <= Len(s)
<1>1. Len(s) \in Nat
  BY LenProperties
<1>2. G \in Nat /\ G > 0 /\ r \in 1..3 /\ Len(s) = 3 * (G - 1) + r
  BY <1>1, GroupsIs
<1>3. n = 4 * (G - 1) + r + 1
  BY UnpaddedIs, Zenon
<1>4. g \in 1..G
  OBVIOUS
<1>5. /\ B64DecodeChar(text[4 * g - 3]) = Six(t, 0)
      /\ B64DecodeChar(text[4 * g - 2]) = Six(t, 1)
      /\ p => B64DecodeChar(text[4 * g - 1]) = Six(t, 2)
      /\ q => B64DecodeChar(text[4 * g]) = Six(t, 3)
  BY GroupChars, Zenon
<1>6. k \in Nat /\ k > 0 /\ k <= Len(s) /\ p \in BOOLEAN /\ q \in BOOLEAN /\ (q => p)
  BY <1>2, <1>4
<1>7. /\ Is24Bits(t) /\ High(t) = s[k]
      /\ p => Middle(t) = s[k + 1]
      /\ q => Low(t) = s[k + 2]
      /\ ~ q => t % 64 = 0
      /\ ~ p => (t \div 64) % 64 = 0
  <2> HIDE DEF k
  <2>1. ~ q => k + 2 > Len(s)
    BY <1>1, <1>6
  <2>2. ~ p => k + 1 > Len(s)
    BY <1>1, <1>6
  <2> QED BY <1>6, <2>1, <2>2, TripleIs, SMT
<1>8. n \in Nat /\ 4 * g - 3 <= n /\ 4 * g - 2 <= n /\ (4 * g - 1 <= n <=> p) /\ (4 * g <= n <=> q)
  <2>1. /\ n \in Nat /\ 4 * g - 3 <= n /\ 4 * g - 2 <= n
        /\ (4 * g - 1 <= n <=> (3 * (g - 1) + 1) + 1 <= Len(s))
        /\ (4 * g <= n <=> (3 * (g - 1) + 1) + 2 <= Len(s))
    <3> HIDE DEF n, G, r, k, p, q, t, text
    <3> QED BY <1>2, <1>3, <1>4, GroupSize
  <2> QED BY <2>1
<1>9. s[k] \in Byte /\ (p => s[k + 1] \in Byte) /\ (q => s[k + 2] \in Byte)
  <2>1. \A i \in 1..Len(s) : s[i] \in Byte
    BY ElementOfSeq
  <2> HIDE DEF k
  <2> QED BY <2>1, <1>1, <1>6
<1> DEFINE e0 == Six(t, 0)  e1 == Six(t, 1)  e2 == Six(t, 2)  e3 == Six(t, 3)
<1>10. /\ e0 \in 0..63 /\ e1 \in 0..63 /\ e2 \in 0..63 /\ e3 \in 0..63
       /\ Compose(e0, e1, e2, e3) = t
       /\ ~ p => e2 = 0
       /\ ~ q => e3 = 0
  <2> HIDE DEF k, t, p, q
  <2> QED BY <1>7, FourSixes, SMT DEF Six, Is24Bits, Compose
<1> HIDE DEF text, n, G, r, k, t, p, q, e0, e1, e2, e3
<1>11. /\ CodeAt(text, n, 4 * g - 3, -1) = e0
       /\ CodeAt(text, n, (4 * g - 3) + 1, 0) = e1
       /\ CodeAt(text, n, (4 * g - 3) + 2, -1) = IF p THEN e2 ELSE -1
       /\ CodeAt(text, n, (4 * g - 3) + 3, -1) = IF q THEN e3 ELSE -1
  <2>1. (4 * g - 3) + 1 = 4 * g - 2 /\ (4 * g - 3) + 2 = 4 * g - 1 /\ (4 * g - 3) + 3 = 4 * g
    OBVIOUS
  <2> QED BY <1>5, <1>8, <2>1 DEF CodeAt, e0, e1, e2, e3
<1> DEFINE c == CodeAt(text, n, (4 * g - 3) + 2, -1)  d == CodeAt(text, n, (4 * g - 3) + 3, -1)
<1>12. c = (IF p THEN e2 ELSE -1) /\ d = (IF q THEN e3 ELSE -1)
  BY <1>11, Zenon
<1> DEFINE triple == Compose(CodeAt(text, n, 4 * g - 3, -1), CodeAt(text, n, (4 * g - 3) + 1, 0),
                             SmallMax(c, 0), SmallMax(d, 0))
           b == GroupBytes(text, n, 4 * g - 3)
           m == IF q THEN 3 ELSE IF p THEN 2 ELSE 1
           P == c >= 0
           Q == d >= 0
<1>13. b = <<High(triple)>> \o (IF P THEN <<Middle(triple)>> ELSE <<>>) \o (IF Q THEN <<Low(triple)>> ELSE <<>>)
  BY SMT DEF GroupBytes, High, Middle, Low, Compose
<1> HIDE DEF c, d
<1>14. SmallMax(c, 0) = e2 /\ SmallMax(d, 0) = e3 /\ P = (m >= 2) /\ Q = (m >= 3)
  <2>1. SmallMax(c, 0) = e2 /\ P = (m >= 2)
    BY <1>12, <1>10, <1>6, SMT DEF SmallMax
  <2>2. SmallMax(d, 0) = e3 /\ Q = (m >= 3)
    BY <1>12, <1>10, <1>6, SMT DEF SmallMax
  <2> QED BY <2>1, <2>2
<1>15. triple = t
  BY <1>10, <1>11, <1>14, Zenon
<1>16. m \in 1..3 /\ (p <=> m >= 2) /\ (q <=> m >= 3)
  BY <1>6, SMT
<1> HIDE DEF b, P, Q, triple, m
<1>17. /\ b \in Seq(Byte) /\ Len(b) = m
       /\ b[1] = s[k] /\ (p => b[2] = s[k + 1]) /\ (q => b[3] = s[k + 2])
  <2> DEFINE x == High(t)  y == Middle(t)  z == Low(t)  f == UpToThree(x, y, z, m)
  <2>1. b = f
    BY <1>13, <1>14, <1>15, Zenon DEF UpToThree
  <2>2. x \in Byte /\ (m >= 2 => y \in Byte) /\ (m >= 3 => z \in Byte)
    BY <1>9, <1>7, <1>16, Zenon
  <2>3. x = s[k] /\ (p => y = s[k + 1]) /\ (q => z = s[k + 2])
    BY <1>7, Zenon
  <2> HIDE DEF x, y, z
  <2>4. /\ f \in Seq(Byte) /\ Len(f) = m
        /\ f[1] = x /\ (m >= 2 => f[2] = y) /\ (m >= 3 => f[3] = z)
    <3>1. m \in 1..3
      BY <1>16
    <3>2. m >= 2 => y \in Byte
      BY <2>2
    <3>3. m >= 3 => z \in Byte
      BY <2>2
    <3> HIDE DEF f
    <3>4. x \in Byte
      BY <2>2
    <3>5. BytesOf(UpToThree(x, y, z, m), x, y, z, m)
      BY <3>1, <3>2, <3>3, <3>4, GroupSeq, Zenon
    <3> QED BY <3>5, Zenon DEF f, BytesOf
  <2> QED BY <2>1, <2>3, <2>4, <1>16, Zenon
<1>18. CodeAt(text, n, 4 * g - 3, -1) \in 0..63 /\ CodeAt(text, n, 4 * g - 2, 0) \in 0..63
  <2>1. (4 * g - 3) + 1 = 4 * g - 2
    OBVIOUS
  <2> QED BY <2>1, <1>10, <1>11
<1> QED BY <1>6, <1>17, <1>18, Zenon DEF text, n, k, p, q, b, m

\* Decoding undoes encoding.
LEMMA EmptyFlat ==
  ASSUME NEW seqs, Len(seqs) = 0
  PROVE  FlattenSeq(seqs) = <<>>
  BY DEF FlattenSeq

\* The lengths of the groups.
LEMMA GroupLengths ==
  ASSUME NEW G \in Nat, G > 0, NEW r \in 1..3, NEW len, len = 3 * (G - 1) + r, NEW g \in 1..G,
         NEW m, m = IF (3 * (g - 1) + 1) + 2 <= len THEN 3 ELSE IF (3 * (g - 1) + 1) + 1 <= len THEN 2 ELSE 1
  PROVE  m \in 1..3 /\ (g < G => m = 3) /\ (g = G => m = r)
  OBVIOUS

\* The empty text, where js_malloc gives nothing: the decoder fails.
LEMMA Base64Empty ==
  ASSUME NEW url \in BOOLEAN
  PROVE  Base64Decode(Base64Encode(<<>>, url), FALSE) = Failure
<1> DEFINE s == <<>>  text == Base64Encode(s, url)  n == Unpadded(text)
<1>1. text = <<>>
  <2>1. Len(s) = 0 /\ 4 * ((Len(s) + 2) \div 3) = 0 /\ 1..0 = {}
    OBVIOUS
  <2> HIDE DEF s
  <2>2. text = [i \in {} |-> Base64Char(s, url, 3 * ((i - 1) \div 4) + 1, (i - 1) % 4)]
    BY <2>1 DEF Base64Encode
  <2> HIDE DEF text
  <2> QED BY <2>2
<1> HIDE DEF text
<1>2. n = 0
  BY <1>1 DEF Unpadded
<1> HIDE DEF n
<1>3. ~ Allocates((n * 3 + 3) \div 4, FALSE)
  BY <1>2 DEF Allocates
<1> QED BY <1>3, Zenon DEF Base64Decode, n, text

LEMMA Base64Inverse ==
  ASSUME NEW s \in Seq(Byte), NEW url \in BOOLEAN, NEW zero \in BOOLEAN, Len(s) > 0 \/ zero
  PROVE  Base64Decode(Base64Encode(s, url), zero) = s
<1> DEFINE text == Base64Encode(s, url)  n == Unpadded(text)  G == Groups(Len(s))  r == Rest(Len(s))
           seqs == [g \in 1..G |-> GroupBytes(text, n, 4 * g - 3)]
<1>1. Len(s) \in Nat
  BY LenProperties
<1>2. CASE Len(s) = 0
  <2>1. s = <<>>
    BY <1>2, EmptySeq
  <2>2. text = <<>>
    <3>1. 4 * ((Len(s) + 2) \div 3) = 0
      BY <1>2
    <3>2. 1..0 = {}
      OBVIOUS
    <3>3. text = [i \in {} |-> Base64Char(s, url, 3 * ((i - 1) \div 4) + 1, (i - 1) % 4)]
      BY <3>1, <3>2 DEF Base64Encode
    <3> HIDE DEF text
    <3> QED BY <3>3
  <2> HIDE DEF text
  <2>3. n = 0
    BY <2>2 DEF Unpadded
  <2>4. (n + 3) \div 4 = 0
    BY <2>3
  <2> DEFINE none == [g \in 1..0 |-> GroupBytes(text, n, 4 * g - 3)]
  <2>5. Base64Decode(text, zero) = FlattenSeq(none)
    <3>0. Allocates((n * 3 + 3) \div 4, zero)
      <4>1. zero
        BY <1>2
      <4> QED BY <4>1, Zenon DEF Allocates
    <3>1. ~ \E g \in 1..0 : \/ CodeAt(text, n, 4 * g - 3, -1) < 0
                            \/ CodeAt(text, n, 4 * g - 2, 0) < 0
      OBVIOUS
    <3> QED BY <2>4, <3>0, <3>1, Zenon DEF Base64Decode
  <2>6. Len(none) = 0
    OBVIOUS
  <2> HIDE DEF none
  <2> QED BY <2>1, <2>5, <2>6, EmptyFlat DEF text
<1>3. CASE Len(s) > 0
  <2>1. G \in Nat /\ G > 0 /\ r \in 1..3 /\ Len(s) = 3 * (G - 1) + r
    BY <1>1, <1>3, GroupsIs
  <2>2. n = 4 * (G - 1) + r + 1
    BY <1>3, UnpaddedIs, Zenon
  <2> HIDE DEF r, G, n
  <2>3. (n + 3) \div 4 = G
    BY <2>1, <2>2
  <2>4. ASSUME NEW g \in 1..G
        PROVE  /\ CodeAt(text, n, 4 * g - 3, -1) \in 0..63 /\ CodeAt(text, n, 4 * g - 2, 0) \in 0..63
               /\ seqs[g] \in Seq(Byte) /\ Len(seqs[g]) \in 1..3
               /\ g < G => Len(seqs[g]) = 3
               /\ g = G => Len(seqs[g]) = r
               /\ \A j \in 1..Len(seqs[g]) : seqs[g][j] = s[3 * (g - 1) + j]
    <3> DEFINE b == GroupBytes(text, n, 4 * g - 3)  k == 3 * (g - 1) + 1
    <3>1. seqs[g] = b
      OBVIOUS
    <3>2. /\ CodeAt(text, n, 4 * g - 3, -1) \in 0..63 /\ CodeAt(text, n, 4 * g - 2, 0) \in 0..63
          /\ b \in Seq(Byte)
          /\ Len(b) = IF k + 2 <= Len(s) THEN 3 ELSE IF k + 1 <= Len(s) THEN 2 ELSE 1
          /\ k <= Len(s) /\ b[1] = s[k]
          /\ (k + 1 <= Len(s) => b[2] = s[k + 1])
          /\ (k + 2 <= Len(s) => b[3] = s[k + 2])
      <4>1. g \in 1..Groups(Len(s))
        BY DEF G
      <4> QED BY <4>1, <1>3, GroupIs, Zenon DEF n
    <3> HIDE DEF b, seqs, text
    <3>3. Len(b) \in 1..3 /\ (g < G => Len(b) = 3) /\ (g = G => Len(b) = r)
      BY <2>1, <3>2, GroupLengths
    <3>4. ASSUME NEW j \in 1..Len(b) PROVE b[j] = s[3 * (g - 1) + j]
      <4>1. CASE j = 1
        BY <3>2, <4>1
      <4>2. CASE j = 2
        <5>1. k + 1 <= Len(s) /\ k + 1 = 3 * (g - 1) + 2
          BY <3>2, <3>3, <4>2, <1>1
        <5> QED BY <5>1, <4>2, <3>2
      <4>3. CASE j = 3
        <5>1. k + 2 <= Len(s) /\ k + 2 = 3 * (g - 1) + 3
          BY <3>2, <3>3, <4>3, <1>1
        <5> QED BY <5>1, <4>3, <3>2
      <4> QED BY <4>1, <4>2, <4>3, <3>3
    <3> QED BY <3>1, <3>2, <3>3, <3>4
  <2>5. Len(seqs) = G
    BY <2>1
  <2>6. Base64Decode(text, zero) = FlattenSeq(seqs)
    <3>0. Allocates((n * 3 + 3) \div 4, zero)
      <4>1. (n * 3 + 3) \div 4 > 0
        BY <2>1, <2>2
      <4> QED BY <4>1, Zenon DEF Allocates
    <3>1. ~ \E g \in 1..G : \/ CodeAt(text, n, 4 * g - 3, -1) < 0
                            \/ CodeAt(text, n, 4 * g - 2, 0) < 0
      <4>1. ASSUME NEW g \in 1..G
            PROVE  ~ (CodeAt(text, n, 4 * g - 3, -1) < 0) /\ ~ (CodeAt(text, n, 4 * g - 2, 0) < 0)
        <5> DEFINE x == CodeAt(text, n, 4 * g - 3, -1)  y == CodeAt(text, n, 4 * g - 2, 0)
        <5>1. x \in 0..63 /\ y \in 0..63
          BY <2>4, Zenon
        <5> HIDE DEF x, y
        <5>2. ~ (x < 0) /\ ~ (y < 0)
          BY <5>1
        <5> QED BY <5>2, Zenon DEF x, y
      <4> QED BY <4>1, Zenon
    <3> QED BY <2>3, <3>0, <3>1, Zenon DEF Base64Decode, n
  <2> HIDE DEF text, seqs
  <2>7. Grouped(Byte, s, seqs, G)
    <3>1. G \in 1..G
      BY <2>1
    <3>2. Len(seqs[G]) = r
      BY <2>4, <3>1
    <3>3. Len(seqs[G]) <= 3 /\ Len(s) = 3 * (G - 1) + Len(seqs[G])
      BY <3>2, <2>1
    <3>4. \A i \in 1..G : \A j \in 1..Len(seqs[i]) : seqs[i][j] = s[3 * (i - 1) + j]
      BY <2>4, Zenon
    <3>5. \A i \in 1..G : seqs[i] \in Seq(Byte)
      BY <2>4, Zenon
    <3>6. \A i \in 1..G : i < G => Len(seqs[i]) = 3
      BY <2>4, Zenon
    <3> QED BY <2>5, <3>3, <3>4, <3>5, <3>6, Zenon DEF Grouped
  <2>8. FlattenSeq(seqs) = s
    BY <2>1, <2>7, FlattenTriples
  <2> QED BY <2>6, <2>8 DEF text
<1> QED BY <1>1, <1>2, <1>3

\* A digit and its character.
LEMMA HexCharIs ==
  ASSUME NEW n \in 0..15
  PROVE  HexDigit(HexChar(n)) = n
  BY DEF HexDigit, HexChar

LEMMA HalfByte ==
  ASSUME NEW b \in Byte
  PROVE  b \div 16 \in 0..15 /\ b % 16 \in 0..15 /\ (b \div 16) * 16 + (b % 16) = b
  BY DEF Byte

LEMMA HexPositions ==
  ASSUME NEW n \in Nat
  PROVE  /\ (2 * n) % 2 = 0 /\ (2 * n) \div 2 = n
         /\ \A k \in 1..n : /\ 2 * k - 1 \in 1 .. 2 * n /\ (2 * k - 1) % 2 = 1 /\ ((2 * k - 1) + 1) \div 2 = k
                            /\ 2 * k \in 1 .. 2 * n /\ (2 * k) % 2 = 0 /\ (2 * k) \div 2 = k
         /\ \A i \in 1 .. 2 * n : /\ i % 2 = 1 => (i + 1) \div 2 \in 1..n
                                  /\ i % 2 # 1 => i \div 2 \in 1..n
  OBVIOUS

LEMMA HexEmpty ==
  HexDecode(HexEncode(<<>>), FALSE) = Failure
<1> DEFINE text == HexEncode(<<>>)
<1>1. Len(text) \div 2 = 0
  BY DEF HexEncode
<1>2. ~ Allocates(Len(text) \div 2, FALSE)
  BY <1>1 DEF Allocates
<1> QED BY <1>2, Zenon DEF HexDecode

LEMMA HexInverse ==
  ASSUME NEW s \in Seq(Byte), NEW zero \in BOOLEAN, Len(s) > 0 \/ zero
  PROVE  HexDecode(HexEncode(s), zero) = s
<1> DEFINE n == Len(s)  text == HexEncode(s)
<1>1. n \in Nat /\ DOMAIN s = 1..n /\ \A i \in 1..n : s[i] \in Byte
  BY LenProperties, ElementOfSeq
<1>2. text = [k \in 1 .. 2 * n |-> HexChar(IF k % 2 = 1 THEN s[(k + 1) \div 2] \div 16 ELSE s[k \div 2] % 16)]
  BY DEF HexEncode
<1> HIDE DEF n, text
<1>3. Len(text) = 2 * n /\ DOMAIN text = 1 .. 2 * n
  BY <1>1, <1>2
<1>4. ASSUME NEW i \in 1 .. 2 * n PROVE ~ (HexDigit(text[i]) < 0)
  <2> DEFINE d == IF i % 2 = 1 THEN s[(i + 1) \div 2] \div 16 ELSE s[i \div 2] % 16
  <2>1. /\ i % 2 = 1 => (i + 1) \div 2 \in 1..n
        /\ i % 2 # 1 => i \div 2 \in 1..n
    BY <1>1, HexPositions
  <2>2. d \in 0..15
    BY <1>1, <2>1, HalfByte, Zenon
  <2>3. text[i] = HexChar(d)
    BY <1>2
  <2> HIDE DEF d
  <2>4. HexDigit(text[i]) = d
    BY <2>2, <2>3, HexCharIs
  <2> QED BY <2>2, <2>4
<1>5. ASSUME NEW k \in 1..n PROVE HexDigit(text[2 * k - 1]) * 16 + HexDigit(text[2 * k]) = s[k]
  <2>1. /\ 2 * k - 1 \in 1 .. 2 * n /\ (2 * k - 1) % 2 = 1 /\ ((2 * k - 1) + 1) \div 2 = k
        /\ 2 * k \in 1 .. 2 * n /\ (2 * k) % 2 = 0 /\ (2 * k) \div 2 = k
    BY <1>1, HexPositions
  <2>2. text[2 * k - 1] = HexChar(s[k] \div 16)
    BY <2>1, <1>2, Zenon
  <2>3. text[2 * k] = HexChar(s[k] % 16)
    <3>1. 0 # 1
      OBVIOUS
    <3> QED BY <2>1, <1>2, <3>1, Zenon
  <2>4. s[k] \in Byte
    BY <1>1
  <2>5. HexDigit(text[2 * k - 1]) = s[k] \div 16 /\ HexDigit(text[2 * k]) = s[k] % 16
    BY <2>2, <2>3, <2>4, HalfByte, HexCharIs, Zenon
  <2> QED BY <2>4, <2>5, HalfByte
<1>6. Len(text) % 2 = 0 /\ Len(text) \div 2 = n
  BY <1>1, <1>3, HexPositions
<1>7. HexDecode(text, zero) = [k \in 1..n |-> HexDigit(text[2 * k - 1]) * 16 + HexDigit(text[2 * k])]
  <2>0. Allocates(Len(text) \div 2, zero)
    BY <1>6 DEF Allocates, n
  <2>1. ~ (\/ Len(text) % 2 # 0 \/ ~ Allocates(Len(text) \div 2, zero)
           \/ \E k \in DOMAIN text : HexDigit(text[k]) < 0)
    BY <2>0, <1>3, <1>4, <1>6, Zenon
  <2> QED BY <2>1, <1>6, Zenon DEF HexDecode
<1>8. HexDecode(text, zero) = [k \in 1..n |-> s[k]]
  BY <1>5, <1>7
<1>9. s = [k \in 1..n |-> s[k]]
  BY <1>1
<1> QED BY <1>8, <1>9, Zenon DEF text

LEMMA PairPositions ==
  ASSUME NEW n \in Nat, n % 2 = 0, NEW k \in 0 .. n \div 2 - 1
  PROVE  /\ 2 * k + 1 \in 1..n /\ 2 * k + 2 \in 1..n
         /\ 2 * (((2 * k + 1) - 1) \div 2) + 2 - (((2 * k + 1) - 1) % 2) = 2 * k + 2
         /\ 2 * (((2 * k + 2) - 1) \div 2) + 2 - (((2 * k + 2) - 1) % 2) = 2 * k + 1
  OBVIOUS

LEMMA Mirror ==
  ASSUME NEW s \in Seq(Byte), Len(s) % 2 = 0, NEW k \in 0 .. Len(s) \div 2 - 1
  PROVE  ReadUInt(s, 2 * k, 2, TRUE) = ReadUInt(Swapped(s, 2), 2 * k, 2, FALSE)
<1>1. Len(s) \in Nat /\ DOMAIN s = 1..Len(s)
  BY LenProperties
<1>2. /\ 2 * k + 1 \in 1..Len(s) /\ 2 * k + 2 \in 1..Len(s)
      /\ 2 * (((2 * k + 1) - 1) \div 2) + 2 - (((2 * k + 1) - 1) % 2) = 2 * k + 2
      /\ 2 * (((2 * k + 2) - 1) \div 2) + 2 - (((2 * k + 2) - 1) % 2) = 2 * k + 1
  BY <1>1, PairPositions
<1>3. Swapped(s, 2)[2 * k + 1] = s[2 * k + 2]
  BY <1>1, <1>2, Zenon DEF Swapped
<1>4. Swapped(s, 2)[2 * k + 2] = s[2 * k + 1]
  BY <1>1, <1>2, Zenon DEF Swapped
<1>5. 2 # 1
  OBVIOUS
<1> QED BY <1>3, <1>4, <1>5, Zenon DEF ReadUInt

-----------------------------------------------------------------------------
(* Memory *)
View == [ab : Nat, off : Nat, len : Nat]
Fits(v, m) == v \in View /\ v.ab \in 1..Len(m) /\ v.off + v.len <= Len(m[v.ab])

\* Memory is bytes, of at most MaxSize, and every Buffer lies within its memory.
BufferInv ==
  /\ mem \in Seq(Seq(Byte))
  /\ \A i \in 1..Len(mem) : Len(mem[i]) <= MaxSize
  /\ views \in Seq(View)
  /\ \A i \in 1..Len(views) : Fits(views[i], mem)

LEMMA OfViews ==
  ASSUME BufferInv, NEW v \in ToSet(views)
  PROVE  Fits(v, mem)
<1>1. DOMAIN views = 1..Len(views)
  BY LenProperties DEF BufferInv
<1> QED BY <1>1 DEF BufferInv, ToSet

\* The bytes of a Buffer.
LEMMA ContentIs ==
  ASSUME BufferInv, NEW v, Fits(v, mem)
  PROVE  Content(v) \in Seq(Byte) /\ Len(Content(v)) = v.len
<1> DEFINE s == mem[v.ab]  m == v.off + 1  n == v.off + v.len
<1>1. s \in Seq(Byte)
  BY ElementOfSeq DEF BufferInv, Fits
<1>2. v.off \in Nat /\ v.len \in Nat /\ n <= Len(s)
  BY DEF Fits, View
<1>3. m \in Int /\ n \in Int /\ m >= 1 /\ (m <= n => n - m + 1 = v.len) /\ (~ (m <= n) => v.len = 0)
  BY <1>2
<1>4. Content(v) = SubSeq(s, m, n)
  BY DEF Content
<1> HIDE DEF s, m, n
<1>5. SubSeq(s, m, n) \in Seq(Byte) /\ Len(SubSeq(s, m, n)) = IF m <= n THEN n - m + 1 ELSE 0
  BY <1>1, <1>2, <1>3, PartIs
<1> QED BY <1>3, <1>4, <1>5

LEMMA AppendIs ==
  ASSUME NEW S, NEW s \in Seq(S), NEW e \in S
  PROVE  /\ Append(s, e) \in Seq(S) /\ Len(Append(s, e)) = Len(s) + 1
         /\ \A i \in 1..Len(s) : Append(s, e)[i] = s[i]
         /\ Append(s, e)[Len(s) + 1] = e
  BY AppendProperties

\* A new Buffer is one more, of memory of its own.
LEMMA NewBufferStep ==
  ASSUME BufferInv, fault = "none", NEW bytes \in Seq(Byte), NewBuffer(bytes)
  PROVE  BufferInv' /\ WritesOwnBytes
<1> DEFINE w == [ab |-> Len(mem) + 1, off |-> 0, len |-> Len(bytes)]
<1>1. mem' = Append(mem, bytes) /\ views' = Append(views, w) /\ Len(bytes) <= MaxSize /\ fault' = "none"
  BY DEF NewBuffer
<1>2. mem \in Seq(Seq(Byte)) /\ views \in Seq(View) /\ \A i \in 1..Len(views) : Fits(views[i], mem)
  BY DEF BufferInv
<1>3. Len(mem) \in Nat /\ Len(views) \in Nat /\ Len(bytes) \in Nat
  BY <1>2, LenProperties
<1>4. w \in View /\ w.ab = Len(mem) + 1 /\ w.off = 0 /\ w.len = Len(bytes)
  BY <1>3 DEF View
<1> HIDE DEF w
<1>5. /\ mem' \in Seq(Seq(Byte)) /\ Len(mem') = Len(mem) + 1
      /\ \A i \in 1..Len(mem) : mem'[i] = mem[i]
      /\ mem'[Len(mem) + 1] = bytes
  BY <1>1, <1>2, AppendIs
<1>6. /\ views' \in Seq(View) /\ Len(views') = Len(views) + 1
      /\ \A i \in 1..Len(views) : views'[i] = views[i]
      /\ views'[Len(views) + 1] = w
  BY <1>1, <1>2, <1>4, AppendIs
<1>7. ASSUME NEW v, Fits(v, mem) PROVE Fits(v, mem')
  <2>1. v.ab \in 1..Len(mem') /\ mem'[v.ab] = mem[v.ab]
    BY <1>3, <1>5, <1>7 DEF Fits
  <2> QED BY <1>7, <2>1 DEF Fits
<1>8. Fits(w, mem')
  BY <1>3, <1>4, <1>5 DEF Fits
<1>9. ASSUME NEW i \in 1..Len(views') PROVE Fits(views'[i], mem')
  <2>1. CASE i \in 1..Len(views)
    BY <2>1, <1>2, <1>6, <1>7
  <2>2. CASE i = Len(views) + 1
    BY <2>2, <1>6, <1>8
  <2> QED BY <2>1, <2>2, <1>3, <1>6
<1>12. ASSUME NEW i \in 1..Len(mem') PROVE Len(mem'[i]) <= MaxSize
  <2>1. CASE i \in 1..Len(mem)
    BY <2>1, <1>5 DEF BufferInv
  <2>2. CASE i = Len(mem) + 1
    BY <2>2, <1>1, <1>5
  <2> QED BY <2>1, <2>2, <1>3, <1>5
<1>10. BufferInv'
  BY <1>5, <1>6, <1>9, <1>12, Zenon DEF BufferInv
<1>11. DOMAIN mem = 1..Len(mem) /\ DOMAIN views' = 1..Len(views')
  BY <1>2, <1>6, LenProperties
<1> QED BY <1>1, <1>5, <1>9, <1>10, <1>11 DEF WritesOwnBytes, ToSet, Fits

\* Bytes stored within a Buffer stay within it, and are bytes.
LEMMA StoresStep ==
  ASSUME BufferInv, fault = "none", NEW v, Fits(v, mem), NEW at \in Nat, NEW bytes \in Seq(Byte),
         \A j \in 1..Len(bytes) : at + j <= v.len, Stores(v, at, bytes)
  PROVE  BufferInv' /\ WritesOwnBytes
<1> DEFINE a == v.ab  old == mem[a]
           new == [k \in DOMAIN old |-> IF k - v.off - at \in DOMAIN bytes THEN bytes[k - v.off - at] ELSE old[k]]
<1>1. mem' = [mem EXCEPT ![a] = new] /\ views' = views /\ target' = Span(v) /\ fault' = "none"
  BY DEF Stores
<1>2. mem \in Seq(Seq(Byte)) /\ views \in Seq(View) /\ \A i \in 1..Len(views) : Fits(views[i], mem)
  BY DEF BufferInv
<1>3. a \in 1..Len(mem) /\ v.off \in Nat /\ v.len \in Nat /\ v.off + v.len <= Len(old)
  BY DEF Fits, View
<1>4. old \in Seq(Byte) /\ Len(mem) \in Nat
  BY <1>2, <1>3, ElementOfSeq, LenProperties
<1>5. DOMAIN mem = 1..Len(mem) /\ DOMAIN old = 1..Len(old) /\ DOMAIN bytes = 1..Len(bytes)
      /\ DOMAIN views = 1..Len(views) /\ Len(old) \in Nat /\ Len(bytes) \in Nat
  BY <1>2, <1>4, LenProperties
<1>6. /\ \A k \in 1..Len(old) : old[k] \in Byte
      /\ \A j \in 1..Len(bytes) : bytes[j] \in Byte
  BY <1>4, ElementOfSeq
<1>7. /\ DOMAIN new = 1..Len(old)
      /\ \A k \in 1..Len(old) : /\ new[k] \in Byte
                                /\ k - v.off - at \notin 1..Len(bytes) => new[k] = old[k]
  BY <1>5, <1>6
<1>8. new = [k \in DOMAIN old |-> new[k]]
  OBVIOUS
<1> HIDE DEF new, old, a
<1>9. new \in Seq(Byte) /\ Len(new) = Len(old)
  BY <1>5, <1>7, <1>8
<1>10. /\ mem' \in Seq(Seq(Byte)) /\ Len(mem') = Len(mem) /\ mem'[a] = new
       /\ \A i \in 1..Len(mem) : i # a => mem'[i] = mem[i]
  BY <1>1, <1>2, <1>3, <1>4, <1>5, <1>9, ExceptSeq
<1>11. \A i \in 1..Len(mem) : Len(mem'[i]) = Len(mem[i])
  BY <1>9, <1>10 DEF old
<1>12. ASSUME NEW i \in 1..Len(views') PROVE Fits(views'[i], mem')
  <2>1. Fits(views[i], mem)
    BY <1>1, <1>2
  <2> QED BY <2>1, <1>1, <1>10, <1>11 DEF Fits
<1>15. \A i \in 1..Len(mem') : Len(mem'[i]) <= MaxSize
  BY <1>10, <1>11 DEF BufferInv
<1>13. BufferInv'
  BY <1>1, <1>2, <1>10, <1>12, <1>15, Zenon DEF BufferInv
<1>14. ASSUME NEW i \in DOMAIN mem, NEW k \in DOMAIN mem[i], mem'[i][k] # mem[i][k]
       PROVE  <<i, k>> \in target'
  <2>1. i = a
    BY <1>5, <1>10, <1>14
  <2>2. k \in 1..Len(old) /\ new[k] # old[k]
    BY <2>1, <1>5, <1>10, <1>14 DEF old
  <2>3. k - v.off - at \in 1..Len(bytes)
    BY <2>2, <1>7
  <2>4. at + (k - v.off - at) <= v.len
    BY <2>3
  <2>5. k - v.off \in 1..v.len /\ v.off + (k - v.off) = k
    <3>1. k \in Nat /\ v.off \in Nat /\ v.len \in Nat
      BY <2>2, <1>3, <1>5
    <3>2. PICK j \in Nat : j = k - v.off - at /\ 1 <= j /\ at + j <= v.len
      BY <2>3, <2>4, <1>5
    <3> QED BY <3>1, <3>2
  <2> QED BY <2>1, <2>5, <1>1 DEF Span, a
<1> QED BY <1>1, <1>5, <1>12, <1>13, <1>14 DEF WritesOwnBytes, ToSet, Fits

\* A function of 1..n is a sequence.
LEMMA AsSeqNat ==
  ASSUME NEW S, NEW n \in Nat, NEW f, DOMAIN f = 1..n, f = [k \in 1..n |-> f[k]], \A k \in 1..n : f[k] \in S
  PROVE  f \in Seq(S) /\ Len(f) = n
  OBVIOUS

LEMMA AsSeq ==
  ASSUME NEW S, NEW n \in Int, NEW f, DOMAIN f = 1..n, f = [k \in 1..n |-> f[k]], \A k \in 1..n : f[k] \in S
  PROVE  f \in Seq(S) /\ (n >= 0 => Len(f) = n) /\ (n < 0 => Len(f) = 0)
<1>1. CASE n \in Nat
  <2>1. f \in Seq(S) /\ Len(f) = n
    BY <1>1, AsSeqNat
  <2> QED BY <1>1, <2>1
<1>2. CASE n < 0
  <2> DEFINE m == 0
  <2>1. 1..n = 1..m /\ m \in Nat
    BY <1>2
  <2>2. f \in Seq(S) /\ Len(f) = m
    <3> HIDE DEF m
    <3>1. DOMAIN f = 1..m /\ f = [k \in 1..m |-> f[k]] /\ \A k \in 1..m : f[k] \in S
      BY <2>1, Zenon
    <3> QED BY <2>1, <3>1, AsSeqNat, Zenon
  <2>3. ~ (n >= 0)
    BY <1>2
  <2> QED BY <2>2, <2>3, Zenon
<1>3. n \in Nat \/ n < 0
  OBVIOUS
<1> QED BY <1>1, <1>2, <1>3, Zenon

LEMMA ArgIs ==
  ASSUME NEW arg \in Args, NEW default \in Int
  PROVE  Given(arg, default) \in Int
  BY BufferAssumption DEF Args, Given

LEMMA MinMaxIs ==
  ASSUME NEW a \in Int, NEW b \in Int
  PROVE  /\ SmallMax(a, b) \in Int /\ SmallMax(a, b) >= a /\ SmallMax(a, b) >= b
         /\ SmallMin(a, b) \in Int /\ SmallMin(a, b) <= a /\ SmallMin(a, b) <= b
         /\ (SmallMin(a, b) = a \/ SmallMin(a, b) = b)
  BY DEF SmallMax, SmallMin

LEMMA RangeIs ==
  ASSUME NEW len \in Nat, NEW start \in Int, NEW end \in Int
  PROVE  /\ SliceRange(len, start, end)[1] \in Nat
         /\ SliceRange(len, start, end)[2] \in Int
         /\ SliceRange(len, start, end)[2] <= len
  BY DEF SliceRange, SmallMax, SmallMin

\* The elements of n bytes each, mirrored.
LEMMA SwapPosition ==
  ASSUME NEW len \in Nat, NEW n \in {2, 4}, len % n = 0, NEW k \in 1..len
  PROVE  n * ((k - 1) \div n) + n - ((k - 1) % n) \in 1..len
<1>1. CASE n = 2
  BY <1>1
<1>2. CASE n = 4
  BY <1>2
<1> QED BY <1>1, <1>2

LEMMA SwappedIs ==
  ASSUME NEW s \in Seq(Byte), NEW n \in {2, 4}, Len(s) % n = 0
  PROVE  Swapped(s, n) \in Seq(Byte) /\ Len(Swapped(s, n)) = Len(s)
<1> DEFINE f == Swapped(s, n)
<1>1. Len(s) \in Nat /\ DOMAIN s = 1..Len(s) /\ \A i \in 1..Len(s) : s[i] \in Byte
  BY LenProperties, ElementOfSeq
<1>2. f = [k \in 1..Len(s) |-> s[n * ((k - 1) \div n) + n - ((k - 1) % n)]]
  BY <1>1 DEF Swapped
<1> HIDE DEF f
<1>3. ASSUME NEW k \in 1..Len(s) PROVE f[k] \in Byte
  <2>1. n * ((k - 1) \div n) + n - ((k - 1) % n) \in 1..Len(s)
    BY <1>1, SwapPosition
  <2> QED BY <2>1, <1>1, <1>2, Zenon
<1>4. DOMAIN f = 1..Len(s) /\ f = [k \in 1..Len(s) |-> f[k]] /\ Len(s) \in Int /\ Len(s) >= 0
  BY <1>1, <1>2
<1>5. f \in Seq(Byte) /\ (Len(s) >= 0 => Len(f) = Len(s))
  BY <1>3, <1>4, AsSeq
<1> QED BY <1>4, <1>5 DEF f

LEMMA UIntBytesIs ==
  ASSUME NEW val \in Nat, NEW n \in {1, 2}, NEW bigEndian \in BOOLEAN
  PROVE  UIntBytes(val, n, bigEndian) \in Seq(Byte) /\ Len(UIntBytes(val, n, bigEndian)) = n
<1>1. val % 256 \in Byte /\ (val \div 256) % 256 \in Byte
  BY DEF Byte
<1> DEFINE a == val % 256  b == (val \div 256) % 256
<1> HIDE DEF a, b
<1>2. UIntBytes(val, n, bigEndian) = IF n = 1 THEN <<a>> ELSE IF bigEndian THEN <<b, a>> ELSE <<a, b>>
  BY DEF UIntBytes, a, b
<1>3. a \in Byte /\ b \in Byte
  BY <1>1 DEF a, b
<1>4. CASE n = 1
  BY <1>2, <1>3, <1>4
<1>5. CASE n = 2 /\ bigEndian
  BY <1>2, <1>3, <1>5
<1>6. CASE n = 2 /\ ~ bigEndian
  BY <1>2, <1>3, <1>6
<1> QED BY <1>4, <1>5, <1>6
-----------------------------------------------------------------------------
LEMMA BufferInitial ==
  ASSUME BufferInit
  PROVE  BufferInv
<1>0. PICK n \in 0..MaxLen :
        \E bytes \in [1..n -> Bytes] : mem = <<bytes>> /\ views = <<[ab |-> 1, off |-> 0, len |-> n]>>
  BY DEF BufferInit
<1>1. PICK bytes \in [1..n -> Bytes] : mem = <<bytes>> /\ views = <<[ab |-> 1, off |-> 0, len |-> n]>>
  BY <1>0
<1>2. n \in Nat
  BY BufferAssumption
<1>3. bytes \in Seq(Byte) /\ Len(bytes) = n
  <2>1. DOMAIN bytes = 1..n /\ bytes = [k \in 1..n |-> bytes[k]] /\ \A k \in 1..n : bytes[k] \in Byte
    BY BufferAssumption DEF Byte
  <2> QED BY <1>2, <2>1, AsSeqNat
<1>4. [ab |-> 1, off |-> 0, len |-> n] \in View
  BY <1>2 DEF View
<1>5. Len(bytes) <= MaxSize
  BY <1>3, BufferAssumption
<1> QED BY <1>1, <1>2, <1>3, <1>4, <1>5 DEF BufferInv, Fits

LEMMA AllocStep ==
  ASSUME BufferInv, fault = "none", NEW n \in Positions \cap Nat, NEW byte \in Bytes, Alloc(n, byte)
  PROVE  BufferInv' /\ WritesOwnBytes
<1>1. [k \in 1..n |-> byte] \in Seq(Byte)
  BY BufferAssumption DEF Byte
<1> QED BY <1>1, NewBufferStep, Zenon DEF Alloc

LEMMA FromStep ==
  ASSUME BufferInv, fault = "none", NEW v, Fits(v, mem), From(v) \/ FromString(Content(v))
  PROVE  BufferInv' /\ WritesOwnBytes
<1> DEFINE s == Content(v)
<1>1. s \in Seq(Byte) /\ Len(s) \in Nat
  BY ContentIs, LenProperties
<1> HIDE DEF s
<1>2. ASSUME NEW zero \in BOOLEAN, NEW url \in BOOLEAN
      PROVE  /\ HexDecode(HexEncode(s), zero) \in {s, Failure}
             /\ Base64Decode(Base64Encode(s, url), zero) \in {s, Failure}
  <2>1. CASE Len(s) > 0 \/ zero
    BY <1>1, <2>1, HexInverse, Base64Inverse, Zenon
  <2>2. CASE ~ (Len(s) > 0) /\ zero = FALSE
    <3>1. Len(s) = 0
      BY <1>1, <2>2
    <3>2. s = <<>>
      BY <1>1, <3>1, EmptySeq
    <3> QED BY <3>2, <2>2, HexEmpty, Base64Empty, Zenon
  <2> QED BY <2>1, <2>2, Zenon
<1>3. NewBuffer(s)
  <2>1. CASE From(v)
    BY <2>1 DEF From, s
  <2>2. CASE FromString(s)
    BY <1>2, <2>2, Zenon DEF FromString
  <2> QED BY <2>1, <2>2 DEF s
<1> QED BY <1>1, <1>3, NewBufferStep, Zenon

LEMMA FromArrayStep ==
  ASSUME BufferInv, fault = "none", NEW p \in Args, FromArray(<<p, Undef>>)
  PROVE  BufferInv' /\ WritesOwnBytes
<1> DEFINE values == <<p, Undef>>  f == [k \in DOMAIN values |-> Given(values[k], 0) % 256]
<1>1. DOMAIN values = 1..2 /\ \A k \in 1..2 : values[k] \in Args
  BY DEF Args
<1>2. NewBuffer(f)
  BY DEF FromArray
<1> HIDE DEF values
<1>3. f = [k \in 1..2 |-> Given(values[k], 0) % 256]
  BY <1>1
<1>4. ASSUME NEW k \in 1..2 PROVE f[k] \in Byte
  <2> DEFINE g == Given(values[k], 0)
  <2>1. g \in Int
    BY <1>1, ArgIs
  <2>2. f[k] = g % 256
    BY <1>3
  <2> HIDE DEF f, g
  <2> QED BY <2>1, <2>2 DEF Byte
<1> HIDE DEF f
<1>5. f \in Seq(Byte)
  BY <1>3, <1>4, AsSeqNat
<1> QED BY <1>2, <1>5, NewBufferStep, Zenon

LEMMA ConcatStep ==
  ASSUME BufferInv, fault = "none", NEW v, NEW w, Fits(v, mem), Fits(w, mem), NEW total \in Args, Concat(v, w, total)
  PROVE  BufferInv' /\ WritesOwnBytes
<1> DEFINE all == Content(v) \o Content(w)
           n == IF total = Undef THEN Len(all) ELSE IF total < 0 THEN Len(all) ELSE total
           f == [k \in 1..n |-> At(all, k, 0)]
<1>1. NewBuffer(f)
  BY DEF Concat
<1>2. Content(v) \in Seq(Byte) /\ Content(w) \in Seq(Byte)
  BY ContentIs
<1>3. all \in Seq(Byte)
  BY <1>2, ConcatProperties
<1> HIDE DEF all
<1>4. Len(all) \in Nat /\ DOMAIN all = 1..Len(all) /\ \A i \in 1..Len(all) : all[i] \in Byte
  BY <1>3, LenProperties, ElementOfSeq
<1>5. n \in Int
  BY <1>4, BufferAssumption DEF Args
<1> HIDE DEF n
<1>6. /\ DOMAIN f = 1..n /\ f = [k \in 1..n |-> f[k]]
      /\ \A k \in 1..n : f[k] \in Byte
  BY <1>4 DEF At, Byte
<1> HIDE DEF f
<1>7. f \in Seq(Byte)
  BY <1>5, <1>6, AsSeq
<1> QED BY <1>1, <1>7, NewBufferStep, Zenon

LEMMA SliceStep ==
  ASSUME BufferInv, fault = "none", NEW v, Fits(v, mem), NEW start \in Args, NEW end \in Args, Slice(v, start, end)
  PROVE  BufferInv' /\ WritesOwnBytes
<1> DEFINE a == IF end = Undef THEN 0 ELSE Given(start, 0)
           b == Given(end, v.len)
           m == SliceRange(v.len, a, b)[1]
           n == SliceRange(v.len, a, b)[2]
           f == SubSeq(Content(v), m + 1, n)
<1>1. NewBuffer(f)
  BY DEF Slice
<1>2. v.len \in Nat
  BY DEF Fits, View
<1>3. a \in Int /\ b \in Int
  BY <1>2, ArgIs
<1> HIDE DEF a, b
<1>4. m \in Nat /\ n \in Int /\ n <= v.len
  BY <1>2, <1>3, RangeIs
<1> HIDE DEF m, n
<1>5. Content(v) \in Seq(Byte) /\ Len(Content(v)) = v.len
  BY ContentIs
<1>6. m + 1 \in Int /\ m + 1 >= 1 /\ n <= Len(Content(v))
  BY <1>4, <1>5
<1>7. f \in Seq(Byte)
  BY <1>4, <1>5, <1>6, PartIs
<1> QED BY <1>1, <1>7, NewBufferStep, Zenon

\* A new Buffer of memory that is there lies within it.
LEMMA NewViewStep ==
  ASSUME BufferInv, fault = "none", NEW i \in 1..Len(mem), NEW off \in Nat, NEW n \in Nat,
         off + n <= Len(mem[i]), NewView(i, off, n)
  PROVE  BufferInv' /\ WritesOwnBytes
<1> DEFINE w == [ab |-> i, off |-> off, len |-> n]
<1>1. mem' = mem /\ views' = Append(views, w) /\ fault' = "none"
  BY DEF NewView
<1>2. /\ mem \in Seq(Seq(Byte)) /\ views \in Seq(View) /\ \A j \in 1..Len(views) : Fits(views[j], mem)
      /\ \A j \in 1..Len(mem) : Len(mem[j]) <= MaxSize
  BY DEF BufferInv
<1>3. i \in Nat
  BY <1>2, LenProperties
<1>4. w \in View /\ w.ab = i /\ w.off = off /\ w.len = n
  BY <1>3 DEF View
<1> HIDE DEF w
<1>5. Fits(w, mem)
  BY <1>4 DEF Fits
<1>6. /\ views' \in Seq(View) /\ Len(views') = Len(views) + 1
      /\ \A j \in 1..Len(views) : views'[j] = views[j]
      /\ views'[Len(views) + 1] = w
  BY <1>1, <1>2, <1>4, AppendIs
<1>7. ASSUME NEW j \in 1..Len(views') PROVE Fits(views'[j], mem')
  <2>1. CASE j \in 1..Len(views)
    BY <2>1, <1>1, <1>2, <1>6
  <2>2. CASE j = Len(views) + 1
    BY <2>2, <1>1, <1>5, <1>6
  <2>3. Len(views) \in Nat
    BY <1>2, LenProperties
  <2> QED BY <2>1, <2>2, <2>3, <1>6
<1>8. BufferInv'
  BY <1>1, <1>2, <1>6, <1>7, Zenon DEF BufferInv
<1>9. DOMAIN views' = 1..Len(views')
  BY <1>6, LenProperties
<1> QED BY <1>1, <1>7, <1>8, <1>9 DEF WritesOwnBytes, ToSet, Fits

LEMMA FromArrayBufferStep ==
  ASSUME BufferInv, fault = "none", NEW i \in DOMAIN mem, NEW offset \in Args, NEW length \in Args,
         FromArrayBuffer(i, offset, length)
  PROVE  BufferInv' /\ WritesOwnBytes
<1> DEFINE off == Given(offset, 0)  n == Given(length, Len(mem[i]))
<1>1. mem \in Seq(Seq(Byte))
  BY DEF BufferInv
<1>2. i \in 1..Len(mem) /\ Len(mem[i]) \in Nat
  BY <1>1, LenProperties, ElementOfSeq
<1>3. off \in Int /\ n \in Int
  BY <1>2, ArgIs
<1>4. off >= 0 /\ n >= 0 /\ off + n <= Len(mem[i]) /\ NewView(i, off, n)
  BY DEF FromArrayBuffer
<1> HIDE DEF off, n
<1>5. off \in Nat /\ n \in Nat
  BY <1>3, <1>4
<1> QED BY <1>2, <1>4, <1>5, NewViewStep, Zenon

LEMMA SubarrayStep ==
  ASSUME BufferInv, fault = "none", NEW v, Fits(v, mem), NEW start \in Args, NEW end \in Args,
         Subarray(v, start, end)
  PROVE  BufferInv' /\ WritesOwnBytes
<1> DEFINE a == Given(start, 0)
           b == Given(end, v.len)
           m == SliceRange(v.len, a, b)[1]
           n == SliceRange(v.len, a, b)[2]
<1>1. v.len \in Nat /\ v.off \in Nat /\ v.ab \in Nat
  BY DEF Fits, View
<1>2. a \in Int /\ b \in Int
  BY <1>1, ArgIs
<1>3. \/ NewBuffer(<<>>)
      \/ ~ (m >= n) /\ NewView(v.ab, v.off + m, n - m)
  BY DEF Subarray
<1> HIDE DEF a, b
<1>4. m \in Nat /\ n \in Int /\ n <= v.len
  BY <1>1, <1>2, RangeIs
<1> HIDE DEF m, n
<1>5. CASE NewBuffer(<<>>)
  <2>1. <<>> \in Seq(Byte)
    OBVIOUS
  <2> QED BY <2>1, <1>5, NewBufferStep, Zenon
<1>6. CASE ~ (m >= n) /\ NewView(v.ab, v.off + m, n - m)
  <2>1. v.ab \in 1..Len(mem) /\ v.off + v.len <= Len(mem[v.ab])
    BY DEF Fits
  <2>2. mem[v.ab] \in Seq(Byte)
    BY <2>1, ElementOfSeq DEF BufferInv
  <2>3. Len(mem[v.ab]) \in Nat
    BY <2>2, LenProperties
  <2> DEFINE off == v.off + m  len == n - m
  <2>4. off \in Nat /\ len \in Nat /\ off + len <= Len(mem[v.ab])
    <3> DEFINE size == Len(mem[v.ab])  o == v.off  l == v.len
    <3>1. o \in Nat /\ l \in Nat /\ size \in Nat /\ o + l <= size
      BY <1>1, <2>1, <2>3
    <3> HIDE DEF size, o, l
    <3>2. o + m \in Nat /\ n - m \in Nat /\ (o + m) + (n - m) <= size
      <4>1. ~ (m >= n) /\ n <= l
        BY <1>4, <1>6 DEF l
      <4> QED BY <1>4, <3>1, <4>1
    <3> QED BY <3>2, Zenon DEF size, o
  <2>5. NewView(v.ab, off, len)
    BY <1>6
  <2> HIDE DEF off, len
  <2> QED BY <2>1, <2>4, <2>5, NewViewStep, Zenon
<1> QED BY <1>3, <1>5, <1>6

LEMMA WriteStep ==
  ASSUME BufferInv, fault = "none", NEW v, Fits(v, mem), NEW bytes \in Seq(Byte), NEW offset \in Args, NEW length \in Args,
         Write(v, bytes, offset, length)
  PROVE  BufferInv' /\ WritesOwnBytes
<1> DEFINE at == Given(offset, 0)
           n == IF Given(length, 0) < 0 THEN Len(bytes) ELSE SmallMin(Given(length, Len(bytes)), Len(bytes))
           m == WriteLength(v.len, at, n)
           f == SubSeq(bytes, 1, m)
<1>1. at \in 0 .. v.len - 1 /\ Stores(v, at, f)
  BY DEF Write
<1>2. v.len \in Nat /\ Len(bytes) \in Nat
  BY LenProperties DEF Fits, View
<1>3. Given(length, Len(bytes)) \in Int
  BY <1>2, ArgIs
<1>4. n \in Int /\ n <= Len(bytes)
  BY <1>2, <1>3, MinMaxIs
<1> HIDE DEF n, at
<1>5. m \in Int /\ m <= Len(bytes) /\ m <= v.len - at
  BY <1>1, <1>2, <1>4 DEF WriteLength, SmallMin
<1> HIDE DEF m
<1>6. f \in Seq(Byte) /\ Len(f) = IF 1 <= m THEN m - 1 + 1 ELSE 0
  BY <1>5, PartIs
<1> HIDE DEF f
<1>7. \A j \in 1..Len(f) : at + j <= v.len
  BY <1>1, <1>2, <1>5, <1>6
<1>8. at \in Nat
  BY <1>1, <1>2
<1> QED BY <1>1, <1>6, <1>7, <1>8, StoresStep, Zenon

LEMMA FillStep ==
  ASSUME BufferInv, fault = "none", NEW v, Fits(v, mem), NEW byte \in Bytes, NEW start \in Args, NEW end \in Args,
         Fill(v, byte, start, end)
  PROVE  BufferInv' /\ WritesOwnBytes
<1> DEFINE from == SmallMax(Given(start, 0), 0)
           to == SmallMin(Given(end, v.len), v.len)
           f == [k \in 1 .. to - from |-> byte]
<1>1. Stores(v, from, f)
  BY DEF Fill
<1>2. v.len \in Nat
  BY DEF Fits, View
<1>3. Given(start, 0) \in Int /\ Given(end, v.len) \in Int
  BY <1>2, ArgIs
<1> DEFINE x == Given(start, 0)  y == Given(end, v.len)
<1> HIDE DEF x, y
<1>4. from \in Nat /\ to \in Int /\ to <= v.len
  <2>1. x \in Int /\ y \in Int /\ from = SmallMax(x, 0) /\ to = SmallMin(y, v.len)
    BY <1>3 DEF x, y
  <2> HIDE DEF from, to
  <2> QED BY <2>1, <1>2 DEF SmallMin, SmallMax
<1> HIDE DEF from, to
<1>5. byte \in Byte /\ to - from \in Int
  BY <1>4, BufferAssumption DEF Byte
<1>6. /\ DOMAIN f = 1 .. to - from /\ f = [k \in 1 .. to - from |-> f[k]]
      /\ \A k \in 1 .. to - from : f[k] \in Byte
  BY <1>5
<1> HIDE DEF f
<1>7. f \in Seq(Byte) /\ (to - from >= 0 => Len(f) = to - from) /\ (to - from < 0 => Len(f) = 0)
  BY <1>5, <1>6, AsSeq
<1>8. \A j \in 1..Len(f) : from + j <= v.len
  BY <1>2, <1>4, <1>7
<1> QED BY <1>1, <1>4, <1>7, <1>8, StoresStep, Zenon

\* A copy to a position within its target and from a range that is not reversed moves
\* no more than fits and the range has: no sum or difference wraps around.
LEMMA CopyFits ==
  ASSUME NEW len \in 0..MaxSize, NEW at \in 0..len, NEW from \in Nat, NEW to \in 0..MaxSize, from <= to
  PROVE  at + CopyLength(len, at, from, to) <= len /\ CopyLength(len, at, from, to) <= to - from
<1>1. MaxSize \in Nat /\ SizeMod \in Nat /\ 2 * MaxSize < SizeMod
  BY BufferAssumption
<1>2. Wrap(to - from) = to - from /\ Wrap(at + (to - from)) = at + (to - from) /\ Wrap(len - at) = len - at
  BY <1>1 DEF Wrap
<1>3. CopyLength(len, at, from, to) = IF at + (to - from) > len THEN len - at ELSE to - from
  BY <1>2, Zenon DEF CopyLength
<1> QED BY <1>3

LEMMA CopyLengthIs ==
  ASSUME NEW len \in Int, NEW at \in Int, NEW from \in Int, NEW to \in Int
  PROVE  CopyLength(len, at, from, to) \in Int
<1>1. \A x \in Int : Wrap(x) \in Int
  BY BufferAssumption DEF Wrap
<1>2. Wrap(to - from) \in Int /\ Wrap(len - at) \in Int
  BY <1>1
<1> QED BY <1>2, Zenon DEF CopyLength

LEMMA CopyStep ==
  ASSUME BufferInv, fault = "none", NEW v, NEW w, Fits(v, mem), Fits(w, mem),
         NEW targetStart \in Args, NEW sourceStart \in Args, NEW sourceEnd \in Args,
         Copy(v, w, targetStart, sourceStart, sourceEnd)
  PROVE  BufferInv' /\ WritesOwnBytes
<1> DEFINE from == SmallMax(Given(sourceStart, 0), 0)
           to == SmallMin(Given(sourceEnd, v.len), v.len)
           at == SmallMax(Given(targetStart, 0), 0)
           n == CopyLength(w.len, at, from, to)
           f(junk) == [k \in 1..n |-> At(mem[v.ab], v.off + from + k, junk)]
<1>1. \/ at + n <= w.len /\ \E junk \in Bytes : Stores(w, at, f(junk))
      \/ /\ at + n > w.len \/ (n > 0 /\ v.off + from + n > Len(mem[v.ab]))
         /\ Dies(IF at > w.len \/ from > to THEN "misplaced" ELSE "other")
  BY DEF Copy
<1>2. v.len \in Nat /\ w.len \in Nat
  BY DEF Fits, View
<1>3. Given(sourceStart, 0) \in Int /\ Given(sourceEnd, v.len) \in Int /\ Given(targetStart, 0) \in Int
  BY <1>2, ArgIs
<1> DEFINE x == Given(sourceStart, 0)  y == Given(sourceEnd, v.len)  z == Given(targetStart, 0)
<1> HIDE DEF x, y, z
<1>4. from \in Nat /\ to \in Int /\ to <= v.len /\ at \in Nat
  <2>1. /\ x \in Int /\ y \in Int /\ z \in Int
        /\ from = SmallMax(x, 0) /\ to = SmallMin(y, v.len) /\ at = SmallMax(z, 0)
    BY <1>3 DEF x, y, z
  <2> HIDE DEF from, to, at
  <2> QED BY <2>1, <1>2 DEF SmallMin, SmallMax
<1> HIDE DEF from, to, at
<1>5. n \in Int
  <2>1. w.len \in Int /\ at \in Int /\ from \in Int /\ to \in Int
    BY <1>2, <1>4
  <2> QED BY <2>1, CopyLengthIs, Zenon
<1>6. CASE at + n <= w.len /\ \E junk \in Bytes : Stores(w, at, f(junk))
  <2>1. PICK junk \in Bytes : Stores(w, at, f(junk))
    BY <1>6
  <2> DEFINE s == mem[v.ab]  g == f(junk)
  <2>2. s \in Seq(Byte)
    BY ElementOfSeq DEF BufferInv, Fits
  <2>3. DOMAIN s = 1..Len(s) /\ \A i \in 1..Len(s) : s[i] \in Byte
    BY <2>2, LenProperties, ElementOfSeq
  <2>4. junk \in Byte
    BY BufferAssumption DEF Byte
  <2> HIDE DEF s, n
  <2>5. g = [k \in 1..n |-> At(s, v.off + from + k, junk)]
    BY DEF s
  <2>6. \A i : At(s, i, junk) \in Byte
    BY <2>3, <2>4, Zenon DEF At
  <2> HIDE DEF g
  <2>7. DOMAIN g = 1..n /\ g = [k \in 1..n |-> g[k]] /\ \A k \in 1..n : g[k] \in Byte
    BY <2>5, <2>6
  <2>8. g \in Seq(Byte) /\ (n >= 0 => Len(g) = n) /\ (n < 0 => Len(g) = 0)
    BY <1>5, <2>7, AsSeq
  <2>9. \A j \in 1..Len(g) : at + j <= w.len
    BY <1>2, <1>4, <1>5, <1>6, <2>8
  <2> QED BY <1>4, <2>1, <2>8, <2>9, StoresStep, Zenon DEF g
<1>7. CASE /\ at + n > w.len \/ (n > 0 /\ v.off + from + n > Len(mem[v.ab]))
           /\ Dies(IF at > w.len \/ from > to THEN "misplaced" ELSE "other")
  <2>1. ASSUME NEW u, Fits(u, mem) PROVE u.len <= MaxSize
    <3>1. u.ab \in 1..Len(mem) /\ u.off \in Nat /\ u.len \in Nat /\ u.off + u.len <= Len(mem[u.ab])
      BY <2>1 DEF Fits, View
    <3>2. Len(mem[u.ab]) <= MaxSize
      BY <3>1 DEF BufferInv
    <3>3. mem[u.ab] \in Seq(Byte)
      BY <3>1, ElementOfSeq DEF BufferInv
    <3>4. Len(mem[u.ab]) \in Nat /\ MaxSize \in Nat
      BY <3>3, LenProperties, BufferAssumption
    <3> QED BY <3>1, <3>2, <3>4
  <2>2. at > w.len \/ from > to
    <3>1. SUFFICES ASSUME ~ (at > w.len), ~ (from > to) PROVE FALSE
      OBVIOUS
    <3>2. v.len <= MaxSize /\ w.len <= MaxSize /\ MaxSize \in Nat
      BY <2>1, BufferAssumption
    <3>3. w.len \in 0..MaxSize /\ at \in 0..w.len /\ to \in 0..MaxSize /\ from <= to
      BY <1>2, <1>4, <3>1, <3>2
    <3>4. at + n <= w.len /\ n <= to - from
      BY <1>4, <3>3, CopyFits
    <3>5. /\ v.off \in Nat /\ v.off + v.len <= Len(mem[v.ab])
          /\ Len(mem[v.ab]) \in Nat
      <4>1. v.ab \in 1..Len(mem) /\ v.off \in Nat /\ v.off + v.len <= Len(mem[v.ab])
        BY DEF Fits, View
      <4>2. mem[v.ab] \in Seq(Byte)
        BY <4>1, ElementOfSeq DEF BufferInv
      <4> QED BY <4>1, <4>2, LenProperties
    <3> HIDE DEF n
    <3>6. at + n > w.len \/ v.off + from + n > Len(mem[v.ab])
      BY <1>7
    <3> QED BY <1>2, <1>4, <1>5, <3>1, <3>4, <3>5, <3>6
  <2>3. mem' = mem /\ views' = views /\ fault' = "misplaced"
    BY <1>7, <2>2, Zenon DEF Dies
  <2>4. BufferInv'
    BY <2>3, Zenon DEF BufferInv
  <2>5. \A i \in DOMAIN mem : \A k \in DOMAIN mem[i] : mem'[i][k] = mem[i][k]
    BY <2>3
  <2>6. \A u \in ToSet(views') : u.off + u.len <= Len(mem'[u.ab])
    BY <2>3, OfViews DEF Fits
  <2> QED BY <2>3, <2>4, <2>5, <2>6 DEF WritesOwnBytes
<1> QED BY <1>1, <1>6, <1>7

LEMMA SwapStep ==
  ASSUME BufferInv, fault = "none", NEW v, Fits(v, mem), NEW n \in {2, 4}, Swap(v, n)
  PROVE  BufferInv' /\ WritesOwnBytes
<1> DEFINE f == Swapped(Content(v), n)
<1>1. v.len % n = 0 /\ Stores(v, 0, f)
  BY DEF Swap
<1>2. Content(v) \in Seq(Byte) /\ Len(Content(v)) = v.len /\ v.len \in Nat
  BY ContentIs DEF Fits, View
<1>3. f \in Seq(Byte) /\ Len(f) = v.len
  BY <1>1, <1>2, SwappedIs
<1> HIDE DEF f
<1>4. \A j \in 1..Len(f) : 0 + j <= v.len
  BY <1>2, <1>3
<1>5. 0 \in Nat
  OBVIOUS
<1> QED BY <1>1, <1>3, <1>4, <1>5, StoresStep, Zenon

LEMMA WriteUIntStep ==
  ASSUME BufferInv, fault = "none", NEW v, Fits(v, mem), NEW val \in Nat, NEW offset \in Positions, NEW n \in {1, 2},
         NEW bigEndian \in BOOLEAN, WriteUInt(v, val, offset, n, bigEndian)
  PROVE  BufferInv' /\ WritesOwnBytes
<1> DEFINE f == UIntBytes(val, n, bigEndian)
<1>1. offset >= 0 /\ offset + n <= v.len /\ Stores(v, offset, f)
  BY DEF WriteUInt
<1>2. offset \in Nat /\ v.len \in Nat
  BY <1>1, BufferAssumption DEF Fits, View
<1>3. f \in Seq(Byte) /\ Len(f) = n
  BY UIntBytesIs
<1> HIDE DEF f
<1>4. \A j \in 1..Len(f) : offset + j <= v.len
  BY <1>1, <1>2, <1>3
<1> QED BY <1>1, <1>2, <1>3, <1>4, StoresStep, Zenon

\* Every operation keeps memory and Buffers consistent and writes its own bytes only.
LEMMA BufferStep ==
  ASSUME BufferInv, BufferNext
  PROVE  BufferInv' /\ WritesOwnBytes
<1>0. fault = "none" /\ Operation
  BY DEF BufferNext
<1>1. CASE \E n \in Positions \cap Nat, byte \in Bytes : Alloc(n, byte)
  BY <1>0, <1>1, AllocStep
<1>3. CASE \E p \in Args : FromArray(<<p, Undef>>)
  BY <1>0, <1>3, FromArrayStep, Zenon
<1>4. CASE \E i \in DOMAIN mem, offset, length \in Args : FromArrayBuffer(i, offset, length)
  BY <1>0, <1>4, FromArrayBufferStep, Zenon
<1>2. ASSUME NEW v \in ToSet(views),
             \/ From(v) \/ FromString(Content(v))
             \/ \E w \in ToSet(views), total \in Args : Concat(v, w, total)
             \/ \E start, end \in Args : Slice(v, start, end) \/ Subarray(v, start, end)
             \/ \E offset, length \in Args : Write(v, <<1, 2, 3>>, offset, length)
             \/ \E start, end \in Args, byte \in Bytes : Fill(v, byte, start, end)
             \/ \E w \in ToSet(views), a, b, c \in Args : Copy(v, w, a, b, c)
             \/ \E n \in {2, 4} : Swap(v, n)
             \/ \E offset \in Positions, n \in {1, 2}, bigEndian \in BOOLEAN :
                  WriteUInt(v, 258, offset, n, bigEndian)
      PROVE  BufferInv' /\ WritesOwnBytes
  <2>0. Fits(v, mem) /\ \A w \in ToSet(views) : Fits(w, mem)
    BY OfViews
  <2>1. CASE From(v) \/ FromString(Content(v))
    BY <1>0, <2>0, <2>1, FromStep, Zenon
  <2>2. CASE \E w \in ToSet(views), total \in Args : Concat(v, w, total)
    BY <1>0, <2>0, <2>2, ConcatStep, Zenon
  <2>3. CASE \E start, end \in Args : Slice(v, start, end) \/ Subarray(v, start, end)
    BY <1>0, <2>0, <2>3, SliceStep, SubarrayStep, Zenon
  <2>4. CASE \E offset, length \in Args : Write(v, <<1, 2, 3>>, offset, length)
    <3>1. <<1, 2, 3>> \in Seq(Byte)
      BY DEF Byte
    <3> QED BY <1>0, <2>0, <2>4, <3>1, WriteStep, Zenon
  <2>5. CASE \E start, end \in Args, byte \in Bytes : Fill(v, byte, start, end)
    BY <1>0, <2>0, <2>5, FillStep, Zenon
  <2>6. CASE \E w \in ToSet(views), a, b, c \in Args : Copy(v, w, a, b, c)
    BY <1>0, <2>0, <2>6, CopyStep, Zenon
  <2>7. CASE \E n \in {2, 4} : Swap(v, n)
    BY <1>0, <2>0, <2>7, SwapStep, Zenon
  <2>8. CASE \E offset \in Positions, n \in {1, 2}, bigEndian \in BOOLEAN :
               WriteUInt(v, 258, offset, n, bigEndian)
    <3>1. 258 \in Nat
      OBVIOUS
    <3>2. PICK offset \in Positions, n \in {1, 2}, bigEndian \in BOOLEAN :
            WriteUInt(v, 258, offset, n, bigEndian)
      BY <2>8
    <3> DEFINE val == 258
    <3>3. WriteUInt(v, val, offset, n, bigEndian) /\ val \in Nat
      BY <3>1, <3>2
    <3> HIDE DEF val
    <3> QED BY <1>0, <2>0, <3>3, WriteUIntStep, Zenon
  <2> QED BY <1>2, <2>1, <2>2, <2>3, <2>4, <2>5, <2>6, <2>7, <2>8, Zenon
<1> QED BY <1>0, <1>1, <1>2, <1>3, <1>4, Zenon DEF Operation

LEMMA BufferStutter ==
  ASSUME BufferInv, UNCHANGED bufferVars
  PROVE  BufferInv'
  BY Zenon DEF BufferInv, bufferVars

LEMMA BufferRoundTrip ==
  ASSUME BufferInv
  PROVE  RoundTrip
<1> SUFFICES ASSUME NEW v \in ToSet(views)
    PROVE  LET s == Content(v) IN
           /\ \A zero \in BOOLEAN :
                LET restored == IF s = <<>> /\ ~zero THEN Failure ELSE s IN
                /\ HexDecode(HexEncode(s), zero) = restored
                /\ \A url \in BOOLEAN : Base64Decode(Base64Encode(s, url), zero) = restored
           /\ Len(s) % 2 = 0 =>
                \A k \in 0 .. Len(s) \div 2 - 1 :
                  ReadUInt(s, 2 * k, 2, TRUE) = ReadUInt(Swapped(s, 2), 2 * k, 2, FALSE)
  BY Zenon DEF RoundTrip
<1> DEFINE s == Content(v)
<1>1. s \in Seq(Byte)
  BY OfViews, ContentIs
<1> HIDE DEF s
<1>2. ASSUME NEW zero \in BOOLEAN, NEW url \in BOOLEAN, NEW restored,
             restored = IF s = <<>> /\ ~zero THEN Failure ELSE s
      PROVE  /\ HexDecode(HexEncode(s), zero) = restored
             /\ Base64Decode(Base64Encode(s, url), zero) = restored
  <2>1. CASE s = <<>> /\ zero = FALSE
    BY <1>2, <2>1, HexEmpty, Base64Empty, Zenon
  <2>2. CASE s # <<>> \/ zero
    <3>1. Len(s) > 0 \/ zero
      <4>1. Len(s) \in Nat /\ (Len(s) = 0 => s = <<>>)
        BY <1>1, LenProperties, EmptySeq
      <4> QED BY <2>2, <4>1
    <3> QED BY <1>1, <1>2, <2>2, <3>1, HexInverse, Base64Inverse, Zenon
  <2> QED BY <2>1, <2>2, Zenon
<1>3. TRUE \in BOOLEAN
  OBVIOUS
<1> QED BY <1>1, <1>2, <1>3, Mirror, Zenon DEF s

\* Buffer.from undoes toString in hex, base64 and base64url, for Buffers of every length
\* and content but one: the empty text is decoded only where js_malloc of 0 bytes gives
\* memory, and fails elsewhere.  The two byte orders are each other's mirror.
THEOREM ConversionsRoundTrip == BufferSpec => []RoundTrip
<1>1. BufferInit => BufferInv
  BY BufferInitial
<1>2. BufferInv /\ [BufferNext]_bufferVars => BufferInv'
  BY BufferStep, BufferStutter
<1>3. BufferInv => RoundTrip
  BY BufferRoundTrip
<1> QED BY <1>1, <1>2, <1>3, PTL DEF BufferSpec

\* No operation writes a byte outside the Buffer it is called on, with any arguments,
\* and no Buffer ever reaches beyond its memory.  Only a copy to a position beyond its
\* target or from a reversed range can kill the process instead.
THEOREM OperationsIsolated == BufferSpec => Isolation
<1>1. BufferInit => BufferInv
  BY BufferInitial
<1>2. BufferInv /\ [BufferNext]_bufferVars => BufferInv'
  BY BufferStep, BufferStutter
<1>3. BufferInv /\ [BufferNext]_bufferVars => [WritesOwnBytes]_bufferVars
  BY BufferStep
<1> QED BY <1>1, <1>2, <1>3, PTL DEF BufferSpec, Isolation
=============================================================================
