-------------------------------- MODULE Heap --------------------------------
(***************************************************************************)
(* Memory of the QuickJS engine: reference counts, the list of objects     *)
(* that are about to be freed, the collector of cycles (JS_RunGC), and the *)
(* weak references of WeakRef, WeakMap and FinalizationRegistry.           *)
(*                                                                         *)
(* A plain object has one strong property, a weak holder has one entry:    *)
(* the target of a WeakRef, a record of a WeakMap (weak key, strong        *)
(* value), a registration of a FinalizationRegistry (weak target, strong   *)
(* held value, the target again as its token).  Shapes, bytecode and the   *)
(* variables captured by closures are left out.                            *)
(*                                                                         *)
(* The collector is cut into steps, one per object of each of its loops.   *)
(* JavaScript runs only between collections.                               *)
(***************************************************************************)
EXTENDS Integers, Sequences, FiniteSets, SequencesExt

CONSTANTS
  Objects,       \* addresses of object structures
  Holders,       \* those that may be given to a WeakRef, WeakMap, registry
  MaxJobs        \* bound: registrations and queued callbacks

None == "none"

ASSUME HeapAssumption ==
  IsFiniteSet(Objects) /\ None \notin Objects /\ Holders \subseteq Objects /\ MaxJobs \in Nat

Kinds == {"plain", "weakref", "weakmap", "finrec"}

VARIABLES
  heap,          \* the object headers and the lists they are on, see HeapRecord
  kind,          \* class of the object
  field,         \* its property: an object or None
  entry,         \* the entry of a weak holder, or NoEntry
  roots,         \* objects that variables and the stack refer to
  jobs,          \* held values of queued finalization callbacks
  weakList,      \* rt->weakref_list
  pc, after,     \* what the engine is doing; where to go on when the list is drained
  cursor         \* position in the list that is traversed

refVars == <<kind, field, entry, roots, jobs, weakList>>
vars == <<heap, refVars, pc, after, cursor>>

NoEntry == [key |-> None, val |-> None]

\* mem: "free", "object", or "husk": finalized, and kept for the weak references.
\* faults: structures used or freed after they were freed.
Init ==
  /\ heap = [mem |-> [o \in Objects |-> "free"], rc |-> [o \in Objects |-> 0],
             weak |-> [o \in Objects |-> 0], mark |-> [o \in Objects |-> 0],
             gc |-> <<>>, zero |-> <<>>, tmp |-> <<>>, faults |-> {}]
  /\ kind = [o \in Objects |-> "plain"]
  /\ field = [o \in Objects |-> None]
  /\ entry = [o \in Objects |-> NoEntry]
  /\ roots = {} /\ jobs = <<>> /\ weakList = <<>>
  /\ pc = "idle" /\ after = "idle" /\ cursor = 0
-----------------------------------------------------------------------------
\* Strong references of an object.  mark_children visits them and free_object drops
\* them in this order: the property, then the value of the entry.
Refers(o) == {field[o], entry[o].val} \ {None}

Touch(h, o) == IF h.mem[o] = "free" THEN [h EXCEPT !.faults = @ \cup {o}] ELSE h
Release(h, o) == [Touch(h, o) EXCEPT !.mem[o] = "free"]

\* JS_DupValue
Dup(h, o) == IF o = None THEN h ELSE [Touch(h, o) EXCEPT !.rc[o] = @ + 1]

\* remove_gc_object, from the list that the object is on
Unlist(h, o) ==
  [h EXCEPT !.gc = RemoveFirst(@, o), !.zero = RemoveFirst(@, o), !.tmp = RemoveFirst(@, o)]

\* JS_FreeValueRT: at zero the object goes to the head of gc_zero_ref_count_list,
\* except while cycles are removed
FreeValue(h, o) ==
  LET h1 == [Touch(h, o) EXCEPT !.rc[o] = @ - 1] IN
  IF o = None THEN h
  ELSE IF h1.rc[o] > 0 \/ pc = "cycles" THEN h1
  ELSE [Unlist(h1, o) EXCEPT !.zero = <<o>> \o @, !.mark[o] = 1]

\* js_weakref_new
WeakNew(h, o) == [Touch(h, o) EXCEPT !.weak[o] = @ + 1]

\* (faulty variant: the mark is not looked at)
WeakFree_NoMark(h, o) ==
  LET h1 == [Touch(h, o) EXCEPT !.weak[o] = @ - 1] IN
  IF h1.weak[o] = 0 /\ h1.rc[o] = 0 THEN Release(h1, o) ELSE h1

\* js_weakref_free: the last weak reference takes the husk with it, but not an
\* object that is still to be freed
WeakFree(h, o) ==
  LET h1 == [Touch(h, o) EXCEPT !.weak[o] = @ - 1] IN
  IF h1.weak[o] = 0 /\ h1.rc[o] = 0 /\ h1.mark[o] = 0 THEN Release(h1, o) ELSE h1

\* The weak references of the entry of w go: the key, and in a registry the token.
FreeKey(h, w) ==
  LET key == entry[w].key IN
  IF key = None THEN h
  ELSE IF kind[w] = "finrec" THEN WeakFree(WeakFree(h, key), key) ELSE WeakFree(h, key)

\* The entry of w goes: the weak references, then the value.
FreeEntry(h, w) == FreeValue(FreeKey(h, w), entry[w].val)

\* The end of free_object: free the structure, or keep it for those that refer to it.
Dispose(h, p) ==
  IF pc = "cycles"
  THEN IF h.rc[p] = 0 /\ h.weak[p] = 0 THEN Release(h, p)
       ELSE [h EXCEPT !.zero = Append(@, p), !.mem[p] = "husk"]
  ELSE IF h.weak[p] = 0 THEN Release(h, p)
       ELSE [h EXCEPT !.mark[p] = 0, !.mem[p] = "husk"]

\* free_object, the finalizers of the weak holders included
FreeObject(p) ==
  LET h == FreeEntry(FreeValue(heap, field[p]), p) IN
  /\ heap' = Dispose(Unlist(h, p), p)
  /\ field' = [field EXCEPT ![p] = None]
  /\ entry' = [entry EXCEPT ![p] = NoEntry]
  /\ kind' = [kind EXCEPT ![p] = "plain"]
  /\ weakList' = RemoveFirst(weakList, p)
  /\ UNCHANGED <<roots, jobs, after>>
-----------------------------------------------------------------------------
\* What the program can get at: the objects it has in variables, those that a queued
\* callback holds, and all they lead to.
Closed(S) ==
  roots \subseteq S /\ Range(jobs) \subseteq S \cup {None} /\ \A o \in S : Refers(o) \subseteq S
Reachable ==
  LET C == {S \in SUBSET Objects : Closed(S)} IN {o \in Objects : \A S \in C : o \in S}

Running == pc = "idle"

\* A JavaScript operation leaves the heap as h; free_zero_refcount starts at once.
Leaves(h) ==
  /\ heap' = h
  /\ pc' = IF h.zero # <<>> THEN "drain" ELSE "idle"
  /\ UNCHANGED <<after, cursor>>

\* JS_NewObjectFromShape and the constructors of the weak holders.  A WeakRef is born
\* with its target.
New(o, k, target) ==
  LET h == [heap EXCEPT !.mem[o] = "object", !.rc[o] = 1, !.weak[o] = 0, !.mark[o] = 0,
                        !.gc = Append(@, o)]
  IN
  /\ Running /\ heap.mem[o] = "free"
  /\ k # "plain" => o \in Holders
  /\ IF k = "weakref" THEN target \in Reachable ELSE target = None
  /\ kind' = [kind EXCEPT ![o] = k]
  /\ roots' = roots \cup {o}
  /\ entry' = [entry EXCEPT ![o].key = target]
  /\ weakList' = IF k = "plain" THEN weakList ELSE Append(weakList, o)
  /\ Leaves(IF k = "weakref" THEN WeakNew(h, target) ELSE h)
  /\ UNCHANGED <<field, jobs>>

\* A variable is set to an object, or forgets it.
Hold(o) ==
  /\ Running /\ o \notin roots /\ o \in Reachable
  /\ roots' = roots \cup {o}
  /\ Leaves(Dup(heap, o))
  /\ UNCHANGED <<kind, field, entry, jobs, weakList>>

Forget(o) ==
  /\ Running /\ o \in roots
  /\ roots' = roots \ {o}
  /\ Leaves(FreeValue(heap, o))
  /\ UNCHANGED <<kind, field, entry, jobs, weakList>>

\* o.field = x
SetField(o, x) ==
  /\ Running /\ kind[o] = "plain" /\ x # field[o]
  /\ o \in Reachable /\ x \in Reachable \cup {None}
  /\ field' = [field EXCEPT ![o] = x]
  /\ Leaves(FreeValue(Dup(heap, x), field[o]))
  /\ UNCHANGED <<kind, entry, roots, jobs, weakList>>

\* WeakRef.prototype.deref: the target, unless its count is zero
Deref(o) ==
  /\ Running /\ kind[o] = "weakref" /\ o \in Reachable
  /\ entry[o].key # None /\ entry[o].key \notin roots
  /\ heap.rc[entry[o].key] # 0
  /\ roots' = roots \cup {entry[o].key}
  /\ Leaves(Dup(heap, entry[o].key))
  /\ UNCHANGED <<kind, field, entry, jobs, weakList>>

\* An entry for the key x with the value y; the holders of the model have room for one.
AddEntry(o, x, y, h) ==
  /\ Running /\ entry[o] = NoEntry
  /\ {o, x} \subseteq Reachable /\ y \in Reachable \cup {None}
  /\ entry' = [entry EXCEPT ![o] = [key |-> x, val |-> y]]
  /\ Leaves(h)
  /\ UNCHANGED <<kind, field, roots, jobs, weakList>>

\* WeakMap.prototype.set of a new key (a record whose key is dead is left to the collector)
MapSet(o, x, y) == kind[o] = "weakmap" /\ AddEntry(o, x, y, Dup(WeakNew(heap, x), y))

\* WeakMap.prototype.set of a key that has a record: the old value is freed first, and
\* the caller holds the new one
MapReplace(o, y) ==
  /\ Running /\ kind[o] = "weakmap" /\ {o, entry[o].key} \subseteq Reachable
  /\ y \in roots \cup {None} /\ y # entry[o].val
  /\ entry' = [entry EXCEPT ![o].val = y]
  /\ Leaves(Dup(FreeValue(heap, entry[o].val), y))
  /\ UNCHANGED <<kind, field, roots, jobs, weakList>>

\* FinalizationRegistry.prototype.register: the held value must not be the target
Register(o, x, y) ==
  /\ kind[o] = "finrec" /\ x # y /\ Len(jobs) < MaxJobs
  /\ AddEntry(o, x, y, WeakNew(Dup(WeakNew(heap, x), y), x))

\* WeakMap.prototype.delete and FinalizationRegistry.prototype.unregister, of a live key
DeleteEntry(o) ==
  /\ Running /\ o \in Reachable
  /\ entry[o].key \in Reachable
  /\ entry' = [entry EXCEPT ![o] = NoEntry]
  /\ Leaves(FreeEntry(heap, o))
  /\ UNCHANGED <<kind, field, roots, jobs, weakList>>
MapDelete(o) == kind[o] = "weakmap" /\ DeleteEntry(o)
Unregister(o) == kind[o] = "finrec" /\ DeleteEntry(o)

\* A finalization callback runs and drops the held value.
RunJob ==
  /\ Running /\ jobs # <<>>
  /\ jobs' = Tail(jobs)
  /\ Leaves(FreeValue(heap, Head(jobs)))
  /\ UNCHANGED <<kind, field, entry, roots, weakList>>

\* free_zero_refcount
Drain ==
  /\ pc = "drain"
  /\ IF heap.zero # <<>>
     THEN FreeObject(Head(heap.zero)) /\ UNCHANGED pc
     ELSE pc' = after /\ after' = "idle" /\ UNCHANGED <<heap, refVars>>
  /\ UNCHANGED cursor
-----------------------------------------------------------------------------
\* JS_RunGC: from js_trigger_gc (before any allocation) or called by the program
RunGC ==
  /\ Running /\ heap.gc # <<>>
  /\ pc' = "weak" /\ cursor' = 1
  /\ UNCHANGED <<heap, refVars, after>>

\* (faulty variant: the last strong reference is taken for none)
Live_OffByOne(o) == heap.rc[o] > 1

\* js_weakref_is_live
Live(o) == heap.rc[o] # 0

\* map_delete_weakrefs and weakref_delete_weakref: the entry goes if its key is dead ...
DeleteWeakrefs(w) ==
  /\ entry' = [entry EXCEPT ![w] = NoEntry]
  /\ heap' = FreeEntry(heap, w)
  /\ UNCHANGED jobs

\* ... and finrec_delete_weakref queues the callback with the held value first
DeleteAndQueue(w) ==
  /\ entry' = [entry EXCEPT ![w] = NoEntry]
  /\ jobs' = Append(jobs, entry[w].val)
  /\ heap' = FreeEntry(Dup(heap, entry[w].val), w)

\* gc_remove_weak_objects: the next holder, then what has become garbage
RemoveWeak ==
  LET w == weakList[cursor]
      dead == entry[w].key # None /\ ~ Live(entry[w].key)
  IN
  /\ pc = "weak" /\ cursor <= Len(weakList)
  /\ cursor' = cursor + 1
  /\ \/ dead /\ kind[w] = "finrec" /\ DeleteAndQueue(w)
     \/ dead /\ kind[w] # "finrec" /\ DeleteWeakrefs(w)
     \/ ~ dead /\ UNCHANGED <<heap, entry, jobs>>
  /\ UNCHANGED <<kind, field, roots, weakList, pc, after>>
WeakRemoved ==
  /\ pc = "weak" /\ cursor > Len(weakList)
  /\ pc' = "drain" /\ after' = "decref" /\ cursor' = 0
  /\ UNCHANGED <<heap, refVars>>

\* gc_decref_child: an object already visited goes to tmp_obj_list at zero
DecrefChild(h, o) ==
  LET h1 == [Touch(h, o) EXCEPT !.rc[o] = @ - 1] IN
  IF o = None THEN h
  ELSE IF h1.rc[o] = 0 /\ h1.mark[o] = 1 THEN [Unlist(h1, o) EXCEPT !.tmp = Append(@, o)] ELSE h1

\* gc_decref: the next object not yet visited
Visited(p) ==
  LET h == [DecrefChild(DecrefChild(heap, field[p]), entry[p].val) EXCEPT !.mark[p] = 1] IN
  IF h.rc[p] = 0 THEN [Unlist(h, p) EXCEPT !.tmp = Append(@, p)] ELSE h

Decref ==
  /\ pc = "decref"
  /\ \/ \E i \in DOMAIN heap.gc :
          /\ heap.mark[heap.gc[i]] = 0 /\ \A j \in 1 .. i - 1 : heap.mark[heap.gc[j]] = 1
          /\ heap' = Visited(heap.gc[i])
          /\ UNCHANGED <<pc, cursor>>
     \/ /\ \A i \in DOMAIN heap.gc : heap.mark[heap.gc[i]] = 1
        /\ pc' = "scan" /\ cursor' = 1 /\ UNCHANGED heap
  /\ UNCHANGED <<refVars, after>>

\* (faulty variant: an object found again is not put back on gc_obj_list)
IncrefChild_NotMoved(h, o) == Dup(h, o)

\* gc_scan_incref_child: back to the end of gc_obj_list, so that it is scanned too
IncrefChild(h, o) ==
  LET h1 == [Touch(h, o) EXCEPT !.rc[o] = @ + 1] IN
  IF o = None THEN h
  ELSE IF h1.rc[o] = 1 THEN [Unlist(h1, o) EXCEPT !.gc = Append(@, o), !.mark[o] = 0] ELSE h1

\* gc_scan, first loop: all that the objects with references from outside lead to
Scan ==
  /\ pc = "scan"
  /\ \/ /\ cursor <= Len(heap.gc)
        /\ LET p == heap.gc[cursor] IN
           heap' = IncrefChild(IncrefChild([heap EXCEPT !.mark[p] = 0], field[p]), entry[p].val)
        /\ cursor' = cursor + 1
        /\ UNCHANGED pc
     \/ cursor > Len(heap.gc) /\ pc' = "restore" /\ cursor' = 1 /\ UNCHANGED heap
  /\ UNCHANGED <<refVars, after>>

\* (faulty variant: the counts of the garbage are not restored)
Restored_Not(p) == heap

Restored(p) == Dup(Dup(heap, field[p]), entry[p].val)

\* gc_scan, second loop: give the garbage its counts back
Restore ==
  /\ pc = "restore"
  /\ \/ /\ cursor <= Len(heap.tmp)
        /\ heap' = Restored(heap.tmp[cursor]) /\ cursor' = cursor + 1 /\ UNCHANGED pc
     \/ cursor > Len(heap.tmp) /\ pc' = "cycles" /\ cursor' = 0 /\ UNCHANGED heap
  /\ UNCHANGED <<refVars, after>>

\* gc_free_cycles, first loop
FreeCycles ==
  /\ pc = "cycles"
  /\ IF heap.tmp # <<>>
     THEN FreeObject(Head(heap.tmp)) /\ UNCHANGED pc
     ELSE pc' = "sweep" /\ UNCHANGED <<heap, refVars, after>>
  /\ UNCHANGED cursor

\* gc_free_cycles, second loop: the structures that were kept until now
SweepOne(h, p) == IF h.weak[p] # 0 THEN [h EXCEPT !.mark[p] = 0] ELSE Release(h, p)

Sweep ==
  /\ pc = "sweep"
  /\ \/ /\ heap.zero # <<>>
        /\ heap' = [SweepOne(heap, Head(heap.zero)) EXCEPT !.zero = Tail(@)]
        /\ UNCHANGED pc
     \/ heap.zero = <<>> /\ pc' = "collected" /\ UNCHANGED heap
  /\ UNCHANGED <<refVars, after, cursor>>

Resume ==
  /\ pc = "collected"
  /\ pc' = "idle"
  /\ UNCHANGED <<heap, refVars, after, cursor>>

\* JavaScript runs only between collections.
Next ==
  \/ /\ Running
     /\ \/ \E o \in Objects, k \in Kinds, x \in Objects \cup {None} : New(o, k, x)
        \/ \E o \in Objects : Hold(o) \/ Forget(o) \/ Deref(o) \/ MapDelete(o) \/ Unregister(o)
        \/ \E o \in Objects, x \in Objects \cup {None} : SetField(o, x) \/ MapReplace(o, x)
        \/ \E o, x \in Objects, y \in Objects \cup {None} : MapSet(o, x, y) \/ Register(o, x, y)
        \/ RunJob \/ RunGC
  \/ Drain \/ RemoveWeak \/ WeakRemoved \/ Decref \/ Scan \/ Restore \/ FreeCycles \/ Sweep \/ Resume

Spec == Init /\ [][Next]_vars
-----------------------------------------------------------------------------
Alive == {o \in Objects : heap.mem[o] = "object"}

\* References from variables and queued callbacks, from objects, and weak ones.
BaseRefs(o) == Cardinality(roots \cap {o}) + Cardinality({i \in DOMAIN jobs : jobs[i] = o})
RefsFrom(P, o) == Cardinality({p \in P : field[p] = o}) + Cardinality({p \in P : entry[p].val = o})
WeakRefs(o) ==
  LET of == {p \in Alive : entry[p].key = o} IN
  Cardinality(of) + Cardinality({p \in of : kind[p] = "finrec"})

\* No structure is used or freed after it was freed, whatever the order in which the
\* objects of a cycle, their weak references and their weak holders go: none is
\* freed while a list, an object or an entry still points to it.
NoUseAfterFree ==
  /\ heap.faults = {}
  /\ \A o \in Range(heap.gc) \cup Range(heap.zero) \cup Range(heap.tmp) : heap.mem[o] # "free"
  /\ \A o \in Alive : /\ \A x \in Refers(o) : heap.mem[x] # "free"
                      /\ entry[o].key # None => heap.mem[entry[o].key] # "free"

\* The assertions of free_zero_refcount, gc_decref, gc_decref_child, gc_scan and
\* js_weakref_free hold, and while JavaScript runs every count is the number of
\* references, every object with one is on gc_obj_list, and what is kept as a husk has
\* a weak reference.  (A count that is one too low frees an object in use; one too high
\* leaks it.)
CountsExact ==
  /\ pc = "drain" /\ heap.zero # <<>> => heap.rc[Head(heap.zero)] = 0
  /\ pc = "weak" => \A o \in Range(heap.gc) : heap.mark[o] = 0
  /\ pc = "scan" => \A o \in Range(heap.gc) : heap.rc[o] > 0
  /\ \A o \in Objects : heap.rc[o] >= 0 /\ heap.weak[o] >= 0
  /\ pc = "idle" =>
       /\ Range(heap.gc) = Alive /\ heap.zero = <<>> /\ heap.tmp = <<>>
       /\ \A o \in Alive : heap.rc[o] = BaseRefs(o) + RefsFrom(Alive, o) /\ heap.mark[o] = 0
       /\ \A o \in Objects : heap.mem[o] # "free" => heap.weak[o] = WeakRefs(o)
       /\ \A o \in Objects : heap.mem[o] = "husk" => WeakRefs(o) > 0

\* The collector keeps what the program can reach, at every point of its passes, and
\* keeps nothing else: after a run only reachable objects are left, cycles of garbage
\* through weak holders included.  (The value of a WeakMap counts as reachable from
\* the map, as js_map_mark has it.)
CollectsExactlyGarbage ==
  /\ Reachable \subseteq Alive
  /\ pc = "collected" => Alive = Reachable

\* A weak entry of an object in use goes only by the program's own hand as long as its
\* key is reachable: WeakRef.deref and WeakMap.get find a reachable key, and no
\* finalization callback is queued for one.
KeepsEntries ==
  pc # "idle" => \A o \in Objects :
    entry'[o] # entry[o] => ~ ({o, entry[o].key} \subseteq Reachable)
EntriesOutliveKeys == [][KeepsEntries]_vars
-----------------------------------------------------------------------------
(* The inductive invariant of the proofs in MemoryProofs. *)
PCs == {"idle", "drain", "weak", "decref", "scan", "restore", "cycles", "sweep", "collected"}
MaybeObjects == Objects \cup {None}

HeapRecord ==
  [mem : [Objects -> {"free", "object", "husk"}], rc : [Objects -> Int], weak : [Objects -> Int],
   mark : [Objects -> {0, 1}], gc : Seq(Objects), zero : Seq(Objects), tmp : Seq(Objects),
   faults : SUBSET Objects]

HeapTypeOK ==
  /\ heap \in HeapRecord
  /\ kind \in [Objects -> Kinds] /\ field \in [Objects -> MaybeObjects]
  /\ entry \in [Objects -> [key : MaybeObjects, val : MaybeObjects]]
  /\ roots \subseteq Objects /\ jobs \in Seq(MaybeObjects) /\ weakList \in Seq(Objects)
  /\ pc \in PCs /\ after \in {"idle", "decref"} /\ cursor \in Nat
  /\ after # "idle" => pc = "drain"
  /\ pc = "weak" => cursor # 0

\* An object that is no longer there has no references of its own, and none to it if it
\* is freed.  What is kept as a husk is not on a list, unless it is to be swept.
DeadInv ==
  /\ heap.faults = {}
  /\ \A o \in Objects \ Alive : field[o] = None /\ entry[o] = NoEntry
  /\ \A o \in Objects : heap.mem[o] = "free" => heap.weak[o] = 0
  /\ \A o \in Objects : heap.mem[o] = "husk" /\ o \notin Range(heap.zero) =>
       heap.rc[o] = 0 /\ heap.mark[o] = 0 /\ heap.weak[o] > 0

\* The objects whose references the counts include, and those that stay.
Counted ==
  CASE pc = "decref" -> {o \in Objects : heap.mark[o] = 0}
    [] pc = "scan" -> {heap.gc[i] : i \in 1 .. cursor - 1}
    [] pc = "restore" -> Range(heap.gc) \cup {heap.tmp[i] : i \in 1 .. cursor - 1}
    [] OTHER -> Objects
Kept == IF pc \in {"restore", "cycles", "sweep", "collected"} THEN Range(heap.gc) ELSE Alive

CountInv ==
  /\ \A o \in Objects : heap.rc[o] = BaseRefs(o) + RefsFrom(Counted, o)
  /\ \A o \in Objects : heap.weak[o] = WeakRefs(o)

\* Nothing that stays refers to anything that goes.
RefInv ==
  /\ Closed(Kept)
  /\ \A o \in Objects : Refers(o) \subseteq IF pc = "cycles" THEN Alive \cup Range(heap.zero) ELSE Alive

\* Where each object is.
ListInv ==
  /\ IsInjective(heap.gc) /\ IsInjective(heap.zero) /\ IsInjective(heap.tmp)
  /\ LET G == Range(heap.gc)
         Z == Range(heap.zero)
         T == Range(heap.tmp)
         Marked(S) == \A o \in S : heap.mark[o] = 1
         Unmarked(S) == \A o \in S : heap.mark[o] = 0
     IN
     /\ pc \in {"idle", "drain", "weak"} =>
          /\ G = {o \in Alive : heap.rc[o] > 0} /\ Unmarked(G)
          /\ Z = {o \in Alive : heap.rc[o] = 0} /\ Marked(Z)
          /\ T = {} /\ (pc = "idle" => Z = {})
     /\ pc = "decref" =>
          /\ T = {o \in Alive : heap.rc[o] = 0 /\ heap.mark[o] = 1} /\ G = Alive \ T /\ Z = {}
     /\ pc = "scan" =>
          /\ G = {o \in Alive : heap.rc[o] > 0} /\ Unmarked(Counted) /\ cursor \in 1 .. Len(heap.gc) + 1
          /\ T = {o \in Alive : heap.rc[o] = 0} /\ Marked(T) /\ Z = {}
     /\ pc = "restore" => Z = {} /\ cursor \in 1 .. Len(heap.tmp) + 1
     /\ pc \in {"restore", "cycles", "sweep", "collected"} =>
          /\ G \cup T = Alive /\ G \cap T = {} /\ Unmarked(G) /\ Marked(T) /\ Marked(Z)
          /\ \A o \in G : BaseRefs(o) + RefsFrom(G, o) > 0
          /\ \A o \in Z : heap.mem[o] = "husk"
     /\ pc = "sweep" => T = {}
     /\ pc = "collected" => T = {} /\ Z = {}
     /\ pc \in {"scan", "restore", "cycles", "sweep", "collected"} => G \subseteq Reachable

HeapInv == HeapTypeOK /\ DeadInv /\ CountInv /\ RefInv /\ ListInv
=============================================================================
