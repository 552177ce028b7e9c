------------------------------- MODULE Atomics ------------------------------
(***************************************************************************)
(* Atomics.wait and Atomics.notify on a SharedArrayBuffer, and the atomic  *)
(* reads and writes that go with them.  js_atomics_mutex guards one list   *)
(* of waiters for all threads; a waiter is a variable on the C stack of    *)
(* js_atomics_wait with a condition variable of its own.  The cells are    *)
(* NOT guarded by the mutex: a store may come at any point of a wait or of *)
(* a notification, and a waiter may wake up at any point, too.             *)
(*                                                                         *)
(* The main thread may not block (only worker_func calls JS_SetCanBlock).  *)
(* A condition variable may wake up for no reason, as POSIX lets it.       *)
(***************************************************************************)
EXTENDS Integers, Sequences, FiniteSets, FiniteSetsExt, SequencesExt

CONSTANTS
  Workers,       \* worker threads
  Main,          \* the main thread
  Cells,         \* elements of the shared Int32Array
  Modulus,       \* number of values of a cell (2^32 for an Int32Array)
  MaxWaits,      \* bound: calls of Atomics.wait, all threads together
  MaxOps         \* bound: atomic writes and notifications

ASSUME AtomicsAssumption ==
  /\ IsFiniteSet(Workers) /\ Main \notin Workers
  /\ Modulus \in Nat \ {0} /\ {MaxWaits, MaxOps} \subseteq Nat

Threads == Workers \cup {Main}
Values == 0..(Modulus - 1)

VARIABLES
  mem,           \* mem[c]: value of the cell
  mutex,         \* threads that hold js_atomics_mutex
  list,          \* js_atomics_waiter_list: threads, each for its waiter_s
  pc,            \* pc[t]: where thread t is in js_atomics_wait or js_atomics_notify
  ptr, v,        \* arguments of the call: the cell, and the expected value of a wait
  timed,         \* threads whose wait has a timeout
  linked,        \* threads with waiter->linked
  signalled,     \* threads whose condition variable was signalled
  count, woken,  \* the limit of the js_atomics_notify under way, and its waiter_list
  result,        \* result[t]: what the last wait of t returned
  waits, ops,    \* calls so far
  ticket,        \* history: ticket[t], the number of the wait t is in
  tickets,       \* history: numbers given out
  changed        \* history: cells written since they were last notified in full

waitVars == <<ptr, v, timed>>
listVars == <<list, linked, signalled>>
notifyVars == <<count, woken>>
historyVars == <<ticket, tickets, changed>>
vars == <<mem, mutex, listVars, pc, waitVars, notifyVars, result, waits, ops, historyVars>>

None == "none"

Init ==
  /\ mem = [c \in Cells |-> 0]
  /\ mutex = {}
  /\ list = <<>> /\ linked = {} /\ signalled = {}
  /\ pc = [t \in Threads |-> "idle"]
  /\ ptr = [t \in Threads |-> None] /\ v = [t \in Threads |-> 0]
  /\ timed = {}
  /\ count = 0 /\ woken = {}
  /\ result = [t \in Threads |-> None]
  /\ waits = 0 /\ ops = 0
  /\ ticket = [t \in Threads |-> 0] /\ tickets = 0
  /\ changed = {}
-----------------------------------------------------------------------------
\* The new value of a cell that holds a.  (exchange is store, too, and every value that
\* sub, and, or and xor give is one that exchange gives; load changes nothing.)
NewValue(op, a, x, y) ==
  CASE op = "add" -> (a + x) % Modulus
    [] op = "exchange" -> x
    [] op = "compareExchange" -> IF a = x THEN y ELSE a

\* js_atomics_op and js_atomics_store: one atomic access, without the mutex.
Write(t, c, op, x, y) ==
  /\ pc[t] = "idle" /\ ops < MaxOps
  /\ mem' = [mem EXCEPT ![c] = NewValue(op, mem[c], x, y)]
  /\ changed' = IF mem'[c] # mem[c] THEN changed \cup {c} ELSE changed
  /\ ops' = ops + 1
  /\ UNCHANGED <<mutex, listVars, pc, waitVars, notifyVars, result, waits, ticket, tickets>>

\* js_atomics_wait up to the mutex, in a thread that may block.
WaitCall(t, c, x, withTimeout) ==
  /\ t \in Workers
  /\ pc[t] = "idle" /\ waits < MaxWaits
  /\ pc' = [pc EXCEPT ![t] = "lock"]
  /\ ptr' = [ptr EXCEPT ![t] = c]
  /\ v' = [v EXCEPT ![t] = x]
  /\ timed' = IF withTimeout THEN timed \cup {t} ELSE timed \ {t}
  /\ result' = [result EXCEPT ![t] = None]
  /\ waits' = waits + 1
  /\ UNCHANGED <<mem, mutex, listVars, notifyVars, ops, historyVars>>

\* The call returns, its locals are gone.
Leave(t) ==
  /\ pc' = [pc EXCEPT ![t] = "idle"]
  /\ ptr' = [ptr EXCEPT ![t] = None]
  /\ v' = [v EXCEPT ![t] = 0]
  /\ timed' = timed \ {t}
  /\ ticket' = [ticket EXCEPT ![t] = 0]

\* (faulty variant: the value is compared before the mutex is taken)
Compare_Unlocked(t) ==
  /\ pc[t] = "lock"
  /\ IF mem[ptr[t]] # v[t]
     THEN /\ Leave(t)
          /\ result' = [result EXCEPT ![t] = "not-equal"]
          /\ UNCHANGED tickets
     ELSE /\ pc' = [pc EXCEPT ![t] = "link"]
          /\ ticket' = [ticket EXCEPT ![t] = tickets + 1]
          /\ tickets' = tickets + 1
          /\ UNCHANGED <<waitVars, result>>
  /\ UNCHANGED <<mem, mutex, listVars, notifyVars, waits, ops, changed>>

\* With the mutex: compare the cell with the expected value.
Compare(t) ==
  /\ pc[t] = "lock" /\ mutex = {}
  /\ IF mem[ptr[t]] # v[t]
     THEN /\ Leave(t)
          /\ result' = [result EXCEPT ![t] = "not-equal"]
          /\ UNCHANGED tickets
          /\ UNCHANGED mutex
     ELSE /\ pc' = [pc EXCEPT ![t] = "link"]
          /\ mutex' = {t}
          /\ ticket' = [ticket EXCEPT ![t] = tickets + 1]
          /\ tickets' = tickets + 1
          /\ UNCHANGED <<waitVars, result>>
  /\ UNCHANGED <<mem, listVars, notifyVars, waits, ops, changed>>

\* (faulty variant: list_add puts the waiter at the head)
AddWaiter_Head(t) == <<t>> \o list

AddWaiter(t) == Append(list, t)

\* Put the waiter on the list and sleep, which lets the mutex go.
Link(t) ==
  /\ pc[t] = "link"
  /\ pc' = [pc EXCEPT ![t] = "asleep"]
  /\ list' = AddWaiter(t)
  /\ linked' = linked \cup {t}
  /\ signalled' = signalled \ {t}
  /\ mutex' = mutex \ {t}
  /\ UNCHANGED <<mem, waitVars, notifyVars, result, waits, ops, historyVars>>

\* The condition variable wakes the thread: it was signalled, the time is up, or
\* for no reason at all.  The answer is decided here, before the mutex is taken again.
Wake(t, why) ==
  /\ pc[t] = "asleep"
  /\ CASE why = "signal" -> t \in signalled
       [] why = "timeout" -> t \in timed
       [] why = "spurious" -> TRUE
  /\ pc' = [pc EXCEPT ![t] = "relock"]
  /\ result' = [result EXCEPT ![t] = IF why = "timeout" THEN "timed-out" ELSE "ok"]
  /\ UNCHANGED <<mem, mutex, listVars, waitVars, notifyVars, waits, ops, historyVars>>

\* (faulty variant: a wait that ends without a notification stays on the list)
Unlink_Never(t) == list

\* if (waiter->linked) list_del
Unlink(t) ==
  IF t \in linked THEN RemoveAt(list, CHOOSE i \in 1..Len(list) : list[i] = t) ELSE list

\* pthread_cond_wait has the mutex again: leave the list and return.
Return(t) ==
  /\ pc[t] = "relock" /\ mutex = {}
  /\ Leave(t)
  /\ list' = Unlink(t)
  /\ linked' = linked \ {t}
  /\ signalled' = signalled \ {t}
  /\ UNCHANGED <<mem, mutex, notifyVars, result, waits, ops, tickets, changed>>

\* js_atomics_notify takes the mutex and keeps it until it returns.
Notify(t, c, n) ==
  /\ pc[t] = "idle" /\ mutex = {} /\ ops < MaxOps
  /\ mutex' = {t}
  /\ pc' = [pc EXCEPT ![t] = "notify"]
  /\ ptr' = [ptr EXCEPT ![t] = c]
  /\ count' = n
  /\ ops' = ops + 1
  /\ UNCHANGED <<mem, listVars, v, timed, woken, result, waits, historyVars>>

\* The waiters for the cell of t, by their place in the list.
Places(t) == {i \in 1..Len(list) : ptr[list[i]] = ptr[t]}

\* The first of them goes from the list to waiter_list ...
TakeWaiter(t) ==
  /\ pc[t] = "notify" /\ Cardinality(woken) < count
  /\ \E i \in Places(t) :
       /\ \A j \in Places(t) : i <= j
       /\ list' = RemoveAt(list, i)
       /\ linked' = linked \ {list[i]}
       /\ woken' = woken \cup {list[i]}
  /\ UNCHANGED <<mem, mutex, signalled, pc, waitVars, count, result, waits, ops, historyVars>>

\* (faulty variant: only one of the waiters taken off the list is signalled)
Signal_One(waiters) == {u \in waiters : u = CHOOSE w \in waiters : TRUE}

Signal(waiters) == waiters

\* ... until there are enough or no more.  Those that are asleep hear the signal.
NotifyReturns(t) ==
  /\ pc[t] = "notify"
  /\ Cardinality(woken) = count \/ Places(t) = {}
  /\ signalled' = signalled \cup {u \in Signal(woken) : pc[u] = "asleep"}
  /\ woken' = {} /\ count' = 0
  /\ mutex' = mutex \ {t}
  /\ pc' = [pc EXCEPT ![t] = "idle"]
  /\ ptr' = [ptr EXCEPT ![t] = None]
  /\ changed' = IF count = Cardinality(Threads) THEN changed \ {ptr[t]} ELSE changed
  /\ UNCHANGED <<mem, list, linked, v, timed, result, waits, ops, ticket, tickets>>

\* Counts given to notify: one waiter, or (undefined) all.
Counts == {1, Cardinality(Threads)}

NotifyStep(t) == TakeWaiter(t) \/ NotifyReturns(t)
WaitStep(t) == Compare(t) \/ Link(t) \/ Wake(t, "signal") \/ Wake(t, "timeout") \/ Return(t)

Next ==
  \/ \E t \in Threads, c \in Cells, x, y \in Values :
       \/ Write(t, c, "add", x, y) /\ y = 0
       \/ Write(t, c, "exchange", x, y) /\ y = 0
       \/ Write(t, c, "compareExchange", x, y)
  \/ \E t \in Workers, c \in Cells, x \in Values, b \in BOOLEAN : WaitCall(t, c, x, b)
  \/ \E t \in Workers : WaitStep(t) \/ Wake(t, "spurious")
  \/ \E t \in Threads, c \in Cells, n \in Counts : Notify(t, c, n)
  \/ \E t \in Threads : NotifyStep(t)

\* A thread that can run does; a timeout comes; nobody has to call anything.
Fairness ==
  /\ \A t \in Workers : WF_vars(WaitStep(t))
  /\ \A t \in Threads : WF_vars(NotifyStep(t))

Spec == Init /\ [][Next]_vars /\ Fairness
-----------------------------------------------------------------------------
Asleep(t) == pc[t] = "asleep" /\ t \in linked

\* The list holds the waiters of exactly the threads that are asleep or about to
\* return, each once and with linked set, and so does the list that notify signals: no
\* pointer into the stack of a call that has returned, no list_del of a waiter that
\* notify has already moved, no signal to a condition variable that is gone.
WaitersOnStack ==
  /\ IsInjective(list) /\ Range(list) = linked
  /\ woken \cap linked = {}
  /\ \A t \in linked \cup woken : pc[t] \in {"asleep", "relock"}

\* No wake-up is lost: a thread asleep although its cell no longer has the value it
\* waits for is owed a notification of all waiters by someone who has written the
\* cell and not yet notified since.  (A store comes between the comparison and the
\* sleep, but no notification does.)
NoLostWakeup ==
  \A t \in Workers : Asleep(t) /\ mem[ptr[t]] # v[t] => ptr[t] \in changed

\* notify takes the oldest waiters of its cell and no other's: whoever stays on the
\* list when it returns came after all those it has taken, and waiters stay only when
\* as many as asked for were taken.
TakesOldest ==
  \A t \in Threads :
    pc[t] = "notify" /\ pc'[t] # "notify" =>
      /\ \A u \in woken : ptr[u] = ptr[t]
      /\ \A w \in linked' : ptr[w] = ptr[t] =>
           Cardinality(woken) = count /\ \A u \in woken : ticket[u] < ticket[w]
OldestFirst == [][TakesOldest]_vars

\* A waiter that notify has taken off the list returns: its signal is sent, and the
\* mutex it needs is free again and again.
NotifiedReturns ==
  \A t \in Workers : pc[t] = "asleep" /\ t \notin linked ~> pc[t] = "idle"
-----------------------------------------------------------------------------
(***************************************************************************)
(* The inductive invariant behind the safety properties.                   *)
(***************************************************************************)
TypeOK ==
  /\ mem \in [Cells -> Values]
  /\ mutex \subseteq Threads
  /\ list \in Seq(Workers) /\ linked \subseteq Workers /\ signalled \subseteq Workers
  /\ pc \in [Threads -> {"idle", "lock", "link", "asleep", "relock", "notify"}]
  /\ ptr \in [Threads -> Cells \cup {None}] /\ v \in [Threads -> Values]
  /\ timed \subseteq Workers
  /\ count \in Nat /\ woken \subseteq Workers
  /\ result \in [Threads -> {None, "not-equal", "ok", "timed-out"}]
  /\ waits \in Nat /\ ops \in Nat
  /\ ticket \in [Threads -> Nat] /\ tickets \in Nat
  /\ changed \subseteq Cells

\* The mutex is held between the comparison and the sleep and by notify, by nobody else.
MutexInv ==
  /\ \A t \in Threads : t \in mutex <=> pc[t] \in {"link", "notify"}
  /\ \A t, u \in mutex : t = u

\* Where the arguments of a call are set.
ArgsInv ==
  /\ \A t \in Threads : pc[t] # "idle" => ptr[t] \in Cells
  /\ pc[Main] \in {"idle", "notify"}

\* The list is in the order of the tickets, and the next one is larger still.
TicketInv ==
  /\ \A t \in Threads : ticket[t] <= tickets
  /\ \A i, j \in 1..Len(list) : i < j => ticket[list[i]] < ticket[list[j]]
  /\ \A t \in Threads : pc[t] = "link" => \A u \in linked : ticket[u] < ticket[t]

\* notify, while it runs, has taken waiters of its cell that came before those it left.
NotifyInv ==
  /\ (\A t \in Threads : pc[t] # "notify") => woken = {}
  /\ \A t \in Threads : pc[t] = "notify" =>
       /\ Cardinality(woken) <= count
       /\ \A u \in woken : ptr[u] = ptr[t]
       /\ \A u \in woken, w \in linked : ptr[w] = ptr[t] => ticket[u] < ticket[w]

\* A thread that is about to sleep, or on the list, has seen the value it waits for,
\* or the cell has changed since.
SeenInv ==
  \A t \in Workers :
    pc[t] = "link" \/ t \in linked => mem[ptr[t]] = v[t] \/ ptr[t] \in changed

IInv ==
  TypeOK /\ WaitersOnStack /\ MutexInv /\ ArgsInv /\ TicketInv /\ NotifyInv /\ SeenInv
=============================================================================
