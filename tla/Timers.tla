------------------------------- MODULE Timers -------------------------------
(***************************************************************************)
(* Timers: the os.setTimeout/clearTimeout/sleepAsync primitives over the   *)
(* list ts->os_timers, the timer branch of js_os_poll, and the JavaScript  *)
(* globals that qnode.c builds from them (setInterval is a chain of        *)
(* one-shot timers; setImmediate is a timer of delay 0).                   *)
(*                                                                         *)
(* Time is relative: an entry keeps the milliseconds left until            *)
(* th->timeout, never below 0, because the code only tests whether         *)
(* th->timeout - cur_time <= 0.                                            *)
(***************************************************************************)
EXTENDS Integers, Sequences, SequencesExt, FiniteSets

CONSTANTS
  Timeouts,     \* variables of the program that hold a setTimeout/setImmediate id
  Intervals,    \* objects { _id, _active } that setInterval returns
  Sleeps,       \* promises that os.sleepAsync returns
  Script,       \* the main script, which runs before the event loop
  Idle,         \* no JavaScript is running: control is in js_std_loop
  MaxId,        \* the largest timer id (INT32_MAX in the code)
  MaxDelay      \* bound: the longest delay a program asks for

Owners == Timeouts \cup Intervals \cup Sleeps

ASSUME TimersAssumption ==
  /\ MaxId \in Nat \ {0} /\ MaxDelay \in Nat
  /\ Script \notin Owners /\ Idle \notin Owners /\ Script # Idle
  /\ Timeouts \cap Intervals = {} /\ Timeouts \cap Sleeps = {}
  /\ Intervals \cap Sleeps = {}

VARIABLES
  osTimers,     \* ts->os_timers: a sequence of [id, left, own]
  nextId,       \* ts->next_timer_id
  ref,          \* ref[x]: the id JavaScript holds for x (h._id for an interval)
  active,       \* active[h]: h._active
  period,       \* period[h]: the ms of interval h
  run,          \* whose callback is running
  armed,        \* history: x was set, and neither fired nor was cleared since
  threw,        \* history: the last callback of h threw
  age           \* history: timers set since ref[x] was (at most MaxId)

timerVars == <<osTimers, nextId, ref, active, period, run, armed, threw, age>>

Timer == [id : Int, left : Nat, own : Owners]
Delays == 0..MaxDelay

TimersInit ==
  /\ osTimers = <<>>
  /\ nextId = 1
  /\ ref = [x \in Owners |-> 0]
  /\ active = [h \in Intervals |-> FALSE]
  /\ period = [h \in Intervals |-> 0]
  /\ run = Script
  /\ armed = [x \in Owners |-> FALSE]
  /\ threw = [h \in Intervals |-> FALSE]
  /\ age = [x \in Owners |-> 0]
-----------------------------------------------------------------------------
(***************************************************************************)
(* Ids wrap after MaxId without a look at the timers still in the list.    *)
(* The bound of the model: programs are done with a handle before MaxId - 1 *)
(* more timers have been set (2^31 - 2 in the code).                       *)
(***************************************************************************)
WindowOpen == \A x \in Owners \ Sleeps : armed[x] => age[x] < MaxId - 1
InWindow(x) == age[x] < MaxId

\* The id after ts->next_timer_id.
NextTimerId == IF nextId = MaxId THEN 1 ELSE nextId + 1

\* (faulty variant: list_add instead of list_add_tail)
AddTimer_AtHead(t) == <<t>> \o osTimers

AddTimer(t) == Append(osTimers, t)

\* js_os_setTimeout
NewTimer(x, d) ==
  /\ WindowOpen
  /\ osTimers' = AddTimer([id |-> nextId, left |-> d, own |-> x])
  /\ nextId' = NextTimerId
  /\ ref' = [ref EXCEPT ![x] = nextId]
  /\ armed' = [armed EXCEPT ![x] = TRUE]
  /\ age' = [y \in Owners |-> IF y = x THEN 0
                              ELSE IF age[y] < MaxId THEN age[y] + 1 ELSE age[y]]

\* (faulty variant: ids that are not positive are looked up, too)
FoundById_AnyId(id) ==
  {i \in 1..Len(osTimers) : /\ osTimers[i].id = id
                            /\ \A j \in 1..(i - 1) : osTimers[j].id # id}

\* find_timer_by_id: the place of the first entry with this id, if any.
FoundById(id) ==
  {i \in 1..Len(osTimers) : /\ id > 0 /\ osTimers[i].id = id
                            /\ \A j \in 1..(i - 1) : osTimers[j].id # id}

\* js_os_clearTimeout
ClearId(id) ==
  \/ \E i \in FoundById(id) : osTimers' = RemoveAt(osTimers, i)
  \/ FoundById(id) = {} /\ UNCHANGED osTimers

\* Some JavaScript is on the stack.
InScript == run # Idle

\* globalThis.setTimeout (any delay) and globalThis.setImmediate (delay 0)
SetTimeout(x, d) ==
  /\ InScript /\ ~ armed[x]
  /\ NewTimer(x, d)
  /\ UNCHANGED <<active, period, run, threw>>

\* globalThis.clearTimeout / clearImmediate, also on the id of a fired timer
ClearTimeout(x) ==
  /\ InScript /\ InWindow(x)
  /\ ClearId(ref[x])
  /\ armed' = [armed EXCEPT ![x] = FALSE]
  /\ UNCHANGED <<nextId, ref, active, period, run, threw, age>>

\* clearTimeout of something that is no timer id: undefined and objects (such as
\* the one setInterval returns) convert to 0, and -1 is the id of the entries that sleepAsync makes.
ClearNoTimer(id) ==
  /\ InScript
  /\ ClearId(id)
  /\ UNCHANGED <<nextId, ref, active, period, run, armed, threw, age>>

\* globalThis.setInterval: a new object h (no tick of it is pending or running)
SetInterval(h, d) ==
  /\ InScript /\ ~ active[h] /\ run # h
  /\ NewTimer(h, d)
  /\ active' = [active EXCEPT ![h] = TRUE]
  /\ period' = [period EXCEPT ![h] = d]
  /\ threw' = [threw EXCEPT ![h] = FALSE]
  /\ UNCHANGED run

\* globalThis.clearInterval
ClearInterval(h) ==
  /\ InScript /\ InWindow(h)
  /\ active' = [active EXCEPT ![h] = FALSE]
  /\ ClearId(ref[h])
  /\ armed' = [armed EXCEPT ![h] = FALSE]
  /\ UNCHANGED <<nextId, ref, period, run, threw, age>>

\* js_os_sleepAsync: an entry of id -1, no id is used up
SleepAsync(x, d) ==
  /\ InScript /\ ~ armed[x]
  /\ osTimers' = AddTimer([id |-> -1, left |-> d, own |-> x])
  /\ armed' = [armed EXCEPT ![x] = TRUE]
  /\ UNCHANGED <<nextId, ref, active, period, run, threw, age>>

\* js_os_poll: the first expired entry of the list is freed, then called.  The
\* tick of an inactive interval returns at once.
Fire ==
  /\ run = Idle
  /\ \E i \in 1..Len(osTimers) :
       LET x == osTimers[i].own IN
       /\ osTimers[i].left = 0
       /\ \A j \in 1..(i - 1) : osTimers[j].left > 0
       /\ osTimers' = RemoveAt(osTimers, i)
       /\ armed' = [armed EXCEPT ![x] = FALSE]
       /\ run' = IF x \in Intervals /\ ~ active[x] THEN Idle ELSE x
  /\ UNCHANGED <<nextId, ref, active, period, threw, age>>

\* The script, a one-shot callback, or the tick of a cleared interval ends.
EndCallback ==
  /\ InScript
  /\ run \in Intervals => ~ active[run]
  /\ run' = Idle
  /\ UNCHANGED <<osTimers, nextId, ref, active, period, armed, threw, age>>

\* (faulty variant: h._id keeps the id of the timer that fired)
EndTick_KeepId ==
  /\ run \in Intervals /\ active[run]
  /\ WindowOpen
  /\ osTimers' = AddTimer([id |-> nextId, left |-> period[run], own |-> run])
  /\ nextId' = NextTimerId
  /\ armed' = [armed EXCEPT ![run] = TRUE]
  /\ run' = Idle
  /\ UNCHANGED <<ref, active, period, threw, age>>

\* The callback of an active interval returns: the tick sets the next timer.
EndTick ==
  /\ run \in Intervals /\ active[run]
  /\ NewTimer(run, period[run])
  /\ run' = Idle
  /\ UNCHANGED <<active, period, threw>>

\* It throws instead: call_handler dumps the error, and no timer is set.
ThrowTick ==
  /\ run \in Intervals /\ active[run]
  /\ threw' = [threw EXCEPT ![run] = TRUE]
  /\ run' = Idle
  /\ UNCHANGED <<osTimers, nextId, ref, active, period, armed, age>>

\* A millisecond passes.
Tick ==
  /\ \E i \in 1..Len(osTimers) : osTimers[i].left > 0
  /\ osTimers' = [i \in 1..Len(osTimers) |->
                  [osTimers[i] EXCEPT !.left = IF @ > 0 THEN @ - 1 ELSE 0]]
  /\ UNCHANGED <<nextId, ref, active, period, run, armed, threw, age>>

TimersProgram ==
  \/ \E x \in Timeouts : (\E d \in Delays : SetTimeout(x, d)) \/ ClearTimeout(x)
  \/ \E id \in {-1, 0} : ClearNoTimer(id)
  \/ \E h \in Intervals : \/ \E d \in Delays : SetInterval(h, d)
                          \/ ClearInterval(h)
  \/ \E x \in Sleeps, d \in Delays : SleepAsync(x, d)

Return == EndCallback \/ EndTick \/ ThrowTick

TimersNext == TimersProgram \/ Fire \/ Return \/ Tick

TimersSpec == TimersInit /\ [][TimersNext]_timerVars

\* Callbacks return, and js_std_loop keeps polling.
TimersFairSpec == TimersSpec /\ WF_timerVars(Fire) /\ WF_timerVars(Return)
-----------------------------------------------------------------------------
Listed(x) == \E i \in 1..Len(osTimers) : osTimers[i].own = x

TimersTypeOK ==
  /\ osTimers \in Seq(Timer)
  /\ nextId \in 1..MaxId
  /\ ref \in [Owners -> 0..MaxId]
  /\ active \in [Intervals -> BOOLEAN]
  /\ period \in [Intervals -> Delays]
  /\ run \in Owners \cup {Script, Idle}
  /\ armed \in [Owners -> BOOLEAN]
  /\ threw \in [Intervals -> BOOLEAN]
  /\ age \in [Owners -> 0..MaxId]

\* What the program set and neither saw fire nor cleared is in the list, once;
\* nothing else is, and no two entries share an id (ids are given out in a cycle).
\* So clearing a stale id, 0 or -1 never hits another timer.
ArmedIffListed ==
  /\ TimersTypeOK
  /\ \A x \in Owners : armed[x] <=> Listed(x)
  /\ \A i, j \in 1..Len(osTimers) :
       i # j => /\ osTimers[i].own # osTimers[j].own
                /\ osTimers[i].id > 0 => osTimers[i].id # osTimers[j].id

\* An interval that was not cleared keeps going: outside its callback it has a
\* pending timer, unless the callback threw.  A cleared one leaves no timer.
IntervalKeepsGoing ==
  \A h \in Intervals :
    IF active[h] THEN run = h \/ threw[h] \/ Listed(h) ELSE ~ Listed(h)

\* Timers fire in the order they were set in, as far as their times allow: when
\* the event loop takes a timer, every timer set before it is not yet due.
TakesOldest ==
  \A y \in Timeouts \cup Intervals :
    run = Idle /\ armed[y] /\ ~ armed'[y] =>
      \A i \in 1..Len(osTimers) :
        osTimers[i].own \notin Sleeps /\ age[osTimers[i].own] > age[y] => osTimers[i].left > 0
OldestDueFirst == [][TakesOldest]_timerVars

\* An expired timer leaves the list (it fires or is cleared) however often the
\* others re-arm themselves with delay 0: new timers queue up behind it.
Expired(x) == \E i \in 1..Len(osTimers) : osTimers[i].own = x /\ osTimers[i].left = 0
ExpiredTimersFire == \A x \in Owners : Expired(x) ~> ~ Listed(x)
-----------------------------------------------------------------------------
(***************************************************************************)
(* The inductive invariant behind the safety properties.                   *)
(***************************************************************************)
Handles == Timeouts \cup Intervals

\* The ids that JavaScript holds were given out age[x] + 1 calls of js_os_setTimeout
\* ago, no two of them at the same time.
IdInv ==
  /\ \A x \in Handles : ref[x] # 0 /\ age[x] < MaxId =>
       ref[x] = IF age[x] + 1 < nextId THEN nextId - age[x] - 1
                                       ELSE nextId - age[x] - 1 + MaxId
  /\ \A x, y \in Handles : ref[x] # 0 /\ ref[y] # 0 /\ x # y /\ age[x] = age[y] =>
       age[x] = MaxId
  /\ \A x \in Handles : armed[x] => ref[x] # 0 /\ age[x] < MaxId

\* The list: one entry for each armed timer, with the id that JavaScript holds, the
\* oldest first.
ListInv ==
  /\ \A x \in Owners : armed[x] <=> Listed(x)
  /\ \A i \in 1..Len(osTimers) :
       osTimers[i].id = IF osTimers[i].own \in Sleeps THEN -1 ELSE ref[osTimers[i].own]
  /\ \A i, j \in 1..Len(osTimers) : i < j =>
       /\ osTimers[i].own # osTimers[j].own
       /\ osTimers[i].own \in Handles /\ osTimers[j].own \in Handles =>
            age[osTimers[i].own] > age[osTimers[j].own]

\* An interval has no timer while its callback runs.
TickInv ==
  /\ run \in Intervals => ~ armed[run]
  /\ \A h \in Intervals : IF active[h] THEN run = h \/ threw[h] \/ armed[h]
                                        ELSE ~ armed[h]

TimersIInv == TimersTypeOK /\ IdInv /\ ListInv /\ TickInv
=============================================================================
