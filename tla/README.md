# QNode: TLA+ models, checks and proofs

QNode is a small Node-like runtime: the QuickJS engine, an event loop and a
standard library written in C, with JavaScript fragments embedded in the C
files. This directory holds TLA+ models of the parts where order matters: the
worker threads, their message pipes and shared memory, the timers, the event loop
with its promise jobs and signals, the evaluation of modules, reference counting
and the garbage collector, the file system API, Buffers, and the two ways of
running a child process. TLC checks them on small instances, and TLAPS proves the
safety properties of all of them but the evaluation of modules for every value of
their constants: any number of workers, messages, timers, promises, waiters, objects,
bytes, chunks of output, calls and descriptors.

Paths below are relative to the repository: `src/lib/quickjs-libc.c` is called
*libc*, `src/core/quickjs.c` *engine*, `src/qnode.c` *qnode*,
`src/lib/child_process.c` *child_process*. `PROJECT.json` maps every definition to
the lines that it models.

## 1. The system

| part | state | operations | talks to |
|---|---|---|---|
| Worker threads and message pipes (libc, `USE_WORKER`) | per pipe: queue, mutex, waker (a pipe with at most one byte), reference count; per thread: list of ports | `new Worker`, `postMessage`, `onmessage =`, `handle_posted_message` | event loop (a port is a source of `js_os_poll`), other threads |
| Ownership (libc) | reference counts of pipes and SharedArrayBuffers | dup and free in constructor, finalizer, ports, messages, thread end | workers, garbage collector |
| Atomics (engine) | one list of waiters for all threads, a mutex, a condition variable per waiter | `wait`, `notify`, atomic writes | workers |
| Timers (libc, qnode, timers.c) | `os_timers`, `next_timer_id`; interval objects `{_id, _active}` | `setTimeout`, `setInterval`, `setImmediate`, their `clear` functions, `sleepAsync`, firing | event loop |
| Event loop (libc, qnode) | job queue, list of rejected promises, handlers of descriptors, ports, phase (script, `js_std_await`, `js_std_loop`) | run a job, check rejections, poll: one signal, one timer or one handler | all the others |
| Signals (libc) | `os_pending_signals`, list of handlers | `os.signal`, the C handler, first branch of `js_os_poll` on Unix, end of `std.evalScript` | event loop |
| Module evaluation (engine) | per module: status, cycle root, what it waits for, who waits for it, promise | `js_evaluate_module`, the jobs of modules with a top-level await | event loop (jobs) |
| Memory (engine) | reference counts, lists of objects, weak references | dup, free, `JS_RunGC`, `WeakRef`, `WeakMap`, `FinalizationRegistry` | everything |
| child_process, asynchronous | `ChildProcess` object: descriptors, `_exited`, a chain of 10 ms timers | spawn, poll, drain, exit, close, `kill`, `stdin.end` | timers, the child |
| child_process, synchronous | pipes, buffers | `spawnSync`, `execSync`, `execFileSync` | the child |
| fs, fs/promises (fs.c) | `FileHandle` objects; the file system, shared with other threads | `mkdir`, `rm`, `writeFile`, `appendFile`, `copyFile`, `open`, ... | the kernel, other threads |
| buffer (buffer.c) | views of shared ArrayBuffers | creation, slices, writes, copies, encodings | - |
| process, std, module loader, REPL, command line, qjsc | - | sequential | engine |
| the language itself (`src/core`, `src/deps`) | - | parser, interpreter, built-in objects | - |

`USE_WORKER` is defined in libc:68 whatever the CMake option of that name says,
so workers are always there.

What is hard in it, and what correctness means:

* **Pipes.** A sender signals the waker only if the queue was empty, a receiver
  clears it only if the queue became empty, and `select()` looks at the waker
  without the mutex. Correct: a waker is readable exactly while there is a
  message, messages arrive once and in order, none is left behind a sleeping
  thread.
* **Ownership.** Two threads drop the references of one pipe in any order, the
  constructor may fail half-way, messages hold references to shared buffers.
  Correct: freed exactly when the last reference goes.
* **Atomics.** Cells are written without the mutex that guards the waiters, and a
  waiter lives on the C stack of a call that may time out while it is notified.
  Correct: no wake-up lost, no waiter on the list after its call, oldest first.
* **Timers.** Ids wrap; an interval re-arms itself in its own callback, which may
  clear it, or throw. Correct: clearing never hits another timer, an interval
  neither dies nor survives `clearInterval`, timers fire in order and none
  starves.
* **Event loop.** A promise may be rejected first and handled by a later job, a
  signal may come at any instruction and on any thread, and the word of pending
  signals is updated by plain `|=` and `&=`. Correct: jobs come first, a rejection is
  reported if and only if nobody handled it, the program ends only when nothing can
  call it again, and a signal's bit is set as long as the signal is owed its handler,
  whatever the updates for other signals do.
* **Modules.** Cycles of imports, some with a top-level await, an error in the middle
  of the walk or in a later job, a second evaluation before the first is done.
  Correct: dependencies run first and once, every promise is settled truthfully, the
  `assert()`s of the engine hold.
* **Memory.** Cycles that contain weak references to each other, holders and targets
  that go in the same cascade, finalization callbacks. Correct: exactly the garbage
  goes, nothing is used after it was freed.
* **Files.** Each call is several system calls, and other threads come in between.
  A close that fails leaves its number in the `FileHandle`. Correct: appended data is
  kept, exclusive creation is exclusive, descriptors are neither leaked nor shared.
* **Buffers.** Several share memory; ranges are computed from arguments before the
  start and beyond the end, in `copy` with unsigned arithmetic that nobody checks.
  Correct: an operation writes to its own Buffer only, an encoding can be undone.
* **Children.** The child writes, reads and exits at any moment between two steps
  of the parent; it may fail to start, and have streams without a pipe. Correct: one
  callback with the right status, all the output, no descriptor closed twice or left
  open, no deadlock.

## 2. Modules

| module | models | composes |
|---|---|---|
| `FifoChannel` | abstract specification: what a pipe promises to JavaScript | |
| `WorkerPipe` | pipes, wakers, mutexes, ports, the threads that use them | implements `FifoChannel` |
| `WorkerLifecycle` | reference counts of pipes and shared buffers | |
| `Atomics` | `Atomics.wait`, `notify` and the atomic writes | |
| `Timers` | the timer list and the JavaScript globals on top of it | |
| `EventLoop` | script, `js_std_await`, `js_std_loop`, `js_os_poll`, rejections, signals | |
| `ModuleEval` | `js_evaluate_module` and the jobs it leaves behind | |
| `Heap` | reference counts, cycle collector, weak references | |
| `ChildProcess` | `exec`, `execFile`, the `ChildProcess` object, and the child | |
| `SpawnSync` | `spawnSync` on Windows and on Unix, and the child | |
| `FileSystem` | the calls of `fs` as sequences of system calls, and `FileHandle` | |
| `Buffer` | Buffers that share memory, and their encodings | |
| `MCModuleEval`, `MCHeap`, `MCFileSystem`, `MCBuffer` | constants of the instances for TLC | extend the above |
| `WorkerPipeProofs`, `WorkerLifecycleProofs`, `AtomicsProofs`, `ChildProcessProofs`, `SpawnSyncProofs`, `FileSystemProofs` | theorems about the module of that name | extend it |
| `EventLoopProofs` | theorems about `EventLoop` and `Timers`, each on its own | extends both |
| `MemoryProofs` | theorems about `Heap` and `Buffer`, each on its own | extends both |

Where two modules share a proofs module, one of them names its specification after
itself (`TimersSpec`, `BufferSpec` and so on) so that the names differ.

Definitions named `X_Something` and marked "faulty variant" are small mutations of
`X`. They are not part of any specification; they record which mistake each
property would detect.

### WorkerPipe
One action per step that another thread can see. `postMessage` is `PostLock`,
`PostSignal`, `PostAppend`; `handle_posted_message` is `RecvLock`, `RecvPop`,
`RecvClear`, and then `Deliver` or `Unreadable` (`JS_ReadObject` throws). `Poll` and
`Select` are the event loop reduced to ports: `Select` reads wakers without a
mutex, as `select()` does. A message is its number. `Main` leaving its loop ends
the process. The else branch of `handle_posted_message` (empty queue) has no
action: `ServesAMessage` says that it is never reached. Worker objects are not
collected here; `WorkerLifecycle` covers that.

### WorkerLifecycle
One worker with its two pipes and one SharedArrayBuffer. `held[p]` is the set of
pointers to pipe `p`, `refs[p]` the counter; every decrement is an action of its
own (`DropRef`), so two threads interleave between them. `CtorFails` can happen
after each allocation. `WorkerEnds` drops the references of `Worker.parent` before
or after those of the thread state, since the object may go with the context or
only with the runtime. The garbage collector may finalize the Worker at any
allocation of the main thread, also inside `JS_ReadObject`.

### Atomics
`js_atomics_wait` is cut where it gives up the mutex and where the unlocked cells are
read: `WaitCall`, `Compare`, `Link`, `Wake`, `Return`. `linked` and `signalled` are
the fields of the waiter and of its condition variable. `js_atomics_notify` is `Notify`
(takes the mutex), one `TakeWaiter` for each waiter that it moves to its own
`waiter_list` (`woken`), and `NotifyReturns` (signals them, gives the mutex up): stores,
and waiters that wake up by themselves, come in between. `Modulus` is the number of
values of a cell. A condition variable may wake
up for no reason; the code does not test for it, so such a wait returns "ok". A
timeout may come between `notify` and the return, so a waiter that `notify` counted
may return "timed-out". Both are in the model; neither breaks a property below.

### Timers
`timers` is the list, with the time left of each entry. `ref[x]` is the id that
the program holds, which may be stale; `armed`, `threw`, `age` are history. Callbacks
nest nothing: `run` says whose callback runs. Programs are assumed to be done with the
handle of a timeout or an interval before `MaxId - 1` more timers have been set
(`WindowOpen`; the distance is 2^31 - 2 in the code). A sleep has no id and may be
older.

### EventLoop
`pc` walks through `js_std_loop`/`js_std_await`: `turn` (jobs), `check`
(rejections), `poll`, `scan`, `unmask` and `call` (signals), `sources`, `select`, and `js`
while JavaScript runs (`clear` is the end of `evalScript`). Running JavaScript may do
anything the API offers, any number of
times (`Program`). A job may throw: `JS_ExecutePendingJob` then returns -1, for
example when a resolve function supplied by the program throws. Which descriptor or
port is ready is the environment's choice. The Windows `js_os_poll` calls stdin's
handler first, waits for fewer things and does not look at signals; each of its steps is
a step of this module.

`os_pending_signals` is a plain `uint64_t` that three places update: the C handler with
`|=`, on whatever thread the signal is delivered to, `js_os_poll` and the end of
`std.evalScript` with `&= ~mask`. Each update is two steps: a read, which `update` keeps,
and a store of what was read with one bit changed (`SignalReads` and `SignalStores`;
`ReadMask` and `CallSignal`; `EvalScript` and `ClearSigint`). `Activations` are the runs of
the handler that can be under way at once. `js_os_poll` looks for its signal entry by
entry (`ScanSignals`, `NextSignal`, `FindSignal`), and bits may come and go meanwhile.

So two updates that overlap can undo each other: a signal is lost, or a bit is set
again after it was served. The model contains this. `owed` is a history variable: has the
signal come and not been served since ("yes", "no")? An update that overlaps another makes
it "unknown" for the signals *of the updates that overlap*, until the next update of that
signal that overlaps none. `SignalsKept` says that in all other cases the bit is the truth:
an update carries the bits of other signals along in the word that it stores, and those
must be neither lost nor made up, which is not obvious, as the store writes back all of
what was read earlier.

A signal that finds the thread in
`select()` interrupts it; one between the test and `select()`, or delivered to another
thread, waits for the next wake-up. `os.signal(n, null)` leaves the pending bit, so a
handler set later is called for an earlier signal. Signals go before timers, and the
first handler of the list before the others; `EventsServed` says under which premise
none starves.

### ModuleEval
The recursion of `js_inner_module_evaluation` is cut into calls and returns, with the C
stack in `calls`. `body[m]` is what the module's own code does; an asynchronous one
returns or throws in a later step. `gather_available_ancestors`, the sorted
`exec_list` and the recursive rejection are operators over the state. Modules are
linked at the start; allocation does not fail.

### Heap
The header of every object (`heap.rc`, `weak`, `mark`) and the lists `gc_obj_list`,
`gc_zero_ref_count_list` and `tmp_obj_list`, in order. `Drain` is
`free_zero_refcount`; `RunGC` to `Resume` are the passes of `JS_RunGC`, one step per
object. A weak holder has one entry. `heap.faults` collects structures used after
they were freed. The value of a `WeakMap` entry counts as held by the map, as in
`js_map_mark`, so a value that refers to its own key keeps the entry as long as the
map lives: the code does so, and `Reachable` is defined accordingly, as the least set
that contains what variables and queued callbacks refer to and is closed under strong
references.

### FileSystem
A call is a record in `call[t]` and `pc[t]` its next system call. The kernel is
external: a tree, a table of descriptors that all threads share (the lowest free number
is given out), atomic `mkdir`, `write`, `rename`. A file is a sequence of blocks marked
with the call that wrote them, so that a lost or doubled block shows.

`HandleClose` may fail: then the promise is rejected and `_fd` keeps its number
(fs.c:1096), although the kernel has freed the descriptor (as Linux, the BSDs and macOS
do). The handle is `stale` from then on: its next use fails with `EBADF`, or reaches the
file that has got the number since. The second case sets the history variable `astray`,
and from then on anything can happen to that file, which is what the code does;
`DescriptorsOwned` and `AppendsKept` say that nothing of the kind happens before.

### Buffer
`views` are the Buffers, `mem` the ArrayBuffers behind them. The ranges are computed
from the arguments as the code does it, including `slice(start)` without an end, where
line 602 of buffer.c tests the wrong argument and ignores `start`. `Buffer.from` of an
ArrayBuffer (`FromArrayBuffer`) and `subarray` share memory, everything else copies.

`Copy` has no guard, as in the code: it computes its length in a `size_t` (`Wrap`, modulo
`SizeMod`), and tests neither whether the target position lies beyond the target nor
whether the source range is reversed. If what comes out fits in the target, it is stored,
with what lies behind the memory of the source (`junk`) if it reads so far; reading there
may also kill the process, and so does a length close to 2^64, which fits in no target
(`fault = "misplaced"`). `Isolation` covers all this: no other
operation may end that way (`"other"`), and a copy that survives has changed
bytes of its target only.

The decoders of hex and base64 ask `js_malloc` for 0 bytes when the text is empty, which
`assert(size != 0)` forbids (engine:1741). `zero` says whether that is allowed, because
assertions are compiled out and `malloc(0)` returns a block; if not, decoding fails.

### ChildProcess
The child writes chunks and exits by itself; the parent runs the constructor, the
polls, and the user's `kill` and `stdin.end`. `attached` separates the
constructor's poll from what `execFile` can hear. `piped` are the streams that have a
pipe: with `stdio: 'ignore'` there is no `cp.stdout` or `cp.stderr`, and `execFile` throws
in the middle of attaching its listeners, with the child and the poll timers running
(`ListensTo`, `Returned`). `SpawnFails` leaves behind what `create_process` does when it
returns -1 (child_process:413, with the parent's ends open; child_process:443, with both
ends): `leaked`.

### SpawnSync
The child decides on a system call and then blocks in it or not: that is what makes
deadlocks visible. `platform` is fixed by the initial state.

## 3. Runs

| run | shows | bounds | states |
|---|---|---|---|
| `worker_pipe` | `WakerMatchesQueue`, `ServesAMessage`, `ChannelSpec` (refinement of `FifoChannel`), `Delivery` | 1 worker (2 pipes), 2 messages per pipe: enough for empty/non-empty transitions at both ends to overlap; the proofs cover all sizes | 9 thousand |
| `worker_lifecycle` | `FreedWithLastOwner`, `CountsOwners` | 2 messages, 2 buffer objects per thread: a queue can be non-empty when freed, and a buffer can have references of every kind at once | 63 thousand |
| `atomics` | `WaitersOnStack`, `NoLostWakeup`, `OldestFirst`, `NotifiedReturns` | 2 workers and the main thread, 2 cells of 2 values (`Modulus`), 3 waits, 3 writes or notifications: two waiters on one cell or on two, and one that waits again | 778 thousand |
| `timers` | `ArmedIffListed`, `IntervalKeepsGoing`, `OldestDueFirst`, `ExpiredTimersFire` | 2 timeouts, 1 interval, 1 sleep, ids 1..4 (they wrap), delays 0..1 | 296 thousand |
| `event_loop` | `TypeOK`, `JobsFirst`, `TrackedAreUnhandled`, `ReportedIffUnhandled`, `EndsWhenIdle`, `SignalsKept`, `EventsServed` | `Programs`: one with a promise (besides the module's), 2 timers, a descriptor and a port, one with a promise, a timer and a signal, one with 2 signals; 3 sources set at once (`MaxSources`), 2 handlers under way at once (`Activations`) beside the main thread: all pairs of updates overlap, and three; 1 pending job (`MaxJobs`): a job can queue the next one; the proofs cover any number of each | 521 thousand |
| `module_eval` | `EngineAsserts`, `DependenciesFirst`, `PromisesSettled` | import graphs of 3 modules with every set of imports, diamonds of 4 with and without cycles, any of them asynchronous, any body may throw, 2 evaluations | 681 thousand |
| `heap` | `NoUseAfterFree`, `CountsExact`, `CollectsExactlyGarbage`, `EntriesOutliveKeys` | 3 objects, 2 of them possibly weak holders (interchangeable: symmetry), 1 queued callback: cycles of two holders and a plain object | 2.0 million |
| `child_process` | `ReadBeforeClose`, `CalledOnceWithStatus`, `ResourcesOnce`, `CallbackWhenRunning` | 3 chunks per stream over a pipe that holds 2: the child can block; every set of ignored streams | 30 thousand |
| `exec_reports` | violation, see section 6 | 1 chunk | |
| `spawn_sync` | `OutputComplete` on both systems; `StatusOnWindows`, `ReturnsOnWindows` | up to 4 units of output, a pipe that holds 2, `maxBuffer` 3: output fits, exceeds the pipe, exceeds `maxBuffer`; input of up to a full pipe | 70 thousand |
| `file_system` | `AppendsKept`, `OneCreator`, `DescriptorsOwned` | 2 threads (symmetric), 3 calls, a directory with an entry, 3 inodes and descriptors, 2 blocks per call: two calls overlap and a third uses what they left; closes of handles, failing ones included, are not counted | 1.2 million |
| `buffer` | `RoundTrip`, `Isolation` | first buffer of up to 4 bytes (every length modulo 3), 3 buffers, 2 operations, offsets -1, 1, 3, 5 (before the start, inside, beyond the end), at most 24 bytes in an ArrayBuffer and a `size_t` of 64 values (so that a sum of two sizes does not wrap and a negative difference does, as with 2^31 and 2^64) | 184 thousand |

Deadlock checking is on for `heap`, where the engine can always go on; elsewhere it is
off, since the programs may end, and an idle thread may sleep for ever.

### Fairness
* `WorkerPipe`: weak fairness of each thread's own steps. A preemptive scheduler
  runs every thread; a mutex is held for a few instructions. User code is assumed
  to return to the loop.
* `Atomics`: weak fairness of the steps of a wait or a notification under way
  (`WaitStep`, `NotifyStep`). A thread that can run does, and the loops of `notify`
  block on nothing; a timeout comes; nobody is obliged to call `notify`.
* `Timers`: `Fire` and the return of callbacks. `js_std_loop` polls again and again.
* `EventLoop`: the loop's own steps, and `select()` returning when the time is
  up. `EventsServed` has the premises that the program does not queue jobs for
  ever, and that signals do not come without end: such programs do starve their
  timers, by the order of the branches of `js_os_poll`.
* `ChildProcess`: the parent's steps, and the child exits at some time.
* `SpawnSync`: both processes run; strong fairness of the child's decisions to
  write and to exit says that it does not read for ever.

## 4. Proofs

All the theorems have the form `Spec => []Inv` or `Spec => [][A]_vars`, for every value
of the constants that satisfies the named `ASSUME` of the component's module. Those
say that bounds are natural numbers, that sets which stand for different things are
disjoint, and that what is counted is finite; the bounds are arbitrary, so a theorem
holds however many calls, messages or jobs there are. Most properties are not inductive:
each module ends with the parts of its inductive invariant `IInv` (`TimersIInv` in
`Timers`, `HeapInv` in `Heap`; that of `Buffer` is short and is in `MemoryProofs`), and
its proofs module shows `Init => IInv`, one lemma per action (or kind of action) for
`IInv /\ [Next]_vars => IInv'`, and the theorem `Inductive` (`TimersInductive`,
`HeapInvariant`), from which the properties follow. Every such invariant was checked with
TLC, on the instance of its run, before it was proved.

### WorkerPipe
`WorkerPipeProofs` proves, for any nonempty finite or infinite set of workers and
any bound on messages, from `WorkerPipeAssumption` (the main thread is not a
worker, the value for "no thread" is no thread, there is a worker):

* `TypeCorrect`, `WakerCorrect`, `NoEmptyWakeup`, `OrderCorrect`: `TypeOK`,
  `WakerMatchesQueue`, `ServesAMessage` and `InOrder` are invariants;
* `PipesAreFifo`: every behaviour of `WorkerPipe` is one of `FifoChannel`, under
  the mapping `posted -> sent`.

None of the invariants is inductive alone. `IInv` adds

* `LockInv`: the mutex of `p` is held by `t` exactly when `t` is in its critical
  section on `p`. Without it two threads could be between signal and append;
* `EndInv`: a thread works on a pipe from its own end, so a pipe has one sender
  and one receiver;
* `WokenInv`: from `select()` on, until it has taken a message, a woken receiver's
  waker stays readable. This is the heart of `ServesAMessage`: the receiver looks
  at the waker without the mutex, but only it can clear it.

`Inductive` shows `IInv` invariant, one lemma per conjunct and action. `ServesAMessage`
follows because a thread at `pop` holds the mutex, so nobody is mid-update, so a
readable waker means a nonempty queue. The refinement follows from `InOrder`: what
is delivered is number `received + 1`.

### EventLoop
For any sets of promises, timers, descriptors, ports and signals
and any bound on pending jobs, `EventLoopProofs` proves:

* `JobsComeFirst`: `JobsFirst` is an invariant. It is inductive as it stands: the
  only way from the jobs to the check is `NoJob`, and from there to the next
  callback nothing queues a job;
* `TrackerCorrect`: `TrackedAreUnhandled` is an invariant, also inductive. The two
  interesting steps have a lemma each: a rejection of a promise with and without a
  reaction (`RejectKeepsTracked`), a reaction added before and after the rejection
  (`ThenKeepsTracked`);
* `NoRejectionHidden`: as long as the tracker is installed (the REPL removes it), a
  program that sleeps or ends with status 0 has handled all its rejections; and, under the assumption that no REPL follows
  the script, `ReportsCorrect`: `ReportedIffUnhandled`, of which the former is one
  half, is an invariant. Neither half is inductive: they speak of states one or more
  steps after the check. `CheckInv` carries what the check saw up to there, past the
  signals that may arrive on the way, and with `TrackedAreUnhandled` it turns the list
  into the promises it stands for. The assumption is needed: with the REPL a handled
  promise can end the program (section 6).
* `TypeCorrect`: `TypeOK`, which includes the bound on the queue of jobs;
* `EndCorrect`: `EndsWhenIdle`. `SourcesInv` says that a descriptor has one entry, which
  stays as long as it has a read or a write function, so that the test of an empty list
  in `js_os_poll` is one for functions that could still be called;
* `SignalsCorrect`: `SignalsKept` is an invariant, for any number of handlers under way at
  once. `UpdateInv` is why: what an update has read and will store back agrees with the word
  as it is now for every signal that is not in doubt. Another update that stores in between
  does change the word, but only in its own bit, and that has been in doubt since the two
  began to overlap. `MainInv` says where the main thread is when it updates the word.

### WorkerLifecycle
`CountsCorrect` and `FreedCorrect`, for any number of messages and objects. `RefsInv` and
`SabInv` say that each counter is the number of its holders. They are kept only because
a thread drops what it holds: `TodoInv` says so of the references that it has still to
drop, the two of a Worker object in order, and those of `args` by the constructor that
failed or by the thread that ended, never both; `MakingInv` says what exists at
each step of the constructor, so that its failure drops just that; `ObjectInv` that the
pipes of a Worker object go together.

### Atomics
`WaitersCorrect`, `WakeupsCorrect` and the action property `OrderCorrect`, for any finite
set of workers, any cells and any width. `MutexInv` says who has the mutex, `ArgsInv` that
a call under way has a cell. `SeenInv` is why no wake-up is lost: between the comparison
and the moment the thread is on the list it has the mutex, so a notification cannot fall
between them, although a store can. `TicketInv` (the list is in the order in which
the waits began) and `NotifyInv` (what a notification has taken so far came before what
it has left) give the order.

### Timers
In `EventLoopProofs`: `ListCorrect`, `IntervalsCorrect` and the action property
`OrderCorrect`, for any timers and any `MaxId`. `IdInv` computes the id that JavaScript holds from the number of timers
set since, around the end of the range: with `WindowOpen` two live ids cannot meet.
`ListInv` says that the list is ordered by age and that its entries bear the ids the
program holds; `TickInv` where the timer of an interval is while its callback runs.

### ChildProcess
`ReadCorrect`, `CallCorrect` and `ResourcesCorrect`, for any number of chunks, any capacity
of the pipes and any exit codes. `ExitInv` says what `_poll` knows of the child at each
of its steps; `ReadInv` that after the exit the second `_drain` leaves nothing, one
stream after the other; `OpenInv` and `TimerInv` what is open and scheduled, whichever streams
have a pipe, and that pipe ends are forgotten by a failed spawn only; `CallInv` that
no poll follows the callback.

### SpawnSync
`OutputCorrect` (both systems) and `StatusCorrect`, for any sizes. `DataInv` is the
heart: output within `maxBuffer` is what has been read followed by what is in the
pipe, in order and without a gap. `PlanInv` bounds what the child may still write,
`FinalInv` says that the reads after the exit leave nothing behind.

### FileSystem
`DescriptorsCorrect`, `CreatorCorrect` and `AppendsCorrect`, for any finite sets of threads,
files and descriptors, and any paths closed under prefixes. `IInv` is `Base`, which holds
always, and `Apart`, which holds until a stale number is used for somebody else's file
(`astray`); the latter contains `OneOwner`, of which `DescriptorsOwned` speaks. That is
needed to know that the step of one
thread does not touch the file of another. `CallInv` gives calls different numbers and
`BlockInv` says that a block of a call that is still to be written is in no file, and that
what is due was not written by a call that does not append; with `ModeInv` (a descriptor
opened to append is in append mode) a write puts a block that is due at the
end, and overwrites none. `DueInv` states `AppendsKept` by position instead of by
cardinality. The lemmas are about kinds of steps: one that opens (`StartOpenKeeps`), closes
(`CloseStep`), moves (`MoveStep`), writes (`WriteStep`) or truncates at most (`ShrinkStep`).

### Heap
In `MemoryProofs`: `NothingFreedIsUsed`, `CountsAreExact`, `GarbageIsCollected` and the
action property `EntriesAreKept`, for any finite set of objects, in whatever way they
refer to each other. `HeapInv` has the parts

* `CountInv`: each count is the number of references from variables and callbacks, plus
  those from the objects in `Counted`. That set is what makes the passes of the collector
  provable: `gc_decref` takes the objects out of it one by one, `gc_scan` puts back those
  that are in use and the third pass the rest, and only outside these passes are they all in
  it. So the counts are wrong during a collection, and exactly by as much as is visited;
* `RefInv`: nothing in `Kept` refers to anything outside it. During the removal of cycles
  `Kept` is what is on `gc_obj_list`, before that all objects;
* `ListInv`: which list an object is on and how it is marked, for each pass. From the end
  of `gc_decref` on, what is on `gc_obj_list` is reachable;
* `DeadInv`: a freed structure has no references, to it or from it, and a husk stays as
  long as it has weak ones.

`Steady`, `Decreasing`, `Scanning`, `Restoring` and `Freeing` in the proofs are `HeapInv`
as it reads in each phase, and every action is a lemma about one or two of them. The
argument for the collector has two halves. *Nothing in use is freed*: what `gc_scan` leaves
on `gc_obj_list` contains what variables refer to, because their references stay in the
counts, and is closed, because every object on it was visited; `Reachable` is the
least such set. *All garbage is freed*: an object that has a count left after `gc_decref`
has a reference from a variable or a callback, and what `gc_scan` adds to the list is
referred to by something on it; so the list is within `Reachable`. The removal of weak
entries relies on the first half: an object without a count left is not reachable.

Cardinalities stand for the counts; the lemmas about them (`Times`, `RefCount`) say
what one reference more or less does to them.

### Buffer
In `MemoryProofs`: `ConversionsRoundTrip` and the action property `OperationsIsolated`, for
memory of any size, any contents and any arguments. `BufferInv` says that memory consists of
bytes and that each view lies within its memory. For `Isolation` the work is in the index
arithmetic of each operation, negative and missing arguments included. For `RoundTrip`
the encodings are undone in groups: two characters for a byte in hex, four for three bytes
in base64, with a last group of one or two bytes and its padding as cases of their own;
`Base64Empty` and `HexEmpty` are about the empty text. `CopyFits` shows that the
arithmetic of `copy` wraps around for a misplaced range only, given that two sizes add up
to less than `SizeMod`.
`FlattenSeq`, with which `Base64Decode` joins the groups, is recursive; what it computes
for groups of three (`FlattenTriples`) is shown by taking the least position at which
it would differ.

### Checked by TLC only
* All liveness properties: fairness and ENABLED are out of the prover's reach.
* `ModuleEval`: `EngineAsserts`, `DependenciesFirst`, `PromisesSettled`. They rest on the
  correctness of Tarjan's algorithm (the modules from `m` on in the stack are a cycle
  when `dfs[m] = low[m]`), combined with counts that change in jobs while a walk may be
  repeated; no inductive invariant for that has been worked out.

## 5. Not modelled

* **The language**: parser, bytecode, interpreter, built-in objects, regular
  expressions, Unicode and number formatting. These are nearly sixty of the
  seventy-five thousand lines of the repository, sequential and without a protocol;
  a faithful model would be a semantics of ECMAScript, which TLC cannot explore and
  no property short of that semantics would describe. The parts of the engine that do
  have protocols (jobs, modules, atomics, memory) are modelled. The share of the lines
  that the models cover is small for this reason.
* `execSync`/`execFileSync`, `EventEmitter`: see the plan below.
* `process`, `std`, module loader, command line, `qjsc`, REPL (`repl.c` is generated):
  sequential wrappers or I/O without an order to get wrong.
* In `FileSystem`: symbolic links, metadata and the read-only calls. `rm` with
  `recursive` uses `stat` and so follows links; that is not modelled. A directory opened
  for reading, and names added while `readdir` runs, are not either.
* In `Buffer`: UTF-8 and latin1, 32-bit integers, `indexOf`, `compare`, `equals`,
  `toJSON`.
* Closing the process handle of a child on Windows: the code never does (section 6).
* In `Heap`: shapes, bytecode, closures, symbols as weak keys, iterators over maps, the
  allocator, more than one entry per holder.
* Within the other parts: message contents and encodings, out-of-memory paths other
  than the Worker constructor's, 64-bit overflow of a deadline, reuse of process
  ids, the limit of 64 handles on Windows, fairness between several busy ports
  (the code serves the first ready one and promises nothing), a collection inside
  `JS_ReadObject` other than of the Worker.
* Windows only: `js_os_poll` calls the stdin handler whatever handle was signalled
  (libc:2484), and sleeps for ever with handlers on other descriptors and no timer
  (libc:2502); a child with exit code 259 is never seen to exit (child_process:639).
* The Unix branch of *child_process* calls `_write` and `_close`; the models take
  them for `write` and `close`. A write to a child that is gone raises SIGPIPE
  (child_process:955).
* `js_worker_class_id` and `os_poll_func` are globals that every thread's
  initialisation assigns (the same values); not modelled.

## 6. Disagreements between the code and what the repository says of it

Shown by a run:

1. `exec`: the constructor polls before the listeners are attached. A child that has
   exited by then is never reported, and output read then is lost (`exec_reports`).

Met while modelling; the models follow the code:

2. `clearTimeout` of an interval (declared as legal in `lib.qnode.d.ts`:474) has no
   effect: the object converts to the number 0.
3. After a job that throws, `js_std_loop` (libc:4262) stops running jobs for this turn
   and may end the program with jobs pending. `JobsFirst` excepts such a turn.
4. `qnode -i script`: the rejection tracker is removed with its list still filled
   (qnode:593); a promise handled a moment later still ends the program. Set
   `Interactive = TRUE` in `EventLoop.cfg` to see `ReportedIffUnhandled` fail.
5. `spawnSync` on Unix reports status 0 for every child (child_process:1007), and waits
   for the child without reading its pipes (child_process:981), so that a child which
   fills one never ends. `StatusOnWindows` and `ReturnsOnWindows` are limited to
   Windows for this reason.
6. `os_pending_signals` (libc:157) is updated by plain `|=` and `&=` on any thread
   (libc:2070, 2531, 913): two updates that overlap lose a signal or deliver one twice.
   `SignalsKept` excepts just these. On Windows `js_os_poll` does not look at the word,
   so `os.signal` calls nothing there; and the end of `std.evalScript` clears a SIGINT that
   came for the program's own handler.
7. A `create_process` that fails returns with the ends of its pipes open (child_process:413,
   443), and their numbers are lost. With `stdio: 'ignore'` for stdout or stderr `execFile`
   throws a `TypeError` (child_process:1242), and the child it has started runs on. The
   handle of a process is never closed on Windows.
8. `FileHandle.close()` that fails keeps `_fd` (fs.c:1096), though the descriptor is gone on
   most systems: another operation, a second `close()` included, reaches whatever file has
   got the number since.
9. `fs`: `copyFileSync(p, p)` empties the file; `writeFileSync` with flag `wx` is not
   exclusive, and the `x` of `w+x` and `a+x` (`lib.qnode.d.ts`:248) is ignored; the
   result of `fclose` is not looked at; `mkdirSync` with `recursive` throws `EEXIST` for
   an existing directory; a positional read moves the position of the handle; a handle
   that is not closed is not closed by the collector.
10. `Buffer`: `slice(start)` ignores `start`; `readUInt32` gives a signed number; `copy`
    (buffer.c:754) checks neither a target position beyond the end nor a reversed source
    range, and may then end the process or read what lies behind the source; the empty
    text in hex, base64 and UTF-8 makes `Buffer.from` ask `js_malloc` for 0 bytes
    (buffer.c:156, 114, 186), against `assert(size != 0)` (engine:1741).

## 7. Plan

Done, in this order: `WorkerPipe` with its proofs, `Timers`, `EventLoop` with its
proofs, `ChildProcess`, `SpawnSync`, `WorkerLifecycle`; then signals in `EventLoop`,
`ModuleEval`, `Atomics`, `Heap`, `FileSystem`, `Buffer`; then the proofs for
`WorkerLifecycle`, `Atomics`, `Timers`, `ChildProcess`, `SpawnSync` and `FileSystem`, and
the rest of those for `EventLoop`; then those for `Buffer` and `Heap`.

Next:

1. Abstract specifications for the components proved so far, and their refinement: a
   lock or a queue for `Atomics`, an append-only log for `FileSystem`.
2. `EventEmitter` (a listener removed while `emit` iterates, child_process:1114) and
   `execSync` (the working directory on each error path, child_process:220).
3. An inductive invariant for `ModuleEval`.
4. A composition of `EventLoop` with `Timers`, and of `WorkerPipe` with
   `WorkerLifecycle`, as refinements of the parts they share.
