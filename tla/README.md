# xpr in TLA+

xpr (X Portable Runtime) is a C/C++ runtime library for embedded Linux and desktop systems: queues,
timers, lists, plugins, settings, and an RTSP server and client on top of them.  This directory holds TLA+
modules that model the concurrent core of it, TLC configurations that check them on small instances, and
proofs that TLAPS checks for every instance.  `PROJECT.json` maps every definition to the lines of the
source it stands for and lists the components, the hazards, the runs and the theorems.

## 1. The system

The library is a set of components that share no framework: each is a `.c` file with its own state and its
own lock, if it has one.  The concurrency is in a few of them.

| Component | State | Operations | Talks to | What is hard |
|---|---|---|---|---|
| FIFO (`xpr_fifo.c`) | two counters and a ring of slots | Put, Get, Peek, their AsAtomic forms, Drain, Reset | MCDEC tasks, RTSP task and stream queues, FQ | a spin lock only with `HAVE_MP`; the AsAtomic calls move a counter before they touch the slot; Drain never locks |
| FQ (`xpr_fq.c`) | a fifo of free entries, a fifo of queued ones, a heap block per queued entry | PushBack, PopFront, ReleaseEntry, Clear | FIFO, MEM | entries are recycled out of order; allocation fails half-way |
| LIST (`xpr_list.c`) | head, tail, length | append or sorted insert, remove, take, sort, reverse | TIMER, PLUGIN, MEM | tail and length must follow every change of the links |
| TIMER (`xpr_timer_unix.c`) | a sorted list of active timers, a list of suspended ones, flags, a thread | add, remove, suspend, resume, terminate, destroy | UPS (sync timer), applications | callbacks run with the lock held and may call the queue; find and act are two critical sections; flags change without the lock |
| RTSP client port (`rtsp_connection.cpp`) | port flags, a client object, delayed tasks | open, start, stop, close; replies, time-outs, restarts | RTSP worker, live555 | two threads change the flags; tasks, restarts and replies come in any order |
| RTSP worker, manager (`rtsp_worker.cpp`, `rtsp_connectionmanager.cpp`) | a task fifo, a scheduler, ports dealt to workers | asyncTask, start, stop, terminate | ports, FIFO | ports are closed before the workers that run their tasks |
| RTSP server (`rtsp_server.cpp`) | streams with an audio and a video fifo, a worker | pushData, open, start, stop, close; frames fetched by live555 | FIFO, live555 | test, drop and put are three calls; fifos are destroyed while frames are fetched |
| PLUGIN (`xpr_plugin.c`) | modules with reference counts in a list sorted by them, a dependency graph | init, load, unload, unload all, fini | LIST | counts change recursively along the graph; loads fail half-way; unload all may not end |
| MEM (`xpr_mem.c`) | reference counted blocks, physical maps | alloc, ref, unref, map, unmap | LIST | find and count are not one step |
| MCDEC (`drivers/mcdec/libav`) | ports, tasks, workers | push, flush, reset, config | FIFO, THREAD | port flags are changed by caller and worker; shutdown |
| UPS (`xpr_ups.c`) | a tree of settings, its JSON document, the storage and three backups of it, a sync timer | init, fini, register, get, set, sync | TIMER, JSON | its lock and the timer queue's are taken in both orders; a crash between two writes |
| DPU, HASHTABLE, STREAMBLOCK, PES, ... | containers, parsers, drivers | | | pure algorithms or device I/O |

What makes each correct: a fifo delivers what was put, once, in order; FQ neither leaks nor frees twice; a
list's tail is its last node; a timer of a queue is on exactly one list and the thread never sleeps past it;
a port has at most one client, dead once stopped and replaced once failed; a frame is released exactly once and
fetched from a stream that is there; settings are saved or marked, and a whole copy of them survives a crash;
a plugin outlives what depends on it; shutdown ends.  `PROJECT.json` lists the other components
and why they are not modelled: wrappers of libraries and system calls, device I/O, signal processing, string
handling without state.

## 2. The modules

| Module | What it is |
|---|---|
| `BoundedQueue` | abstract specification: a bounded queue with several readers, each element taken once, in order |
| `Fifo` | `xpr_fifo.c`, every call as the steps between its accesses of shared memory, with and without `HAVE_MP` |
| `FifoInvariant` | how the rest of xpr uses a fifo (the assumption `FifoUsage`) and the inductive invariant |
| `FifoProofs` | the theorems about the counters and slots of `Fifo` |
| `FifoQueueProofs` | the theorems that `Fifo` implements `BoundedQueue` and that a peek is coherent |
| `FlexQueue` | `xpr_fq.c` over atomic fifos; implements `BoundedQueue` too |
| `FlexQueueProofs` | the theorems about `FlexQueue` |
| `TimerQueue` | `xpr_timer_unix.c`, its thread, callbacks and callers |
| `TimerQueueProofs` | the theorems about `TimerQueue` |
| `RtspConnection` | `rtsp_connection.cpp` and the loop of its worker, the server and live555's scheduler as environment |
| `RtspConnectionProofs` | the theorems about `RtspConnection` |
| `RtspStream` | a stream of `rtsp_server.cpp`, its pushers, the worker that fetches, and closing |
| `RtspStreamProofs` | the theorems about `RtspStream` |
| `Ups` | `xpr_ups.c` with the files it writes, failures and crashes |
| `UpsProofs` | the theorems about `Ups` |
| `Plugin` | `xpr_plugin.c` with the list of `xpr_list.c` as it uses it |
| `PluginInvariant` | the inductive invariant: the ledger of counts and claims, the shape of the agenda |
| `PluginProofs` | the theorems about `Plugin` |
| `MC*` | the instances that TLC checks |

How they fit: `Fifo` and `FlexQueue` implement `BoundedQueue`; `FlexQueue`, `RtspConnection` and `RtspStream`
use fifos whose calls are one step, as `Fifo` justifies; `Ups` uses the one fact of `TimerQueue` it depends on,
that a callback runs with the queue's lock from its start to its end.

**Fifo.** `head` and `tail` are the counters, `data` the slots, `pc[t]`, `call[t]` and `buffer[t]` the place,
locals and copied elements of thread t's call.  `XPR_FIFO_LOCK` is the variable `lock`; without `HAVE_MP`
the lock is never taken and the same steps interleave.  `PutEnter .. PutInc` are `XPR_FifoPut` (test,
measure, copy one element, advance, repeated); `PutAsAtomicInc` then `PutAsAtomicStore` keep the code's
order: the counter first, the slot second.  Drain and Reset take no lock in either build.  Reset is modelled as
it has to be used (`Quiet`): when no call is in progress, so its two stores are one step; the code does not check
that, and nothing in `src/` calls it.

**FlexQueue.** The two fifos are sequences, since `Fifo` shows that they behave so; `entry[e]` holds the data
and length of an entry, `heap` the allocated blocks.  A push is `PushTake` (which returns at once when there
is no free entry, `PushRefused`), `PushAlloc` or `PushAllocFails`, `PushFill`, `PushQueue`; a release is
`ReleaseClear`, `ReleasePutBack`.

**TimerQueue.** A timer is an address that may be reused.  `active` is the sequence `activeTimers`, sorted by
what is left until the timer expires; `suspended` is a set because its order decides nothing.  `pc`, `cur`,
`next` and `deadline` are the thread's, from the test of `exitLoop` through the wait to the pass over the
expired timers; the lock is held from the wake-up to the end of the pass.  Each call by identifier is two
steps, `FindId` and `ListCall`; `XPR_TimerTerminate` is a read and a write; `CallbackCall` is a callback that
calls its own queue: it may add, remove, resume or suspend any timer that is listed.  When that takes the very
timer `nextTimer` off its list, which nothing in the code prevents, `GoOn` leads the pass astray and the model
stops there.  `Tick` is the monotonic clock, with time relative, so that no bound on the clock is needed.

**RtspConnection.** `flags` are the port flags; `tasks` the worker's fifo; `loop` where the worker's thread
is; `app` where the application's start or stop is, since each puts its task first and marks the port PENDING
after it, by a read and a write that the worker's changes may fall between.  `client[c]` is a
`MyRTSPClient`: the reply it waits for and the delayed tasks that are due.  `restarts` are the restart tasks
in the scheduler, `mRestartTask` the only one of them that `stop()` knows.  Every reply, time-out and delayed
task is an action of its own; their outcome is the environment's choice.  What the two threads share is touched in
the code's steps: `stop()` is `StopDisable`, `StopCancel`, `StopForget`, `StopPut`, `MarkRead`, `MarkWrite`, and a
handler that reports a failure is its own step, then `ScheduleRestart`, then `MarkRestart`, then, for a refused
PLAY, `PlayStops`.  A change of the flags by the worker is one step in which a write of the application that falls
into it is lost (`FlagsBecome`); `restartInTask` changes them three times and is two steps.

**RtspStream.** `flags`, `exitLoop`, `thread` are the server's and its worker's, `session` and `queue` the
stream's, `fetch` where live555's frame source is.  A push is `PushTest` (is the queue full?), `PushDrop` and
`PushPut`, since two pushers and the fetching thread may fall in between; a fetch is `FetchTest` and
`FetchGet`.  Stopping and closing are two steps each, up to the join of the worker's thread and after it.
`released` and `leaked` are history: what became of each frame.  `Stream::close` checks nothing; `ClosedLast` is how
the application closes a stream (as `tests/rtsp.c` does): nobody pushes to it, and it and the server were stopped.

**Ups.** `json` is the document, `cur` the values in the entries (written first, and alone when the document cannot
take the value: `Written` fails for an object of another type, `Alien`, and for a number JSON has not, `Unstorable`), `files` the storage and its backups, any of
which may be torn, or passed over by a copy that cannot open its files (`CopyOpen`).  A call under `sLock` is one step; `XPR_UPS_Sync` is a test without the lock (`Sync`,
`TimerFires`), the lock (`SyncLock`) and then two steps per file, one that truncates it and one that writes it
or fails; `XPR_UPS_Fini` is three.  `Crash` may come anywhere and leaves only `files`.  `lock` counts how often
its owner took it, because `XPR_UPS_ReadData` takes it once more when a read fails.

**Plugin.** The functions call each other recursively, so the state has the agenda `todo`: the tasks that the
call at work has still to do, innermost first.  Every action does the first task and may put tasks before the
rest, so the order is the code's and the intermediate states are there.  `list` is in the order in which the
nodes are linked and `tail` apart from it, because `xpr_list.c` sorts without moving the tail and a walk stops
at it.  `XPR_PluginUnload` unloads whatever it is given, as `Unload` does; with the constant `Careful` the application
gives it only plugins that no initialized one depends on (`Unneeded`).

## 3. The runs

| Run | Instance | Checked |
|---|---|---|
| `fifo_locked` | `HAVE_MP`, 2 producers, 2 consumers, 2 slots, batches of 1 to 3, every call but Drain | `FifoInv`, `NoSlotRace`, `PeekCoherent`, refinement `IsQueue` |
| `fifo_plain` | no lock, 1 producer, 1 consumer, 3 slots, no AsAtomic calls, Drain included | the same |
| `fq` | 2 pushers, 2 poppers, 3 entries, 4 blocks, 2 lengths | `FQInv`, `OnePlace`, `BlocksOwned`, refinement `IsQueue` |
| `timer` | 3 timers, 1 application thread, intervals 1 and 2, callbacks that add, remove, resume or suspend | `TypeOK`, `OneList`, `NoOversleep`, `NextStays`, `SingleShotOnce` |
| `timer_fires` | 3 repeating timers, each with its own identifier, late told from later (`Overdue = 1`) | `NoOversleep`, liveness `ActiveFires` |
| `timer_destroy` | 2 timers | violation of `DestroyReturns` |
| `rtsp_conn` | an application that starts, stops and closes in turn; 2 clients, 3 restart tokens, 2 tasks | `PortInv`, `OneClient`, `StoppedStaysDead`, liveness `FailedIsReplaced` |
| `rtsp_conn_pending` | the same application, 1 client | violation of `PendingEnds` |
| `rtsp_stream` | 2 pushers with 2 frames each, a queue of 2, one client that plays | `TypeOK`, `FramesAccounted`, `StreamAlive`, `EmptyFetchIsBrief`, liveness `Served`, `CallsReturn` |
| `ups` | 2 threads and the timer's, 1 entry, 2 values and an infinity, an object of another type, failing saves and crashes | `TypeOK`, `DirtyTracked`, `DocumentAgrees`, `BackupSurvives`, `NoSyncAfterFini`, liveness `ChangesSaved` |
| `ups_deadlock` | the same | violation of `NoWaitCycle` |
| `plugin` | a careful application, 5 files with 6 plugins: a chain, a diamond, a shared library | `PluginInv`, `DependsInited`, `CountCoversDependents`, `LibraryOpen`, liveness `CallsReturn` |

**Bounds.** A fifo of 2 slots with batches of up to 3 meets full, empty, partial and wrap-around cases, and
`MaxCount` (5 and 7) lets the counters pass every slot at least twice.  3 queue entries let one be free, one queued and
one in a popper's hands; 4 allocations (`MaxBlocks`) refill an entry that was released before.  3 timers are
the fewest for which one is running, one is the `nextTimer` and a third is inserted between or before them;
late timers are late by at most `Overdue`, because only the order and the sign of a lateness are looked
at.  `timer_fires` needs three repeating timers, two that keep a pass going and one that a callback resumes behind
it; to stay small it lets an identifier decide the address, has one interval and no `XPR_TimerTerminate`
(`OneAddressSpec`), none of which the order of the list depends on.  2 clients are one to stop and one to start; a third restart token lets restarts pile up; the task fifo of
2 holds a stop and the following start, and is also seen full.  `Careful` is the application of `tests/` and
`benchmarks/`, which starts and stops in turn; two starts in a row leak a client, which the source makes
plain (`startInTask` overwrites `mClient`), so the safety run leaves them out.
2 pushers that see one full queue of 2 are what it takes for a frame to be refused after one was dropped for it
or for the thread to find nothing after its test; 2 frames each overfill it.  One entry, two values and
one that cannot be stored suffice for `Ups`: entries meet only in being written to the same files.  3 backups are the code's number, so three
saves in a row fill and rotate all of them.  `MaxHolds = 2` lets one read leak the lock.  The plugins `b`, `c`,
`d` on `a` are the smallest graph with a chain, a diamond (`c` depends on `a` and on `b`) and two roots;
`m` and `n` add a file with a parent module; references that failed loads leave behind grow to `MaxRefs = 9`
before the next load.

**What the violations show.** `timer_destroy`: the loop tests `exitLoop` before it takes the lock and waits
without testing again, so a destroy in between is not noticed and its join waits for ever.
`rtsp_conn_pending`: the worker may run the stop task before `stop()` has marked the port PENDING; then nothing
clears the mark and the port answers BUSY ever after.  `ups_deadlock`: the last `XPR_UPS_Fini` asks for the
timer queue's lock with `sLock` held, while the queue's thread, in `storageSync`, waits for `sLock`: neither
returns.

**Fairness.** `Fifo` and `FlexQueue` are checked for safety only; the code promises no progress under a spin
lock.  `TimerQueue`: weak fairness of the thread's steps (it is scheduled, and callbacks return), of the clock, of
the end of a call that has begun, and of the join once the thread has ended; spurious wake-ups and new calls
are never owed.  `ActiveFires` also presumes that passes end (`[]<>~InPass`): callbacks that together take longer
than the intervals keep one pass going for ever, and a timer that one of them resumed with an old expiry is then
inserted behind the pass and starves.  Without the premise TLC shows exactly that.  `RtspConnection`: weak fairness of the worker's loop (`Worker::run` never blocks:
`SingleStep(0)`) and of the end of a call of the application; strong fairness of a queued task and of a
delayed restart, because the worker comes back to the fifo and the scheduler runs a due task although each
turn runs one event.  The server owes nothing, not even an answer.  `RtspStream`: weak fairness of the worker's
loop and of the calls that join it, strong fairness of the fetch and of the sink's request, which are live555
events that stay due while the loop runs others.  `Ups`: weak fairness of the timer and of a save that has
begun; nobody owes a call.  `Plugin`: weak fairness of the steps of a call, and strong fairness of `Unloads`: a
finalizer that is called again and again succeeds in the end; without that `XPR_PluginUnloadAll` does not end.

## 4. The proofs

`FifoProofs` proves, for any numbers of threads, slots, elements and puts, under `FifoAssumption` (types of
the constants) and `FifoUsage` (without the lock: one producer, one consumer, no AsAtomic calls; Drain only
with one consumer):

- `FifoInvariant`: `Spec => []FifoInv`.  `NoOverrun` alone is not inductive: that head may advance after a
  copy depends on what the call measured some steps before.  `FifoInv` adds the types, who holds the lock,
  and for every call in progress that what it measured is still there: room only grows for a producer while
  consumers run, and elements only grow for a consumer.
- `FifoTypeOK` and `FifoNoOverrun`, from it.
- `FifoNoSlotRace`: no slot is written by one thread while another copies it.  It rests on a lemma about
  `%`: two counters less than `maxElements` apart are different slots.

The proof has one lemma per kind of step (enter, go on, return, producer moves, consumer moves) and one step
per action of `Next`.  TLC checks `FifoInv` itself in `fifo_locked` and `fifo_plain`.

`FifoQueueProofs` goes on from `FifoInvariant`, under the same assumptions:

- `DataInvariant`: `Spec => []DataInv`, what a call in progress knows of the slots: what a put has stored is
  still in the slot when head passes it, what a get or a peek has copied is still what its slots hold.  A
  producer writes no slot between tail and head (`FreeSlot`), and with the lock no other call is in progress.
- `FifoIsQueue`: `Spec => IsQueue`.  The step that advances head is the abstract Enqueue, the one that advances
  tail a Dequeue or a Discard, the entering of a call a Forget or a stutter.  An AsAtomic put has advanced head
  before it stores, so `Window` counts what it is about to store as stored, and the store itself is a stutter.
- `FifoPeekCoherent`, from `DataInv` and the lemma that no store is in progress beside a peek.

`FlexQueueProofs` proves, for any numbers of threads, entries, lengths and allocations, under
`FlexQueueAssumption` (types of the constants only):

- `FQInvariant`: `Spec => []FQInv`.  To the types and the two properties below it adds `Holding` (a call in
  progress holds an entry, and a pusher that has allocated holds the only pointer to its block) and `Gone`
  (nothing is in use after Destroy).
- `FQOnePlace`: no entry is lost or shared.  Its core is the lemma `Room`: a fifo of different entries that
  misses one of them is not full, by counting (`FS_Injection`), so a put whose result the code ignores
  succeeds.
- `FQBlocksOwned`: the heap is exactly what the entries and the pushes in progress own.  One lemma per action
  says what it does to `Filled`, the entries that own a block: only filling, releasing and destroying change it.
- `FQIsQueue`: `Spec => IsQueue`, the refinement of `BoundedQueue`.  Under `FQInv` every step maps to a step of
  the abstract queue or to a stutter: `PushQueue` enqueues the data of its entry, `PopFront` dequeues,
  `ReleaseClear` ends the reader's call, `Destroy` discards; the others touch only entries that nobody waits for,
  which is what `OnePlace` is needed for.

`RtspConnectionProofs` proves, for any numbers of clients, restarts and tasks, under `Careful` (the
application starts and stops in turn, see section 3) and the types of the constants:

- `PortInvariant`: `Spec => []PortInv`.  `OneClient` is not inductive: a start task overwrites `mClient`, so
  one must know that every start task finds none.  `PortInv` says that the tasks in the fifo alternate
  (`InTurn`), which of the two the worker expects next, and that the port has a client exactly from a start
  task to the next stop task, a replacement by a restart included.
- `PortOneClient` and `PortStoppedStaysDead`, from it: never two clients nor a pointer to a closed one, and
  no restart left in the scheduler revives a stopped port.

`TimerQueueProofs` proves, for any numbers of threads, timers and intervals, under `TimerUsage` and whatever
callbacks call (until one leads the pass astray, where the model stops):

- `TimersStayOnOneList`: no timer is lost or on two lists.  `Lists(taken)` says what is on which list while the
  timers in `taken` are off; the code's operations on lists (insert by expiry, take, move) keep it for every
  `taken`, by lemmas about sequences, and `PassInv` and `CallInv` say which timer is off at each place of the thread
  and of the callers.
- `OnlyCallbacksMislead`, an action property: between the choice of `nextTimer` and its use it leaves the active
  list by nothing but a call of the running callback itself.
- `NeverOversleeps`: the thread never waits beyond the first timer.  `Ordered`, that the active list is
  sorted, is part of the invariant: the thread looks at its first timer only.
- `TimerTypeOK` and `SingleShotStaysOff`, an action property.

`RtspStreamProofs` proves, for any pushers, frames and queue length, under `StreamConstants`:

- `StreamStaysAlive`: the thread meets neither a deleted stream nor a destroyed queue.  It is not inductive:
  that a stream is closed while the worker's thread is idle rests on `WorkerInv`, which relates the worker's
  thread, its exit flag and the application's call, `mExitLoop` never being reset included.
- `FramesStayAccounted`: every pushed frame is in exactly one place.  `Distinct` (nothing is queued twice) and
  `Placed` are preserved by each put, drop and fetch, whoever does it.
- `EmptyFetchStaysBrief` and `StreamTypeOK`.

`UpsProofs` proves, for any threads, entries and values, under `UpsConstants`:

- `UpsNoSyncAfterFini`, `UpsTypeOK`: from `MemoryInv`, which says who has the lock (and why it is taken at most
  `MaxHolds + 1` times), who may still call while the last `XPR_UPS_Fini` goes on, and that the timer goes with
  the document.
- `UpsBackupSurvives`: `BackupInv` says where the last save is now: among the generations that failures since
  then have put at risk, or, while the files are rotated, one further.  Each failed dump moves it by at most one,
  hence three in a row are needed to lose it; a copy that was torn or passed over puts all generations at risk at
  once, as it may have been the only one.
- `UpsDirtyTracked`, `UpsDocumentAgrees`, each inductive together with `MemoryInv`.

Each has one lemma per part of the invariant, with one step for every action that changes a variable of the
part.

`PluginProofs` proves, for any plugins, files and dependencies, under `PluginConstants` (every plugin has its
place in one file), `PluginUsage` (dependencies have no cycle, what is depended on is alone in the file of its
name) and `Careful` (the application unloads only what no initialized plugin depends on); section 5 has what
happens otherwise:

- `PluginInvariantHolds`: `Spec => []PluginInv`, and with it `DependenciesStay`: `Spec => []DependsInited`, at
  every moment of a load, of the cleaning up after one that failed, and of an unload.  A plugin is finalized when
  one reference is left to it, so one must know that this one is its own.  The counts are sums along the
  dependency graph and in the middle of a call they do not fit, so the invariant has a ledger: the references
  that initialized plugins claim of d (`Claims`, a set with an element for each place where a plugin names d and
  each of its references), those the call is about to give back (`Owed`) and d's own are at most those it has and
  those about to be counted (`Coming`).
- That the ledger is kept needs what the agenda may look like.  `Loading`: ranks grow outwards (`Descends`), a
  shared file is outermost (`Outermost`), dependencies come in their order before their initializer (`Aligned`),
  what is to be counted is loaded before that (`Arrives`), and plugins of a file come in order (`InOrder`).
  `Unloading`: what is to be unloaded is claimed by nobody, is in no other task, and a parent goes with its last
  plugin.  One lemma per part says when replacing the first tasks keeps it, and one per action applies them.
- `CountsCover`, from the ledger of the states without a call or with `XPR_PluginUnloadAll` about to sort; that
  the first module of the sorted list is claimed by nobody (`FewestUnclaimed`) is what lets unloading all start
  with it.
- `LibraryStaysOpen`, from `Counts`: a parent has a reference of its own and one for each plugin of its file, and no
  plugin of a shared file is counted more than once, since none is depended on.

The calls of a recursion are tasks, the counts are cardinalities of sets, and no proof needs induction on the
depth of the graph: a rank that grows along the dependencies is enough, and `PluginUsage` says there is one.

Only model-checked: all liveness (`ActiveFires`, `FailedIsReplaced`, `Served`, `ChangesSaved` and the two
`CallsReturn`).  Liveness under fairness,
and ENABLED, are out of this prover's reach and stay with TLC, and so does what a recursive definition computes
for every input.

## 5. Not modelled, and known divergences without a run

- The 32-bit wrap of the fifo's counters; torn reads of `long`.  `XPR_FifoDestroy`.
- Without `HAVE_MP` (a build option, on by default) a consumer may be handed a slot nobody filled:
  `XPR_FifoPutAsAtomic` advances `head` first (`xpr_fifo.c:166`), and `tests/fifo.c` runs such threads.
- `XPR_FifoReset` beside other calls.
- Timers: an application that uses a freed timer, nested loops of callbacks (one call per callback), and
  `XPR_TimerDestroy` from a timer's own callback, which frees the timer under the loop.  A callback that removes
  or suspends the timer `nextTimer` (`xpr_timer_unix.c:238`) makes the pass go on with one that was freed or is on
  the other list; the model reaches that and stops.  Between the find and the action of a call by identifier the timer may be freed and its address
  given to a single shot timer (`xpr_timer_unix.c:440`), which is then suspended and never freed.
- RTSP: media delivery (`DummySink`, `FrameMerger`), URLs, synchronous failure of a first DESCRIBE (taken as
  a reply), the shared use of a worker's fifo by several ports.
- `XPR_FQ_Clear` does nothing, although `xpr_fq.h:69` says it clears the data; `maxBufferSize` is not used,
  although `xpr_fq.h:58` says it bounds the memory.
- A timer whose callback returned `XPR_TIMER_SUSPEND` keeps the ENABLED flag, so `XPR_TimerEnable` does not
  resume it (`xpr_timer.h:75`).
- A silent server is never timed out before PLAY is answered: `timeoutCheck` is scheduled only then, and
  `START_TIMEOUT` is ignored, whatever `benchmarks/rtsp-conn-rx-264.c:16` says of `conTimeout`.
- `stop()` cancels the last restart task only; those before it run (and, with no client, do nothing).
- A second `stop()` on a stopped port marks it PENDING, and its task returns without clearing the mark.  No
  start clears STOP, so a port that was stopped once can be closed while it runs (`rtsp_connection.cpp:1215`).
- RTSP server: a stream that is closed while it is pushed to or fetched from (`rtsp_server.cpp:1684` checks
  nothing and destroys its queues).  The worker of a server that is stopped and started again exits at once, since nothing resets
  `mExitLoop`; opening an open stream loses its queues; a server that is closed without a stop is told BUSY and
  deleted all the same.  RTP, SDP and authentication are live555's.
- UPS: two calls of Init or Fini that overlap; Fini without Init; groups and typed variants, which differ in
  data.  The model has what a failed `XPR_UPS_ReadData` does to the lock, that changes are lost when the
  settings are closed, that a failed save is not tried again before the next change, that an infinity is set in
  the entry and not in the document (`xpr_ups.c:1386`), that a copy that cannot open its files goes unnoticed, and
  that a full disk tears every generation, and states its properties around them.
- PLUGIN: loading takes no lock, so calls take turns; parameters and the search for files.
- PLUGIN, an application that is not `Careful`: `XPR_PluginUnload` (`xpr_plugin.c:478`) does not ask who depends on
  the plugin, and no document asks the caller to.  With c depending on a: load a, load c, unload a twice, and a is
  finalized under c; with `Careful = FALSE` TLC finds that for `DependsInited` at once.  Load a, load c, unload a,
  unload c, and a stays listed, initialized and with no reference, because line 353 unloads a dependency only when
  one reference is left; `XPR_PluginUnloadAll` then counts it below zero and does not end.  Unload a once and then
  everything ends the same way: the sort leaves c, listed first, before a, c takes a's last reference and a stays.
- PLUGIN, outside `PluginUsage`: a plugin of a shared library that others depend on loses references when a load is
  cleaned up, and may be counted as often as its parent, so that `XPR_PluginUnloadAll` closes the library under it;
  circular dependencies recurse without end.
- PLUGIN, out of memory: a plugin for which no node can be allocated is finalized, the rest of its file left out,
  and the load reported as done (`xpr_plugin.c:222`): what depends on it is initialized without it.  The model has
  memory for every node.

## 6. What would come next

1. `MEM`: the counts of blocks and maps, with find, count and remove as the separate critical sections they are.
2. `MCDEC`: the port's flags between caller and worker, and the worker's shutdown.
3. The connection manager: several ports on a worker, and the order of closing.
4. Pure algorithms against a reference: `HASHTABLE` (open addressing with erasure), the frame merger, the PES
   and interleaved-packet parsers.

Left aside for good: DPU and MCVR drivers (device and graphics calls), vendored headers and examples, wrappers
of threads and locks, which have no state of their own.
