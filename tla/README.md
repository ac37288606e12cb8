# Verification of the concurrent programs of hongwei_notebook

This directory holds TLA+ models of the concurrent programs in this repository,
the TLC configurations that check them on small instances, and TLAPS proofs of
the properties that matter most, for every value of the constants.

The repository is a notebook. Most of it is study material and vendored code;
three parts are programs of their own:

* `IntelligentDriving/SHM_TEST`: a shared-memory transport between processes
  (topics, blocks, readers and writers).
* `IntelligentDriving/my_cyber`: an adaptation of the Cyber RT framework
  (queues, coroutines, schedulers, timers, data buffers, transport, services).
* `clone相关模块/hela`: the I/O tasks that clone a virtual disk.

## 1. Inventory

### SHM_TEST

| Part | State | Operations | What is hard | What makes it correct |
|---|---|---|---|---|
| `AtomicRWLock` (atomic_rw_lock.h, rw_lock_guard.h) | `m_lockNum`, `m_writeLockWaiteNum` | ReadLock, WriteLock, ReadUnlock, WriteUnlock, each a loop of loads and weak CASes | interleavings, a stale count swapped in, starving writers | exclusion, exact counters, writers get in |
| `Block` and `LocklessSet` (block.cpp, lockless.h) | `m_lockNum`, `m_pidSet` in shared memory | TryLockForWrite/Read, ReleaseWrite/ReadLock, AnyAlive, Insert, Remove | several processes, any of which may die at any instruction | exclusion, nothing leaks, every user is registered, dead holders are recovered from |
| `AllocMemoryBase` (alloc_memory_base.cpp, state.h) | `m_seq`, `m_refCount`, `m_needRemap`; `m_init`, `m_conf` | AcquireBlockToWrite/Read, ReleaseWritten/ReadBlock, Destroy, Remap, Recreate | retry after a failed lock; spinning with a mutex held; a segment replaced under its users | every call returns; a segment lives as long as its users |
| `AllocMemory` (alloc_memory.cpp) | the name in /dev/shm, the object behind it, its size and its contents | Create, OpenOnly, Remove, Reset, each a chain of system calls that may fail | a process opens what another has only half created; unlink races with open | who opens a segment finds it constructed; the name is removed with the last user |
| `ShmManager`, shm_api (shm_manager.cpp, shm_api.cpp) | `m_segMap` per process | CreateSegment, RequestMemory, WriteFinish, HoldMemory, ReleaseMemory | a topic first used for reading and then created | a successful Create made the topic |
| `ShmConf` (shm_conf.cpp) | sizes of a segment | Update, the size tables | layout arithmetic | buffers are disjoint and inside the segment |
| `ShmConfig` (shm_config.cpp) | the topics of the YAML file | LoadConfig, ParseConfig | an 8-bit loop counter | the parse ends and keeps the first entry of a name |
| `MessageInfo` (message_info.cpp) | ids, sequence number, topic | SerializeTo, DeserializeFrom, operator=, operator== | conversions that drop fields | what is written is read back |

The parts interact through shared memory only. `ShmManager` finds or makes the
`AllocMemory` of a topic; that maps the segment and finds in it the `State` and
the `Block`s; the blocks' lock words decide who may use a buffer; the pid sets
are how the others learn that a holder died.

### my_cyber

| Part | What is hard in it |
|---|---|
| `base`: BoundedQueue, UnboundedQueue, ThreadSafeQueue, wait strategies, ThreadPool, AtomicHashMap, object pools, reentrant lock, Signal | lock-free heads and tails, lost wake-ups, reclamation |
| `croutine`, `scheduler` (classic and choreography contexts, Processor, notify and remove) | routine state flags raced by notifier, processor and remover |
| `task` | work queued and routines notified, shutdown with work queued |
| `timer` (TimingWheel, Timer, TimerBucket) | two wheels and their carry, a timer stopped while it fires |
| `data` (CacheBuffer, ChannelBuffer, DataDispatcher, DataNotifier, AllLatest fusion, DataVisitor) | ring indices, a reader that fell behind, fusion of the latest |
| `blocker` (Blocker, BlockerManager, IntraReader/Writer) | capacity, observe, callbacks under a lock |
| `transport/shm` (Block, State, Segment, Posix/Xsi, ConditionNotifier, dispatcher) | the origin of SHM_TEST's design: remap and recreate, an indicator ring read by lagging listeners |
| `transport` (intra, rtps, hybrid, History, ListenerHandler) | which transport carries which reader |
| `service`, `service_discovery` (Client, Service, managers, warehouses, graph) | pending requests and late answers, joins and leaves out of order |
| `node`, `component`, `class_loader`, `mainboard`, `logger`, `message`, `time`, `sysmo`, `event`, `common` | life cycles, double-buffered logging; mostly plumbing |

### hela

`do_hela_task.cc`, `do_hela_pc_task.cc`, `hela_context.cc`: tasks of reads and
writes in flight, retries with exponential back-off, completion callbacks. A
batch (`DoHelaTaskHandle`) of clone tasks is cut into pieces; it asks idun which
piece is where, dispatches each to a transfer (`DoHelaPcTaskHandle`), which
reads it from koala or from another chunk and writes it to its destinations, and
counts the results.

Everything else in the repository (muduo-master and muduo_study, c++_study,
go语言相关, linux_study, python_study, socket_study, 力扣刷题, notes) is vendored
code or exercises and is not modelled.

## 2. Plan

Done: SHM_TEST whole (locks, blocks, segments, layout, configuration); hela's
batches and transfers; of my_cyber the bounded queue and the thread pool, the
coroutines with the classic scheduler, the channel buffers with their readers,
the task manager, the timers, the shared-memory transport and the services.

To come, in this order: the choreography scheduler and the fusion of several
channels, which reuse `ClassicScheduler`'s routines and `CacheBuffer`; Remap and
Recreate of my_cyber's segments, beside `ShmSegment`; discovery (joins and leaves
out of order); proofs about the task manager, the timers and the shared-memory
transport.

## 3. Modules and code

| Module | Models | State | Actions |
|---|---|---|---|
| `RWLocks` | what a readers-writer lock promises | the holders of each lock | Begin/End of reading and writing |
| `AtomicRWLock` | SHM_TEST's `atomic_rw_lock.h` | the two counters, each thread's place and its local copy of the count | one for each atomic access |
| `ShmBlock` | `block.cpp`, `lockless.h`, the acquiring and releasing half of `alloc_memory_base.cpp`, `RequestMemory`'s mutex | lock words, pid sets, `m_seq`, each thread's place and locals, which processes run | one for each atomic access, and the death of a process |
| `ShmSegment` | `alloc_memory.cpp`, the rest of `alloc_memory_base.cpp`, `shm_manager.cpp` | the name, the objects made under it and what each contains; `m_init`, `m_conf`, the mapping and the map of segments of each process | one for each system call or access to the `State`, failing calls, exit and death |
| `ShmConf` | `shm_conf.cpp`, and where Create, OpenOnly and AcquireBlockToWrite use it | the two numbers in the `State`, the size, the layouts of a creator and of a reader | Create (also for a replacement), OpenOnly |
| `ShmConfig` | `shm_config.cpp` | the map of topics, the file and the index of the loop | LoadConfig, one for each way to treat an entry, the end |
| `ShmSetup` | `ShmManager::CreateSegment`: composes `ShmConfig` and `ShmConf` | both, and whether the topic is in the map | load, create from the topic's entry, replace, open |
| `HelaPcTask` | `do_hela_pc_task.cc`, `exponential_backoff.cc` | of each transfer: the part it is at, what is outstanding, retries and pendings, what each destination has | one for each handler |
| `HelaTask` | `do_hela_task.cc`, `hela_task.cc`, composed with the transfers | status of the pieces, queries, references, counters, the verdict | one for each handler and timer |
| `BoundedFifo` | what a bounded queue promises | a sequence and who has what in hand | Put, Take, Use |
| `BoundedQueue` | my_cyber's `bounded_queue.h` | head, tail and commit, the slots (an element is two words), each thread's locals | one for each atomic access and each word copied |
| `ThreadPool` | `thread_pool.h`, `wait_strategy.h`, the queues of `perf_event_cache.cc` and `task_manager.cc` | above `BoundedQueue`: the use (strategy, producers, calls), the flags, the owner | Enqueue, the workers' loop, wait and wake, stop, join; for the use of `TaskManager`, whose routines poll, Enqueue and Dequeue alone |
| `ClassicScheduler` | `croutine.cc`, `classic_context.cc`, `scheduler_classic.cc`, `scheduler.cc`, `processor.cc` | flags and state of each routine, run queues and their locks, ids and their mutexes, each processor's and each caller's place | one for each lock, flag or queue access |
| `CacheBuffer` | `cache_buffer.h`, `channel_buffer.h` | a ring with head and tail as a value | Fill, Fetch as operators |
| `DataPath` | `data_dispatcher.h`, `data_notifier.h`, `data_visitor.h`, `routine_factory.h`, composed with `ClassicScheduler` and `CacheBuffer` | the buffers, the writer's and the readers' places | dispatch, fill, notify; wait, fetch, call |
| `TaskManager` | `task_manager.cc`, composed with `ClassicScheduler` | the queue of tasks, the caller's and the routines' places | enqueue, notify each routine; dequeue, hang up |
| `ConditionNotifier` | `condition_notifier.cc` | the ring in shared memory, each listener's next number, whose notifier is shut down | take a number, write the info, write the number; look, copy; shut down |
| `ShmTransport` | `shm_transmitter.h`, `segment.cc`, `block.cc`, `shm_dispatcher.cc`, `transport.cc`'s Shutdown, composed with `ConditionNotifier` | lock words and contents of the blocks, each side's place | one for each atomic access |
| `CyberService` | `client.h`, `service.h`, the number's two halves in `rtps_transmitter.h` and `sub_listener.cc`, `init.cc`'s Clear | pending requests and their mutex, the service's queue and thread, the messages under way | one for each critical section, wait and message |
| `TimingWheel` | `timing_wheel.cc`, `timer.cc` | the two wheels and their indices, the tasks and who has a pointer or the mutex of each, the tick thread's place | AddTask in its four steps, Tick, Cascade, the callback from Async to the release of its pointer, Start, Stop |
| `AtomicRWLockProofs`, `ShmBlockProofs`, `ShmSegmentProofs`, `ShmConfProofs`, `HelaTaskProofs`, `BoundedQueueProofs`, `DataPathProofs`, `CyberServiceProofs` | the theorems | | |

Names are the source's. A `pc` (or a field `at`) names the instruction a thread or
process is about to execute. Operators marked "A mutant" are wrong variants of the
definition that follows them; no specification uses them. They show that the
properties notice such a mistake.

What the models abstract from:

* Memory is sequentially consistent. Every successful access to a lock word
  acquires and releases or is stronger, and the buffers are used only under it.
* `ShmBlock` records which calls were granted which lock in `wGrants` and
  `rGrants`. No guard reads them; they are what the refinement mapping and the
  counters' properties speak of. Grants are to calls and not to threads, since a
  thread's next call must not inherit a lock that an earlier one left behind.
* A death stops all threads of a process between two accesses. Its locks, its
  pid in the sets and its mapping stay as they are.
* `ShmSegment` has one thread in each process and one topic. Locking a block
  succeeds or fails there; `ShmBlock` says when. The handler of SIGINT calls
  exit(): between calls that is `Exit`, within a call it does for the model
  what `Die` does, since `m_init` is not yet set and Destroy returns at once.
* A reader's index was published by a writer, so a reader only comes to a topic
  after some Create has finished.
* shm_unlink may fail, in Recreate, Destroy and after a failed mmap; the history
  variable `refused` changes each time it does.
* In `ShmConf` offsets are exact integers. The 32 bits of `MsgSize()` are kept
  (`UIntMod`); the products are 64-bit and at most about 2^30 by the clamping.
* In `HelaTask` a handler is one action, since one libevent loop runs them all.
  Whether a request is granted, sent, answered or times out is a choice; `Faults`
  bounds the bad ones. Bytes and request headers are left out.
* In `BoundedQueue` an element is two words written and copied one at a time, so
  that a torn copy can be told from a whole one. The data race of a dequeuer
  whose head is stale is such a torn copy; its CAS fails and it is never used.
* In `ClassicScheduler` a processor that finds nothing looks again: Wait returns
  after at most a second, notified or not. There is one group. UpdateState is one
  step, for only the processor that has acquired a routine writes its state.
* `ShmTransport` follows one channel. A dispatcher is late (`late`) from the
  moment a block or a slot it still needs is used again; the history variables
  `said`, `got`, `from` and `late` are read by no guard. Transmitters and
  dispatchers are of different processes. The notifier's Shutdown sleeps 100 ms
  before it detaches the ring; a Notify under way is taken to be over by then.
* In `CyberService` the RTPS transport neither loses nor orders messages. The
  number of a request passes through two 32-bit halves (`Halves`, `Joined`,
  `Word`), the upper one signed, which gives the number back below 2^64. SIGINT
  and Clear have the one effect on a service that IsShutdown turns true.
* In `TimingWheel` time passes in ticks, but a task is due to the millisecond: it is
  added any number of ms after the last tick (`since` in ReadIndex), and `left`
  counts from there. How long a callback ran and how far off it was are choices
  from `Delays`, which its next period makes up for. The wheels hold weak pointers:
  a task lives while its timer, a callback that has begun or Stop has a pointer
  (`lambda`). Async has none: calling through a freed task either finds the weak
  pointer expired or does anything, after which the model stops (`wild`).

## 4. Runs

| Run | Instance | What it shows |
|---|---|---|
| `rwlock` | 3 threads, fair | refinement of `RWLocks`, no starving writers |
| `block_live` | 3 threads in 2 processes, 2 blocks, `m_seq` modulo 3 | refinement of `RWLocks`; no call that failed keeps a lock; every call returns |
| `block_deaths` | 3 processes, 1 block, 1 death anywhere, spurious CAS failures | users are registered, the living are never struck out; after a clean death, and as long as no two survivors recover the block at once, the calls of both survivors return |
| `segment_life` | 2 creators and 2 readers in 3 processes, failing calls, 1 death | a segment is laid out once, by one process, however creators race, fail or die; calls return unless shm_unlink fails for ever; and, for a topic that is created once and nobody dies, the count is exact and the last one removes the name |
| `setup_layout` | all files of up to 4 of 5 entries, an index that counts to 4, 2 loads; every class boundary, 0 to 32 blocks | no complete entry is lost; the parse ends for exactly the files it can end for; creator and reader agree on the layout |
| `hela_batch` | 3 pieces (2 with data) of 2 parts, 2 destinations, 2 koala servers, 2 faults, 1 change of the cluster | reported success is a copy on every destination that is still online; references and verdict are right; no update is left unsent; the batch ends |
| `pool_live` | room for 2 elements, 2 consumers; 4 uses: blocking workers and 1 producer, sleeping workers and 2 producers, polling routines with 2 producers and 3 elements or with 1 producer and 5; workers stopped at any time | refinement of `BoundedFifo`; no producer spins for ever; sleeping workers serve everything and are joined |
| `data_sched` | 3 scenarios: 1 or 2 processors, a reader with a ring of 1 and 2 or 3 messages; a name created twice, removed and shut down | one processor per routine, removal is final, newer and newer messages, none is left unfetched, Shutdown returns |
| `shm_transport` | 3 scenarios: 2 transmitters and 1 dispatcher or 1 and 2, 3 messages through 2 blocks and a ring of 2; a failing serialisation; a shutdown of either side | messages whole, in order unless late, no side waits for ever |
| `service` | 2 threads of 1 or 2 clients, 3 requests, halves of 1 bit, the service destroyed or shut down at any time | answers match, all come, destroy returns |
| `timer` | 1 timer, wheels of 4 and 3, 2 ms resolution, periods 0, 3, 8, 23, 24 ms, callbacks of 4 ms, an error of -5 or 4 ms | a task added while the wheel stands still fires less than a tick from when it is due, a disturbed one within a round of it; a stopped one runs at most once more unless Tick catches it; every entry fires |
| `task_lost_wakeup` | 2 routines, 2 processors, 1 task | **violation**, see 7 |

Why the bounds are enough to be interesting:

* Three threads are the least with which a stale count can be swapped in after
  two others moved it there and back; in `block_live` two of them share a process,
  so that the mutex and the shared pid matter.
* Three processes are the least with which two survivors meet at the block of a
  dead one (`block_deaths`). The same holds with two deaths (625 878 states).
* `m_seq` modulo 3 with two blocks wraps in the middle of a round, as 2^32 does
  when the number of blocks is no power of two.
* The 8-bit index of the parser is `IndexMod`, 4 in the run, and files have up to
  4 entries, so that it wraps. LoadReturns speaks of the files for which the loop
  has an end (`Ends`): shorter than `IndexMod`, or with a complete entry whose
  numbers cannot be read. Without that premise it is violated.
* One death in `segment_life` may come at any of its steps; what the dead process
  leaves is what a later creator finds.
* With two faults and a change of the cluster, hela's run reaches every handler's
  error paths, redispatch and the timeout; a third fault repeats them.
* `pool_live` has a ring of four slots for two elements. Two elements wait
  together, two producers are between claim and commit at once and finish in either
  order, the queue is full and empty, and five elements lap the ring while a slow
  consumer copies a slot, whose torn copy its CAS discards.
* `BuiltOnce` is about two creators that replace each other's segment, with failing
  calls and a death; only RefsCountUsers and LastOneRemoves need CreatedOnce.
* A ring of 1 with 3 messages in `data_sched` laps its reader. Three messages
  through 2 blocks and a ring of 2 do the same in `shm_transport`, also in the
  middle of a copy.
* The timer's periods are below, at and above one round (8 ms) and just below the
  whole span (24 ms), and two that InitTimerTask refuses. One Start is enough for a
  task that re-adds itself.

`MaxCalls`, `MaxCreates`, `MaxReads`, `MaxDeaths`, `MaxLoads`, `MaxStarts`,
`Calls`, `Faults` and the fields of `bound` limit the behaviours. Where they do, a
run says CHECK_DEADLOCK FALSE: clients that have made their calls stop. `rwlock`
has no bound and is checked for deadlock.

## 5. Fairness

Weak fairness of each thread's own steps: a thread in the middle of a call is
scheduled again as long as its process lives, which an operating system
guarantees. In the locks that is `Continue(t)`; a client also gives back what it
was granted, as the API demands (hold and release are to be paired). Nobody need
begin a call. No fairness is assumed of deaths, failures, spurious wake-ups or
the success of a CAS.

Strong fairness, where a lock that is only free now and then must be got:

* `block_deaths`: TryLockForWrite of a living thread, whose rounds over the blocks
  meet a free block again and again.
* `data_sched`, `task_lost_wakeup`: the writers' side of the run queue's lock
  (`EnqueueTask`, `WriteLock`). `AtomicRWLock` holds back new readers while a
  writer waits; the run `rwlock` shows that its writer gets in (WriterGetsIn).
  The scheduler's model does not repeat that lock's waiting count.
* `service`: a mutex that others use again and again is obtained in the end.

hela: every request is answered or times out, and the schedule timer fires.
`timer`: only the tick thread is fair. `ShmConfig`: a parse continues. `pool_live`:
workers go on unless they are routines that poll, which nobody need resume.

With weak CAS failures that may go on for ever no spin loop ends, so
`block_live` sets `WeakCas` to FALSE, which is what compare_exchange_weak does on
the x86 that the build is for. `block_deaths` and the proofs allow them.

## 6. What is proved

All for every set of threads and processes, every number of blocks, slots,
retries and calls, from the named assumptions of each module (finite thread
sets, at least one block and one slot, bounds that are numbers). The inductive
invariants were checked by TLC on the runs' instances before they were proved.

**AtomicRWLock.** `IInv` is the types, exclusion, the exactness of both
counters and, for a reader about to swap, that the count it loaded was not
negative. Without the
last conjunct MutualExclusion is not inductive: a CAS from -1 to 0 would let a
reader in beside a writer. From it follow TypeCorrect, Exclusion, CountersExact
and the refinement of `RWLocks`.

**ShmBlock with deaths.** TypeCorrect; Registration (a living user of a block is
in its pid set) from the strengthening that whoever is to be removed is dead
(`VictimsAreDead`) and that a probe is in range (`ProbesInRange`); LivingKept,
the action property that a living pid is never struck out. These hold whatever
processes die and whenever.

**ShmBlock without deaths.** Exclusion, CountersExact, Refinement and NoLeak, for
`Spec`, in which nobody dies; with deaths they are false (section 7). `IInv` says
that the location of a thread fits its operation, that exactly the calls which
hold a lock are among the grants, that a block is granted to one writer or to
readers, and that the lock word counts the grants. The proof does not treat the
actions one by one against each conjunct. It shows first that every step has one
of six effects on the grants (it begins a call, leaves the grants alone, grants
writing, grants reading, gives back reading, gives back writing), then that each
effect preserves the invariant. NothingLeaks needs one fact more, that the slots
Insert has passed are taken and stay taken (`PassedTaken`): only so does the end
of the loop mean that the set is full.

**ShmSegment.** LaidOutOnce, for any number of processes and creators, failing
calls and deaths: no two calls of Create lay out one object, and none lays out an
object that is made. `BuildInv` adds that objects which do not exist yet are not
constructed, and follows from two kinds of step: one that makes a new object, with
a number nobody has, and one that leaves everybody's object alone (`LaysNothing`).
CountIsExact and NameIsRemoved are about a topic that is created once, by a Create
that does not fail, while no process is killed (`CreatedOnce`); with a second
creator the code fails as section 7 describes. CreatedOnce is part of the
properties and not an assumption, so the proof shows first that no step makes it
true again once it is false (`StillOnce`). `IInv` is the types and, where
CreatedOnce holds, `Once`: what the one object contains at each place of its
creator (`ObjectInv`, `CreatorsInv`), what a process that opens, has opened or
leaves it knows (`UsersInv`), that the reference count is the number of those who
have it open (`CountInv`), and that while the name is there somebody creates it,
has it open or is leaving, or shm_unlink has failed (`NameInv`). The last two are
needed since Destroy decreases the count, reads it and unlinks in separate steps,
and somebody may open in between.

**ShmConf.** `IInv`: the creator's layout is the one that the two numbers in the
`State` determine, and a reader that has the segment open has computed that
layout too. From it: Agreement; Buffers (disjoint and inside, which needs that
sizeof(State) and sizeof(Block) are at most the kilobyte each is counted as: the
assumption `SizeofAssumption`); Fit.

**ShmSetup.** The same for the segments as a process really makes them, from
files of any length and contents loaded one after the other. `SetupInv` adds
that what was loaded is clamped, which is what makes `IInv` survive
CreateSegmentFromConfig, and that ParseConfig has entered every complete entry
it has passed. From it: Loaded (AllLoaded: once LoadConfig has returned true
every complete entry's topic is known, whether or not the index wraps, for where
it wraps LoadConfig does not return), SetupAgreement, SetupBuffers.

**HelaTask.** For any finite number of pieces, any number of parts, destinations
and koala servers, any bounds on faults and on changes of the cluster. `IInv` has
a half for each loop. Of a transfer in the middle of its work (`Midway`) it says
that all earlier parts are on every destination still online and the present part
on those before the iterator; that whoever reads has the iterator at the first
destination; and that a reported success has every part everywhere. A retry, a
pending or a change of route keeps part and iterator; a change of the cluster only
takes destinations away. HandleWriteChunk goes on at the first online destination,
which exists because the natural numbers are well-founded (`FirstOf`). Of the
manager it says that a piece not yet dispatched has koala as its source
(`SourceInv`), that queries are disjoint sets of pieces that wait (`QueryInv`),
that the counters count the pieces by status (`CountInv`), that references are
exact, and that what CheckHelaTaskFinish saw still holds, the batch timer not
having fired (`EndInv`). Without SourceInv a piece sent to koala could pass for
the reader of a chunk source nobody counted; without QueryInv an answer could set
a settled piece running again. From it:
SuccessHasCopied, ReferencesAreExact, VerdictHolds and AllIsPublished, which the
run checks too; NoReferenceOutlives, that a completed batch holds no reference;
and the action property VerdictStands, that no later step changes the verdict,
the references, the status of a piece or what idun is told. A batch that timed
out may keep a reference (section 7).

**BoundedQueue.** `PoolQueueIsSafe`: the counters keep their order (head below
commit, commit at most tail, tail less than a lap ahead) and no two producers fill
one slot, for every use of the queue: workers that block or sleep and are stopped,
and routines that poll. It is not inductive. `IInv` adds, of a producer, that a
claim on the current tail was found to have room and that what it has written is
still there; of a consumer, that as long as its head is current its copy is what
the slot holds. The arithmetic rests on three lemmas about slots: numbers less
than a lap apart have different slots, a lap later the slot is the same, and every
index is in the pool. `PoolQueueIsFifo`: the queue implements `BoundedFifo`, in
every use. The elements that wait are the window of the ring between head and
commit; EnqueueCommit appends to it, DequeueTake removes its first, and no other
step changes a word in it (`WritesNoWaiting`).

**ClassicScheduler within DataPath.** OneProcessor and Removal, for any number
of processors, threads that create and remove, routines, ids and priorities, and
with Shutdown at any moment. OneProcessorPerRoutine follows from `HoldInv`: a
processor that has a routine in hand has its `lock_`, and the routine is in its
queue. The second half is there for RemovedIsGone, where nearly all the work is:
when AcquireAndErase has got the lock nobody has the routine, and it must be in
no queue and no map and must not come back. So `SchedInv` says that a routine
stands only in the queue of its priority and no two of one id do (`QueueInv`);
who holds the mutex of an id, and that its call is about that id (`MutexInv`);
that the map of ids and the queues agree except for what the holder of the id's
mutex is about to do at its place in Create or Remove (`IdInv`); and that an
object still being made is known to nobody else, and one removed is nowhere
(`ObjectInv`). A removal that lets go of the mutex before the queue is clean, or
a creation that enters the queue before the map, breaks `IdInv`.

**The rings of DataPath.** Newer: no reader is given an older message after a
newer one, nor the same one twice, for any size of the rings, any number of
readers and messages, and any interleaving of the writer with the readers.
`DataInv` says of each ring that its head and tail are at most the queue's size
apart and that the messages which can still be fetched grow with their index
(`RingInv`), and of each reader that these are at most what is being written,
that its next index is at most one past the tail, and that what it will fetch
from there on is newer than what it has taken (`ReaderInv`). Fetch of an index
that was overwritten jumps to the last message, so the claim is about every index
that is live and not only about the next. Two lemmas carry the arithmetic: indices
less than the capacity apart have different slots (`SlotsDiffer`), and an index
and the one a capacity later have the same (`SlotsWrap`); so a Fill that writes
where the head was writes the slot of the new tail, and no live one.

**CyberService.** Answers: as long as no client has given out `Word * Word`
numbers (`NumbersFit`; 2^64 with the 32-bit halves of the code), the future of every
request is set to the answer of that request, for any number of clients, threads
and calls, with messages in any order and destroy at any moment. `CarriedNumber`
shows that the two halves, the upper one signed, give such a number back. `IInv`
says that every message under way, in either direction or in the service, carries a
number that its client has given out, and that whoever waits for its number has
sent it. Pops: Process never takes the first
element of an empty list, although destroy writes `inited_` without the mutex,
between the test of the wait and the one after it.

Only proved, since the refinement that a run checks implies it or no instance
shows more: exclusion and the counters of both locks, the buffers and the fit of
messages, the counters of the queue, that Process finds a task, and what a
completed batch of hela leaves behind.

Only model-checked: all liveness (proofs of it and of ENABLED are beyond the
installed provers), among it that messages arrive, that LoadConfig returns and
that Shutdown ends, that the calls on a segment return and that a batch ends; and
everything about the task manager, the shared-memory transport and the timers,
which nothing but time stands in the way of.

## 7. Where the code does not do what it says

With a run:

* `task_lost_wakeup`: a routine of the task manager finds the queue empty
  (task_manager.cc:46) and hangs up (line 49). A task enqueued in between notifies
  routines that are not in DATA_WAIT yet; nobody sets a flag, and the task waits
  until another one is enqueued. The readers' routine (routine_factory.h:69) does
  it the other way round, waiting state first, and MessagesArrive shows that it
  is right.

The others are described without a run. Where a property is named, it is defined
beside those that hold, and fails on a small instance.

SHM_TEST:

* A pid stays in a block's set after its process has given the block back. When
  the process dies later, AnyAlive releases a lock for it, and that lock may be a
  living writer's (block.cpp:102): MutualExclusion fails with deaths.
* A process that dies between taking a lock and inserting its pid
  (alloc_memory_base.cpp:54) leaves a lock nobody can attribute. With one block,
  CallsReturn of `ShmBlock` fails under `FairMortalSpec`: a writer spins for ever.
  A process that dies while it recovers a block leaves the recovery half done; for
  a pid that stands for no lock any more a living process's lock is released, and
  then again by its holder, which leaves the lock word at -1. CleanDeaths in
  SurvivorsRecover excepts the three; without it the property fails.
* Two threads that find the same dead pid: the slower one repeats Remove for ever
  (block.cpp:97). AnyAliveAnswers fails with three processes and one death, and so
  does SurvivorsRecover without its premise OneRecovers.
* With a full pid set a call returns false and keeps the lock
  (alloc_memory_base.cpp:113): what SetsHaveRoom in the properties excepts.
* While a second process recreates a segment, a reader opens the new object
  between ftruncate and the construction of its blocks (alloc_memory.cpp:168):
  OpenIsMade fails.
* Recreate ignores the result of Remove (alloc_memory_base.cpp:162), and Create
  calls Recreate while the name exists: when shm_unlink (alloc_memory.cpp:212)
  keeps failing the two call each other for ever. CallsReturn of `ShmSegment`
  excepts that.
* HoldMemory on a topic whose segment is gone leaves an entry in the map;
  CreateSegment then reports success without creating it (shm_manager.cpp:98 and
  44).
* Recreate raises the remap flag of the new object instead of the old one
  (alloc_memory_base.cpp:172): ReplacedIsFlagged fails with two creators.
* Remap opens again without giving the first reference back
  (alloc_memory_base.cpp:155): NoReferenceLeaks fails, and the name stays.
* The index of a message is checked before Remap and used after it
  (alloc_memory_base.cpp:80 and 97): IndexInRange fails when another creator
  wants fewer blocks.
* ParseConfig's index is a uint8_t (shm_config.cpp:35): a file of 256 entries or
  more is parsed for ever, unless an entry's numbers cannot be read. The premise
  Ends of LoadReturns says so; without it the property fails. MAX_SEGMENT_COUNT
  (shm_config.h:87) is never used: SegmentsBounded fails for a file with more
  topics.

hela:

* An answer of idun that comes after the batch timed out takes a reference which
  nobody releases (do_hela_task.cc:509), while the comment at line 52 says the
  timeout clears them all: TimedOutHoldsNothing fails.
* The assertion at do_hela_pc_task.cc:334 contradicts the comment above it, and
  the refill at line 329 may pick the route that just failed.
* WriteDataToChunk sets a retry when there is no connection and goes on to use it
  (line 776): the model's process dies there, which BatchEnds excepts.
* The comments at lines 257 and 930 speak of a maximum timeout that nothing
  enforces: a transfer whose destination refuses for ever outlives its batch.
* exponential_backoff.h:12 says 20 times where the arithmetic gives 10; the step
  of the back-off is read from the key of the initial value (hela_context.cc:204).

my_cyber:

* The block strategy waits without a predicate (wait_strategy.h:45). A
  notification between the look at the queue and the wait is lost: a task may stay
  queued, and the destructor of ThreadPool, which "joins all threads"
  (thread_pool.h:99), may hang: DestructorJoins fails. A full queue drops the task
  and the caller's future is never ready (thread_pool.h:94). A producer with a
  stale tail may report "full" for an empty queue.
* RemoveCRoutine waits for a running routine with the write lock of its queue held
  (classic_context.cc:128). A routine that creates or removes a task of its own
  queue then waits for itself; the callbacks of the model do not.
* A notification is consumed by a processor that then passes over the routine,
  which another still holds; the routine runs up to a second later
  (classic_context.cc:92).
* Callbacks are registered after the routine was dispatched (scheduler.cc:68), so
  what comes before is not notified. The vectors of buffers and notifiers grow
  while they are walked (data_dispatcher.h:71, data_notifier.h:73); the model adds
  its readers one at a time and takes the vectors as safe.
* A zeroed ring seems to hold number 0 (condition_notifier.cc:102): the first
  message may be lost. A notifier that stalls for a whole lap puts an old number
  into a slot. TryLockForRead gives a block up after a few disturbed CASes
  (block.cc:58). Each of these makes the dispatcher late in InOrderOrLate.
* A response's callback runs with the mutex of the pending requests held
  (client.h:335), so it cannot send. A request that is never answered stays in
  the map (line 297). destroy drops the requests that are queued (service.h:132).
* AddTask between the wrap of the work index (timing_wheel.cc:155) and the step of
  the assistant index (line 162) puts a task of a round or more into the bucket
  that is about to be cascaded, and it fires a whole round early. Also without
  that, AddTask counts from the last tick, however long ago that was, so that a
  callback may come up to a resolution early, where timer.h:63 says "only after
  the first timing cycle". NeverEarly fails for both reasons. Disturbed between
  its two reads (lines 82 and 102) AddTask makes a task a round late. A periodic
  task close to the maximum may, to make up for having been early, ask for more
  than the wheels span (timer.cc:136). timer.h:54 gives the maximum as 512 * 64,
  the code accepts anything below 65536 (timer.cc:65). A Start that is refused
  leaves `started_` set (timer.cc:161).
* Tick gives Async a raw pointer into the task (timing_wheel.cc:67 to 73). When
  Stop frees the task before Async calls through it, the callback of a freed
  object is called (`wild` in `TimingWheel`); nothing is claimed after that. When
  Tick reaches a stopped task while a late callback, or Stop, still has its
  pointer, the task runs again, and so on as often as that happens (`caught`):
  StoppedRunsOnceMore without its premise fails. Stop from within the timer's own
  callback locks a mutex its thread holds (timer.cc:179).

## 8. Not modelled

* SHM_TEST: threads of one process that use `ShmManager`'s unsynchronised map at
  the same time, and a BlockCount of 0, which ends the process with a division by
  zero; the reuse of a pid by a new process; `ShmConf::GetBlockNum` and
  `MessageInfo`, which no code calls.
* hela: request headers, flow counters, route versions and the shuffling of the
  pieces, which are data; `hela_context` and `safe_arena`.
* my_cyber: the choreography scheduler, visitors of several channels, Remap,
  Recreate and Destroy of the transport's segments, the other transports,
  discovery, node and component, blocker, class loader, logger; WaitEnqueue and
  the strategies nobody uses; TaskManager::Shutdown. Concurrent calls on one Timer
  object are taken as serialised by its owner.
* RTPS, protobuf, YAML, libevent and glog are libraries; the switch of a
  coroutine's context is assembly.
* Everything outside these three programs. Nearly all of the repository's lines
  are vendored libraries (muduo, third-party headers), generated code, exercises
  and notes without state that outlives a call, so the modelled share of all lines
  stays small.
