# Verification of rcmw

TLA+ models of rcmw, a publish/subscribe middleware for robots in C++14 (a
coroutine scheduler, shared-memory transport, discovery over FastRTPS), the TLC
runs that check them on small instances, and TLAPS proofs of the properties that
matter most. Paths below are relative to `src/`.

## 1. The system

| Component | State it keeps | Operations | What is hard | What makes it correct |
|---|---|---|---|---|
| `base/bounded_queue.h` | cursors `head_`, `tail_`, `commit_`; ring `pool_` | Enqueue, Dequeue, WaitDequeue, BreakAllWait | lock-free, many producers and consumers; copy before claim; stale cursors | linearizable FIFO queue, complete elements, calls return |
| `base/thread_pool.h`, `wait_srategy.h` | task queue, `stop_`, `break_all_wait_`, a condition variable | Enqueue, worker loop, destructor | lost wake-ups, destruction during waits | accepted tasks run, destructor returns |
| `base/atomic_rw_lock.h`, `atomic_hash_map.h`, `concurrent_object_pool.h`, `unbounded_queue.h`, `signal_slot.h` | lock word, bucket lists, free list, linked nodes, slots | lock/unlock, Get/Set, Get/Release, Enqueue/Dequeue, Connect/emit | lock-free, ABA, values deleted while in use | exclusion; map, pool and queue semantics |
| `transport/shm/` | blocks with a lock word each, `seq_`, reference count; ring of announcements; sockets | acquire/release, Remap, Recreate, Destory; Notify, Listen, Shutdown | several processes, no blocking, crashes while holding, replacement under users | lock word exact, no torn reads, exact reference count, nothing older than announced |
| `transport/transmitter`, `dispatcher`, `receiver`, `message` | `enabled_`, `receiver_count_`, history, listeners per writer | Transmit, ThreadFunc, ReadMessage, AddListener, Enable, Disable | a block is reused after its announcement; full histories; several threads connecting | announced message or a newer one, once per receiver |
| `data/` | a ring per subscriber, vectors of buffers and notifiers, a fused ring | Fill, Fetch, Latest, Dispatch, Notify, fusion | slow visitors, dispatch by several threads | exact window, fetches in order, tuples that move forward |
| `scheduler/`, `croutine/`, `task/` | coroutines with state, lock and flag; a queue per priority; `id_cr_`; stacks | NextRoutine, Resume, Yield, CreateTask, RemoveTask, NotifyProcessor, Shutdown | wake-up against state change, removal while running, hand-written context switch | one processor per coroutine, no lost wake-up, removal and shutdown end, registers restored |
| `discovery/` | warehouses of roles, node graph, participants, slots of listeners, per process | Join, Leave, Dispose, Notify, Write, OnRemoteChange, OnParticipantChange | threads of one process and broadcasts of others in any order, losses, crashes | views converge, readers are counted, the graph tells the flow |
| `node/`, `blocker/` | nodes, publishers, subscribers, receivers by channel, histories | create, Init, Shutdown, Publish, Observe | creation and destruction by several threads, names that coincide | each subscriber has its coroutine and its writers |
| `common/`, `config/`, `init.cpp`, `logger/`, `time/`, `serialize/`, `thirdparty/nlohmann` | registries, configuration, log file, clock, byte buffers | register, look up, parse, rotate, sleep, encode, decode | racing first use, malformed files, rotation without a lock, widths | one scheduler, lines kept, what is written is read back |

How they interact: `Publisher::Publish` calls `ShmTransmitter::Transmit`, which
writes a block of the channel's segment and announces it on the notifier's ring.
The `ShmDispatcher` thread of every process of the host listens on the ring,
reads the block and, through the channel's listeners, calls
`DataDispatcher::Dispatch`, which fills the buffer of every subscriber and
notifies its coroutine. The scheduler's processors run the coroutine, which
fetches the message and calls the user's callback. Discovery tells publishers of
subscribers and enables their transmitters; `Init` reads the configuration, and
`Clear` takes everything down again.

`PROJECT.json` lists the components with what is modelled of each, the hazards
at their lines, and for every definition the lines it translates.

## 2. Modules

| Module | Models | State and actions against the code |
|---|---|---|
| `FifoQueue` | the promise of `BoundedQueue` | a sequence; put and take are atomic and may be refused |
| `BoundedQueue` | `bounded_queue.h` | one action per atomic access: load of `tail_` (`EnqueueCall`), full test with load of `head_`, exchange of `tail_` (`EnqueueClaim`, or `EnqueueRetry`), slot write in two steps, exchange of `commit_`; likewise Dequeue |
| `ThreadPool` | `thread_pool.h`, WaitDequeue, BreakAllWait, the strategies | workers with a program counter, the strategy's mutex, the sleepers of its condition variable; the queue is atomic, which `BoundedQueue` justifies. A behaviour has one of the strategies; `ThreadPool` itself constructs `BlockWaitStrategy` only |
| `AtomicRWLock` | `atomic_rw_lock.h` | every load, exchange and addition of the two locks, with and without `write_first_` |
| `ObjectPool`, `CCObjectPool` | `object_pool.h`, `concurrent_object_pool.h` | the sequential pool is the promise; the lock-free one, with its counted head, implements it |
| `UnboundedQueue` | `unbounded_queue.h` | the linked nodes with their reference counts, addresses given out again after deletion |
| `GlobalData` | `atomic_hash_map.h`, the registries of `global_data.cpp` | one bucket: Find, Get, Insert by atomic accesses, under RegisterChannel and the look-ups by id |
| `ShmSegment` | `segment.cpp`, `block.cpp` | threads of different processes; every access to the lock word is an action; `Crash` may come anywhere |
| `SegmentLifecycle` | `segment.cpp`, `xsi_segment.cpp`, `posix_segment.cpp`, `shm_conf.cpp` | OpenOrCreate, OpenOnly, Remap, Recreate, Destory, system calls that fail, processes that die. `Destory` is three steps: decrement, read, and the look-up of the key in Remove, which may find another segment (`Remove`); the histories `early`, `raced` and `orphaned` mark what goes wrong in between |
| `ConditionNotifier` | `condition_notifier.cpp` | Notify: draw, write info (two steps), stamp; Listen: load of `next_seq`, load of the stamp, copy in two steps |
| `MulticastNotifier` | `multicast_notifier.cpp`, `readable_info.cpp` | Init with the failure of each call, Notify, Listen, Shutdown over a table of file numbers |
| `ShmChannel` | `shm_transmitter.h` Transmit, `shm_dispatcher.cpp` | extends `ShmSegment` with the transmitters' and dispatchers' announcements, with `ConditionNotifier` as an instance, in the order of the calls |
| `RtpsTransport` | `rtps_transmitter.h`, `Manager::Write`, `participant.cpp` | the writer's bounded history, the removal of older changes and the second attempt |
| `Listeners` | `signal_slot.h`, `listener_handler.h`, dispatchers, receivers | Enable and Disable per writer by several threads, Run of a message slot by slot |
| `MessageInfo` | `identity.cpp`, `message_info.cpp` | words behind a message; Set, Get, serializers |
| `CacheBuffer`, `ChannelBuffer` | `cache_buffer.h`, `channel_buffer.h`, the visitor | operators on a ring; Dispatch, TryFetch, Latest, FetchMulti, each one action under the buffer's mutex |
| `DataFusion` | `all_latest.h` | the callback on the first channel reads the latest of the others, channel by channel, and fills the tuples' ring |
| `Scheduler` | `scheduler/`, `croutine/`, `data_dispatcher.h`, `data_notifier.h` | processors scanning the priority queues, an application thread creating and removing subscribers, a dispatcher thread |
| `SchedulerControl` | `scheduler.cpp`, `scheduler_classic.cpp`, `processor.cpp`, `task_manager.cpp`, `init.cpp` | tasks by name, groups of processors, TaskManager, Clear and Shutdown |
| `Croutine` | `croutine.cpp`, `croutine_context.cpp`, `swap_x86_64.S` | MakeContext and ctx_swap word by word on stacks; Resume, Yield, Sleep |
| `Topology` | `manager.cpp`, `channel_manager.cpp`, `publisher.h`, `subscriber.h`, Enable/Disable of `shm_transmitter.h` | a thread per role and a receiving thread per process, each with the change it is disposing of; a log of broadcasts per process, of which a receiver may lose some |
| `TopologyManager` | `topology_manager.cpp`, OnTopoModuleLeave, `multi_value_warehouse.cpp` | reports of participants, removal of roles with uninitialised search fields, the search and the removal of nodes as two steps, Shutdown; the history `swapped` has the nodes that took an id between the two |
| `NodeNames` | `node_manager.cpp`, `single_value_warehouse.cpp` | which node of a name each process keeps; DisposeJoin is the insertion attempt, the search and the comparison, each under its own lock, in two threads of a process |
| `NodeGraph` | `graph.cpp`, the warehouses of `channel_manager.cpp` | a warehouse or the graph at a time, per role; names are strings, and an edge is found by the string Edge::GetKey makes of channel and destination; GetFlowDirection's level traversal turn by turn |
| `NodeApi` | `node.h`, `subscriber.h`, `publisher.h`, `receiver_manager.h`, `transport.h` | creation, Init, Shutdown and the topology listeners of subscribers and publishers |
| `Blocker` | `blocker/` | Publish, Observe, Subscribe, Unsubscribe, Reset; Subscribe and Unsubscribe look the blocker up under the manager's mutex and go on under the blocker's, so that a Reset may come in between |
| `DataStream` | `serialize/` | values of every type, written and read in both byte orders; `load` and `clear` replace the bytes and keep the cursor, as the code does |
| `Json`, `BinaryJson` | `thirdparty/nlohmann`: lexer, parser, SAX consumer; CBOR, MessagePack, BSON | a character or an encoding at a time |
| `Config` | `config/`, `global_data.cpp`, `scheduler_factory.cpp`, `pin_thread.cpp` | from file contents to processors and their cpus, by racing first uses |
| `Logger`, `Rate` | `logger/`, `time/` | write, count, rotate over names and files; the cycle timer with widths and a clock that is set |
| `NatLemmas` | | lemmas on positions modulo the length of a ring, and induction over the natural numbers |
| `*Proofs` | | theorems on `BoundedQueue`; `ShmSegment` and `ShmChannel` (`ShmChannelProofs`); `ConditionNotifier` and the other parts of `MCTransport` (`TransportProofs`); `ChannelBuffer` and the other parts of `MCNodeParts` (`NodeProofs`); `Scheduler` and `Croutine` (`SchedulerProofs`); `Topology` |
| `BaseStructures` | | the lock, the pools, the queues and the registry side by side for TLC, and the theorems on them |
| `MC*` | | instances for TLC |

`BaseStructures`, `MCTransport`, `MCNode` and `MCSchedulerLive` collect the components of
one layer that share nothing in the model: a variable `which`, chosen in the first
state, says which of them a behaviour exercises, and the others stay in an initial
state. TLC's state space is the sum, not the product, of theirs, and fairness is
conditioned on `which`. `MCNodeParts` holds the parts of `MCNode` that need no
RECURSIVE operator, with the assumptions on their constants, so that theorems can
be stated about them; `MCNode` extends it with the others.

`ShmChannel` composes `ShmSegment` and `ConditionNotifier`: each of its steps is a step
of one of them or of none, by the way its actions are written (`SegmentRefined` and
`NotifierRefined` carry the theorems over); `BoundedQueue` implements `FifoQueue`, and
`CCObjectPool` implements `ObjectPool`; `ThreadPool` builds on the queue's promise
and `Scheduler` on the lock's; `ChannelBuffer`, `DataFusion` and `Scheduler` share
`CacheBuffer`. A definition whose comment begins with "Fault:" is a faulty version
of the one after it; no specification uses it, and it shows that a property can
fail.

### Abstractions

- Memory: atomics are sequentially consistent (each protocol synchronises through
  acquire/release accesses to one variable; the ring of `ConditionNotifier` is the
  exception, see its header). Plain data written under a race is `Torn`.
- A weak exchange may fail spuriously, except in `AtomicRWLock` (x86-64 does not, and
  the context switch is x86-64). 64-bit cursors do not wrap; `seq_` of a segment is 32
  bits, and every `block_num` divides 2^32. `Rate` and `Config` keep the widths of the
  numbers they convert, scaled to small words.
- Messages are numbers, elements model values; log texts are left out.
- `ShmSegment` and `ShmChannel` cover one channel while the segment keeps its size;
  `SegmentLifecycle` covers its replacement without the contents of the blocks.
- `Scheduler`: one group and one channel, single-channel subscribers. The
  `updated_` test and the state change of UpdateState are one step, because the
  coroutine is locked and a flag cleared in between is only seen by the next scan;
  Release is merged with the step before it. `notify_grp_` decides nothing, since
  `ClassicContext::Wait` returns after 1 ms in any case. `SchedulerControl` has the
  groups, the names and the shutdown, with the scan of the queues as one step.
- Undefined behaviour met on the way (a vector reallocated under an iterator, a
  `std::function` called while it is assigned, uninitialised search fields) is a choice
  that includes the end of the process.
- `Topology`: FastRTPS is external. `QOS_PROFILE_TOPO_CHANGE` asks for reliable
  delivery, but `transport/rtps/attributes_filler.cpp` makes every endpoint
  BEST_EFFORT, so any change may be lost to a process (`LoseChange`, bounded with the
  crashes by `MaxFaults`) and is never repeated.

## 3. What TLC checks

| Run | Bounds | Shows |
|---|---|---|
| `bounded_queue` | 2 producers, 2 consumers, queue of 2 (4 slots), 4 calls | slots owned, refinement of `FifoQueue`, justified refusals, calls return. Four calls use every slot and make the queue full with both producers inside. The elements are equal here; that different elements keep their order rests on the theorem `Refinement` |
| `base` | lock: 3 threads; thread pool: 2 workers, 3 tasks, queue of 2, all strategies; object pool: 2 threads, 3 nodes, 5 exchanges; unbounded queue: 2 producers, 3 addresses, 3 calls; registry: 2 threads, 2 keys with one hash, 2 calls each | the lock excludes, and a waiting writer gets in; accepted tasks run and the destructor returns, with every strategy but for the exceptions below; `CCObjectPool` implements `ObjectPool`, where five exchanges are enough for a node to come back to the head under a thread that read it; nodes of the queue have one owner although three addresses are reused; racing Sets keep a bucket sorted, complete and without leaks |
| `registry_lookup` | as `base` | **violated**: finding 4 |
| `thread_pool_block` | as `base`, Block only | **violated**: finding 1 |
| `shm_channel` | 2 transmitters, 1 dispatcher, 2 blocks, ring of 2, 3 draws, 1 crash | no half-written message is read (three draws reuse a block that may still be read); the announced message or a newer one is delivered; announcements are taken up |
| `shm_channel_segv` | 1 transmitter, 1 dispatcher, 2 blocks | **violated**: finding 2 |
| `scheduler` | 2 processors, 2 subscribers, 1 priority, 2 messages | one processor per coroutine, a removed coroutine is gone |
| `scheduler_live` | messages: 2 processors, 1 subscriber, 2 priorities, buffer of 1, 3 messages; control: one caller and the closing thread, 2 names, 2 coroutines, with and without a configuration; contexts: 2 processors, 2 coroutines, stacks of 12 words | notified messages are handled, removals end, Clear returns; every context switch restores stack, registers and code |
| `topology` | 2 processes, 1 publisher, 2 subscribers (one local, one remote; a role is the set of its process and its id), 1 crash or loss | views converge, readers are counted |
| `topology_match` | same, no fault | **violated**: finding 3 |
| `transport` | ring: 2 notifiers, 1 listener, length 2, 5 numbers, 1 crash; segment: 2 processes, message sizes below and above a size class, 3 segments, 1 fault; sockets: 2 listeners, 3 file numbers; RTPS: 2 senders, history of 2, 4 messages; listeners: 2 callers, 1 writer, 3 Enables. Symmetric in notifiers and processes | nothing older than its number is returned and numbers are skipped only when lapped (five numbers lap the ring twice); a segment's count covers its users, it keeps its key while it is used and goes with its last user, and everybody has its layout, through Recreate, Remap and Destory (190 304 states in all; the segments alone hold in 6.2 million states of 3 processes as well); sockets closed and no one else's file; what is reported as sent was in the history; a listener per enabled writer and one call per message |
| `node` | cache of 2, 7 messages; fusion of 3 channels; blockers: 1 publisher, 1 callback, capacities 0 to 2, 2 blockers made one after the other by Reset (with 2 publishers the same holds in 2.3 million states, which is too long for the run); API: 2 callers, 2 nodes, 1 channel, 1 remote writer; graph: 5 roles in 2 nodes, with a loop, a node with two writers of a channel and two edges under one key ("x" to "y_z", "x_y" to "z"); names: 3 nodes in 2 processes; participants: 2 processes with nodes of one name, 3 reports; texts of up to 4 pieces; values at every boundary of an encoding's width; 7 types of streams; 2 loggers, 2 lines each, 3 seconds; cycles of 2 and 3 ticks, clock up to 7, set twice; 7 configuration files, 2 threads | see below |

The properties of `node`, one or more per component: fetches are in order and exact
after an overrun (`FetchesInOrder`; seven messages wrap the ring of 2 more than twice);
fused tuples move forward in every channel (`FusionMovesForward`); a blocker holds a run
of messages down from the newest and calls nobody who unsubscribed (`BlockersOrderly`); a
subscriber has its own coroutine and its channel's writers (`SubscribersServed`); the graph
tells the flow between nodes (`FlowExact`); the earliest node of a name is kept and a
participant's end is signalled once and takes no other process's roles along (`PeersTracked`); what is
written is read back (`WrittenReadsBack`); JSON texts are parsed to the value they denote
(`TextIsParsed`); log lines are kept through rotations (`LinesKept`); Rate keeps its pace
(`KeepsThePace`); one scheduler is made and its threads are pinned inside their groups
(`SchedulerConfigured`).

Some properties hold only with an exception, which is part of their statement because the
code does otherwise:

| Property | Excepted | Why |
|---|---|---|
| `AcceptedTaskRuns` | with the Block strategy, a task queued while no worker is awake | finding 1 |
| `DestructorReturns` | with the Block strategy, a worker between its predicate and its sleep when BreakAllWait is over | finding 5 |
| `SegmentExact` | segments opened before their State is built (`early`) | the constructor then resets a count already in use (`transport/shm/xsi_segment.cpp:109`) |
| | the exact count, and the key, of a segment that is flagged (`need_remap`) | Remap and Recreate detach without decreasing the count; Recreate removes the key on purpose |
| | the key of a segment opened while its last user removes it, or taken by another segment's Remove (`raced`) | finding 8 |
| | a segment whose last user was killed between the decrement and Remove (`orphaned`) | nobody removes it then |
| | the index of a read that remaps within the same call | finding 7 |
| `ReportedIsKept` | threads that overlap in Transmit | the result of the second `add_change` is dropped (`rtps_transmitter.h:127`) |
| `CountsReaders` | subscribers that leave | Disable decrements and then disables (`shm_transmitter.h:80`) |
| `DiscoveryConverges` | changes a process lost | they are never repeated |
| `ClearReturns` | a TaskManager whose coroutine spins | HangUp does not yield (`task/task_manager.cpp:28`) |
| `FlowExact` | nodes with two writers or readers of a channel, one of which left | Delete takes the other's edge as well (`graph.cpp:178`). What is said of them is only that no flow is reported that is not there |
| | edges whose key another edge of the same source has | the later takes the place of the earlier (`graph.cpp:73`); likewise |
| `PeersTracked` | a process that disposed of two joins of a name at once need not keep the earliest (it keeps one that joined) | check and insertion are not one step (`node_manager.cpp:65`) |
| | a node that took the id of a node found, before the removal by that id | search and removal are not one step (`node_manager.cpp:52`) |
| `BlockersOrderly` | a callback whose Subscribe looked its blocker up before a Reset and registered after it | look-up and registration are not one step (`blocker_manager.h:90`) |
| `LinesKept` | two rotations in a second | they get the same file name |
| `KeepsThePace` | a clock set back during the sleep | the sleep is until a time of the system clock |
| `WrittenReadsBack` | vectors of elements wider than a byte | finding 6 |
| | reads from a cursor that `clear` or `load` left in the middle of other bytes | they keep `m_pos` (`serialize/data_stream.cpp:144`) |
| | the sequence number of an info that went through SerializeTo | it is copied from the address `seq_num_`, not from its own (`transport/message/message_info.cpp:58,68`): a crash or whatever is there. Nothing calls it |

Every property of a passing run is violated by at least one fault listed under
`mutants` in `PROJECT.json`. Where a run disables TLC's deadlock check, the system may
really stop: its bounded calls are made, everybody has crashed, or nobody publishes.

### Fairness

Weak fairness on what a running thread does once it is inside an operation: an
Enqueue or Dequeue goes on, workers are scheduled, sleeps and timeouts end, callbacks
return, dispatcher and processor threads loop, FastRTPS delivers what it does not lose. No
fairness on starting a call, on crashes and losses, on spurious wake-ups or on joining and
leaving. An exchange that fails spuriously for ever is excluded by fairness on its success
where a liveness property needs it (`BoundedQueue!Fairness`), as hardware guarantees.
`WriterGetsIn` needs no fairness between threads beyond that each of them runs: new
readers stand back for a waiting writer. A thread that has crashed takes no more steps, so
fairness asks nothing of it.

### Findings

1. *ThreadPool does not run tasks queued while its workers wait.*
   `BlockWaitStrategy::EmptyWait` (`base/wait_srategy.h:36`) waits for
   `break_all_wait` alone, so a notified worker sleeps again.
   `m_test/test_thread_pool.cpp:23` waits for the futures.
2. *ReadMessage goes on after a failed AcquireBlockToRead*
   (`transport/dispatcher/shm_dispatcher.cpp:92`) and dereferences a null block. It
   suffices that the transmitter takes the block again before it is read.
3. *A publisher created after a subscriber is not matched.*
   `Publisher::JoinTheTopology` (`node/publisher.h:103`) does not enable its
   transmitter for readers it already knows: `HasSubscriber()` is true and `Transmit`
   returns false, against `README.md:124`.
4. *The registries are not read-only at run time.* Registering a name again replaces and
   deletes the string another thread has just been given by Get
   (`base/atomic_hash_map.h:157`), and the queries of the channel manager register names;
   `doc/base_components.md:31` says there is no such race.

The first four have a run of their own. Of the next four, a property of a passing run
excepts exactly the states concerned, and fails without the exception:

5. *~ThreadPool can hang.* `BreakAllWait` (`base/bounded_queue.h:200`) sets its flag and
   notifies without the mutex; a worker that has tested the predicate of
   `BlockWaitStrategy` and does not sleep yet misses both, though `wait_srategy.h:4` says
   the flag is there to prevent this.
6. *Vectors of wide elements do not come back.* `write` and `read` copy one byte per element
   (`serialize/data_stream.h:202`, `:263`), against `doc/serialize.md:4`.
7. *AcquireBlockToRead tests the index before it remaps* (`transport/shm/segment.cpp:73`):
   the new segment may have fewer blocks.
8. *The last user's Remove can hit a segment in use* (`transport/shm/segment.cpp:106`):
   another process may open it after the count was read, or create another one under the
   key before Remove looks it up.
9. *GetDownStreamOfnode asks for the readers of the node*
   (`discovery/specific_manager/channel_manager.cpp:83`), where it means its writers. Nothing
   calls it; `NodeGraph` has it, and no run checks it.

## 4. What TLAPS proves

For every value of the constants, from the named assumptions of each module (disjoint
and, where counted, finite sets of threads; sizes that are natural numbers).

| Theorems | Argument |
|---|---|
| `BoundedQueueProofs`: `TypeCorrect`, `CursorsCorrect`, `SlotsOwned`, `DeliveryComplete`, `RefusalJustified`, `Refinement` | `IInv` adds to the properties what a thread's stale locals still guarantee: a producer whose `old_tail` is current has room, because `head_` only grows; claims lie in [commit, tail) and are distinct; a consumer whose `old_head` is current holds the committed element. `LapDistinct` of `NatLemmas` turns "less than a lap apart" into "different slots". The refinement maps the commit to Put and the exchange of `head_` to Take; `CommitAppends` and `ClaimRemoves` show what they do to the represented sequence |
| `ShmChannelProofs`, the segment: `TypeCorrect`, `LocksExact`, `ReadsComplete`, `ReadsStable` | `IInv` adds that a block is torn only under its writer (also a crashed one), and that a reader about to exchange has seen a free word. Each lock operation changes the set of holders and the word together |
| `ShmChannelProofs`, the channel: `DeliveriesSound`, `SegmentRefined`, `NotifierRefined` | `ChannelInv` adds that a notification in the ring or in a dispatcher's hands names a block and a message that was written to it, that a block holds the newest message its writers have drawn for it, and that a dispatcher keeps to the notification it took. The refinements are step simulations: a step of the channel is a step of each component or leaves its state alone, so the theorems on segment and ring hold inside the channel |
| `TransportProofs`, `ConditionNotifier`: `CursorsBehind`, `ReturnsNotOlder`, `SkipsJustified` | `IInv` adds that stamps come from `next_seq` and belong to their slot, that an un-overrun slot has at most one live Notify, newer than its stamp, and that a slot holds what its stamp names or what that Notify writes |
| `TransportProofs`, `RtpsTransport`: `ReportsKept` | `RtpsInv`: the history never exceeds its depth, and a thread alone in Transmit that removed older changes finds room for its second attempt |
| `TransportProofs`, `MulticastNotifier`: `SocketsAreClosed` | `MultiInv`: the descriptors the notifier remembers are its own open ones or none, at every call of Init that may fail |
| `TransportProofs`, `SegmentLifecycle`: `SegmentIsExact` | `LifeInv`: which processes are attached to which segment (`Attachment`), that a State that is not built has no count (`Unbuilt`), that the count is at least the number of users, the dead included, and that number until the segment is flagged (`UsersCounted`), and that everybody's layout is the creator's (`LaidOut`). Attaching and detaching change a cardinality by one. On top of it `KeysInv`: who holds a segment, counted or about to be, finds it under its key (`KeyKept`), a process about to remove one is its only holder (`RemovedUnused`), and a segment without references has somebody who will see to it; each with the exceptions above |
| `TransportProofs`, `Listeners`: `ListenersAreServed` | `ListenInv`: one handler per channel and one connection per Enable (`OneHandler`, `ConnectionsDiffer`), what receivers of all writers hold (`AllAlone`, `AllSlot`), that a writer enabled once has its one connected slot (`ServedOnce`), and that a Run calls each slot once (`RunsOnce`) |
| `NodeProofs`, `ChannelBuffer`: `TypeCorrect`, `WindowCorrect`, `ReadsCorrect`, `FetchOrder` | the window is exact: `Fill` writes the slot of the oldest message, which `IndexDistinct` separates from the others |
| `NodeProofs`, `DataFusion`: `FusionForward` | `FusionInv`: rings of the other channels hold their latest message where it is looked for (`OthersLatest`), the callback has read no message older than the dispatch began with (`CallbackReads`), and tuples of the ring are in order, after what was fetched (`TuplesInOrder`) |
| `NodeProofs`, `Rate`: `PaceKept` | `RateInv` keeps the times within a cycle of the clock, so that no conversion between signed and unsigned numbers and no sum leaves the range of its word |
| `NodeProofs`, `Blocker`: `BlockersKeepOrder` | `BlockerInv` adds that publishers work on blockers that were made and call only registered callbacks (`CallsRegistered`), and that blockers not yet made are empty; trimming keeps a run of the newest (`TrimmedRun`). `UserInv`: a registered callback was subscribed by its user on the map's blocker, or strayed (`Registered`) |
| `NodeProofs`, `Logger`: `LinesAreKept` | `LogInv`: names differ, every file with lines has a name or is open, and a thread's line is in no file before its write |
| `NodeProofs`, `NodeApi`: `SubscribersAreServed` | `ApiInv`: creations of one channel exclude each other (`CreationsApart`), a task belongs to the subscriber that created it (`TaskOwned`), a subscriber listens before it looks at the writers (`ListensFirst`), every known writer is enabled or in a callback on its way (`WritersReached`), and leaves are recorded (`LeavesRecorded`) |
| `NodeProofs`, `NodeNames` and `TopologyManager`: `PeersAreTracked` | `NameInv`: joins that do not overlap are disposed of one by one (`JoinsAlone`), every process keeps a node it was told of (`HeardOwns`), and without overlap the earliest, but for the ones a thread has in hand (`EarliestOwns`); `ManagerInv`: warehouses are filed under their keys (`NodesByKey`), a leave is paired with a join (`LeavesPaired`), and what a search found is the vanished process's, as is what is filed under the ids found unless it was swapped (`FoundOwn`) |
| `NodeProofs`, `Config`: `SchedulerIsConfigured` | `FactoryInv`: who is past the second test holds the mutex, and the instance is stored once. `PinInv`: there is a numbering under which each processor has the place of its group that its number says (`LaidOut`); `Places` says where each number that `ParseCpuset` appends comes from, by induction over the pieces of the text, so that a cpuset that lists no cpu twice gives different numbers different cpus |
| `NodeProofs`, `NodeGraph`: `FlowIsExact` | `GraphInv`: the pairs of `edges_` are those of the roles in the graph, but for a pair a twin took along (`HeldBy`, with the robbed roles), `list_` has no edge without source and destination (`EdgesKnown`) and joins those of each channel unless keys clash (`EdgesComplete`), its nodes are among the keys (`EndsKnown`), and the warehouses hold the roles at the stages between (`WarehousesHold`). `TraverseExact` is separate: `SearchInv`, by induction over the turns, says that only reachable nodes are queued or visited, that unless `end` was found everything one edge away from a visited node is too, and that the number of turns and queued nodes is at most one more than the edges of visited nodes, so that the loop ends within the edges plus one |
| `TopologyProofs`: `ReadersCounted` | `TopoInv` is two parts. Always (`ThreadInv`): each role's thread disposes of that role's change and each receiving thread of another process's, logs hold the changes of their own process, and a thread calls publishers of its own process that have listened. While nobody leaves (`CountInv`): a subscriber is written once, becomes known in a process once, by one thread (`OneDisposer`), and is missed exactly by the publishers that did not listen then; the count of a publisher is the number of known, not missed subscribers that no thread has still to count for it; and a positive count is enabled or about to be. `EnableCount` moves one subscriber from the second set to the first. Losses and crashes disturb none of it. The condition on leaving is monotone (`LeavesStay`), which is why it may stand inside the invariant |
| `SchedulerProofs`: `TypeCorrect`, `OneProcessorHolds`, `RemovedIsGoneHolds` | `SInv` is the type, that a coroutine's lock is held exactly by the one processor that is at it (`Held`), that the queue of its priority holds a coroutine exactly once from its dispatch to its removal and no other queue does (`Queues`), and how far creation and removal have come: only a finished creation is removed, and a removal that has passed its spin leaves the lock free (`Removals`). Without `Queues` neither property is inductive: a second entry could be picked after the removal |
| `BaseStructures`, `AtomicRWLock`: `LockExcludes` | `LockInv` is the type, the exclusion itself in its exact form (`lock_num_` counts the readers inside, or is -1 with one writer inside) and that a reader about to exchange has loaded a word without a writer. Each exchange tests again what the load saw. Adding or removing a reader changes a cardinality by one, so the set of threads must be finite |
| `BaseStructures`, `CCObjectPool`: `PoolIsLinearizable` | `PoolInv`: the nodes from `free_head_` on form a list without repetition that ends in null (`IsFree`) and holds no node that a thread has taken, no two threads have the same node, and a thread whose `old_head` still equals the counted head has read the `next` the list has there (`CallsCoherent`): the count is what excludes a node that came back. The list is the refinement mapping; an exchange that succeeds takes or puts its head |
| `BaseStructures`, `UnboundedQueue`: `QueueIsSound` | `QueueInv`: there is a sequence of different addresses from `head_` to `tail_`, in the order in which `tail_` was exchanged (`InShape`); a node is linked to the next or its producer is about to link it (`LinkedUp`); a node is alive as long as the producers' or the consumer's side has it, and its reference count says which (`Alive`); nodes on their way in or out are each one thread's (`Apart`); `size_` lags behind by the calls that have not counted (`SizeCounts`) |
| `BaseStructures`, `GlobalData`: `RegistryIsSound` | `RegistryInv`: a set of entries is closed under `next`, keys grow along it, and from a smaller key `next` never leads past one that is there (`IsBucket`); entries and values outside have one thread each (`EntriesOwned`, `ValuesOwned`); a call stands at an entry before its key, and at one that was its successor (`Finding`). No entry is erased, so a stale position stays in the set. That the set is what the list reaches follows from a smallest entry that is not reached |
| `SchedulerProofs`, `Croutine`: `SwapsAreIntact` | `CtxInv` gives for every processor where it is, its registers and the frame it left on its own stack (`ProcessorAt`, `Frame`), and says of every routine that no processor has that its stack holds the frame it will be resumed from (`Suspended`); a routine is at one processor at most. The stack is the whole state of who does not run, so a swap is popping exactly the frame the last swap pushed |

`BoundedQueueProofs`, `ShmChannelProofs`, `TransportProofs` and `NodeProofs` state
`Invariance` (`Spec => []IInv`) for the component whose module they extend, with one lemma
per action. The invariants were checked by TLC before they were proved. The bounds on calls,
draws, numbers and messages (`MaxCalls`, `MaxDraws`, `MaxSeq`, `MaxMsgs`, `MaxEnables`, ...)
are arbitrary naturals in the proofs.

What is assumed of the constants, beside types: `MCTransport` assumes a history and a step of
removal of at least one change and finite sets of processes and callers; `MCNodeParts` that
the clock and two cycles stay below half the range of the 64-bit word (`RateConstants`; the
clock reaches it in the year 2262), that node objects, threads and markers differ, that every
node of `NodeNames` has a process and a time of joining other than 0, that the conversions of a
configuration file yield the types of its fields (`ConfigTypes`) and that there are finitely many
roles, each a writer or a reader (`FlowConstants`); `BaseStructures` and the modules it extends
that pointers and null differ, that threads and addresses of the queue are finite and that the
pool has a node; `MCSchedulerLive` that threads and coroutines differ and a stack has room for
the frame of nine words that MakeContext prepares (`ContextConstants`); `Topology` that a role names one process
(`TopoHome`), that publishers and subscribers differ, and that the set of subscribers is finite.

Induction: the provers cannot instantiate the library's induction rules, whose parameter is an
operator. `NatLemmas` states the principle for sets (`Least`, `NatInduct`), which they can use;
with it the recursive functions of the models (`ParseCpuset`, `LevelTraverse`, the lists of the
base layer) are shown to exist and characterised for every input.

Only model-checked:

- All liveness (`CallsReturn`, `AcceptedTaskRuns`, `DestructorReturns`, `WriterGetsIn`,
  `AnnouncementsTaken`, `AnnouncedIsHandled`, `RemoveReturns`, `ClearReturns`,
  `DiscoveryConverges`): there is no reasoning about ENABLED and fairness in these proofs.
- `WrittenReadsBack` and `TextIsParsed`: `DataStream`, `Json` and `BinaryJson` use RECURSIVE
  operators, of which the prover can say nothing, and so are extended by no module with a
  theorem.

## 5. Not modelled, and the plan

Left out:

- The JSON library beyond what reads configurations and its three binary codecs: the text
  serializer, number formatting (`to_chars.hpp`), pointers, patches, iterators and
  conversions, UBJSON and BJData. None has a caller in the repository. The library is
  24.7 of the 39.8 thousand lines of the repository's code.
- Formatting of times, dates and log lines; banners and signal handlers of `init.cpp`.
- Performance events: `enable_` of `PerfEventCache` is never set
  (`event/perf_event_cache.cpp:26`), so nothing of it runs.
- FastRTPS, the operating system's calls and the file system are external: modelled by how
  the code uses them.
- The creation of the notifier's own segment, which repeats the calls of `XsiSegment`.

Hazards without a property, and why:

- A callback that removes its own coroutine waits for a lock its own processor holds
  (`classic_context.cpp:114`): callbacks of the model do not, as none in the repository does.
- Dispatch iterates over a vector that AddBuffer may reallocate (`data_dispatcher.h:74`):
  modelled as an outcome that ends the process; nothing promises that it cannot happen.

- A task the full queue of the pool refuses is dropped (`thread_pool.h:68`): the code does so, and
  nothing says how the caller should hear of it.
- A TaskManager's coroutine spins on an empty queue (`task/task_manager.cpp:28`): `ClearReturns`
  excepts it, since Clear does not return.

Known and excepted rather than covered: a reader that joins between the two halves of
Disable (`shm_transmitter.h:80`); Transmit tests `enabled_` and then uses what Disable resets
(`shm_transmitter.h:133`); a slot is tested and then called, while its publisher may have
shut down (`signal_slot.h:126`); and all of the table in section 3.

What would extend the project most: a composition of `SegmentLifecycle` with the contents of
the blocks; two channels in `Scheduler`; and the codecs written with recursive functions, so
that `WrittenReadsBack` can be proved as well.
