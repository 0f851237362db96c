----------------------------- MODULE ThreadPool -----------------------------
(***************************************************************************)
(* base::ThreadPool (base/thread_pool.h) over BoundedQueue::WaitDequeue and *)
(* the wait strategies of base/wait_srategy.h.  The same worker loop, with *)
(* the Sleep strategy, is event::PerfEventCache::Run.                      *)
(*                                                                         *)
(* The task queue is atomic here: BoundedQueue is proved linearizable in   *)
(* BoundedQueueProofs.  One owner thread submits the tasks and destroys    *)
(* the pool, as m_test/test_thread_pool.cpp does.  The code's ThreadPool   *)
(* uses the Block strategy; PerfEventCache and a default BoundedQueue use  *)
(* Sleep (Yield and BusySpin return at once and behave as Sleep does).     *)
(***************************************************************************)
EXTENDS Naturals, Sequences, FiniteSets, SequencesExt

CONSTANTS
  Workers,       \* the pool's threads
  Tasks,         \* the calls of ThreadPool::Enqueue the owner makes
  max_task_num,  \* capacity of the task queue
  Strategies,    \* the wait strategies the pool's queue may be given
  None           \* no task, nobody

ASSUME WorkersAssumption == IsFiniteSet(Workers) /\ None \notin Workers
ASSUME TasksAssumption == None \notin Tasks
ASSUME QueueAssumption == max_task_num \in Nat
ASSUME StrategiesAssumption == Strategies \subseteq {"Block", "Sleep", "Timeout"}

VARIABLES
  strategy,         \* task_queue_.wait_strategy_, given to its Init
  queue,            \* task_queue_
  stop,             \* stop_
  break_all_wait,   \* task_queue_.break_all_wait_
  mutex,            \* holder of the strategy's mutex_
  pc,               \* where each worker is
  task,             \* the worker's local task
  owner,            \* where the owner is
  future            \* state of the future of each task

vars == <<strategy, queue, stop, break_all_wait, mutex, pc, task, owner, future>>

Init ==
  /\ strategy \in Strategies
  /\ queue = <<>>
  /\ stop = FALSE /\ break_all_wait = FALSE
  /\ mutex = None
  /\ pc = [w \in Workers |-> "loop"]
  /\ task = [w \in Workers |-> None]
  /\ owner = "submit"
  /\ future = [t \in Tasks |-> "none"]

Goto(w, from, to) ==
  /\ pc[w] = from
  /\ pc' = [pc EXCEPT ![w] = to]

-----------------------------------------------------------------------------
(* The worker: while(!stop_) if(WaitDequeue(&task)) task(); *)
WorkerLoop(w) ==
  /\ Goto(w, "loop", IF stop THEN "exited" ELSE "wait")
  /\ UNCHANGED <<strategy, queue, stop, break_all_wait, mutex, task, owner, future>>

(* WaitDequeue: while(!break_all_wait_). *)
WaitDequeueLoop(w) ==
  /\ Goto(w, "wait", IF break_all_wait THEN "loop" ELSE "dequeue")
  /\ UNCHANGED <<strategy, queue, stop, break_all_wait, mutex, task, owner, future>>

WaitDequeueTry(w) ==
  /\ \/ /\ queue # <<>>
        /\ task' = [task EXCEPT ![w] = Head(queue)]
        /\ queue' = Tail(queue)
        /\ Goto(w, "dequeue", "run")
     \/ /\ queue = <<>>
        /\ Goto(w, "dequeue", "empty")
        /\ UNCHANGED <<queue, task>>
  /\ UNCHANGED <<strategy, stop, break_all_wait, mutex, owner, future>>

(* Fault: after a task the worker waits before it looks at the queue. *)
RunTaskThenWait(w) ==
  /\ Goto(w, "run", "empty")
  /\ future' = [future EXCEPT ![task[w]] = "ready"]
  /\ task' = [task EXCEPT ![w] = None]
  /\ UNCHANGED <<strategy, queue, stop, break_all_wait, mutex, owner>>

RunTask(w) ==
  /\ Goto(w, "run", "loop")
  /\ future' = [future EXCEPT ![task[w]] = "ready"]
  /\ task' = [task EXCEPT ![w] = None]
  /\ UNCHANGED <<strategy, queue, stop, break_all_wait, mutex, owner>>

-----------------------------------------------------------------------------
(* EmptyWait of the strategies. *)

(* Sleep, Yield and BusySpin: return true after a while. *)
EmptyWaitSleep(w) ==
  /\ strategy = "Sleep"
  /\ Goto(w, "empty", "wait")
  /\ UNCHANGED <<strategy, queue, stop, break_all_wait, mutex, task, owner, future>>

(* Block and Timeout: take the mutex, on entry and after a wake-up. *)
EmptyWaitLock(w) ==
  /\ strategy # "Sleep"
  /\ mutex = None
  /\ mutex' = w
  /\ Goto(w, "empty", IF strategy = "Block" THEN "test" ELSE "block")
  /\ UNCHANGED <<strategy, queue, stop, break_all_wait, task, owner, future>>

(* Block: cv_.wait's predicate is break_all_wait alone. *)
BlockPredicate(w) ==
  /\ \/ break_all_wait /\ Goto(w, "test", "wait") /\ mutex' = None
     \/ ~break_all_wait /\ Goto(w, "test", "block") /\ UNCHANGED mutex
  /\ UNCHANGED <<strategy, queue, stop, break_all_wait, task, owner, future>>

(* The condition variable releases the mutex and sleeps in one step. *)
EmptyWaitBlock(w) ==
  /\ Goto(w, "block", "blocked")
  /\ mutex' = None
  /\ UNCHANGED <<strategy, queue, stop, break_all_wait, task, owner, future>>

(* Where a sleeper goes when it is woken: Block takes the mutex and tests  *)
(* its predicate again, Timeout returns true from EmptyWait.               *)
Woken == IF strategy = "Block" THEN "empty" ELSE "wait"

(* A condition variable may wake without a notification. *)
SpuriousWake(w) ==
  /\ Goto(w, "blocked", Woken)
  /\ UNCHANGED <<strategy, queue, stop, break_all_wait, mutex, task, owner, future>>

(* Timeout: EmptyWait returns false, and so does WaitDequeue. *)
EmptyWaitTimeout(w) ==
  /\ strategy = "Timeout"
  /\ Goto(w, "blocked", "loop")
  /\ UNCHANGED <<strategy, queue, stop, break_all_wait, mutex, task, owner, future>>

(* cv_.notify_one() at the end of BoundedQueue::Enqueue: one sleeper, if   *)
(* there is one.  The Sleep strategy's NotifyOne does nothing.             *)
NotifyOne ==
  \/ /\ \A w \in Workers : pc[w] # "blocked"
     /\ UNCHANGED pc
  \/ \E w \in Workers : Goto(w, "blocked", Woken)

-----------------------------------------------------------------------------

(* ThreadPool::Enqueue.  The result of the queue's Enqueue is ignored: a   *)
(* refused task is destroyed and its future is broken.                     *)
Enqueue(t) ==
  /\ owner = "submit" /\ ~stop
  /\ future[t] = "none"
  /\ \/ /\ Len(queue) < max_task_num
        /\ queue' = Append(queue, t)
        /\ future' = [future EXCEPT ![t] = "pending"]
        /\ NotifyOne
     \/ /\ Len(queue) = max_task_num
        /\ future' = [future EXCEPT ![t] = "broken"]
        /\ UNCHANGED <<queue, pc>>
  /\ UNCHANGED <<strategy, stop, break_all_wait, mutex, task, owner>>

(* ~ThreadPool: stop_.exchange(true), then BreakAllWait, then join. *)
DestroyStop ==
  /\ owner = "submit"
  /\ stop' = TRUE
  /\ owner' = "break"
  /\ UNCHANGED <<strategy, queue, break_all_wait, mutex, pc, task, future>>

(* Fault: the destructor does not break the waits. *)
BreakAllWaitSkipped ==
  /\ owner = "break"
  /\ owner' = "notify"
  /\ UNCHANGED <<strategy, queue, stop, break_all_wait, mutex, pc, task, future>>

(* BreakAllWait sets the flag without the mutex the waiters hold. *)
BreakAllWaitSet ==
  /\ owner = "break"
  /\ break_all_wait' = TRUE
  /\ owner' = "notify"
  /\ UNCHANGED <<strategy, queue, stop, mutex, pc, task, future>>

BreakAllWaitNotify ==
  /\ owner = "notify"
  /\ pc' = [w \in Workers |-> IF pc[w] = "blocked" THEN Woken ELSE pc[w]]
  /\ owner' = "join"
  /\ UNCHANGED <<strategy, queue, stop, break_all_wait, mutex, task, future>>

(* All workers joined; the queue's destructor destroys the tasks left. *)
DestroyJoin ==
  /\ owner = "join"
  /\ \A w \in Workers : pc[w] = "exited"
  /\ owner' = "done"
  /\ queue' = <<>>
  /\ future' = [t \in Tasks |-> IF t \in ToSet(queue) THEN "broken" ELSE future[t]]
  /\ UNCHANGED <<strategy, stop, break_all_wait, mutex, pc, task>>

-----------------------------------------------------------------------------
WorkerStep(w) ==
  \/ WorkerLoop(w) \/ WaitDequeueLoop(w) \/ WaitDequeueTry(w) \/ RunTask(w)
  \/ EmptyWaitSleep(w) \/ EmptyWaitLock(w) \/ BlockPredicate(w)
  \/ EmptyWaitBlock(w) \/ EmptyWaitTimeout(w)

OwnerStep ==
  BreakAllWaitSet \/ BreakAllWaitNotify \/ DestroyJoin

Next ==
  \/ \E w \in Workers : WorkerStep(w) \/ SpuriousWake(w)
  \/ \E t \in Tasks : Enqueue(t)
  \/ DestroyStop
  \/ OwnerStep

(***************************************************************************)
(* Running workers are scheduled, sleeps and timeouts end, tasks finish    *)
(* and a destructor once begun goes on.  The owner need not submit or      *)
(* destroy anything, and spurious wake-ups need not happen.                *)
(***************************************************************************)
Fairness ==
  /\ \A w \in Workers : WF_vars(WorkerStep(w))
  /\ WF_vars(OwnerStep)

Spec == Init /\ [][Next]_vars /\ Fairness

-----------------------------------------------------------------------------

(* A worker that takes one task after another without waiting. *)
Awake(w) == pc[w] \in {"loop", "wait", "dequeue", "run"}

(***************************************************************************)
(* A task accepted by a pool that is not destroyed is run.  With           *)
(* BlockWaitStrategy, the one ThreadPool passes (thread_pool.h:37), a      *)
(* worker must be awake when the task is there: however many tasks that    *)
(* worker and the others run meanwhile, none is left in the queue.  The    *)
(* strategies that return by themselves need no such worker.               *)
(***************************************************************************)
AcceptedTaskRuns ==
  \A t \in Tasks :
    (future[t] = "pending" /\ (strategy = "Block" => \E w \in Workers : Awake(w)))
      ~> (future[t] = "ready" \/ stop)

(* BreakAllWait is over and a worker that tested its predicate before it   *)
(* is about to sleep: neither the flag nor the notification reaches it.    *)
WakeUpMissed ==
  /\ strategy = "Block" /\ owner = "join"
  /\ \E w \in Workers : pc[w] = "block"

(***************************************************************************)
(* The destructor returns, and no future is left that nobody will make     *)
(* ready or broken, with every strategy: BreakAllWait reaches a worker     *)
(* wherever it is, except (with BlockWaitStrategy) between its predicate   *)
(* and its sleep.  That window is the only one in which ~ThreadPool hangs. *)
(***************************************************************************)
DestructorReturns ==
  owner = "break" ~> \/ owner = "done" /\ \A t \in Tasks : future[t] # "pending"
                     \/ WakeUpMissed

(***************************************************************************)
(* A task accepted by the pool as it is built, with BlockWaitStrategy, is  *)
(* run: what m_test/test_thread_pool.cpp waits for with fur1.get().        *)
(***************************************************************************)
BlockedTaskRuns ==
  \A t \in Tasks :
    (future[t] = "pending" /\ strategy = "Block") ~> (future[t] = "ready" \/ stop)
=============================================================================
