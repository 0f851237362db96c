----------------------------- MODULE Scheduler ------------------------------
(***************************************************************************)
(* The coroutine scheduler of one process and the path by which a message  *)
(* reaches a subscriber's callback: DataDispatcher::Dispatch fills the     *)
(* buffer of every subscriber of the channel and notifies the coroutines;  *)
(* the processors (abstract CPUs, scheduler/processor.cpp) look for a      *)
(* ready coroutine in the queues of ClassicContext and run it; coroutines  *)
(* are created by Scheduler::CreateTask and removed by RemoveTask.         *)
(*                                                                         *)
(* One scheduling group and one channel, every coroutine a single-channel  *)
(* subscriber of it (croutine_factory.h).  ClassicContext::Wait ends after *)
(* 1 ms whatever notify_grp_ says, so that counter decides nothing here.   *)
(* Subscriber callbacks return and do not remove their own coroutine.      *)
(***************************************************************************)
EXTENDS CacheBuffer, Sequences, SequencesExt

CONSTANTS
  Processors,   \* the threads of Processor::Run
  NumRoutines,  \* the number of subscribers
  MAX_PRIO,     \* priorities of the queues
  MaxMsgs       \* bound on the messages dispatched

ASSUME SchedBounds ==
  NumRoutines \in Nat /\ MAX_PRIO \in Nat \ {0} /\ MaxMsgs \in Nat

VARIABLES
  state, lock, updated, force_stop, prio,       \* of each CRoutine
  id_cr,          \* SchedulerClassic::id_cr_
  rq,             \* ClassicContext::cr_group_, one queue per priority
  buffers,        \* the channel's vector in DataDispatcher::buffers_map_
  notifiers,      \* the channel's vector in DataNotifier::notifiers_map_
  callback,       \* Notifier::callback of each visitor
  buf, next_msg_index,                          \* of each DataVisitor
  pc, lvl, pos, cr,   \* each processor: program point, priority, place, coroutine
  cpc, rpc,           \* creation and removal of each coroutine
  dpc, di, dn,        \* the dispatching thread: point, iterator, end()
  announced           \* history: newest message each coroutine was notified of

croutines == <<state, lock, updated, force_stop, prio>>
channel == <<buffers, notifiers, callback, buf, next_msg_index>>
processors == <<pc, lvl, pos, cr>>
app == <<cpc, rpc>>
dispatch == <<dpc, di, dn>>
vars == <<croutines, id_cr, rq, channel, processors, app, dispatch, announced>>

Prios == 0 .. MAX_PRIO - 1
Routines == 1 .. NumRoutines    \* the subscribers' coroutines, in order of creation
None == 0

Init ==
  /\ state = [r \in Routines |-> "READY"]
  /\ lock = [r \in Routines |-> FALSE]
  /\ updated = [r \in Routines |-> TRUE]
  /\ force_stop = [r \in Routines |-> FALSE]
  /\ prio = [r \in Routines |-> 0]
  /\ id_cr = {}
  /\ rq = [i \in Prios |-> <<>>]
  /\ buffers = <<>> /\ notifiers = <<>>
  /\ callback = [r \in Routines |-> "empty"]
  /\ buf = [r \in Routines |-> Empty0]
  /\ next_msg_index = [r \in Routines |-> 0]
  /\ pc = [p \in Processors |-> "lock"]
  /\ lvl = [p \in Processors |-> MAX_PRIO - 1]
  /\ pos = [p \in Processors |-> 0]
  /\ cr = [p \in Processors |-> None]
  /\ cpc = [r \in Routines |-> "none"]
  /\ rpc = [r \in Routines |-> "none"]
  /\ dpc = "idle" /\ di = 0 /\ dn = 0
  /\ announced = [r \in Routines |-> 0]

(* The process lives; see DispatchNotify and AddBuffer. *)
Alive == dpc # "segv"

-----------------------------------------------------------------------------
(* The AtomicRWLock of each queue (rq_locks_), write first: a reader waits *)
(* for the writers that hold it and for those that wait for it.  A         *)
(* processor holds it for reading while it scans the queue; a removal      *)
(* holds it for writing while it spins on the coroutine's lock.            *)
Scanning(p, i) == pc[p] \in {"scan", "update"} /\ lvl[p] = i
WriterAt(i) ==
  \E r \in Routines :
    prio[r] = i /\ (cpc[r] = "queueing" \/ rpc[r] \in {"waiting", "holding"})
CanWriteLock(i) ==
  /\ \A p \in Processors : ~Scanning(p, i)
  /\ \A r \in Routines : ~(prio[r] = i /\ rpc[r] = "holding")

(* id_cr_lock_: NotifyProcessor holds it for reading while it looks at the *)
(* coroutine it found.                                                     *)
IdLockFree == dpc # "setflag"

-----------------------------------------------------------------------------
(* Processor::Run and ClassicContext::NextRoutine. *)

Goto(p, from, to) ==
  /\ pc[p] = from
  /\ pc' = [pc EXCEPT ![p] = to]

ReadLock(p) ==
  /\ ~WriterAt(lvl[p])
  /\ Goto(p, "lock", "scan")
  /\ pos' = [pos EXCEPT ![p] = 1]
  /\ UNCHANGED <<croutines, id_cr, rq, channel, lvl, cr, app, dispatch, announced>>

(* The end of a queue: on to the next priority, or nothing is ready: Wait, *)
(* and NextRoutine again.                                                  *)
NextLevel(p) ==
  /\ pc[p] = "scan" /\ pos[p] > Len(rq[lvl[p]])
  /\ Goto(p, "scan", "lock")
  /\ lvl' = [lvl EXCEPT ![p] = IF @ = 0 THEN MAX_PRIO - 1 ELSE @ - 1]
  /\ pos' = [pos EXCEPT ![p] = 0]
  /\ UNCHANGED <<croutines, id_cr, rq, channel, cr, app, dispatch, announced>>

(* Fault: the coroutine's lock is not tested. *)
AcquireBlind(p) ==
  /\ pc[p] = "scan" /\ pos[p] <= Len(rq[lvl[p]])
  /\ LET r == rq[lvl[p]][pos[p]]
     IN  /\ Goto(p, "scan", "update")
         /\ lock' = [lock EXCEPT ![r] = TRUE]
         /\ cr' = [cr EXCEPT ![p] = r]
  /\ UNCHANGED <<state, updated, force_stop, prio, id_cr, rq, channel, lvl, pos,
                 app, dispatch, announced>>

(* CRoutine::Acquire; a coroutine somebody holds is passed over. *)
Acquire(p) ==
  /\ pc[p] = "scan" /\ pos[p] <= Len(rq[lvl[p]])
  /\ LET r == rq[lvl[p]][pos[p]]
     IN \/ /\ ~lock[r]
           /\ Goto(p, "scan", "update")
           /\ lock' = [lock EXCEPT ![r] = TRUE]
           /\ cr' = [cr EXCEPT ![p] = r]
           /\ UNCHANGED pos
        \/ /\ lock[r]
           /\ pos' = [pos EXCEPT ![p] = @ + 1]
           /\ UNCHANGED <<pc, lock, cr>>
  /\ UNCHANGED <<state, updated, force_stop, prio, id_cr, rq, channel, lvl,
                 app, dispatch, announced>>

(* UpdateState: a clear updated_ flag wakes a waiting coroutine, and is    *)
(* set.  A ready coroutine is returned and the queue unlocked.             *)
UpdateState(p) ==
  LET r == cr[p]
  IN  /\ Goto(p, "update", "resume")
      /\ state[r] = "READY" \/ (state[r] = "DATA_WAIT" /\ ~updated[r])
      /\ state' = [state EXCEPT ![r] = "READY"]
      /\ updated' = [updated EXCEPT ![r] = TRUE]
      /\ lvl' = [lvl EXCEPT ![p] = MAX_PRIO - 1]
      /\ pos' = [pos EXCEPT ![p] = 0]
      /\ UNCHANGED <<lock, force_stop, prio, id_cr, rq, channel, cr, app,
                     dispatch, announced>>

(* One that is not ready is released, and the scan goes on. *)
UpdateStateNotReady(p) ==
  LET r == cr[p]
  IN  /\ Goto(p, "update", "scan")
      /\ state[r] = "FINISHED" \/ (state[r] = "DATA_WAIT" /\ updated[r])
      /\ updated' = [updated EXCEPT ![r] = TRUE]
      /\ lock' = [lock EXCEPT ![r] = FALSE]
      /\ cr' = [cr EXCEPT ![p] = None]
      /\ pos' = [pos EXCEPT ![p] = @ + 1]
      /\ UNCHANGED <<state, force_stop, prio, id_cr, rq, channel, lvl, app,
                     dispatch, announced>>

(* Back from the coroutine: Release, and NextRoutine from the top. *)
Release(p, from) ==
  /\ Goto(p, from, "lock")
  /\ lock' = [lock EXCEPT ![cr[p]] = FALSE]
  /\ cr' = [cr EXCEPT ![p] = None]
  /\ UNCHANGED <<lvl, pos>>

(* Fault: a stopped coroutine keeps its lock. *)
ResumeStoppedHeld(p) ==
  /\ pc[p] = "resume" /\ force_stop[cr[p]]
  /\ Goto(p, "resume", "lock")
  /\ state' = [state EXCEPT ![cr[p]] = "FINISHED"]
  /\ cr' = [cr EXCEPT ![p] = None]
  /\ UNCHANGED <<lock, lvl, pos, updated, force_stop, prio, id_cr, rq, channel, app,
                 dispatch, announced>>

(* CRoutine::Resume of a coroutine that was stopped. *)
ResumeStopped(p) ==
  /\ pc[p] = "resume" /\ force_stop[cr[p]]
  /\ state' = [state EXCEPT ![cr[p]] = "FINISHED"]
  /\ Release(p, "resume")
  /\ UNCHANGED <<updated, force_stop, prio, id_cr, rq, channel, app, dispatch,
                 announced>>

(* CRoutine::Resume: the coroutine goes on in its loop, which sets         *)
(* DATA_WAIT before it looks for a message.                                *)
Resume(p) ==
  /\ pc[p] = "resume" /\ ~force_stop[cr[p]]
  /\ Goto(p, "resume", "fetch")
  /\ state' = [state EXCEPT ![cr[p]] = "DATA_WAIT"]
  /\ UNCHANGED <<lock, updated, force_stop, prio, id_cr, rq, channel,
                 lvl, pos, cr, app, dispatch, announced>>

(* DataVisitor::TryFetch: the next message goes to the callback. *)
TryFetch(p) ==
  LET r == cr[p]
  IN  /\ pc[p] = "fetch" /\ CanFetch(buf[r], next_msg_index[r])
      /\ next_msg_index' =
           [next_msg_index EXCEPT ![r] = FetchIndex(buf[r], @) + 1]
      /\ Goto(p, "fetch", "callback")
      /\ UNCHANGED <<croutines, id_cr, rq, buffers, notifiers, callback, buf,
                     lvl, pos, cr, app, dispatch, announced>>

(* Without a message the coroutine yields as it is, waiting. *)
TryFetchNothing(p) ==
  /\ pc[p] = "fetch" /\ ~CanFetch(buf[cr[p]], next_msg_index[cr[p]])
  /\ Release(p, "fetch")
  /\ UNCHANGED <<state, updated, force_stop, prio, id_cr, rq, channel, app,
                 dispatch, announced>>

(* The subscriber's callback returns and the coroutine yields ready. *)
Callback(p) ==
  /\ pc[p] = "callback"
  /\ state' = [state EXCEPT ![cr[p]] = "READY"]
  /\ Release(p, "callback")
  /\ UNCHANGED <<updated, force_stop, prio, id_cr, rq, channel, app, dispatch,
                 announced>>

Run(p) ==
  \/ ReadLock(p) \/ NextLevel(p) \/ Acquire(p) \/ UpdateState(p)
  \/ UpdateStateNotReady(p) \/ ResumeStopped(p) \/ Resume(p) \/ TryFetch(p)
  \/ TryFetchNothing(p) \/ Callback(p)

-----------------------------------------------------------------------------
(* Subscriber::Init: the DataVisitor's constructor, then CreateTask. *)

(* One application thread creates and removes the subscribers. *)
AppFree ==
  \A r \in Routines : cpc[r] \in {"none", "done"} /\ rpc[r] \in {"none", "removed"}

Creation(r, from, to) ==
  /\ cpc[r] = from
  /\ cpc' = [cpc EXCEPT ![r] = to]

(* DataDispatcher::AddBuffer.  The vector may be reallocated under the     *)
(* iterators of a Dispatch, which takes no lock.                           *)
AddBuffer(r) ==
  /\ AppFree /\ \A q \in 1 .. r - 1 : cpc[q] = "done"
  /\ Creation(r, "none", "buffered")
  /\ buffers' = Append(buffers, r)
  /\ dpc' \in {dpc} \cup (IF dpc = "fill" THEN {"segv"} ELSE {})
  /\ UNCHANGED <<croutines, id_cr, rq, notifiers, callback, buf, next_msg_index,
                 processors, rpc, di, dn, announced>>

(* DataNotifier::AddNotifier, with the same race against Notify. *)
AddNotifier(r) ==
  /\ Creation(r, "buffered", "visitor")
  /\ notifiers' = Append(notifiers, r)
  /\ dpc' \in {dpc} \cup (IF dpc \in {"notify", "lookup", "setflag"} THEN {"segv"} ELSE {})
  /\ UNCHANGED <<croutines, id_cr, rq, buffers, callback, buf, next_msg_index,
                 processors, rpc, di, dn, announced>>

(* DispatchTask, holding the mutex of the coroutine's id to its end: into  *)
(* id_cr_, with a priority from the configuration, ...                     *)
DispatchTaskRegister(r) ==
  /\ IdLockFree
  /\ Creation(r, "visitor", "registered")
  /\ id_cr' = id_cr \cup {r}
  /\ \E i \in Prios : prio' = [prio EXCEPT ![r] = i]
  /\ UNCHANGED <<state, lock, updated, force_stop, rq, channel, processors, rpc,
                 dispatch, announced>>

(* ... WriteLock announces itself, ... *)
DispatchTaskWait(r) ==
  /\ Creation(r, "registered", "queueing")
  /\ UNCHANGED <<croutines, id_cr, rq, channel, processors, rpc, dispatch, announced>>

(* ... and into the queue. *)
DispatchTaskQueue(r) ==
  /\ CanWriteLock(prio[r])
  /\ Creation(r, "queueing", "queued")
  /\ rq' = [rq EXCEPT ![prio[r]] = Append(@, r)]
  /\ UNCHANGED <<croutines, id_cr, channel, processors, rpc, dispatch, announced>>

(* RegisterNotifyCallback moves a std::function in while Notify may call   *)
(* it: its manager is stored before its invoker.                           *)
RegisterNotifyCallback(r) ==
  /\ \/ /\ callback[r] = "empty" /\ cpc[r] = "queued"
        /\ callback' = [callback EXCEPT ![r] = "half"]
        /\ UNCHANGED cpc
     \/ /\ callback[r] = "half" /\ Creation(r, "queued", "done")
        /\ callback' = [callback EXCEPT ![r] = "set"]
  /\ UNCHANGED <<croutines, id_cr, rq, buffers, notifiers, buf, next_msg_index,
                 processors, rpc, dispatch, announced>>

Creating(r) ==
  \/ AddNotifier(r) \/ DispatchTaskRegister(r) \/ DispatchTaskWait(r)
  \/ DispatchTaskQueue(r) \/ RegisterNotifyCallback(r)

-----------------------------------------------------------------------------
(* SchedulerClassic::RemoveCRoutine and ClassicContext::RemoveCRoutine. *)

Removal(r, from, to) ==
  /\ rpc[r] = from
  /\ rpc' = [rpc EXCEPT ![r] = to]

(* Out of id_cr_ and stopped. *)
RemoveStart(r) ==
  /\ AppFree
  /\ r \in id_cr
  /\ IdLockFree
  /\ Removal(r, "none", "erased")
  /\ id_cr' = id_cr \ {r}
  /\ force_stop' = [force_stop EXCEPT ![r] = TRUE]
  /\ UNCHANGED <<state, lock, updated, prio, rq, channel, processors, cpc,
                 dispatch, announced>>

RemoveWait(r) ==
  /\ Removal(r, "erased", "waiting")
  /\ UNCHANGED <<croutines, id_cr, rq, channel, processors, cpc, dispatch, announced>>

RemoveLock(r) ==
  /\ CanWriteLock(prio[r])
  /\ Removal(r, "waiting", "holding")
  /\ UNCHANGED <<croutines, id_cr, rq, channel, processors, cpc, dispatch, announced>>

(* RemoveCRoutine erases the first element of the queue that is r. *)
Erase(q, r) ==
  LET i == CHOOSE i \in DOMAIN q : q[i] = r /\ \A j \in 1 .. i - 1 : q[j] # r
  IN  RemoveAt(q, i)

(* Fault: the coroutine is erased without waiting for its lock. *)
RemoveEraseBlind(r) ==
  /\ Removal(r, "holding", "removed")
  /\ rq' = [rq EXCEPT ![prio[r]] = Erase(@, r)]
  /\ UNCHANGED <<croutines, id_cr, channel, processors, cpc, dispatch, announced>>

(* The spin on Acquire ends; erase and Release. *)
RemoveErase(r) ==
  /\ ~lock[r]
  /\ Removal(r, "holding", "removed")
  /\ rq' = [rq EXCEPT ![prio[r]] = Erase(@, r)]
  /\ UNCHANGED <<croutines, id_cr, channel, processors, cpc, dispatch, announced>>

Removing(r) == RemoveWait(r) \/ RemoveLock(r) \/ RemoveErase(r)

-----------------------------------------------------------------------------
(* DataDispatcher::Dispatch, called by the one dispatcher thread. *)

(* Messages come once some subscriber has enabled the channel's receiver. *)
DispatchStart ==
  /\ dpc = "idle"
  /\ \E r \in Routines : cpc[r] = "done"
  /\ \A r \in Routines : buf[r].tail < MaxMsgs
  /\ dpc' = "fill" /\ di' = 1 /\ dn' = Len(buffers)
  /\ UNCHANGED <<croutines, id_cr, rq, channel, processors, app, announced>>

(* Fill the buffers in turn, passing over those that expired with their    *)
(* coroutine; then DataNotifier::Notify.                                   *)
DispatchFill ==
  /\ dpc = "fill"
  /\ \/ /\ di <= dn
        /\ buf' = LET r == buffers[di]
                  IN  [buf EXCEPT ![r] = IF rpc[r] = "removed" THEN @
                                         ELSE Fill(@, @.tail + 1)]
        /\ di' = di + 1
        /\ UNCHANGED <<dpc, dn>>
     \/ /\ di > dn
        /\ dpc' = "notify" /\ di' = 1 /\ dn' = Len(notifiers)
        /\ UNCHANGED buf
  /\ UNCHANGED <<croutines, id_cr, rq, buffers, notifiers, callback, next_msg_index,
                 processors, app, announced>>

(* The callback of each notifier, if it has one; a half-stored one is a    *)
(* call through a null pointer.                                            *)
DispatchNotify ==
  /\ dpc = "notify"
  /\ \/ /\ di <= dn
        /\ \/ callback[notifiers[di]] = "empty" /\ di' = di + 1 /\ UNCHANGED <<dpc, dn>>
           \/ callback[notifiers[di]] = "half" /\ dpc' = "segv" /\ UNCHANGED <<di, dn>>
           \/ callback[notifiers[di]] = "set" /\ dpc' = "lookup" /\ UNCHANGED <<di, dn>>
     \/ /\ di > dn
        /\ dpc' = "idle" /\ di' = 0 /\ dn' = 0
  /\ UNCHANGED <<croutines, id_cr, rq, channel, processors, app, announced>>

(* Fault: the test of the state is inverted. *)
NotifyProcessorInverted ==
  /\ dpc = "lookup"
  /\ LET r == notifiers[di]
     IN  /\ dpc' = IF r \in id_cr /\ state[r] # "DATA_WAIT" THEN "setflag" ELSE "notify"
         /\ di' = IF dpc' = "setflag" THEN di ELSE di + 1
         /\ announced' = IF r \in id_cr /\ dpc' = "notify"
                           THEN [announced EXCEPT ![r] = buf[r].tail] ELSE announced
  /\ UNCHANGED <<croutines, id_cr, rq, channel, processors, app, dn>>

(* NotifyProcessor: the coroutine's state is read ... *)
NotifyProcessor ==
  /\ dpc = "lookup"
  /\ LET r == notifiers[di]
     IN \/ /\ r \in id_cr /\ state[r] = "DATA_WAIT"
           /\ dpc' = "setflag"
           /\ UNCHANGED <<di, announced>>
        \/ /\ r \in id_cr /\ state[r] # "DATA_WAIT"
           /\ dpc' = "notify" /\ di' = di + 1
           /\ announced' = [announced EXCEPT ![r] = buf[r].tail]
        \/ /\ r \notin id_cr
           /\ dpc' = "notify" /\ di' = di + 1
           /\ UNCHANGED announced
  /\ UNCHANGED <<croutines, id_cr, rq, channel, processors, app, dn>>

(* ... and SetUpdateFlag called if it was waiting. *)
SetUpdateFlag ==
  /\ dpc = "setflag"
  /\ updated' = [updated EXCEPT ![notifiers[di]] = FALSE]
  /\ announced' = [announced EXCEPT ![notifiers[di]] = buf[notifiers[di]].tail]
  /\ dpc' = "notify" /\ di' = di + 1
  /\ UNCHANGED <<state, lock, force_stop, prio, id_cr, rq, channel, processors,
                 cpc, rpc, dn>>

Dispatching == DispatchFill \/ DispatchNotify \/ NotifyProcessor \/ SetUpdateFlag

-----------------------------------------------------------------------------
Next ==
  /\ Alive
  /\ \/ \E p \in Processors : Run(p)
     \/ \E r \in Routines : AddBuffer(r) \/ Creating(r) \/ RemoveStart(r) \/ Removing(r)
     \/ DispatchStart \/ Dispatching

(***************************************************************************)
(* Threads that can run do: the processors, the dispatcher inside a        *)
(* Dispatch, the application inside a Subscriber's Init or Shutdown.       *)
(***************************************************************************)
Fairness ==
  /\ \A p \in Processors : WF_vars(Alive /\ Run(p))
  /\ WF_vars(Alive /\ Dispatching)
  /\ WF_vars(Alive /\ \E r \in Routines : Removing(r) \/ Creating(r))

Spec == Init /\ [][Next]_vars

FairSpec == Spec /\ Fairness

-----------------------------------------------------------------------------
(* Types of the coroutines, the queues, the processors and the life of a   *)
(* subscriber; the visitors' buffers and cursors are ChannelBuffer's.      *)
TypeOK ==
  /\ state \in [Routines -> {"READY", "DATA_WAIT", "FINISHED"}]
  /\ lock \in [Routines -> BOOLEAN]
  /\ updated \in [Routines -> BOOLEAN]
  /\ force_stop \in [Routines -> BOOLEAN]
  /\ prio \in [Routines -> Prios]
  /\ id_cr \in SUBSET Routines
  /\ rq \in [Prios -> Seq(Routines)]
  /\ pc \in [Processors -> {"lock", "scan", "update", "resume", "fetch", "callback"}]
  /\ lvl \in [Processors -> Prios]
  /\ pos \in [Processors -> Nat]
  /\ cr \in [Processors -> Routines \cup {None}]
  /\ cpc \in [Routines ->
              {"none", "buffered", "visitor", "registered", "queueing", "queued", "done"}]
  /\ rpc \in [Routines -> {"none", "erased", "waiting", "holding", "removed"}]

(***************************************************************************)
(* A coroutine is in the hands of one processor at most, and its lock_     *)
(* says so: its stack, its state_ and its visitor's next_msg_index_ have   *)
(* no other protection (CRoutine::Acquire, Release, Processor::Run).       *)
(***************************************************************************)
OneProcessor ==
  \A r \in Routines :
    /\ \A p, q \in Processors : cr[p] = r /\ cr[q] = r => p = q
    /\ lock[r] <=> \E p \in Processors : cr[p] = r

(***************************************************************************)
(* When RemoveTask has returned, the coroutine's callback is not running   *)
(* and never runs again: Subscriber's destructor relies on it, because the *)
(* callback refers to the Subscriber (ClassicContext::RemoveCRoutine).     *)
(***************************************************************************)
RemovedIsGone ==
  \A r \in Routines : rpc[r] = "removed" =>
    /\ \A p \in Processors : cr[p] # r
    /\ \A i \in Prios : r \notin ToSet(rq[i])

(* r was notified of a message that its visitor has not fetched. *)
Behind(r) == ~force_stop[r] /\ announced[r] > 0 /\ next_msg_index[r] <= announced[r]

(***************************************************************************)
(* No wake-up is lost: coroutines that were notified catch up, whatever    *)
(* state NotifyProcessor read and however it races the coroutine's         *)
(* set_state(DATA_WAIT) and UpdateState's test_and_set.                    *)
(***************************************************************************)
AnnouncedIsHandled ==
  (\E r \in Routines : Behind(r)) ~> ((\A r \in Routines : ~Behind(r)) \/ ~Alive)

(***************************************************************************)
(* RemoveTask returns: RemoveCRoutine spins on the coroutine's lock while  *)
(* it holds the queue's write lock and keeps every processor out.          *)
(***************************************************************************)
RemoveReturns ==
  (\E r \in Routines : rpc[r] \in {"erased", "waiting", "holding"})
    ~> (AppFree \/ ~Alive)
=============================================================================
