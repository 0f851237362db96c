--------------------------- MODULE SchedulerProofs ---------------------------
(***************************************************************************)
(* Proofs about Scheduler: a coroutine is in the hands of one processor at *)
(* most, and once RemoveTask has returned in nobody's, for any number of   *)
(* processors, subscribers and priorities; and about Croutine: a context   *)
(* switch finds what the last one left, for any number of threads and      *)
(* routines and any size of their stacks.                                  *)
(***************************************************************************)
EXTENDS MCSchedulerLive, SequenceTheorems, TLAPS

(* The program points at which a processor holds a coroutine's lock_. *)
Holding == {"update", "resume", "fetch", "callback"}

(* The lock of a coroutine is held exactly by the processor that is at it. *)
Held ==
  /\ \A p \in Processors :
       /\ pc[p] \in Holding => cr[p] \in Routines /\ lock[cr[p]]
       /\ pc[p] \notin Holding => cr[p] = None
       /\ pc[p] = "scan" => pos[p] >= 1
  /\ \A p, q \in Processors : cr[p] = cr[q] /\ cr[p] # None => p = q
  /\ \A r \in Routines : lock[r] => \E p \in Processors : cr[p] = r

(* r is in the queue of its priority: once queued and until it is erased. *)
InQueue(r) == cpc[r] \in {"queued", "done"} /\ rpc[r] # "removed"

(* The queues hold the coroutines that were queued and not erased, each    *)
(* once, in the queue of its priority.                                     *)
Queues ==
  /\ \A i \in Prios : \A k \in 1 .. Len(rq[i]) : InQueue(rq[i][k]) /\ prio[rq[i][k]] = i
  /\ \A i \in Prios : \A j, k \in 1 .. Len(rq[i]) : rq[i][j] = rq[i][k] => j = k
  /\ \A r \in Routines : InQueue(r) => \E k \in 1 .. Len(rq[prio[r]]) : rq[prio[r]][k] = r

(* Only what was created is removed, and what is removed is held by nobody. *)
Removals ==
  /\ \A r \in id_cr : cpc[r] \in {"registered", "queueing", "queued", "done"}
  /\ \A r \in Routines : rpc[r] # "none" => cpc[r] = "done"
  /\ \A r \in Routines : rpc[r] = "removed" => ~lock[r]

SInv == TypeOK /\ Held /\ Queues /\ Removals

-----------------------------------------------------------------------------
(* Erasing the element at place i moves the later ones down by one. *)
LEMMA RemoveAtElements ==
  ASSUME NEW S, NEW q \in Seq(S), NEW i \in 1 .. Len(q)
  PROVE  /\ RemoveAt(q, i) \in Seq(S)
         /\ Len(RemoveAt(q, i)) = Len(q) - 1
         /\ \A k \in 1 .. Len(q) - 1 :
              RemoveAt(q, i)[k] = IF k < i THEN q[k] ELSE q[k + 1]
<1> DEFINE a == SubSeq(q, 1, i - 1)
           b == SubSeq(q, i + 1, Len(q))
<1>1. /\ a \in Seq(S) /\ Len(a) = i - 1
      /\ \A k \in 1 .. i - 1 : a[k] = q[k]
  <2>1. \A k \in 1 .. i - 1 : q[k] \in S
    OBVIOUS
  <2> QED
    BY <2>1, SubSeqProperties, SMTT(20)
<1>2. /\ b \in Seq(S) /\ Len(b) = Len(q) - i
      /\ \A k \in 1 .. Len(q) - i : b[k] = q[i + k]
  <2>1. \A k \in i + 1 .. Len(q) : q[k] \in S
    OBVIOUS
  <2> QED
    BY <2>1, SubSeqProperties, SMTT(20)
<1> HIDE DEF a, b
<1>3. /\ a \o b \in Seq(S) /\ Len(a \o b) = Len(q) - 1
      /\ \A k \in 1 .. Len(q) - 1 :
           (a \o b)[k] = IF k <= i - 1 THEN a[k] ELSE b[k - (i - 1)]
  <2>1. /\ a \o b \in Seq(S) /\ Len(a \o b) = Len(a) + Len(b)
        /\ \A k \in 1 .. Len(a) + Len(b) :
             (a \o b)[k] = IF k <= Len(a) THEN a[k] ELSE b[k - Len(a)]
    BY <1>1, <1>2, ConcatProperties, Zenon
  <2>2. Len(a) = i - 1 /\ Len(a) + Len(b) = Len(q) - 1
    BY <1>1, <1>2
  <2> QED
    BY <2>1, <2>2, Zenon
<1>4. \A k \in 1 .. Len(q) - 1 : (a \o b)[k] = IF k < i THEN q[k] ELSE q[k + 1]
  BY <1>1, <1>2, <1>3
<1>5. RemoveAt(q, i) = a \o b
  BY DEF RemoveAt, a, b
<1> QED
  BY <1>3, <1>4, <1>5

(* Erase takes out the one place r has in a queue. *)
LEMMA EraseElements ==
  ASSUME NEW S, NEW q \in Seq(S), NEW r,
         NEW i \in 1 .. Len(q), q[i] = r,
         \A j, k \in 1 .. Len(q) : q[j] = q[k] => j = k
  PROVE  Erase(q, r) = RemoveAt(q, i)
<1> DEFINE P(n) == q[n] = r /\ \A j \in 1 .. n - 1 : q[j] # r
<1>1. DOMAIN q = 1 .. Len(q)
  OBVIOUS
<1>2. i \in DOMAIN q /\ P(i)
  BY <1>1
<1>3. \A n \in DOMAIN q : P(n) => n = i
  BY <1>1
<1>4. (CHOOSE n \in DOMAIN q : P(n)) = i
  BY <1>2, <1>3
<1> QED
  BY <1>4 DEF Erase

(* The initial states: no queue has a member and no lock is held. *)
LEMMA InitSInv == Init => SInv
BY SchedBounds DEF Init, SInv, TypeOK, Held, Queues, Removals, InQueue, Holding, Prios, Routines, None

(* What the dispatching thread does leaves the coroutines' locks, the      *)
(* queues and the processors alone, and only sets flags.                   *)
LEMMA DispatchStep ==
  SInv /\ (DispatchStart \/ Dispatching) => SInv'
<1> SUFFICES ASSUME SInv, DispatchStart \/ Dispatching
             PROVE  SInv'
  OBVIOUS
<1> USE DEF croutines, channel, processors, app, dispatch
<1>1. /\ UNCHANGED <<state, lock, force_stop, prio, id_cr, rq, pc, lvl, pos, cr, cpc, rpc>>
      /\ updated' = updated \/ \E x : updated' = [updated EXCEPT ![x] = FALSE]
  BY DEF DispatchStart, Dispatching, DispatchFill, DispatchNotify, NotifyProcessor, SetUpdateFlag
<1>2. TypeOK'
  BY <1>1 DEF SInv, TypeOK
<1>3. Held' /\ Queues' /\ Removals'
  BY <1>1 DEF SInv, Held, Queues, Removals, InQueue
<1> QED
  BY <1>2, <1>3 DEF SInv

(* A processor takes a coroutine it finds unlocked, and gives it back; the *)
(* queues and the removals stay as they are.                               *)
LEMMA ProcessorStep ==
  ASSUME SInv, NEW p \in Processors, Run(p)
  PROVE  SInv'
<1> USE DEF croutines, channel, processors, app, dispatch
<1> USE SchedBounds DEF Prios, None
<1>0. TypeOK /\ Held /\ Queues /\ Removals
  BY DEF SInv
<1>p. /\ pos[p] \in Nat /\ pos[p] + 1 \in Nat /\ lvl[p] \in Prios
      /\ MAX_PRIO - 1 \in Prios /\ 0 \notin Routines
      /\ pc[p] \in Holding => cr[p] \in Routines /\ lock[cr[p]]
  BY <1>0 DEF TypeOK, Held, Routines
<1>q. UNCHANGED <<id_cr, rq, prio, cpc, rpc>>
  BY DEF Run, ReadLock, NextLevel, Acquire, UpdateState, UpdateStateNotReady, ResumeStopped, Resume, TryFetch, TryFetchNothing, Callback, Release
<1>1. Queues'
  BY <1>0, <1>q DEF Queues, InQueue
<1>2. /\ \A r \in id_cr' : cpc'[r] \in {"registered", "queueing", "queued", "done"}
      /\ \A r \in Routines : rpc'[r] # "none" => cpc'[r] = "done"
  BY <1>0, <1>q DEF Removals
<1>3. CASE ReadLock(p)
  <2>1. TypeOK'
    BY <1>0, <1>q, <1>3 DEF TypeOK, ReadLock, Goto
  <2>2. Held'
    BY <1>0, <1>3, SMTT(30) DEF TypeOK, Held, Holding, Routines, ReadLock, Goto
  <2>3. \A x \in Routines : rpc'[x] = "removed" => ~lock'[x]
    BY <1>0, <1>q, <1>3 DEF TypeOK, Removals, ReadLock, Goto
  <2> QED
    BY <1>1, <1>2, <2>1, <2>2, <2>3 DEF SInv, Removals
<1>4. CASE NextLevel(p)
  <2>1. TypeOK'
    BY <1>0, <1>q, <1>4 DEF TypeOK, NextLevel, Goto
  <2>2. Held'
    BY <1>0, <1>4 DEF TypeOK, Held, Holding, Routines, NextLevel, Goto
  <2>3. \A x \in Routines : rpc'[x] = "removed" => ~lock'[x]
    BY <1>0, <1>q, <1>4 DEF TypeOK, Removals, NextLevel, Goto
  <2> QED
    BY <1>1, <1>2, <2>1, <2>2, <2>3 DEF SInv, Removals
<1>5. CASE Acquire(p)
  <2> DEFINE r == rq[lvl[p]][pos[p]]
  <2>1. r \in Routines /\ lvl[p] \in Prios /\ pos[p] \in 1 .. Len(rq[lvl[p]])
    BY <1>0, <1>5 DEF TypeOK, Held, Acquire
  <2>2. rpc[r] # "removed"
    BY <1>0, <2>1 DEF Queues, InQueue
  <2> HIDE DEF r
  <2>3. CASE /\ ~lock[r] /\ Goto(p, "scan", "update")
             /\ lock' = [lock EXCEPT ![r] = TRUE] /\ cr' = [cr EXCEPT ![p] = r]
             /\ UNCHANGED <<pos, lvl, state, updated, force_stop>>
    <3>1. TypeOK'
      BY <1>0, <1>q, <2>1, <2>3 DEF TypeOK, Goto
    <3>2. Held'
      <4>1. /\ pc' = [pc EXCEPT ![p] = "update"] /\ cr[p] = None
            /\ \A q \in Processors : cr[q] # r
        <5>1. pc' = [pc EXCEPT ![p] = "update"] /\ pc[p] = "scan"
          BY <2>3 DEF Goto
        <5>2. \A q \in Processors : cr[q] = r => pc[q] \in Holding
          BY <1>0, <1>p, <2>1 DEF Held
        <5>3. \A q \in Processors : cr[q] = r => lock[r]
          BY <1>0, <5>2 DEF Held
        <5> QED
          BY <1>0, <2>3, <5>1, <5>3 DEF Held, Holding
      <4>2. \A q \in Processors :
              /\ pc'[q] \in Holding => cr'[q] \in Routines /\ lock'[cr'[q]]
              /\ pc'[q] \notin Holding => cr'[q] = None
              /\ pc'[q] = "scan" => pos'[q] >= 1
        BY <1>0, <2>1, <2>3, <4>1 DEF TypeOK, Held, Holding
      <4>3. \A q, s \in Processors : cr'[q] = cr'[s] /\ cr'[q] # None => q = s
        BY <1>0, <2>1, <2>3, <4>1 DEF TypeOK, Held
      <4>4. ASSUME NEW x \in Routines, lock'[x]
            PROVE  \E q \in Processors : cr'[q] = x
        <5>1. CASE x = r
          BY <1>0, <2>3, <5>1 DEF TypeOK
        <5>2. CASE x # r
          <6>1. lock[x]
            BY <1>0, <2>1, <2>3, <4>4, <5>2 DEF TypeOK
          <6>2. PICK q \in Processors : cr[q] = x
            BY <1>0, <6>1 DEF Held
          <6>3. q # p
            BY <1>p, <4>1, <6>2
          <6> QED
            BY <1>0, <2>3, <6>2, <6>3 DEF TypeOK
        <5> QED
          BY <5>1, <5>2
      <4> QED
        BY <4>2, <4>3, <4>4 DEF Held
    <3>3. \A x \in Routines : rpc'[x] = "removed" => ~lock'[x]
      BY <1>0, <1>q, <2>1, <2>2, <2>3 DEF TypeOK, Removals
    <3> QED
      BY <1>1, <1>2, <3>1, <3>2, <3>3 DEF SInv, Removals
  <2>4. CASE /\ lock[r] /\ pos' = [pos EXCEPT ![p] = @ + 1]
             /\ UNCHANGED <<pc, lock, cr, lvl, state, updated, force_stop>>
    <3>1. TypeOK'
      BY <1>0, <1>p, <1>q, <2>1, <2>4 DEF TypeOK
    <3>2. Held'
      BY <1>0, <2>1, <2>4 DEF TypeOK, Held, Holding
    <3>3. \A x \in Routines : rpc'[x] = "removed" => ~lock'[x]
      BY <1>0, <1>q, <2>4 DEF Removals
    <3> QED
      BY <1>1, <1>2, <3>1, <3>2, <3>3 DEF SInv, Removals
  <2> QED
    BY <1>5, <2>3, <2>4 DEF Acquire, r
<1>6. CASE UpdateState(p)
  <2>1. TypeOK'
    BY <1>0, <1>p, <1>q, <1>6 DEF TypeOK, UpdateState, Goto, Holding
  <2>2. Held'
    BY <1>0, <1>6 DEF TypeOK, Held, Holding, Routines, UpdateState, Goto
  <2>3. \A x \in Routines : rpc'[x] = "removed" => ~lock'[x]
    BY <1>0, <1>q, <1>6 DEF TypeOK, Removals, UpdateState, Goto
  <2> QED
    BY <1>1, <1>2, <2>1, <2>2, <2>3 DEF SInv, Removals
<1>7. CASE UpdateStateNotReady(p)
  <2>1. TypeOK'
    BY <1>0, <1>p, <1>q, <1>7 DEF TypeOK, UpdateStateNotReady, Goto, Holding
  <2>2. Held'
    <3>1. /\ pc' = [pc EXCEPT ![p] = "scan"] /\ cr' = [cr EXCEPT ![p] = None]
          /\ lock' = [lock EXCEPT ![cr[p]] = FALSE]
          /\ pos' = [pos EXCEPT ![p] = @ + 1] /\ cr[p] \in Routines
      BY <1>0, <1>p, <1>7 DEF UpdateStateNotReady, Goto, Holding
    <3>2. \A q \in Processors \ {p} : cr[q] # cr[p]
      BY <1>0, <1>p, <3>1 DEF Held
    <3>3. \A q \in Processors :
            /\ pc'[q] \in Holding => cr'[q] \in Routines /\ lock'[cr'[q]]
            /\ pc'[q] \notin Holding => cr'[q] = None
            /\ pc'[q] = "scan" => pos'[q] >= 1
      BY <1>0, <1>p, <3>1, <3>2 DEF TypeOK, Held, Holding
    <3>4. \A q, s \in Processors : cr'[q] = cr'[s] /\ cr'[q] # None => q = s
      BY <1>0, <3>1 DEF TypeOK, Held
    <3>5. \A x \in Routines : lock'[x] => \E q \in Processors : cr'[q] = x
      BY <1>0, <3>1 DEF TypeOK, Held
    <3> QED
      BY <3>3, <3>4, <3>5 DEF Held
  <2>3. \A x \in Routines : rpc'[x] = "removed" => ~lock'[x]
    BY <1>0, <1>q, <1>7 DEF TypeOK, Removals, UpdateStateNotReady, Goto
  <2> QED
    BY <1>1, <1>2, <2>1, <2>2, <2>3 DEF SInv, Removals
<1>8. CASE ResumeStopped(p)
  <2>1. TypeOK'
    BY <1>0, <1>q, <1>8 DEF TypeOK, ResumeStopped, Release, Goto
  <2>2. Held'
    BY <1>0, <1>8, SMTT(30) DEF TypeOK, Held, Holding, Routines, ResumeStopped, Release, Goto
  <2>3. \A x \in Routines : rpc'[x] = "removed" => ~lock'[x]
    BY <1>0, <1>q, <1>8 DEF TypeOK, Removals, ResumeStopped, Release, Goto
  <2> QED
    BY <1>1, <1>2, <2>1, <2>2, <2>3 DEF SInv, Removals
<1>9. CASE Resume(p)
  <2>1. TypeOK'
    BY <1>0, <1>q, <1>9 DEF TypeOK, Resume, Goto
  <2>2. Held'
    BY <1>0, <1>9 DEF TypeOK, Held, Holding, Routines, Resume, Goto
  <2>3. \A x \in Routines : rpc'[x] = "removed" => ~lock'[x]
    BY <1>0, <1>q, <1>9 DEF TypeOK, Removals, Resume, Goto
  <2> QED
    BY <1>1, <1>2, <2>1, <2>2, <2>3 DEF SInv, Removals
<1>10. CASE TryFetch(p)
  <2>1. TypeOK'
    BY <1>0, <1>q, <1>10 DEF TypeOK, TryFetch, Goto
  <2>2. Held'
    BY <1>0, <1>10 DEF TypeOK, Held, Holding, Routines, TryFetch, Goto
  <2>3. \A x \in Routines : rpc'[x] = "removed" => ~lock'[x]
    BY <1>0, <1>q, <1>10 DEF TypeOK, Removals, TryFetch, Goto
  <2> QED
    BY <1>1, <1>2, <2>1, <2>2, <2>3 DEF SInv, Removals
<1>11. CASE TryFetchNothing(p)
  <2>1. TypeOK'
    BY <1>0, <1>q, <1>11 DEF TypeOK, TryFetchNothing, Release, Goto
  <2>2. Held'
    BY <1>0, <1>11, SMTT(30) DEF TypeOK, Held, Holding, Routines, TryFetchNothing, Release, Goto
  <2>3. \A x \in Routines : rpc'[x] = "removed" => ~lock'[x]
    BY <1>0, <1>q, <1>11 DEF TypeOK, Removals, TryFetchNothing, Release, Goto
  <2> QED
    BY <1>1, <1>2, <2>1, <2>2, <2>3 DEF SInv, Removals
<1>12. CASE Callback(p)
  <2>1. TypeOK'
    BY <1>0, <1>q, <1>12 DEF TypeOK, Callback, Release, Goto
  <2>2. Held'
    BY <1>0, <1>12, SMTT(30) DEF TypeOK, Held, Holding, Routines, Callback, Release, Goto
  <2>3. \A x \in Routines : rpc'[x] = "removed" => ~lock'[x]
    BY <1>0, <1>q, <1>12 DEF TypeOK, Removals, Callback, Release, Goto
  <2> QED
    BY <1>1, <1>2, <2>1, <2>2, <2>3 DEF SInv, Removals
<1> QED
  BY <1>3, <1>4, <1>5, <1>6, <1>7, <1>8, <1>9, <1>10, <1>11, <1>12 DEF Run

(* Creating and removing a subscriber: its coroutine enters the queue of    *)
(* its priority once, and leaves it while nobody holds its lock.            *)
LEMMA ApplicationStep ==
  ASSUME SInv, NEW r \in Routines,
         AddBuffer(r) \/ Creating(r) \/ RemoveStart(r) \/ Removing(r)
  PROVE  SInv'
<1> USE DEF croutines, channel, processors, app, dispatch
<1>0. TypeOK /\ Held /\ Queues /\ Removals
  BY DEF SInv
<1>h. UNCHANGED <<state, lock, updated, pc, lvl, pos, cr>>
  BY DEF Creating, Removing, AddBuffer, AddNotifier, DispatchTaskRegister,
         DispatchTaskWait, DispatchTaskQueue, RegisterNotifyCallback, RemoveStart,
         RemoveWait, RemoveLock, RemoveErase
<1>1. Held'
  BY <1>0, <1>h DEF Held
<1>2. CASE AddBuffer(r)
  <2>1. TypeOK'
    BY <1>0, <1>h, <1>2 DEF TypeOK, AddBuffer, Creation
  <2>2. Queues'
    BY <1>0, <1>2 DEF TypeOK, Queues, Removals, InQueue, AddBuffer, Creation
  <2>3. Removals'
    BY <1>0, <1>h, <1>2 DEF TypeOK, Removals, AddBuffer, Creation
  <2> QED
    BY <1>1, <2>1, <2>2, <2>3 DEF SInv
<1>3. CASE AddNotifier(r)
  <2>1. TypeOK'
    BY <1>0, <1>h, <1>3 DEF TypeOK, AddNotifier, Creation
  <2>2. Queues'
    BY <1>0, <1>3 DEF TypeOK, Queues, Removals, InQueue, AddNotifier, Creation
  <2>3. Removals'
    BY <1>0, <1>h, <1>3 DEF TypeOK, Removals, AddNotifier, Creation
  <2> QED
    BY <1>1, <2>1, <2>2, <2>3 DEF SInv
<1>4. CASE DispatchTaskRegister(r)
  <2>1. TypeOK'
    BY <1>0, <1>h, <1>4 DEF TypeOK, DispatchTaskRegister, Creation
  <2>2. Queues'
    BY <1>0, <1>4 DEF TypeOK, Queues, Removals, InQueue, DispatchTaskRegister, Creation
  <2>3. Removals'
    BY <1>0, <1>h, <1>4 DEF TypeOK, Removals, DispatchTaskRegister, Creation
  <2> QED
    BY <1>1, <2>1, <2>2, <2>3 DEF SInv
<1>5. CASE DispatchTaskWait(r)
  <2>1. TypeOK'
    BY <1>0, <1>h, <1>5 DEF TypeOK, DispatchTaskWait, Creation
  <2>2. Queues'
    BY <1>0, <1>5 DEF TypeOK, Queues, Removals, InQueue, DispatchTaskWait, Creation
  <2>3. Removals'
    BY <1>0, <1>h, <1>5 DEF TypeOK, Removals, DispatchTaskWait, Creation
  <2> QED
    BY <1>1, <2>1, <2>2, <2>3 DEF SInv
<1>6. CASE RegisterNotifyCallback(r)
  <2>1. TypeOK'
    BY <1>0, <1>h, <1>6 DEF TypeOK, RegisterNotifyCallback, Creation
  <2>2. Queues'
    <3>1. UNCHANGED <<rq, prio>> /\ \A x \in Routines : InQueue(x)' <=> InQueue(x)
      BY <1>0, <1>6 DEF TypeOK, InQueue, RegisterNotifyCallback, Creation
    <3>2. \A i \in Prios : rq[i] \in Seq(Routines)
      BY <1>0 DEF TypeOK
    <3> QED
      BY <1>0, <3>1, <3>2 DEF Queues
  <2>3. Removals'
    <3>1. UNCHANGED <<id_cr, rpc, lock>>
      BY <1>h, <1>6 DEF RegisterNotifyCallback, croutines
    <3>2. \A x \in Routines : cpc'[x] = cpc[x] \/ (cpc[x] = "queued" /\ cpc'[x] = "done")
      BY <1>0, <1>6 DEF TypeOK, RegisterNotifyCallback, Creation
    <3>3. id_cr \subseteq Routines
      BY <1>0 DEF TypeOK
    <3> QED
      BY <1>0, <3>1, <3>2, <3>3 DEF Removals
  <2> QED
    BY <1>1, <2>1, <2>2, <2>3 DEF SInv
<1>7. CASE RemoveStart(r)
  <2>1. TypeOK'
    BY <1>0, <1>h, <1>7 DEF TypeOK, RemoveStart, Removal
  <2>2. Queues'
    BY <1>0, <1>7 DEF TypeOK, Queues, Removals, InQueue, RemoveStart, Removal, AppFree
  <2>3. Removals'
    BY <1>0, <1>h, <1>7 DEF TypeOK, Removals, RemoveStart, Removal, AppFree
  <2> QED
    BY <1>1, <2>1, <2>2, <2>3 DEF SInv
<1>8. CASE RemoveWait(r)
  <2>1. TypeOK'
    BY <1>0, <1>h, <1>8 DEF TypeOK, RemoveWait, Removal
  <2>2. Queues'
    BY <1>0, <1>8 DEF TypeOK, Queues, Removals, InQueue, RemoveWait, Removal
  <2>3. Removals'
    BY <1>0, <1>h, <1>8 DEF TypeOK, Removals, RemoveWait, Removal
  <2> QED
    BY <1>1, <2>1, <2>2, <2>3 DEF SInv
<1>9. CASE RemoveLock(r)
  <2>1. TypeOK'
    BY <1>0, <1>h, <1>9 DEF TypeOK, RemoveLock, Removal
  <2>2. Queues'
    BY <1>0, <1>9 DEF TypeOK, Queues, Removals, InQueue, RemoveLock, Removal
  <2>3. Removals'
    BY <1>0, <1>h, <1>9 DEF TypeOK, Removals, RemoveLock, Removal
  <2> QED
    BY <1>1, <2>1, <2>2, <2>3 DEF SInv
<1>10. CASE DispatchTaskQueue(r)
  <2> DEFINE i == prio[r]
             q == rq[i]
  <2>1. i \in Prios /\ q \in Seq(Routines)
    BY <1>0 DEF TypeOK
  <2>2. /\ cpc[r] = "queueing" /\ cpc' = [cpc EXCEPT ![r] = "queued"]
        /\ rq' = [rq EXCEPT ![i] = Append(q, r)]
        /\ UNCHANGED <<prio, id_cr, rpc, force_stop>>
    BY <1>10 DEF DispatchTaskQueue, Creation
  <2>3. rpc[r] = "none"
    BY <1>0, <2>2 DEF TypeOK, Removals
  <2>4. \A j \in Prios : \A k \in 1 .. Len(rq[j]) : rq[j][k] # r
    BY <1>0, <2>2 DEF Queues, InQueue
  <2> HIDE DEF i, q
  <2>5. /\ Append(q, r) \in Seq(Routines) /\ Len(Append(q, r)) = Len(q) + 1
        /\ \A k \in 1 .. Len(q) : Append(q, r)[k] = q[k]
        /\ Append(q, r)[Len(q) + 1] = r
    BY <2>1
  <2>6. /\ \A j \in Prios \ {i} : rq'[j] = rq[j]
        /\ rq'[i] = Append(q, r) /\ q = rq[i] /\ i = prio[r]
    BY <1>0, <2>1, <2>2 DEF TypeOK, i, q
  <2>7. TypeOK'
    BY <1>0, <1>h, <2>1, <2>2, <2>5 DEF TypeOK
  <2>8. Removals'
    BY <1>0, <1>h, <2>2, <2>3 DEF TypeOK, Removals
  <2>9. \A x \in Routines : InQueue(x)' <=> InQueue(x) \/ x = r
    BY <1>0, <2>2, <2>3 DEF TypeOK, InQueue
  <2>10. ASSUME NEW j \in Prios, NEW k \in 1 .. Len(rq'[j])
         PROVE  (InQueue(rq[j][k]) /\ prio[rq[j][k]] = j)'
    <3>1. CASE j = i /\ k = Len(q) + 1
      BY <2>1, <2>2, <2>5, <2>6, <2>9, <3>1
    <3>2. CASE ~(j = i /\ k = Len(q) + 1)
      <4>1. k \in 1 .. Len(rq[j]) /\ rq'[j][k] = rq[j][k]
        BY <2>1, <2>5, <2>6, <3>2
      <4>2. rq[j][k] \in Routines /\ InQueue(rq[j][k]) /\ prio[rq[j][k]] = j
        BY <1>0, <4>1 DEF TypeOK, Queues
      <4> QED
        BY <2>2, <2>9, <4>1, <4>2 DEF InQueue
    <3> QED
      BY <3>1, <3>2
  <2>11. ASSUME NEW j \in Prios, NEW k \in 1 .. Len(rq'[j]), NEW m \in 1 .. Len(rq'[j]),
                rq'[j][k] = rq'[j][m]
         PROVE  k = m
    <3>1. CASE j = i
      <4>1. \A a, b \in 1 .. Len(q) : q[a] = q[b] => a = b
        BY <1>0, <2>1, <2>6 DEF Queues
      <4>2. \A a \in 1 .. Len(q) : q[a] # r
        BY <2>1, <2>4, <2>6
      <4> QED
        <5>1. /\ k \in 1 .. Len(q) \/ (k = Len(q) + 1 /\ rq'[j][k] = r)
              /\ m \in 1 .. Len(q) \/ (m = Len(q) + 1 /\ rq'[j][m] = r)
          BY <2>1, <2>5, <2>6, <3>1, SMTT(30)
        <5>2. /\ k \in 1 .. Len(q) => rq'[j][k] = q[k]
              /\ m \in 1 .. Len(q) => rq'[j][m] = q[m]
          BY <2>5, <2>6, <3>1
        <5> QED
          BY <2>11, <4>1, <4>2, <5>1, <5>2
    <3>2. CASE j # i
      BY <1>0, <2>6, <2>11, <3>2 DEF Queues
    <3> QED
      BY <3>1, <3>2
  <2>12. ASSUME NEW x \in Routines, InQueue(x)'
         PROVE  \E k \in 1 .. Len(rq'[prio'[x]]) : rq'[prio'[x]][k] = x
    <3>1. CASE x = r
      BY <2>1, <2>2, <2>5, <2>6, <3>1
    <3>2. CASE x # r
      <4>1. PICK k \in 1 .. Len(rq[prio[x]]) : rq[prio[x]][k] = x
        BY <1>0, <2>9, <2>12, <3>2 DEF Queues
      <4> QED
        BY <1>0, <2>1, <2>2, <2>5, <2>6, <4>1 DEF TypeOK
    <3> QED
      BY <3>1, <3>2
  <2>13. Queues'
    BY <2>10, <2>11, <2>12 DEF Queues
  <2> QED
    BY <1>1, <2>7, <2>8, <2>13 DEF SInv
<1>11. CASE RemoveErase(r)
  <2> DEFINE i == prio[r]
             q == rq[i]
             e == Erase(q, r)
  <2>1. i \in Prios /\ q \in Seq(Routines)
    BY <1>0 DEF TypeOK
  <2>2. /\ rpc[r] = "holding" /\ rpc' = [rpc EXCEPT ![r] = "removed"]
        /\ rq' = [rq EXCEPT ![i] = e] /\ ~lock[r]
        /\ UNCHANGED <<prio, id_cr, cpc, force_stop>>
    BY <1>11 DEF RemoveErase, Removal
  <2>3. InQueue(r)
    BY <1>0, <2>2 DEF TypeOK, Removals, InQueue
  <2>4. PICK n \in 1 .. Len(q) : q[n] = r
    BY <1>0, <2>3 DEF Queues
  <2>u. \A j, k \in 1 .. Len(q) : q[j] = q[k] => j = k
    BY <1>0, <2>1 DEF Queues
  <2>5. /\ e \in Seq(Routines) /\ Len(e) = Len(q) - 1
        /\ \A k \in 1 .. Len(q) - 1 : e[k] = IF k < n THEN q[k] ELSE q[k + 1]
    <3>1. e = RemoveAt(q, n)
      BY <2>1, <2>4, <2>u, EraseElements
    <3> QED
      BY <2>1, <3>1, RemoveAtElements
  <2> HIDE DEF i, q, e
  <2>6. /\ \A j \in Prios \ {i} : rq'[j] = rq[j]
        /\ rq'[i] = e /\ q = rq[i] /\ i = prio[r]
    BY <1>0, <2>1, <2>2 DEF TypeOK, i, q
  <2>7. TypeOK'
    BY <1>0, <1>h, <2>1, <2>2, <2>5 DEF TypeOK
  <2>8. Removals'
    BY <1>0, <1>h, <2>2 DEF TypeOK, Removals
  <2>9. \A x \in Routines : InQueue(x)' <=> InQueue(x) /\ x # r
    BY <1>0, <2>2 DEF TypeOK, InQueue
  <2>s. \A k \in 1 .. Len(e) : \E m \in 1 .. Len(q) : m # n /\ e[k] = q[m]
    <3> TAKE k \in 1 .. Len(e)
    <3>1. CASE k < n
      BY <2>1, <2>5, <3>1
    <3>2. CASE ~(k < n)
      BY <2>1, <2>5, <3>2
    <3> QED
      BY <3>1, <3>2
  <2>10. ASSUME NEW j \in Prios, NEW k \in 1 .. Len(rq'[j])
         PROVE  (InQueue(rq[j][k]) /\ prio[rq[j][k]] = j)'
    <3>1. CASE j = i
      <4>1. PICK m \in 1 .. Len(q) : m # n /\ rq'[j][k] = q[m]
        BY <2>s, <2>6, <3>1
      <4>2. q[m] # r /\ q[m] \in Routines
        BY <2>1, <2>4, <2>u, <4>1
      <4>3. InQueue(q[m]) /\ prio[q[m]] = i
        BY <1>0, <2>1, <2>6 DEF Queues
      <4> QED
        BY <2>2, <2>9, <3>1, <4>1, <4>2, <4>3
    <3>2. CASE j # i
      <4>1. rq'[j] = rq[j] /\ rq[j][k] \in Routines
        BY <1>0, <2>6, <3>2 DEF TypeOK
      <4>2. InQueue(rq[j][k]) /\ prio[rq[j][k]] = j
        BY <1>0, <4>1 DEF Queues
      <4> QED
        BY <2>2, <2>6, <2>9, <3>2, <4>1, <4>2
    <3> QED
      BY <3>1, <3>2
  <2>11. ASSUME NEW j \in Prios, NEW k \in 1 .. Len(rq'[j]), NEW m \in 1 .. Len(rq'[j]),
                rq'[j][k] = rq'[j][m]
         PROVE  k = m
    <3>1. CASE j = i
      BY <2>1, <2>5, <2>6, <2>u, <2>11, <3>1, SMTT(30)
    <3>2. CASE j # i
      BY <1>0, <2>6, <2>11, <3>2 DEF Queues
    <3> QED
      BY <3>1, <3>2
  <2>12. ASSUME NEW x \in Routines, InQueue(x)'
         PROVE  \E k \in 1 .. Len(rq'[prio'[x]]) : rq'[prio'[x]][k] = x
    <3>1. PICK k \in 1 .. Len(rq[prio[x]]) : rq[prio[x]][k] = x
      BY <1>0, <2>9, <2>12 DEF Queues
    <3>2. CASE prio[x] = i
      <4>1. k \in 1 .. Len(q) /\ q[k] = x /\ k # n
        BY <2>4, <2>6, <2>9, <2>12, <3>1, <3>2
      <4>2. CASE k < n
        BY <2>1, <2>2, <2>5, <2>6, <3>2, <4>1, <4>2, SMTT(30)
      <4>3. CASE k > n
        <5>1. k - 1 \in 1 .. Len(e) /\ e[k - 1] = x
          BY <2>1, <2>5, <4>1, <4>3
        <5> QED
          BY <2>2, <2>6, <3>2, <5>1
      <4> QED
        BY <4>1, <4>2, <4>3
    <3>3. CASE prio[x] # i
      BY <1>0, <2>2, <2>6, <3>1, <3>3 DEF TypeOK
    <3> QED
      BY <3>2, <3>3
  <2>13. Queues'
    BY <2>10, <2>11, <2>12 DEF Queues
  <2> QED
    BY <1>1, <2>7, <2>8, <2>13 DEF SInv
<1> QED
  BY <1>2, <1>3, <1>4, <1>5, <1>6, <1>7, <1>8, <1>9, <1>10, <1>11 DEF Creating, Removing

(* SInv is an invariant of the scheduler. *)
LEMMA SInvInvariant == Spec => []SInv
<1>1. Init => SInv
  BY InitSInv
<1>2. SInv /\ [Next]_vars => SInv'
  <2> SUFFICES ASSUME SInv, [Next]_vars
               PROVE  SInv'
    OBVIOUS
  <2>1. CASE Next
    BY <2>1, ProcessorStep, ApplicationStep, DispatchStep DEF Next
  <2>2. CASE UNCHANGED vars
    BY <2>2 DEF vars, croutines, channel, processors, app, dispatch, SInv, TypeOK, Held,
                Queues, Removals, InQueue
  <2> QED
    BY <2>1, <2>2
<1> QED
  BY <1>1, <1>2, PTL DEF Spec

-----------------------------------------------------------------------------
(* The scheduler's state keeps its types. *)
THEOREM TypeCorrect == Spec => []TypeOK
<1>1. SInv => TypeOK
  BY DEF SInv
<1> QED
  BY <1>1, SInvInvariant, PTL

(***************************************************************************)
(* A coroutine is in the hands of one processor at most, and its lock_     *)
(* says so (CRoutine::Acquire and Release, Processor::Run).                *)
(***************************************************************************)
THEOREM OneProcessorHolds == Spec => []OneProcessor
<1>1. SInv => OneProcessor
  <2> SUFFICES ASSUME SInv, NEW r \in Routines
               PROVE  /\ \A p, q \in Processors : cr[p] = r /\ cr[q] = r => p = q
                      /\ lock[r] <=> \E p \in Processors : cr[p] = r
    BY DEF OneProcessor
  <2>1. r # None
    BY DEF Routines, None
  <2>2. \A p \in Processors : cr[p] = r => lock[r]
    BY <2>1 DEF SInv, Held
  <2> QED
    BY <2>1, <2>2 DEF SInv, Held
<1> QED
  BY <1>1, SInvInvariant, PTL

(***************************************************************************)
(* When RemoveTask has returned, no processor is at the coroutine and no   *)
(* queue holds it (ClassicContext::RemoveCRoutine).                        *)
(***************************************************************************)
THEOREM RemovedIsGoneHolds == Spec => []RemovedIsGone
<1>1. SInv => RemovedIsGone
  <2> SUFFICES ASSUME SInv, NEW r \in Routines, rpc[r] = "removed"
               PROVE  /\ \A p \in Processors : cr[p] # r
                      /\ \A i \in Prios : r \notin ToSet(rq[i])
    BY DEF RemovedIsGone
  <2>1. \A p \in Processors : cr[p] # r
    <3>1. ~lock[r] /\ r # None
      BY DEF SInv, Removals, Routines, None
    <3> QED
      BY <3>1 DEF SInv, Held
  <2>2. ASSUME NEW i \in Prios
        PROVE  r \notin ToSet(rq[i])
    <3>1. DOMAIN rq[i] = 1 .. Len(rq[i])
      BY DEF SInv, TypeOK
    <3>2. \A k \in 1 .. Len(rq[i]) : rq[i][k] # r
      BY DEF SInv, Queues, InQueue
    <3> QED
      BY <3>1, <3>2 DEF ToSet
  <2> QED
    BY <2>1, <2>2
<1> QED
  BY <1>1, SInvInvariant, PTL
-----------------------------------------------------------------------------
(***************************************************************************)
(* The switching of contexts.                                              *)
(***************************************************************************)
CtxStacks == CtxProcessors \cup CtxRoutines

(* The registers with which MakeContext starts a routine. *)
EntryRegisters(r) ==
  [x \in Contexts!Registers |-> IF x = "rdi" THEN Contexts!Argument(r) ELSE Contexts!Zero]

(* The frame that ctx_swap pushed at the words from low on the stack s:    *)
(* the registers in the order of Saved and the return address above them.  *)
Frame(s, low, regs, place) ==
  /\ sp[s] = low
  /\ mem[s][low + 7] = Contexts!Code(place)
  /\ \A i \in 1 .. 7 : mem[s][low + 7 - i] = regs[Contexts!Saved[i]]

(* What a processor is at, as a whole. *)
Cpu(s, top, regs, place) ==
  [on |-> s, sp |-> top, regs |-> regs, pc |-> Contexts!Code(place)]

(* p is on its own stack, in Processor::Run or back in Resume. *)
OnOwnStack(p, place) == cpu[p] = Cpu(p, Words, Contexts!RegistersOf(p), place)

(* p runs its current routine. *)
OnRoutine(p) ==
  \/ cpu[p] = Cpu(current[p], Words - 1, EntryRegisters(current[p]), "entry")
  \/ \E place \in {"body", "callback"} :
       cpu[p] = Cpu(current[p], Words - 1, Contexts!RegistersOf(current[p]), place)

(* A routine that nobody runs: as MakeContext left it, or as it yielded.   *)
(* Only a finished one has nowhere to go on.                               *)
Suspended(r) ==
  \/ Frame(r, Words - 9, EntryRegisters(r), "entry")
  \/ \E place \in {"body", "callback"} :
       Frame(r, Words - 9, Contexts!RegistersOf(r), place)
  \/ ctx_state[r] = "FINISHED"

CtxTyped ==
  /\ DOMAIN mem = CtxStacks /\ DOMAIN sp = CtxStacks
  /\ DOMAIN cpu = CtxProcessors /\ DOMAIN current = CtxProcessors
  /\ DOMAIN ctx_lock = CtxRoutines /\ DOMAIN ctx_state = CtxRoutines
  /\ DOMAIN owner = CtxRoutines

(* Where each processor is, and what it left on its own stack. *)
ProcessorAt(p) ==
  \/ OnOwnStack(p, "main") /\ current[p] = NoRoutine
  \/ /\ OnOwnStack(p, "resumed")
     /\ current[p] \in CtxRoutines /\ ctx_lock[current[p]] = TRUE
     /\ Suspended(current[p])
  \/ /\ OnRoutine(p)
     /\ current[p] \in CtxRoutines /\ ctx_lock[current[p]] = TRUE
     /\ owner[current[p]] = p
     /\ Frame(p, Words - 8, Contexts!RegistersOf(p), "resumed")

CtxInv ==
  /\ CtxTyped
  /\ \A p \in CtxProcessors : ProcessorAt(p)
  /\ \A p, q \in CtxProcessors : current[p] = current[q] /\ current[p] # NoRoutine => p = q
  /\ \A r \in CtxRoutines : Suspended(r) \/ \E p \in CtxProcessors : current[p] = r
-----------------------------------------------------------------------------
(* The names of the registers are those at the places of Saved, each once. *)
LEMMA SavedRegisters ==
  /\ Contexts!REGISTERS_SIZE = 7
  /\ Contexts!Registers = {Contexts!Saved[i] : i \in 1 .. 7}
  /\ \A i, j \in 1 .. 7 : Contexts!Saved[i] = Contexts!Saved[j] => i = j
<1>1. Contexts!REGISTERS_SIZE = 7
  BY DEF Contexts!REGISTERS_SIZE, Contexts!Saved
<1>2. \A i, j \in 1 .. 7 : Contexts!Saved[i] = Contexts!Saved[j] => i = j
  BY DEF Contexts!Saved
<1> QED
  BY <1>1, <1>2 DEF Contexts!Registers

(* The words of a stack after the pushes of ctx_swap, and the registers    *)
(* after its pops.                                                         *)
Pushed(m, low, regs, back) ==
  [i \in Contexts!Indexes |->
     IF i = low + Contexts!REGISTERS_SIZE THEN Contexts!Code(back)
     ELSE IF i \in low .. low + Contexts!REGISTERS_SIZE - 1
     THEN regs[Contexts!Saved[low + Contexts!REGISTERS_SIZE - i]]
     ELSE m[i]]
Popped(m, top) ==
  [x \in Contexts!Registers |->
     m[CHOOSE i \in top .. top + Contexts!REGISTERS_SIZE - 1 :
         Contexts!Saved[top + Contexts!REGISTERS_SIZE - i] = x]]

LEMMA PushesTheFrame ==
  ASSUME NEW m, NEW low \in Nat, low + 7 < Words, NEW regs, NEW back
  PROVE  /\ Pushed(m, low, regs, back)[low + 7] = Contexts!Code(back)
         /\ \A i \in 1 .. 7 :
              Pushed(m, low, regs, back)[low + 7 - i] = regs[Contexts!Saved[i]]
<1> USE ContextConstants
<1>1. \A i \in 0 .. Words - 1 :
        Pushed(m, low, regs, back)[i] =
          IF i = low + 7 THEN Contexts!Code(back)
          ELSE IF i \in low .. low + 7 - 1 THEN regs[Contexts!Saved[low + 7 - i]] ELSE m[i]
  BY SavedRegisters DEF Pushed, Contexts!Indexes
<1>2. ASSUME NEW i \in 1 .. 7
      PROVE  Pushed(m, low, regs, back)[low + 7 - i] = regs[Contexts!Saved[i]]
  <2>1. /\ low + 7 - i \in 0 .. Words - 1 /\ low + 7 - i # low + 7
        /\ low + 7 - i \in low .. low + 7 - 1 /\ low + 7 - (low + 7 - i) = i
    OBVIOUS
  <2> QED
    BY <1>1, <2>1
<1>3. low + 7 \in 0 .. Words - 1
  OBVIOUS
<1> QED
  BY <1>1, <1>2, <1>3

(* popq restores what the frame holds. *)
LEMMA PopsTheFrame ==
  ASSUME NEW m, NEW top \in Nat, NEW regs,
         regs = [x \in Contexts!Registers |-> regs[x]],
         \A i \in 1 .. 7 : m[top + 7 - i] = regs[Contexts!Saved[i]]
  PROVE  Popped(m, top) = regs
<1> DEFINE n == Contexts!REGISTERS_SIZE
           place(x) == CHOOSE i \in top .. top + n - 1 : Contexts!Saved[top + n - i] = x
<1>1. n = 7
  BY SavedRegisters
<1> HIDE DEF n
<1>2. ASSUME NEW x \in Contexts!Registers  PROVE  m[place(x)] = regs[x]
  <2>1. PICK j \in 1 .. 7 : x = Contexts!Saved[j]
    BY SavedRegisters
  <2>2. /\ top + n - j \in top .. top + n - 1
        /\ top + n - (top + n - j) = j
    BY <1>1
  <2>3. place(x) \in top .. top + n - 1 /\ Contexts!Saved[top + n - place(x)] = x
    BY <2>1, <2>2
  <2> HIDE DEF place
  <2>4. top + n - place(x) \in 1 .. 7
    BY <1>1, <2>3
  <2>5. top + n - place(x) = j
    BY <2>1, <2>3, <2>4, SavedRegisters
  <2>6. place(x) = top + 7 - j
    BY <1>1, <2>3, <2>5
  <2> QED
    BY <2>1, <2>6
<1>3. Popped(m, top) = [x \in Contexts!Registers |-> m[place(x)]]
  BY Zenon DEF Popped, n
<1> QED
  BY <1>2, <1>3

(* ctx_swap pushes a frame on the one stack and pops one from the other,   *)
(* and touches no third stack.                                             *)
LEMMA Swaps ==
  ASSUME CtxTyped, NEW p \in CtxProcessors, NEW src \in CtxStacks, NEW dst \in CtxStacks,
         NEW back, NEW low \in Nat, low + 7 < Words, NEW regs,
         cpu[p].sp = low + 8, cpu[p].regs = regs,
         NEW top \in Nat, NEW dregs, NEW place,
         dregs = [x \in Contexts!Registers |-> dregs[x]],
         Frame(dst, top, dregs, place),
         Contexts!SwapContext(p, src, dst, back)
  PROVE  /\ Frame(src, low, regs, back)'
         /\ cpu' = [cpu EXCEPT ![p] = Cpu(dst, top + 8, dregs, place)]
         /\ \A s \in CtxStacks \ {src} : mem'[s] = mem[s] /\ sp'[s] = sp[s]
         /\ DOMAIN mem' = CtxStacks /\ DOMAIN sp' = CtxStacks
<1>1. cpu[p].sp - 1 - Contexts!REGISTERS_SIZE = low
  BY SavedRegisters
<1>2. /\ mem' = [mem EXCEPT ![src] =
                   Pushed(mem[src], cpu[p].sp - 1 - Contexts!REGISTERS_SIZE, cpu[p].regs, back)]
      /\ sp' = [sp EXCEPT ![src] = cpu[p].sp - 1 - Contexts!REGISTERS_SIZE]
      /\ cpu' = [cpu EXCEPT ![p] =
           [on |-> dst, sp |-> sp[dst] + Contexts!REGISTERS_SIZE + 1,
            regs |-> Popped(mem[dst], sp[dst]),
            pc |-> mem[dst][sp[dst] + Contexts!REGISTERS_SIZE]]]
  BY Zenon DEF Contexts!SwapContext, Pushed, Popped
<1>3. /\ sp[dst] = top /\ mem[dst][top + 7] = Contexts!Code(place)
      /\ \A i \in 1 .. 7 : mem[dst][top + 7 - i] = dregs[Contexts!Saved[i]]
  BY DEF Frame
<1>4. Popped(mem[dst], top) = dregs
  BY <1>3, PopsTheFrame
<1>5. cpu' = [cpu EXCEPT ![p] = Cpu(dst, top + 8, dregs, place)]
  <2>1. top + Contexts!REGISTERS_SIZE + 1 = top + 8 /\ Contexts!REGISTERS_SIZE = 7
    BY SavedRegisters
  <2> QED
    BY <1>2, <1>3, <1>4, <2>1 DEF Cpu
<1> DEFINE pushed == Pushed(mem[src], low, regs, back)
<1>6. /\ mem'[src] = pushed /\ sp'[src] = low
      /\ \A s \in CtxStacks \ {src} : mem'[s] = mem[s] /\ sp'[s] = sp[s]
      /\ DOMAIN mem' = CtxStacks /\ DOMAIN sp' = CtxStacks
  BY <1>1, <1>2 DEF CtxTyped
<1>7. /\ pushed[low + 7] = Contexts!Code(back)
      /\ \A i \in 1 .. 7 : pushed[low + 7 - i] = regs[Contexts!Saved[i]]
  BY PushesTheFrame
<1>8. Frame(src, low, regs, back)'
  <2> HIDE DEF pushed
  <2> QED
    BY <1>6, <1>7 DEF Frame
<1> QED
  BY <1>5, <1>6, <1>8

-----------------------------------------------------------------------------
LEMMA CtxStart ==
  Contexts!CtxInit => CtxInv
<1> SUFFICES ASSUME Contexts!CtxInit  PROVE  CtxInv
  OBVIOUS
<1> USE ContextConstants
<1>1. CtxTyped
  BY DEF Contexts!CtxInit, Contexts!Stacks, CtxTyped, CtxStacks
<1>2. ASSUME NEW p \in CtxProcessors  PROVE  OnOwnStack(p, "main") /\ current[p] = NoRoutine
  BY DEF Contexts!CtxInit, OnOwnStack, Cpu
<1>3. ASSUME NEW r \in CtxRoutines  PROVE  Suspended(r)
  <2>1. /\ mem[r] = Contexts!MakeContext(r)
        /\ sp[r] = Words - 2 - 7
    BY SavedRegisters DEF Contexts!CtxInit, Contexts!Stacks, Contexts!InitialSp
  <2>2. \A i \in 0 .. Words - 1 :
          mem[r][i] = IF i = Words - 2 THEN Contexts!Code("entry")
                      ELSE IF i = Words - 3 THEN Contexts!Argument(r) ELSE Contexts!Zero
    BY <2>1 DEF Contexts!MakeContext, Contexts!Indexes
  <2>3. ASSUME NEW i \in 1 .. 7
        PROVE  mem[r][Words - 9 + 7 - i] = EntryRegisters(r)[Contexts!Saved[i]]
    <3>1. Words - 9 + 7 - i \in 0 .. Words - 1 /\ Words - 9 + 7 - i # Words - 2
      OBVIOUS
    <3>2. Words - 9 + 7 - i = Words - 3 <=> i = 1
      OBVIOUS
    <3>3. Contexts!Saved[i] \in Contexts!Registers
      BY SavedRegisters
    <3>4. Contexts!Saved[i] = "rdi" <=> i = 1
      BY DEF Contexts!Saved
    <3>5. EntryRegisters(r)[Contexts!Saved[i]] =
            IF i = 1 THEN Contexts!Argument(r) ELSE Contexts!Zero
      BY <3>3, <3>4 DEF EntryRegisters
    <3> QED
      BY <2>2, <3>1, <3>2, <3>5
  <2>4. mem[r][Words - 9 + 7] = Contexts!Code("entry")
    BY <2>2
  <2>5. sp[r] = Words - 9
    BY <2>1
  <2> QED
    BY <2>3, <2>4, <2>5 DEF Suspended, Frame
<1> QED
  BY <1>1, <1>2, <1>3 DEF CtxInv, ProcessorAt

-----------------------------------------------------------------------------
(* What a processor's code says of the processor. *)
LEMMA PlacesApart ==
  ASSUME NEW p \in CtxProcessors, ProcessorAt(p)
  PROVE  /\ Contexts!At(p, "main") => OnOwnStack(p, "main") /\ current[p] = NoRoutine
         /\ Contexts!At(p, "resumed") =>
              OnOwnStack(p, "resumed") /\ current[p] \in CtxRoutines /\ Suspended(current[p])
         /\ Contexts!At(p, "entry") =>
              /\ current[p] \in CtxRoutines /\ owner[current[p]] = p
              /\ ctx_lock[current[p]] = TRUE
              /\ Frame(p, Words - 8, Contexts!RegistersOf(p), "resumed")
              /\ cpu[p] = Cpu(current[p], Words - 1, EntryRegisters(current[p]), "entry")
         /\ Contexts!At(p, "body") \/ Contexts!At(p, "callback") =>
              /\ current[p] \in CtxRoutines /\ owner[current[p]] = p
              /\ ctx_lock[current[p]] = TRUE
              /\ Frame(p, Words - 8, Contexts!RegistersOf(p), "resumed")
              /\ cpu[p].on = current[p] /\ cpu[p].sp = Words - 1
              /\ cpu[p].regs = Contexts!RegistersOf(current[p])
<1>1. /\ \A s, top, regs, place : Cpu(s, top, regs, place).pc = <<"code", place>>
      /\ \A s, top, regs, place : Cpu(s, top, regs, place).on = s
      /\ \A s, top, regs, place : Cpu(s, top, regs, place).sp = top
      /\ \A s, top, regs, place : Cpu(s, top, regs, place).regs = regs
  BY DEF Cpu, Contexts!Code
<1>2. \A place : Contexts!At(p, place) <=> cpu[p].pc = <<"code", place>>
  BY DEF Contexts!At, Contexts!Code
<1> QED
  BY <1>1, <1>2 DEF ProcessorAt, OnOwnStack, OnRoutine

(* A routine that nobody touches stays suspended. *)
LEMMA StaysSuspended ==
  ASSUME NEW r \in CtxRoutines, Suspended(r), mem'[r] = mem[r], sp'[r] = sp[r],
         ctx_state[r] = "FINISHED" => ctx_state'[r] = "FINISHED"
  PROVE  Suspended(r)'
BY DEF Suspended, Frame

(* So does a processor, with its routine. *)
LEMMA StaysAt ==
  ASSUME NEW q \in CtxProcessors, ProcessorAt(q),
         cpu'[q] = cpu[q], current'[q] = current[q], mem'[q] = mem[q], sp'[q] = sp[q],
         current[q] \in CtxRoutines =>
           /\ ctx_lock'[current[q]] = ctx_lock[current[q]]
           /\ owner'[current[q]] = owner[current[q]]
           /\ mem'[current[q]] = mem[current[q]] /\ sp'[current[q]] = sp[current[q]]
           /\ ctx_state'[current[q]] = ctx_state[current[q]]
  PROVE  ProcessorAt(q)'
<1>1. OnOwnStack(q, "main") => OnOwnStack(q, "main")'
  BY DEF OnOwnStack
<1>2. OnOwnStack(q, "resumed") => OnOwnStack(q, "resumed")'
  BY DEF OnOwnStack
<1>3. OnRoutine(q) => OnRoutine(q)'
  BY DEF OnRoutine
<1>4. Frame(q, Words - 8, Contexts!RegistersOf(q), "resumed") =>
        Frame(q, Words - 8, Contexts!RegistersOf(q), "resumed")'
  BY DEF Frame
<1>5. current[q] \in CtxRoutines /\ Suspended(current[q]) => Suspended(current[q])'
  <2> SUFFICES ASSUME NEW r \in CtxRoutines, r = current[q], Suspended(r)
               PROVE  Suspended(r)'
    OBVIOUS
  <2> QED
    BY StaysSuspended
<1> QED
  BY <1>1, <1>2, <1>3, <1>4, <1>5 DEF ProcessorAt

(* A step of processor p on routine r that leaves both as they should be.  *)
LEMMA OneMoves ==
  ASSUME CtxInv, CtxTyped', NEW p \in CtxProcessors, NEW r \in CtxRoutines,
         ProcessorAt(p)', Suspended(r)' \/ current'[p] = r,
         current[p] \in {r, NoRoutine}, current'[p] \in {r, NoRoutine},
         \A q \in CtxProcessors \ {p} :
           /\ current[q] # r
           /\ cpu'[q] = cpu[q] /\ current'[q] = current[q]
           /\ mem'[q] = mem[q] /\ sp'[q] = sp[q],
         \A s \in CtxRoutines \ {r} :
           /\ ctx_lock'[s] = ctx_lock[s] /\ owner'[s] = owner[s]
           /\ mem'[s] = mem[s] /\ sp'[s] = sp[s] /\ ctx_state'[s] = ctx_state[s]
  PROVE  CtxInv'
<1>1. ASSUME NEW q \in CtxProcessors  PROVE  ProcessorAt(q)'
  <2>1. CASE q = p
    BY <2>1
  <2>2. CASE q # p
    BY <2>2, StaysAt DEF CtxInv
  <2> QED
    BY <2>1, <2>2
<1>2. \A q1, q2 \in CtxProcessors : current'[q1] = current'[q2] /\ current'[q1] # NoRoutine => q1 = q2
  BY DEF CtxInv
<1>3. ASSUME NEW s \in CtxRoutines
      PROVE  Suspended(s)' \/ \E q \in CtxProcessors : current'[q] = s
  <2>1. CASE s = r
    BY <2>1
  <2>2. CASE s # r /\ Suspended(s)
    BY <2>2, StaysSuspended
  <2>3. CASE s # r /\ \E q \in CtxProcessors : current[q] = s
    <3>1. s # NoRoutine
      BY ContextConstants
    <3> QED
      BY <2>3, <3>1
  <2> QED
    BY <2>1, <2>2, <2>3 DEF CtxInv
<1> QED
  BY <1>1, <1>2, <1>3 DEF CtxInv

(* Nobody else has the current routine of a processor, nor one whose lock  *)
(* is free.                                                                *)
LEMMA Alone ==
  ASSUME CtxInv
  PROVE  /\ \A p, q \in CtxProcessors :
              current[p] \in CtxRoutines /\ q # p => current[q] # current[p]
         /\ \A r \in CtxRoutines : ~ctx_lock[r] => \A q \in CtxProcessors : current[q] # r
BY ContextConstants DEF CtxInv, ProcessorAt

-----------------------------------------------------------------------------
(* Yield leaves the routine suspended, and its processor back in Resume. *)
LEMMA YieldStep ==
  ASSUME CtxInv, NEW p \in CtxProcessors, NEW new, NEW back,
         Contexts!At(p, "body") \/ Contexts!At(p, "callback"),
         Contexts!Yield(p, new, back),
         back \in {"body", "callback"} \/ new = "FINISHED",
         current' = current, ctx_lock' = ctx_lock, owner' = owner
  PROVE  CtxInv'
<1> USE ContextConstants
<1>1. PICK r \in CtxRoutines :
        /\ current[p] = r /\ ctx_lock[r] = TRUE
        /\ Frame(p, Words - 8, Contexts!RegistersOf(p), "resumed")
        /\ cpu[p].sp = Words - 1 /\ cpu[p].regs = Contexts!RegistersOf(r)
  BY PlacesApart DEF CtxInv
<1>2. /\ ctx_state' = [ctx_state EXCEPT ![r] = new]
      /\ Contexts!SwapContext(p, r, p, back)
  BY <1>1, Zenon DEF Contexts!Yield
<1>3. Contexts!RegistersOf(p) =
        [x \in Contexts!Registers |-> Contexts!RegistersOf(p)[x]]
  BY DEF Contexts!RegistersOf
<1>4. /\ Words - 9 \in Nat /\ Words - 9 + 7 < Words /\ Words - 9 + 8 = Words - 1
      /\ Words - 8 \in Nat /\ Words - 8 + 8 = Words
  OBVIOUS
<1>5. /\ Frame(r, Words - 9, Contexts!RegistersOf(r), back)'
      /\ cpu' = [cpu EXCEPT ![p] = Cpu(p, Words, Contexts!RegistersOf(p), "resumed")]
      /\ \A s \in CtxStacks \ {r} : mem'[s] = mem[s] /\ sp'[s] = sp[s]
      /\ DOMAIN mem' = CtxStacks /\ DOMAIN sp' = CtxStacks
  <2>1. p \in CtxStacks /\ r \in CtxStacks /\ CtxTyped
    BY DEF CtxStacks, CtxInv
  <2> DEFINE low == Words - 9
             top == Words - 8
             regs == Contexts!RegistersOf(r)
             dregs == Contexts!RegistersOf(p)
  <2>2. /\ low \in Nat /\ low + 7 < Words /\ cpu[p].sp = low + 8 /\ cpu[p].regs = regs
        /\ top \in Nat /\ dregs = [x \in Contexts!Registers |-> dregs[x]]
        /\ Frame(p, top, dregs, "resumed")
    BY <1>1, <1>3, <1>4
  <2> HIDE DEF low, top, regs, dregs
  <2>3. /\ Frame(r, low, regs, back)'
        /\ cpu' = [cpu EXCEPT ![p] = Cpu(p, top + 8, dregs, "resumed")]
        /\ \A s \in CtxStacks \ {r} : mem'[s] = mem[s] /\ sp'[s] = sp[s]
        /\ DOMAIN mem' = CtxStacks /\ DOMAIN sp' = CtxStacks
    BY <1>2, <2>1, <2>2, Swaps
  <2> QED
    BY <1>4, <2>3 DEF low, top, regs, dregs
<1>6. CtxTyped'
  BY <1>2, <1>5 DEF CtxInv, CtxTyped
<1>7. Suspended(r)'
  <2>1. ctx_state'[r] = new
    BY <1>2 DEF CtxInv, CtxTyped
  <2> QED
    BY <1>5, <2>1 DEF Suspended
<1>8. ProcessorAt(p)'
  <2>1. OnOwnStack(p, "resumed")'
    BY <1>5 DEF OnOwnStack, CtxInv, CtxTyped
  <2>2. /\ current'[p] = r /\ ctx_lock'[r] = TRUE
        /\ Suspended(current[p])'
    BY <1>1, <1>7
  <2> QED
    BY <2>1, <2>2 DEF ProcessorAt
<1>9. \A q \in CtxProcessors \ {p} :
        /\ current[q] # r /\ cpu'[q] = cpu[q] /\ current'[q] = current[q]
        /\ mem'[q] = mem[q] /\ sp'[q] = sp[q]
  <2>1. \A q \in CtxProcessors \ {p} : q \in CtxStacks \ {r}
    BY DEF CtxStacks
  <2> QED
    BY <1>1, <1>5, <2>1, Alone DEF CtxInv, CtxTyped
<1>10. \A s \in CtxRoutines \ {r} :
         /\ ctx_lock'[s] = ctx_lock[s] /\ owner'[s] = owner[s]
         /\ mem'[s] = mem[s] /\ sp'[s] = sp[s] /\ ctx_state'[s] = ctx_state[s]
  BY <1>2, <1>5 DEF CtxStacks, CtxInv, CtxTyped
<1>11. current[p] \in {r, NoRoutine} /\ current'[p] \in {r, NoRoutine}
  BY <1>1
<1> QED
  BY <1>6, <1>7, <1>8, <1>9, <1>10, <1>11, OneMoves

(* Resume of a routine that is READY. *)
LEMMA ResumeReady ==
  ASSUME CtxInv, NEW p \in CtxProcessors, NEW r \in CtxRoutines,
         Contexts!Resume(p, r), ctx_state'[r] = "READY"
  PROVE  CtxInv'
<1> USE ContextConstants
<1>1. /\ Contexts!At(p, "main") /\ ~ctx_lock[r]
      /\ ctx_state' = [ctx_state EXCEPT ![r] = Contexts!UpdateState(r)]
      /\ ctx_lock' = [ctx_lock EXCEPT ![r] = TRUE]
      /\ current' = [current EXCEPT ![p] = r] /\ owner' = [owner EXCEPT ![r] = p]
      /\ Contexts!SwapContext(p, p, r, "resumed")
  BY Zenon DEF Contexts!Resume
<1>2. OnOwnStack(p, "main") /\ current[p] = NoRoutine
  BY <1>1, PlacesApart DEF CtxInv
<1>3. cpu[p].sp = Words /\ cpu[p].regs = Contexts!RegistersOf(p)
  BY <1>2 DEF OnOwnStack, Cpu
<1>4. \A q \in CtxProcessors : current[q] # r
  BY <1>1, Alone
<1>5. ctx_state[r] # "FINISHED"
  BY <1>1 DEF Contexts!UpdateState, CtxInv, CtxTyped
<1>6. Suspended(r)
  BY <1>4 DEF CtxInv
<1>7. PICK dregs, place :
        /\ Frame(r, Words - 9, dregs, place)
        /\ \/ dregs = EntryRegisters(r) /\ place = "entry"
           \/ dregs = Contexts!RegistersOf(r) /\ place \in {"body", "callback"}
  BY <1>5, <1>6 DEF Suspended
<1>8. dregs = [x \in Contexts!Registers |-> dregs[x]]
  BY <1>7 DEF Contexts!RegistersOf, EntryRegisters
<1>9. /\ Words - 8 \in Nat /\ Words - 8 + 7 < Words /\ Words - 8 + 8 = Words
      /\ Words - 9 \in Nat /\ Words - 9 + 8 = Words - 1
  OBVIOUS
<1>10. /\ Frame(p, Words - 8, Contexts!RegistersOf(p), "resumed")'
       /\ cpu' = [cpu EXCEPT ![p] = Cpu(r, Words - 1, dregs, place)]
       /\ \A s \in CtxStacks \ {p} : mem'[s] = mem[s] /\ sp'[s] = sp[s]
       /\ DOMAIN mem' = CtxStacks /\ DOMAIN sp' = CtxStacks
  <2>1. p \in CtxStacks /\ r \in CtxStacks /\ CtxTyped
    BY DEF CtxStacks, CtxInv
  <2> DEFINE low == Words - 8
             top == Words - 9
             regs == Contexts!RegistersOf(p)
  <2>2. /\ low \in Nat /\ low + 7 < Words /\ cpu[p].sp = low + 8 /\ cpu[p].regs = regs
        /\ top \in Nat /\ Frame(r, top, dregs, place)
    BY <1>3, <1>7, <1>9
  <2> HIDE DEF low, top, regs
  <2>3. /\ Frame(p, low, regs, "resumed")'
        /\ cpu' = [cpu EXCEPT ![p] = Cpu(r, top + 8, dregs, place)]
        /\ \A s \in CtxStacks \ {p} : mem'[s] = mem[s] /\ sp'[s] = sp[s]
        /\ DOMAIN mem' = CtxStacks /\ DOMAIN sp' = CtxStacks
    BY <1>1, <1>8, <2>1, <2>2, Swaps
  <2> QED
    BY <1>9, <2>3 DEF low, top, regs
<1>11. CtxTyped'
  BY <1>1, <1>10 DEF CtxInv, CtxTyped
<1>12. current'[p] = r /\ ctx_lock'[r] = TRUE /\ owner'[r] = p
       /\ cpu'[p] = Cpu(r, Words - 1, dregs, place)
  BY <1>1, <1>10 DEF CtxInv, CtxTyped
<1>13. ProcessorAt(p)'
  <2>1. OnRoutine(p)'
    BY <1>7, <1>12 DEF OnRoutine
  <2> QED
    BY <1>10, <1>12, <2>1 DEF ProcessorAt
<1>14. \A q \in CtxProcessors \ {p} :
         /\ current[q] # r /\ cpu'[q] = cpu[q] /\ current'[q] = current[q]
         /\ mem'[q] = mem[q] /\ sp'[q] = sp[q]
  BY <1>1, <1>4, <1>10 DEF CtxStacks, CtxInv, CtxTyped
<1>15. \A s \in CtxRoutines \ {r} :
         /\ ctx_lock'[s] = ctx_lock[s] /\ owner'[s] = owner[s]
         /\ mem'[s] = mem[s] /\ sp'[s] = sp[s] /\ ctx_state'[s] = ctx_state[s]
  <2>1. \A s \in CtxRoutines : s \in CtxStacks \ {p}
    BY DEF CtxStacks
  <2> QED
    BY <1>1, <1>10, <2>1 DEF CtxInv, CtxTyped
<1>16. current[p] \in {r, NoRoutine} /\ current'[p] \in {r, NoRoutine}
  BY <1>2, <1>12
<1> QED
  BY <1>11, <1>12, <1>13, <1>14, <1>15, <1>16, OneMoves

(* Resume of a routine that is not READY changes at most its state. *)
LEMMA ResumeRefused ==
  ASSUME CtxInv, NEW p \in CtxProcessors, NEW r \in CtxRoutines,
         Contexts!Resume(p, r), ctx_state'[r] # "READY"
  PROVE  CtxInv'
<1>1. /\ Contexts!At(p, "main") /\ ~ctx_lock[r]
      /\ ctx_state' = [ctx_state EXCEPT ![r] = Contexts!UpdateState(r)]
      /\ UNCHANGED <<ctx_lock, current, owner, mem, sp, cpu>>
  BY Zenon DEF Contexts!Resume
<1>2. OnOwnStack(p, "main") /\ current[p] = NoRoutine
  BY <1>1, PlacesApart DEF CtxInv
<1>3. \A q \in CtxProcessors : current[q] # r
  BY <1>1, Alone
<1>4. Suspended(r)'
  <2>1. Suspended(r)
    BY <1>3 DEF CtxInv
  <2>2. ctx_state[r] = "FINISHED" => ctx_state'[r] = "FINISHED"
    BY <1>1 DEF Contexts!UpdateState, CtxInv, CtxTyped
  <2> QED
    BY <1>1, <2>1, <2>2, StaysSuspended
<1>5. CtxTyped'
  BY <1>1 DEF CtxInv, CtxTyped
<1>6. ProcessorAt(p)'
  BY <1>1, <1>2 DEF ProcessorAt, OnOwnStack
<1>7. \A s \in CtxRoutines \ {r} : ctx_state'[s] = ctx_state[s]
  BY <1>1 DEF CtxInv, CtxTyped
<1> QED
  BY <1>1, <1>2, <1>3, <1>4, <1>5, <1>6, <1>7, OneMoves

(* The processor lets go of the routine it ran. *)
LEMMA ResumedStep ==
  ASSUME CtxInv, NEW p \in CtxProcessors, Contexts!Resumed(p)
  PROVE  CtxInv'
<1>1. /\ Contexts!At(p, "resumed")
      /\ ctx_lock' = [ctx_lock EXCEPT ![current[p]] = FALSE]
      /\ current' = [current EXCEPT ![p] = NoRoutine]
      /\ cpu' = [cpu EXCEPT ![p].pc = Contexts!Code("main")]
      /\ UNCHANGED <<mem, sp, ctx_state, owner>>
  BY Zenon DEF Contexts!Resumed
<1>2. PICK r \in CtxRoutines : current[p] = r /\ OnOwnStack(p, "resumed") /\ Suspended(r)
  BY <1>1, PlacesApart DEF CtxInv
<1>3. CtxTyped'
  BY <1>1 DEF CtxInv, CtxTyped
<1>4. ProcessorAt(p)'
  <2>1. cpu'[p] = [cpu[p] EXCEPT !.pc = Contexts!Code("main")]
    BY <1>1 DEF CtxInv, CtxTyped
  <2>2. OnOwnStack(p, "main")'
    BY <1>2, <2>1 DEF OnOwnStack, Cpu
  <2> QED
    BY <1>1, <2>2 DEF ProcessorAt, CtxInv, CtxTyped
<1>5. Suspended(r)'
  BY <1>1, <1>2, StaysSuspended
<1>6. \A q \in CtxProcessors \ {p} :
        current[q] # r /\ cpu'[q] = cpu[q] /\ current'[q] = current[q]
  BY <1>1, <1>2, Alone DEF CtxInv, CtxTyped
<1>7. \A s \in CtxRoutines \ {r} : ctx_lock'[s] = ctx_lock[s]
  BY <1>1, <1>2 DEF CtxInv, CtxTyped
<1>8. current[p] \in {r, NoRoutine} /\ current'[p] \in {r, NoRoutine}
  BY <1>1, <1>2 DEF CtxInv, CtxTyped
<1> QED
  BY <1>1, <1>3, <1>4, <1>5, <1>6, <1>7, <1>8, OneMoves

(* The routine that CRoutineEntry runs is the one rdi holds: the routine   *)
(* whose stack it is on.                                                   *)
LEMMA EntryStep ==
  ASSUME CtxInv, NEW p \in CtxProcessors, Contexts!Entry(p)
  PROVE  CtxInv'
<1>1. /\ Contexts!At(p, "entry")
      /\ cpu' = [cpu EXCEPT ![p].regs = Contexts!RegistersOf(cpu[p].regs["rdi"][2]),
                            ![p].pc = Contexts!Code("body")]
      /\ UNCHANGED <<mem, sp, current, ctx_lock, ctx_state, owner>>
  BY Zenon DEF Contexts!Entry, Contexts!routineVars
<1>2. PICK r \in CtxRoutines :
        /\ current[p] = r /\ owner[r] = p /\ ctx_lock[r] = TRUE
        /\ Frame(p, Words - 8, Contexts!RegistersOf(p), "resumed")
        /\ cpu[p] = Cpu(r, Words - 1, EntryRegisters(r), "entry")
  BY <1>1, PlacesApart DEF CtxInv
<1>3. cpu[p].regs["rdi"][2] = r
  <2>1. "rdi" \in Contexts!Registers
    BY SavedRegisters DEF Contexts!Saved
  <2>2. cpu[p].regs = EntryRegisters(r)
    BY <1>2 DEF Cpu
  <2>3. EntryRegisters(r)["rdi"] = <<"argument", r>>
    BY <2>1 DEF EntryRegisters, Contexts!Argument
  <2> QED
    BY <2>2, <2>3
<1>4. cpu' = [cpu EXCEPT ![p] = Cpu(r, Words - 1, Contexts!RegistersOf(r), "body")]
  <2>1. cpu' = [cpu EXCEPT ![p] =
                  [[cpu[p] EXCEPT !.regs = Contexts!RegistersOf(r)]
                     EXCEPT !.pc = Contexts!Code("body")]]
    BY <1>1, <1>3 DEF CtxInv, CtxTyped
  <2>2. [[cpu[p] EXCEPT !.regs = Contexts!RegistersOf(r)] EXCEPT !.pc = Contexts!Code("body")]
          = Cpu(r, Words - 1, Contexts!RegistersOf(r), "body")
    <3>1. [cpu[p] EXCEPT !.regs = Contexts!RegistersOf(r)]
            = Cpu(r, Words - 1, Contexts!RegistersOf(r), "entry")
      BY <1>2 DEF Cpu
    <3>2. [Cpu(r, Words - 1, Contexts!RegistersOf(r), "entry") EXCEPT !.pc = Contexts!Code("body")]
            = Cpu(r, Words - 1, Contexts!RegistersOf(r), "body")
      BY DEF Cpu
    <3> QED
      BY <3>1, <3>2
  <2> QED
    BY <2>1, <2>2
<1>5. CtxTyped'
  BY <1>1, <1>4 DEF CtxInv, CtxTyped
<1>6. ProcessorAt(p)'
  <2>1. OnRoutine(p)'
    BY <1>1, <1>2, <1>4 DEF OnRoutine, CtxInv, CtxTyped
  <2>2. Frame(p, Words - 8, Contexts!RegistersOf(p), "resumed")'
    BY <1>1, <1>2 DEF Frame
  <2> QED
    BY <1>1, <1>2, <2>1, <2>2 DEF ProcessorAt
<1>7. \A q \in CtxProcessors \ {p} : current[q] # r /\ cpu'[q] = cpu[q]
  BY <1>2, <1>4, Alone DEF CtxInv, CtxTyped
<1>8. current[p] \in {r, NoRoutine} /\ current'[p] \in {r, NoRoutine} /\ current'[p] = r
  BY <1>1, <1>2
<1> QED
  BY <1>1, <1>5, <1>6, <1>7, <1>8, OneMoves

(* What keeps the stacks, the processors and the states keeps the invariant. *)
LEMMA CtxStutter ==
  ASSUME CtxInv, UNCHANGED <<mem, sp, cpu, current, ctx_lock, ctx_state, owner>>
  PROVE  CtxInv'
<1>1. CtxTyped'
  BY DEF CtxInv, CtxTyped
<1>2. \A p \in CtxProcessors : ProcessorAt(p)'
  BY StaysAt DEF CtxInv
<1>3. \A r \in CtxRoutines : Suspended(r) => Suspended(r)'
  BY StaysSuspended
<1> QED
  BY <1>1, <1>2, <1>3 DEF CtxInv

LEMMA CtxStep ==
  CtxInv /\ [Contexts!CtxNext]_(Contexts!ctxVars) => CtxInv'
<1> SUFFICES ASSUME CtxInv, [Contexts!CtxNext]_(Contexts!ctxVars)  PROVE  CtxInv'
  OBVIOUS
<1>1. ASSUME NEW p \in CtxProcessors, Contexts!Resumed(p)  PROVE  CtxInv'
  BY <1>1, ResumedStep
<1>2. ASSUME NEW p \in CtxProcessors, Contexts!Entry(p)  PROVE  CtxInv'
  BY <1>2, EntryStep
<1>3. ASSUME NEW p \in CtxProcessors, Contexts!SubscriberBody(p)  PROVE  CtxInv'
  <2>1. /\ Contexts!At(p, "body") /\ current' = current /\ ctx_lock' = ctx_lock /\ owner' = owner
        /\ \/ Contexts!Yield(p, "DATA_WAIT", "body") \/ Contexts!Yield(p, "READY", "body")
           \/ Contexts!Yield(p, "DATA_WAIT", "callback") \/ Contexts!Yield(p, "SLEEP", "callback")
    BY <1>3, Zenon DEF Contexts!SubscriberBody
  <2> QED
    BY <2>1, YieldStep
<1>4. ASSUME NEW p \in CtxProcessors, Contexts!SubscriberCallback(p)  PROVE  CtxInv'
  <2>1. /\ Contexts!At(p, "callback") /\ Contexts!Yield(p, "READY", "body")
        /\ current' = current /\ ctx_lock' = ctx_lock /\ owner' = owner
    BY <1>4, Zenon DEF Contexts!SubscriberCallback
  <2> QED
    BY <2>1, YieldStep
<1>5. ASSUME NEW p \in CtxProcessors, Contexts!FunctionBody(p)  PROVE  CtxInv'
  <2>1. /\ Contexts!At(p, "body") /\ current' = current /\ ctx_lock' = ctx_lock /\ owner' = owner
        /\ \/ Contexts!Yield(p, ctx_state[current[p]], "body")
           \/ Contexts!Yield(p, "FINISHED", "off")
    BY <1>5, Zenon DEF Contexts!FunctionBody
  <2>2. PICK new, back : /\ Contexts!Yield(p, new, back)
                         /\ back \in {"body", "callback"} \/ new = "FINISHED"
    BY <2>1
  <2> QED
    BY <2>1, <2>2, YieldStep
<1>6. ASSUME NEW p \in CtxProcessors, NEW r \in CtxRoutines, Contexts!Resume(p, r)
      PROVE  CtxInv'
  BY <1>6, ResumeReady, ResumeRefused
<1>7. ASSUME NEW r \in CtxRoutines, Contexts!SetUpdateFlag(r)  PROVE  CtxInv'
  BY <1>7, CtxStutter DEF Contexts!SetUpdateFlag
<1>8. ASSUME Contexts!Tick  PROVE  CtxInv'
  BY <1>8, CtxStutter DEF Contexts!Tick
<1>9. ASSUME UNCHANGED Contexts!ctxVars  PROVE  CtxInv'
  BY <1>9, CtxStutter DEF Contexts!ctxVars
<1> QED
  BY <1>1, <1>2, <1>3, <1>4, <1>5, <1>6, <1>7, <1>8, <1>9 DEF Contexts!CtxNext

(***************************************************************************)
(* For any number of threads and coroutines and any size of stack that     *)
(* holds a frame, whatever the threads, the notifications and the clock    *)
(* do: after every ctx_swap the code that goes on finds its own stack and  *)
(* registers, a routine starts at CRoutineEntry with itself as argument    *)
(* and is in the hands of the processor that resumed it, and nobody        *)
(* resumes a finished routine.                                             *)
(***************************************************************************)
THEOREM SwapsAreIntact ==
  Contexts!CtxSpec => []SwapsIntact
<1>1. CtxInv => SwapsIntact
  <2> SUFFICES ASSUME CtxInv, NEW p \in CtxProcessors
               PROVE  \/ /\ Contexts!At(p, "main") \/ Contexts!At(p, "resumed")
                         /\ cpu[p].on = p /\ cpu[p].regs = Contexts!RegistersOf(p)
                         /\ cpu[p].sp = Words
                      \/ /\ Contexts!At(p, "entry") /\ current[p] = cpu[p].on
                         /\ cpu[p].regs["rdi"] = Contexts!Argument(cpu[p].on)
                      \/ /\ Contexts!At(p, "body") \/ Contexts!At(p, "callback")
                         /\ current[p] = cpu[p].on /\ owner[cpu[p].on] = p
                         /\ cpu[p].regs = Contexts!RegistersOf(cpu[p].on)
    BY DEF SwapsIntact, Contexts!SwapsIntact
  <2>1. ProcessorAt(p)
    BY DEF CtxInv
  <2>2. "rdi" \in Contexts!Registers
    BY SavedRegisters DEF Contexts!Saved
  <2>3. EntryRegisters(current[p])["rdi"] = Contexts!Argument(current[p])
    BY <2>2 DEF EntryRegisters
  <2> QED
    BY <2>1, <2>3 DEF ProcessorAt, OnOwnStack, OnRoutine, Cpu, Contexts!At
<1> QED
  BY <1>1, CtxStart, CtxStep, PTL DEF Contexts!CtxSpec
=============================================================================
