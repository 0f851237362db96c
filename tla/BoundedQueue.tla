---------------------------- MODULE BoundedQueue ----------------------------
(***************************************************************************)
(* base::BoundedQueue<T> (base/bounded_queue.h), one step per atomic       *)
(* access.  Three ever-growing cursors share a ring of pool_size_ slots:   *)
(* head_ is the last consumed position, tail_ the next position to claim   *)
(* and commit_ the first position that is not committed.  Enqueue claims a *)
(* position by a CAS on tail_, writes its slot without a lock and commits  *)
(* the positions in order by a CAS on commit_; Dequeue copies the slot     *)
(* after head_ BEFORE it tries to claim it by a CAS on head_.              *)
(*                                                                         *)
(* A slot write is two steps with a torn value in between, so that a copy  *)
(* that races with it is seen.  compare_exchange_weak may fail although    *)
(* the value is the expected one.  The cursors are 64 bits wide and do not *)
(* wrap in the life of a process; the accesses are acquire/release on one  *)
(* variable each and are modelled as sequentially consistent.              *)
(*                                                                         *)
(* A definition that precedes another and differs from it by one fault     *)
(* (NeverLooksFull, EnqueueClaimByStore, ...) is a mutant of it: it shows  *)
(* that the properties can tell the code from a faulty version of it.      *)
(***************************************************************************)
EXTENDS Integers, Sequences

CONSTANTS
  Producers,   \* threads that call Enqueue
  Consumers,   \* threads that call Dequeue
  Elements,    \* the values of type T that are enqueued
  Default,     \* T(): what Init constructs in every slot
  Torn,        \* what a copy yields while the slot is being written
  Size,        \* the argument of Init(size)
  MaxCalls     \* bound on the number of Enqueue calls

ASSUME ThreadsAssumption == Producers \cap Consumers = {}
ASSUME SizeAssumption == Size \in Nat
ASSUME MaxCallsAssumption == MaxCalls \in Nat
ASSUME ValuesAssumption == Default \notin Elements /\ Torn \notin Elements

VARIABLES
  head, tail, commit,  \* head_, tail_, commit_
  pool,                \* pool_
  pc,                  \* where each thread is in its call
  old,                 \* the local old_tail / old_head
  arg,                 \* the producer's argument
  element,             \* the consumer's out-parameter *element
  ret,                 \* "idle", "pending" or the latest return value
  calls                \* Enqueue calls made so far

cursors == <<head, tail, commit>>
vars == <<head, tail, commit, pool, pc, old, arg, element, ret, calls>>

Threads == Producers \cup Consumers
Slots == Elements \cup {Default, Torn}

pool_size == Size + 2

GetIndex(num) == num % pool_size

ProducerPC == {"idle", "check", "cas", "write", "writing", "commit"}
ConsumerPC == {"idle", "check", "copy", "cas"}

Init ==
  /\ head = 0 /\ tail = 1 /\ commit = 1
  /\ pool = [i \in 0 .. pool_size - 1 |-> Default]
  /\ pc = [t \in Threads |-> "idle"]
  /\ old = [t \in Threads |-> 0]
  /\ arg = [p \in Producers |-> Default]
  /\ element = [c \in Consumers |-> Default]
  /\ ret = [t \in Threads |-> "idle"]
  /\ calls = 0

-----------------------------------------------------------------------------
(* Thread t moves from one point of its call to another. *)
Goto(t, from, to) ==
  /\ pc[t] = from
  /\ pc' = [pc EXCEPT ![t] = to]

(* Thread t returns the value v to its caller. *)
Return(t, from, v) ==
  /\ Goto(t, from, "idle")
  /\ ret' = [ret EXCEPT ![t] = v]

(* Enqueue(element): load tail_. *)
EnqueueCall(p, e) ==
  /\ calls < MaxCalls
  /\ Goto(p, "idle", "check")
  /\ old' = [old EXCEPT ![p] = tail]
  /\ arg' = [arg EXCEPT ![p] = e]
  /\ ret' = [ret EXCEPT ![p] = "pending"]
  /\ calls' = calls + 1
  /\ UNCHANGED <<cursors, pool, element>>

LooksFullEarly(p) == GetIndex(old[p] + 2) = GetIndex(head)

(* The ring looks full when the position after old_tail shares its slot    *)
(* with head_.                                                             *)
LooksFull(p) == GetIndex(old[p] + 1) = GetIndex(head)

EnqueueCheck(p) ==
  /\ \/ LooksFull(p) /\ Return(p, "check", "false")
     \/ ~LooksFull(p) /\ Goto(p, "check", "cas") /\ UNCHANGED ret
  /\ UNCHANGED <<cursors, pool, old, arg, element, calls>>

(* Fault: tail_ is stored without a CAS. *)
EnqueueClaimByStore(p) ==
  /\ Goto(p, "cas", "write")
  /\ tail' = old[p] + 1
  /\ UNCHANGED <<head, commit, pool, old, arg, element, ret, calls>>

EnqueueClaim(p) ==
  /\ tail = old[p]
  /\ Goto(p, "cas", "write")
  /\ tail' = old[p] + 1
  /\ UNCHANGED <<head, commit, pool, old, arg, element, ret, calls>>

(* The CAS on tail_ fails, spuriously or not, and reloads old_tail. *)
EnqueueRetry(p) ==
  /\ Goto(p, "cas", "check")
  /\ old' = [old EXCEPT ![p] = tail]
  /\ UNCHANGED <<cursors, pool, arg, element, ret, calls>>

EnqueueWriteBegin(p) ==
  /\ Goto(p, "write", "writing")
  /\ pool' = [pool EXCEPT ![GetIndex(old[p])] = Torn]
  /\ UNCHANGED <<cursors, old, arg, element, ret, calls>>

EnqueueWriteEnd(p) ==
  /\ Goto(p, "writing", "commit")
  /\ pool' = [pool EXCEPT ![GetIndex(old[p])] = arg[p]]
  /\ UNCHANGED <<cursors, old, arg, element, ret, calls>>

(* Fault: the CAS expects new_tail in commit_ instead of old_tail. *)
EnqueueCommitExpectsNew(p) ==
  /\ commit = old[p] + 1
  /\ commit' = old[p] + 1
  /\ Return(p, "commit", "true")
  /\ UNCHANGED <<head, tail, pool, old, arg, element, calls>>

(* The spin on commit_: a failed CAS changes nothing. *)
EnqueueCommit(p) ==
  /\ commit = old[p]
  /\ commit' = old[p] + 1
  /\ Return(p, "commit", "true")
  /\ UNCHANGED <<head, tail, pool, old, arg, element, calls>>

-----------------------------------------------------------------------------

(* Dequeue(element): load head_. *)
DequeueCall(c) ==
  /\ Goto(c, "idle", "check")
  /\ old' = [old EXCEPT ![c] = head]
  /\ ret' = [ret EXCEPT ![c] = "pending"]
  /\ UNCHANGED <<cursors, pool, arg, element, calls>>

LooksEmpty(c) == old[c] + 1 = commit

DequeueCheck(c) ==
  /\ \/ LooksEmpty(c) /\ Return(c, "check", "false")
     \/ ~LooksEmpty(c) /\ Goto(c, "check", "copy") /\ UNCHANGED ret
  /\ UNCHANGED <<cursors, pool, old, arg, element, calls>>

DequeueCopy(c) ==
  /\ Goto(c, "copy", "cas")
  /\ element' = [element EXCEPT ![c] = pool[GetIndex(old[c] + 1)]]
  /\ UNCHANGED <<cursors, pool, old, arg, ret, calls>>

(* Fault: head_ is stored without a CAS. *)
DequeueClaimByStore(c) ==
  /\ head' = old[c] + 1
  /\ Return(c, "cas", "true")
  /\ UNCHANGED <<tail, commit, pool, old, arg, element, calls>>

DequeueClaim(c) ==
  /\ head = old[c]
  /\ head' = old[c] + 1
  /\ Return(c, "cas", "true")
  /\ UNCHANGED <<tail, commit, pool, old, arg, element, calls>>

(* The CAS on head_ fails, spuriously or not, and reloads old_head. *)
DequeueRetry(c) ==
  /\ Goto(c, "cas", "check")
  /\ old' = [old EXCEPT ![c] = head]
  /\ UNCHANGED <<cursors, pool, arg, element, ret, calls>>

-----------------------------------------------------------------------------
Enqueue(p) ==
  \/ \E e \in Elements : EnqueueCall(p, e)
  \/ EnqueueCheck(p) \/ EnqueueClaim(p) \/ EnqueueRetry(p)
  \/ EnqueueWriteBegin(p) \/ EnqueueWriteEnd(p) \/ EnqueueCommit(p)

Dequeue(c) ==
  \/ DequeueCall(c) \/ DequeueCheck(c) \/ DequeueCopy(c)
  \/ DequeueClaim(c) \/ DequeueRetry(c)

Next == (\E p \in Producers : Enqueue(p)) \/ (\E c \in Consumers : Dequeue(c))

Spec == Init /\ [][Next]_vars

(***************************************************************************)
(* Every thread inside a call keeps taking steps (the operating system     *)
(* schedules it), and a weak CAS whose comparison holds again and again    *)
(* does not fail spuriously for ever.                                      *)
(***************************************************************************)
Fairness ==
  /\ \A p \in Producers :
       /\ WF_vars(EnqueueCheck(p) \/ EnqueueWriteBegin(p) \/ EnqueueWriteEnd(p))
       /\ WF_vars(EnqueueClaim(p) \/ EnqueueRetry(p))
       /\ SF_vars(EnqueueClaim(p))
       /\ WF_vars(EnqueueCommit(p))
  /\ \A c \in Consumers :
       /\ WF_vars(DequeueCheck(c) \/ DequeueCopy(c))
       /\ WF_vars(DequeueClaim(c) \/ DequeueRetry(c))
       /\ SF_vars(DequeueClaim(c))

FairSpec == Spec /\ Fairness

-----------------------------------------------------------------------------
(* Types of the cursors, the ring and the locals of Enqueue and Dequeue;   *)
(* a producer's argument is an element, an output may be any slot content. *)
TypeOK ==
  /\ head \in Nat /\ tail \in Nat /\ commit \in Nat
  /\ pool \in [0 .. pool_size - 1 -> Slots]
  /\ pc \in [Threads -> ProducerPC \cup ConsumerPC]
  /\ \A p \in Producers : pc[p] \in ProducerPC
  /\ \A c \in Consumers : pc[c] \in ConsumerPC
  /\ old \in [Threads -> Nat]
  /\ arg \in [Producers -> Elements \cup {Default}]
  /\ element \in [Consumers -> Slots]
  /\ ret \in [Threads -> {"idle", "pending", "true", "false"}]
  /\ calls \in 0 .. MaxCalls

(* Positions claimed by p and not yet committed. *)
Owns(p) == pc[p] \in {"write", "writing", "commit"}

(***************************************************************************)
(* The cursors never cross: the consumed positions are committed, the      *)
(* committed ones were claimed, and a claim never laps the consumers       *)
(* (Enqueue's full test, made with a stale old_tail and a stale head_).    *)
(***************************************************************************)
CursorsOrdered == head < commit /\ commit <= tail /\ tail < head + pool_size

(***************************************************************************)
(* Two producers inside Enqueue never write the same slot, and never one   *)
(* that holds a committed element nobody has consumed.                     *)
(***************************************************************************)
SlotOwnership ==
  \A p \in Producers : Owns(p) =>
    /\ \A q \in Producers \ {p} :
         Owns(q) => GetIndex(old[p]) # GetIndex(old[q])
    /\ \A i \in head + 1 .. commit - 1 : GetIndex(i) # GetIndex(old[p])

(***************************************************************************)
(* doc/base_components.md 3.1, "the commit cursor guarantees that what a   *)
(* consumer sees is complete": a Dequeue that returned true delivered an   *)
(* element some Enqueue was given, never a torn or unwritten slot, though  *)
(* the slot was copied before the position was claimed.                    *)
(***************************************************************************)
DeliversComplete == \A c \in Consumers : ret[c] = "true" => element[c] \in Elements

(***************************************************************************)
(* The inductive invariant behind the three properties above.              *)
(***************************************************************************)
(* A call is pending exactly while its thread is inside it. *)
PendingInside == \A t \in Threads : pc[t] = "idle" <=> ret[t] # "pending"

(* What a producer knows: its claim lies between commit_ and tail_ and is  *)
(* its own; before the claim, a test passed with an old_tail that is still *)
(* current is still valid, because head_ only grows.                       *)
ProducerInv(p) ==
  /\ pc[p] # "idle" => arg[p] \in Elements /\ old[p] <= tail
  /\ pc[p] = "cas" /\ old[p] = tail => tail + 1 < head + pool_size
  /\ Owns(p) => commit <= old[p] /\ old[p] < tail
  /\ pc[p] = "commit" => pool[GetIndex(old[p])] = arg[p]

ClaimsDistinct ==
  \A p, q \in Producers : p # q /\ Owns(p) /\ Owns(q) => old[p] # old[q]

(* What a consumer knows: if head_ is still its old_head, the position     *)
(* after it is committed and its copy is the committed element.            *)
ConsumerInv(c) ==
  /\ pc[c] # "idle" => old[c] <= head
  /\ pc[c] \in {"copy", "cas"} /\ old[c] = head => head + 1 < commit
  /\ pc[c] = "cas" /\ old[c] = head => element[c] = pool[GetIndex(head + 1)]

CommittedWritten == \A i \in head + 1 .. commit - 1 : pool[GetIndex(i)] \in Elements

(* The strengthening of the safety properties that every step preserves;   *)
(* it says why Enqueue and Dequeue stay safe with stale locals.            *)
IInv ==
  /\ TypeOK
  /\ CursorsOrdered
  /\ PendingInside
  /\ \A p \in Producers : ProducerInv(p)
  /\ ClaimsDistinct
  /\ \A c \in Consumers : ConsumerInv(c)
  /\ CommittedWritten
  /\ DeliversComplete

(* The queue the three cursors and the ring represent. *)
Contents == [i \in 1 .. commit - head - 1 |-> pool[GetIndex(head + i)]]

Delivered == [c \in Consumers |-> IF ret[c] = "true" THEN element[c] ELSE Default]

Abs == INSTANCE FifoQueue WITH
  Capacity <- Size, NoElement <- Default, items <- Contents, got <- Delivered

(***************************************************************************)
(* Enqueue and Dequeue are linearizable: Enqueue takes effect at its CAS   *)
(* on commit_, Dequeue at its CAS on head_ or at the load of commit_ that  *)
(* makes it return false.  In particular no element is lost, delivered     *)
(* twice or out of order, the capacity is exactly Size, and Dequeue        *)
(* returns false only when the queue is empty although old_head may be     *)
(* stale.                                                                  *)
(***************************************************************************)
Linearizable == Abs!Spec

(***************************************************************************)
(* Enqueue returns false only when Size positions are claimed and not      *)
(* consumed, or when tail_ has moved since the call loaded it: a lone      *)
(* producer is refused by a full queue only.                               *)
(***************************************************************************)
RefusedMeansFullOrStale ==
  [][\A p \in Producers :
       pc[p] = "check" /\ pc'[p] = "idle" =>
         tail - head - 1 = Size \/ old[p] < tail]_vars

(***************************************************************************)
(* Every call returns, though a producer that has claimed a position waits *)
(* for all the earlier ones to be committed.                               *)
(***************************************************************************)
CallsReturn == \A t \in Threads : ret[t] = "pending" ~> ret[t] # "pending"
=============================================================================
