--------------------------- MODULE UnboundedQueue ---------------------------
(***************************************************************************)
(* base::UnboundedQueue (base/unbounded_queue.h) as its design allows it   *)
(* to be used (doc/base_components.md, 4.2): any number of producers, and  *)
(* one consumer at a time (several take turns under a mutex of their own). *)
(* Nodes live at addresses that are given out again once deleted.          *)
(***************************************************************************)
EXTENDS Integers, Sequences, FiniteSets

CONSTANTS
  Producers,    \* threads that call Enqueue
  Addresses,    \* where nodes can be allocated
  Nil,          \* nullptr
  MaxCalls      \* bound on the calls of Enqueue

VARIABLES
  head, tail,   \* head_, tail_
  size,         \* size_ (wraps at 2^64 when negative: see SizeValue)
  node,         \* the node at each address: data, ref_count, next; or Nil
  pos,          \* where each producer is
  new,          \* its local node
  old_tail,     \* its local old_tail
  getter,       \* where the consumer is
  old_head, head_next,
  queued,       \* history: the elements in the order tail_ was exchanged
  taken         \* history: how many of them were dequeued, or cleared

queueVars == <<head, tail, size, node, pos, new, old_tail, getter, old_head,
               head_next, queued, taken>>

Node(e) == [data |-> e, ref_count |-> 2, next |-> Nil]
Unused == {a \in Addresses : node[a] = Nil}

(* Reset: one sentinel. *)
QueueInit ==
  /\ head \in Addresses /\ tail = head
  /\ size = 0
  /\ node = [a \in Addresses |-> IF a = head THEN Node(0) ELSE Nil]
  /\ pos = [p \in Producers |-> "idle"]
  /\ new = [p \in Producers |-> Nil]
  /\ old_tail = [p \in Producers |-> Nil]
  /\ getter = "idle" /\ old_head = Nil /\ head_next = Nil
  /\ queued = <<>> /\ taken = 0

Elements == Len(queued) + Cardinality({p \in Producers : pos[p] = "swap"})

(* Fault: release reads the count again after it has decremented it, so    *)
(* that both holders may find it 0 (or, as here, neither does).            *)
ReleasedTwoSteps(a) ==
  [node EXCEPT ![a].ref_count = @ - 1]

(* Node::release *)
Released(a) ==
  IF node[a].ref_count = 1 THEN [node EXCEPT ![a] = Nil]
  ELSE [node EXCEPT ![a].ref_count = @ - 1]

Step(p, from, to) == pos[p] = from /\ pos' = [pos EXCEPT ![p] = to]

-----------------------------------------------------------------------------
EnqueueNew(p) ==
  /\ Elements < MaxCalls
  /\ Step(p, "idle", "swap")
  /\ \E a \in Unused :
       /\ node' = [node EXCEPT ![a] = Node(Elements + 1)]
       /\ new' = [new EXCEPT ![p] = a]
  /\ old_tail' = [old_tail EXCEPT ![p] = tail]
  /\ UNCHANGED <<head, tail, size, getter, old_head, head_next, queued, taken>>

EnqueueSwap(p) ==
  /\ \/ /\ tail = old_tail[p]
        /\ Step(p, "swap", "link")
        /\ tail' = new[p]
        /\ queued' = Append(queued, node[new[p]].data)
        /\ UNCHANGED old_tail
     \/ /\ tail # old_tail[p]
        /\ pos[p] = "swap"
        /\ old_tail' = [old_tail EXCEPT ![p] = tail]
        /\ UNCHANGED <<pos, tail, queued>>
  /\ UNCHANGED <<head, size, node, new, getter, old_head, head_next, taken>>

EnqueueLink(p) ==
  /\ Step(p, "link", "release")
  /\ node' = [node EXCEPT ![old_tail[p]].next = new[p]]
  /\ UNCHANGED <<head, tail, size, new, old_tail, getter, old_head, head_next,
                 queued, taken>>

EnqueueRelease(p) ==
  /\ Step(p, "release", "count")
  /\ node' = Released(old_tail[p])
  /\ UNCHANGED <<head, tail, size, new, old_tail, getter, old_head, head_next,
                 queued, taken>>

EnqueueCount(p) ==
  /\ Step(p, "count", "idle")
  /\ size' = size + 1
  /\ UNCHANGED <<head, tail, node, new, old_tail, getter, old_head, head_next,
                 queued, taken>>

-----------------------------------------------------------------------------
DequeueLoad ==
  /\ getter = "idle" /\ getter' = "next"
  /\ old_head' = head
  /\ UNCHANGED <<head, tail, size, node, pos, new, old_tail, head_next, queued, taken>>

(* A null next: Dequeue returns false. *)
DequeueNext ==
  /\ getter = "next"
  /\ head_next' = node[old_head].next
  /\ getter' = IF head_next' = Nil THEN "idle" ELSE "swap"
  /\ UNCHANGED <<head, tail, size, node, pos, new, old_tail, old_head, queued, taken>>

(* The exchange of head_ (it cannot fail with one consumer), and the copy  *)
(* of head_next->data, which nobody else touches.                          *)
DequeueSwap ==
  /\ getter = "swap" /\ getter' = "count"
  /\ head = old_head
  /\ head' = head_next
  /\ taken' = taken + 1
  /\ UNCHANGED <<tail, size, node, pos, new, old_tail, old_head, head_next, queued>>

DequeueCount ==
  /\ getter = "count" /\ getter' = "release"
  /\ size' = size - 1
  /\ UNCHANGED <<head, tail, node, pos, new, old_tail, old_head, head_next, queued, taken>>

DequeueRelease ==
  /\ getter = "release" /\ getter' = "idle"
  /\ node' = Released(old_head)
  /\ UNCHANGED <<head, tail, size, pos, new, old_tail, old_head, head_next, queued, taken>>

AtRest == getter = "idle" /\ \A p \in Producers : pos[p] = "idle"

(* The nodes from head_ along next, which Destroy deletes. *)
IsList(s) ==
  /\ s[1] = head
  /\ \A i \in DOMAIN s :
       node[s[i]] # Nil /\ node[s[i]].next = IF i = Len(s) THEN Nil ELSE s[i + 1]

Lists == UNION {[1 .. n -> Addresses] : n \in 1 .. Cardinality(Addresses)}
List == CHOOSE s \in Lists : IsList(s)

Listed == {List[i] : i \in DOMAIN List}

(* Clear: Destroy and Reset, which no other call may overlap. *)
Clear ==
  /\ AtRest
  /\ \E a \in Unused \cup Listed :
       /\ head' = a /\ tail' = a
       /\ node' = [b \in Addresses |-> IF b = a THEN Node(0)
                                       ELSE IF b \in Listed THEN Nil ELSE node[b]]
  /\ size' = 0
  /\ taken' = Len(queued)
  /\ UNCHANGED <<pos, new, old_tail, getter, old_head, head_next, queued>>

QueueNext ==
  \/ \E p \in Producers :
       \/ EnqueueNew(p) \/ EnqueueSwap(p) \/ EnqueueLink(p)
       \/ EnqueueRelease(p) \/ EnqueueCount(p)
  \/ DequeueLoad \/ DequeueNext \/ DequeueSwap \/ DequeueCount \/ DequeueRelease
  \/ Clear

QueueSpec == QueueInit /\ [][QueueNext]_queueVars

-----------------------------------------------------------------------------
(* The addresses a thread is about to read or write through. *)
Touched ==
  {old_tail[p] : p \in {q \in Producers : pos[q] \in {"link", "release"}}}
    \cup (IF getter \in {"next", "release"} THEN {old_head} ELSE {})
    \cup (IF getter \in {"swap", "count"} THEN {head_next} ELSE {})
    \cup {head, tail}

(***************************************************************************)
(* The counted references keep nodes alive exactly as long as needed       *)
(* (doc/base_components.md, 4.3): no thread touches a deleted node, though *)
(* its address may be in use again, and at rest every node that is not in  *)
(* the list has been deleted, and the list is what was queued and not yet  *)
(* taken, in order; size_ counts it.                                       *)
(***************************************************************************)
NodesOwned ==
  /\ \A a \in Touched : node[a] # Nil
  /\ AtRest =>
       /\ Addresses \ Unused = Listed
       /\ [i \in 1 .. Len(List) - 1 |-> node[List[i + 1]].data]
            = SubSeq(queued, taken + 1, Len(queued))
       /\ size = Len(List) - 1

(***************************************************************************)
(* Elements come out in the order in which tail_ was exchanged, and are    *)
(* held back only by a producer that has exchanged tail_ and not yet set   *)
(* next: Dequeue, about to find the next node null, is right that the      *)
(* queue is empty or that the Enqueue it waits for has not returned.       *)
(***************************************************************************)
InOrder ==
  /\ getter = "swap" => node[head_next].data = queued[taken + 1]
  /\ (getter = "next" /\ node[old_head].next = Nil /\ taken < Len(queued)) =>
       \E p \in Producers :
         pos[p] = "link" /\ node[new[p]].data = queued[taken + 1]
=============================================================================
