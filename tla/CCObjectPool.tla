---------------------------- MODULE CCObjectPool ----------------------------
(***************************************************************************)
(* base::CCObjectPool (base/concurrent_object_pool.h), the pool of the     *)
(* coroutines' stacks (croutine/croutine.cpp): a lock-free stack whose     *)
(* head is a pointer and a count, exchanged together.  Every load, store   *)
(* and exchange is a step; ConstructObject adds to GetObject only the call *)
(* of T's constructor and destructor.                                      *)
(***************************************************************************)
EXTENDS Naturals, Sequences

CONSTANTS
  Users,          \* the threads that share the pool
  capacity,       \* capacity_
  Nullptr,
  MaxExchanges    \* bound: calls begin while the head's count is below it

VARIABLES
  free_head,      \* free_head_, a record of count and node
  next,           \* the field next of each node
  taken,          \* the nodes each thread has
  result,         \* what its latest GetObject returned
  pos,            \* where it is in a call
  old_head,       \* its local old_head
  new_node,       \* its local new_head.node
  object          \* the argument of its ReleaseObject

ccVars == <<free_head, next, taken, result, pos, old_head, new_node, object>>

Nodes == 0 .. capacity - 1

(* The arena has a node, and its addresses are not null. *)
ASSUME PoolConstants == capacity \in Nat \ {0} /\ Nullptr \notin Nodes

CCInit ==
  /\ free_head = [count |-> 0, node |-> 0]
  /\ next = [n \in Nodes |-> IF n = capacity - 1 THEN Nullptr ELSE n + 1]
  /\ taken = [u \in Users |-> {}]
  /\ result = [u \in Users |-> Nullptr]
  /\ pos = [u \in Users |-> "idle"]
  /\ old_head = [u \in Users |-> [count |-> 0, node |-> 0]]
  /\ new_node = [u \in Users |-> Nullptr]
  /\ object = [u \in Users |-> Nullptr]

(* Fault: the count stays, and the exchange compares pointers only. *)
NextCountConstant(count) == count

NextCount(count) == count + 1

(* The head as loaded, or as a failed exchange brings it back: a null one  *)
(* makes GetObject return nullptr.                                         *)
FindFreeHeadLoad(u, from) ==
  /\ pos[u] = from
  /\ old_head' = [old_head EXCEPT ![u] = free_head]
  /\ \/ /\ free_head.node = Nullptr
        /\ result' = [result EXCEPT ![u] = Nullptr]
        /\ pos' = [pos EXCEPT ![u] = "idle"]
     \/ /\ free_head.node # Nullptr
        /\ pos' = [pos EXCEPT ![u] = "next"]
        /\ UNCHANGED result
  /\ UNCHANGED <<free_head, next, taken, new_node, object>>

CCGetObject(u) ==
  /\ free_head.count < MaxExchanges
  /\ FindFreeHeadLoad(u, "idle")

(* new_head.node = old_head.node->next, of a node others may have by now. *)
FindFreeHeadNext(u) ==
  /\ pos[u] = "next"
  /\ new_node' = [new_node EXCEPT ![u] = next[old_head[u].node]]
  /\ pos' = [pos EXCEPT ![u] = "pop"]
  /\ UNCHANGED <<free_head, next, taken, result, old_head, object>>

FindFreeHeadExchange(u) ==
  \/ free_head # old_head[u] /\ FindFreeHeadLoad(u, "pop")
  \/ /\ pos[u] = "pop"
     /\ free_head = old_head[u]
     /\ free_head' = [count |-> NextCount(free_head.count), node |-> new_node[u]]
     /\ taken' = [taken EXCEPT ![u] = @ \cup {old_head[u].node}]
     /\ result' = [result EXCEPT ![u] = old_head[u].node]
     /\ pos' = [pos EXCEPT ![u] = "idle"]
     /\ UNCHANGED <<next, old_head, new_node, object>>

CCReleaseObject(u, o) ==
  /\ pos[u] = "idle" /\ o \in taken[u]
  /\ free_head.count < MaxExchanges
  /\ object' = [object EXCEPT ![u] = o]
  /\ old_head' = [old_head EXCEPT ![u] = free_head]
  /\ pos' = [pos EXCEPT ![u] = "link"]
  /\ UNCHANGED <<free_head, next, taken, result, new_node>>

ReleaseObjectLink(u) ==
  /\ pos[u] = "link"
  /\ next' = [next EXCEPT ![object[u]] = old_head[u].node]
  /\ pos' = [pos EXCEPT ![u] = "push"]
  /\ UNCHANGED <<free_head, taken, result, old_head, new_node, object>>

ReleaseObjectExchange(u) ==
  /\ pos[u] = "push"
  /\ \/ /\ free_head = old_head[u]
        /\ free_head' = [count |-> NextCount(free_head.count), node |-> object[u]]
        /\ taken' = [taken EXCEPT ![u] = @ \ {object[u]}]
        /\ pos' = [pos EXCEPT ![u] = "idle"]
        /\ UNCHANGED old_head
     \/ /\ free_head # old_head[u]
        /\ old_head' = [old_head EXCEPT ![u] = free_head]
        /\ pos' = [pos EXCEPT ![u] = "link"]
        /\ UNCHANGED <<free_head, taken>>
  /\ UNCHANGED <<next, result, new_node, object>>

CCNext ==
  \E u \in Users :
    \/ CCGetObject(u) \/ FindFreeHeadNext(u) \/ FindFreeHeadExchange(u)
    \/ \E o \in Nodes : CCReleaseObject(u, o)
    \/ ReleaseObjectLink(u) \/ ReleaseObjectExchange(u)

CCSpec == CCInit /\ [][CCNext]_ccVars

-----------------------------------------------------------------------------
(* The free list: the nodes from the head along next, to a null pointer. *)
Lists == UNION {[1 .. n -> Nodes] : n \in 0 .. capacity}

Element(s, i) == IF i \in DOMAIN s THEN s[i] ELSE Nullptr

IsChain(s, first, succ) ==
  /\ first = Element(s, 1)
  /\ \A i \in DOMAIN s : succ[s[i]] = Element(s, i + 1)

FreeList == CHOOSE s \in Lists : IsChain(s, free_head.node, next)

(* ObjectPool's constructor numbers the nodes from the other end. *)
Renumbered(n) == IF n = Nullptr THEN n ELSE capacity - 1 - n

Pool == INSTANCE ObjectPool WITH
  num_objects <- capacity, NoObject <- Nullptr,
  free <- [i \in DOMAIN FreeList |-> Renumbered(FreeList[i])],
  held <- [u \in Users |-> {Renumbered(n) : n \in taken[u]}],
  last <- [u \in Users |-> Renumbered(result[u])]

(***************************************************************************)
(* Shared by threads, the pool is the sequential pool: every GetObject and *)
(* ReleaseObject takes effect at one instant, an object is never with two  *)
(* owners or lost, and nullptr is returned only at an instant at which no  *)
(* object is free.  It rests on the count: a head that was popped, popped  *)
(* below and pushed back has the same pointer.                             *)
(***************************************************************************)
PoolLinearizable == Pool!PoolSpec
=============================================================================
