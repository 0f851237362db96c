----------------------------- MODULE ObjectPool -----------------------------
(***************************************************************************)
(* base::ObjectPool (base/object_pool.h): a stack of free objects in one   *)
(* arena, without synchronisation, so every call is one step.  It is also  *)
(* what base::CCObjectPool promises to threads that share it: see          *)
(* CCObjectPool!PoolLinearizable.                                          *)
(***************************************************************************)
EXTENDS Naturals, Sequences

CONSTANTS
  Users,         \* who takes and returns objects
  num_objects,   \* num_objects_
  NoObject       \* nullptr

VARIABLES
  free,          \* the list from free_head_, first to be handed out first
  held,          \* the objects each user has a shared_ptr of
  last           \* the result of its latest GetObject

poolVars == <<free, held, last>>

Objects == 0 .. num_objects - 1

(* The constructor pushes object after object: the last one is on top. *)
PoolInit ==
  /\ free = [i \in 1 .. num_objects |-> num_objects - i]
  /\ held = [u \in Users |-> {}]
  /\ last = [u \in Users |-> NoObject]

GetObject(u) ==
  \/ /\ free = <<>>
     /\ last' = [last EXCEPT ![u] = NoObject]
     /\ UNCHANGED <<free, held>>
  \/ /\ free # <<>>
     /\ last' = [last EXCEPT ![u] = Head(free)]
     /\ held' = [held EXCEPT ![u] = @ \cup {Head(free)}]
     /\ free' = Tail(free)

(* The deleter of the shared_ptr. *)
ReleaseObject(u, o) ==
  /\ o \in held[u]
  /\ held' = [held EXCEPT ![u] = @ \ {o}]
  /\ free' = <<o>> \o free
  /\ UNCHANGED last

PoolNext == \E u \in Users : GetObject(u) \/ \E o \in Objects : ReleaseObject(u, o)

PoolSpec == PoolInit /\ [][PoolNext]_poolVars
=============================================================================
