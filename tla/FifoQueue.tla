----------------------------- MODULE FifoQueue -----------------------------
(***************************************************************************)
(* What base::BoundedQueue promises to the threads that share it: one      *)
(* first-in first-out queue of at most Capacity elements in which every    *)
(* call takes effect at one instant between its invocation and its return. *)
(* A call is pending from its invocation until that instant; its return    *)
(* value is fixed there.  Enqueue may be refused at any time (see          *)
(* BoundedQueue!RefusedMeansFullOrStale for when the code refuses), but    *)
(* Dequeue returns false only at an instant at which the queue is empty.   *)
(***************************************************************************)
EXTENDS Naturals, Sequences

CONSTANTS
  Producers,   \* threads that call Enqueue
  Consumers,   \* threads that call Dequeue
  Elements,    \* the values of type T that are enqueued
  NoElement,   \* "no value": an argument or a result that is not there
  Capacity     \* how many elements the queue holds

VARIABLES
  items,       \* the contents, oldest first
  arg,         \* the argument of each producer's latest call
  ret,         \* "idle", "pending", or the latest return value
  got          \* what a Dequeue that returned true delivered

vars == <<items, arg, ret, got>>

Init ==
  /\ items = <<>>
  /\ arg = [p \in Producers |-> NoElement]
  /\ ret = [t \in Producers \cup Consumers |-> "idle"]
  /\ got = [c \in Consumers |-> NoElement]

PutCall(p, e) ==
  /\ ret[p] # "pending"
  /\ ret' = [ret EXCEPT ![p] = "pending"]
  /\ arg' = [arg EXCEPT ![p] = e]
  /\ UNCHANGED <<items, got>>

Put(p) ==
  /\ ret[p] = "pending"
  /\ Len(items) < Capacity
  /\ items' = Append(items, arg[p])
  /\ ret' = [ret EXCEPT ![p] = "true"]
  /\ UNCHANGED <<arg, got>>

PutRefused(p) ==
  /\ ret[p] = "pending"
  /\ ret' = [ret EXCEPT ![p] = "false"]
  /\ UNCHANGED <<items, arg, got>>

TakeCall(c) ==
  /\ ret[c] # "pending"
  /\ ret' = [ret EXCEPT ![c] = "pending"]
  /\ got' = [got EXCEPT ![c] = NoElement]
  /\ UNCHANGED <<items, arg>>

Take(c) ==
  /\ ret[c] = "pending"
  /\ items # <<>>
  /\ items' = Tail(items)
  /\ got' = [got EXCEPT ![c] = Head(items)]
  /\ ret' = [ret EXCEPT ![c] = "true"]
  /\ UNCHANGED arg

TakeEmpty(c) ==
  /\ ret[c] = "pending"
  /\ items = <<>>
  /\ ret' = [ret EXCEPT ![c] = "false"]
  /\ UNCHANGED <<items, arg, got>>

Next ==
  \/ \E p \in Producers : \/ \E e \in Elements : PutCall(p, e)
                          \/ Put(p)
                          \/ PutRefused(p)
  \/ \E c \in Consumers : TakeCall(c) \/ Take(c) \/ TakeEmpty(c)

Spec == Init /\ [][Next]_vars
=============================================================================
