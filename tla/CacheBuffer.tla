---------------------------- MODULE CacheBuffer -----------------------------
(***************************************************************************)
(* CacheBuffer<T>, the ring each DataVisitor keeps of its channel's last   *)
(* messages, and ChannelBuffer<T>, which reads it by message number. A     *)
(* buffer is a record; every operator below runs under the buffer's mutex. *)
(* Messages are numbered from 1 in the order in which they are filled.     *)
(***************************************************************************)
EXTENDS Integers

CONSTANT Size    \* the queue size of the visitor

ASSUME SizeAssumption == Size \in Nat

capacity == Size + 1

GetIndex(pos) == pos % capacity

(* A new buffer: 0 stands for the null pointers of the resized vector. *)
Empty0 == [head |-> 0, tail |-> 0, slots |-> [i \in 0 .. capacity - 1 |-> 0]]

Head_(b) == b.head + 1
Empty(b) == b.tail = 0

Full(b) == capacity - 1 = b.tail - b.head
at(b, pos) == b.slots[GetIndex(pos)]

(* A full ring overwrites its free slot, the one before the oldest message, *)
(* and lets the oldest go.                                                 *)
Fill(b, v) ==
  IF Full(b)
    THEN [b EXCEPT !.slots[GetIndex(b.head)] = v, !.head = @ + 1, !.tail = @ + 1]
    ELSE [b EXCEPT !.slots[GetIndex(b.tail + 1)] = v, !.tail = @ + 1]

(* The number Fetch leaves in *index when it succeeds: the newest message  *)
(* for a reader that has read nothing or that the ring has overrun.        *)
FetchIndex(b, index) == IF index = 0 \/ index < Head_(b) THEN b.tail ELSE index

(* Whether ChannelBuffer::Fetch returns true. *)
CanFetch(b, index) == ~Empty(b) /\ (index = 0 \/ index # b.tail + 1)

(* The numbers of the messages ChannelBuffer::FetchMulti copies. *)
FetchMultiRange(b, fetch_size) ==
  LET size == b.tail - b.head
      num == IF size < fetch_size THEN size ELSE fetch_size
  IN (b.tail - num + 1) .. b.tail
=============================================================================
