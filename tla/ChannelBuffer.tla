--------------------------- MODULE ChannelBuffer ----------------------------
(***************************************************************************)
(* One channel buffer between the thread that dispatches messages into it  *)
(* and the coroutine that fetches them: DataDispatcher::Dispatch fills it, *)
(* DataVisitor::TryFetch reads the next message, Latest and FetchMulti     *)
(* read without moving the visitor.                                        *)
(***************************************************************************)
EXTENDS CacheBuffer

CONSTANT MaxMsgs     \* bound on the messages dispatched

ASSUME MaxMsgsAssumption == MaxMsgs \in Nat

VARIABLES
  buf,              \* the CacheBuffer
  next_msg_index,   \* DataVisitorBase::next_msg_index_
  msgs              \* the messages the last successful read returned, by number

vars == <<buf, next_msg_index, msgs>>

Init ==
  /\ buf = Empty0
  /\ next_msg_index = 0
  /\ msgs = [i \in {} |-> 0]

(* Dispatch of the next message. *)
Dispatch ==
  /\ buf.tail < MaxMsgs
  /\ buf' = Fill(buf, buf.tail + 1)
  /\ UNCHANGED <<next_msg_index, msgs>>

(* Fault: the visitor's cursor is not moved past an overrun. *)
TryFetchStuck ==
  /\ CanFetch(buf, next_msg_index)
  /\ LET index == FetchIndex(buf, next_msg_index)
     IN /\ msgs' = [i \in {index} |-> at(buf, i)]
        /\ next_msg_index' = next_msg_index + 1
  /\ UNCHANGED buf

(* A TryFetch that succeeds; one that does not changes nothing. *)
TryFetch ==
  /\ CanFetch(buf, next_msg_index)
  /\ LET index == FetchIndex(buf, next_msg_index)
     IN /\ msgs' = [i \in {index} |-> at(buf, i)]
        /\ next_msg_index' = index + 1
  /\ UNCHANGED buf

Latest ==
  /\ ~Empty(buf)
  /\ msgs' = [i \in {buf.tail} |-> at(buf, i)]
  /\ UNCHANGED <<buf, next_msg_index>>

FetchMulti(fetch_size) ==
  /\ ~Empty(buf)
  /\ msgs' = [i \in FetchMultiRange(buf, fetch_size) |-> at(buf, i)]
  /\ UNCHANGED <<buf, next_msg_index>>

Next ==
  \/ Dispatch \/ TryFetch \/ Latest
  \/ \E n \in 1 .. MaxMsgs : FetchMulti(n)

Spec == Init /\ [][Next]_vars

-----------------------------------------------------------------------------
(* Types: the ring's cursors and slots, the visitor's cursor. *)
TypeOK ==
  /\ buf \in [head : 0 .. MaxMsgs, tail : 0 .. MaxMsgs,
              slots : [0 .. capacity - 1 -> 0 .. MaxMsgs]]
  /\ next_msg_index \in 0 .. MaxMsgs + 1

(* The ring holds the last Size messages, each in its own slot, and the    *)
(* visitor never gets ahead of the newest by more than one (Fill, Fetch).  *)
WindowExact ==
  /\ buf.head = IF buf.tail > Size THEN buf.tail - Size ELSE 0
  /\ \A i \in Head_(buf) .. buf.tail : at(buf, i) = i
  /\ buf.tail > 0 => at(buf, buf.tail) = buf.tail
  /\ next_msg_index <= buf.tail + 1

(* What a read returned under a number is the message with that number,    *)
(* never an overwritten slot (Fetch, Latest and FetchMulti).               *)
ReadsItsNumber == \A i \in DOMAIN msgs : msgs[i] = i

(* The inductive invariant. *)
IInv == TypeOK /\ WindowExact /\ ReadsItsNumber

(* TryFetch returns messages in the order in which they came, each at most *)
(* once; it passes over messages only on the visitor's first read and when *)
(* the ring has dropped the next one, and then goes to the newest.         *)
FetchesInOrder ==
  [][next_msg_index' # next_msg_index =>
       /\ next_msg_index' > next_msg_index
       /\ DOMAIN msgs' = {next_msg_index' - 1}
       /\ \/ next_msg_index' = next_msg_index + 1
          \/ /\ next_msg_index = 0 \/ next_msg_index < buf.tail - Size + 1
             /\ next_msg_index' = buf.tail + 1]_vars
=============================================================================
