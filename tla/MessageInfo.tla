----------------------------- MODULE MessageInfo -----------------------------
(***************************************************************************)
(* What travels beside a message: Identity (transport/common/identity.cpp) *)
(* and MessageInfo (transport/message/message_info.cpp), as they are       *)
(* copied behind the message in a block of the segment                     *)
(* (ShmTransmitter::Transmit, ShmDispatcher::ReadMessage) or by SerializeTo *)
(* and DeserializeFrom.                                                    *)
(*                                                                         *)
(* The buffer is a sequence of eight-byte words, as every field is eight   *)
(* bytes.  Data stands for the bytes of an id and of a number; Hash is the *)
(* hash of an id's bytes.                                                  *)
(***************************************************************************)
EXTENDS Naturals, Sequences

CONSTANTS
  Data,          \* the values of a word, 0 among them
  Hash(_),       \* common::Hash of an id
  Undefined      \* nothing has been read

VARIABLES
  sent,          \* the info of the sender
  words,         \* the buffer
  got,           \* the info of the receiver, or Undefined
  path           \* how it travels: "shm" or "buffer", then "done" or "crash"

infoVars == <<sent, words, got, path>>

-----------------------------------------------------------------------------
(* Identity: the bytes and their hash, 0 for Identity(false). *)
Identity(data) == [data |-> data, hash |-> Hash(data)]
NoIdentity == [data |-> 0, hash |-> 0]
set_data(id, data) == Identity(data)

Info(sender, spare, seq) ==
  [sender_id |-> sender, spare_id |-> spare, channel_id |-> 0, seq_num |-> seq]
NoInfo == Info(NoIdentity, NoIdentity, 0)

-----------------------------------------------------------------------------
(* Transmit: sender, spare, number. *)
TransmitInfo(info) == <<info.sender_id.data, info.spare_id.data, info.seq_num>>

(* Fault: the reader takes the layout of DeserializeFrom. *)
ReadInfoSwapped(w) ==
  [NoInfo EXCEPT !.sender_id.data = w[1], !.seq_num = w[2], !.spare_id.data = w[3]]

(* ReadMessage: memcpy into data_ of a new MessageInfo, whose hashes stay. *)
ReadInfo(w) ==
  [NoInfo EXCEPT !.sender_id.data = w[1], !.spare_id.data = w[2], !.seq_num = w[3]]

(* SerializeTo copies eight bytes from the address seq_num_: from address  *)
(* 0 that is a crash, from any other a crash or whatever is there.         *)
SerializeTo(info) ==
  {<<info.sender_id.data, x, info.spare_id.data>> :
     x \in IF info.seq_num = 0 THEN {} ELSE Data}

DeserializeFrom(info, w) ==
  IF Len(w) # 3 THEN info
  ELSE [info EXCEPT !.sender_id = set_data(@, w[1]), !.seq_num = w[2],
                    !.spare_id = set_data(@, w[3])]

-----------------------------------------------------------------------------
InfoInit ==
  /\ \E d, e, n \in Data : sent = Info(Identity(d), Identity(e), n)
  /\ words = <<>> /\ got = Undefined /\ path \in {"shm", "buffer"}

Write ==
  /\ words = <<>> /\ path \in {"shm", "buffer"}
  /\ \/ path = "shm" /\ words' = TransmitInfo(sent) /\ path' = path
     \/ path = "buffer" /\ words' \in SerializeTo(sent) /\ path' = path
     \/ path = "buffer" /\ words' = words /\ path' = "crash"
  /\ UNCHANGED <<sent, got>>

Read ==
  /\ words # <<>> /\ got = Undefined
  /\ got' = IF path = "shm" THEN ReadInfo(words) ELSE DeserializeFrom(NoInfo, words)
  /\ UNCHANGED <<sent, words, path>>

InfoNext == Write \/ Read
InfoSpec == InfoInit /\ [][InfoNext]_infoVars

-----------------------------------------------------------------------------
(***************************************************************************)
(* Both ids come back at their places, whether they travel behind the      *)
(* message in a block or through SerializeTo and DeserializeFrom.  In a    *)
(* block the number does too, and the hash is 0, under which               *)
(* ListenerHandler::Run knows no writer; DeserializeFrom computes the      *)
(* hashes of what it read.  The number SerializeTo writes is excepted: it  *)
(* is what lies at that address (message_info.cpp:58, 68).                 *)
(***************************************************************************)
InfoReadsBack ==
  got # Undefined =>
    /\ got.sender_id.data = sent.sender_id.data
    /\ got.spare_id.data = sent.spare_id.data
    /\ IF path = "shm" THEN got.seq_num = sent.seq_num /\ got.sender_id.hash = 0
       ELSE got.sender_id = sent.sender_id /\ got.spare_id = sent.spare_id
=============================================================================
