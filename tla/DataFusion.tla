----------------------------- MODULE DataFusion -----------------------------
(***************************************************************************)
(* A DataVisitor of several channels: fusion::AllLatest (data/data_fusion/ *)
(* all_latest.h) sets a callback on the first channel's buffer that pairs  *)
(* every message of that channel with the latest message of each other     *)
(* channel and fills the tuple into a buffer of its own.  The three        *)
(* specialisations differ in the number of channels, here Others.  The     *)
(* channels are dispatched by different threads; Dispatch holds the mutex  *)
(* of the buffer it fills.                                                 *)
(***************************************************************************)
EXTENDS CacheBuffer, Sequences

CONSTANTS
  Others,          \* how many channels there are besides the first
  MaxFirst,        \* bound on the messages of the first channel
  MaxOther         \* bound on the messages of each other channel

VARIABLES
  stage,           \* how far the constructor is: buffers added, then the callback
  first,           \* buffer_m0_
  other,           \* buffer_m1_, buffer_m2_, ...
  fused,           \* buffer_fusion_
  sent,            \* how many messages of the first channel were dispatched
  fusing,          \* the callback under way: message, latest ones read so far
  since,           \* history: the latest others when that message was dispatched
  cursor,          \* next_msg_index_
  got              \* the tuple the visitor fetched last

fusionVars == <<stage, first, other, fused, sent, fusing, since, cursor, got>>

NotFusing == <<>>

FusionInit ==
  /\ stage = 0
  /\ first = Empty0 /\ other = [i \in 1 .. Others |-> Empty0] /\ fused = Empty0
  /\ sent = 0 /\ fusing = NotFusing /\ since = [i \in 1 .. Others |-> 0]
  /\ cursor = 0 /\ got = [i \in 1 .. Others + 1 |-> 0]

(* The constructor: AddBuffer for each channel, and then AllLatest, whose  *)
(* SetFusionCallback comes after messages may have arrived.                *)
VisitorConstruct ==
  /\ stage <= Others + 1
  /\ stage' = stage + 1
  /\ UNCHANGED <<first, other, fused, sent, fusing, since, cursor, got>>

HasCallback == stage = Others + 2

DispatchOther(i) ==
  /\ stage > i /\ other[i].tail < MaxOther
  /\ other' = [other EXCEPT ![i] = Fill(@, @.tail + 1)]
  /\ UNCHANGED <<stage, first, fused, sent, fusing, since, cursor, got>>

(* CacheBuffer::Fill: the callback if it is set, the buffer otherwise.     *)
DispatchFirst ==
  /\ stage > 0 /\ fusing = NotFusing /\ sent < MaxFirst
  /\ sent' = sent + 1
  /\ IF HasCallback
       THEN /\ fusing' = <<sent'>>
            /\ since' = [i \in 1 .. Others |-> other[i].tail]
            /\ UNCHANGED first
       ELSE first' = Fill(first, sent') /\ UNCHANGED <<fusing, since>>
  /\ UNCHANGED <<stage, other, fused, cursor, got>>

(* Fault: the oldest message of the other channel is taken. *)
FusionLatestOldest ==
  LET i == Len(fusing)
  IN  /\ i \in 1 .. Others
      /\ fusing' = IF Empty(other[i]) THEN NotFusing ELSE Append(fusing, at(other[i], Head_(other[i])))
      /\ UNCHANGED <<stage, first, other, fused, sent, since, cursor, got>>

(* buffer_mi_.Latest(mi), each under its buffer's mutex; an empty one      *)
(* makes the callback return, and the message is dropped.                  *)
FusionLatest ==
  LET i == Len(fusing)
  IN  /\ i \in 1 .. Others
      /\ fusing' = IF Empty(other[i]) THEN NotFusing
                   ELSE Append(fusing, at(other[i], other[i].tail))
      /\ UNCHANGED <<stage, first, other, fused, sent, since, cursor, got>>

FusionFill ==
  /\ Len(fusing) = Others + 1
  /\ fused' = Fill(fused, fusing)
  /\ fusing' = NotFusing
  /\ UNCHANGED <<stage, first, other, sent, since, cursor, got>>

(* TryFetch: Fusion fetches a tuple by number, and the cursor moves on. *)
FusionFetch ==
  /\ HasCallback /\ CanFetch(fused, cursor)
  /\ LET index == FetchIndex(fused, cursor)
     IN  got' = at(fused, index) /\ cursor' = index + 1
  /\ UNCHANGED <<stage, first, other, fused, sent, fusing, since>>

FusionNext ==
  \/ VisitorConstruct \/ DispatchFirst \/ FusionLatest \/ FusionFill \/ FusionFetch
  \/ \E i \in 1 .. Others : DispatchOther(i)

FusionSpec == FusionInit /\ [][FusionNext]_fusionVars

-----------------------------------------------------------------------------
(***************************************************************************)
(* Fused tuples move forward: what the visitor fetches has a newer message *)
(* of the first channel than before and no older one of any other; and a   *)
(* message is paired with the latest of each other channel at some instant *)
(* of its dispatch, though the others go on being dispatched meanwhile.    *)
(***************************************************************************)
FusionMovesForward ==
  [][/\ got' # got => /\ got'[1] > got[1]
                      /\ \A i \in 1 .. Others : got'[i + 1] >= got[i + 1]
     /\ fused' # fused =>
          \A i \in 1 .. Others : fusing[i + 1] \in since[i] .. other[i].tail]_fusionVars
=============================================================================
