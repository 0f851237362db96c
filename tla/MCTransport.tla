----------------------------- MODULE MCTransport -----------------------------
(***************************************************************************)
(* The parts of src/transport for TLC: the ring of the condition notifier, *)
(* with enough notifications to go round it twice, the life of a segment,  *)
(* the multicast notifier, the RTPS writer and the receivers' listeners.   *)
(* The first state picks the part a behaviour exercises; the others stay   *)
(* as they were constructed.                                               *)
(***************************************************************************)
EXTENDS ConditionNotifier, TLC

CONSTANTS
  Processes, MessageSizes, Indexes, MaxSegments, MaxAcquires, MaxFaults,
  Pollers, MaxFiles,
  Senders, MaximumReservedCaches, OlderChanges, MaxSent,
  Callers, Opposites, All, Foreign, Nothing, MaxEnables

(* What the proofs of TransportProofs need of the other parts' constants.  *)
ASSUME RtpsConstants ==
  /\ MaximumReservedCaches \in Nat \ {0} /\ OlderChanges \in Nat \ {0}
  /\ "free" \notin Senders
ASSUME MultiConstants == MaxFiles \in Nat
ASSUME LifeConstants ==
  /\ IsFiniteSet(Processes) /\ MessageSizes \subseteq Nat /\ Indexes \subseteq Nat
  /\ MaxSegments \in Nat
ASSUME ListenConstants ==
  /\ IsFiniteSet(Callers) /\ MaxEnables \in Nat /\ Nothing \notin Nat
  /\ All \notin Opposites /\ Foreign \notin Opposites

VARIABLES
  which,
  backend, key, made, space, ceiling, reference_count, need_remap, init, conf,
  mapped, life_pc, then, arg, retry, early, lost, raced, orphaned, faults, acquires,
  file, notify_fd, listen_fd, is_shutdown, at, buffer, listener, foreign,
  kind, participant, enabled, writer, history, mutex, sender, sent, added,
  reported, overlapped,
  current, slots, conn, connected, made_slots, receives, segment, shut, call, run,
  calling, enables, off

lifes == <<backend, key, made, space, ceiling, reference_count, need_remap, init, conf,
           mapped, life_pc, then, arg, retry, early, lost, raced, orphaned, faults, acquires>>
multis == <<file, notify_fd, listen_fd, is_shutdown, at, buffer, listener, foreign>>
rtpses == <<kind, participant, enabled, writer, history, mutex, sender, sent, added,
            reported, overlapped>>
listens == <<current, slots, conn, connected, made_slots, receives, segment, shut, call,
             run, calling, enables, off>>

Life == INSTANCE SegmentLifecycle WITH pc <- life_pc

(* Two messages for the same channel of the same host. *)
MCInfos == {[host |-> 1, block |-> b, channel |-> 1] : b \in {1, 2}}

Multicast == INSTANCE MulticastNotifier WITH Listeners <- Pollers, Infos <- MCInfos

Rtps == INSTANCE RtpsTransport

Listening == INSTANCE Listeners WITH
  Writers <- Opposites, made <- made_slots, enabled <- receives, is_shutdown <- shut

TransportInit ==
  /\ which \in {"ring", "segment", "multicast", "rtps", "listeners"}
  /\ Init
  /\ Life!LifeInit /\ (which # "segment" => backend = "xsi")
  /\ Multicast!MultiInit
  /\ Rtps!RtpsInit /\ (which # "rtps" => kind = "transmitter")
  /\ Listening!ListenInit

TransportNext ==
  \/ /\ which = "ring" /\ Next
     /\ UNCHANGED <<which, lifes, multis, rtpses, listens>>
  \/ /\ which = "segment" /\ Life!LifeNext
     /\ UNCHANGED <<which, vars, multis, rtpses, listens>>
  \/ /\ which = "multicast" /\ Multicast!MultiNext
     /\ UNCHANGED <<which, vars, lifes, rtpses, listens>>
  \/ /\ which = "rtps" /\ Rtps!RtpsNext
     /\ UNCHANGED <<which, vars, lifes, multis, listens>>
  \/ /\ which = "listeners" /\ Listening!ListenNext
     /\ UNCHANGED <<which, vars, lifes, multis, rtpses>>

TransportSpec ==
  TransportInit /\ [][TransportNext]_<<which, vars, lifes, multis, rtpses, listens>>

Symmetry == Permutations(Notifiers) \cup Permutations(Processes)

-----------------------------------------------------------------------------
(***************************************************************************)
(* A segment's reference_count counts its users and the references dead    *)
(* processes left; Destory removes it with its last user, and nobody       *)
(* before; an attached object lays the blocks out as the creator did, and  *)
(* a reader's block exists.  Excepted, each in the conjunct it breaks, are *)
(* segments opened before their State was built, opened between Destory's  *)
(* look at the count and Remove, robbed of the key by a Remove meant for   *)
(* another segment, flagged for a remap or left by a killed process, and   *)
(* the read in whose course the segment is replaced.                       *)
(***************************************************************************)
SegmentExact ==
  /\ Life!ReferenceExact /\ Life!RemovedNotBefore
  /\ Life!RemovedWithLastUser /\ Life!GeometryAgrees

(* Once MulticastNotifier::Shutdown is over, whatever step of Init failed, *)
(* its sockets are closed, and no file of the rest of the process is.      *)
SocketsClosed == Multicast!SocketsClosed

(* What RtpsTransmitter::Transmit or Manager::Write reports as sent got    *)
(* into the writer's history, unless threads overlapped in Transmit.       *)
ReportedIsKept == Rtps!ReportedIsKept

(***************************************************************************)
(* A writer that was enabled once has one connected listener until its     *)
(* Disable returns and none afterwards, and however often Enable was       *)
(* called, ListenerHandler::Run calls an enabled receiver once a message.  *)
(***************************************************************************)
ListenersServed == Listening!ListenersExact /\ Listening!DeliversOnce
=============================================================================
