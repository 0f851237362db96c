---------------------------- MODULE RtpsTransport ---------------------------
(***************************************************************************)
(* One RTPS writer: that of an RtpsTransmitter (transport/transmitter/     *)
(* rtps_transmitter.h) or of the change broadcast of a discovery Manager   *)
(* (discovery/specific_manager/manager.cpp), and the Participant both are  *)
(* made from (transport/rtps/participant.cpp).  Manager::Write holds the   *)
(* manager's mutex; nothing serialises the threads in                      *)
(* RtpsTransmitter::Transmit.                                              *)
(*                                                                         *)
(* FastRTPS is external: add_change fails on a history of                  *)
(* maximumReservedCaches changes.                                          *)
(***************************************************************************)
EXTENDS Integers, Sequences, FiniteSets

CONSTANTS
  Senders,                 \* the threads that transmit
  MaximumReservedCaches,   \* hatt.maximumReservedCaches (50)
  OlderChanges,            \* the argument of remove_older_changes (20)
  MaxSent                  \* bound on the calls of Transmit or Write

VARIABLES
  kind,          \* "transmitter" or "manager"
  participant,   \* fastrtps_participant_: "none", "made" or "shut"
  enabled,       \* enabled_, or is_discovery_started_
  writer,        \* rtps_write or writer_ is not null
  history,       \* the messages in mp_history
  mutex,         \* the thread that holds Manager::mutex_, or "free"
  sender,        \* where each thread is and its message
  sent,          \* the number of calls
  added,         \* history: the messages that got into the writer's history
  reported,      \* history: the messages Transmit or Write said were sent
  overlapped     \* history: two threads were in Transmit at once

rtpsVars == <<kind, participant, enabled, writer, history, mutex, sender, sent,
              added, reported, overlapped>>

historyVars == <<added, reported, overlapped>>

Out == [at |-> "out", msg |-> 0]

RtpsInit ==
  /\ kind \in {"transmitter", "manager"}
  /\ participant = "none" /\ enabled = FALSE /\ writer = FALSE
  /\ history = <<>> /\ mutex = "free" /\ sent = 0
  /\ sender = [t \in Senders |-> Out]
  /\ added = {} /\ reported = {} /\ overlapped = FALSE

(* Enable or StartDiscovery: the participant is created on first use, and a *)
(* new history and writer are made; enabled_ stays false if the writer      *)
(* cannot be registered, and StopDiscovery removes it.                      *)
RtpsEnable ==
  /\ ~ enabled /\ participant # "shut"
  /\ kind = "manager" => mutex = "free"
  /\ participant' = "made"
  /\ enabled' \in BOOLEAN
  /\ writer' = (enabled' \/ kind = "transmitter")
  /\ history' = <<>>
  /\ UNCHANGED <<kind, mutex, sender, sent, historyVars>>

(* Disable or StopDiscovery forgets the writer; the manager's does it under *)
(* the mutex.                                                               *)
RtpsDisable ==
  /\ enabled
  /\ kind = "manager" => mutex = "free"
  /\ enabled' = FALSE /\ writer' = FALSE
  /\ UNCHANGED <<kind, participant, history, mutex, sender, sent, historyVars>>

(* Participant::Shutdown, by Transport::Shutdown. *)
ParticipantShutdown ==
  /\ participant # "shut"
  /\ participant' = "shut"
  /\ UNCHANGED <<kind, enabled, writer, history, mutex, sender, sent, historyVars>>

(* Transmit or Write returns false if it is not enabled. *)
RtpsTransmit(t) ==
  /\ sender[t].at = "out" /\ sent < MaxSent
  /\ sent' = sent + 1
  /\ sender' = [sender EXCEPT ![t] = IF enabled THEN [at |-> "change", msg |-> sent + 1] ELSE Out]
  /\ overlapped' = (overlapped \/ \E u \in Senders : sender[u].at # "out")
  /\ UNCHANGED <<kind, participant, enabled, writer, history, mutex, added, reported>>

(* Manager::Write takes the mutex and does nothing without a writer;        *)
(* Transmit uses rtps_write in any case, and the process dies on a null one *)
(* (no step of the thread is enabled any more).                             *)
NewChange(t) ==
  /\ sender[t].at = "change"
  /\ IF kind = "manager"
     THEN /\ mutex = "free"
          /\ IF writer THEN /\ mutex' = t
                            /\ sender' = [sender EXCEPT ![t].at = "add"]
             ELSE sender' = [sender EXCEPT ![t] = Out] /\ UNCHANGED mutex
     ELSE /\ writer
          /\ sender' = [sender EXCEPT ![t].at = "add"]
          /\ UNCHANGED mutex
  /\ UNCHANGED <<kind, participant, enabled, writer, history, sent, historyVars>>

AddOr(t, otherwise) ==
  IF Len(history) < MaximumReservedCaches
  THEN /\ history' = Append(history, sender[t].msg)
       /\ added' = added \cup {sender[t].msg}
       /\ sender' = [sender EXCEPT ![t].at = "return"]
  ELSE /\ sender' = [sender EXCEPT ![t].at = otherwise]
       /\ UNCHANGED <<history, added>>

AddChange(t) ==
  /\ sender[t].at = "add"
  /\ AddOr(t, "full")
  /\ UNCHANGED <<kind, participant, enabled, writer, mutex, sent, reported, overlapped>>

(* Fault: nothing is removed before the second try. *)
RemoveOlderChangesNone(t) ==
  /\ sender[t].at = "full"
  /\ sender' = [sender EXCEPT ![t].at = "again"]
  /\ UNCHANGED <<kind, participant, enabled, writer, history, mutex, sent, historyVars>>

RemoveOlderChanges(t) ==
  /\ sender[t].at = "full"
  /\ history' = SubSeq(history, OlderChanges + 1, Len(history))
  /\ sender' = [sender EXCEPT ![t].at = "again"]
  /\ UNCHANGED <<kind, participant, enabled, writer, mutex, sent, historyVars>>

(* The result of the second add_change is not looked at. *)
AddAgain(t) ==
  /\ sender[t].at = "again"
  /\ AddOr(t, "return")
  /\ UNCHANGED <<kind, participant, enabled, writer, mutex, sent, reported, overlapped>>

(* Transmit returns !is_shutdown(), Write returns true. *)
RtpsReturn(t) ==
  /\ sender[t].at = "return"
  /\ reported' = IF kind = "manager" \/ participant # "shut"
                 THEN reported \cup {sender[t].msg} ELSE reported
  /\ mutex' = IF mutex = t THEN "free" ELSE mutex
  /\ sender' = [sender EXCEPT ![t] = Out]
  /\ UNCHANGED <<kind, participant, enabled, writer, history, sent, added, overlapped>>

RtpsNext ==
  \/ RtpsEnable \/ RtpsDisable \/ ParticipantShutdown
  \/ \E t \in Senders : \/ RtpsTransmit(t) \/ NewChange(t) \/ AddChange(t)
                        \/ RemoveOlderChanges(t) \/ AddAgain(t) \/ RtpsReturn(t)

RtpsSpec == RtpsInit /\ [][RtpsNext]_rtpsVars

-----------------------------------------------------------------------------
(***************************************************************************)
(* A message that Write, or Transmit when no two threads were in it at     *)
(* once, reports as sent was in the writer's history, even if the history  *)
(* was full and the oldest changes had to give way.  (With several threads *)
(* in Transmit others may fill the history between remove_older_changes    *)
(* and the second add_change, whose result is dropped.)                    *)
(***************************************************************************)
ReportedIsKept == kind = "manager" \/ ~ overlapped => reported \subseteq added
=============================================================================
