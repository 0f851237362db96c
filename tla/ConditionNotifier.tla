------------------------- MODULE ConditionNotifier -------------------------
(***************************************************************************)
(* transport/shm/condition_notifier.cpp: the ring in shared memory through *)
(* which every transmitter of the host tells every dispatcher which block  *)
(* holds a new message.  Notify draws a sequence number, then writes its   *)
(* slot's info, then the slot's sequence number; Listen compares three     *)
(* separate loads with the cursor next_seq_ of its process.                *)
(*                                                                         *)
(* A notification is named by the sequence number it draws, and infos      *)
(* holds that name for its ReadableInfo.  The info is written and copied   *)
(* field by field without synchronisation: it is Torn while a writer is in *)
(* it, and a copy during which it changes may be Torn.  ReadableInfo's     *)
(* assignment is an out-of-line call and the build targets x86, so the     *)
(* store to seqs stays behind the store to infos.                          *)
(***************************************************************************)
EXTENDS Integers, FiniteSets

CONSTANTS
  Notifiers,    \* threads that call Notify
  Listeners,    \* dispatcher threads, one per process, that call Listen
  KBufLength,   \* slots of the ring
  MaxSeq,       \* bound on the notifications
  MaxCrashes    \* bound on the notifiers that crash

ASSUME NtfThreads == Notifiers \cap Listeners = {} /\ IsFiniteSet(Notifiers)
ASSUME NtfLength == KBufLength \in Nat \ {0}
ASSUME NtfBounds == MaxSeq \in Nat /\ MaxCrashes \in Nat

VARIABLES
  next_seq,   \* indicator_->next_seq
  infos,      \* indicator_->infos
  seqs,       \* indicator_->seqs
  pc,         \* where each thread is
  seq,        \* Notify's seq
  cursor,     \* next_seq_ of each listener
  info,       \* *info of each listener
  overrun,    \* history: slots drawn again while a live Notify was in them
  crashed     \* the notifiers that crashed

vars == <<next_seq, infos, seqs, pc, seq, cursor, info, overrun, crashed>>

Slots == 0 .. KBufLength - 1
NoInfo == -2      \* a default-constructed ReadableInfo: host_id 0
Torn == -1        \* fields of more than one info
Seqs == 0 .. MaxSeq
Infos == Seqs \cup {NoInfo, Torn}

Slot(s) == s % KBufLength

Init ==
  /\ next_seq = 0
  /\ infos = [i \in Slots |-> NoInfo]
  /\ seqs = [i \in Slots |-> 0]
  /\ pc = [t \in Notifiers \cup Listeners |-> IF t \in Notifiers THEN "idle" ELSE "off"]
  /\ seq = [n \in Notifiers |-> 0]
  /\ cursor = [l \in Listeners |-> 0]
  /\ info = [l \in Listeners |-> NoInfo]
  /\ overrun = {} /\ crashed = {}

Goto(t, from, to) ==
  /\ pc[t] = from
  /\ pc' = [pc EXCEPT ![t] = to]

-----------------------------------------------------------------------------
(* Notify. *)

InFlight(n) == pc[n] \in {"drawn", "writing", "stamp"}

NotifyDraw(n) ==
  /\ next_seq < MaxSeq
  /\ n \notin crashed
  /\ Goto(n, "idle", "drawn")
  /\ seq' = [seq EXCEPT ![n] = next_seq]
  /\ next_seq' = next_seq + 1
  /\ overrun' = IF \E m \in Notifiers \ crashed :
                     InFlight(m) /\ Slot(seq[m]) = Slot(next_seq)
                THEN overrun \cup {Slot(next_seq)} ELSE overrun
  /\ UNCHANGED <<infos, seqs, cursor, info, crashed>>

(* Fault: the sequence number is stored before the info. *)
NotifyWriteBeginStamped(n) ==
  /\ n \notin crashed
  /\ Goto(n, "drawn", "writing")
  /\ infos' = [infos EXCEPT ![Slot(seq[n])] = Torn]
  /\ seqs' = [seqs EXCEPT ![Slot(seq[n])] = seq[n]]
  /\ UNCHANGED <<next_seq, seq, cursor, info, overrun, crashed>>

NotifyWriteBegin(n) ==
  /\ n \notin crashed
  /\ Goto(n, "drawn", "writing")
  /\ infos' = [infos EXCEPT ![Slot(seq[n])] = Torn]
  /\ UNCHANGED <<next_seq, seqs, seq, cursor, info, overrun, crashed>>

(* Two writers that were in the slot together may leave a mixture. *)
NotifyWriteEnd(n) ==
  /\ n \notin crashed
  /\ Goto(n, "writing", "stamp")
  /\ \E i \in {seq[n]} \cup (IF Slot(seq[n]) \in overrun THEN {Torn} ELSE {}) :
       infos' = [infos EXCEPT ![Slot(seq[n])] = i]
  /\ UNCHANGED <<next_seq, seqs, seq, cursor, info, overrun, crashed>>

NotifyStamp(n) ==
  /\ n \notin crashed
  /\ Goto(n, "stamp", "idle")
  /\ seqs' = [seqs EXCEPT ![Slot(seq[n])] = seq[n]]
  /\ UNCHANGED <<next_seq, infos, seq, cursor, info, overrun, crashed>>

Crash(n) ==
  /\ Cardinality(crashed) < MaxCrashes
  /\ n \notin crashed
  /\ crashed' = crashed \cup {n}
  /\ UNCHANGED <<next_seq, infos, seqs, pc, seq, cursor, info, overrun>>

-----------------------------------------------------------------------------
(* Listen. *)

(* The constructor: next_seq_ = indicator_->next_seq.load(). *)
ListenStart(l) ==
  /\ Goto(l, "off", "idle")
  /\ cursor' = [cursor EXCEPT ![l] = next_seq]
  /\ UNCHANGED <<next_seq, infos, seqs, seq, info, overrun, crashed>>

(* seq != next_seq_; otherwise Listen sleeps, times out and is called again. *)
ListenCheck(l) ==
  /\ next_seq # cursor[l]
  /\ Goto(l, "idle", "check")
  /\ UNCHANGED <<next_seq, infos, seqs, seq, cursor, info, overrun, crashed>>

(* Fault: the listener jumps to next_seq. *)
ListenSeqJumps(l) ==
  LET actual_seq == seqs[Slot(cursor[l])]
  IN  /\ IF actual_seq >= cursor[l]
           THEN /\ Goto(l, "check", "copy")
                /\ cursor' = [cursor EXCEPT ![l] = next_seq]
           ELSE /\ Goto(l, "check", "idle")
                /\ UNCHANGED cursor
      /\ UNCHANGED <<next_seq, infos, seqs, seq, info, overrun, crashed>>

(* actual_seq >= next_seq_, or "is writing, can not read now". *)
ListenSeq(l) ==
  LET actual_seq == seqs[Slot(cursor[l])]
  IN  /\ IF actual_seq >= cursor[l]
           THEN /\ Goto(l, "check", "copy")
                /\ cursor' = [cursor EXCEPT ![l] = actual_seq]
           ELSE /\ Goto(l, "check", "idle")
                /\ UNCHANGED cursor
      /\ UNCHANGED <<next_seq, infos, seqs, seq, info, overrun, crashed>>

(* *info = indicator_->infos[idx] begins, ... *)
ListenCopyBegin(l) ==
  /\ Goto(l, "copy", "copying")
  /\ info' = [info EXCEPT ![l] = infos[Slot(cursor[l])]]
  /\ UNCHANGED <<next_seq, infos, seqs, seq, cursor, overrun, crashed>>

(* ... ends, mixed if the slot changed meanwhile; ++next_seq_. *)
ListenCopyEnd(l) ==
  LET now == infos[Slot(cursor[l])]
  IN  /\ Goto(l, "copying", "returned")
      /\ \E i \in {info[l], now} \cup (IF info[l] # now THEN {Torn} ELSE {}) :
           info' = [info EXCEPT ![l] = i]
      /\ cursor' = [cursor EXCEPT ![l] = @ + 1]
      /\ UNCHANGED <<next_seq, infos, seqs, seq, overrun, crashed>>

(* ShmDispatcher::ThreadFunc is done with the info and listens again. *)
ListenAgain(l) ==
  /\ Goto(l, "returned", "idle")
  /\ UNCHANGED <<next_seq, infos, seqs, seq, cursor, info, overrun, crashed>>

-----------------------------------------------------------------------------
Notify(n) ==
  NotifyDraw(n) \/ NotifyWriteBegin(n) \/ NotifyWriteEnd(n) \/ NotifyStamp(n)

Listen(l) ==
  \/ ListenCheck(l) \/ ListenSeq(l)
  \/ ListenCopyBegin(l) \/ ListenCopyEnd(l) \/ ListenAgain(l)

Next ==
  \/ \E n \in Notifiers : Notify(n) \/ Crash(n)
  \/ \E l \in Listeners : ListenStart(l) \/ Listen(l)

Spec == Init /\ [][Next]_vars

-----------------------------------------------------------------------------
NotifierPC == {"idle", "drawn", "writing", "stamp"}
ListenerPC == {"off", "idle", "check", "copy", "copying", "returned"}

(* Types of the ring and of the locals of Notify and Listen; no sequence   *)
(* number is beyond those drawn from next_seq.                             *)
TypeOK ==
  /\ next_seq \in Seqs
  /\ infos \in [Slots -> Infos]
  /\ seqs \in [Slots -> Seqs]
  /\ pc \in [Notifiers \cup Listeners -> NotifierPC \cup ListenerPC]
  /\ \A n \in Notifiers : pc[n] \in NotifierPC
  /\ \A l \in Listeners : pc[l] \in ListenerPC
  /\ seq \in [Notifiers -> Seqs]
  /\ cursor \in [Listeners -> Seqs]
  /\ info \in [Listeners -> Infos]
  /\ overrun \in SUBSET Slots
  /\ crashed \in SUBSET Notifiers

(***************************************************************************)
(* No dispatcher runs ahead of the ring: next_seq_ never passes next_seq,  *)
(* so the test seq != next_seq_ of Listen means that there is something to *)
(* read.  Listen takes next_seq_ from a slot, which a slow or lapping      *)
(* Notify may have stamped at any time.                                    *)
(***************************************************************************)
CursorBehind ==
  \A l \in Listeners :
    /\ cursor[l] <= next_seq
    /\ pc[l] \in {"check", "copy", "copying"} => cursor[l] < next_seq

(***************************************************************************)
(* A dispatcher skips notifications only when the ring has gone round past *)
(* it: otherwise Listen's cursor moves by one.                             *)
(***************************************************************************)
SkipsOnlyWhenLapped ==
  [][\A l \in Listeners :
       pc[l] # "off" /\ cursor'[l] # cursor[l] =>
         \/ cursor'[l] = cursor[l] + 1
         \/ cursor[l] + KBufLength < next_seq]_vars

(***************************************************************************)
(* Listen never returns an older notification than the one it reports: the *)
(* info belongs to the reported sequence number or, when the ring goes     *)
(* round during the copy, to a later one or to a mixture.  Excepted are    *)
(* slots in which a live Notify was itself lapped, and number 0, which     *)
(* seqs' initial zeros announce before it is written.                      *)
(***************************************************************************)
NotOlder(i, s) ==
  \/ i = s
  \/ s + KBufLength < next_seq /\ (i = Torn \/ i > s)
InfoNotOlder ==
  \A l \in Listeners :
    pc[l] = "returned" /\ cursor[l] > 1 /\ Slot(cursor[l] - 1) \notin overrun
      => NotOlder(info[l], cursor[l] - 1)

(***************************************************************************)
(* The inductive invariant behind the proofs in TransportProofs: stamps    *)
(* and draws come from next_seq; a slot that was not overrun has one live  *)
(* Notify in it at most, whose number is newer than the stamp; it holds    *)
(* the info its stamp names, or what the Notify in it is writing; and a    *)
(* listener in it has a stamp at least as new as its cursor.               *)
(***************************************************************************)
SlotsStamped ==
  /\ \A i \in Slots : seqs[i] > 0 => seqs[i] < next_seq /\ Slot(seqs[i]) = i
  /\ \A n \in Notifiers : InFlight(n) => seq[n] < next_seq

LiveIn(n, i) == n \notin crashed /\ InFlight(n) /\ Slot(seq[n]) = i

OneWriter ==
  \A i \in Slots \ overrun : \A n, m \in Notifiers :
    LiveIn(n, i) /\ LiveIn(m, i) => n = m

StampsGrow ==
  \A i \in Slots \ overrun : \A n \in Notifiers :
    LiveIn(n, i) => /\ seqs[i] > 0 => seqs[i] < seq[n]
                    /\ pc[n] = "stamp" => infos[i] = seq[n]

BeingWritten(i) ==
  \E n \in Notifiers :
    InFlight(n) /\ Slot(seq[n]) = i /\ seq[n] > seqs[i] /\ infos[i] \in {Torn, seq[n]}

SlotsCoherent ==
  \A i \in Slots \ overrun : seqs[i] > 0 => infos[i] = seqs[i] \/ BeingWritten(i)

CopyNotOlder ==
  \A l \in Listeners :
    pc[l] \in {"copy", "copying"} /\ cursor[l] > 0 /\ Slot(cursor[l]) \notin overrun
      => /\ seqs[Slot(cursor[l])] >= cursor[l]
         /\ pc[l] = "copying" => NotOlder(info[l], cursor[l])

IInv ==
  /\ TypeOK /\ SlotsStamped /\ OneWriter /\ StampsGrow /\ SlotsCoherent
  /\ CursorBehind /\ CopyNotOlder /\ InfoNotOlder

=============================================================================
