--------------------------- MODULE TransportProofs ---------------------------
(***************************************************************************)
(* The parts of src/transport that MCTransport puts side by side, each for *)
(* every value of its constants: the ring of the condition notifier, the   *)
(* RTPS writer's history, the sockets of the multicast notifier, the life  *)
(* of a segment and a channel's listeners.                                 *)
(***************************************************************************)
EXTENDS MCTransport, NatLemmas, SequenceTheorems, FiniteSetTheorems, TLAPS

-----------------------------------------------------------------------------
(***************************************************************************)
(* The ring of the condition notifier: no dispatcher runs ahead of the     *)
(* ring, it skips notifications only when the ring has gone round past it, *)
(* and what Listen returns is never older than the number it reports.      *)
(***************************************************************************)

(* What the invariant says of the ring, and of the listeners. *)
RingInv == SlotsStamped /\ OneWriter /\ StampsGrow /\ SlotsCoherent
ListenerInv == CursorBehind /\ CopyNotOlder /\ InfoNotOlder

(* A sequence number has a slot. *)
LEMMA SlotType == \A s \in Nat : Slot(s) \in Slots
  BY NtfLength, DivMod DEF Slot, Slots

(* A later number of the same slot is a lap ahead. *)
LEMMA SlotLap ==
  ASSUME NEW a \in Nat, NEW b \in Nat, a < b, Slot(a) = Slot(b)
  PROVE  a + KBufLength <= b
  BY NtfLength, LapAhead DEF Slot

(* The numbers in the model are natural numbers. *)
LEMMA SeqsNat == Seqs \subseteq Nat
  BY NtfBounds DEF Seqs

(***************************************************************************)
(* A step of a notifier keeps what is known of the listeners when the ring *)
(* moves on and the stamps of the slots that are not overrun grow.         *)
(***************************************************************************)
LEMMA ListenerFrame ==
  ASSUME TypeOK, TypeOK', ListenerInv,
         UNCHANGED <<cursor, info>>,
         \A l \in Listeners : pc'[l] = pc[l],
         next_seq <= next_seq', overrun \subseteq overrun',
         \A i \in Slots \ overrun' : seqs[i] > 0 => seqs'[i] >= seqs[i]
  PROVE  ListenerInv'
<1> USE DEF ListenerInv
<1>0. /\ next_seq \in Nat /\ next_seq' \in Nat
      /\ \A l \in Listeners : cursor[l] \in Nat
      /\ \A i \in Slots : seqs[i] \in Nat /\ seqs'[i] \in Nat
  BY SeqsNat DEF TypeOK
<1>1. CursorBehind'
  BY <1>0 DEF CursorBehind
<1>2. \A i \in Infos, s \in Nat : NotOlder(i, s) => NotOlder(i, s)'
  BY <1>0, NtfLength DEF NotOlder
<1>3. CopyNotOlder'
  <2>1. SUFFICES ASSUME NEW l \in Listeners,
                        pc[l] \in {"copy", "copying"}, cursor[l] > 0,
                        Slot(cursor[l]) \notin overrun'
                 PROVE  /\ seqs'[Slot(cursor[l])] >= cursor[l]
                        /\ pc[l] = "copying" => NotOlder(info[l], cursor[l])'
    BY DEF CopyNotOlder
  <2>2. Slot(cursor[l]) \in Slots \ overrun'
    BY <1>0, <2>1, SlotType
  <2>3. seqs[Slot(cursor[l])] >= cursor[l]
    BY <2>1 DEF CopyNotOlder
  <2>4. seqs'[Slot(cursor[l])] >= cursor[l]
    BY <1>0, <2>1, <2>2, <2>3
  <2>5. pc[l] = "copying" => NotOlder(info[l], cursor[l])'
    BY <1>0, <1>2, <2>1 DEF CopyNotOlder, TypeOK
  <2> QED
    BY <2>4, <2>5
<1>4. InfoNotOlder'
  <2>1. SUFFICES ASSUME NEW l \in Listeners, pc[l] = "returned", cursor[l] > 1,
                        Slot(cursor[l] - 1) \notin overrun'
                 PROVE  NotOlder(info[l], cursor[l] - 1)'
    BY DEF InfoNotOlder
  <2>2. cursor[l] - 1 \in Nat
    BY <1>0, <2>1
  <2> QED
    BY <1>2, <2>1, <2>2 DEF InfoNotOlder, TypeOK
<1> QED
  BY <1>1, <1>3, <1>4

(* A step of a listener does not touch the ring. *)
LEMMA RingFrame ==
  ASSUME RingInv, UNCHANGED <<next_seq, infos, seqs, seq, overrun, crashed>>,
         \A n \in Notifiers : pc'[n] = pc[n]
  PROVE  RingInv'
<1>1. \A n \in Notifiers : InFlight(n)' <=> InFlight(n)
  BY DEF InFlight
<1>2. \A n \in Notifiers, i \in Slots : LiveIn(n, i)' <=> LiveIn(n, i)
  BY <1>1 DEF LiveIn
<1>3. SlotsStamped' /\ OneWriter' /\ StampsGrow'
  BY <1>1, <1>2 DEF RingInv, SlotsStamped, OneWriter, StampsGrow
<1>4. SlotsCoherent'
  BY <1>1 DEF RingInv, SlotsCoherent, BeingWritten
<1> QED
  BY <1>3, <1>4 DEF RingInv

-----------------------------------------------------------------------------
(* The freshly constructed Indicator satisfies the invariant. *)
LEMMA InitIInv == Init => IInv
<1> SUFFICES ASSUME Init PROVE IInv
  OBVIOUS
<1>1. TypeOK
  BY NtfBounds DEF Init, TypeOK, Seqs, Infos, NoInfo, Torn, NotifierPC, ListenerPC
<1>2. \A n \in Notifiers : ~InFlight(n)
  BY DEF Init, InFlight
<1>3. RingInv
  BY <1>2 DEF Init, RingInv, SlotsStamped, OneWriter, StampsGrow, SlotsCoherent, LiveIn
<1>4. \A l \in Listeners : pc[l] = "off" /\ cursor[l] = 0
  BY NtfThreads DEF Init
<1>5. ListenerInv
  BY <1>4 DEF Init, ListenerInv, CursorBehind, CopyNotOlder, InfoNotOlder
<1> QED
  BY <1>1, <1>3, <1>5 DEF IInv, RingInv, ListenerInv

-----------------------------------------------------------------------------
(* The actions of Notify. *)

(* A draw either finds the slot free of live notifiers or marks it. *)
LEMMA NotifyDrawIInv ==
  ASSUME IInv, NEW n \in Notifiers, NotifyDraw(n)
  PROVE  IInv'
<1> USE DEF IInv, RingInv
<1>0. /\ next_seq \in Nat /\ next_seq' = next_seq + 1 /\ next_seq' \in Seqs
      /\ Slot(next_seq) \in Slots /\ n \notin Listeners
  BY SeqsNat, SlotType, NtfThreads, NtfBounds DEF TypeOK, NotifyDraw, Seqs
<1>1. /\ pc' = [pc EXCEPT ![n] = "drawn"] /\ seq' = [seq EXCEPT ![n] = next_seq]
      /\ UNCHANGED <<infos, seqs, cursor, info, crashed>>
      /\ ~InFlight(n) /\ n \notin crashed
  BY DEF NotifyDraw, Goto, InFlight
<1>2. overrun \subseteq overrun' /\ overrun' \in SUBSET Slots
  BY <1>0 DEF NotifyDraw, TypeOK
<1>3. TypeOK'
  BY <1>0, <1>1, <1>2 DEF TypeOK, NotifierPC
<1>4. /\ seq'[n] = next_seq /\ pc'[n] = "drawn"
      /\ \A m \in Notifiers \ {n} : seq'[m] = seq[m] /\ pc'[m] = pc[m]
      /\ \A l \in Listeners : pc'[l] = pc[l]
  BY <1>0, <1>1 DEF TypeOK
<1>5. /\ \A m \in Notifiers \ {n}, i \in Slots : LiveIn(m, i)' <=> LiveIn(m, i)
      /\ \A i \in Slots : LiveIn(n, i)' => i = Slot(next_seq)
      /\ \A i \in Slots : ~LiveIn(n, i)
  BY <1>1, <1>4 DEF LiveIn, InFlight
<1>6. Slot(next_seq) \notin overrun' => \A m \in Notifiers : ~LiveIn(m, Slot(next_seq))
  BY <1>1, <1>0 DEF NotifyDraw, LiveIn
<1>7. SlotsStamped'
  <2>1. \A i \in Slots : seqs[i] \in Nat
    BY SeqsNat DEF TypeOK
  <2>2. \A m \in Notifiers : seq[m] \in Nat
    BY SeqsNat DEF TypeOK
  <2>3. \A m \in Notifiers : InFlight(m)' => seq'[m] < next_seq'
    BY <1>0, <1>4, <2>2 DEF SlotsStamped, InFlight
  <2> QED
    BY <1>0, <1>1, <2>1, <2>3 DEF SlotsStamped
<1>8. OneWriter'
  BY <1>2, <1>5, <1>6 DEF OneWriter
<1>9. StampsGrow'
  <2>1. SUFFICES ASSUME NEW i \in Slots \ overrun', NEW m \in Notifiers, LiveIn(m, i)'
                 PROVE  /\ seqs[i] > 0 => seqs[i] < seq'[m]
                        /\ pc'[m] = "stamp" => infos[i] = seq'[m]
    BY <1>1 DEF StampsGrow
  <2>2. CASE m = n
    BY <1>4, <2>2 DEF SlotsStamped
  <2>3. CASE m # n
    BY <1>2, <1>4, <1>5, <2>1, <2>3 DEF StampsGrow
  <2> QED
    BY <2>2, <2>3
<1>10. SlotsCoherent'
  <2>1. SUFFICES ASSUME NEW i \in Slots \ overrun', seqs[i] > 0, infos[i] # seqs[i]
                 PROVE  BeingWritten(i)'
    BY <1>1 DEF SlotsCoherent
  <2>2. PICK m \in Notifiers : InFlight(m) /\ Slot(seq[m]) = i /\ seq[m] > seqs[i]
                               /\ infos[i] \in {Torn, seq[m]}
    BY <1>2, <2>1 DEF SlotsCoherent, BeingWritten
  <2>3. m # n
    BY <1>1, <2>2
  <2> QED
    BY <1>1, <1>4, <2>2, <2>3 DEF BeingWritten, InFlight
<1>11. ListenerInv'
  <2>1. \A i \in Slots : seqs'[i] >= seqs[i]
    <3>1. \A i \in Slots : seqs[i] \in Nat
      BY SeqsNat DEF TypeOK
    <3> QED
      BY <1>1, <3>1
  <2>2. ListenerInv
    BY DEF ListenerInv
  <2> QED
    BY <1>0, <1>1, <1>2, <1>3, <1>4, <2>1, <2>2, ListenerFrame
<1> QED
  BY <1>3, <1>7, <1>8, <1>9, <1>10, <1>11 DEF IInv, RingInv, ListenerInv

(* The info is written by the newest Notify of the slot. *)
LEMMA NotifyWriteIInv ==
  ASSUME IInv, NEW n \in Notifiers, NotifyWriteBegin(n) \/ NotifyWriteEnd(n)
  PROVE  IInv'
<1> USE DEF IInv, RingInv
<1>0. PICK c \in Slots : c = Slot(seq[n])
  BY SeqsNat, SlotType DEF TypeOK
<1>1. /\ n \notin Listeners /\ n \notin crashed /\ pc[n] \in {"drawn", "writing"}
      /\ UNCHANGED <<next_seq, seqs, seq, cursor, info, overrun, crashed>>
  BY NtfThreads DEF NotifyWriteBegin, NotifyWriteEnd, Goto
<1>2. /\ pc'[n] \in {"writing", "stamp"} /\ LiveIn(n, c)
      /\ \A t \in (Notifiers \cup Listeners) \ {n} : pc'[t] = pc[t]
      /\ \A i \in Slots \ {c} : infos'[i] = infos[i]
      /\ infos'[c] \in {Torn, seq[n]}
      /\ c \notin overrun /\ pc'[n] = "stamp" => infos'[c] = seq[n]
  BY <1>0, <1>1 DEF NotifyWriteBegin, NotifyWriteEnd, Goto, LiveIn, InFlight, TypeOK
<1>3. TypeOK'
  <2>1. infos' \in [Slots -> Infos]
    BY <1>0, <1>1 DEF TypeOK, NotifyWriteBegin, NotifyWriteEnd, Infos
  <2>2. /\ pc' \in [Notifiers \cup Listeners -> NotifierPC \cup ListenerPC]
        /\ \A m \in Notifiers : pc'[m] \in NotifierPC
        /\ \A l \in Listeners : pc'[l] \in ListenerPC
    BY <1>1, <1>2 DEF TypeOK, NotifyWriteBegin, NotifyWriteEnd, Goto, NotifierPC
  <2> QED
    BY <1>1, <2>1, <2>2 DEF TypeOK
<1>4. \A m \in Notifiers : InFlight(m)' <=> InFlight(m)
  BY <1>1, <1>2 DEF InFlight
<1>5. \A m \in Notifiers, i \in Slots : LiveIn(m, i)' <=> LiveIn(m, i)
  BY <1>1, <1>4 DEF LiveIn
<1>6. SlotsStamped' /\ OneWriter'
  BY <1>1, <1>4, <1>5 DEF SlotsStamped, OneWriter
<1>7. StampsGrow'
  <2>1. SUFFICES ASSUME NEW i \in Slots \ overrun, NEW m \in Notifiers, LiveIn(m, i)
                 PROVE  /\ seqs[i] > 0 => seqs[i] < seq[m]
                        /\ pc'[m] = "stamp" => infos'[i] = seq[m]
    BY <1>1, <1>5 DEF StampsGrow
  <2>2. CASE m = n
    <3>1. i = c
      BY <1>0, <2>1, <2>2 DEF LiveIn
    <3> QED
      BY <1>2, <2>1, <2>2, <3>1 DEF StampsGrow
  <2>3. CASE m # n
    <3>1. i # c
      BY <1>2, <2>1, <2>3 DEF OneWriter
    <3> QED
      BY <1>2, <2>1, <2>3, <3>1 DEF StampsGrow
  <2> QED
    BY <2>2, <2>3
<1>8. SlotsCoherent'
  <2>1. SUFFICES ASSUME NEW i \in Slots \ overrun, seqs[i] > 0, infos'[i] # seqs[i]
                 PROVE  BeingWritten(i)'
    BY <1>1 DEF SlotsCoherent
  <2>2. CASE i = c
    <3>1. seq[n] > seqs[i]
      BY <1>2, <2>1, <2>2, SeqsNat DEF StampsGrow, TypeOK
    <3> QED
      BY <1>0, <1>1, <1>2, <1>4, <2>2, <3>1 DEF BeingWritten, LiveIn
  <2>3. CASE i # c
    <3>1. PICK m \in Notifiers : InFlight(m) /\ Slot(seq[m]) = i /\ seq[m] > seqs[i]
                                 /\ infos[i] \in {Torn, seq[m]}
      BY <1>2, <2>1, <2>3 DEF SlotsCoherent, BeingWritten
    <3> QED
      BY <1>1, <1>2, <1>4, <2>3, <3>1 DEF BeingWritten
  <2> QED
    BY <2>2, <2>3
<1>9. ListenerInv'
  <2>1. \A i \in Slots : seqs'[i] >= seqs[i]
    <3>1. \A i \in Slots : seqs[i] \in Nat
      BY SeqsNat DEF TypeOK
    <3> QED
      BY <1>1, <3>1
  <2>2. ListenerInv /\ next_seq <= next_seq' /\ overrun \subseteq overrun'
    BY <1>1, SeqsNat DEF ListenerInv, TypeOK
  <2> QED
    BY <1>1, <1>2, <1>3, <2>1, <2>2, ListenerFrame
<1> QED
  BY <1>3, <1>6, <1>7, <1>8, <1>9 DEF IInv, RingInv, ListenerInv

(* The stamp names the info that the same Notify has written. *)
LEMMA NotifyStampIInv ==
  ASSUME IInv, NEW n \in Notifiers, NotifyStamp(n)
  PROVE  IInv'
<1> USE DEF IInv, RingInv
<1>0. PICK c \in Slots : c = Slot(seq[n])
  BY SeqsNat, SlotType DEF TypeOK
<1>1. /\ n \notin Listeners /\ n \notin crashed /\ pc[n] = "stamp"
      /\ UNCHANGED <<next_seq, infos, seq, cursor, info, overrun, crashed>>
  BY NtfThreads DEF NotifyStamp, Goto
<1>2. /\ pc'[n] = "idle" /\ LiveIn(n, c) /\ InFlight(n)
      /\ \A t \in (Notifiers \cup Listeners) \ {n} : pc'[t] = pc[t]
      /\ \A i \in Slots \ {c} : seqs'[i] = seqs[i]
      /\ seqs'[c] = seq[n]
  BY <1>0, <1>1 DEF NotifyStamp, Goto, LiveIn, InFlight, TypeOK
<1>3. TypeOK'
  BY <1>0, <1>1 DEF TypeOK, NotifyStamp, Goto, NotifierPC
<1>4. \A m \in Notifiers : InFlight(m)' <=> InFlight(m) /\ m # n
  BY <1>1, <1>2 DEF InFlight
<1>5. \A m \in Notifiers, i \in Slots : LiveIn(m, i)' <=> LiveIn(m, i) /\ m # n
  BY <1>1, <1>4 DEF LiveIn
<1>6. SlotsStamped' /\ OneWriter'
  BY <1>0, <1>1, <1>2, <1>4, <1>5 DEF SlotsStamped, OneWriter
<1>7. StampsGrow'
  <2>1. SUFFICES ASSUME NEW i \in Slots \ overrun, NEW m \in Notifiers,
                        LiveIn(m, i), m # n
                 PROVE  /\ seqs'[i] > 0 => seqs'[i] < seq[m]
                        /\ pc'[m] = "stamp" => infos[i] = seq[m]
    BY <1>1, <1>5 DEF StampsGrow
  <2>2. i # c
    BY <1>2, <2>1 DEF OneWriter
  <2> QED
    BY <1>2, <2>1, <2>2 DEF StampsGrow
<1>8. SlotsCoherent'
  <2>1. SUFFICES ASSUME NEW i \in Slots \ overrun, seqs'[i] > 0, infos[i] # seqs'[i]
                 PROVE  BeingWritten(i)'
    BY <1>1 DEF SlotsCoherent
  <2>2. i # c
    BY <1>1, <1>2, <2>1 DEF StampsGrow
  <2>3. PICK m \in Notifiers : InFlight(m) /\ Slot(seq[m]) = i /\ seq[m] > seqs[i]
                               /\ infos[i] \in {Torn, seq[m]}
    BY <1>2, <2>1, <2>2 DEF SlotsCoherent, BeingWritten
  <2>4. m # n
    BY <1>0, <2>2, <2>3
  <2> QED
    BY <1>1, <1>2, <1>4, <2>2, <2>3, <2>4 DEF BeingWritten
<1>9. ListenerInv'
  <2>1. \A i \in Slots \ overrun' : seqs[i] > 0 => seqs'[i] >= seqs[i]
    <3>1. SUFFICES ASSUME NEW i \in Slots \ overrun, seqs[i] > 0 PROVE seqs'[i] >= seqs[i]
      BY <1>1
    <3>2. seqs[i] \in Nat /\ seq[n] \in Nat
      BY SeqsNat DEF TypeOK
    <3>3. CASE i = c
      BY <1>2, <3>1, <3>2, <3>3 DEF StampsGrow
    <3>4. CASE i # c
      BY <1>2, <3>2, <3>4
    <3> QED
      BY <3>3, <3>4
  <2>2. ListenerInv /\ next_seq <= next_seq' /\ overrun \subseteq overrun'
    BY <1>1, SeqsNat DEF ListenerInv, TypeOK
  <2> QED
    BY <1>1, <1>2, <1>3, <2>1, <2>2, ListenerFrame
<1> QED
  BY <1>3, <1>6, <1>7, <1>8, <1>9 DEF IInv, RingInv, ListenerInv

(* A crashed Notify leaves its slot as it is and never returns to it. *)
LEMMA CrashIInv ==
  ASSUME IInv, NEW n \in Notifiers, Crash(n)
  PROVE  IInv'
<1> USE DEF IInv, RingInv
<1>1. /\ UNCHANGED <<next_seq, infos, seqs, pc, seq, cursor, info, overrun>>
      /\ crashed \subseteq crashed' /\ crashed' \in SUBSET Notifiers
  BY DEF Crash, TypeOK
<1>2. TypeOK'
  BY <1>1 DEF TypeOK
<1>3. /\ \A m \in Notifiers : InFlight(m)' <=> InFlight(m)
      /\ \A m \in Notifiers, i \in Slots : LiveIn(m, i)' => LiveIn(m, i)
  BY <1>1 DEF InFlight, LiveIn
<1>4. SlotsStamped' /\ OneWriter' /\ StampsGrow'
  BY <1>1, <1>3 DEF SlotsStamped, OneWriter, StampsGrow
<1>5. SlotsCoherent'
  BY <1>1, <1>3 DEF SlotsCoherent, BeingWritten
<1>6. ListenerInv'
  BY <1>1 DEF ListenerInv, CursorBehind, CopyNotOlder, InfoNotOlder, NotOlder
<1> QED
  BY <1>2, <1>4, <1>5, <1>6 DEF IInv, RingInv, ListenerInv

-----------------------------------------------------------------------------
(* The actions of Listen. *)

(* Starting, comparing with next_seq and returning to the loop. *)
LEMMA ListenIdleIInv ==
  ASSUME IInv, NEW l \in Listeners,
         ListenStart(l) \/ ListenCheck(l) \/ ListenAgain(l)
  PROVE  IInv'
<1> USE DEF IInv
<1>1. /\ l \notin Notifiers
      /\ UNCHANGED <<next_seq, infos, seqs, seq, info, overrun, crashed>>
  BY NtfThreads DEF ListenStart, ListenCheck, ListenAgain
<1>2. /\ pc'[l] \in {"idle", "check"}
      /\ \A t \in (Notifiers \cup Listeners) \ {l} : pc'[t] = pc[t]
      /\ \A k \in Listeners \ {l} : cursor'[k] = cursor[k]
      /\ cursor'[l] \in {cursor[l], next_seq}
      /\ pc'[l] = "check" => cursor'[l] = cursor[l] /\ next_seq # cursor[l]
  BY DEF ListenStart, ListenCheck, ListenAgain, Goto, TypeOK
<1>3. TypeOK'
  BY <1>1, <1>2 DEF TypeOK, ListenStart, ListenCheck, ListenAgain, Goto, ListenerPC
<1>4. RingInv'
  <2>1. RingInv /\ \A n \in Notifiers : pc'[n] = pc[n]
    BY <1>1, <1>2 DEF RingInv
  <2> QED
    BY <1>1, <2>1, RingFrame
<1>5. CursorBehind'
  <2>1. next_seq \in Nat /\ \A k \in Listeners : cursor[k] \in Nat
    BY SeqsNat DEF TypeOK
  <2>2. \A k \in Listeners : cursor'[k] <= next_seq
    BY <1>2, <2>1 DEF CursorBehind
  <2>3. \A k \in Listeners : pc'[k] \in {"check", "copy", "copying"} => cursor'[k] < next_seq
    BY <1>2, <2>1 DEF CursorBehind
  <2> QED
    BY <1>1, <2>2, <2>3 DEF CursorBehind
<1>6. CopyNotOlder' /\ InfoNotOlder'
  BY <1>1, <1>2 DEF CopyNotOlder, InfoNotOlder, NotOlder
<1> QED
  BY <1>3, <1>4, <1>5, <1>6 DEF IInv, RingInv, ListenerInv

(* The cursor moves to a stamp of its slot that is at least as new. *)
LEMMA ListenSeqIInv ==
  ASSUME IInv, NEW l \in Listeners, ListenSeq(l)
  PROVE  IInv'
<1> USE DEF IInv
<1>0. PICK c \in Slots : c = Slot(cursor[l])
  BY SeqsNat, SlotType DEF TypeOK
<1>1. /\ l \notin Notifiers /\ pc[l] = "check"
      /\ UNCHANGED <<next_seq, infos, seqs, seq, info, overrun, crashed>>
  BY NtfThreads DEF ListenSeq, Goto
<1>2. /\ pc'[l] \in {"idle", "copy"}
      /\ \A t \in (Notifiers \cup Listeners) \ {l} : pc'[t] = pc[t]
      /\ \A k \in Listeners \ {l} : cursor'[k] = cursor[k]
      /\ pc'[l] = "idle" => cursor'[l] = cursor[l]
      /\ pc'[l] = "copy" => cursor'[l] = seqs[c] /\ seqs[c] >= cursor[l]
  BY <1>0 DEF ListenSeq, Goto, TypeOK
<1>3. TypeOK'
  <2>1. seqs[c] \in Seqs
    BY DEF TypeOK
  <2> QED
    BY <1>0, <1>1, <1>2, <2>1 DEF TypeOK, ListenSeq, Goto, ListenerPC
<1>4. RingInv'
  <2>1. RingInv /\ \A n \in Notifiers : pc'[n] = pc[n]
    BY <1>1, <1>2 DEF RingInv
  <2> QED
    BY <1>1, <2>1, RingFrame
<1>5. /\ next_seq \in Nat /\ seqs[c] \in Nat /\ cursor[l] \in Nat
      /\ cursor[l] < next_seq
      /\ seqs[c] > 0 => seqs[c] < next_seq /\ Slot(seqs[c]) = c
  BY <1>0, <1>1, SeqsNat DEF TypeOK, CursorBehind, SlotsStamped
<1>6. CursorBehind'
  <2>1. cursor'[l] < next_seq
    BY <1>2, <1>5
  <2>2. cursor'[l] <= next_seq'
    <3>1. cursor'[l] \in Nat
      BY <1>3, SeqsNat DEF TypeOK
    <3> QED
      BY <1>1, <1>5, <2>1, <3>1
  <2> QED
    BY <1>1, <1>2, <2>1, <2>2 DEF CursorBehind
<1>7. CopyNotOlder'
  <2>1. SUFFICES ASSUME NEW k \in Listeners,
                        pc'[k] \in {"copy", "copying"}, cursor'[k] > 0,
                        Slot(cursor'[k]) \notin overrun
                 PROVE  /\ seqs[Slot(cursor'[k])] >= cursor'[k]
                        /\ pc'[k] = "copying" => NotOlder(info[k], cursor'[k])
    BY <1>1 DEF CopyNotOlder, NotOlder
  <2>2. CASE k = l
    BY <1>2, <1>5, <2>1, <2>2
  <2>3. CASE k # l
    BY <1>2, <2>1, <2>3 DEF CopyNotOlder
  <2> QED
    BY <2>2, <2>3
<1>8. InfoNotOlder'
  BY <1>1, <1>2 DEF InfoNotOlder, NotOlder
<1> QED
  BY <1>3, <1>4, <1>6, <1>7, <1>8 DEF IInv, RingInv, ListenerInv

(* What a listener finds in a slot whose stamp is not older than its cursor. *)
LEMMA FoundNotOlder ==
  ASSUME IInv, NEW l \in Listeners, pc[l] \in {"copy", "copying"}, cursor[l] > 0,
         Slot(cursor[l]) \notin overrun
  PROVE  NotOlder(infos[Slot(cursor[l])], cursor[l])
<1> USE DEF IInv
<1>0. PICK c \in Slots \ overrun : c = Slot(cursor[l])
  BY SeqsNat, SlotType DEF TypeOK
<1>1. /\ cursor[l] \in Nat /\ seqs[c] \in Nat /\ seqs[c] >= cursor[l] /\ next_seq \in Nat
      /\ seqs[c] > 0 /\ seqs[c] < next_seq /\ Slot(seqs[c]) = c
  <2>1. cursor[l] \in Nat /\ seqs[c] \in Nat /\ next_seq \in Nat
    BY SeqsNat DEF TypeOK
  <2>2. seqs[c] >= cursor[l]
    BY <1>0 DEF CopyNotOlder
  <2>3. seqs[c] > 0
    BY <2>1, <2>2
  <2> QED
    BY <2>1, <2>2, <2>3 DEF SlotsStamped
<1>2. \A s \in Nat : s > cursor[l] /\ Slot(s) = c /\ s < next_seq
                     => cursor[l] + KBufLength < next_seq
  <2>1. SUFFICES ASSUME NEW s \in Nat, s > cursor[l], Slot(s) = c, s < next_seq
                 PROVE  cursor[l] + KBufLength < next_seq
    OBVIOUS
  <2>2. cursor[l] + KBufLength <= s
    BY <1>0, <1>1, <2>1, SlotLap
  <2> QED
    BY <1>1, <2>1, <2>2, NtfLength
<1>3. CASE infos[c] = seqs[c]
  <2>1. CASE seqs[c] = cursor[l]
    BY <1>0, <1>3, <2>1 DEF NotOlder
  <2>2. CASE seqs[c] > cursor[l]
    BY <1>0, <1>1, <1>2, <1>3, <2>2 DEF NotOlder
  <2> QED
    BY <1>1, <2>1, <2>2
<1>4. CASE BeingWritten(c)
  <2>1. PICK n \in Notifiers : InFlight(n) /\ Slot(seq[n]) = c /\ seq[n] > seqs[c]
                               /\ infos[c] \in {Torn, seq[n]}
    BY <1>4 DEF BeingWritten
  <2>2. seq[n] \in Nat /\ seq[n] < next_seq
    BY <2>1, SeqsNat DEF TypeOK, SlotsStamped
  <2>3. seq[n] > cursor[l]
    BY <1>1, <2>1, <2>2
  <2> QED
    BY <1>0, <1>2, <2>1, <2>2, <2>3 DEF NotOlder
<1> QED
  BY <1>1, <1>3, <1>4 DEF SlotsCoherent

(* The copy begins. *)
LEMMA ListenCopyBeginIInv ==
  ASSUME IInv, NEW l \in Listeners, ListenCopyBegin(l)
  PROVE  IInv'
<1> USE DEF IInv
<1>1. /\ l \notin Notifiers /\ pc[l] = "copy" /\ Slot(cursor[l]) \in Slots
      /\ UNCHANGED <<next_seq, infos, seqs, seq, cursor, overrun, crashed>>
  BY NtfThreads, SeqsNat, SlotType DEF ListenCopyBegin, Goto, TypeOK
<1>2. /\ pc'[l] = "copying" /\ info'[l] = infos[Slot(cursor[l])]
      /\ \A t \in (Notifiers \cup Listeners) \ {l} : pc'[t] = pc[t]
      /\ \A k \in Listeners \ {l} : info'[k] = info[k]
  BY DEF ListenCopyBegin, Goto, TypeOK
<1>3. TypeOK'
  BY <1>1 DEF TypeOK, ListenCopyBegin, Goto, ListenerPC
<1>4. RingInv'
  <2>1. RingInv /\ \A n \in Notifiers : pc'[n] = pc[n]
    BY <1>1, <1>2 DEF RingInv
  <2> QED
    BY <1>1, <2>1, RingFrame
<1>5. CursorBehind'
  BY <1>1, <1>2 DEF CursorBehind
<1>6. CopyNotOlder'
  <2>1. SUFFICES ASSUME NEW k \in Listeners,
                        pc'[k] \in {"copy", "copying"}, cursor[k] > 0,
                        Slot(cursor[k]) \notin overrun
                 PROVE  /\ seqs[Slot(cursor[k])] >= cursor[k]
                        /\ pc'[k] = "copying" => NotOlder(info'[k], cursor[k])
    BY <1>1 DEF CopyNotOlder, NotOlder
  <2>2. CASE k = l
    BY <1>1, <1>2, <2>1, <2>2, FoundNotOlder DEF CopyNotOlder
  <2>3. CASE k # l
    BY <1>2, <2>1, <2>3 DEF CopyNotOlder
  <2> QED
    BY <2>2, <2>3
<1>7. InfoNotOlder'
  BY <1>1, <1>2 DEF InfoNotOlder, NotOlder
<1> QED
  BY <1>3, <1>4, <1>5, <1>6, <1>7 DEF IInv, RingInv, ListenerInv

(* The copy ends: with the info it began with, the one now there, or a mixture. *)
LEMMA ListenCopyEndIInv ==
  ASSUME IInv, NEW l \in Listeners, ListenCopyEnd(l)
  PROVE  IInv'
<1> USE DEF IInv
<1> DEFINE now == infos[Slot(cursor[l])]
<1>1. /\ l \notin Notifiers /\ pc[l] = "copying" /\ Slot(cursor[l]) \in Slots
      /\ UNCHANGED <<next_seq, infos, seqs, seq, overrun, crashed>>
  BY NtfThreads, SeqsNat, SlotType DEF ListenCopyEnd, Goto, TypeOK
<1>2. /\ pc'[l] = "returned" /\ cursor'[l] = cursor[l] + 1
      /\ info'[l] \in {info[l], now} \cup (IF info[l] # now THEN {Torn} ELSE {})
      /\ \A t \in (Notifiers \cup Listeners) \ {l} : pc'[t] = pc[t]
      /\ \A k \in Listeners \ {l} : info'[k] = info[k] /\ cursor'[k] = cursor[k]
  BY DEF ListenCopyEnd, Goto, TypeOK
<1>3. cursor[l] \in Nat /\ next_seq \in Nat /\ cursor[l] < next_seq
  BY <1>1, SeqsNat DEF TypeOK, CursorBehind
<1>4. TypeOK'
  <2>1. cursor[l] + 1 \in Seqs
    BY <1>3, NtfBounds DEF TypeOK, Seqs
  <2>2. now \in Infos /\ info[l] \in Infos /\ Torn \in Infos
    BY <1>1 DEF TypeOK, Infos
  <2>3. info' \in [Listeners -> Infos]
    BY <2>2 DEF TypeOK, ListenCopyEnd
  <2>4. cursor' \in [Listeners -> Seqs]
    BY <2>1 DEF TypeOK, ListenCopyEnd
  <2> QED
    BY <1>1, <2>3, <2>4 DEF TypeOK, ListenCopyEnd, Goto, ListenerPC
<1>5. RingInv'
  <2>1. RingInv /\ \A n \in Notifiers : pc'[n] = pc[n]
    BY <1>1, <1>2 DEF RingInv
  <2> QED
    BY <1>1, <2>1, RingFrame
<1>6. CursorBehind'
  BY <1>1, <1>2, <1>3 DEF CursorBehind
<1>7. CopyNotOlder'
  BY <1>1, <1>2 DEF CopyNotOlder, NotOlder
<1>8. InfoNotOlder'
  <2>1. SUFFICES ASSUME NEW k \in Listeners, pc'[k] = "returned", cursor'[k] > 1,
                        Slot(cursor'[k] - 1) \notin overrun
                 PROVE  NotOlder(info'[k], cursor'[k] - 1)
    BY <1>1 DEF InfoNotOlder, NotOlder
  <2>2. CASE k = l
    <3>1. cursor'[k] - 1 = cursor[l] /\ cursor[l] > 0 /\ Slot(cursor[l]) \notin overrun
      BY <1>2, <1>3, <2>1, <2>2
    <3>2. NotOlder(now, cursor[l]) /\ NotOlder(info[l], cursor[l])
      BY <1>1, <3>1, FoundNotOlder DEF CopyNotOlder
    <3>3. info[l] # now => cursor[l] + KBufLength < next_seq
      BY <3>2 DEF NotOlder
    <3> QED
      BY <1>2, <2>2, <3>1, <3>2, <3>3 DEF NotOlder
  <2>3. CASE k # l
    BY <1>2, <2>1, <2>3 DEF InfoNotOlder
  <2> QED
    BY <2>2, <2>3
<1> QED
  BY <1>4, <1>5, <1>6, <1>7, <1>8 DEF IInv, RingInv, ListenerInv

-----------------------------------------------------------------------------
(* Every step keeps the invariant. *)
LEMMA NextIInv == IInv /\ [Next]_vars => IInv'
<1> SUFFICES ASSUME IInv, [Next]_vars PROVE IInv'
  OBVIOUS
<1>1. CASE \E n \in Notifiers : Notify(n) \/ Crash(n)
  BY <1>1, NotifyDrawIInv, NotifyWriteIInv, NotifyStampIInv, CrashIInv DEF Notify
<1>2. CASE \E l \in Listeners : ListenStart(l) \/ Listen(l)
  BY <1>2, ListenIdleIInv, ListenSeqIInv, ListenCopyBeginIInv, ListenCopyEndIInv DEF Listen
<1>3. CASE UNCHANGED vars
  <2>1. UNCHANGED <<next_seq, infos, seqs, pc, seq, cursor, info, overrun, crashed>>
    BY <1>3 DEF vars
  <2>2. TypeOK' /\ RingInv'
    BY <2>1, RingFrame DEF IInv, RingInv, TypeOK
  <2>3. ListenerInv'
    BY <2>1 DEF IInv, ListenerInv, CursorBehind, CopyNotOlder, InfoNotOlder, NotOlder
  <2> QED
    BY <2>2, <2>3 DEF IInv, RingInv, ListenerInv
<1> QED
  BY <1>1, <1>2, <1>3 DEF Next

(* Every reachable state satisfies the inductive invariant. *)
THEOREM Invariance == Spec => []IInv
  BY InitIInv, NextIInv, PTL DEF Spec

(***************************************************************************)
(* No dispatcher's next_seq_ passes next_seq, whatever Notify calls crash, *)
(* stall or are lapped.                                                    *)
(***************************************************************************)
THEOREM CursorsBehind == Spec => []CursorBehind
<1>1. IInv => CursorBehind
  BY DEF IInv
<1> QED
  BY <1>1, Invariance, PTL

(* What Listen returns is never older than the number it reports. *)
THEOREM ReturnsNotOlder == Spec => []InfoNotOlder
<1>1. IInv => InfoNotOlder
  BY DEF IInv
<1> QED
  BY <1>1, Invariance, PTL

(***************************************************************************)
(* Listen's cursor moves by one notification at a time unless the ring has *)
(* gone round past it.                                                     *)
(***************************************************************************)
THEOREM SkipsJustified == Spec => SkipsOnlyWhenLapped
<1> DEFINE Step ==
      \A l \in Listeners :
        pc[l] # "off" /\ cursor'[l] # cursor[l] =>
          \/ cursor'[l] = cursor[l] + 1
          \/ cursor[l] + KBufLength < next_seq
<1>1. IInv /\ [Next]_vars => [Step]_vars
  <2> SUFFICES ASSUME IInv, Next, NEW l \in Listeners, pc[l] # "off", cursor'[l] # cursor[l]
               PROVE  \/ cursor'[l] = cursor[l] + 1
                      \/ cursor[l] + KBufLength < next_seq
    OBVIOUS
  <2> USE DEF IInv
  <2>1. PICK k \in Listeners : ListenSeq(k) \/ ListenCopyEnd(k) \/ ListenStart(k)
    BY DEF Next, Notify, Listen, Crash, NotifyDraw, NotifyWriteBegin, NotifyWriteEnd,
       NotifyStamp, ListenCheck, ListenCopyBegin, ListenAgain
  <2>2. k = l
    BY <2>1 DEF ListenSeq, ListenCopyEnd, ListenStart, TypeOK
  <2>3. CASE ListenCopyEnd(l)
    BY <2>3 DEF ListenCopyEnd, TypeOK
  <2>4. CASE ListenSeq(l)
    <3>0. PICK c \in Slots : c = Slot(cursor[l])
      BY SeqsNat, SlotType DEF TypeOK
    <3>1. /\ cursor[l] \in Nat /\ seqs[c] \in Nat /\ next_seq \in Nat
          /\ seqs[c] >= cursor[l] /\ seqs[c] # cursor[l]
      BY <2>4, <3>0, SeqsNat DEF ListenSeq, TypeOK
    <3>2. seqs[c] < next_seq /\ Slot(seqs[c]) = c
      BY <3>1 DEF SlotsStamped
    <3>3. cursor[l] + KBufLength <= seqs[c]
      BY <3>0, <3>1, <3>2, SlotLap
    <3> QED
      BY <3>1, <3>2, <3>3, NtfLength
  <2> QED
    BY <2>1, <2>2, <2>3, <2>4 DEF ListenStart, Goto
<1> QED
  BY <1>1, Invariance, PTL DEF Spec, SkipsOnlyWhenLapped

-----------------------------------------------------------------------------
(* The RTPS writer (RtpsTransport). *)

(* The steps of Transmit or Write from the creation of the change on. *)
Adding == {"add", "full", "again", "return"}
SenderSteps == {"out", "change", "add", "full", "again", "return"}

RtpsTypeOK ==
  /\ kind \in {"transmitter", "manager"}
  /\ history \in Seq(Nat) /\ Len(history) <= MaximumReservedCaches
  /\ mutex \in Senders \cup {"free"}
  /\ sender \in [Senders -> [at : SenderSteps, msg : Nat]]
  /\ sent \in Nat /\ overlapped \in BOOLEAN

(* Threads that others cannot come between: those of Write, which holds    *)
(* the manager's mutex, and those of Transmit while none overlapped.       *)
Undisturbed == kind = "manager" \/ ~ overlapped

(* One thread at a time is adding a change, behind the mutex or alone. *)
OneAdds ==
  /\ kind = "manager" => \A t \in Senders : sender[t].at \in Adding <=> mutex = t
  /\ ~ overlapped =>
       \A t, u \in Senders : sender[t].at # "out" /\ sender[u].at # "out" => t = u

(* Once the older changes are removed the second add_change finds room, so *)
(* that the message of a thread about to return has been added.            *)
RoomMade ==
  Undisturbed => \A t \in Senders :
    /\ sender[t].at = "again" => Len(history) < MaximumReservedCaches
    /\ sender[t].at = "return" => sender[t].msg \in added

RtpsInv == RtpsTypeOK /\ OneAdds /\ RoomMade /\ ReportedIsKept

(* A thread that goes on to another step leaves its message and the others. *)
LEMMA SenderMoves ==
  ASSUME RtpsTypeOK, NEW t \in Senders, NEW x \in SenderSteps,
         sender' = [sender EXCEPT ![t].at = x]
  PROVE  /\ sender' \in [Senders -> [at : SenderSteps, msg : Nat]]
         /\ sender'[t].at = x /\ sender'[t].msg = sender[t].msg
         /\ \A u \in Senders \ {t} : sender'[u] = sender[u]
  BY DEF RtpsTypeOK

LEMMA SenderGoesOut ==
  ASSUME RtpsTypeOK, NEW t \in Senders, NEW m \in Nat, NEW x \in SenderSteps,
         sender' = [sender EXCEPT ![t] = [at |-> x, msg |-> m]]
  PROVE  /\ sender' \in [Senders -> [at : SenderSteps, msg : Nat]]
         /\ sender'[t].at = x /\ sender'[t].msg = m
         /\ \A u \in Senders \ {t} : sender'[u] = sender[u]
  BY DEF RtpsTypeOK

(* Enable, Disable and the participant's Shutdown add no change. *)
LEMMA RtpsControlStep ==
  ASSUME RtpsInv, Rtps!RtpsEnable \/ Rtps!RtpsDisable \/ Rtps!ParticipantShutdown
  PROVE  RtpsInv'
<1> USE DEF RtpsInv, Rtps!RtpsEnable, Rtps!RtpsDisable, Rtps!ParticipantShutdown,
            Rtps!historyVars
<1>1. UNCHANGED <<kind, mutex, sender, sent, added, reported, overlapped>>
  OBVIOUS
<1>2. history' \in Seq(Nat) /\ (history' = history \/ Len(history') = 0)
  BY EmptySeq DEF RtpsTypeOK
<1>3. RtpsTypeOK'
  BY <1>1, <1>2, RtpsConstants DEF RtpsTypeOK
<1>4. OneAdds' /\ ReportedIsKept'
  BY <1>1 DEF OneAdds, ReportedIsKept, Rtps!ReportedIsKept
<1>5. RoomMade'
  BY <1>1, <1>2, RtpsConstants DEF RoomMade, Undisturbed
<1> QED
  BY <1>3, <1>4, <1>5

(* Transmit or Write begins, and takes the mutex; no change is added yet. *)
LEMMA RtpsBeginStep ==
  ASSUME RtpsInv, NEW t \in Senders, Rtps!RtpsTransmit(t) \/ Rtps!NewChange(t)
  PROVE  RtpsInv'
<1> USE DEF RtpsInv, Rtps!historyVars
<1>1. CASE Rtps!RtpsTransmit(t)
  <2>1. /\ sender[t].at = "out" /\ sent' = sent + 1 /\ sent \in Nat
        /\ UNCHANGED <<kind, history, mutex, added, reported>>
        /\ overlapped' = (overlapped \/ \E u \in Senders : sender[u].at # "out")
    BY <1>1 DEF Rtps!RtpsTransmit, RtpsTypeOK
  <2>2. /\ sender' \in [Senders -> [at : SenderSteps, msg : Nat]]
        /\ sender'[t].at \in {"out", "change"}
        /\ \A u \in Senders \ {t} : sender'[u] = sender[u]
    <3>1. \/ sender' = [sender EXCEPT ![t] = [at |-> "change", msg |-> sent + 1]]
          \/ sender' = [sender EXCEPT ![t] = [at |-> "out", msg |-> 0]]
      BY <1>1 DEF Rtps!RtpsTransmit, Rtps!Out
    <3>2. sent + 1 \in Nat
      BY <2>1
    <3> QED
      BY <3>1, <3>2, SenderGoesOut DEF SenderSteps
  <2>3. RtpsTypeOK'
    BY <2>1, <2>2 DEF RtpsTypeOK
  <2>4. OneAdds'
    <3>1. ASSUME kind = "manager", NEW u \in Senders
          PROVE  sender'[u].at \in Adding <=> mutex = u
      <4>1. sender'[u].at \in Adding <=> sender[u].at \in Adding
        BY <2>1, <2>2 DEF Adding
      <4> QED
        BY <3>1, <4>1 DEF OneAdds
    <3>2. ASSUME ~ overlapped', NEW u \in Senders, sender'[u].at # "out"
          PROVE  u = t
      BY <2>1, <2>2, <3>2
    <3>3. ~ overlapped' =>
            \A u, v \in Senders : sender'[u].at # "out" /\ sender'[v].at # "out" => u = v
      BY <3>2
    <3> QED
      BY <2>1, <3>1, <3>3 DEF OneAdds
  <2>5. RoomMade' /\ ReportedIsKept'
    BY <2>1, <2>2 DEF RoomMade, Undisturbed, ReportedIsKept, Rtps!ReportedIsKept, RtpsTypeOK
  <2> QED
    BY <2>3, <2>4, <2>5
<1>2. CASE Rtps!NewChange(t)
  <2>1. /\ sender[t].at = "change"
        /\ UNCHANGED <<kind, history, sent, added, reported, overlapped>>
    BY <1>2 DEF Rtps!NewChange
  <2>2. /\ sender' \in [Senders -> [at : SenderSteps, msg : Nat]]
        /\ \A u \in Senders \ {t} : sender'[u] = sender[u]
        /\ \/ sender'[t].at = "add" /\ (kind = "manager" => mutex = "free" /\ mutex' = t)
           \/ sender'[t].at = "out" /\ mutex' = mutex
        /\ kind # "manager" => mutex' = mutex
    BY <1>2, SenderMoves, SenderGoesOut DEF Rtps!NewChange, Rtps!Out, SenderSteps
  <2>3. RtpsTypeOK'
    BY <2>1, <2>2 DEF RtpsTypeOK
  <2>4. OneAdds'
    <3>1. ASSUME kind = "manager", NEW u \in Senders
          PROVE  sender'[u].at \in Adding <=> mutex' = u
      <4>1. sender[u].at \in Adding <=> mutex = u
        BY <3>1 DEF OneAdds
      <4>2. "free" \notin Senders
        BY RtpsConstants
      <4>3. CASE u = t
        BY <2>1, <2>2, <3>1, <4>1, <4>3 DEF Adding
      <4>4. CASE u # t
        BY <2>2, <3>1, <4>1, <4>2, <4>4
      <4> QED
        BY <4>3, <4>4
    <3>2. \A u \in Senders : sender'[u].at # "out" => sender[u].at # "out"
      BY <2>1, <2>2
    <3>3. ~ overlapped =>
            \A u, v \in Senders : sender'[u].at # "out" /\ sender'[v].at # "out" => u = v
      BY <3>2 DEF OneAdds
    <3> QED
      BY <2>1, <3>1, <3>3 DEF OneAdds
  <2>5. RoomMade' /\ ReportedIsKept'
    BY <2>1, <2>2 DEF RoomMade, Undisturbed, ReportedIsKept, Rtps!ReportedIsKept, RtpsTypeOK
  <2> QED
    BY <2>3, <2>4, <2>5
<1> QED
  BY <1>1, <1>2

(* While a thread adds undisturbed, no other is at a step of adding. *)
LEMMA AddsAlone ==
  ASSUME OneAdds, Undisturbed, NEW t \in Senders, sender[t].at \in Adding,
         NEW u \in Senders, sender[u].at \in Adding
  PROVE  u = t
  BY DEF OneAdds, Undisturbed, Adding

(* add_change, the first and the second time. *)
LEMMA RtpsAddStep ==
  ASSUME RtpsInv, NEW t \in Senders, Rtps!AddChange(t) \/ Rtps!AddAgain(t)
  PROVE  RtpsInv'
<1> USE DEF RtpsInv
<1>1. /\ sender[t].at \in {"add", "again"} /\ sender[t].msg \in Nat
      /\ UNCHANGED <<kind, mutex, sent, reported, overlapped>>
  BY DEF Rtps!AddChange, Rtps!AddAgain, RtpsTypeOK
<1>2. \/ /\ Len(history) < MaximumReservedCaches
         /\ history' = Append(history, sender[t].msg)
         /\ added' = added \cup {sender[t].msg}
         /\ sender' = [sender EXCEPT ![t].at = "return"]
      \/ /\ ~ (Len(history) < MaximumReservedCaches)
         /\ UNCHANGED <<history, added>>
         /\ \/ sender[t].at = "add" /\ sender' = [sender EXCEPT ![t].at = "full"]
            \/ sender[t].at = "again" /\ sender' = [sender EXCEPT ![t].at = "return"]
  BY DEF Rtps!AddChange, Rtps!AddAgain, Rtps!AddOr
<1>3. /\ sender' \in [Senders -> [at : SenderSteps, msg : Nat]]
      /\ sender'[t].at \in {"full", "return"} /\ sender'[t].msg = sender[t].msg
      /\ \A u \in Senders \ {t} : sender'[u] = sender[u]
  BY <1>2, SenderMoves DEF SenderSteps
<1>4. history' \in Seq(Nat) /\ Len(history') <= MaximumReservedCaches
  <2>1. history \in Seq(Nat) /\ Len(history) <= MaximumReservedCaches
    BY DEF RtpsTypeOK
  <2>2. /\ Append(history, sender[t].msg) \in Seq(Nat)
        /\ Len(Append(history, sender[t].msg)) = Len(history) + 1
    BY <1>1, <2>1, AppendProperties
  <2> QED
    <3> DEFINE n == Len(history)
    <3>1. n \in Nat /\ MaximumReservedCaches \in Nat
      BY <2>1, RtpsConstants, LenProperties
    <3>2. Len(history') = n \/ (n < MaximumReservedCaches /\ Len(history') = n + 1)
      BY <1>2, <2>2
    <3>3. history' \in Seq(Nat)
      BY <1>2, <2>1, <2>2
    <3> HIDE DEF n
    <3>4. Len(history') <= MaximumReservedCaches
      BY <2>1, <3>1, <3>2 DEF n
    <3> QED
      BY <3>3, <3>4
<1>5. RtpsTypeOK'
  BY <1>1, <1>3, <1>4 DEF RtpsTypeOK
<1>6. OneAdds'
  <2>1. \A u \in Senders : /\ sender'[u].at \in Adding <=> sender[u].at \in Adding
                           /\ sender'[u].at = "out" <=> sender[u].at = "out"
    BY <1>1, <1>3 DEF Adding
  <2> QED
    BY <1>1, <2>1 DEF OneAdds
<1>7. RoomMade'
  <2> SUFFICES ASSUME Undisturbed', NEW u \in Senders
               PROVE  /\ sender'[u].at = "again" => Len(history') < MaximumReservedCaches
                      /\ sender'[u].at = "return" => sender'[u].msg \in added'
    BY DEF RoomMade
  <2>1. Undisturbed
    BY <1>1 DEF Undisturbed
  <2>2. CASE u = t
    <3>1. sender[t].at = "again" => Len(history) < MaximumReservedCaches
      BY <2>1 DEF RoomMade
    <3>2. CASE Len(history) < MaximumReservedCaches
      BY <1>2, <1>3, <2>2, <3>2
    <3>3. CASE ~ (Len(history) < MaximumReservedCaches)
      <4>1. sender' = [sender EXCEPT ![t].at = "full"]
        BY <1>2, <3>1, <3>3
      <4>2. sender'[t].at = "full"
        BY <4>1, SenderMoves DEF SenderSteps
      <4> QED
        BY <2>2, <4>2
    <3> QED
      BY <3>2, <3>3
  <2>3. CASE u # t
    <3>1. sender'[u] = sender[u] /\ sender[u].at # "again" /\ added \subseteq added'
      BY <1>1, <1>2, <1>3, <2>1, <2>3, AddsAlone DEF Adding
    <3> QED
      BY <2>1, <3>1 DEF RoomMade
  <2> QED
    BY <2>2, <2>3
<1>8. ReportedIsKept'
  BY <1>1, <1>2 DEF ReportedIsKept, Rtps!ReportedIsKept
<1> QED
  BY <1>5, <1>6, <1>7, <1>8

(* What is left of a history after remove_older_changes. *)
LEMMA OlderRemoved ==
  ASSUME NEW h \in Seq(Nat), Len(h) <= MaximumReservedCaches
  PROVE  /\ SubSeq(h, OlderChanges + 1, Len(h)) \in Seq(Nat)
         /\ Len(SubSeq(h, OlderChanges + 1, Len(h))) < MaximumReservedCaches
<1> DEFINE m == OlderChanges + 1
<1> DEFINE n == Len(h)
<1>1. m \in Nat /\ m >= 2 /\ n \in Nat /\ n <= MaximumReservedCaches
  BY RtpsConstants, LenProperties
<1>2. SubSeq(h, m, n) \in Seq(Nat)
      /\ Len(SubSeq(h, m, n)) = IF m <= n THEN n - m + 1 ELSE 0
  BY <1>1, SubSeqProperties
<1> QED
  BY <1>1, <1>2, RtpsConstants

(* The oldest changes give way, and there is room for one. *)
LEMMA RtpsRemoveStep ==
  ASSUME RtpsInv, NEW t \in Senders, Rtps!RemoveOlderChanges(t)
  PROVE  RtpsInv'
<1> USE DEF RtpsInv
<1>1. /\ sender[t].at = "full"
      /\ UNCHANGED <<kind, mutex, sent, added, reported, overlapped>>
  BY DEF Rtps!RemoveOlderChanges, Rtps!historyVars
<1>2. /\ sender' \in [Senders -> [at : SenderSteps, msg : Nat]]
      /\ sender'[t].at = "again" /\ \A u \in Senders \ {t} : sender'[u] = sender[u]
  BY SenderMoves DEF Rtps!RemoveOlderChanges, SenderSteps
<1>3. history' \in Seq(Nat) /\ Len(history') < MaximumReservedCaches
  BY OlderRemoved DEF Rtps!RemoveOlderChanges, RtpsTypeOK
<1>4. RtpsTypeOK'
  BY <1>1, <1>2, <1>3, RtpsConstants, LenProperties DEF RtpsTypeOK
<1>5. OneAdds'
  <2>1. kind' = "manager" => \A u \in Senders : sender'[u].at \in Adding <=> mutex' = u
    BY <1>1, <1>2 DEF OneAdds, RtpsTypeOK, Adding
  <2>2. \A u \in Senders : sender'[u].at # "out" => sender[u].at # "out"
    BY <1>1, <1>2
  <2>3. ~ overlapped' =>
          \A u, v \in Senders : sender'[u].at # "out" /\ sender'[v].at # "out" => u = v
    BY <1>1, <2>2, Zenon DEF OneAdds
  <2> QED
    BY <2>1, <2>3, Zenon DEF OneAdds
<1>6. RoomMade' /\ ReportedIsKept'
  BY <1>1, <1>2, <1>3 DEF RoomMade, Undisturbed, RtpsTypeOK, ReportedIsKept, Rtps!ReportedIsKept
<1> QED
  BY <1>4, <1>5, <1>6

(* Transmit or Write reports, and lets the mutex go. *)
LEMMA RtpsReturnStep ==
  ASSUME RtpsInv, NEW t \in Senders, Rtps!RtpsReturn(t)
  PROVE  RtpsInv'
<1> USE DEF RtpsInv
<1>1. /\ sender[t].at = "return" /\ mutex' = IF mutex = t THEN "free" ELSE mutex
      /\ reported' \subseteq reported \cup {sender[t].msg}
      /\ UNCHANGED <<kind, history, sent, added, overlapped>>
  BY DEF Rtps!RtpsReturn
<1>2. /\ sender' \in [Senders -> [at : SenderSteps, msg : Nat]]
      /\ sender'[t].at = "out" /\ \A u \in Senders \ {t} : sender'[u] = sender[u]
  BY SenderGoesOut DEF Rtps!RtpsReturn, Rtps!Out, SenderSteps
<1>3. RtpsTypeOK'
  BY <1>1, <1>2 DEF RtpsTypeOK
<1>4. OneAdds'
  BY <1>1, <1>2, RtpsConstants DEF OneAdds, RtpsTypeOK, Adding
<1>5. RoomMade' /\ ReportedIsKept'
  BY <1>1, <1>2 DEF RoomMade, Undisturbed, RtpsTypeOK, ReportedIsKept, Rtps!ReportedIsKept
<1> QED
  BY <1>3, <1>4, <1>5

(***************************************************************************)
(* What Manager::Write, or Transmit of threads that do not overlap,        *)
(* reports as sent is in the writer's history at the time, for any number  *)
(* of threads and any maximumReservedCaches: the history is full at most   *)
(* until remove_older_changes, and nobody fills it again before the second *)
(* add_change.                                                             *)
(***************************************************************************)
THEOREM ReportsKept == Rtps!RtpsSpec => []ReportedIsKept
<1>1. Rtps!RtpsInit => RtpsInv
  <2> SUFFICES ASSUME Rtps!RtpsInit
               PROVE  RtpsInv
    OBVIOUS
  <2> USE DEF Rtps!RtpsInit, Rtps!Out
  <2>1. history \in Seq(Nat) /\ Len(history) = 0
    BY EmptySeq
  <2>2. sender \in [Senders -> [at : SenderSteps, msg : Nat]]
    BY DEF SenderSteps
  <2>3. RtpsTypeOK
    <3>1. /\ kind \in {"transmitter", "manager"} /\ mutex = "free"
          /\ sent \in Nat /\ overlapped \in BOOLEAN
      OBVIOUS
    <3> HIDE DEF Rtps!RtpsInit
    <3> QED
      BY <2>1, <2>2, <3>1, RtpsConstants DEF RtpsTypeOK
  <2>4. OneAdds /\ RoomMade /\ ReportedIsKept
    BY RtpsConstants DEF OneAdds, RoomMade, ReportedIsKept, Rtps!ReportedIsKept, Adding
  <2> QED
    BY <2>3, <2>4 DEF RtpsInv
<1>2. RtpsInv /\ [Rtps!RtpsNext]_Rtps!rtpsVars => RtpsInv'
  <2> SUFFICES ASSUME RtpsInv, [Rtps!RtpsNext]_Rtps!rtpsVars
               PROVE  RtpsInv'
    OBVIOUS
  <2>1. CASE Rtps!RtpsNext
    BY <2>1, RtpsControlStep, RtpsBeginStep, RtpsAddStep, RtpsRemoveStep, RtpsReturnStep
       DEF Rtps!RtpsNext
  <2>2. CASE UNCHANGED Rtps!rtpsVars
    BY <2>2 DEF RtpsInv, RtpsTypeOK, OneAdds, RoomMade, Undisturbed, ReportedIsKept,
                Rtps!ReportedIsKept, Rtps!rtpsVars
  <2> QED
    BY <2>1, <2>2
<1>3. RtpsInv => ReportedIsKept
  BY DEF RtpsInv
<1> QED
  BY <1>1, <1>2, <1>3, PTL DEF Rtps!RtpsSpec

-----------------------------------------------------------------------------
(* The sockets of the multicast notifier (MulticastNotifier). *)

MultiTypeOK ==
  /\ DOMAIN file \subseteq 0 .. MaxFiles - 1
  /\ \A n \in DOMAIN file : file[n] \in {"notify", "listen", "other"}
  /\ notify_fd \in Int /\ listen_fd \in Int

(* A socket of the notifier is open under the number the notifier keeps    *)
(* for it and no other.  listen_fd_ is stale from close to its reset.      *)
OwnSockets ==
  /\ notify_fd # -1 => notify_fd \in DOMAIN file /\ file[notify_fd] = "notify"
  /\ listen_fd # -1 /\ at # "forget" => listen_fd \in DOMAIN file /\ file[listen_fd] = "listen"
  /\ \A n \in DOMAIN file :
       /\ file[n] = "notify" => n = notify_fd
       /\ file[n] = "listen" => n = listen_fd /\ at # "forget"

(* Which of the numbers are set at which step of Init and Shutdown. *)
NumbersSet ==
  /\ at = "notify" => notify_fd = -1 /\ listen_fd = -1
  /\ at = "listen" => listen_fd = -1
  /\ at \in {"closing", "forget", "down"} => notify_fd = -1
  /\ at = "down" => listen_fd = -1

MultiInv == MultiTypeOK /\ OwnSockets /\ NumbersSet

(* A file that is opened gets a number nobody has. *)
LEMMA OpenedIsNew ==
  ASSUME MultiTypeOK, NEW what, Multicast!Free # {}, Multicast!Opened(what)
  PROVE  LET n == Multicast!Min(Multicast!Free)
         IN  /\ n \in 0 .. MaxFiles - 1 /\ n \notin DOMAIN file
             /\ DOMAIN file' = DOMAIN file \cup {n}
             /\ file'[n] = what /\ \A m \in DOMAIN file : file'[m] = file[m]
<1> DEFINE n == Multicast!Min(Multicast!Free)
<1>1. n \in Multicast!Free
  <2>1. Multicast!Free \in SUBSET Nat
    BY MultiConstants DEF Multicast!Free
  <2> QED
    BY <2>1, Least DEF Multicast!Min
<1>2. n \in 0 .. MaxFiles - 1 /\ n \notin DOMAIN file
  BY <1>1 DEF Multicast!Free
<1>3. file' = [m \in DOMAIN file \cup {n} |-> IF m = n THEN what ELSE file[m]]
  BY DEF Multicast!Opened
<1> HIDE DEF n
<1>4. /\ DOMAIN file' = DOMAIN file \cup {n}
      /\ file'[n] = what /\ \A m \in DOMAIN file : file'[m] = file[m]
  BY <1>2, <1>3
<1> QED
  BY <1>2, <1>4 DEF n

(* Init opens a socket, or fails. *)
LEMMA MultiInitStep ==
  ASSUME MultiInv,
         Multicast!InitNotifySocket \/ Multicast!InitListenSocket \/ Multicast!InitOptions
  PROVE  MultiInv'
<1> USE DEF MultiInv
<1>1. CASE Multicast!InitNotifySocket
  <2>1. CASE Multicast!Free # {} /\ Multicast!Opened("notify")
             /\ notify_fd' = Multicast!Min(Multicast!Free) /\ at' = "listen"
    BY <1>1, <2>1, OpenedIsNew
       DEF Multicast!InitNotifySocket, MultiTypeOK, OwnSockets, NumbersSet
  <2>2. CASE at' = "failed" /\ UNCHANGED <<file, notify_fd>>
    BY <1>1, <2>2 DEF Multicast!InitNotifySocket, MultiTypeOK, OwnSockets, NumbersSet
  <2> QED
    BY <1>1, <2>1, <2>2 DEF Multicast!InitNotifySocket
<1>2. CASE Multicast!InitListenSocket
  <2>1. CASE Multicast!Free # {} /\ Multicast!Opened("listen")
             /\ listen_fd' = Multicast!Min(Multicast!Free) /\ at' = "options"
    BY <1>2, <2>1, OpenedIsNew
       DEF Multicast!InitListenSocket, MultiTypeOK, OwnSockets, NumbersSet
  <2>2. CASE at' = "failed" /\ UNCHANGED <<file, listen_fd>>
    BY <1>2, <2>2 DEF Multicast!InitListenSocket, MultiTypeOK, OwnSockets, NumbersSet
  <2> QED
    BY <1>2, <2>1, <2>2 DEF Multicast!InitListenSocket
<1>3. CASE Multicast!InitOptions
  BY <1>3 DEF Multicast!InitOptions, MultiTypeOK, OwnSockets, NumbersSet
<1> QED
  BY <1>1, <1>2, <1>3

(* Shutdown closes one socket, then the other. *)
LEMMA MultiShutdownStep ==
  ASSUME MultiInv,
         \/ Multicast!ShutdownBegin \/ Multicast!ShutdownNotify
         \/ Multicast!ShutdownListen \/ Multicast!ShutdownForget
  PROVE  MultiInv'
<1> USE DEF MultiInv, MultiTypeOK, OwnSockets, NumbersSet
<1>1. CASE Multicast!ShutdownBegin
  BY <1>1 DEF Multicast!ShutdownBegin
<1>2. CASE Multicast!ShutdownNotify
  <2>1. CASE notify_fd = -1
    BY <1>2, <2>1 DEF Multicast!ShutdownNotify
  <2>2. CASE notify_fd # -1
    <3>1. /\ at = "close" /\ at' = "closing" /\ notify_fd' = -1 /\ listen_fd' = listen_fd
      BY <1>2, <2>2 DEF Multicast!ShutdownNotify, Multicast!Closed
    <3>2. /\ DOMAIN file' = DOMAIN file \ {notify_fd}
          /\ \A n \in DOMAIN file \ {notify_fd} : file'[n] = file[n]
      BY <1>2, <2>2 DEF Multicast!ShutdownNotify, Multicast!Closed
    <3>3. MultiTypeOK' /\ NumbersSet'
      BY <3>1, <3>2
    <3>4. listen_fd # -1 => listen_fd \in DOMAIN file' /\ file'[listen_fd] = "listen"
      BY <2>2, <3>1, <3>2
    <3>5. \A n \in DOMAIN file' : /\ file'[n] # "notify"
                                  /\ file'[n] = "listen" => n = listen_fd
      BY <3>1, <3>2
    <3>6. OwnSockets'
      BY <3>1, <3>4, <3>5
    <3> QED
      BY <3>3, <3>6
  <2> QED
    BY <2>1, <2>2
<1>3. CASE Multicast!ShutdownListen
  BY <1>3 DEF Multicast!ShutdownListen, Multicast!Closed
<1>4. CASE Multicast!ShutdownForget
  BY <1>4 DEF Multicast!ShutdownForget
<1> QED
  BY <1>1, <1>2, <1>3, <1>4

(* Notify and Listen open and close nothing. *)
LEMMA MultiTalkStep ==
  ASSUME MultiInv,
         \/ \E i \in MCInfos : Multicast!Notify(i)
         \/ \E t \in Pollers : Multicast!Listen(t) \/ Multicast!Poll(t) \/ Multicast!Receive(t)
  PROVE  MultiInv'
<1>1. UNCHANGED <<file, notify_fd, listen_fd, at>>
  BY DEF Multicast!Notify, Multicast!Listen, Multicast!Poll, Multicast!Receive
<1> QED
  BY <1>1 DEF MultiInv, MultiTypeOK, OwnSockets, NumbersSet

(* The rest of the process opens and closes files of its own. *)
LEMMA MultiOtherStep ==
  ASSUME MultiInv, Multicast!OtherOpen \/ Multicast!OtherClose
  PROVE  MultiInv'
<1> USE DEF MultiInv
<1>1. CASE Multicast!OtherOpen
  BY <1>1, OpenedIsNew DEF Multicast!OtherOpen, MultiTypeOK, OwnSockets, NumbersSet
<1>2. CASE Multicast!OtherClose
  BY <1>2 DEF Multicast!OtherClose, Multicast!Closed, MultiTypeOK, OwnSockets, NumbersSet
<1> QED
  BY <1>1, <1>2

(***************************************************************************)
(* Whatever step of MulticastNotifier::Init failed, Shutdown leaves none   *)
(* of its sockets open and closes no file of the rest of the process, for  *)
(* any number of files and of threads in Listen.                           *)
(***************************************************************************)
THEOREM SocketsAreClosed == Multicast!MultiSpec => []SocketsClosed
<1>1. Multicast!MultiInit => MultiInv
  BY DEF Multicast!MultiInit, MultiInv, MultiTypeOK, OwnSockets, NumbersSet
<1>2. MultiInv /\ [Multicast!MultiNext]_Multicast!multiVars => MultiInv'
  <2> SUFFICES ASSUME MultiInv, [Multicast!MultiNext]_Multicast!multiVars
               PROVE  MultiInv'
    OBVIOUS
  <2>1. CASE Multicast!MultiNext
    BY <2>1, MultiInitStep, MultiShutdownStep, MultiTalkStep, MultiOtherStep
       DEF Multicast!MultiNext
  <2>2. CASE UNCHANGED Multicast!multiVars
    BY <2>2 DEF MultiInv, MultiTypeOK, OwnSockets, NumbersSet, Multicast!multiVars
  <2> QED
    BY <2>1, <2>2
<1>3. MultiInv => SocketsClosed
  <2> SUFFICES ASSUME MultiInv
               PROVE  SocketsClosed
    OBVIOUS
  <2>1. ASSUME at = "down", NEW n \in DOMAIN file
        PROVE  file[n] \notin {"notify", "listen"}
    BY <2>1, MultiConstants DEF MultiInv, MultiTypeOK, OwnSockets, NumbersSet
  <2> QED
    BY <2>1 DEF SocketsClosed, Multicast!SocketsClosed, MultiInv, MultiTypeOK, OwnSockets
<1> QED
  BY <1>1, <1>2, <1>3, PTL DEF Multicast!MultiSpec

-----------------------------------------------------------------------------
(* The life of a segment (SegmentLifecycle). *)

Sizes == {16, 128, 1024, 8192, 16384, 32768}

(* The steps at which an object may be attached, those at which it is, and *)
(* those at which it creates a segment.                                    *)
UsingSteps == {"flag", "fit", "write", "range", "stale", "read"}
InitSteps == UsingSteps \cup {"idle"}
CreatingSteps == {"truncate", "build"}
MappedSteps == {"truncate", "build", "increase", "counted", "unlink"}
LifeSteps == {"idle", "flag", "fit", "write", "range", "stale", "read", "truncate", "build",
              "increase", "counted", "create", "open", "refused", "misfit", "remove", "unlink"}
ThenSteps == {"idle", "flag", "fit", "write", "range", "read"}

LifeTypeOK ==
  /\ made \in 0 .. MaxSegments /\ key \in 0 .. made
  /\ ceiling \in [Life!Segments -> Sizes \cup {0}]
  /\ reference_count \in [Life!Segments -> Nat] /\ lost \in [Life!Segments -> Nat]
  /\ need_remap \in [Life!Segments -> BOOLEAN]
  /\ early \subseteq 1 .. made
  /\ init \in [Processes -> BOOLEAN] /\ conf \in [Processes -> Sizes]
  /\ mapped \in [Processes -> 0 .. made]
  /\ life_pc \in [Processes -> LifeSteps] /\ then \in [Processes -> ThenSteps]
  /\ arg \in [Processes -> Nat]

(* Where an object is attached, and which steps need a segment. *)
Attachment ==
  \A p \in Processes :
    /\ init[p] => mapped[p] # 0 /\ life_pc[p] \in InitSteps
    /\ life_pc[p] \in UsingSteps => init[p]
    /\ life_pc[p] \in MappedSteps => mapped[p] # 0

(* Until its State is built a segment has its creator only, except if it   *)
(* was opened early.                                                       *)
Unbuilt ==
  /\ \A p \in Processes : life_pc[p] \in CreatingSteps => ceiling[mapped[p]] = 0
  /\ \A p, q \in Processes :
       life_pc[p] \in CreatingSteps /\ life_pc[q] \in CreatingSteps /\ mapped[p] = mapped[q]
         => p = q
  /\ \A s \in Life!Segments :
       ceiling[s] = 0 /\ s \notin early =>
         /\ lost[s] = 0 /\ ~ need_remap[s]
         /\ \A p \in Processes : mapped[p] = s => life_pc[p] \in CreatingSteps
  /\ \A s \in Life!Segments : s > made => ceiling[s] = 0

Users(s) == {p \in Processes : init[p] /\ mapped[p] = s}

(* Every segment counts its users, whether it still has the key or not; a *)
(* flagged one may count objects that were remapped, too.                  *)
UsersCounted ==
  \A s \in Life!Segments :
    s \notin early =>
      /\ reference_count[s] >= lost[s] + Cardinality(Users(s))
      /\ ~ need_remap[s] => reference_count[s] = lost[s] + Cardinality(Users(s))

(* An object's idea of the layout is that of its segment, and a reader has *)
(* compared its index with it.                                             *)
LaidOut ==
  \A p \in Processes :
    /\ (init[p] \/ life_pc[p] = "increase") /\ mapped[p] \notin early => conf[p] = ceiling[mapped[p]]
    /\ life_pc[p] = "stale" \/ (life_pc[p] = "read" /\ then[p] # "read") =>
         arg[p] < Life!GetBlockNum(conf[p])

LifeInv == LifeTypeOK /\ Attachment /\ Unbuilt /\ UsersCounted /\ LaidOut

-----------------------------------------------------------------------------
(* GetCeilingMessageSize. *)

LEMMA ClassSizes ==
  /\ Life!SizeClasses[1] = 16 /\ Life!SizeClasses[2] = 128 /\ Life!SizeClasses[3] = 1024
  /\ Life!SizeClasses[4] = 8192 /\ Life!SizeClasses[5] = 16384 /\ Life!SizeClasses[6] = 32768
  BY DEF Life!SizeClasses

LEMMA ClassIndexes == \A i \in 1 .. 6 : i \in {1, 2, 3, 4, 5, 6}
  OBVIOUS

Fits(n, i) == n <= Life!SizeClasses[i] /\ \A j \in 1 .. i - 1 : n > Life!SizeClasses[j]

(* A size that some class holds has a smallest class that holds it. *)
LEMMA SmallestClass ==
  ASSUME NEW n \in Nat, \E i \in 1 .. 6 : n <= Life!SizeClasses[i]
  PROVE  \E i \in 1 .. 6 : Fits(n, i)
<1> DEFINE S == {i \in 1 .. 6 : n <= Life!SizeClasses[i]}
<1>1. PICK i \in S : \A j \in S : i <= j
  <2>1. S \in SUBSET Nat /\ S # {}
    OBVIOUS
  <2> HIDE DEF S
  <2> QED
    BY <2>1, Least
<1>2. \A j \in 1 .. 6 : Life!SizeClasses[j] \in Int
  BY ClassSizes, ClassIndexes
<1>3. \A j \in 1 .. i - 1 : j \in 1 .. 6 /\ j \notin S
  BY <1>1
<1> QED
  BY <1>1, <1>2, <1>3 DEF Fits

(* The result is a class, and a class is its own. *)
LEMMA CeilingIsClass ==
  /\ \A n \in Nat : Life!GetCeilingMessageSize(n) \in Sizes
  /\ \A n \in Sizes : Life!GetCeilingMessageSize(n) = n
<1>1. ASSUME NEW n \in Nat, \E i \in 1 .. 6 : n <= Life!SizeClasses[i]
      PROVE  \E i \in 1 .. 6 : Fits(n, i) /\ Life!GetCeilingMessageSize(n) = Life!SizeClasses[i]
  <2> DEFINE i == CHOOSE i \in 1 .. 6 : Fits(n, i)
  <2>1. i \in 1 .. 6 /\ Fits(n, i)
    BY <1>1, SmallestClass
  <2>2. Life!GetCeilingMessageSize(n) = Life!SizeClasses[i]
    BY <1>1 DEF Life!GetCeilingMessageSize, Fits
  <2> HIDE DEF i
  <2> QED
    BY <2>1, <2>2
<1>2. ASSUME NEW n \in Nat PROVE Life!GetCeilingMessageSize(n) \in Sizes
  <2>1. CASE \E i \in 1 .. 6 : n <= Life!SizeClasses[i]
    BY <1>1, <2>1, ClassSizes, ClassIndexes DEF Sizes
  <2>2. CASE ~ \E i \in 1 .. 6 : n <= Life!SizeClasses[i]
    BY <2>2, ClassSizes DEF Life!GetCeilingMessageSize, Sizes
  <2> QED
    BY <2>1, <2>2
<1>3. ASSUME NEW n \in Sizes PROVE Life!GetCeilingMessageSize(n) = n
  <2>1. n \in Nat /\ \E i \in 1 .. 6 : n = Life!SizeClasses[i]
    BY ClassSizes DEF Sizes
  <2>2. PICK i \in 1 .. 6 : Fits(n, i) /\ Life!GetCeilingMessageSize(n) = Life!SizeClasses[i]
    BY <1>1, <2>1
  <2>3. Life!SizeClasses[i] = n
    BY <2>1, <2>2, ClassSizes, ClassIndexes DEF Fits
  <2> QED
    BY <2>2, <2>3
<1> QED
  BY <1>2, <1>3

-----------------------------------------------------------------------------
(* Users of a segment are counted one at a time. *)
LEMMA UsersFinite ==
  ASSUME NEW s
  PROVE  IsFiniteSet(Users(s)) /\ Cardinality(Users(s)) \in Nat
<1>1. IsFiniteSet(Users(s))
  BY LifeConstants, FS_Subset DEF Users
<1> QED
  BY <1>1, FS_CardinalityType

LEMMA MappedIsMade ==
  ASSUME LifeInv, NEW p \in Processes, mapped[p] # 0
  PROVE  mapped[p] \in Life!Segments /\ mapped[p] \in 1 .. made
<1>1. made \in 0 .. MaxSegments /\ mapped[p] \in 0 .. made
  BY DEF LifeInv, LifeTypeOK
<1> QED
  BY <1>1, LifeConstants DEF Life!Segments

(* A step of one object that attaches and detaches nothing. *)
LEMMA LifeLocal ==
  ASSUME LifeInv, NEW p \in Processes, NEW x \in LifeSteps,
         life_pc' = [life_pc EXCEPT ![p] = x],
         UNCHANGED <<made, ceiling, reference_count, need_remap, early, lost, init, mapped>>,
         key' \in {0, key},
         then' \in [Processes -> ThenSteps], arg' \in [Processes -> Nat],
         conf' \in [Processes -> Sizes], init[p] => conf'[p] = conf[p],
         \A q \in Processes \ {p} :
           then'[q] = then[q] /\ arg'[q] = arg[q] /\ conf'[q] = conf[q],
         life_pc[p] \notin CreatingSteps, x \notin MappedSteps,
         init[p] => x \in InitSteps, x \in UsingSteps => init[p],
         x = "stale" \/ (x = "read" /\ then'[p] # "read") => arg'[p] < Life!GetBlockNum(conf'[p])
  PROVE  LifeInv'
<1> USE DEF LifeInv
<1>1. life_pc' \in [Processes -> LifeSteps] /\ life_pc'[p] = x
      /\ \A q \in Processes \ {p} : life_pc'[q] = life_pc[q]
  BY DEF LifeTypeOK
<1>2. LifeTypeOK'
  BY <1>1 DEF LifeTypeOK
<1>3. Attachment'
  BY <1>1 DEF Attachment
<1>4. Unbuilt'
  BY <1>1 DEF Unbuilt, CreatingSteps, MappedSteps
<1>5. UsersCounted'
  BY DEF UsersCounted, Users
<1>6. LaidOut'
  BY <1>1 DEF LaidOut, MappedSteps
<1> QED
  BY <1>2, <1>3, <1>4, <1>5, <1>6

(* A step that detaches an object, or restarts its process. *)
LEMMA LifeDetach ==
  ASSUME LifeInv, NEW p \in Processes, NEW x \in LifeSteps,
         life_pc' = [life_pc EXCEPT ![p] = x], x \notin MappedSteps \cup UsingSteps,
         init' = [init EXCEPT ![p] = FALSE], mapped' = [mapped EXCEPT ![p] = 0],
         UNCHANGED <<made, ceiling, reference_count, early, arg>>,
         key' \in {0, key},
         then' \in [Processes -> ThenSteps], conf' \in [Processes -> Sizes],
         \A q \in Processes \ {p} : then'[q] = then[q] /\ conf'[q] = conf[q],
         need_remap' \in [Life!Segments -> BOOLEAN], lost' \in [Life!Segments -> Nat],
         \A s \in Life!Segments :
           ceiling[s] = 0 /\ s \notin early => lost'[s] = lost[s] /\ need_remap'[s] = need_remap[s],
         UsersCounted'
  PROVE  LifeInv'
<1> USE DEF LifeInv
<1>1. /\ life_pc' \in [Processes -> LifeSteps] /\ life_pc'[p] = x
      /\ init' \in [Processes -> BOOLEAN] /\ init'[p] = FALSE
      /\ mapped' \in [Processes -> 0 .. made] /\ mapped'[p] = 0
      /\ \A q \in Processes \ {p} :
           life_pc'[q] = life_pc[q] /\ init'[q] = init[q] /\ mapped'[q] = mapped[q]
  BY DEF LifeTypeOK
<1>2. LifeTypeOK'
  BY <1>1 DEF LifeTypeOK
<1>3. Attachment'
  BY <1>1 DEF Attachment
<1>4. Unbuilt'
  BY <1>1 DEF Unbuilt, CreatingSteps, MappedSteps, Life!Segments
<1>5. LaidOut'
  BY <1>1 DEF LaidOut, MappedSteps, UsingSteps
<1> QED
  BY <1>2, <1>3, <1>4, <1>5

(* The calls of OpenOnly and OpenOrCreate that fail or try again. *)
LEMMA LifeRetryStep ==
  ASSUME LifeInv, NEW p \in Processes,
         \/ Life!CreateExists(p) \/ Life!CreateRefused(p) \/ Life!RemoveRefused(p)
         \/ Life!CreateGivesUp(p) \/ Life!OpenFails(p)
  PROVE  LifeInv'
<1>1. /\ UNCHANGED <<made, ceiling, reference_count, need_remap, early, lost, init, conf,
                      mapped, then, arg>>
      /\ key' \in {0, key} /\ life_pc[p] \in {"create", "refused", "open"}
      /\ \E x \in {"open", "refused", "create", "misfit", "idle"} :
            life_pc' = [life_pc EXCEPT ![p] = x]
  BY DEF Life!CreateExists, Life!CreateRefused, Life!RemoveRefused, Life!CreateGivesUp,
         Life!OpenFails, Life!Jump, Life!Failed, Life!FailNow, Life!Remove, Life!segmentVars,
         Life!processVars, Life!historyVars
<1>2. ~ init[p]
  BY <1>1 DEF LifeInv, Attachment, InitSteps, UsingSteps
<1>3. /\ then' \in [Processes -> ThenSteps] /\ arg' \in [Processes -> Nat]
      /\ conf' \in [Processes -> Sizes]
  BY <1>1 DEF LifeInv, LifeTypeOK
<1>4. PICK x \in {"open", "refused", "create", "misfit", "idle"} :
        life_pc' = [life_pc EXCEPT ![p] = x]
  BY <1>1
<1>5. x \in LifeSteps \ (MappedSteps \cup UsingSteps) /\ x \notin {"stale", "read"}
      /\ life_pc[p] \notin CreatingSteps
  BY <1>1 DEF LifeSteps, MappedSteps, UsingSteps, CreatingSteps
<1> QED
  BY <1>1, <1>2, <1>3, <1>4, <1>5, LifeLocal

(* The start of AcquireBlockToWrite and AcquireBlockToRead. *)
LEMMA LifeAcquireStep ==
  ASSUME LifeInv, NEW p \in Processes,
         Life!AcquireBlockToWrite(p) \/ Life!AcquireBlockToRead(p)
  PROVE  LifeInv'
<1>1. PICK to \in {"flag", "range"}, a \in Nat : Life!Acquire(p, to, a)
  BY LifeConstants DEF Life!AcquireBlockToWrite, Life!AcquireBlockToRead
<1>2. PICK x : x = IF init[p] THEN to ELSE "create"
  OBVIOUS
<1>3. /\ UNCHANGED <<key, made, ceiling, reference_count, need_remap, early, lost, init, conf, mapped>>
      /\ life_pc[p] = "idle" /\ life_pc' = [life_pc EXCEPT ![p] = x]
      /\ then' = [then EXCEPT ![p] = to] /\ arg' = [arg EXCEPT ![p] = a]
  BY <1>1, <1>2 DEF Life!Acquire, Life!Jump, Life!segmentVars, Life!processVars
<1>4. /\ then' \in [Processes -> ThenSteps] /\ arg' \in [Processes -> Nat]
      /\ conf' \in [Processes -> Sizes]
      /\ \A q \in Processes \ {p} : then'[q] = then[q] /\ arg'[q] = arg[q]
  BY <1>3 DEF LifeInv, LifeTypeOK, ThenSteps
<1>5. /\ x \in LifeSteps \ MappedSteps /\ x \notin {"stale", "read"}
      /\ life_pc[p] \notin CreatingSteps
      /\ init[p] => x \in InitSteps
      /\ x \in UsingSteps => init[p]
  BY <1>2, <1>3 DEF LifeSteps, MappedSteps, UsingSteps, InitSteps, CreatingSteps
<1> QED
  BY <1>3, <1>4, <1>5, LifeLocal

(* The steps of an object that only compare, or use a block. *)
LEMMA LifeUseStep ==
  ASSUME LifeInv, NEW p \in Processes,
         Life!WriteFitsAlready(p) \/ Life!CheckIndex(p) \/ Life!UseBlock(p)
  PROVE  LifeInv'
<1>1. /\ UNCHANGED <<made, ceiling, reference_count, need_remap, early, lost, init, conf,
                      mapped, then, arg>>
      /\ key' \in {0, key}
      /\ \E x \in LifeSteps :
           /\ life_pc' = [life_pc EXCEPT ![p] = x]
           /\ \/ life_pc[p] = "fit" /\ x = "write"
              \/ life_pc[p] \in {"misfit", "write", "read", "range"} /\ x = "idle"
              \/ life_pc[p] = "range" /\ x = "stale" /\ arg[p] < Life!GetBlockNum(conf[p])
  BY DEF Life!WriteFitsAlready, Life!CheckIndex, Life!UseBlock, Life!Jump,
         Life!segmentVars, Life!processVars, Life!historyVars, LifeSteps
<1>2. PICK x \in LifeSteps :
           /\ life_pc' = [life_pc EXCEPT ![p] = x]
           /\ \/ life_pc[p] = "fit" /\ x = "write"
              \/ life_pc[p] \in {"misfit", "write", "read", "range"} /\ x = "idle"
              \/ life_pc[p] = "range" /\ x = "stale" /\ arg[p] < Life!GetBlockNum(conf[p])
  BY <1>1
<1>3. /\ then' \in [Processes -> ThenSteps] /\ arg' \in [Processes -> Nat]
      /\ conf' \in [Processes -> Sizes]
  BY <1>1 DEF LifeInv, LifeTypeOK
<1>4. /\ x \notin MappedSteps /\ life_pc[p] \notin CreatingSteps
      /\ init[p] => x \in InitSteps
      /\ x \in UsingSteps => init[p]
      /\ x = "stale" \/ (x = "read" /\ then'[p] # "read") => arg'[p] < Life!GetBlockNum(conf[p])
  BY <1>1, <1>2 DEF MappedSteps, UsingSteps, InitSteps, CreatingSteps, LifeInv, Attachment
<1> QED
  BY <1>1, <1>2, <1>3, <1>4, LifeLocal

(* Who uses a segment, once p does not. *)
LEMMA UsersWithout ==
  ASSUME LifeInv, NEW p \in Processes,
         init' = [init EXCEPT ![p] = FALSE], mapped' = [mapped EXCEPT ![p] = 0]
  PROVE  /\ \A s \in Life!Segments : Users(s)' = Users(s) \ {p}
         /\ ~ init[p] => \A s \in Life!Segments : Users(s)' = Users(s)
         /\ \A s \in Life!Segments \ {mapped[p]} : Users(s)' = Users(s)
         /\ \A s \in Life!Segments : /\ Cardinality(Users(s)') \in Nat
                                     /\ Cardinality(Users(s)') <= Cardinality(Users(s))
<1>1. /\ \A s \in Life!Segments : Users(s)' = Users(s) \ {p}
      /\ ~ init[p] => \A s \in Life!Segments : Users(s)' = Users(s)
      /\ \A s \in Life!Segments \ {mapped[p]} : Users(s)' = Users(s)
  BY DEF LifeInv, LifeTypeOK, Users, Life!Segments
<1>2. ASSUME NEW s \in Life!Segments
      PROVE  /\ Cardinality(Users(s)') \in Nat
             /\ Cardinality(Users(s)') <= Cardinality(Users(s))
  BY <1>1, UsersFinite, FS_Subset, FS_CardinalityType
<1> QED
  BY <1>1, <1>2

(* Failing to create a segment, and reading the count in Destory, when the *)
(* object is not attached any more.                                        *)
LEMMA LifeGiveUpStep ==
  ASSUME LifeInv, NEW p \in Processes,
         Life!Truncate(p) \/ Life!BuildFails(p) \/ Life!DestoryRead(p) \/ Life!DestoryRemove(p),
         mapped' = [mapped EXCEPT ![p] = 0]
  PROVE  LifeInv'
<1>1. /\ UNCHANGED <<made, ceiling, reference_count, need_remap, early, lost, init, arg, then>>
      /\ key' \in {0, key} /\ life_pc[p] \in {"truncate", "build", "counted", "unlink"}
  BY DEF Life!Truncate, Life!BuildFails, Life!DestoryRead, Life!DestoryRemove, Life!segmentVars,
         Life!processVars, Life!Jump, Life!Remove
<1>2. ~ init[p] /\ mapped[p] # 0
  BY <1>1 DEF LifeInv, Attachment, InitSteps, UsingSteps, MappedSteps
<1>3. init' = [init EXCEPT ![p] = FALSE]
  BY <1>1, <1>2 DEF LifeInv, LifeTypeOK
<1>4. \E x \in {"misfit", "idle"} : life_pc' = [life_pc EXCEPT ![p] = x]
  <2>1. CASE Life!Truncate(p)
    <3>1. mapped' # mapped
      BY <1>2 DEF LifeInv, LifeTypeOK
    <3> QED
      BY <2>1, <3>1 DEF Life!Truncate, Life!Failed
  <2>2. CASE Life!BuildFails(p)
    BY <2>2 DEF Life!BuildFails, Life!Failed
  <2>3. CASE Life!DestoryRead(p)
    <3>1. mapped' # mapped
      BY <1>2 DEF LifeInv, LifeTypeOK
    <3> QED
      BY <2>3, <3>1 DEF Life!DestoryRead, Life!Jump
  <2>4. CASE Life!DestoryRemove(p)
    BY <2>4 DEF Life!DestoryRemove, Life!Jump
  <2> QED
    BY <2>1, <2>2, <2>3, <2>4
<1>5. conf' \in [Processes -> Sizes] /\ \A q \in Processes \ {p} : conf'[q] = conf[q]
  BY CeilingIsClass
     DEF Life!Truncate, Life!BuildFails, Life!DestoryRead, Life!DestoryRemove, LifeInv, LifeTypeOK
<1>6. UsersCounted'
  BY <1>1, <1>2, <1>3, UsersWithout DEF LifeInv, UsersCounted
<1>7. PICK x \in {"misfit", "idle"} : life_pc' = [life_pc EXCEPT ![p] = x]
  BY <1>4
<1>8. x \in LifeSteps /\ x \notin MappedSteps \cup UsingSteps
  BY DEF LifeSteps, MappedSteps, UsingSteps
<1>9. /\ then' \in [Processes -> ThenSteps]
      /\ need_remap' \in [Life!Segments -> BOOLEAN] /\ lost' \in [Life!Segments -> Nat]
  BY <1>1 DEF LifeInv, LifeTypeOK
<1> QED
  BY <1>1, <1>3, <1>5, <1>6, <1>7, <1>8, <1>9, LifeDetach

(* Reading a count of zero in Destory. *)
LEMMA LifeReadZeroStep ==
  ASSUME LifeInv, NEW p \in Processes, Life!DestoryRead(p), UNCHANGED mapped
  PROVE  LifeInv'
<1> USE DEF LifeInv
<1>1. /\ life_pc[p] = "counted" /\ mapped' # [mapped EXCEPT ![p] = 0]
      /\ conf' = [conf EXCEPT ![p] = Life!GetCeilingMessageSize(16)]
      /\ UNCHANGED <<key, made, ceiling, reference_count, need_remap, init, then, arg, early, lost>>
  <2>1. life_pc[p] = "counted"
    BY DEF Life!DestoryRead
  <2>2. mapped[p] # 0
    BY <2>1 DEF Attachment, MappedSteps
  <2>3. mapped' # [mapped EXCEPT ![p] = 0]
    BY <2>2 DEF LifeTypeOK
  <2> QED
    BY <2>1, <2>3 DEF Life!DestoryRead, Life!segmentVars
<1>2. life_pc' = [life_pc EXCEPT ![p] = "unlink"]
  BY <1>1 DEF Life!DestoryRead, Life!Jump
<1>3. /\ life_pc' \in [Processes -> LifeSteps] /\ life_pc'[p] = "unlink"
      /\ conf' \in [Processes -> Sizes]
      /\ \A q \in Processes \ {p} : life_pc'[q] = life_pc[q] /\ conf'[q] = conf[q]
  BY <1>1, <1>2, CeilingIsClass DEF LifeTypeOK, LifeSteps
<1>4. ~ init[p] /\ mapped[p] # 0
  BY <1>1 DEF Attachment, InitSteps, UsingSteps, MappedSteps
<1>5. LifeTypeOK'
  BY <1>1, <1>3 DEF LifeTypeOK
<1>6. Attachment'
  BY <1>1, <1>3, <1>4 DEF Attachment, UsingSteps
<1>7. Unbuilt'
  BY <1>1, <1>3 DEF Unbuilt, CreatingSteps
<1>8. UsersCounted'
  BY <1>1 DEF UsersCounted, Users
<1>9. LaidOut'
  BY <1>1, <1>3, <1>4 DEF LaidOut
<1> QED
  BY <1>5, <1>6, <1>7, <1>8, <1>9

(* Remap leaves a segment that is flagged, and keeps its reference there. *)
LEMMA LifeRemapStep ==
  ASSUME LifeInv, NEW p \in Processes, Life!WriterRemap(p) \/ Life!ReaderRemap(p)
  PROVE  LifeInv'
<1>1. PICK from \in {"flag", "stale"}, to \in {"fit", "read"} :
        /\ Life!RemapIfNeeded(p, from, to)
        /\ from = "stale" <=> to = "read"
  BY DEF Life!WriterRemap, Life!ReaderRemap
<1>2. /\ life_pc[p] = from /\ init[p]
      /\ UNCHANGED <<key, made, ceiling, reference_count, need_remap, early, lost, conf, arg>>
  BY <1>1 DEF Life!RemapIfNeeded, Life!segmentVars, Life!historyVars, LifeInv, Attachment,
              UsingSteps
<1>3. /\ arg' \in [Processes -> Nat] /\ conf' \in [Processes -> Sizes]
      /\ need_remap' \in [Life!Segments -> BOOLEAN] /\ lost' \in [Life!Segments -> Nat]
  BY <1>2 DEF LifeInv, LifeTypeOK
<1>4. CASE need_remap[mapped[p]]
  <2>1. /\ life_pc' = [life_pc EXCEPT ![p] = "open"]
        /\ mapped' = [mapped EXCEPT ![p] = 0] /\ init' = [init EXCEPT ![p] = FALSE]
        /\ then' = [then EXCEPT ![p] = to]
    BY <1>1, <1>4 DEF Life!RemapIfNeeded, Life!Jump
  <2>2. UsersCounted'
    <3> SUFFICES ASSUME NEW s \in Life!Segments, s \notin early
                 PROVE  /\ reference_count[s] >= lost[s] + Cardinality(Users(s)')
                        /\ ~ need_remap[s] => reference_count[s] = lost[s] + Cardinality(Users(s)')
      BY <1>2 DEF UsersCounted
    <3>1. /\ reference_count[s] >= lost[s] + Cardinality(Users(s))
          /\ ~ need_remap[s] => reference_count[s] = lost[s] + Cardinality(Users(s))
          /\ reference_count[s] \in Nat /\ lost[s] \in Nat /\ Cardinality(Users(s)) \in Nat
      BY UsersFinite DEF LifeInv, UsersCounted, LifeTypeOK
    <3>2. /\ Cardinality(Users(s)') \in Nat /\ Cardinality(Users(s)') <= Cardinality(Users(s))
          /\ s # mapped[p] => Users(s)' = Users(s)
      BY <2>1, UsersWithout
    <3> QED
      BY <1>4, <3>1, <3>2
  <2>3. then' \in [Processes -> ThenSteps] /\ \A q \in Processes \ {p} : then'[q] = then[q]
    BY <2>1 DEF LifeInv, LifeTypeOK, ThenSteps
  <2>4. "open" \in LifeSteps /\ "open" \notin MappedSteps \cup UsingSteps
    BY DEF LifeSteps, MappedSteps, UsingSteps
  <2> QED
    BY <1>2, <1>3, <2>1, <2>2, <2>3, <2>4, LifeDetach
<1>5. CASE ~ need_remap[mapped[p]]
  <2>1. /\ life_pc' = [life_pc EXCEPT ![p] = to]
        /\ UNCHANGED <<mapped, init, then>>
    BY <1>1, <1>5 DEF Life!RemapIfNeeded, Life!Jump
  <2>2. to = "read" => arg[p] < Life!GetBlockNum(conf[p])
    BY <1>1, <1>2 DEF LifeInv, LaidOut
  <2>3. /\ to \in LifeSteps \ MappedSteps /\ to \in UsingSteps /\ to \in InitSteps
        /\ life_pc[p] \notin CreatingSteps /\ then' \in [Processes -> ThenSteps]
    BY <1>2, <2>1 DEF LifeSteps, MappedSteps, UsingSteps, InitSteps, CreatingSteps, LifeInv, LifeTypeOK
  <2> QED
    BY <1>2, <1>3, <2>1, <2>2, <2>3, LifeLocal
<1> QED
  BY <1>4, <1>5

(* Recreate flags the segment and leaves it; then it removes the key. *)
LEMMA LifeRecreateStep ==
  ASSUME LifeInv, NEW p \in Processes, Life!Recreate(p) \/ Life!RecreateRemove(p)
  PROVE  LifeInv'
<1>1. CASE Life!Recreate(p)
  <2>1. /\ life_pc' = [life_pc EXCEPT ![p] = "remove"]
        /\ mapped' = [mapped EXCEPT ![p] = 0] /\ init' = [init EXCEPT ![p] = FALSE]
        /\ need_remap' = [need_remap EXCEPT ![mapped[p]] = TRUE]
        /\ UNCHANGED <<key, made, ceiling, reference_count, conf, then, arg, early, lost>>
    BY <1>1 DEF Life!Recreate, Life!Jump, Life!historyVars
  <2>2. /\ need_remap' \in [Life!Segments -> BOOLEAN]
        /\ \A s \in Life!Segments : ~ need_remap'[s] => ~ need_remap[s] /\ s # mapped[p]
    BY <2>1 DEF LifeInv, LifeTypeOK
  <2>3. UsersCounted'
    <3> SUFFICES ASSUME NEW s \in Life!Segments, s \notin early
                 PROVE  /\ reference_count[s] >= lost[s] + Cardinality(Users(s)')
                        /\ ~ need_remap'[s] => reference_count[s] = lost[s] + Cardinality(Users(s)')
      BY <2>1 DEF UsersCounted
    <3>1. /\ reference_count[s] >= lost[s] + Cardinality(Users(s))
          /\ ~ need_remap[s] => reference_count[s] = lost[s] + Cardinality(Users(s))
          /\ reference_count[s] \in Nat /\ lost[s] \in Nat /\ Cardinality(Users(s)) \in Nat
      BY UsersFinite DEF LifeInv, UsersCounted, LifeTypeOK
    <3>2. /\ Cardinality(Users(s)') \in Nat /\ Cardinality(Users(s)') <= Cardinality(Users(s))
          /\ s # mapped[p] => Users(s)' = Users(s)
      BY <2>1, UsersWithout
    <3> QED
      BY <2>2, <3>1, <3>2
  <2>6. \A s \in Life!Segments :
          ceiling[s] = 0 /\ s \notin early => lost'[s] = lost[s] /\ need_remap'[s] = need_remap[s]
    <3>1. init[p] /\ life_pc[p] \notin CreatingSteps
      BY <1>1 DEF Life!Recreate, Life!Jump, LifeInv, Attachment, UsingSteps, CreatingSteps
    <3>2. \A s \in Life!Segments : ceiling[s] = 0 /\ s \notin early => mapped[p] # s
      BY <3>1 DEF LifeInv, Unbuilt
    <3> QED
      BY <2>1, <3>2 DEF LifeInv, LifeTypeOK
  <2>4. /\ then' \in [Processes -> ThenSteps] /\ conf' \in [Processes -> Sizes]
        /\ lost' \in [Life!Segments -> Nat]
    BY <2>1 DEF LifeInv, LifeTypeOK
  <2>5. "remove" \in LifeSteps /\ "remove" \notin MappedSteps \cup UsingSteps
    BY DEF LifeSteps, MappedSteps, UsingSteps
  <2> QED
    BY <2>1, <2>2, <2>3, <2>4, <2>5, <2>6, LifeDetach
<1>2. CASE Life!RecreateRemove(p)
  <2>1. /\ life_pc[p] = "remove" /\ life_pc' = [life_pc EXCEPT ![p] = "create"]
        /\ key' = 0 /\ conf' = [conf EXCEPT ![p] = Life!GetCeilingMessageSize(arg[p])]
        /\ then' = [then EXCEPT ![p] = "write"]
        /\ UNCHANGED <<made, ceiling, reference_count, need_remap, early, lost, init, mapped, arg>>
    BY <1>2 DEF Life!RecreateRemove, Life!Jump, Life!segmentVars, Life!Remove
  <2>2. ~ init[p] /\ life_pc[p] \notin CreatingSteps
    BY <2>1 DEF LifeInv, Attachment, InitSteps, UsingSteps, CreatingSteps
  <2>3. arg[p] \in Nat
    BY DEF LifeInv, LifeTypeOK
  <2>4. conf' \in [Processes -> Sizes] /\ \A q \in Processes \ {p} : conf'[q] = conf[q]
    BY <2>1, <2>3, CeilingIsClass DEF LifeInv, LifeTypeOK
  <2>5. /\ then' \in [Processes -> ThenSteps] /\ \A q \in Processes \ {p} : then'[q] = then[q]
        /\ arg' \in [Processes -> Nat]
    BY <2>1 DEF LifeInv, LifeTypeOK, ThenSteps
  <2>6. "create" \in LifeSteps /\ "create" \notin MappedSteps \cup UsingSteps
    BY DEF LifeSteps, MappedSteps, UsingSteps
  <2> QED
    BY <2>1, <2>2, <2>4, <2>5, <2>6, LifeLocal
<1> QED
  BY <1>1, <1>2

(* A process that dies leaves its reference behind. *)
LEMMA LifeDieStep ==
  ASSUME LifeInv, NEW p \in Processes, Life!Die(p)
  PROVE  LifeInv'
<1>1. /\ life_pc' = [life_pc EXCEPT ![p] = "idle"]
      /\ mapped' = [mapped EXCEPT ![p] = 0] /\ init' = [init EXCEPT ![p] = FALSE]
      /\ conf' = [conf EXCEPT ![p] = Life!GetCeilingMessageSize(16)]
      /\ lost' = IF init[p] THEN [lost EXCEPT ![mapped[p]] = @ + 1] ELSE lost
      /\ UNCHANGED <<key, made, ceiling, reference_count, need_remap, then, arg, early>>
  BY DEF Life!Die, Life!segmentVars
<1>2. conf' \in [Processes -> Sizes] /\ \A q \in Processes \ {p} : conf'[q] = conf[q]
  BY <1>1, CeilingIsClass DEF LifeInv, LifeTypeOK
<1>3. init[p] => mapped[p] \in Life!Segments /\ life_pc[p] \notin CreatingSteps
  <2>1. ASSUME init[p] PROVE mapped[p] \in Life!Segments
    BY <2>1, MappedIsMade DEF LifeInv, Attachment
  <2>2. ASSUME init[p] PROVE life_pc[p] \notin CreatingSteps
    BY <2>2 DEF LifeInv, Attachment, InitSteps, UsingSteps, CreatingSteps
  <2> QED
    BY <2>1, <2>2
<1>4. /\ lost' \in [Life!Segments -> Nat]
      /\ \A s \in Life!Segments :
           lost'[s] = IF init[p] /\ s = mapped[p] THEN lost[s] + 1 ELSE lost[s]
  BY <1>1, <1>3 DEF LifeInv, LifeTypeOK
<1>5. \A s \in Life!Segments : ceiling[s] = 0 /\ s \notin early => lost'[s] = lost[s]
  BY <1>3, <1>4 DEF LifeInv, Unbuilt
<1>6. UsersCounted'
  <2> SUFFICES ASSUME NEW s \in Life!Segments, s \notin early
               PROVE  /\ reference_count[s] >= lost'[s] + Cardinality(Users(s)')
                      /\ ~ need_remap[s] => reference_count[s] = lost'[s] + Cardinality(Users(s)')
    BY <1>1 DEF UsersCounted
  <2>1. /\ reference_count[s] >= lost[s] + Cardinality(Users(s))
        /\ ~ need_remap[s] => reference_count[s] = lost[s] + Cardinality(Users(s))
        /\ reference_count[s] \in Nat /\ lost[s] \in Nat
        /\ IsFiniteSet(Users(s)) /\ Cardinality(Users(s)) \in Nat
    BY UsersFinite DEF LifeInv, UsersCounted, LifeTypeOK
  <2>2. CASE init[p] /\ s = mapped[p]
    <3>1. p \in Users(s) /\ Users(s)' = Users(s) \ {p}
      BY <1>1, <2>2, UsersWithout DEF Users
    <3>2. Cardinality(Users(s)') = Cardinality(Users(s)) - 1
      BY <2>1, <3>1, FS_RemoveElement
    <3> QED
      BY <1>4, <2>1, <2>2, <3>2
  <2>3. CASE ~ (init[p] /\ s = mapped[p])
    BY <1>1, <1>4, <2>1, <2>3, UsersWithout
  <2> QED
    BY <2>2, <2>3
<1>7. then' \in [Processes -> ThenSteps] /\ need_remap' \in [Life!Segments -> BOOLEAN]
  BY <1>1 DEF LifeInv, LifeTypeOK
<1>8. "idle" \in LifeSteps /\ "idle" \notin MappedSteps \cup UsingSteps
  BY DEF LifeSteps, MappedSteps, UsingSteps
<1> QED
  BY <1>1, <1>2, <1>4, <1>5, <1>6, <1>7, <1>8, LifeDetach

(* ftruncate gave the object its size. *)
LEMMA LifeTruncateStep ==
  ASSUME LifeInv, NEW p \in Processes, Life!Truncate(p), UNCHANGED mapped
  PROVE  LifeInv'
<1> USE DEF LifeInv
<1>1. /\ life_pc[p] = "truncate"
      /\ UNCHANGED <<key, made, ceiling, reference_count, need_remap, init, conf, then, arg,
                     early, lost>>
  BY DEF Life!Truncate, Life!Jump, Life!segmentVars
<1>2. mapped[p] # 0 /\ ~ init[p]
  BY <1>1 DEF Attachment, MappedSteps, InitSteps, UsingSteps
<1>3. mapped' # [mapped EXCEPT ![p] = 0]
  BY <1>2 DEF LifeTypeOK
<1>4. life_pc' = [life_pc EXCEPT ![p] = "build"]
  BY <1>3 DEF Life!Truncate, Life!Jump
<1>5. /\ life_pc' \in [Processes -> LifeSteps] /\ life_pc'[p] = "build"
      /\ \A q \in Processes \ {p} : life_pc'[q] = life_pc[q]
  BY <1>4 DEF LifeTypeOK, LifeSteps
<1>6. LifeTypeOK'
  BY <1>1, <1>5 DEF LifeTypeOK
<1>7. Attachment'
  BY <1>1, <1>2, <1>5 DEF Attachment, MappedSteps, UsingSteps
<1>8. Unbuilt'
  BY <1>1, <1>5 DEF Unbuilt, CreatingSteps
<1>9. UsersCounted'
  BY <1>1 DEF UsersCounted, Users
<1>10. LaidOut'
  BY <1>1, <1>2, <1>5 DEF LaidOut
<1> QED
  BY <1>6, <1>7, <1>8, <1>9, <1>10

(* A new segment is the creator's alone. *)
LEMMA LifeCreateStep ==
  ASSUME LifeInv, NEW p \in Processes, Life!Create(p)
  PROVE  LifeInv'
<1> USE DEF LifeInv
<1>1. PICK x \in CreatingSteps : life_pc' = [life_pc EXCEPT ![p] = x]
  BY DEF Life!Create, Life!Jump, CreatingSteps
<1>2. /\ life_pc[p] = "create" /\ made < MaxSegments
      /\ made' = made + 1 /\ key' = made + 1 /\ mapped' = [mapped EXCEPT ![p] = made + 1]
      /\ UNCHANGED <<ceiling, reference_count, need_remap, init, conf, then, arg, early, lost>>
  BY DEF Life!Create, Life!Jump, Life!segmentVars, Life!historyVars
<1>3. ~ init[p]
  BY <1>2 DEF Attachment, InitSteps, UsingSteps
<1>4. /\ made \in Nat /\ made + 1 \in Life!Segments /\ made + 1 # 0
      /\ 0 .. made \subseteq 0 .. made + 1 /\ 1 .. made \subseteq 1 .. made + 1
      /\ made + 1 \in 0 .. made + 1 /\ made + 1 \in 0 .. MaxSegments
  BY <1>2, LifeConstants DEF LifeTypeOK, Life!Segments
<1>5. /\ life_pc' \in [Processes -> LifeSteps] /\ life_pc'[p] = x
      /\ mapped' \in [Processes -> 0 .. made + 1] /\ mapped'[p] = made + 1
      /\ \A q \in Processes \ {p} :
           life_pc'[q] = life_pc[q] /\ mapped'[q] = mapped[q] /\ mapped[q] # made + 1
  <2>1. mapped' \in [Processes -> 0 .. made + 1] /\ mapped'[p] = made + 1
    BY <1>2, <1>4 DEF LifeTypeOK
  <2>2. life_pc' \in [Processes -> LifeSteps] /\ life_pc'[p] = x
    BY <1>1 DEF LifeTypeOK, LifeSteps, CreatingSteps
  <2>3. ASSUME NEW q \in Processes \ {p}
        PROVE  life_pc'[q] = life_pc[q] /\ mapped'[q] = mapped[q] /\ mapped[q] # made + 1
    BY <1>1, <1>2, <1>4 DEF LifeTypeOK
  <2> QED
    BY <2>1, <2>2, <2>3
<1>6. LifeTypeOK'
  BY <1>2, <1>4, <1>5 DEF LifeTypeOK
<1>7. Attachment'
  BY <1>2, <1>3, <1>4, <1>5 DEF Attachment, MappedSteps, UsingSteps, CreatingSteps
<1>8. Unbuilt'
  <2>1. \A q \in Processes : life_pc'[q] \in CreatingSteps => ceiling'[mapped'[q]] = 0
    BY <1>2, <1>4, <1>5 DEF Unbuilt
  <2>2. \A q, r \in Processes :
          life_pc'[q] \in CreatingSteps /\ life_pc'[r] \in CreatingSteps /\ mapped'[q] = mapped'[r]
            => q = r
    BY <1>5 DEF Unbuilt
  <2>3. \A s \in Life!Segments :
          ceiling'[s] = 0 /\ s \notin early' =>
            /\ lost'[s] = 0 /\ ~ need_remap'[s]
            /\ \A q \in Processes : mapped'[q] = s => life_pc'[q] \in CreatingSteps
    BY <1>2, <1>5 DEF Unbuilt
  <2>4. \A s \in Life!Segments : s > made' => ceiling'[s] = 0
    BY <1>2, <1>4 DEF Unbuilt, Life!Segments
  <2> QED
    BY <2>1, <2>2, <2>3, <2>4 DEF Unbuilt
<1>9. UsersCounted'
  <2>1. \A s \in Life!Segments : Users(s)' = Users(s)
    BY <1>2, <1>3, <1>5 DEF Users
  <2> QED
    BY <1>2, <2>1 DEF UsersCounted
<1>10. LaidOut'
  BY <1>2, <1>3, <1>5 DEF LaidOut, CreatingSteps
<1> QED
  BY <1>6, <1>7, <1>8, <1>9, <1>10

(* State is built: it says the size its creator laid the blocks out for. *)
LEMMA LifeBuildStep ==
  ASSUME LifeInv, NEW p \in Processes, Life!Build(p)
  PROVE  LifeInv'
<1> USE DEF LifeInv
<1> DEFINE m == mapped[p]
<1>1. /\ life_pc[p] = "build" /\ life_pc' = [life_pc EXCEPT ![p] = "increase"]
      /\ ceiling' = [ceiling EXCEPT ![m] = conf[p]]
      /\ reference_count' = [reference_count EXCEPT ![m] = 0]
      /\ need_remap' = [need_remap EXCEPT ![m] = FALSE]
      /\ UNCHANGED <<key, made, init, conf, mapped, then, arg, early, lost>>
  BY DEF Life!Build, Life!Jump, Life!processVars, Life!historyVars
<1>2. m \in Life!Segments /\ m \in 1 .. made /\ ~ init[p] /\ life_pc[p] \in CreatingSteps
      /\ m # 0 /\ ceiling[m] = 0
  BY <1>1, MappedIsMade
     DEF Attachment, MappedSteps, InitSteps, UsingSteps, CreatingSteps, Unbuilt
<1>3. /\ life_pc' \in [Processes -> LifeSteps] /\ life_pc'[p] = "increase"
      /\ \A q \in Processes \ {p} : life_pc'[q] = life_pc[q]
  BY <1>1 DEF LifeTypeOK, LifeSteps
<1>4. conf[p] \in Sizes /\ conf[p] # 0
  BY DEF LifeTypeOK, Sizes
<1>5. /\ ceiling' \in [Life!Segments -> Sizes \cup {0}] /\ ceiling'[m] = conf[p]
      /\ \A s \in Life!Segments \ {m} : ceiling'[s] = ceiling[s]
  BY <1>1, <1>2, <1>4 DEF LifeTypeOK
<1>6. /\ reference_count' \in [Life!Segments -> Nat] /\ reference_count'[m] = 0
      /\ \A s \in Life!Segments \ {m} : reference_count'[s] = reference_count[s]
  BY <1>1, <1>2 DEF LifeTypeOK
<1>7. /\ need_remap' \in [Life!Segments -> BOOLEAN]
      /\ \A s \in Life!Segments \ {m} : need_remap'[s] = need_remap[s]
  BY <1>1, <1>2 DEF LifeTypeOK
<1>8. \A q \in Processes : mapped[q] = m /\ m \notin early => q = p
  BY <1>2 DEF Unbuilt
<1> HIDE DEF m
<1>9. LifeTypeOK'
  BY <1>1, <1>3, <1>5, <1>6, <1>7 DEF LifeTypeOK
<1>10. Attachment'
  BY <1>1, <1>2, <1>3 DEF Attachment, MappedSteps, UsingSteps, CreatingSteps, m
<1>11. Unbuilt'
  <2>1. ASSUME NEW q \in Processes, life_pc'[q] \in CreatingSteps
        PROVE  ceiling'[mapped'[q]] = 0
    <3>1. q # p /\ life_pc[q] \in CreatingSteps
      BY <1>3, <2>1 DEF CreatingSteps
    <3>2. mapped[q] # m /\ mapped[q] # 0 /\ ceiling[mapped[q]] = 0
      BY <1>2, <3>1 DEF Unbuilt, Attachment, CreatingSteps, MappedSteps, m
    <3> QED
      BY <1>1, <1>5, <3>2, MappedIsMade
  <2>2. \A q, r \in Processes :
          life_pc'[q] \in CreatingSteps /\ life_pc'[r] \in CreatingSteps /\ mapped'[q] = mapped'[r]
            => q = r
    BY <1>1, <1>3 DEF Unbuilt, CreatingSteps
  <2>3. ASSUME NEW s \in Life!Segments, ceiling'[s] = 0, s \notin early'
        PROVE  /\ lost'[s] = 0 /\ ~ need_remap'[s]
               /\ \A q \in Processes : mapped'[q] = s => life_pc'[q] \in CreatingSteps
    BY <1>1, <1>3, <1>4, <1>5, <2>3 DEF Unbuilt, m
  <2>4. \A s \in Life!Segments : s > made' => ceiling'[s] = 0
    BY <1>1, <1>2, <1>5 DEF Unbuilt, LifeTypeOK
  <2> QED
    BY <2>1, <2>2, <2>3, <2>4 DEF Unbuilt
<1>12. UsersCounted'
  <2> SUFFICES ASSUME NEW s \in Life!Segments, s \notin early
               PROVE  /\ reference_count'[s] >= lost[s] + Cardinality(Users(s)')
                      /\ ~ need_remap'[s] => reference_count'[s] = lost[s] + Cardinality(Users(s)')
    BY <1>1 DEF UsersCounted
  <2>1. Users(s)' = Users(s)
    BY <1>1 DEF Users
  <2>2. CASE s = m
    <3>1. Users(s) = {} /\ lost[s] = 0
      BY <1>2, <1>8, <2>2 DEF Users, Unbuilt
    <3> QED
      BY <1>6, <2>1, <2>2, <3>1, FS_EmptySet
  <2>3. CASE s # m
    BY <1>6, <1>7, <2>1, <2>3 DEF UsersCounted
  <2> QED
    BY <2>2, <2>3
<1>13. LaidOut'
  <2>1. ASSUME NEW q \in Processes, init'[q] \/ life_pc'[q] = "increase", mapped'[q] \notin early'
        PROVE  conf'[q] = ceiling'[mapped'[q]]
    <3>1. CASE q = p
      BY <1>1, <1>5, <3>1 DEF m
    <3>2. CASE q # p
      <4>1. init[q] \/ life_pc[q] = "increase"
        BY <1>1, <1>3, <2>1, <3>2
      <4>2. mapped[q] # 0 /\ mapped[q] # m
        BY <1>1, <1>8, <2>1, <3>2, <4>1 DEF Attachment, MappedSteps
      <4> QED
        BY <1>1, <1>5, <2>1, <4>1, <4>2, MappedIsMade DEF LaidOut
    <3> QED
      BY <3>1, <3>2
  <2>2. \A q \in Processes :
          life_pc'[q] = "stale" \/ (life_pc'[q] = "read" /\ then'[q] # "read") =>
            arg'[q] < Life!GetBlockNum(conf'[q])
    BY <1>1, <1>3 DEF LaidOut
  <2> QED
    BY <2>1, <2>2 DEF LaidOut
<1> QED
  BY <1>9, <1>10, <1>11, <1>12, <1>13

(* OpenOnly believes the size State says, which is 0 before State is built. *)
LEMMA LifeOpenStep ==
  ASSUME LifeInv, NEW p \in Processes, Life!OpenOnly(p)
  PROVE  LifeInv'
<1> USE DEF LifeInv
<1>1. /\ life_pc[p] = "open" /\ life_pc' = [life_pc EXCEPT ![p] = "increase"] /\ key # 0
      /\ mapped' = [mapped EXCEPT ![p] = key]
      /\ conf' = [conf EXCEPT ![p] = Life!GetCeilingMessageSize(ceiling[key])]
      /\ early' = IF ceiling[key] = 0 THEN early \cup {key} ELSE early
      /\ UNCHANGED <<key, made, ceiling, reference_count, need_remap, init, then, arg, lost>>
  BY DEF Life!OpenOnly, Life!Jump, Life!segmentVars
<1>2. ~ init[p]
  BY <1>1 DEF Attachment, InitSteps, UsingSteps
<1>3. key \in Life!Segments /\ key \in 1 .. made /\ key \in 0 .. made
  <2>1. made \in 0 .. MaxSegments /\ key \in 0 .. made
    BY DEF LifeTypeOK
  <2> QED
    BY <1>1, <2>1, LifeConstants DEF Life!Segments
<1>4. /\ Life!GetCeilingMessageSize(ceiling[key]) \in Sizes
      /\ ceiling[key] # 0 => Life!GetCeilingMessageSize(ceiling[key]) = ceiling[key]
  <2>1. ceiling[key] \in Sizes \cup {0}
    BY <1>3 DEF LifeTypeOK
  <2>2. Sizes \cup {0} \subseteq Nat
    BY DEF Sizes
  <2> QED
    BY <2>1, <2>2, CeilingIsClass
<1>5. /\ life_pc' \in [Processes -> LifeSteps] /\ life_pc'[p] = "increase"
      /\ mapped' \in [Processes -> 0 .. made] /\ mapped'[p] = key
      /\ conf' \in [Processes -> Sizes] /\ conf'[p] = Life!GetCeilingMessageSize(ceiling[key])
      /\ \A q \in Processes \ {p} :
           life_pc'[q] = life_pc[q] /\ mapped'[q] = mapped[q] /\ conf'[q] = conf[q]
  BY <1>1, <1>3, <1>4 DEF LifeTypeOK, LifeSteps
<1>6. early \subseteq early' /\ early' \subseteq 1 .. made /\ (ceiling[key] = 0 => key \in early')
  BY <1>1, <1>3 DEF LifeTypeOK
<1>7. LifeTypeOK'
  BY <1>1, <1>5, <1>6 DEF LifeTypeOK
<1>8. Attachment'
  BY <1>1, <1>2, <1>5 DEF Attachment, UsingSteps
<1>9. Unbuilt'
  <2>1. \A q \in Processes : life_pc'[q] \in CreatingSteps => ceiling'[mapped'[q]] = 0
    BY <1>1, <1>5 DEF Unbuilt, CreatingSteps
  <2>2. \A q, r \in Processes :
          life_pc'[q] \in CreatingSteps /\ life_pc'[r] \in CreatingSteps /\ mapped'[q] = mapped'[r]
            => q = r
    BY <1>5 DEF Unbuilt, CreatingSteps
  <2>3. ASSUME NEW s \in Life!Segments, ceiling'[s] = 0, s \notin early'
        PROVE  /\ lost'[s] = 0 /\ ~ need_remap'[s]
               /\ \A q \in Processes : mapped'[q] = s => life_pc'[q] \in CreatingSteps
    BY <1>1, <1>5, <1>6, <2>3 DEF Unbuilt
  <2>4. \A s \in Life!Segments : s > made' => ceiling'[s] = 0
    BY <1>1 DEF Unbuilt
  <2> QED
    BY <2>1, <2>2, <2>3, <2>4 DEF Unbuilt
<1>10. UsersCounted'
  <2>1. \A s \in Life!Segments : Users(s)' = Users(s)
    BY <1>1, <1>2, <1>5 DEF Users
  <2> QED
    BY <1>1, <1>6, <2>1 DEF UsersCounted
<1>11. LaidOut'
  BY <1>1, <1>2, <1>4, <1>5, <1>6 DEF LaidOut
<1> QED
  BY <1>7, <1>8, <1>9, <1>10, <1>11

(* The object is counted and attached. *)
LEMMA LifeIncreaseStep ==
  ASSUME LifeInv, NEW p \in Processes, Life!IncreaseReferenceCount(p)
  PROVE  LifeInv'
<1> USE DEF LifeInv
<1> DEFINE m == mapped[p]
<1>1. /\ life_pc[p] = "increase" /\ life_pc' = [life_pc EXCEPT ![p] = then[p]]
      /\ reference_count' = [reference_count EXCEPT ![m] = @ + 1]
      /\ init' = [init EXCEPT ![p] = TRUE]
      /\ UNCHANGED <<key, made, ceiling, need_remap, conf, mapped, then, arg, early, lost>>
  BY DEF Life!IncreaseReferenceCount, Life!Jump, Life!historyVars
<1>2. m \in Life!Segments /\ m # 0 /\ ~ init[p]
  BY <1>1, MappedIsMade DEF Attachment, MappedSteps, InitSteps, UsingSteps
<1>3. /\ then[p] \in ThenSteps /\ then[p] \in LifeSteps /\ then[p] \in InitSteps
      /\ then[p] \notin MappedSteps \cup CreatingSteps
      /\ then[p] # "stale" /\ then[p] # "increase"
  <2>1. then[p] \in ThenSteps
    BY DEF LifeTypeOK
  <2> QED
    BY <2>1 DEF ThenSteps, LifeSteps, InitSteps, UsingSteps, MappedSteps, CreatingSteps
<1>4. /\ life_pc' \in [Processes -> LifeSteps] /\ life_pc'[p] = then[p]
      /\ init' \in [Processes -> BOOLEAN] /\ init'[p]
      /\ \A q \in Processes \ {p} : life_pc'[q] = life_pc[q] /\ init'[q] = init[q]
  BY <1>1, <1>3 DEF LifeTypeOK
<1>5. /\ reference_count' \in [Life!Segments -> Nat]
      /\ reference_count'[m] = reference_count[m] + 1
      /\ \A s \in Life!Segments \ {m} : reference_count'[s] = reference_count[s]
  BY <1>1, <1>2 DEF LifeTypeOK
<1>6. LifeTypeOK'
  BY <1>1, <1>4, <1>5 DEF LifeTypeOK
<1>7. Attachment'
  BY <1>1, <1>2, <1>3, <1>4 DEF Attachment
<1>8. Unbuilt'
  BY <1>1, <1>3, <1>4 DEF Unbuilt, CreatingSteps
<1>9. UsersCounted'
  <2> SUFFICES ASSUME NEW s \in Life!Segments, s \notin early
               PROVE  /\ reference_count'[s] >= lost[s] + Cardinality(Users(s)')
                      /\ ~ need_remap[s] => reference_count'[s] = lost[s] + Cardinality(Users(s)')
    BY <1>1 DEF UsersCounted
  <2>1. /\ reference_count[s] >= lost[s] + Cardinality(Users(s))
        /\ ~ need_remap[s] => reference_count[s] = lost[s] + Cardinality(Users(s))
        /\ reference_count[s] \in Nat /\ lost[s] \in Nat
        /\ IsFiniteSet(Users(s)) /\ Cardinality(Users(s)) \in Nat
    BY UsersFinite DEF UsersCounted, LifeTypeOK
  <2>2. CASE s = m
    <3>1. p \notin Users(s) /\ Users(s)' = Users(s) \cup {p}
      BY <1>1, <1>2, <1>4, <2>2 DEF Users
    <3>2. Cardinality(Users(s)') = Cardinality(Users(s)) + 1
      BY <2>1, <3>1, FS_AddElement
    <3> QED
      BY <1>5, <2>1, <2>2, <3>2
  <2>3. CASE s # m
    <3>1. Users(s)' = Users(s)
      BY <1>1, <1>4, <2>3 DEF Users
    <3> QED
      BY <1>5, <2>1, <2>3, <3>1
  <2> QED
    BY <2>2, <2>3
<1>10. LaidOut'
  BY <1>1, <1>3, <1>4 DEF LaidOut
<1> QED
  BY <1>6, <1>7, <1>8, <1>9, <1>10

(* Destory gives the reference back. *)
LEMMA LifeDestoryStep ==
  ASSUME LifeInv, NEW p \in Processes, Life!Destory(p)
  PROVE  LifeInv'
<1> USE DEF LifeInv
<1> DEFINE m == mapped[p]
<1>1. /\ init[p] /\ life_pc[p] = "idle" /\ life_pc' = [life_pc EXCEPT ![p] = "counted"]
      /\ reference_count' = [reference_count EXCEPT ![m] = IF @ = 0 THEN 0 ELSE @ - 1]
      /\ init' = [init EXCEPT ![p] = FALSE]
      /\ UNCHANGED <<key, made, ceiling, need_remap, conf, mapped, then, arg, early, lost>>
  BY DEF Life!Destory, Life!Jump, Life!historyVars
<1>2. m \in Life!Segments /\ m # 0
  BY <1>1, MappedIsMade DEF Attachment
<1>3. /\ life_pc' \in [Processes -> LifeSteps] /\ life_pc'[p] = "counted"
      /\ init' \in [Processes -> BOOLEAN] /\ ~ init'[p]
      /\ \A q \in Processes \ {p} : life_pc'[q] = life_pc[q] /\ init'[q] = init[q]
  BY <1>1 DEF LifeTypeOK, LifeSteps
<1>4. /\ reference_count' \in [Life!Segments -> Nat]
      /\ reference_count[m] \in Nat
      /\ reference_count[m] # 0 => reference_count'[m] = reference_count[m] - 1
      /\ \A s \in Life!Segments \ {m} : reference_count'[s] = reference_count[s]
  BY <1>1, <1>2 DEF LifeTypeOK
<1>5. LifeTypeOK'
  BY <1>1, <1>3, <1>4 DEF LifeTypeOK
<1>6. Attachment'
  BY <1>1, <1>2, <1>3 DEF Attachment, UsingSteps
<1>7. Unbuilt'
  BY <1>1, <1>3 DEF Unbuilt, CreatingSteps
<1>8. UsersCounted'
  <2> SUFFICES ASSUME NEW s \in Life!Segments, s \notin early
               PROVE  /\ reference_count'[s] >= lost[s] + Cardinality(Users(s)')
                      /\ ~ need_remap[s] => reference_count'[s] = lost[s] + Cardinality(Users(s)')
    BY <1>1 DEF UsersCounted
  <2>1. /\ reference_count[s] >= lost[s] + Cardinality(Users(s))
        /\ ~ need_remap[s] => reference_count[s] = lost[s] + Cardinality(Users(s))
        /\ reference_count[s] \in Nat /\ lost[s] \in Nat
        /\ IsFiniteSet(Users(s)) /\ Cardinality(Users(s)) \in Nat
    BY UsersFinite DEF UsersCounted, LifeTypeOK
  <2>2. CASE s = m
    <3>1. p \in Users(s) /\ Users(s)' = Users(s) \ {p}
      BY <1>1, <1>3, <2>2 DEF Users
    <3>2. /\ Cardinality(Users(s)') = Cardinality(Users(s)) - 1
          /\ IsFiniteSet(Users(s)') /\ Cardinality(Users(s)') \in Nat
      BY <2>1, <3>1, FS_RemoveElement, FS_CardinalityType
    <3> QED
      BY <1>4, <2>1, <2>2, <3>2
  <2>3. CASE s # m
    <3>1. Users(s)' = Users(s)
      BY <1>1, <1>3, <2>3 DEF Users
    <3> QED
      BY <1>4, <2>1, <2>3, <3>1
  <2> QED
    BY <2>2, <2>3
<1>9. LaidOut'
  BY <1>1, <1>3 DEF LaidOut
<1> QED
  BY <1>5, <1>6, <1>7, <1>8, <1>9

LEMMA LifeInitially ==
  ASSUME Life!LifeInit
  PROVE  LifeInv
<1>1. conf \in [Processes -> Sizes]
  BY CeilingIsClass DEF Life!LifeInit
<1>2. LifeTypeOK
  BY <1>1, LifeConstants DEF Life!LifeInit, LifeTypeOK, LifeSteps, ThenSteps
<1>3. Attachment /\ LaidOut
  BY DEF Life!LifeInit, Attachment, LaidOut, UsingSteps, MappedSteps
<1>4. Unbuilt
  BY DEF Life!LifeInit, Unbuilt, CreatingSteps, Life!Segments
<1>5. UsersCounted
  <2>1. \A s \in Life!Segments : Users(s) = {}
    BY DEF Life!LifeInit, Users
  <2> QED
    BY <2>1, FS_EmptySet DEF Life!LifeInit, UsersCounted
<1> QED
  BY <1>2, <1>3, <1>4, <1>5 DEF LifeInv

LEMMA LifeStep ==
  ASSUME LifeInv, [Life!LifeNext]_Life!lifeVars
  PROVE  LifeInv'
<1>1. CASE UNCHANGED Life!lifeVars
  BY <1>1 DEF Life!lifeVars, LifeInv, LifeTypeOK, Attachment, Unbuilt, UsersCounted, Users, LaidOut
<1>2. ASSUME NEW p \in Processes, Life!Truncate(p)
      PROVE  LifeInv'
  <2>1. UNCHANGED mapped \/ mapped' = [mapped EXCEPT ![p] = 0]
    BY <1>2 DEF Life!Truncate
  <2> QED
    BY <1>2, <2>1, LifeTruncateStep, LifeGiveUpStep
<1>3. ASSUME NEW p \in Processes,
             Life!BuildFails(p) \/ Life!DestoryRead(p) \/ Life!DestoryRemove(p)
      PROVE  LifeInv'
  <2>1. mapped' = [mapped EXCEPT ![p] = 0] \/ (UNCHANGED mapped /\ Life!DestoryRead(p))
    BY <1>3 DEF Life!BuildFails, Life!DestoryRead, Life!DestoryRemove
  <2> QED
    BY <1>3, <2>1, LifeGiveUpStep, LifeReadZeroStep
<1>4. CASE Life!LifeNext
  BY <1>2, <1>3, <1>4, LifeRetryStep, LifeCreateStep, LifeBuildStep, LifeOpenStep,
     LifeIncreaseStep, LifeAcquireStep, LifeRemapStep, LifeUseStep, LifeRecreateStep,
     LifeDestoryStep, LifeDieStep
     DEF Life!LifeNext
<1> QED
  BY <1>1, <1>4

-----------------------------------------------------------------------------
(* The key of a segment in use (RemovedNotBefore, RemovedWithLastUser). *)

Holds(p) == init[p] \/ life_pc[p] \in {"truncate", "build", "increase"}

KeyKept ==
  \A p \in Processes :
    Holds(p) /\ ~ need_remap[mapped[p]] /\ mapped[p] \notin early \cup raced => key = mapped[p]

(* Who removes a segment found no user, and none came unnoticed. *)
RemovedUnused ==
  \A p, q \in Processes :
    life_pc[p] = "unlink" /\ Holds(q) /\ mapped[q] = mapped[p] =>
      need_remap[mapped[p]] \/ mapped[p] \in early \cup raced

KeysInv == KeyKept /\ RemovedUnused /\ Life!RemovedWithLastUser

LastSteps == {"increase", "counted", "unlink"}

LEMMA HolderMapped ==
  ASSUME LifeInv, NEW p \in Processes, Holds(p) \/ life_pc[p] \in LastSteps
  PROVE  mapped[p] # 0 /\ mapped[p] \in Life!Segments /\ mapped[p] \in 1 .. made
<1>1. mapped[p] # 0
  BY DEF LifeInv, Attachment, Holds, MappedSteps, LastSteps
<1> QED
  BY <1>1, MappedIsMade

LEMMA KeyMade == ASSUME LifeInv, key # 0 PROVE key \in Life!Segments /\ key \in 1 .. made
<1>1. made \in 0 .. MaxSegments /\ key \in 0 .. made
  BY DEF LifeInv, LifeTypeOK
<1> QED
  BY <1>1, LifeConstants DEF Life!Segments

(* A step in which p gets hold of nothing, and takes the key at most from  *)
(* segments whose users are excepted.                                      *)
LEMMA KeysQuiet ==
  ASSUME LifeInv, KeysInv, NEW p \in Processes,
         UNCHANGED <<ceiling, reference_count, early>>,
         raced \subseteq raced', orphaned \subseteq orphaned',
         \A s \in Life!Segments : need_remap[s] => need_remap'[s],
         \A q \in Processes \ {p} :
           life_pc'[q] = life_pc[q] /\ mapped'[q] = mapped[q] /\ init'[q] = init[q],
         Holds(p)' => Holds(p) /\ mapped'[p] = mapped[p],
         life_pc'[p] # "unlink",
         key' = key \/ key' = 0,
         key' # key =>
           \A q \in Processes :
             Holds(q)' /\ mapped'[q] = key => need_remap'[key] \/ key \in early \cup raced',
         life_pc[p] \in LastSteps =>
           key' # mapped[p] \/ reference_count[mapped[p]] # 0 \/ mapped[p] \in orphaned'
  PROVE  KeysInv'
<1>1. ASSUME NEW q \in Processes, Holds(q)'
      PROVE  Holds(q) /\ mapped'[q] = mapped[q]
  BY <1>1 DEF Holds
<1>2. KeyKept'
  <2> SUFFICES ASSUME NEW q \in Processes, Holds(q)', ~ need_remap'[mapped[q]],
                      mapped[q] \notin early \cup raced'
               PROVE  key' = mapped[q]
    BY <1>1 DEF KeyKept
  <2>1. Holds(q) /\ mapped'[q] = mapped[q] /\ mapped[q] \in Life!Segments
    BY <1>1, HolderMapped
  <2>2. key = mapped[q]
    BY <2>1 DEF KeysInv, KeyKept
  <2> QED
    BY <2>1, <2>2
<1>3. RemovedUnused'
  <2> SUFFICES ASSUME NEW r \in Processes, NEW q \in Processes,
                      life_pc'[r] = "unlink", Holds(q)', mapped'[q] = mapped'[r]
               PROVE  need_remap'[mapped'[r]] \/ mapped'[r] \in early \cup raced'
    BY DEF RemovedUnused
  <2>1. Holds(q) /\ mapped'[q] = mapped[q] /\ mapped[q] \in Life!Segments
    BY <1>1, HolderMapped
  <2>2. life_pc[r] = "unlink" /\ mapped'[r] = mapped[r]
    OBVIOUS
  <2>3. need_remap[mapped[r]] \/ mapped[r] \in early \cup raced
    BY <2>1, <2>2 DEF KeysInv, RemovedUnused
  <2> QED
    BY <2>1, <2>2, <2>3
<1>4. Life!RemovedWithLastUser'
  <2> SUFFICES ASSUME key' # 0, ceiling[key] # 0, key \notin early \cup orphaned',
                      reference_count[key] = 0, key' = key
               PROVE  \E q \in Processes :
                        mapped'[q] = key /\ life_pc'[q] \in {"increase", "counted", "unlink"}
    BY DEF Life!RemovedWithLastUser
  <2>1. PICK q \in Processes :
          mapped[q] = key /\ life_pc[q] \in {"increase", "counted", "unlink"}
    BY DEF KeysInv, Life!RemovedWithLastUser
  <2>2. q # p
    BY <2>1 DEF LastSteps
  <2> QED
    BY <2>1, <2>2
<1> QED
  BY <1>2, <1>3, <1>4 DEF KeysInv

(* The steps that leave the key alone: comparing, failing, calling, ... *)
LEMMA KeysLocalStep ==
  ASSUME LifeInv, KeysInv, NEW p \in Processes,
         \/ Life!CreateExists(p) \/ Life!CreateRefused(p) \/ Life!CreateGivesUp(p)
         \/ Life!OpenFails(p) \/ Life!AcquireBlockToWrite(p) \/ Life!AcquireBlockToRead(p)
         \/ Life!WriteFitsAlready(p) \/ Life!CheckIndex(p) \/ Life!UseBlock(p)
  PROVE  KeysInv'
<1>1. /\ UNCHANGED <<key, ceiling, reference_count, early, raced, orphaned, need_remap, mapped, init>>
      /\ life_pc[p] \notin LastSteps
      /\ \E x \in {"create", "open", "refused", "misfit", "idle", "write", "range", "flag",
                   "stale"} : life_pc' = [life_pc EXCEPT ![p] = x]
  BY DEF Life!CreateExists, Life!CreateRefused, Life!CreateGivesUp,
         Life!OpenFails, Life!AcquireBlockToWrite, Life!AcquireBlockToRead, Life!Acquire,
         Life!WriteFitsAlready, Life!CheckIndex, Life!UseBlock, Life!Jump, Life!Failed,
         Life!segmentVars, Life!processVars, Life!historyVars, Life!raceVars, LastSteps
<1>2. /\ \A q \in Processes \ {p} : life_pc'[q] = life_pc[q]
      /\ life_pc'[p] \notin {"truncate", "build", "increase", "unlink"}
  BY <1>1 DEF LifeInv, LifeTypeOK
<1>3. Holds(p)' => Holds(p)
  BY <1>1, <1>2 DEF Holds
<1> QED
  BY <1>1, <1>2, <1>3, KeysQuiet

(* ... ftruncate, Remap and the start of Recreate. *)
LEMMA KeysLeaveStep ==
  ASSUME LifeInv, KeysInv, NEW p \in Processes,
         \/ Life!Truncate(p) \/ Life!WriterRemap(p) \/ Life!ReaderRemap(p) \/ Life!Recreate(p)
  PROVE  KeysInv'
<1>1. /\ UNCHANGED <<key, ceiling, reference_count, early, raced, orphaned>>
      /\ life_pc[p] \in {"truncate", "flag", "stale", "fit"}
      /\ need_remap' = need_remap \/ need_remap' = [need_remap EXCEPT ![mapped[p]] = TRUE]
  BY DEF Life!Truncate, Life!WriterRemap, Life!ReaderRemap, Life!RemapIfNeeded, Life!Recreate,
         Life!Jump, Life!segmentVars, Life!historyVars, Life!raceVars
<1>2. /\ life_pc'[p] # "unlink" /\ life_pc[p] \notin LastSteps
      /\ \A q \in Processes \ {p} :
           life_pc'[q] = life_pc[q] /\ mapped'[q] = mapped[q] /\ init'[q] = init[q]
  BY DEF Life!Truncate, Life!WriterRemap, Life!ReaderRemap, Life!RemapIfNeeded, Life!Recreate,
         Life!Jump, Life!Failed, LifeInv, LifeTypeOK, LastSteps
<1>3. Holds(p)' => Holds(p) /\ mapped'[p] = mapped[p]
  <2>1. CASE Life!Truncate(p)
    <3>1. ~ init[p] /\ life_pc[p] = "truncate" /\ UNCHANGED init
      BY <2>1 DEF Life!Truncate, Life!Jump, LifeInv, Attachment, InitSteps, UsingSteps
    <3>2. \/ UNCHANGED mapped
          \/ life_pc' \in {[life_pc EXCEPT ![p] = "misfit"], [life_pc EXCEPT ![p] = "idle"]}
      BY <2>1 DEF Life!Truncate, Life!Failed
    <3>3. UNCHANGED mapped \/ life_pc'[p] \in {"misfit", "idle"}
      BY <3>2 DEF LifeInv, LifeTypeOK
    <3> QED
      BY <3>1, <3>3 DEF Holds
  <2>2. CASE Life!WriterRemap(p) \/ Life!ReaderRemap(p) \/ Life!Recreate(p)
    BY <2>2 DEF Life!WriterRemap, Life!ReaderRemap, Life!RemapIfNeeded, Life!Recreate,
                Life!Jump, Holds, LifeInv, LifeTypeOK
  <2> QED
    BY <2>1, <2>2
<1>4. \A s \in Life!Segments : need_remap[s] => need_remap'[s]
  BY <1>1 DEF LifeInv, LifeTypeOK
<1> QED
  BY <1>1, <1>2, <1>3, <1>4, KeysQuiet

(* A key taken from another segment leaves a trace. *)
LEMMA RemoveTraced ==
  ASSUME NEW meant, Life!Remove(meant)
  PROVE  key' = 0 /\ raced \subseteq raced' /\ (key # 0 /\ key \notin meant => key \in raced')
  BY DEF Life!Remove

(* Remove, in its four places. *)
LEMMA KeysRemoveStep ==
  ASSUME LifeInv, KeysInv, NEW p \in Processes,
         \/ Life!RemoveRefused(p) \/ Life!RecreateRemove(p) \/ Life!BuildFails(p)
         \/ Life!DestoryRemove(p)
  PROVE  KeysInv'
<1>1. UNCHANGED <<ceiling, reference_count, need_remap, early, orphaned, init>>
  BY DEF Life!RemoveRefused, Life!RecreateRemove, Life!BuildFails, Life!DestoryRemove,
         Life!segmentVars, Life!processVars
<1>2. PICK x \in {"create", "idle", "misfit"} : life_pc' = [life_pc EXCEPT ![p] = x]
  BY DEF Life!RemoveRefused, Life!RecreateRemove, Life!BuildFails, Life!DestoryRemove,
         Life!Jump, Life!Failed
<1>3. /\ life_pc[p] \in {"refused", "remove", "build", "unlink"}
      /\ mapped' = mapped \/ mapped' = [mapped EXCEPT ![p] = 0]
  BY DEF Life!RemoveRefused, Life!RecreateRemove, Life!BuildFails, Life!DestoryRemove,
         Life!Jump, Life!processVars
<1>4. /\ life_pc'[p] = x /\ ~ init[p]
      /\ \A q \in Processes \ {p} : life_pc'[q] = life_pc[q] /\ mapped'[q] = mapped[q]
  BY <1>2, <1>3 DEF LifeInv, LifeTypeOK, Attachment, InitSteps, UsingSteps
<1>5. ~ Holds(p)'
  BY <1>1, <1>4 DEF Holds
<1>6. \/ UNCHANGED <<key, raced>>
      \/ Life!Remove({}) \/ Life!Remove({s \in Life!Segments : need_remap[s]})
      \/ Life!Remove({mapped[p]}) /\ life_pc[p] \in {"build", "unlink"}
  BY <1>3 DEF Life!RemoveRefused, Life!RecreateRemove, Life!BuildFails, Life!DestoryRemove, Life!Jump
<1>7. raced \subseteq raced' /\ (key' = key \/ key' = 0)
  BY <1>6, RemoveTraced
<1>8. ASSUME key' # key, NEW q \in Processes, Holds(q)', mapped'[q] = key
      PROVE  need_remap'[key] \/ key \in early \cup raced'
  <2>1. q # p /\ Holds(q) /\ mapped[q] = key /\ key # 0 /\ key \in Life!Segments
    BY <1>1, <1>4, <1>5, <1>8, HolderMapped DEF Holds
  <2>2. CASE Life!Remove({}) \/ Life!Remove({s \in Life!Segments : need_remap[s]})
    BY <1>1, <2>1, <2>2, RemoveTraced
  <2>3. CASE Life!Remove({mapped[p]}) /\ life_pc[p] = "unlink"
    <3>1. CASE key = mapped[p]
      BY <1>1, <1>7, <2>1, <2>3, <3>1 DEF KeysInv, RemovedUnused
    <3> QED
      BY <2>1, <2>3, <3>1, RemoveTraced
  <2>4. CASE Life!Remove({mapped[p]}) /\ life_pc[p] = "build"
    <3>1. CASE key = mapped[p]
      <4>1. ceiling[key] = 0
        BY <2>4, <3>1 DEF LifeInv, Unbuilt, CreatingSteps
      <4>2. key \notin early => life_pc[q] \in CreatingSteps
        BY <2>1, <4>1 DEF LifeInv, Unbuilt
      <4> QED
        BY <2>1, <2>4, <3>1, <4>2 DEF LifeInv, Unbuilt, CreatingSteps
    <3> QED
      BY <2>1, <2>4, <3>1, RemoveTraced
  <2> QED
    BY <1>6, <1>8, <2>2, <2>3, <2>4
<1>9. life_pc[p] \in LastSteps => key' # mapped[p]
  <2>1. ASSUME life_pc[p] \in LastSteps PROVE key' = 0 /\ mapped[p] # 0
    <3>1. life_pc[p] = "unlink"
      BY <1>3, <2>1 DEF LastSteps
    <3>2. Life!DestoryRemove(p)
      BY <3>1 DEF Life!RemoveRefused, Life!RecreateRemove, Life!BuildFails, Life!Jump
    <3> QED
      BY <2>1, <3>2, HolderMapped DEF Life!DestoryRemove, Life!Remove
  <2> QED
    BY <2>1
<1> QED
  BY <1>1, <1>4, <1>5, <1>7, <1>8, <1>9, KeysQuiet

(* A process that dies between being mapped and being counted, or between  *)
(* its count and Remove, leaves the segment to nobody.                     *)
LEMMA KeysDieStep ==
  ASSUME LifeInv, KeysInv, NEW p \in Processes, Life!Die(p)
  PROVE  KeysInv'
<1>1. /\ UNCHANGED <<key, ceiling, reference_count, need_remap, early, raced>>
      /\ life_pc' = [life_pc EXCEPT ![p] = "idle"]
      /\ mapped' = [mapped EXCEPT ![p] = 0] /\ init' = [init EXCEPT ![p] = FALSE]
      /\ IF init[p] THEN orphaned' = orphaned ELSE orphaned' = orphaned \cup ({mapped[p]} \ {0})
  BY DEF Life!Die, Life!segmentVars
<1>2. /\ life_pc'[p] = "idle" /\ ~ Holds(p)' /\ orphaned \subseteq orphaned'
      /\ \A q \in Processes \ {p} :
           life_pc'[q] = life_pc[q] /\ mapped'[q] = mapped[q] /\ init'[q] = init[q]
  BY <1>1 DEF LifeInv, LifeTypeOK, Holds
<1>3. ASSUME life_pc[p] \in LastSteps PROVE mapped[p] \in orphaned'
  BY <1>1, <1>3, HolderMapped DEF LastSteps, LifeInv, Attachment, InitSteps, UsingSteps
<1> QED
  BY <1>1, <1>2, <1>3, KeysQuiet

(* A new segment gets a key that nobody has. *)
LEMMA KeysCreateStep ==
  ASSUME LifeInv, KeysInv, NEW p \in Processes, Life!Create(p)
  PROVE  KeysInv'
<1>1. PICK x \in {"truncate", "build"} : life_pc' = [life_pc EXCEPT ![p] = x]
  BY DEF Life!Create, Life!Jump
<1>2. /\ key = 0 /\ key' = made + 1 /\ mapped' = [mapped EXCEPT ![p] = made + 1]
      /\ made < MaxSegments
      /\ UNCHANGED <<ceiling, reference_count, need_remap, early, raced, orphaned, init>>
  BY DEF Life!Create, Life!segmentVars, Life!historyVars
<1>3. /\ life_pc'[p] = x /\ mapped'[p] = key'
      /\ \A q \in Processes \ {p} : life_pc'[q] = life_pc[q] /\ mapped'[q] = mapped[q]
  BY <1>1, <1>2 DEF LifeInv, LifeTypeOK
<1>4. made \in Nat /\ made + 1 \in Life!Segments
  BY <1>2, LifeConstants DEF LifeInv, LifeTypeOK, Life!Segments
<1>5. \A q \in Processes : mapped[q] # made + 1
  BY <1>4 DEF LifeInv, LifeTypeOK
<1>6. KeyKept'
  <2> SUFFICES ASSUME NEW q \in Processes, Holds(q)', q # p, ~ need_remap[mapped[q]],
                      mapped[q] \notin early \cup raced
               PROVE  FALSE
    BY <1>2, <1>3 DEF KeyKept
  <2>1. Holds(q)
    BY <1>2, <1>3 DEF Holds
  <2> QED
    BY <1>2, <2>1, HolderMapped DEF KeysInv, KeyKept
<1>7. RemovedUnused'
  <2> SUFFICES ASSUME NEW r \in Processes, NEW q \in Processes,
                      life_pc'[r] = "unlink", Holds(q)', mapped'[q] = mapped'[r]
               PROVE  need_remap[mapped'[r]] \/ mapped'[r] \in early \cup raced
    BY <1>2 DEF RemovedUnused
  <2>1. r # p /\ mapped'[r] = mapped[r] /\ life_pc[r] = "unlink"
    BY <1>3
  <2>2. q # p /\ Holds(q) /\ mapped[q] = mapped[r]
    BY <1>2, <1>3, <1>5, <2>1 DEF Holds
  <2> QED
    BY <2>1, <2>2 DEF KeysInv, RemovedUnused
<1>8. Life!RemovedWithLastUser'
  <2>1. ceiling'[key'] = 0
    BY <1>2, <1>4 DEF LifeInv, Unbuilt
  <2> QED
    BY <2>1 DEF Life!RemovedWithLastUser
<1> QED
  BY <1>6, <1>7, <1>8 DEF KeysInv

(* Until its State is built nobody can have flagged a segment, or left it. *)
LEMMA KeysBuildStep ==
  ASSUME LifeInv, KeysInv, NEW p \in Processes, Life!Build(p)
  PROVE  KeysInv'
<1> DEFINE m == mapped[p]
<1>1. /\ life_pc[p] = "build" /\ life_pc' = [life_pc EXCEPT ![p] = "increase"]
      /\ ceiling' = [ceiling EXCEPT ![m] = conf[p]]
      /\ reference_count' = [reference_count EXCEPT ![m] = 0]
      /\ need_remap' = [need_remap EXCEPT ![m] = FALSE]
      /\ UNCHANGED <<key, early, raced, orphaned, init, mapped>>
  BY DEF Life!Build, Life!Jump, Life!processVars, Life!historyVars
<1>2. life_pc'[p] = "increase" /\ \A q \in Processes \ {p} : life_pc'[q] = life_pc[q]
  BY <1>1 DEF LifeInv, LifeTypeOK
<1>3. /\ m \in Life!Segments /\ ceiling[m] = 0
      /\ m \notin early => ~ need_remap[m] /\ \A q \in Processes : mapped[q] = m => q = p
  BY <1>1, HolderMapped DEF LifeInv, Unbuilt, CreatingSteps, Holds
<1>4. \A s \in Life!Segments : s \notin early => need_remap'[s] = need_remap[s]
  BY <1>1, <1>3 DEF LifeInv, LifeTypeOK
<1>5. \A q \in Processes : Holds(q)' <=> Holds(q)
  BY <1>1, <1>2 DEF Holds
<1>6. KeyKept'
  <2> SUFFICES ASSUME NEW q \in Processes, Holds(q)', ~ need_remap'[mapped[q]],
                      mapped[q] \notin early \cup raced
               PROVE  key = mapped[q]
    BY <1>1 DEF KeyKept
  <2> QED
    BY <1>4, <1>5, HolderMapped DEF KeysInv, KeyKept
<1>7. RemovedUnused'
  <2> SUFFICES ASSUME NEW r \in Processes, NEW q \in Processes,
                      life_pc'[r] = "unlink", Holds(q)', mapped[q] = mapped[r],
                      mapped[r] \notin early
               PROVE  need_remap'[mapped[r]] \/ mapped[r] \in raced
    BY <1>1 DEF RemovedUnused
  <2>1. life_pc[r] = "unlink" /\ Holds(q) /\ mapped[q] \in Life!Segments
    BY <1>2, <1>5, HolderMapped
  <2>2. need_remap[mapped[r]] \/ mapped[r] \in raced
    BY <2>1 DEF KeysInv, RemovedUnused
  <2> QED
    BY <1>4, <2>1, <2>2
<1>8. Life!RemovedWithLastUser'
  <2> SUFFICES ASSUME key # 0, ceiling'[key] # 0, key \notin early \cup orphaned,
                      reference_count'[key] = 0
               PROVE  \E q \in Processes :
                        mapped[q] = key /\ life_pc'[q] \in {"increase", "counted", "unlink"}
    BY <1>1 DEF Life!RemovedWithLastUser
  <2>1. CASE key = m
    BY <1>2, <2>1
  <2>2. CASE key # m
    <3>1. ceiling[key] # 0 /\ reference_count[key] = 0
      BY <1>1, <2>2, KeyMade DEF LifeInv, LifeTypeOK
    <3>2. PICK q \in Processes :
            mapped[q] = key /\ life_pc[q] \in {"increase", "counted", "unlink"}
      BY <1>1, <3>1 DEF KeysInv, Life!RemovedWithLastUser
    <3> QED
      BY <1>1, <1>2, <3>2
  <2> QED
    BY <2>1, <2>2
<1> QED
  BY <1>6, <1>7, <1>8 DEF KeysInv

(* Who opens a segment has its key, and is noticed. *)
LEMMA KeysOpenStep ==
  ASSUME LifeInv, KeysInv, NEW p \in Processes, Life!OpenOnly(p)
  PROVE  KeysInv'
<1>1. /\ key # 0 /\ life_pc[p] = "open" /\ life_pc' = [life_pc EXCEPT ![p] = "increase"]
      /\ mapped' = [mapped EXCEPT ![p] = key]
      /\ early' = IF ceiling[key] = 0 THEN early \cup {key} ELSE early
      /\ raced' = IF \E q \in Processes : life_pc[q] = "unlink" /\ mapped[q] = key
                  THEN raced \cup {key} ELSE raced
      /\ UNCHANGED <<key, ceiling, reference_count, need_remap, orphaned, init>>
  BY DEF Life!OpenOnly, Life!Jump, Life!segmentVars
<1>2. /\ life_pc'[p] = "increase" /\ mapped'[p] = key
      /\ \A q \in Processes \ {p} : life_pc'[q] = life_pc[q] /\ mapped'[q] = mapped[q]
  BY <1>1, KeyMade DEF LifeInv, LifeTypeOK
<1>3. early \subseteq early' /\ raced \subseteq raced'
  BY <1>1
<1>4. \A q \in Processes \ {p} : Holds(q)' <=> Holds(q)
  BY <1>1, <1>2 DEF Holds
<1>5. KeyKept'
  BY <1>1, <1>2, <1>3, <1>4 DEF KeysInv, KeyKept
<1>6. RemovedUnused'
  <2> SUFFICES ASSUME NEW r \in Processes, NEW q \in Processes,
                      life_pc'[r] = "unlink", Holds(q)', mapped'[q] = mapped'[r]
               PROVE  need_remap[mapped'[r]] \/ mapped'[r] \in early' \cup raced'
    BY <1>1 DEF RemovedUnused
  <2>1. r # p /\ mapped'[r] = mapped[r] /\ life_pc[r] = "unlink"
    BY <1>2
  <2>2. CASE q = p
    BY <1>1, <1>2, <2>1, <2>2
  <2>3. CASE q # p
    BY <1>2, <1>3, <1>4, <2>1, <2>3 DEF KeysInv, RemovedUnused
  <2> QED
    BY <2>2, <2>3
<1>7. Life!RemovedWithLastUser'
  BY <1>1, <1>2 DEF Life!RemovedWithLastUser
<1> QED
  BY <1>5, <1>6, <1>7 DEF KeysInv

LEMMA KeysIncreaseStep ==
  ASSUME LifeInv, KeysInv, NEW p \in Processes, Life!IncreaseReferenceCount(p)
  PROVE  KeysInv'
<1>1. /\ life_pc[p] = "increase" /\ life_pc' = [life_pc EXCEPT ![p] = then[p]]
      /\ reference_count' = [reference_count EXCEPT ![mapped[p]] = @ + 1]
      /\ init' = [init EXCEPT ![p] = TRUE]
      /\ UNCHANGED <<key, ceiling, need_remap, mapped, early, raced, orphaned>>
  BY DEF Life!IncreaseReferenceCount, Life!Jump, Life!historyVars
<1>2. /\ life_pc'[p] = then[p] /\ then[p] # "unlink"
      /\ \A q \in Processes \ {p} : life_pc'[q] = life_pc[q] /\ init'[q] = init[q]
  BY <1>1 DEF LifeInv, LifeTypeOK, ThenSteps
<1>3. \A q \in Processes : Holds(q)' => Holds(q)
  BY <1>1, <1>2 DEF Holds
<1>4. KeyKept'
  BY <1>1, <1>3 DEF KeysInv, KeyKept
<1>5. RemovedUnused'
  <2> SUFFICES ASSUME NEW r \in Processes, NEW q \in Processes,
                      life_pc'[r] = "unlink", Holds(q)', mapped[q] = mapped[r]
               PROVE  need_remap[mapped[r]] \/ mapped[r] \in early \cup raced
    BY <1>1 DEF RemovedUnused
  <2>1. life_pc[r] = "unlink" /\ Holds(q)
    BY <1>2, <1>3
  <2> QED
    BY <2>1 DEF KeysInv, RemovedUnused
<1>6. Life!RemovedWithLastUser'
  <2> SUFFICES ASSUME key # 0, ceiling[key] # 0, key \notin early \cup orphaned,
                      reference_count'[key] = 0
               PROVE  \E q \in Processes :
                        mapped[q] = key /\ life_pc'[q] \in {"increase", "counted", "unlink"}
    BY <1>1 DEF Life!RemovedWithLastUser
  <2>1. key # mapped[p] /\ reference_count[key] = 0
    BY <1>1, KeyMade DEF LifeInv, LifeTypeOK
  <2>2. PICK q \in Processes :
          mapped[q] = key /\ life_pc[q] \in {"increase", "counted", "unlink"}
    BY <2>1 DEF KeysInv, Life!RemovedWithLastUser
  <2> QED
    BY <1>2, <2>1, <2>2
<1> QED
  BY <1>4, <1>5, <1>6 DEF KeysInv

(* Whose reference was the last has the segment in hand. *)
LEMMA KeysDestoryStep ==
  ASSUME LifeInv, KeysInv, NEW p \in Processes, Life!Destory(p)
  PROVE  KeysInv'
<1>1. /\ init[p] /\ life_pc[p] = "idle" /\ life_pc' = [life_pc EXCEPT ![p] = "counted"]
      /\ reference_count' =
           [reference_count EXCEPT ![mapped[p]] = IF @ = 0 THEN 0 ELSE @ - 1]
      /\ init' = [init EXCEPT ![p] = FALSE]
      /\ UNCHANGED <<key, ceiling, need_remap, mapped, early, raced, orphaned>>
  BY DEF Life!Destory, Life!Jump, Life!historyVars
<1>2. /\ life_pc'[p] = "counted"
      /\ \A q \in Processes \ {p} : life_pc'[q] = life_pc[q] /\ init'[q] = init[q]
  BY <1>1 DEF LifeInv, LifeTypeOK
<1>3. \A q \in Processes : Holds(q)' => Holds(q)
  BY <1>1, <1>2 DEF Holds
<1>4. KeyKept'
  BY <1>1, <1>3 DEF KeysInv, KeyKept
<1>5. RemovedUnused'
  <2> SUFFICES ASSUME NEW r \in Processes, NEW q \in Processes,
                      life_pc'[r] = "unlink", Holds(q)', mapped[q] = mapped[r]
               PROVE  need_remap[mapped[r]] \/ mapped[r] \in early \cup raced
    BY <1>1 DEF RemovedUnused
  <2>1. life_pc[r] = "unlink" /\ Holds(q)
    BY <1>2, <1>3
  <2> QED
    BY <2>1 DEF KeysInv, RemovedUnused
<1>6. Life!RemovedWithLastUser'
  <2> SUFFICES ASSUME key # 0, ceiling[key] # 0, key \notin early \cup orphaned,
                      reference_count'[key] = 0
               PROVE  \E q \in Processes :
                        mapped[q] = key /\ life_pc'[q] \in {"increase", "counted", "unlink"}
    BY <1>1 DEF Life!RemovedWithLastUser
  <2>1. CASE key = mapped[p]
    BY <1>2, <2>1
  <2>2. CASE key # mapped[p]
    <3>1. reference_count[key] = 0
      BY <1>1, <2>2, KeyMade DEF LifeInv, LifeTypeOK
    <3>2. PICK q \in Processes :
            mapped[q] = key /\ life_pc[q] \in {"increase", "counted", "unlink"}
      BY <3>1 DEF KeysInv, Life!RemovedWithLastUser
    <3> QED
      BY <1>2, <2>2, <3>2
  <2> QED
    BY <2>1, <2>2
<1> QED
  BY <1>4, <1>5, <1>6 DEF KeysInv

(* At a count of zero nobody uses the segment, and who is about to is noticed. *)
LEMMA KeysReadStep ==
  ASSUME LifeInv, KeysInv, NEW p \in Processes, Life!DestoryRead(p)
  PROVE  KeysInv'
<1>1. /\ life_pc[p] = "counted"
      /\ UNCHANGED <<key, ceiling, reference_count, need_remap, early, orphaned, init>>
  BY DEF Life!DestoryRead, Life!segmentVars
<1>2. mapped[p] # 0 /\ mapped[p] \in Life!Segments /\ ~ init[p]
  BY <1>1, HolderMapped DEF LastSteps, LifeInv, Attachment, InitSteps, UsingSteps
<1>3. CASE reference_count[mapped[p]] # 0
  <2>1. /\ life_pc' = [life_pc EXCEPT ![p] = "idle"] /\ UNCHANGED raced
        /\ mapped' = [mapped EXCEPT ![p] = 0]
    BY <1>3 DEF Life!DestoryRead, Life!Jump
  <2>2. /\ life_pc'[p] = "idle"
        /\ \A q \in Processes \ {p} : life_pc'[q] = life_pc[q] /\ mapped'[q] = mapped[q]
    BY <2>1 DEF LifeInv, LifeTypeOK
  <2>3. ~ Holds(p)'
    BY <1>1, <1>2, <2>2 DEF Holds
  <2> QED
    BY <1>1, <1>3, <2>1, <2>2, <2>3, KeysQuiet
<1>4. CASE reference_count[mapped[p]] = 0
  <2>1. /\ life_pc' = [life_pc EXCEPT ![p] = "unlink"] /\ UNCHANGED mapped
        /\ raced' = IF \E q \in Processes : life_pc[q] = "increase" /\ mapped[q] = mapped[p]
                    THEN raced \cup {mapped[p]} ELSE raced
    BY <1>4 DEF Life!DestoryRead, Life!Jump
  <2>2. /\ life_pc'[p] = "unlink" /\ raced \subseteq raced'
        /\ \A q \in Processes \ {p} : life_pc'[q] = life_pc[q]
    BY <2>1 DEF LifeInv, LifeTypeOK
  <2>3. \A q \in Processes : Holds(q)' => Holds(q)
    BY <1>1, <2>2 DEF Holds
  <2>4. KeyKept'
    BY <1>1, <2>1, <2>2, <2>3 DEF KeysInv, KeyKept
  <2>5. ASSUME NEW q \in Processes, Holds(q)', mapped[q] = mapped[p],
               ~ need_remap[mapped[p]], mapped[p] \notin early
        PROVE  mapped[p] \in raced'
    <3>1. q # p /\ Holds(q)
      BY <1>1, <1>2, <2>2, <2>3, <2>5 DEF Holds
    <3>2. ~ init[q]
      <4>1. /\ reference_count[mapped[p]] = lost[mapped[p]] + Cardinality(Users(mapped[p]))
            /\ lost[mapped[p]] \in Nat
        BY <1>2, <2>5 DEF LifeInv, UsersCounted, LifeTypeOK
      <4>2. IsFiniteSet(Users(mapped[p])) /\ Cardinality(Users(mapped[p])) = 0
        BY <1>4, <4>1, UsersFinite
      <4>3. Users(mapped[p]) = {}
        BY <4>2, FS_EmptySet
      <4> QED
        BY <2>5, <4>3 DEF Users
    <3>3. life_pc[q] \notin CreatingSteps
      BY <1>1, <1>2, <2>5 DEF LifeInv, Unbuilt, CreatingSteps
    <3> QED
      BY <2>1, <2>5, <3>1, <3>2, <3>3 DEF Holds, CreatingSteps
  <2>6. RemovedUnused'
    <3> SUFFICES ASSUME NEW r \in Processes, NEW q \in Processes,
                        life_pc'[r] = "unlink", Holds(q)', mapped[q] = mapped[r]
                 PROVE  need_remap[mapped[r]] \/ mapped[r] \in early \cup raced'
      BY <1>1, <2>1 DEF RemovedUnused
    <3>1. CASE r = p
      BY <2>5, <3>1
    <3>2. CASE r # p
      BY <2>2, <2>3, <3>2 DEF KeysInv, RemovedUnused
    <3> QED
      BY <3>1, <3>2
  <2>7. Life!RemovedWithLastUser'
    <3> SUFFICES ASSUME key # 0, ceiling[key] # 0, key \notin early \cup orphaned,
                        reference_count[key] = 0
                 PROVE  \E q \in Processes :
                          mapped[q] = key /\ life_pc'[q] \in {"increase", "counted", "unlink"}
      BY <1>1, <2>1 DEF Life!RemovedWithLastUser
    <3>1. PICK q \in Processes :
            mapped[q] = key /\ life_pc[q] \in {"increase", "counted", "unlink"}
      BY DEF KeysInv, Life!RemovedWithLastUser
    <3> QED
      BY <2>2, <3>1
  <2> QED
    BY <2>4, <2>6, <2>7 DEF KeysInv
<1> QED
  BY <1>3, <1>4

LEMMA KeysStep ==
  ASSUME LifeInv, KeysInv, [Life!LifeNext]_Life!lifeVars
  PROVE  KeysInv'
<1>1. CASE UNCHANGED Life!lifeVars
  BY <1>1 DEF Life!lifeVars, KeysInv, KeyKept, RemovedUnused, Holds, Life!RemovedWithLastUser
<1>2. CASE Life!LifeNext
  BY <1>2, KeysLocalStep, KeysLeaveStep, KeysRemoveStep, KeysDieStep, KeysCreateStep,
     KeysBuildStep, KeysOpenStep, KeysIncreaseStep, KeysDestoryStep, KeysReadStep
     DEF Life!LifeNext
<1> QED
  BY <1>1, <1>2

(***************************************************************************)
(* For any number of processes, message sizes and failing calls: the       *)
(* reference count of a segment is the number of its users and of the      *)
(* references dead processes left (at least that, once it is flagged); a   *)
(* segment keeps its key while it has users, and one without references is *)
(* in the hands of a process that will use or remove it; and an attached   *)
(* object lays the blocks out as the segment's creator did.  The           *)
(* exceptions are those SegmentExact names.                                *)
(***************************************************************************)
THEOREM SegmentIsExact == Life!LifeSpec => []SegmentExact
<1>1. LifeInv /\ KeysInv => SegmentExact
  <2> SUFFICES ASSUME LifeInv, KeysInv
               PROVE  SegmentExact
    OBVIOUS
  <2>1. Life!ReferenceExact
    <3>1. \A s \in Life!Segments : Life!Cardinality(Life!Users(s)) = Cardinality(Users(s))
      <4>1. \A s \in Life!Segments : Life!Users(s) = Users(s)
        BY DEF Users, Life!Users
      <4>2. \A s \in Life!Segments : Life!Cardinality(Users(s)) = Cardinality(Users(s))
        BY Zenon DEF Life!Cardinality, Cardinality
      <4> QED
        BY <4>1, <4>2
    <3> QED
      BY <3>1 DEF Life!ReferenceExact, LifeInv, UsersCounted
  <2>2. Life!RemovedNotBefore /\ Life!RemovedWithLastUser
    BY DEF KeysInv, KeyKept, Holds, Life!RemovedNotBefore
  <2>3. Life!GeometryAgrees
    BY DEF LifeInv, LaidOut, Life!GeometryAgrees
  <2> QED
    BY <2>1, <2>2, <2>3 DEF SegmentExact
<1>2. Life!LifeInit => LifeInv /\ KeysInv
  BY LifeInitially
     DEF Life!LifeInit, KeysInv, KeyKept, RemovedUnused, Holds, Life!RemovedWithLastUser
<1>3. LifeInv /\ KeysInv /\ [Life!LifeNext]_Life!lifeVars => LifeInv' /\ KeysInv'
  BY LifeStep, KeysStep
<1> QED
  BY <1>1, <1>2, <1>3, PTL DEF Life!LifeSpec

-----------------------------------------------------------------------------
(* Enabling and disabling a receiver's listeners (Listeners). *)

CallSteps == {"idle", "create", "connect", "store", "segment", "disconnect"}
EnablingSteps == {"create", "connect", "store", "segment"}

Calls == [does : CallSteps, key : Listening!Keyed, handler : {Nothing, 1},
          slot : Nat \cup {Nothing}]
Runs == [phase : {"idle", "all", "lock"}, handler : {Nothing, 1}, from : {Foreign},
         todo : SUBSET Nat, calls : Nat, steady : BOOLEAN]

ListenTypeOK ==
  /\ made_slots \in [slots : Nat, handlers : {0, 1}]
  /\ current = IF made_slots.handlers = 0 THEN Nothing ELSE 1
  /\ slots \in [Listening!Ids -> [Listening!Keyed -> SUBSET Nat]]
  /\ conn \in [Listening!Ids -> [Listening!Keyed -> Nat \cup {Nothing}]]
  /\ connected \in SUBSET Nat /\ receives \in BOOLEAN
  /\ call \in [Callers -> Calls] /\ run \in Runs
  /\ enables \in [Listening!Keyed -> Nat] /\ off \in [Listening!Keyed -> BOOLEAN]

Enabling(c, k) == call[c].key = k /\ call[c].does \in EnablingSteps

(* The first Enable is the one for All, and it makes the only handler. *)
OneHandler ==
  /\ enables[All] # 0 => 1 \in Listening!Ids
  /\ enables[All] = 0 => /\ made_slots.handlers = 0 /\ ~ receives
                         /\ \A c \in Callers : call[c].does = "idle"
                         /\ \A w \in Opposites : enables[w] = 0
  /\ \A w \in Opposites : enables[w] # 0 => made_slots.handlers = 1
  /\ receives => made_slots.handlers = 1
  /\ run.phase # "idle" => run.handler = 1 /\ made_slots.handlers = 1
  /\ \A c \in Callers :
       /\ call[c].does \in {"connect", "store", "segment", "disconnect"} =>
            call[c].handler = 1 /\ made_slots.handlers = 1
       /\ call[c].does \in {"create", "store"} => call[c].key = All
       /\ call[c].does = "create" => made_slots.handlers = 0

(* Until the Enable for All returns nobody else enables or disables. *)
AllAlone ==
  \A c \in Callers : Enabling(c, All) =>
    /\ ~ receives
    /\ \A d \in Callers \ {c} : call[d].does = "idle"
    /\ \A w \in Opposites : enables[w] = 0

(* The receiver's own slot: connected, then stored, then in use. *)
AllSlot ==
  /\ made_slots.handlers = 0 => \A h \in Listening!Ids : slots[h][All] = {}
  /\ \A c \in Callers : call[c].key = All =>
       /\ call[c].does = "connect" => slots[1][All] = {}
       /\ call[c].does \in {"store", "segment"} =>
            call[c].slot \in Nat /\ call[c].slot \in connected /\ slots[1][All] = {call[c].slot}
       /\ call[c].does = "segment" => conn[1][All] = call[c].slot
  /\ receives => /\ conn[1][All] \in Nat /\ conn[1][All] \in connected
                 /\ slots[1][All] = {conn[1][All]}

(* The slots that connections are stored for. *)
ConnectionsDiffer ==
  /\ \A s \in connected : s <= made_slots.slots
  /\ \A h \in Listening!Ids, k \in Listening!Keyed :
       conn[h][k] # Nothing => conn[h][k] <= made_slots.slots
  /\ \A h \in Listening!Ids, k, l \in Listening!Keyed :
       conn[h][k] # Nothing /\ conn[h][k] = conn[h][l] => k = l

(* No call for w has been made, or one that is to connect a slot, or one   *)
(* that has connected it, or one whose slot was disconnected.              *)
Unserved(w) ==
  1 \in Listening!Ids => slots[1][w] = {} /\ conn[1][w] = Nothing

ServedOnce ==
  \A w \in Opposites :
    /\ enables[w] = 0 => Unserved(w) /\ ~ off[w] /\ \A c \in Callers : ~ Enabling(c, w)
    /\ enables[w] = 1 =>
         /\ \A c, d \in Callers : Enabling(c, w) /\ Enabling(d, w) => c = d
         /\ IF \E c \in Callers : call[c].key = w /\ call[c].does = "connect"
            THEN Unserved(w) /\ ~ off[w]
            ELSE IF off[w] THEN Unserved(w)
            ELSE conn[1][w] \in connected /\ slots[1][w] = {conn[1][w]}

(* While it is enabled throughout, Run calls the receiver's slot once. *)
RunsOnce ==
  run.steady =>
    /\ receives
    /\ \/ run.phase = "all" /\ run.todo = {conn[1][All]} /\ run.calls = 0
       \/ run.todo = {} /\ run.calls = 1

ListenInv ==
  ListenTypeOK /\ OneHandler /\ AllAlone /\ AllSlot /\ ConnectionsDiffer /\ ServedOnce /\ RunsOnce

LEMMA Keys ==
  /\ All \in Listening!Keyed /\ Opposites \subseteq Listening!Keyed /\ All \notin Opposites
  /\ \A k \in Listening!Keyed : k = All \/ k \in Opposites
  BY ListenConstants DEF Listening!Keyed

(* A caller's record is replaced. *)
LEMMA CallReplaced ==
  ASSUME ListenTypeOK, NEW c \in Callers, NEW r \in Calls, call' = [call EXCEPT ![c] = r]
  PROVE  /\ call' \in [Callers -> Calls] /\ call'[c] = r
         /\ \A d \in Callers \ {c} : call'[d] = call[d]
  BY DEF ListenTypeOK

(* Enable begins. *)
LEMMA ListenEnableStep ==
  ASSUME ListenInv, NEW c \in Callers, NEW k \in Listening!Keyed, Listening!Enable(c, k)
  PROVE  ListenInv'
<1> USE DEF ListenInv
<1> DEFINE r == [Listening!Idle EXCEPT !.key = k, !.handler = current,
                   !.does = IF current = Nothing THEN "create" ELSE "connect"]
<1>1. /\ call[c].does = "idle" /\ ~ off[All]
      /\ k = All => enables[All] = 0
      /\ k # All => receives
      /\ call' = [call EXCEPT ![c] = r]
      /\ enables' = [enables EXCEPT ![k] = @ + 1] /\ off' = [off EXCEPT ![k] = FALSE]
      /\ UNCHANGED <<current, slots, conn, connected, made_slots, receives, run>>
  BY DEF Listening!Enable
<1>2. 1 \in Listening!Ids
  <2>1. IsFiniteSet({d \in Callers : call[d].does \in {"create", "connect"}})
    BY ListenConstants, FS_Subset
  <2>2. Cardinality({d \in Callers : call[d].does \in {"create", "connect"}}) \in Nat
    BY <2>1, FS_CardinalityType
  <2>3. Listening!Cardinality({d \in Callers : call[d].does \in {"create", "connect"}})
          = Cardinality({d \in Callers : call[d].does \in {"create", "connect"}})
    BY Zenon DEF Listening!Cardinality, Cardinality
  <2>4. made_slots.slots
          + Listening!Cardinality({d \in Callers : call[d].does \in {"create", "connect"}})
          < MaxEnables
    BY DEF Listening!Enable
  <2>5. made_slots.slots \in Nat
    BY DEF ListenTypeOK
  <2> QED
    BY <2>2, <2>3, <2>4, <2>5, ListenConstants DEF Listening!Ids
<1>3. /\ r \in Calls /\ r.key = k /\ r.handler = current
      /\ r.does = IF current = Nothing THEN "create" ELSE "connect"
  BY DEF Listening!Idle, Calls, CallSteps, ListenTypeOK
<1>4. /\ call' \in [Callers -> Calls] /\ call'[c] = r
      /\ \A d \in Callers \ {c} : call'[d] = call[d]
  BY <1>1, <1>3, CallReplaced
<1>5. /\ enables' \in [Listening!Keyed -> Nat] /\ off' \in [Listening!Keyed -> BOOLEAN]
      /\ enables[k] \in Nat /\ enables'[k] = enables[k] + 1 /\ off'[k] = FALSE
      /\ \A l \in Listening!Keyed \ {k} : enables'[l] = enables[l] /\ off'[l] = off[l]
  BY <1>1 DEF ListenTypeOK
<1> HIDE DEF r
<1>6. ListenTypeOK'
  BY <1>1, <1>4, <1>5 DEF ListenTypeOK
<1>7. ConnectionsDiffer' /\ RunsOnce'
  BY <1>1 DEF ConnectionsDiffer, RunsOnce
<1>8. CASE k = All
  <2>1. /\ made_slots.handlers = 0 /\ current = Nothing /\ ~ receives /\ enables'[All] = 1
        /\ \A d \in Callers : call[d].does = "idle"
        /\ \A w \in Opposites : enables[w] = 0 /\ enables'[w] = 0 /\ off'[w] = off[w]
    <3>1. /\ made_slots.handlers = 0 /\ ~ receives
          /\ \A d \in Callers : call[d].does = "idle"
          /\ \A w \in Opposites : enables[w] = 0
      BY <1>1, <1>8 DEF OneHandler
    <3>2. current = Nothing
      BY <3>1 DEF ListenTypeOK
    <3>3. enables'[All] = 1
      BY <1>1, <1>5, <1>8
    <3>4. \A w \in Opposites : w \in Listening!Keyed \ {k}
      BY <1>8, Keys
    <3> QED
      BY <1>5, <3>1, <3>2, <3>3, <3>4
  <2>2. call'[c].does = "create" /\ call'[c].key = All
    BY <1>3, <1>4, <1>8, <2>1
  <2>3. OneHandler'
    BY <1>1, <1>2, <1>4, <2>1, <2>2, Keys DEF OneHandler
  <2>4. AllAlone'
    BY <1>1, <1>4, <2>1, <2>2 DEF AllAlone, Enabling, EnablingSteps
  <2>5. AllSlot'
    BY <1>1, <1>4, <2>1, <2>2 DEF AllSlot
  <2>6. ServedOnce'
    BY <1>1, <1>4, <2>1, <2>2, Keys DEF ServedOnce, Enabling, EnablingSteps, Unserved
  <2> QED
    BY <1>6, <1>7, <2>3, <2>4, <2>5, <2>6
<1>9. CASE k # All
  <2>1. /\ made_slots.handlers = 1 /\ current = 1 /\ current # Nothing /\ receives
        /\ enables[All] # 0 /\ enables'[All] = enables[All]
    BY <1>1, <1>5, <1>9, Keys, ListenConstants DEF OneHandler, ListenTypeOK
  <2>2. call'[c].does = "connect" /\ call'[c].key = k /\ call'[c].handler = 1
    BY <1>3, <1>4, <1>9, <2>1
  <2>3. OneHandler'
    BY <1>1, <1>2, <1>4, <2>1, <2>2, Keys DEF OneHandler
  <2>4. AllAlone'
    BY <1>1, <1>4, <1>9, <2>1, <2>2 DEF AllAlone, Enabling
  <2>5. AllSlot'
    BY <1>1, <1>4, <1>9, <2>1, <2>2 DEF AllSlot
  <2>6. ServedOnce'
    <3> SUFFICES ASSUME NEW w \in Opposites
                 PROVE  /\ enables'[w] = 0 => /\ Unserved(w) /\ ~ off'[w]
                                              /\ \A d \in Callers : ~ Enabling(d, w)'
                        /\ enables'[w] = 1 =>
                           /\ \A d, e \in Callers : Enabling(d, w)' /\ Enabling(e, w)' => d = e
                           /\ IF \E d \in Callers : call'[d].key = w /\ call'[d].does = "connect"
                              THEN Unserved(w) /\ ~ off'[w]
                              ELSE IF off'[w] THEN Unserved(w)
                              ELSE conn[1][w] \in connected /\ slots[1][w] = {conn[1][w]}
      BY <1>1 DEF ServedOnce, Unserved
    <3>1. CASE w # k
      <4>1. enables'[w] = enables[w] /\ off'[w] = off[w]
        BY <1>5, <3>1, Keys
      <4>2. \A d \in Callers : Enabling(d, w)' <=> Enabling(d, w)
        BY <1>1, <1>4, <2>2, <3>1 DEF Enabling, EnablingSteps
      <4>3. \A d \in Callers : call'[d].key = w /\ call'[d].does = "connect"
                                 <=> call[d].key = w /\ call[d].does = "connect"
        BY <1>1, <1>4, <2>2, <3>1
      <4> QED
        BY <4>1, <4>2, <4>3 DEF ServedOnce
    <3>2. CASE w = k
      <4>1. CASE enables[k] = 0
        BY <1>4, <1>5, <2>2, <3>2, <4>1 DEF ServedOnce, Enabling
      <4>2. CASE enables[k] # 0
        BY <1>5, <3>2, <4>2
      <4> QED
        BY <4>1, <4>2
    <3> QED
      BY <3>1, <3>2
  <2> QED
    BY <1>6, <1>7, <2>3, <2>4, <2>5, <2>6
<1> QED
  BY <1>8, <1>9

(* The handler is made and set. *)
LEMMA ListenSetStep ==
  ASSUME ListenInv, NEW c \in Callers, Listening!AddListenerSet(c)
  PROVE  ListenInv'
<1> USE DEF ListenInv
<1>1. /\ call[c].does = "create" /\ call[c].key = All /\ made_slots.handlers = 0
      /\ made_slots.slots \in Nat /\ call[c] \in Calls
      /\ UNCHANGED <<slots, conn, connected, receives, run, enables, off>>
  BY DEF Listening!AddListenerSet, OneHandler, ListenTypeOK
<1>2. made_slots' \in [slots : Nat, handlers : {0, 1}]
      /\ made_slots'.handlers = 1 /\ made_slots'.slots = made_slots.slots
  BY <1>1 DEF Listening!AddListenerSet, ListenTypeOK
<1>3. current' = 1
  BY <1>2 DEF Listening!AddListenerSet
<1>4. call' = [call EXCEPT ![c] = [call[c] EXCEPT !.does = "connect", !.handler = 1]]
  BY <1>1, <1>2 DEF Listening!AddListenerSet, ListenTypeOK, Calls
<1> DEFINE r == [call[c] EXCEPT !.does = "connect", !.handler = 1]
<1>5. r \in Calls /\ r.does = "connect" /\ r.key = All /\ r.handler = 1
  BY <1>1 DEF CallSteps, Calls
<1> HIDE DEF r
<1>6. /\ call' \in [Callers -> Calls]
      /\ call'[c].does = "connect" /\ call'[c].key = All /\ call'[c].handler = 1
      /\ \A d \in Callers \ {c} : call'[d] = call[d]
  <2>1. call' = [call EXCEPT ![c] = r]
    BY <1>4 DEF r
  <2>2. /\ call' \in [Callers -> Calls] /\ call'[c] = r
        /\ \A d \in Callers \ {c} : call'[d] = call[d]
    BY <1>5, <2>1, CallReplaced
  <2> QED
    BY <1>5, <2>2
<1>7. /\ ~ receives /\ \A d \in Callers \ {c} : call[d].does = "idle"
      /\ \A w \in Opposites : enables[w] = 0
  BY <1>1 DEF AllAlone, Enabling, EnablingSteps
<1>8. ListenTypeOK'
  BY <1>1, <1>2, <1>3, <1>6 DEF ListenTypeOK
<1>9. OneHandler'
  BY <1>1, <1>2, <1>6, <1>7 DEF OneHandler
<1>10. AllAlone'
  BY <1>1, <1>6, <1>7 DEF AllAlone, Enabling, EnablingSteps
<1>11. AllSlot'
  <2>1. 1 \in Listening!Ids
    BY <1>1 DEF OneHandler
  <2> QED
    BY <1>1, <1>2, <1>6, <1>7, <2>1 DEF AllSlot
<1>12. ConnectionsDiffer' /\ RunsOnce'
  BY <1>1, <1>2 DEF ConnectionsDiffer, RunsOnce
<1>13. ServedOnce'
  BY <1>1, <1>6, <1>7, Keys DEF ServedOnce, Enabling, EnablingSteps, Unserved
<1> QED
  BY <1>8, <1>9, <1>10, <1>11, <1>12, <1>13

LEMMA TwoLevels ==
  ASSUME NEW A, NEW B, NEW C, NEW f \in [A -> [B -> C]], NEW a \in A, NEW b \in B, NEW v \in C,
         NEW g, g = [f EXCEPT ![a][b] = v]
  PROVE  /\ g \in [A -> [B -> C]] /\ g[a][b] = v
         /\ \A x \in A, y \in B : x # a \/ y # b => g[x][y] = f[x][y]
  OBVIOUS

(* A slot is made, connected and, for a writer, stored. *)
LEMMA ListenConnectStep ==
  ASSUME ListenInv, NEW c \in Callers, Listening!Connect(c)
  PROVE  ListenInv'
<1> USE DEF ListenInv
<1> DEFINE k == call[c].key
           s == made_slots.slots + 1
           x == IF k = All THEN "store" ELSE "segment"
<1>1. /\ call[c].does = "connect" /\ call[c].handler = 1 /\ made_slots.handlers = 1
      /\ call[c] \in Calls /\ k \in Listening!Keyed
      /\ connected' = connected \cup {s}
      /\ UNCHANGED <<current, receives, run, enables, off>>
  BY DEF Listening!Connect, OneHandler, ListenTypeOK, Calls
<1>2. /\ made_slots.slots \in Nat /\ s \in Nat /\ s # Nothing
      /\ made_slots' \in [slots : Nat, handlers : {0, 1}]
      /\ made_slots'.slots = s /\ made_slots'.handlers = 1
  BY <1>1, ListenConstants DEF Listening!Connect, ListenTypeOK
<1>3. 1 \in Listening!Ids /\ enables[All] # 0
  BY <1>1 DEF OneHandler
<1>4. /\ slots' \in [Listening!Ids -> [Listening!Keyed -> SUBSET Nat]]
      /\ slots'[1][k] = slots[1][k] \cup {s}
      /\ \A h \in Listening!Ids, l \in Listening!Keyed : h # 1 \/ l # k => slots'[h][l] = slots[h][l]
  <2>1. slots \in [Listening!Ids -> [Listening!Keyed -> SUBSET Nat]]
    BY DEF ListenTypeOK
  <2>2. slots[1][k] \cup {s} \in SUBSET Nat
    BY <1>1, <1>2, <1>3, <2>1
  <2>3. slots' = [slots EXCEPT ![1][k] = slots[1][k] \cup {s}]
    BY <1>1 DEF Listening!Connect
  <2> QED
    BY <1>1, <1>3, <2>1, <2>2, <2>3, TwoLevels
<1>5. k # All =>
        /\ conn' \in [Listening!Ids -> [Listening!Keyed -> Nat \cup {Nothing}]]
        /\ conn'[1][k] = s
        /\ \A h \in Listening!Ids, l \in Listening!Keyed : h # 1 \/ l # k => conn'[h][l] = conn[h][l]
  <2> SUFFICES ASSUME k # All
               PROVE  /\ conn' \in [Listening!Ids -> [Listening!Keyed -> Nat \cup {Nothing}]]
                      /\ conn'[1][k] = s
                      /\ \A h \in Listening!Ids, l \in Listening!Keyed :
                           h # 1 \/ l # k => conn'[h][l] = conn[h][l]
    OBVIOUS
  <2>1. conn \in [Listening!Ids -> [Listening!Keyed -> Nat \cup {Nothing}]]
    BY DEF ListenTypeOK
  <2>2. conn' = [conn EXCEPT ![1][k] = s] /\ s \in Nat \cup {Nothing}
    BY <1>1, <1>2 DEF Listening!Connect
  <2> QED
    BY <1>1, <1>3, <2>1, <2>2, TwoLevels
<1>6. k = All => conn' = conn
  BY DEF Listening!Connect
<1>7. /\ call' \in [Callers -> Calls] /\ call'[c].does = x /\ call'[c].key = k
      /\ call'[c].handler = 1 /\ call'[c].slot = s
      /\ \A d \in Callers \ {c} : call'[d] = call[d]
  <2>1. call' = [call EXCEPT ![c] = [call[c] EXCEPT !.does = x, !.handler = 1, !.slot = s]]
    <3>1. call' = [call EXCEPT ![c].does = x, ![c].slot = s]
      BY DEF Listening!Connect
    <3>2. call \in [Callers -> Calls]
      BY DEF ListenTypeOK
    <3>3. [call[c] EXCEPT !.does = x, !.slot = s] = [call[c] EXCEPT !.does = x, !.handler = 1, !.slot = s]
      BY <1>1 DEF Calls
    <3>4. call' = [call EXCEPT ![c] = [call[c] EXCEPT !.does = x, !.slot = s]]
      BY <3>1, <3>2, Zenon
    <3> QED
      BY <3>3, <3>4
  <2> DEFINE r == [call[c] EXCEPT !.does = x, !.handler = 1, !.slot = s]
  <2>2. r \in Calls /\ r.does = x /\ r.key = k /\ r.handler = 1 /\ r.slot = s
    BY <1>1, <1>2 DEF Calls, CallSteps
  <2> HIDE DEF r
  <2>3. call' = [call EXCEPT ![c] = r]
    BY <2>1 DEF r
  <2>4. /\ call' \in [Callers -> Calls] /\ call'[c] = r
        /\ \A d \in Callers \ {c} : call'[d] = call[d]
    BY <2>2, <2>3, CallReplaced
  <2> QED
    BY <2>2, <2>4
<1>8. connected \subseteq connected' /\ s \in connected'
  BY <1>1
<1>9. ListenTypeOK'
  BY <1>1, <1>2, <1>4, <1>5, <1>6, <1>7 DEF ListenTypeOK
<1> HIDE DEF k, s
<1>10. OneHandler'
  BY <1>1, <1>2, <1>3, <1>7 DEF OneHandler
<1>11. ConnectionsDiffer'
  <2>1. \A t \in connected : t \in Nat
    BY DEF ListenTypeOK
  <2>2. \A h \in Listening!Ids, l \in Listening!Keyed : conn[h][l] # Nothing => conn[h][l] \in Nat
    BY DEF ListenTypeOK
  <2>3. s = made_slots.slots + 1
    BY DEF s
  <2>4. \A t \in connected' : t <= made_slots'.slots
    BY <1>1, <1>2, <2>1, <2>3 DEF ConnectionsDiffer
  <2>5. CASE k = All
    BY <1>2, <1>6, <2>2, <2>3, <2>4, <2>5 DEF ConnectionsDiffer
  <2>6. CASE k # All
    BY <1>1, <1>2, <1>3, <1>5, <2>2, <2>3, <2>4, <2>6, SMTT(30) DEF ConnectionsDiffer
  <2> QED
    BY <2>5, <2>6
<1>12. CASE k = All
  <2>1. /\ ~ receives /\ \A d \in Callers \ {c} : call[d].does = "idle"
        /\ \A w \in Opposites : enables[w] = 0
    BY <1>1, <1>12 DEF AllAlone, Enabling, EnablingSteps, k
  <2>2. call'[c].does = "store" /\ call'[c].key = All
    BY <1>7, <1>12
  <2>3. AllAlone'
    BY <1>1, <1>7, <2>1, <2>2 DEF AllAlone, Enabling, EnablingSteps
  <2>4. slots'[1][All] = {s}
    BY <1>1, <1>4, <1>12 DEF AllSlot, k
  <2>5. AllSlot'
    BY <1>1, <1>2, <1>7, <1>8, <2>1, <2>2, <2>4 DEF AllSlot
  <2>6. RunsOnce'
    BY <1>1, <2>1 DEF RunsOnce
  <2>7. ServedOnce'
    BY <1>1, <1>4, <1>6, <1>7, <1>12, <2>1, <2>2, Keys
       DEF ServedOnce, Enabling, EnablingSteps, Unserved
  <2> QED
    BY <1>9, <1>10, <1>11, <2>3, <2>5, <2>6, <2>7
<1>13. CASE k # All
  <2>1. k \in Opposites /\ enables[k] # 0
    BY <1>1, <1>13, Keys DEF ServedOnce, Enabling, EnablingSteps, k
  <2>2. call'[c].does = "segment" /\ call'[c].key = k
    BY <1>7, <1>13
  <2>3. AllAlone'
    BY <1>1, <1>7, <1>13, <2>2 DEF AllAlone, Enabling, EnablingSteps
  <2>4. slots'[1][All] = slots[1][All] /\ conn'[1][All] = conn[1][All]
    BY <1>3, <1>4, <1>5, <1>13, Keys
  <2>5. AllSlot'
    BY <1>1, <1>2, <1>7, <1>8, <1>13, <2>2, <2>4 DEF AllSlot
  <2>6. RunsOnce'
    BY <1>1, <2>4 DEF RunsOnce
  <2>7. ASSUME NEW w \in Opposites
        PROVE  /\ enables[w] = 0 => /\ Unserved(w)' /\ ~ off[w]
                                    /\ \A d \in Callers : ~ Enabling(d, w)'
               /\ enables[w] = 1 =>
                    /\ \A d, e \in Callers : Enabling(d, w)' /\ Enabling(e, w)' => d = e
                    /\ IF \E d \in Callers : call'[d].key = w /\ call'[d].does = "connect"
                       THEN Unserved(w)' /\ ~ off[w]
                       ELSE IF off[w] THEN Unserved(w)'
                       ELSE conn'[1][w] \in connected' /\ slots'[1][w] = {conn'[1][w]}
    <3>1. \A d \in Callers : Enabling(d, w)' <=> Enabling(d, w)
      BY <1>1, <1>7, <2>2 DEF Enabling, EnablingSteps, k
    <3>2. CASE w # k
      <4>1. \A d \in Callers : call'[d].key = w /\ call'[d].does = "connect"
                                 <=> call[d].key = w /\ call[d].does = "connect"
        BY <1>1, <1>7, <2>2, <3>2 DEF k
      <4>2. Unserved(w)' <=> Unserved(w)
        BY <1>4, <1>5, <1>13, <3>2, Keys DEF Unserved
      <4>3. conn'[1][w] = conn[1][w] /\ slots'[1][w] = slots[1][w]
        BY <1>3, <1>4, <1>5, <1>13, <3>2, Keys
      <4> QED
        BY <1>8, <3>1, <4>1, <4>2, <4>3 DEF ServedOnce
    <3>3. CASE w = k
      <4>1. CASE enables[w] = 1
        <5>1. /\ \A d, e \in Callers : Enabling(d, w) /\ Enabling(e, w) => d = e
              /\ Unserved(w) /\ ~ off[w]
          BY <1>1, <3>3, <4>1 DEF ServedOnce, k
        <5>2. ASSUME NEW d \in Callers PROVE ~ (call'[d].key = w /\ call'[d].does = "connect")
          <6>1. Enabling(c, w)
            BY <1>1, <3>3 DEF Enabling, EnablingSteps, k
          <6>2. CASE d = c
            BY <2>2, <6>2
          <6>3. CASE d # c
            BY <1>7, <5>1, <6>1, <6>3 DEF Enabling, EnablingSteps
          <6> QED
            BY <6>2, <6>3
        <5>3. conn'[1][w] = s /\ slots'[1][w] = {s}
          BY <1>3, <1>4, <1>5, <1>13, <3>3, <5>1 DEF Unserved
        <5> QED
          BY <1>8, <3>1, <4>1, <5>1, <5>2, <5>3
      <4> QED
        BY <2>1, <3>3, <4>1
    <3> QED
      BY <3>2, <3>3
  <2>8. ServedOnce'
    BY <1>1, <2>7 DEF ServedOnce
  <2> QED
    BY <1>9, <1>10, <1>11, <2>3, <2>5, <2>6, <2>8
<1> QED
  BY <1>12, <1>13

(* The connection of the receiver's own slot is stored. *)
LEMMA ListenStoreStep ==
  ASSUME ListenInv, NEW c \in Callers, Listening!ConnectStore(c)
  PROVE  ListenInv'
<1> USE DEF ListenInv
<1> DEFINE s == call[c].slot
<1>1. /\ call[c].does = "store" /\ call[c].key = All /\ call[c].handler = 1
      /\ made_slots.handlers = 1 /\ enables[All] # 0 /\ 1 \in Listening!Ids
      /\ UNCHANGED <<current, slots, connected, made_slots, receives, run, enables, off>>
  BY DEF Listening!ConnectStore, OneHandler
<1>2. s \in Nat /\ s \in connected /\ slots[1][All] = {s} /\ s \in Nat \cup {Nothing}
      /\ s <= made_slots.slots /\ s # Nothing
  BY <1>1, ListenConstants DEF AllSlot, ConnectionsDiffer
<1>3. /\ ~ receives /\ \A d \in Callers \ {c} : call[d].does = "idle"
      /\ \A w \in Opposites : enables[w] = 0
  BY <1>1 DEF AllAlone, Enabling, EnablingSteps
<1>4. /\ conn' \in [Listening!Ids -> [Listening!Keyed -> Nat \cup {Nothing}]]
      /\ conn'[1][All] = s
      /\ \A h \in Listening!Ids, l \in Listening!Keyed : h # 1 \/ l # All => conn'[h][l] = conn[h][l]
  <2>1. conn \in [Listening!Ids -> [Listening!Keyed -> Nat \cup {Nothing}]]
    BY DEF ListenTypeOK
  <2>2. conn' = [conn EXCEPT ![1][All] = s]
    BY <1>1 DEF Listening!ConnectStore
  <2> QED
    BY <1>1, <1>2, <2>1, <2>2, Keys, TwoLevels
<1>5. /\ call' \in [Callers -> Calls] /\ call'[c].does = "segment" /\ call'[c].key = All
      /\ call'[c].handler = 1 /\ call'[c].slot = s
      /\ \A d \in Callers \ {c} : call'[d] = call[d]
  <2>1. call[c] \in Calls
    BY DEF ListenTypeOK
  <2>2. call' = [call EXCEPT ![c] = [call[c] EXCEPT !.does = "segment", !.handler = 1, !.slot = s]]
    BY <1>1, <2>1 DEF Listening!ConnectStore, ListenTypeOK, Calls
  <2> DEFINE r == [call[c] EXCEPT !.does = "segment", !.handler = 1, !.slot = s]
  <2>3. r \in Calls /\ r.does = "segment" /\ r.key = All /\ r.handler = 1 /\ r.slot = s
    BY <1>1, <1>2, <2>1 DEF Calls, CallSteps
  <2> HIDE DEF r
  <2>4. call' = [call EXCEPT ![c] = r]
    BY <2>2 DEF r
  <2>5. /\ call' \in [Callers -> Calls] /\ call'[c] = r
        /\ \A d \in Callers \ {c} : call'[d] = call[d]
    BY <2>3, <2>4, CallReplaced
  <2> QED
    BY <2>3, <2>5
<1> HIDE DEF s
<1>6. ListenTypeOK'
  BY <1>1, <1>4, <1>5 DEF ListenTypeOK
<1>7. OneHandler'
  BY <1>1, <1>5 DEF OneHandler
<1>8. AllAlone'
  BY <1>1, <1>3, <1>5 DEF AllAlone, Enabling, EnablingSteps
<1>9. AllSlot'
  BY <1>1, <1>2, <1>3, <1>4, <1>5 DEF AllSlot
<1>10. ConnectionsDiffer'
  <2>1. \A w \in Opposites : conn[1][w] = Nothing
    BY <1>1, <1>3 DEF ServedOnce, Unserved
  <2>2. \A l \in Listening!Keyed : l # All => conn'[1][l] = Nothing
    BY <1>1, <1>4, <2>1, Keys
  <2> QED
    <3>1. \A x \in connected' : x <= made_slots'.slots
      BY <1>1, <1>2, <1>4 DEF ConnectionsDiffer
    <3>2. \A h \in Listening!Ids, k \in Listening!Keyed :
            conn'[h][k] # Nothing => conn'[h][k] <= made_slots'.slots
      BY <1>1, <1>2, <1>4, <2>2 DEF ConnectionsDiffer
    <3>3. \A h \in Listening!Ids, k, l \in Listening!Keyed :
            conn'[h][k] # Nothing /\ conn'[h][k] = conn'[h][l] => k = l
      BY <1>1, <1>2, <1>4, <2>2 DEF ConnectionsDiffer
    <3> QED
      BY <3>1, <3>2, <3>3 DEF ConnectionsDiffer
<1>11. RunsOnce'
  BY <1>1, <1>3 DEF RunsOnce
<1>12. ServedOnce'
  BY <1>1, <1>3, <1>4, <1>5, Keys DEF ServedOnce, Enabling, EnablingSteps, Unserved
<1> QED
  BY <1>6, <1>7, <1>8, <1>9, <1>10, <1>11, <1>12

LEMMA IdleIsCall ==
  /\ Listening!Idle \in Calls /\ Listening!Idle.does = "idle"
  /\ "idle" \notin EnablingSteps /\ "disconnect" \notin EnablingSteps
  BY Keys DEF Listening!Idle, Calls, CallSteps, EnablingSteps

(* Enable returns. *)
LEMMA ListenSegmentStep ==
  ASSUME ListenInv, NEW c \in Callers, Listening!AddSegment(c)
  PROVE  ListenInv'
<1> USE DEF ListenInv
<1>1. /\ call[c].does = "segment" /\ call[c].handler = 1 /\ made_slots.handlers = 1
      /\ enables[All] # 0 /\ receives' = (receives \/ call[c].key = All)
      /\ call' = [call EXCEPT ![c] = Listening!Idle]
      /\ UNCHANGED <<current, slots, conn, connected, made_slots, run, enables, off>>
  BY DEF Listening!AddSegment, OneHandler
<1>2. /\ call' \in [Callers -> Calls] /\ call'[c].does = "idle"
      /\ \A d \in Callers \ {c} : call'[d] = call[d]
  BY <1>1, IdleIsCall, CallReplaced
<1>3. ListenTypeOK'
  BY <1>1, <1>2 DEF ListenTypeOK
<1>4. OneHandler'
  BY <1>1, <1>2 DEF OneHandler
<1>5. ConnectionsDiffer'
  BY <1>1 DEF ConnectionsDiffer
<1>6. CASE call[c].key = All
  <2>1. /\ ~ receives /\ \A d \in Callers \ {c} : call[d].does = "idle"
    BY <1>1, <1>6 DEF AllAlone, Enabling, EnablingSteps
  <2>2. AllAlone'
    BY <1>2, <2>1 DEF AllAlone, Enabling, EnablingSteps
  <2>3. AllSlot'
    BY <1>1, <1>2, <1>6, <2>1 DEF AllSlot
  <2>4. RunsOnce'
    BY <1>1, <2>1 DEF RunsOnce
  <2>5. ServedOnce'
    BY <1>1, <1>2, <2>1 DEF ServedOnce, Enabling, EnablingSteps, Unserved
  <2> QED
    BY <1>3, <1>4, <1>5, <2>2, <2>3, <2>4, <2>5
<1>7. CASE call[c].key # All
  <2>1. receives' = receives
    BY <1>1, <1>7 DEF ListenTypeOK
  <2>2. AllAlone'
    BY <1>1, <1>2, <2>1 DEF AllAlone, Enabling, EnablingSteps
  <2>3. AllSlot'
    BY <1>1, <1>2, <2>1 DEF AllSlot
  <2>4. RunsOnce'
    BY <1>1, <2>1 DEF RunsOnce
  <2>5. ServedOnce'
    <3>1. \A w \in Opposites, d \in Callers :
            /\ Enabling(d, w)' => Enabling(d, w)
            /\ call'[d].key = w /\ call'[d].does = "connect"
                 <=> call[d].key = w /\ call[d].does = "connect"
      BY <1>1, <1>2 DEF Enabling, EnablingSteps
    <3>2. \A w \in Opposites : Unserved(w)' <=> Unserved(w)
      BY <1>1 DEF Unserved
    <3> QED
      BY <1>1, <3>1, <3>2 DEF ServedOnce
  <2> QED
    BY <1>3, <1>4, <1>5, <2>2, <2>3, <2>4, <2>5
<1> QED
  BY <1>6, <1>7

(* Disable begins. *)
LEMMA ListenDisableStep ==
  ASSUME ListenInv, NEW c \in Callers, NEW k \in Listening!Keyed, Listening!Disable(c, k)
  PROVE  ListenInv'
<1> USE DEF ListenInv
<1> DEFINE r == [Listening!Idle EXCEPT !.does = "disconnect", !.key = k, !.handler = current]
<1>1. /\ call[c].does = "idle" /\ receives /\ call' = [call EXCEPT ![c] = r]
      /\ UNCHANGED <<current, slots, conn, connected, made_slots, receives, run, enables, off>>
  BY DEF Listening!Disable
<1>2. made_slots.handlers = 1 /\ current = 1 /\ enables[All] # 0
  BY <1>1 DEF OneHandler, ListenTypeOK
<1>3. r \in Calls /\ r.does = "disconnect" /\ r.handler = 1
  BY <1>2 DEF Listening!Idle, Calls, CallSteps
<1> HIDE DEF r
<1>4. /\ call' \in [Callers -> Calls] /\ call'[c].does = "disconnect" /\ call'[c].handler = 1
      /\ \A d \in Callers \ {c} : call'[d] = call[d]
  BY <1>1, <1>3, CallReplaced
<1>5. ListenTypeOK'
  BY <1>1, <1>4 DEF ListenTypeOK
<1>6. OneHandler'
  BY <1>1, <1>2, <1>4 DEF OneHandler
<1>7. AllAlone'
  BY <1>1, <1>4 DEF AllAlone, Enabling, EnablingSteps
<1>8. AllSlot'
  BY <1>1, <1>4 DEF AllSlot
<1>9. ConnectionsDiffer' /\ RunsOnce'
  BY <1>1 DEF ConnectionsDiffer, RunsOnce
<1>10. ServedOnce'
  <2>1. \A w \in Opposites, d \in Callers :
          /\ Enabling(d, w)' <=> Enabling(d, w)
          /\ call'[d].key = w /\ call'[d].does = "connect"
               <=> call[d].key = w /\ call[d].does = "connect"
    BY <1>1, <1>4 DEF Enabling, EnablingSteps
  <2>2. \A w \in Opposites : Unserved(w)' <=> Unserved(w)
    BY <1>1 DEF Unserved
  <2> QED
    BY <1>1, <2>1, <2>2 DEF ServedOnce
<1> QED
  BY <1>5, <1>6, <1>7, <1>8, <1>9, <1>10

(* The slot of a key is disconnected and its connection forgotten. *)
LEMMA ListenDisconnectStep ==
  ASSUME ListenInv, NEW c \in Callers, Listening!Disconnect(c)
  PROVE  ListenInv'
<1> USE DEF ListenInv
<1> DEFINE k == call[c].key
           s == conn[1][k]
<1>1. /\ call[c].does = "disconnect" /\ call[c].handler = 1 /\ made_slots.handlers = 1
      /\ call[c] \in Calls /\ k \in Listening!Keyed
      /\ enables[All] # 0 /\ 1 \in Listening!Ids
      /\ call' = [call EXCEPT ![c] = Listening!Idle]
      /\ UNCHANGED <<current, made_slots, enables>>
  BY DEF Listening!Disconnect, Listening!DisConnect, OneHandler, ListenTypeOK, Calls
<1>2. /\ connected' = connected \ {s} /\ receives' = (receives /\ k # All)
      /\ run' = [run EXCEPT !.steady = run.steady /\ k # All]
      /\ off' = [off EXCEPT ![k] = off[k] \/ s # Nothing]
      /\ slots' = [slots EXCEPT ![1][k] = slots[1][k] \cap connected']
      /\ conn' = [conn EXCEPT ![1][k] = Nothing]
  BY <1>1 DEF Listening!Disconnect, Listening!DisConnect
<1>3. /\ call' \in [Callers -> Calls] /\ call'[c].does = "idle"
      /\ \A d \in Callers \ {c} : call'[d] = call[d]
  BY <1>1, IdleIsCall, CallReplaced
<1>4. /\ conn' \in [Listening!Ids -> [Listening!Keyed -> Nat \cup {Nothing}]]
      /\ conn'[1][k] = Nothing
      /\ \A h \in Listening!Ids, l \in Listening!Keyed : h # 1 \/ l # k => conn'[h][l] = conn[h][l]
  <2>1. conn \in [Listening!Ids -> [Listening!Keyed -> Nat \cup {Nothing}]]
    BY DEF ListenTypeOK
  <2>2. Nothing \in Nat \cup {Nothing}
    OBVIOUS
  <2> QED
    BY <1>1, <1>2, <2>1, <2>2, TwoLevels
<1>5. /\ slots' \in [Listening!Ids -> [Listening!Keyed -> SUBSET Nat]]
      /\ slots'[1][k] = slots[1][k] \cap connected'
      /\ \A h \in Listening!Ids, l \in Listening!Keyed : h # 1 \/ l # k => slots'[h][l] = slots[h][l]
  <2>1. slots \in [Listening!Ids -> [Listening!Keyed -> SUBSET Nat]]
    BY DEF ListenTypeOK
  <2>2. slots[1][k] \cap connected' \in SUBSET Nat
    BY <1>1, <2>1
  <2> QED
    BY <1>1, <1>2, <2>1, <2>2, TwoLevels
<1>6. /\ off' \in [Listening!Keyed -> BOOLEAN] /\ off'[k] = (off[k] \/ s # Nothing)
      /\ \A l \in Listening!Keyed \ {k} : off'[l] = off[l]
  BY <1>1, <1>2 DEF ListenTypeOK
<1>7. /\ run' \in Runs /\ run'.steady = (run.steady /\ k # All)
      /\ run'.phase = run.phase /\ run'.handler = run.handler
      /\ run'.todo = run.todo /\ run'.calls = run.calls
  <2>1. run \in Runs
    BY DEF ListenTypeOK
  <2> QED
    BY <1>2, <2>1 DEF Runs
<1>8. \A l \in Listening!Keyed \ {k} : conn[1][l] \in connected => conn[1][l] \in connected'
  <2> SUFFICES ASSUME NEW l \in Listening!Keyed \ {k}, conn[1][l] \in connected
               PROVE  conn[1][l] # s
    BY <1>2
  <2>1. conn[1][l] \in Nat /\ conn[1][l] # Nothing
    BY ListenConstants DEF ListenTypeOK
  <2> QED
    BY <1>1, <2>1 DEF ConnectionsDiffer
<1>9. k = All \/ k \in Opposites
  BY <1>1, Keys
<1>10. connected' \subseteq connected /\ s \notin connected'
  BY <1>2
<1> HIDE DEF k, s
<1>11. ListenTypeOK'
  <2>1. connected' \in SUBSET Nat /\ receives' \in BOOLEAN
    BY <1>2, <1>10 DEF ListenTypeOK
  <2> QED
    BY <1>1, <1>3, <1>4, <1>5, <1>6, <1>7, <2>1 DEF ListenTypeOK
<1>12. OneHandler'
  BY <1>1, <1>2, <1>3, <1>7 DEF OneHandler
<1>13. ASSUME NEW d \in Callers PROVE ~ Enabling(d, All) /\ ~ Enabling(d, All)'
  <2>1. ~ Enabling(d, All)
    BY <1>1, <1>13, IdleIsCall DEF AllAlone, Enabling
  <2> QED
    BY <1>3, <2>1, IdleIsCall DEF Enabling
<1>14. AllAlone'
  BY <1>13 DEF AllAlone
<1>15. receives' => /\ k # All /\ receives
                    /\ conn'[1][All] = conn[1][All] /\ slots'[1][All] = slots[1][All]
  BY <1>1, <1>2, <1>4, <1>5, Keys
<1>16. AllSlot'
  <2>1. \A d \in Callers : call'[d].key = All => call'[d].does \notin {"connect", "store", "segment"}
    BY <1>13 DEF Enabling, EnablingSteps
  <2>2. receives' => /\ conn'[1][All] \in Nat /\ conn'[1][All] \in connected'
                     /\ slots'[1][All] = {conn'[1][All]}
    BY <1>8, <1>15, Keys DEF AllSlot
  <2> QED
    BY <1>1, <2>1, <2>2 DEF AllSlot
<1>17. ConnectionsDiffer'
  <2>1. \A h \in Listening!Ids, l \in Listening!Keyed : conn'[h][l] # Nothing => conn'[h][l] = conn[h][l]
    BY <1>4
  <2>2. \A h \in Listening!Ids, l \in Listening!Keyed :
          conn'[h][l] # Nothing => conn[h][l] # Nothing /\ conn'[h][l] <= made_slots'.slots
    BY <1>1, <2>1 DEF ConnectionsDiffer
  <2> QED
    BY <1>1, <1>10, <2>1, <2>2 DEF ConnectionsDiffer
<1>18. RunsOnce'
  <2> SUFFICES ASSUME run'.steady
               PROVE  /\ receives'
                      /\ \/ run'.phase = "all" /\ run'.todo = {conn'[1][All]} /\ run'.calls = 0
                         \/ run'.todo = {} /\ run'.calls = 1
    BY DEF RunsOnce
  <2>1. run.steady /\ k # All
    BY <1>7
  <2>2. receives'
    BY <1>2, <2>1 DEF RunsOnce
  <2> QED
    BY <1>7, <1>15, <2>1, <2>2 DEF RunsOnce
<1>19. ServedOnce'
  <2> SUFFICES ASSUME NEW w \in Opposites
        PROVE  /\ enables[w] = 0 => /\ Unserved(w)' /\ ~ off'[w]
                                    /\ \A d \in Callers : ~ Enabling(d, w)'
               /\ enables[w] = 1 =>
                    /\ \A d, e \in Callers : Enabling(d, w)' /\ Enabling(e, w)' => d = e
                    /\ IF \E d \in Callers : call'[d].key = w /\ call'[d].does = "connect"
                       THEN Unserved(w)' /\ ~ off'[w]
                       ELSE IF off'[w] THEN Unserved(w)'
                       ELSE conn'[1][w] \in connected' /\ slots'[1][w] = {conn'[1][w]}
    BY <1>1 DEF ServedOnce
  <2>1. \A d \in Callers : Enabling(d, w)' <=> Enabling(d, w)
    BY <1>1, <1>3, IdleIsCall DEF Enabling
  <2>2. \A d \in Callers : call'[d].key = w /\ call'[d].does = "connect"
                             <=> call[d].key = w /\ call[d].does = "connect"
    BY <1>1, <1>3
  <2>3. CASE w # k
    <3>1. w \in Listening!Keyed \ {k}
      BY <2>3, Keys
    <3>2. Unserved(w)' <=> Unserved(w)
      BY <1>4, <1>5, <3>1 DEF Unserved
    <3>3. /\ conn'[1][w] = conn[1][w] /\ slots'[1][w] = slots[1][w] /\ off'[w] = off[w]
          /\ conn[1][w] \in connected => conn[1][w] \in connected'
      BY <1>1, <1>4, <1>5, <1>6, <1>8, <3>1
    <3> QED
      BY <2>1, <2>2, <3>2, <3>3 DEF ServedOnce
  <2>4. CASE w = k
    <3>1. Unserved(w) => Unserved(w)' /\ (off'[w] <=> off[w])
      <4> SUFFICES ASSUME Unserved(w)
                   PROVE  Unserved(w)' /\ (off'[w] <=> off[w])
        OBVIOUS
      <4>1. s = Nothing /\ slots[1][k] = {}
        BY <1>1, <2>4 DEF Unserved, s
      <4>2. slots'[1][k] = {} /\ off'[k] = off[k]
        BY <1>1, <1>5, <1>6, <4>1 DEF ListenTypeOK
      <4> QED
        BY <1>1, <1>4, <1>5, <2>4, <4>2 DEF Unserved
    <3>2. CASE enables[w] = 0
      BY <2>1, <3>1, <3>2 DEF ServedOnce
    <3>3. CASE enables[w] = 1
      <4>1. \A d, e \in Callers : Enabling(d, w)' /\ Enabling(e, w)' => d = e
        BY <2>1, <3>3 DEF ServedOnce
      <4>2. CASE \E d \in Callers : call[d].key = w /\ call[d].does = "connect"
        BY <2>2, <3>1, <3>3, <4>1, <4>2 DEF ServedOnce
      <4>3. CASE ~ \E d \in Callers : call[d].key = w /\ call[d].does = "connect"
        <5>1. CASE off[w]
          BY <2>2, <3>1, <3>3, <4>1, <4>3, <5>1 DEF ServedOnce
        <5>2. CASE ~ off[w]
          <6>1. conn[1][w] \in connected /\ slots[1][w] = {conn[1][w]}
            BY <3>3, <4>3, <5>2 DEF ServedOnce
          <6>2. s # Nothing /\ slots[1][k] = {s} /\ off'[w]
            <7>1. connected \in SUBSET Nat
              BY DEF ListenTypeOK
            <7>2. s # Nothing /\ slots[1][k] = {s}
              BY <2>4, <6>1, <7>1, ListenConstants DEF s
            <7> QED
              BY <1>6, <2>4, <7>2
          <6>3. slots'[1][w] = {} /\ conn'[1][w] = Nothing
            BY <1>4, <1>5, <1>10, <2>4, <6>2
          <6>4. Unserved(w)'
            BY <6>3 DEF Unserved
          <6> QED
            BY <2>2, <3>3, <4>1, <4>3, <6>2, <6>4
        <5> QED
          BY <5>1, <5>2
      <4> QED
        BY <4>2, <4>3
    <3> QED
      BY <3>2, <3>3
  <2> QED
    BY <2>3, <2>4
<1> QED
  BY <1>11, <1>12, <1>14, <1>16, <1>17, <1>18, <1>19

(* A step of the dispatcher's thread that leaves the slots alone. *)
LEMMA ListenRunStep ==
  ASSUME ListenInv,
         UNCHANGED <<current, slots, conn, connected, made_slots, receives, call, enables, off>>,
         run' \in Runs,
         run'.phase # "idle" => run'.handler = 1 /\ made_slots.handlers = 1,
         RunsOnce'
  PROVE  ListenInv'
<1> USE DEF ListenInv
<1>1. ListenTypeOK'
  BY DEF ListenTypeOK
<1>2. OneHandler'
  BY DEF OneHandler
<1>3. AllAlone' /\ ConnectionsDiffer'
  BY DEF AllAlone, Enabling, ConnectionsDiffer
<1>4. AllSlot'
  BY DEF AllSlot
<1>5. ServedOnce'
  BY DEF ServedOnce, Enabling, Unserved
<1> QED
  BY <1>1, <1>2, <1>3, <1>4, <1>5

LEMMA ListenMessageStep ==
  ASSUME ListenInv, NEW w \in Opposites, Listening!OnMessage(w)
  PROVE  ListenInv'
<1>1. /\ current # Nothing
      /\ run' = [phase |-> "all", handler |-> current, from |-> Foreign,
                 todo |-> slots[current][All], calls |-> 0, steady |-> receives]
      /\ UNCHANGED <<current, slots, conn, connected, made_slots, receives, call, enables, off>>
  BY DEF Listening!OnMessage, Listening!SenderHash
<1>2. made_slots.handlers = 1 /\ current = 1
  BY <1>1 DEF ListenInv, ListenTypeOK
<1>3. 1 \in Listening!Ids
  BY <1>2 DEF ListenInv, OneHandler
<1>4. slots[1][All] \in SUBSET Nat /\ receives \in BOOLEAN
  BY <1>3, Keys DEF ListenInv, ListenTypeOK
<1>5. run' \in Runs
  BY <1>1, <1>2, <1>4 DEF Runs
<1>6. RunsOnce'
  BY <1>1, <1>2 DEF RunsOnce, ListenInv, AllSlot
<1> QED
  BY <1>1, <1>2, <1>5, <1>6, ListenRunStep

LEMMA SmallestOfOne ==
  ASSUME NEW s \in Nat
  PROVE  Listening!Min({s}) = s
  BY DEF Listening!Min

LEMMA ListenCallStep ==
  ASSUME ListenInv, Listening!SlotCall
  PROVE  ListenInv'
<1> DEFINE s == Listening!Min(run.todo)
           n == IF s \in connected THEN run.calls + 1 ELSE run.calls
<1>1. /\ run.phase \in {"all", "own"} /\ run.todo # {}
      /\ run' = [run EXCEPT !.todo = run.todo \ {s}, !.calls = n]
      /\ UNCHANGED <<current, slots, conn, connected, made_slots, receives, call, enables, off>>
  BY DEF Listening!SlotCall
<1>2. run \in Runs /\ run.calls \in Nat /\ run.todo \in SUBSET Nat /\ n \in Nat
  BY DEF ListenInv, ListenTypeOK, Runs
<1> HIDE DEF s, n
<1>3. /\ run' \in Runs /\ run'.todo = run.todo \ {s} /\ run'.calls = n
      /\ run'.phase = run.phase /\ run'.handler = run.handler /\ run'.steady = run.steady
  BY <1>1, <1>2 DEF Runs
<1>4. RunsOnce'
  <2> SUFFICES ASSUME run.steady
               PROVE  receives /\ run'.todo = {} /\ run'.calls = 1
    BY <1>1, <1>3 DEF RunsOnce
  <2>1. receives /\ run.todo = {conn[1][All]} /\ run.calls = 0
    BY <1>1 DEF ListenInv, RunsOnce
  <2>2. conn[1][All] \in Nat /\ conn[1][All] \in connected
    BY <2>1 DEF ListenInv, AllSlot
  <2>3. s = conn[1][All]
    BY <2>1, <2>2, SmallestOfOne DEF s
  <2> QED
    BY <1>3, <2>1, <2>2, <2>3 DEF n
<1>5. run'.phase # "idle" => run'.handler = 1 /\ made_slots.handlers = 1
  BY <1>3 DEF ListenInv, OneHandler
<1> QED
  BY <1>1, <1>3, <1>4, <1>5, ListenRunStep

LEMMA ListenLockStep ==
  ASSUME ListenInv, Listening!RunLock
  PROVE  ListenInv'
<1>1. run \in Runs
  BY DEF ListenInv, ListenTypeOK
<1>2. run.from \notin Opposites
  BY <1>1, ListenConstants DEF Runs
<1>3. /\ run.phase = "lock" /\ run' = [run EXCEPT !.phase = "idle"]
      /\ UNCHANGED <<current, slots, conn, connected, made_slots, receives, call, enables, off>>
  BY <1>2 DEF Listening!RunLock
<1>4. /\ run' \in Runs /\ run'.phase = "idle" /\ run'.todo = run.todo /\ run'.calls = run.calls
      /\ run'.steady = run.steady
  BY <1>1, <1>3 DEF Runs
<1>5. RunsOnce'
  BY <1>3, <1>4 DEF ListenInv, RunsOnce
<1> QED
  BY <1>3, <1>4, <1>5, ListenRunStep

(* The slots of the signal that are not connected are cleared. *)
LEMMA ListenSignalEndStep ==
  ASSUME ListenInv, Listening!SignalEnd
  PROVE  ListenInv'
<1> USE DEF ListenInv
<1>1. run \in Runs /\ slots \in [Listening!Ids -> [Listening!Keyed -> SUBSET Nat]]
  BY DEF ListenTypeOK
<1>2. run.phase = "all" /\ run.handler = 1 /\ made_slots.handlers = 1
  BY <1>1 DEF Listening!SignalEnd, Runs, OneHandler
<1>3. 1 \in Listening!Ids /\ enables[All] # 0
  BY <1>2 DEF OneHandler
<1>4. /\ run.todo = {} /\ slots' = [slots EXCEPT ![1][All] = slots[1][All] \cap connected]
      /\ run' = [run EXCEPT !.phase = "lock"]
      /\ UNCHANGED <<current, conn, connected, made_slots, receives, call, enables, off>>
  BY <1>2 DEF Listening!SignalEnd
<1>5. /\ run' \in Runs /\ run'.phase = "lock" /\ run'.todo = run.todo /\ run'.calls = run.calls
      /\ run'.steady = run.steady /\ run'.handler = run.handler
  BY <1>1, <1>4 DEF Runs
<1>6. /\ slots' \in [Listening!Ids -> [Listening!Keyed -> SUBSET Nat]]
      /\ slots'[1][All] = slots[1][All] \cap connected
      /\ \A h \in Listening!Ids, l \in Listening!Keyed : h # 1 \/ l # All => slots'[h][l] = slots[h][l]
  <2>1. slots[1][All] \cap connected \in SUBSET Nat
    BY <1>1, <1>3, Keys
  <2> QED
    BY <1>1, <1>3, <1>4, <2>1, Keys, TwoLevels
<1>7. ListenTypeOK'
  BY <1>4, <1>5, <1>6 DEF ListenTypeOK
<1>8. OneHandler'
  BY <1>2, <1>4, <1>5 DEF OneHandler
<1>9. AllAlone' /\ ConnectionsDiffer'
  BY <1>4 DEF AllAlone, Enabling, ConnectionsDiffer
<1>10. AllSlot'
  <2>1. ASSUME NEW d \in Callers, call[d].key = All, call[d].does \in {"connect", "store", "segment"}
        PROVE  slots'[1][All] = slots[1][All]
    BY <1>6, <2>1 DEF AllSlot
  <2>2. receives => slots'[1][All] = slots[1][All]
    BY <1>6 DEF AllSlot
  <2> QED
    BY <1>2, <1>4, <2>1, <2>2 DEF AllSlot
<1>11. ServedOnce'
  <2>1. \A w \in Opposites : slots'[1][w] = slots[1][w]
    BY <1>3, <1>6, Keys
  <2> QED
    BY <1>4, <2>1 DEF ServedOnce, Enabling, Unserved
<1>12. RunsOnce'
  BY <1>4, <1>5 DEF RunsOnce
<1> QED
  BY <1>7, <1>8, <1>9, <1>10, <1>11, <1>12

LEMMA ListenInitially ==
  ASSUME Listening!ListenInit
  PROVE  ListenInv
<1> USE DEF Listening!ListenInit
<1>1. call \in [Callers -> Calls] /\ \A c \in Callers : call[c].does = "idle"
  BY IdleIsCall
<1>2. run \in Runs /\ run.phase = "idle" /\ run.steady = FALSE
  BY DEF Runs
<1>3. ListenTypeOK
  BY <1>1, <1>2 DEF ListenTypeOK
<1>4. OneHandler
  BY <1>1, <1>2, Keys DEF OneHandler
<1>5. AllAlone /\ AllSlot /\ ConnectionsDiffer /\ RunsOnce
  BY <1>1, <1>2, Keys DEF AllAlone, AllSlot, ConnectionsDiffer, RunsOnce, Enabling, EnablingSteps
<1>6. ServedOnce
  BY <1>1, Keys DEF ServedOnce, Unserved, Enabling, EnablingSteps
<1> QED
  BY <1>3, <1>4, <1>5, <1>6 DEF ListenInv

LEMMA ListenStep ==
  ASSUME ListenInv, [Listening!ListenNext]_Listening!listenVars
  PROVE  ListenInv'
<1>1. run \in Runs
  BY DEF ListenInv, ListenTypeOK
<1>2. CASE UNCHANGED Listening!listenVars \/ Listening!SlotReturn \/ Listening!Shutdown
  <2>1. UNCHANGED <<current, slots, conn, connected, made_slots, receives, call, run, enables, off>>
    BY <1>2 DEF Listening!listenVars, Listening!SlotReturn, Listening!Shutdown
  <2>2. run'.phase # "idle" => run'.handler = 1 /\ made_slots.handlers = 1
    BY <2>1 DEF ListenInv, OneHandler
  <2>3. RunsOnce'
    BY <2>1 DEF ListenInv, RunsOnce
  <2> QED
    BY <1>1, <2>1, <2>2, <2>3, ListenRunStep
<1>3. CASE Listening!ListenNext
  BY <1>2, <1>3, ListenEnableStep, ListenSetStep, ListenConnectStep, ListenStoreStep,
     ListenSegmentStep, ListenDisableStep, ListenDisconnectStep, ListenMessageStep,
     ListenCallStep, ListenLockStep, ListenSignalEndStep
     DEF Listening!ListenNext
<1> QED
  BY <1>2, <1>3

(***************************************************************************)
(* For any number of callers and writers: a writer that was enabled once   *)
(* has one connected listener when Enable has returned and none when       *)
(* Disable has, and a message handled while the receiver is enabled calls  *)
(* it back once.                                                           *)
(***************************************************************************)
THEOREM ListenersAreServed == Listening!ListenSpec => []ListenersServed
<1>1. ListenInv => ListenersServed
  <2> SUFFICES ASSUME ListenInv
               PROVE  ListenersServed
    OBVIOUS
  <2>1. ASSUME NEW w \in Opposites, enables[w] = 1, Listening!Returned(w)
        PROVE  Listening!Cardinality(slots[current][w] \cap connected) = IF off[w] THEN 0 ELSE 1
    <3>1. made_slots.handlers = 1 /\ current = 1
      BY <2>1 DEF ListenInv, OneHandler, ListenTypeOK
    <3>2. 1 \in Listening!Ids
      BY <3>1 DEF ListenInv, OneHandler
    <3>3. ~ \E c \in Callers : call[c].key = w /\ call[c].does = "connect"
      BY <2>1 DEF Listening!Returned
    <3>4. /\ off[w] => slots[1][w] = {}
          /\ ~ off[w] => conn[1][w] \in connected /\ slots[1][w] = {conn[1][w]}
      BY <2>1, <3>2, <3>3 DEF ListenInv, ServedOnce, Unserved
    <3>5. Listening!Cardinality(slots[current][w] \cap connected)
            = Cardinality(slots[current][w] \cap connected)
      BY Zenon DEF Listening!Cardinality, Cardinality
    <3>6. CASE off[w]
      <4>1. slots[current][w] \cap connected = {}
        BY <3>1, <3>4, <3>6
      <4> QED
        BY <3>5, <3>6, <4>1, FS_EmptySet
    <3>7. CASE ~ off[w]
      <4>1. slots[current][w] \cap connected = {conn[1][w]}
        BY <3>1, <3>4, <3>7
      <4> QED
        BY <3>5, <3>7, <4>1, FS_Singleton
    <3> QED
      BY <3>6, <3>7
  <2>2. Listening!DeliversOnce
    BY DEF ListenInv, RunsOnce, Listening!DeliversOnce
  <2> QED
    BY <2>1, <2>2, Zenon DEF ListenersServed, Listening!ListenersExact
<1> QED
  BY <1>1, ListenInitially, ListenStep, PTL DEF Listening!ListenSpec
=============================================================================
