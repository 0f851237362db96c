----------------------------- MODULE ShmChannel -----------------------------
(***************************************************************************)
(* One channel over shared memory: ShmTransmitter::Transmit writes a block *)
(* of the ShmSegment and announces it through the ConditionNotifier;       *)
(* ShmDispatcher::ThreadFunc listens and reads the announced block.        *)
(* Writers are the transmitters and Readers the dispatcher threads; they   *)
(* run in different processes of one host.  The previous_indexs_ of the    *)
(* dispatcher serve its log only.                                          *)
(***************************************************************************)
EXTENDS ShmSegment, Sequences

CONSTANT KBufLength   \* slots of the notifier's ring

ASSUME ChannelRing == KBufLength \in Nat \ {0}

(* In the actions of Notify and Listen, crashed' is fixed before the ring's *)
(* action, which speaks of the crashed transmitters only.                  *)
VARIABLES
  next_seq, infos, seqs, ntf_pc, ntf_seq, cursor, info, overrun,   \* the ring
  pending,     \* transmitters between ReleaseWrittenBlock and the end of Notify
  notified,    \* history: the block and message of each notification
  history      \* history: the messages written into each block

ntfvars == <<next_seq, infos, seqs, ntf_pc, ntf_seq, cursor, info, overrun>>
logvars == <<pending, notified, history>>
channelVars == <<segvars, ntfvars, logvars>>

Ntf == INSTANCE ConditionNotifier
         WITH Notifiers <- Writers, Listeners <- Readers, MaxSeq <- MaxDraws,
              pc <- ntf_pc, seq <- ntf_seq, crashed <- crashed \cap Writers

ChannelInit ==
  /\ Init /\ Ntf!Init
  /\ pending = {}
  /\ notified = <<>>
  /\ history = [b \in Blocks |-> <<>>]

-----------------------------------------------------------------------------
(* ShmTransmitter::Transmit. *)

(* Fault: the block is released before the message is copied into it. *)
TransmitWriteReleasedEarly(w) ==
  /\ w \notin pending
  /\ \/ AcquireBlockToWrite(w) \/ TryLockForWrite(w)
     \/ GetNextWritableBlockIndex(w)
     \/ /\ Goto(w, "write", "written")
        /\ UNCHANGED <<seq, lock_num, content, blk, msg, seen, tries, val, crashed>>
  /\ UNCHANGED <<ntfvars, logvars>>

(* Acquiring a block and beginning to write it. *)
TransmitWrite(w) ==
  /\ w \notin pending
  /\ \/ AcquireBlockToWrite(w) \/ TryLockForWrite(w)
     \/ GetNextWritableBlockIndex(w) \/ WriteBegin(w)
  /\ UNCHANGED <<ntfvars, logvars>>

TransmitWritten(w) ==
  /\ WriteEnd(w)
  /\ history' = [history EXCEPT ![blk[w]] = Append(@, msg[w])]
  /\ UNCHANGED <<ntfvars, pending, notified>>

TransmitRelease(w) ==
  /\ ReleaseWrittenBlock(w)
  /\ pending' = pending \cup {w}
  /\ UNCHANGED <<ntfvars, notified, history>>

(* ReadableInfo(host_id_, wb.index, channel_id_), and Notify draws its number. *)
TransmitNotifyDraw(w) ==
  /\ UNCHANGED <<segvars, pending, history>>
  /\ w \in pending
  /\ Ntf!NotifyDraw(w)
  /\ notified' = Append(notified, [block |-> blk[w], msg |-> msg[w]])

TransmitNotifyWrite(w) ==
  /\ UNCHANGED <<segvars, logvars>>
  /\ Ntf!NotifyWriteBegin(w) \/ Ntf!NotifyWriteEnd(w)

TransmitNotifyStamp(w) ==
  /\ UNCHANGED <<segvars, notified, history>>
  /\ Ntf!NotifyStamp(w)
  /\ pending' = pending \ {w}

-----------------------------------------------------------------------------
(* ShmDispatcher::ThreadFunc. *)

(* The process of d is there: it was not killed and did not dereference nullptr. *)
Alive(d) == d \notin crashed /\ pc[d] # "segv"

ThreadFuncListen(d) ==
  /\ UNCHANGED <<segvars, logvars>>
  /\ Alive(d)
  /\ \/ Ntf!ListenStart(d) \/ Ntf!ListenCheck(d) \/ Ntf!ListenSeq(d)
     \/ Ntf!ListenCopyBegin(d) \/ Ntf!ListenCopyEnd(d)

(* The blocks an info may name.  A mixture takes its block_index from the  *)
(* default info or from any info that was written into the slot.           *)
Named(d) ==
  IF info[d] = Ntf!Torn
    THEN {0} \cup {notified[s + 1].block :
                     s \in {t \in 0 .. next_seq - 1 : Ntf!Slot(t) = Ntf!Slot(cursor[d] - 1)}}
    ELSE IF info[d] = Ntf!NoInfo THEN {} ELSE {notified[info[d] + 1].block}

(* readable_info.host_id() != host_id_: the default info, or a mixture with it. *)
ThreadFuncOtherHost(d) ==
  /\ UNCHANGED <<segvars, logvars>>
  /\ Alive(d)
  /\ pc[d] = "idle" /\ info[d] \in {Ntf!NoInfo, Ntf!Torn}
  /\ Ntf!ListenAgain(d)

(* ReadMessage -> AcquireBlockToRead. *)
ReadMessageAcquire(d) ==
  /\ ntf_pc[d] = "returned"
  /\ \E b \in Named(d) : AcquireBlockToRead(d, b)
  /\ UNCHANGED <<ntfvars, logvars>>

ReadMessage(d) ==
  /\ \/ TryLockForRead(d) \/ RetryLockForRead(d)
     \/ ReadBlock(d) \/ ReadMessageDeref(d)
  /\ UNCHANGED <<ntfvars, logvars>>

(* Fault: the dispatcher reads the same info again instead of listening. *)
ReadMessageReleaseStops(d) ==
  /\ ReleaseReadableBlock(d)
  /\ UNCHANGED <<ntfvars, logvars>>

(* ReleaseReadableBlock, and ThreadFunc listens again. *)
ReadMessageRelease(d) ==
  /\ ReleaseReadableBlock(d)
  /\ Ntf!ListenAgain(d)
  /\ UNCHANGED logvars

ProcessDies(t) ==
  /\ Crash(t)
  /\ UNCHANGED <<ntfvars, logvars>>

-----------------------------------------------------------------------------
Transmit(w) ==
  \/ TransmitWrite(w) \/ TransmitWritten(w) \/ TransmitRelease(w)
  \/ TransmitNotifyDraw(w) \/ TransmitNotifyWrite(w) \/ TransmitNotifyStamp(w)

ThreadFunc(d) ==
  \/ ThreadFuncListen(d) \/ ThreadFuncOtherHost(d)
  \/ ReadMessageAcquire(d) \/ ReadMessage(d) \/ ReadMessageRelease(d)

ChannelNext ==
  \/ \E w \in Writers : Transmit(w)
  \/ \E d \in Readers : ThreadFunc(d)
  \/ \E t \in Threads : ProcessDies(t)

ChannelSpec == ChannelInit /\ [][ChannelNext]_channelVars

(* A Transmit that has begun goes on, and dispatcher threads run. *)
ChannelFairness ==
  /\ \A w \in Writers :
       WF_channelVars(/\ pc[w] # "idle" \/ w \in pending
                      /\ Transmit(w))
  /\ \A d \in Readers : WF_channelVars(ThreadFunc(d))

FairChannelSpec == ChannelSpec /\ ChannelFairness

-----------------------------------------------------------------------------

(***************************************************************************)
(* What a dispatcher reads for a notification is the message announced or  *)
(* a whole message that was written into the same block after it, although *)
(* the block may be taken again at any time after ReleaseWrittenBlock.     *)
(***************************************************************************)
DeliversAnnouncedOrNewer ==
  \A d \in Readers :
    pc[d] = "reading" /\ info[d] >= 0 =>
      LET n == notified[info[d] + 1]
      IN  \E i, j \in DOMAIN history[n.block] :
            /\ history[n.block][i] = n.msg /\ i <= j
            /\ history[n.block][j] = val[d]

(***************************************************************************)
(* Every message announced is taken up by every dispatcher that is there,  *)
(* unless a Notify crashed half-way or was lapped.                         *)
(***************************************************************************)
AnnouncementsTaken ==
  \A d \in Readers :
    <>[](\/ ~Alive(d) \/ ntf_pc[d] = "off"
         \/ cursor[d] = next_seq /\ ntf_pc[d] = "idle"
         \/ overrun # {} \/ \E w \in crashed \cap Writers : Ntf!InFlight(w))

(***************************************************************************)
(* Transmit and ReadMessage use the segment as ShmSegment describes, and   *)
(* Transmit and ThreadFunc the ring as ConditionNotifier does: in their    *)
(* order of calls every step is one of the components' steps, so what is   *)
(* proved of the components holds in the channel.                          *)
(***************************************************************************)
UsesSegment == Spec
UsesNotifier == Ntf!Spec

(***************************************************************************)
(* A block that cannot be locked is skipped: ReadMessage reports "fail to  *)
(* acquire block" (shm_dispatcher.cpp:93) and the dispatcher thread lives  *)
(* on to read the next message.                                            *)
(***************************************************************************)
DispatcherSurvives == \A d \in Readers : pc[d] # "segv"

(***************************************************************************)
(* The inductive invariant behind ShmChannelProofs, next to that of the    *)
(* segment: every notification names a message that was written into the   *)
(* block it names; a block holds the last message written into it, or is   *)
(* torn; and a dispatcher keeps to the notification it has listened to     *)
(* until it has released the block that one names.                         *)
(***************************************************************************)
Written(m, b) == \E i \in DOMAIN history[b] : history[b][i] = m

(* The notifications known to the ring are those that were drawn. *)
RingTypeOK ==
  /\ next_seq \in Nat
  /\ infos \in [Ntf!Slots -> Nat \cup {Ntf!NoInfo, Ntf!Torn}]
  /\ \A i \in Ntf!Slots : infos[i] < next_seq
  /\ seqs \in [Ntf!Slots -> Int]
  /\ ntf_pc \in [Threads -> Ntf!NotifierPC \cup Ntf!ListenerPC]
  /\ ntf_seq \in [Writers -> Nat]
  /\ \A w \in Writers : Ntf!InFlight(w) => ntf_seq[w] < next_seq
  /\ cursor \in [Readers -> Int]
  /\ info \in [Readers -> Nat \cup {Ntf!NoInfo, Ntf!Torn}]
  /\ \A d \in Readers : info[d] < next_seq

LogTypeOK ==
  /\ history \in [Blocks -> Seq(Messages)]
  /\ notified \in Seq([block : Blocks, msg : Messages])
  /\ Len(notified) = next_seq

AnnouncedIsWritten ==
  /\ \A n \in DOMAIN notified : Written(notified[n].msg, notified[n].block)
  /\ \A w \in Writers : pc[w] = "written" \/ w \in pending => Written(msg[w], blk[w])

HoldsLastWritten ==
  \A b \in Blocks :
    \/ content[b] = Torn
    \/ content[b] = Empty /\ history[b] = <<>>
    \/ history[b] # <<>> /\ content[b] = history[b][Len(history[b])]

KeepsTo(d) ==
  pc[d] # "idle" =>
    /\ ntf_pc[d] = "returned"
    /\ info[d] >= 0 => blk[d] = notified[info[d] + 1].block
    /\ pc[d] = "reading" => val[d] = content[blk[d]]

KeepsToNotification == \A d \in Readers : KeepsTo(d)

ChannelInv ==
  /\ IInv /\ RingTypeOK /\ LogTypeOK
  /\ AnnouncedIsWritten /\ HoldsLastWritten /\ KeepsToNotification
=============================================================================
