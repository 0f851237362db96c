----------------------------- MODULE ShmSegment -----------------------------
(***************************************************************************)
(* One shared-memory segment of a channel while its size does not change:  *)
(* the blocks with their lock words (transport/shm/block.cpp), the cursor  *)
(* seq_ (state.h) that hands blocks out to writers, and the acquire and    *)
(* release operations of transport/shm/segment.cpp, called as              *)
(* ShmTransmitter::Transmit and ShmDispatcher::ReadMessage call them.      *)
(* Writers and readers live in different processes, and any of them may    *)
(* crash inside an operation and leave the lock word as it is.             *)
(*                                                                         *)
(* A compare_exchange_weak may fail spuriously, so the failure branch of   *)
(* every CAS is always possible.  A failed CAS and the load or fetch_add   *)
(* that follows it are one step: the failure itself reads nothing the code *)
(* uses.  A message is named by the first draw of seq_ its Transmit makes; *)
(* Torn is what a block holds while it is written.  seq_ is a uint32, and  *)
(* every block_num of shm_conf.h divides 2^32, so its wrap is not seen.    *)
(***************************************************************************)
EXTENDS Integers, FiniteSets

CONSTANTS
  Writers, Readers,
  BlockNum,           \* conf_.block_num()
  KMaxTryLockTimes,   \* Block::KMaxTryLockTimes
  MaxDraws,           \* bound on the draws of seq_
  MaxCrashes          \* bound on the crashes

ASSUME SegThreads ==
  /\ Writers \cap Readers = {}
  /\ IsFiniteSet(Writers) /\ IsFiniteSet(Readers)
ASSUME SegBlocks == BlockNum \in Nat \ {0} /\ KMaxTryLockTimes \in Nat \ {0}
ASSUME SegBounds == MaxDraws \in Nat /\ MaxCrashes \in Nat

VARIABLES
  seq,        \* state_->seq_
  lock_num,   \* lock_num_ of each block
  content,    \* the message in each block
  pc,         \* where each thread is
  blk,        \* the index of the block a thread is working on
  msg,        \* the message a writer transmits
  seen,       \* TryLockForRead's lock_num
  tries,      \* TryLockForRead's try_times
  val,        \* the message a reader found in its block
  crashed     \* the threads whose process has been killed

segvars == <<seq, lock_num, content, pc, blk, msg, seen, tries, val, crashed>>

Threads == Writers \cup Readers
Blocks == 0 .. BlockNum - 1
Empty == -2            \* a block nobody has written
Torn == -1             \* a block that is being written
Messages == 0 .. MaxDraws
Contents == Messages \cup {Empty, Torn}

KRWLockFree == 0
KWriteExclusive == -1

Init ==
  /\ seq = 0
  /\ lock_num = [b \in Blocks |-> KRWLockFree]
  /\ content = [b \in Blocks |-> Empty]
  /\ pc = [t \in Threads |-> "idle"]
  /\ blk = [t \in Threads |-> 0]
  /\ msg = [w \in Writers |-> 0]
  /\ seen = [r \in Readers |-> 0]
  /\ tries = [r \in Readers |-> 0]
  /\ val = [r \in Readers |-> Empty]
  /\ crashed = {}

Goto(t, from, to) ==
  /\ t \notin crashed
  /\ pc[t] = from
  /\ pc' = [pc EXCEPT ![t] = to]

-----------------------------------------------------------------------------
(* Writers. *)

(* AcquireBlockToWrite -> GetNextWritableBlockIndex: the first fetch_add. *)
AcquireBlockToWrite(w) ==
  /\ seq < MaxDraws
  /\ Goto(w, "idle", "lock")
  /\ blk' = [blk EXCEPT ![w] = seq % BlockNum]
  /\ msg' = [msg EXCEPT ![w] = seq]
  /\ seq' = seq + 1
  /\ UNCHANGED <<lock_num, content, seen, tries, val, crashed>>

TryLockForWrite(w) ==
  /\ Goto(w, "lock", "write")
  /\ lock_num[blk[w]] = KRWLockFree
  /\ lock_num' = [lock_num EXCEPT ![blk[w]] = KWriteExclusive]
  /\ UNCHANGED <<seq, content, blk, msg, seen, tries, val, crashed>>

(* TryLockForWrite failed: the loop draws the next block. *)
GetNextWritableBlockIndex(w) ==
  /\ seq < MaxDraws
  /\ Goto(w, "lock", "lock")
  /\ blk' = [blk EXCEPT ![w] = seq % BlockNum]
  /\ seq' = seq + 1
  /\ UNCHANGED <<lock_num, content, msg, seen, tries, val, crashed>>

(* ShmTransmitter::Transmit copies the message into the block. *)
WriteBegin(w) ==
  /\ Goto(w, "write", "writing")
  /\ content' = [content EXCEPT ![blk[w]] = Torn]
  /\ UNCHANGED <<seq, lock_num, blk, msg, seen, tries, val, crashed>>

WriteEnd(w) ==
  /\ Goto(w, "writing", "written")
  /\ content' = [content EXCEPT ![blk[w]] = msg[w]]
  /\ UNCHANGED <<seq, lock_num, blk, msg, seen, tries, val, crashed>>

ReleaseWrittenBlock(w) ==
  /\ Goto(w, "written", "idle")
  /\ lock_num' = [lock_num EXCEPT ![blk[w]] = @ + 1]
  /\ UNCHANGED <<seq, content, blk, msg, seen, tries, val, crashed>>

-----------------------------------------------------------------------------
(* Readers. *)

(* AcquireBlockToRead(index) -> TryLockForRead: the first load. *)
AcquireBlockToRead(r, b) ==
  /\ \/ /\ lock_num[b] < KRWLockFree
        /\ Goto(r, "idle", "failed")
     \/ /\ lock_num[b] >= KRWLockFree
        /\ Goto(r, "idle", "cas")
  /\ blk' = [blk EXCEPT ![r] = b]
  /\ seen' = [seen EXCEPT ![r] = lock_num[b]]
  /\ tries' = [tries EXCEPT ![r] = 0]
  /\ UNCHANGED <<seq, lock_num, content, msg, val, crashed>>

(* Fault: the read lock is taken by a fetch_add that ignores a writer. *)
TryLockForReadBlind(r) ==
  /\ Goto(r, "cas", "read")
  /\ lock_num' = [lock_num EXCEPT ![blk[r]] = @ + 1]
  /\ UNCHANGED <<seq, content, blk, msg, seen, tries, val, crashed>>

TryLockForRead(r) ==
  /\ Goto(r, "cas", "read")
  /\ lock_num[blk[r]] = seen[r]
  /\ lock_num' = [lock_num EXCEPT ![blk[r]] = seen[r] + 1]
  /\ UNCHANGED <<seq, content, blk, msg, seen, tries, val, crashed>>

(* A failed CAS counts, gives up at KMaxTryLockTimes or on a writer, and   *)
(* otherwise loads lock_num_ again.                                        *)
RetryLockForRead(r) ==
  /\ tries' = [tries EXCEPT ![r] = @ + 1]
  /\ \/ /\ tries[r] + 1 = KMaxTryLockTimes \/ lock_num[blk[r]] < KRWLockFree
        /\ Goto(r, "cas", "failed")
        /\ UNCHANGED seen
     \/ /\ tries[r] + 1 < KMaxTryLockTimes /\ lock_num[blk[r]] >= KRWLockFree
        /\ Goto(r, "cas", "cas")
        /\ seen' = [seen EXCEPT ![r] = lock_num[blk[r]]]
  /\ UNCHANGED <<seq, lock_num, content, blk, msg, val, crashed>>

(* ReadMessage and the listeners of OnMessage read the block under its lock. *)
ReadBlock(r) ==
  /\ Goto(r, "read", "reading")
  /\ val' = [val EXCEPT ![r] = content[blk[r]]]
  /\ UNCHANGED <<seq, lock_num, content, blk, msg, seen, tries, crashed>>

ReleaseReadableBlock(r) ==
  /\ Goto(r, "reading", "idle")
  /\ lock_num' = [lock_num EXCEPT ![blk[r]] = @ - 1]
  /\ UNCHANGED <<seq, content, blk, msg, seen, tries, val, crashed>>

(* AcquireBlockToRead returned false: ReadMessage warns, goes on, and      *)
(* dereferences rb->block, which is nullptr.  The process is gone.         *)
ReadMessageDeref(r) ==
  /\ Goto(r, "failed", "segv")
  /\ UNCHANGED <<seq, lock_num, content, blk, msg, seen, tries, val, crashed>>

(* The process of t dies; shared memory stays as it is. *)
Crash(t) ==
  /\ Cardinality(crashed) < MaxCrashes
  /\ t \notin crashed
  /\ crashed' = crashed \cup {t}
  /\ UNCHANGED <<seq, lock_num, content, pc, blk, msg, seen, tries, val>>

-----------------------------------------------------------------------------
Write(w) ==
  \/ AcquireBlockToWrite(w) \/ TryLockForWrite(w) \/ GetNextWritableBlockIndex(w)
  \/ WriteBegin(w) \/ WriteEnd(w) \/ ReleaseWrittenBlock(w)

Read(r) ==
  \/ \E b \in Blocks : AcquireBlockToRead(r, b)
  \/ TryLockForRead(r) \/ RetryLockForRead(r)
  \/ ReadBlock(r) \/ ReleaseReadableBlock(r) \/ ReadMessageDeref(r)

Next ==
  \/ \E w \in Writers : Write(w)
  \/ \E r \in Readers : Read(r)
  \/ \E t \in Threads : Crash(t)

Spec == Init /\ [][Next]_segvars

-----------------------------------------------------------------------------
HoldsWrite(w) == pc[w] \in {"write", "writing", "written"}
HoldsRead(r) == pc[r] \in {"read", "reading"}

WritersOf(b) == {w \in Writers : HoldsWrite(w) /\ blk[w] = b}
ReadersOf(b) == {r \in Readers : HoldsRead(r) /\ blk[r] = b}

WriterPC == {"idle", "lock", "write", "writing", "written"}
ReaderPC == {"idle", "cas", "read", "reading", "failed", "segv"}

(* Types of the segment's state; every index a thread works on names a     *)
(* block (GetNextWritableBlockIndex reduces seq_ to the number of blocks). *)
TypeOK ==
  /\ seq \in 0 .. MaxDraws
  /\ lock_num \in [Blocks -> Int]
  /\ content \in [Blocks -> Contents]
  /\ pc \in [Threads -> WriterPC \cup ReaderPC]
  /\ \A w \in Writers : pc[w] \in WriterPC
  /\ \A r \in Readers : pc[r] \in ReaderPC
  /\ blk \in [Threads -> Blocks]
  /\ msg \in [Writers -> Messages]
  /\ seen \in [Readers -> Int]
  /\ tries \in [Readers -> 0 .. KMaxTryLockTimes]
  /\ val \in [Readers -> Contents]
  /\ crashed \in SUBSET Threads

(***************************************************************************)
(* The lock word counts exactly: -1 while one writer and no reader is in   *)
(* the block, otherwise the number of readers in it, the crashed ones      *)
(* included.  block.cpp's four operations together, with stale loads in    *)
(* TryLockForRead.                                                         *)
(***************************************************************************)
LockWordExact ==
  \A b \in Blocks :
    \/ /\ lock_num[b] = KWriteExclusive
       /\ \E w \in Writers : WritersOf(b) = {w}
       /\ ReadersOf(b) = {}
    \/ /\ lock_num[b] = Cardinality(ReadersOf(b))
       /\ WritersOf(b) = {}

(* A block is torn only while a writer is in it, possibly a crashed one; a *)
(* reader about to take the lock has seen a word that is not a writer's,   *)
(* and has not used up its tries.                                          *)
TornOnlyUnderWriteLock ==
  \A b \in Blocks : content[b] = Torn => \E w \in WritersOf(b) : pc[w] = "writing"

AboutToLock ==
  \A r \in Readers :
    pc[r] = "cas" => seen[r] >= KRWLockFree /\ tries[r] < KMaxTryLockTimes

(***************************************************************************)
(* No listener is handed a half-written message, whatever crashes where:   *)
(* Transmit writes and ReadMessage reads under the block's lock.           *)
(***************************************************************************)
NoTornRead == \A r \in Readers : val[r] # Torn

(* The inductive invariant behind the theorems of ShmChannelProofs. *)
IInv ==
  TypeOK /\ LockWordExact /\ TornOnlyUnderWriteLock /\ AboutToLock /\ NoTornRead

(***************************************************************************)
(* The message a listener is looking at does not change under it: no       *)
(* Transmit writes into a block from the moment ReadMessage has its lock   *)
(* until ReleaseReadableBlock.                                             *)
(***************************************************************************)
StableWhileRead ==
  [][\A r \in Readers : HoldsRead(r) => content'[blk[r]] = content[blk[r]]]_segvars
=============================================================================
