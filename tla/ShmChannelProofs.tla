-------------------------- MODULE ShmChannelProofs --------------------------
(***************************************************************************)
(* The lock word of every block counts exactly who is in the block, for    *)
(* any number of writers, readers, blocks, retries and crashes; hence no   *)
(* listener is handed a half-written message, and no message changes while *)
(* it is read.  The channel uses the segment and the notifier's ring as    *)
(* they describe themselves; hence these results hold in it, and what a    *)
(* dispatcher reads is what was announced, or newer.                       *)
(***************************************************************************)
EXTENDS ShmChannel, SequenceTheorems, FiniteSetTheorems, TLAPS

(* A draw of seq_, reduced, is the index of a block. *)
LEMMA DrawIsBlock == \A s \in Nat : s % BlockNum \in Blocks
  BY SegBlocks DEF Blocks

(* The readers in a block are a finite set, so that they can be counted. *)
LEMMA ReadersFinite == \A b \in Blocks : IsFiniteSet(ReadersOf(b))
  BY SegThreads, FS_Subset DEF ReadersOf

(***************************************************************************)
(* A step that moves nobody into or out of a block, and touches no lock    *)
(* word, keeps the count exact.                                            *)
(***************************************************************************)
LEMMA NobodyMoves ==
  ASSUME LockWordExact, UNCHANGED lock_num,
         \A b \in Blocks : WritersOf(b)' = WritersOf(b) /\ ReadersOf(b)' = ReadersOf(b)
  PROVE  LockWordExact'
  BY DEF LockWordExact, Blocks, KWriteExclusive

(* The initial state satisfies the invariant: nobody is in a block. *)
LEMMA InitIInv == Init => IInv
<1> SUFFICES ASSUME Init PROVE IInv
  OBVIOUS
<1>1. TypeOK
  BY SegBlocks, SegBounds
     DEF Init, TypeOK, Threads, Blocks, Contents, Messages, Empty, Torn,
         WriterPC, ReaderPC, KRWLockFree
<1>2. \A b \in Blocks : WritersOf(b) = {} /\ ReadersOf(b) = {}
  BY DEF Init, WritersOf, ReadersOf, HoldsWrite, HoldsRead, Threads
<1>3. LockWordExact
  BY <1>2, FS_EmptySet DEF Init, LockWordExact, KRWLockFree
<1>4. TornOnlyUnderWriteLock /\ AboutToLock /\ NoTornRead
  BY DEF Init, TornOnlyUnderWriteLock, AboutToLock, NoTornRead, Threads, Empty, Torn
<1> QED
  BY <1>1, <1>3, <1>4 DEF IInv

-----------------------------------------------------------------------------
(* Drawing a block, first or again, moves nobody. *)
LEMMA DrawIInv ==
  ASSUME IInv, NEW w \in Writers,
         AcquireBlockToWrite(w) \/ GetNextWritableBlockIndex(w)
  PROVE  IInv'
<1> USE DEF IInv
<1>1. w \in Threads /\ w \notin Readers /\ seq % BlockNum \in Blocks
  BY SegThreads, SegBounds, DrawIsBlock DEF Threads, TypeOK
<1>2. TypeOK'
  <2>1. seq' \in 0 .. MaxDraws /\ seq \in Messages
    BY SegBounds
       DEF TypeOK, AcquireBlockToWrite, GetNextWritableBlockIndex, Messages
  <2>2. blk' \in [Threads -> Blocks] /\ msg' \in [Writers -> Messages]
    BY <1>1, <2>1 DEF TypeOK, AcquireBlockToWrite, GetNextWritableBlockIndex
  <2>3. /\ pc' \in [Threads -> WriterPC \cup ReaderPC]
        /\ \A v \in Writers : pc'[v] \in WriterPC
        /\ \A r \in Readers : pc'[r] \in ReaderPC
    BY <1>1 DEF TypeOK, AcquireBlockToWrite, GetNextWritableBlockIndex, Goto, WriterPC, Threads
  <2> QED
    BY <2>1, <2>2, <2>3 DEF TypeOK, AcquireBlockToWrite, GetNextWritableBlockIndex
<1>3. \A b \in Blocks : WritersOf(b)' = WritersOf(b) /\ ReadersOf(b)' = ReadersOf(b)
  BY <1>1 DEF TypeOK, AcquireBlockToWrite, GetNextWritableBlockIndex, Goto,
              WritersOf, ReadersOf, HoldsWrite, HoldsRead, Threads
<1>4. UNCHANGED <<lock_num, content, seen, val>>
  BY DEF AcquireBlockToWrite, GetNextWritableBlockIndex
<1>5. LockWordExact'
  BY <1>3, <1>4, NobodyMoves
<1>6. TornOnlyUnderWriteLock'
  BY <1>1, <1>4 DEF TypeOK, TornOnlyUnderWriteLock, WritersOf, HoldsWrite, Goto,
     AcquireBlockToWrite, GetNextWritableBlockIndex, Threads
<1>7. AboutToLock' /\ NoTornRead'
  BY <1>1, <1>4 DEF TypeOK, AboutToLock, NoTornRead, Goto, AcquireBlockToWrite,
     GetNextWritableBlockIndex, Threads
<1> QED
  BY <1>2, <1>5, <1>6, <1>7

(* TryLockForWrite lets its writer alone into the block. *)
LEMMA TryLockForWriteIInv ==
  ASSUME IInv, NEW w \in Writers, TryLockForWrite(w)
  PROVE  IInv'
<1> USE DEF IInv
<1>0. PICK c \in Blocks : c = blk[w] /\ c = blk'[w]
  BY DEF TypeOK, Threads, TryLockForWrite
<1>1. w \in Threads /\ w \notin Readers /\ c \in Blocks
  BY <1>0, SegThreads DEF Threads, TypeOK
<1>2. TypeOK'
  BY <1>0, <1>1 DEF TypeOK, TryLockForWrite, Goto, WriterPC, KWriteExclusive
<1>3. WritersOf(c) = {} /\ ReadersOf(c) = {}
  <2>1. lock_num[c] = 0
    BY <1>0 DEF TryLockForWrite, KRWLockFree
  <2>2. WritersOf(c) = {} /\ Cardinality(ReadersOf(c)) = 0
    BY <1>0, <1>1, <2>1 DEF LockWordExact, KWriteExclusive
  <2> QED
    BY <1>0, <1>1, <2>2, ReadersFinite, FS_EmptySet
<1>4. /\ WritersOf(c)' = {w}
      /\ \A b \in Blocks \ {c} : WritersOf(b)' = WritersOf(b)
      /\ \A b \in Blocks : ReadersOf(b)' = ReadersOf(b)
  BY <1>0, <1>1, <1>3 DEF TypeOK, TryLockForWrite, Goto, WritersOf, ReadersOf,
     HoldsWrite, HoldsRead, Threads
<1>5. LockWordExact'
  BY <1>0, <1>1, <1>3, <1>4 DEF TypeOK, LockWordExact, TryLockForWrite, KWriteExclusive, Blocks
<1>6. TornOnlyUnderWriteLock'
  BY <1>0, <1>1 DEF TypeOK, TornOnlyUnderWriteLock, WritersOf, HoldsWrite, Goto,
     TryLockForWrite, Threads
<1>7. AboutToLock' /\ NoTornRead'
  BY <1>0, <1>1 DEF TypeOK, AboutToLock, NoTornRead, Goto, TryLockForWrite, Threads
<1> QED
  BY <1>2, <1>5, <1>6, <1>7

(* Copying the message happens inside the block. *)
LEMMA WriteIInv ==
  ASSUME IInv, NEW w \in Writers, WriteBegin(w) \/ WriteEnd(w)
  PROVE  IInv'
<1> USE DEF IInv
<1>1. w \in Threads /\ w \notin Readers /\ blk[w] \in Blocks /\ w \in WritersOf(blk[w])
  BY SegThreads DEF Threads, TypeOK, WriteBegin, WriteEnd, Goto, WritersOf, HoldsWrite
<1>2. TypeOK'
  <2>1. content' \in [Blocks -> Contents]
    BY <1>1 DEF TypeOK, WriteBegin, WriteEnd, Contents
  <2>2. /\ pc' \in [Threads -> WriterPC \cup ReaderPC]
        /\ \A v \in Writers : pc'[v] \in WriterPC
        /\ \A r \in Readers : pc'[r] \in ReaderPC
    BY <1>1 DEF TypeOK, WriteBegin, WriteEnd, Goto, WriterPC, Threads
  <2> QED
    BY <2>1, <2>2 DEF TypeOK, WriteBegin, WriteEnd
<1>3. \A b \in Blocks : WritersOf(b)' = WritersOf(b) /\ ReadersOf(b)' = ReadersOf(b)
  BY <1>1 DEF TypeOK, WriteBegin, WriteEnd, Goto, WritersOf, ReadersOf,
     HoldsWrite, HoldsRead, Threads
<1>4. UNCHANGED <<lock_num, seen, val>>
  BY DEF WriteBegin, WriteEnd
<1>5. LockWordExact'
  BY <1>3, <1>4, NobodyMoves
<1>6. TornOnlyUnderWriteLock'
  <2>1. SUFFICES ASSUME NEW b \in Blocks, content'[b] = Torn
                 PROVE  \E v \in WritersOf(b)' : pc'[v] = "writing"
    BY DEF TornOnlyUnderWriteLock
  <2>2. CASE b = blk[w]
    BY <1>1, <1>3, <2>1, <2>2 DEF TypeOK, WriteBegin, WriteEnd, Goto, Torn, Messages
  <2>3. CASE b # blk[w]
    <3>1. content[b] = Torn
      BY <2>1, <2>3 DEF TypeOK, WriteBegin, WriteEnd
    <3>2. PICK v \in WritersOf(b) : pc[v] = "writing"
      BY <3>1 DEF TornOnlyUnderWriteLock
    <3>3. v # w /\ v \in Threads
      BY <2>3, <3>2 DEF WritersOf, Threads
    <3>4. pc'[v] = "writing"
      BY <1>1, <3>2, <3>3 DEF TypeOK, WriteBegin, WriteEnd, Goto
    <3> QED
      BY <1>3, <3>2, <3>4
  <2> QED
    BY <2>2, <2>3
<1>7. AboutToLock' /\ NoTornRead'
  BY <1>1, <1>4 DEF TypeOK, AboutToLock, NoTornRead, Goto, WriteBegin, WriteEnd, Threads
<1> QED
  BY <1>2, <1>5, <1>6, <1>7

(* The writer in the block was alone: its release frees the block. *)
LEMMA ReleaseWrittenBlockIInv ==
  ASSUME IInv, NEW w \in Writers, ReleaseWrittenBlock(w)
  PROVE  IInv'
<1> USE DEF IInv
<1>0. PICK c \in Blocks : c = blk[w] /\ c = blk'[w]
  BY DEF TypeOK, Threads, ReleaseWrittenBlock
<1>1. w \in Threads /\ w \notin Readers /\ c \in Blocks /\ w \in WritersOf(c)
  BY <1>0, SegThreads DEF Threads, TypeOK, ReleaseWrittenBlock, Goto, WritersOf, HoldsWrite
<1>2. TypeOK'
  BY <1>0, <1>1 DEF TypeOK, ReleaseWrittenBlock, Goto, WriterPC
<1>3. lock_num[c] = -1 /\ WritersOf(c) = {w} /\ ReadersOf(c) = {}
  BY <1>0, <1>1 DEF LockWordExact, KWriteExclusive
<1>4. /\ WritersOf(c)' = {}
      /\ \A b \in Blocks \ {c} : WritersOf(b)' = WritersOf(b)
      /\ \A b \in Blocks : ReadersOf(b)' = ReadersOf(b)
  BY <1>0, <1>1, <1>3 DEF TypeOK, ReleaseWrittenBlock, Goto, WritersOf, ReadersOf,
     HoldsWrite, HoldsRead, Threads
<1>5. LockWordExact'
  <2>1. lock_num'[c] = 0 /\ \A b \in Blocks \ {c} : lock_num'[b] = lock_num[b]
    BY <1>0, <1>1, <1>3 DEF TypeOK, ReleaseWrittenBlock
  <2>2. Cardinality(ReadersOf(c)') = 0
    BY <1>0, <1>1, <1>3, <1>4, FS_EmptySet
  <2> QED
    BY <1>0, <1>1, <1>4, <2>1, <2>2 DEF LockWordExact, KWriteExclusive, Blocks
<1>6. TornOnlyUnderWriteLock'
  <2>1. SUFFICES ASSUME NEW b \in Blocks, content[b] = Torn
                 PROVE  \E v \in WritersOf(b)' : pc'[v] = "writing"
    BY DEF TornOnlyUnderWriteLock, ReleaseWrittenBlock
  <2>2. PICK v \in WritersOf(b) : pc[v] = "writing"
    BY <2>1 DEF TornOnlyUnderWriteLock
  <2>3. v # w /\ v \in Threads
    BY <2>2 DEF ReleaseWrittenBlock, Goto, WritersOf, Threads
  <2> QED
    BY <1>0, <1>1, <2>2, <2>3 DEF TypeOK, ReleaseWrittenBlock, Goto, WritersOf, HoldsWrite
<1>7. AboutToLock' /\ NoTornRead'
  BY <1>0, <1>1 DEF TypeOK, AboutToLock, NoTornRead, Goto, ReleaseWrittenBlock, Threads
<1> QED
  BY <1>2, <1>5, <1>6, <1>7

-----------------------------------------------------------------------------
(* Looking at a lock word, failing, and dying move nobody. *)
LEMMA LookIInv ==
  ASSUME IInv, NEW r \in Readers,
         \/ \E b \in Blocks : AcquireBlockToRead(r, b)
         \/ RetryLockForRead(r) \/ ReadMessageDeref(r)
  PROVE  IInv'
<1> USE DEF IInv
<1>1. r \in Threads /\ r \notin Writers /\ blk[r] \in Blocks
  BY SegThreads DEF Threads, TypeOK
<1>2. TypeOK'
  <2>1. /\ pc' \in [Threads -> WriterPC \cup ReaderPC]
        /\ \A w \in Writers : pc'[w] \in WriterPC
        /\ \A q \in Readers : pc'[q] \in ReaderPC
    BY <1>1 DEF TypeOK, AcquireBlockToRead, RetryLockForRead, ReadMessageDeref, Goto,
       ReaderPC, Threads
  <2>2. \A b \in Blocks : lock_num[b] \in Int
    BY DEF TypeOK
  <2>3. /\ seen' \in [Readers -> Int]
        /\ blk' \in [Threads -> Blocks]
    BY <1>1, <2>2 DEF TypeOK, AcquireBlockToRead, RetryLockForRead, ReadMessageDeref
  <2>4. tries' \in [Readers -> 0 .. KMaxTryLockTimes]
    <3>1. CASE \E b \in Blocks : AcquireBlockToRead(r, b)
      BY <3>1, SegBlocks DEF TypeOK, AcquireBlockToRead
    <3>2. CASE RetryLockForRead(r)
      <4>1. tries[r] \in 0 .. KMaxTryLockTimes /\ tries[r] < KMaxTryLockTimes
        BY <3>2 DEF TypeOK, AboutToLock, RetryLockForRead, Goto
      <4>2. tries[r] + 1 \in 0 .. KMaxTryLockTimes
        BY <4>1, SegBlocks
      <4> QED
        BY <3>2, <4>2 DEF TypeOK, RetryLockForRead
    <3>3. CASE ReadMessageDeref(r)
      BY <3>3 DEF TypeOK, ReadMessageDeref
    <3> QED
      BY <3>1, <3>2, <3>3
  <2> QED
    BY <2>1, <2>3, <2>4 DEF TypeOK, AcquireBlockToRead, RetryLockForRead, ReadMessageDeref
<1>3. \A b \in Blocks : WritersOf(b)' = WritersOf(b) /\ ReadersOf(b)' = ReadersOf(b)
  BY <1>1 DEF TypeOK, AcquireBlockToRead, RetryLockForRead, ReadMessageDeref, Goto,
     WritersOf, ReadersOf, HoldsWrite, HoldsRead, Threads
<1>4. UNCHANGED <<lock_num, content, val>>
  BY DEF AcquireBlockToRead, RetryLockForRead, ReadMessageDeref
<1>5. LockWordExact'
  BY <1>3, <1>4, NobodyMoves
<1>6. TornOnlyUnderWriteLock'
  BY <1>1, <1>4 DEF TypeOK, TornOnlyUnderWriteLock, WritersOf, HoldsWrite, Goto,
     AcquireBlockToRead, RetryLockForRead, ReadMessageDeref, Threads
<1>7. AboutToLock'
  BY <1>1, SegBlocks DEF TypeOK, AboutToLock, Goto, AcquireBlockToRead, RetryLockForRead,
     ReadMessageDeref, Threads, KRWLockFree
<1>8. NoTornRead'
  BY <1>4 DEF NoTornRead
<1> QED
  BY <1>2, <1>5, <1>6, <1>7, <1>8

(***************************************************************************)
(* A successful CAS from a word that is not a writer's adds one reader to  *)
(* the block, whatever happened since the word was loaded.                 *)
(***************************************************************************)
LEMMA TryLockForReadIInv ==
  ASSUME IInv, NEW r \in Readers, TryLockForRead(r)
  PROVE  IInv'
<1> USE DEF IInv
<1>0. PICK c \in Blocks : c = blk[r] /\ c = blk'[r]
  BY DEF TypeOK, Threads, TryLockForRead
<1>1. r \in Threads /\ r \notin Writers /\ c \in Blocks
  BY <1>0, SegThreads DEF Threads, TypeOK
<1>2. TypeOK'
  BY <1>0, <1>1 DEF TypeOK, TryLockForRead, Goto, ReaderPC
<1>3. lock_num[c] >= 0 /\ r \notin ReadersOf(c)
  BY <1>0 DEF AboutToLock, TryLockForRead, Goto, ReadersOf, HoldsRead, KRWLockFree
<1>4. WritersOf(c) = {} /\ lock_num[c] = Cardinality(ReadersOf(c))
  BY <1>0, <1>1, <1>3 DEF LockWordExact, KWriteExclusive
<1>5. /\ ReadersOf(c)' = ReadersOf(c) \cup {r}
      /\ \A b \in Blocks \ {c} : ReadersOf(b)' = ReadersOf(b)
      /\ \A b \in Blocks : WritersOf(b)' = WritersOf(b)
  BY <1>0, <1>1 DEF TypeOK, TryLockForRead, Goto, WritersOf, ReadersOf,
     HoldsWrite, HoldsRead, Threads
<1>6. LockWordExact'
  <2>1. /\ lock_num'[c] = Cardinality(ReadersOf(c)) + 1
        /\ \A b \in Blocks \ {c} : lock_num'[b] = lock_num[b]
    BY <1>0, <1>1, <1>4 DEF TypeOK, TryLockForRead
  <2>2. Cardinality(ReadersOf(c)') = Cardinality(ReadersOf(c)) + 1
    BY <1>0, <1>1, <1>3, <1>5, ReadersFinite, FS_AddElement
  <2> QED
    BY <1>0, <1>1, <1>4, <1>5, <2>1, <2>2 DEF LockWordExact, KWriteExclusive, Blocks
<1>7. TornOnlyUnderWriteLock'
  BY <1>0, <1>1 DEF TypeOK, TornOnlyUnderWriteLock, WritersOf, HoldsWrite, Goto,
     TryLockForRead, Threads
<1>8. AboutToLock' /\ NoTornRead'
  BY <1>0, <1>1 DEF TypeOK, AboutToLock, NoTornRead, Goto, TryLockForRead, Threads
<1> QED
  BY <1>2, <1>6, <1>7, <1>8

(* A reader in the block finds no writer there, hence no torn message. *)
LEMMA ReadBlockIInv ==
  ASSUME IInv, NEW r \in Readers, ReadBlock(r)
  PROVE  IInv'
<1> USE DEF IInv
<1>1. r \in Threads /\ r \notin Writers /\ blk[r] \in Blocks /\ r \in ReadersOf(blk[r])
  BY SegThreads DEF Threads, TypeOK, ReadBlock, Goto, ReadersOf, HoldsRead
<1>2. TypeOK'
  BY <1>1 DEF TypeOK, ReadBlock, Goto, ReaderPC
<1>3. \A b \in Blocks : WritersOf(b)' = WritersOf(b) /\ ReadersOf(b)' = ReadersOf(b)
  BY <1>1 DEF TypeOK, ReadBlock, Goto, WritersOf, ReadersOf, HoldsWrite, HoldsRead, Threads
<1>4. LockWordExact'
  BY <1>3, NobodyMoves DEF ReadBlock
<1>5. TornOnlyUnderWriteLock' /\ AboutToLock'
  BY <1>1 DEF TypeOK, TornOnlyUnderWriteLock, AboutToLock, WritersOf, HoldsWrite, Goto,
     ReadBlock, Threads
<1>6. content[blk[r]] # Torn
  <2>1. WritersOf(blk[r]) = {}
    BY <1>1 DEF LockWordExact
  <2> QED
    BY <1>1, <2>1 DEF TornOnlyUnderWriteLock
<1>7. NoTornRead'
  BY <1>6 DEF TypeOK, NoTornRead, ReadBlock
<1> QED
  BY <1>2, <1>4, <1>5, <1>7

(* Leaving the block takes one reader off the count. *)
LEMMA ReleaseReadableBlockIInv ==
  ASSUME IInv, NEW r \in Readers, ReleaseReadableBlock(r)
  PROVE  IInv'
<1> USE DEF IInv
<1>0. PICK c \in Blocks : c = blk[r] /\ c = blk'[r]
  BY DEF TypeOK, Threads, ReleaseReadableBlock
<1>1. r \in Threads /\ r \notin Writers /\ c \in Blocks /\ r \in ReadersOf(c)
  BY <1>0, SegThreads DEF Threads, TypeOK, ReleaseReadableBlock, Goto, ReadersOf, HoldsRead
<1>2. TypeOK'
  BY <1>0, <1>1 DEF TypeOK, ReleaseReadableBlock, Goto, ReaderPC
<1>3. WritersOf(c) = {} /\ lock_num[c] = Cardinality(ReadersOf(c))
  BY <1>0, <1>1 DEF LockWordExact
<1>4. /\ ReadersOf(c)' = ReadersOf(c) \ {r}
      /\ \A b \in Blocks \ {c} : ReadersOf(b)' = ReadersOf(b)
      /\ \A b \in Blocks : WritersOf(b)' = WritersOf(b)
  BY <1>0, <1>1 DEF TypeOK, ReleaseReadableBlock, Goto, WritersOf, ReadersOf,
     HoldsWrite, HoldsRead, Threads
<1>5. LockWordExact'
  <2>1. /\ lock_num'[c] = Cardinality(ReadersOf(c)) - 1
        /\ \A b \in Blocks \ {c} : lock_num'[b] = lock_num[b]
    BY <1>0, <1>1, <1>3 DEF TypeOK, ReleaseReadableBlock
  <2>2. Cardinality(ReadersOf(c)') = Cardinality(ReadersOf(c)) - 1
    BY <1>0, <1>1, <1>4, ReadersFinite, FS_RemoveElement
  <2> QED
    BY <1>0, <1>1, <1>3, <1>4, <2>1, <2>2 DEF LockWordExact, KWriteExclusive, Blocks
<1>6. TornOnlyUnderWriteLock'
  BY <1>0, <1>1 DEF TypeOK, TornOnlyUnderWriteLock, WritersOf, HoldsWrite, Goto,
     ReleaseReadableBlock, Threads
<1>7. AboutToLock' /\ NoTornRead'
  BY <1>0, <1>1 DEF TypeOK, AboutToLock, NoTornRead, Goto, ReleaseReadableBlock, Threads
<1> QED
  BY <1>2, <1>5, <1>6, <1>7

-----------------------------------------------------------------------------
(* A crash and a stuttering step leave everybody where they were. *)
LEMMA CrashIInv ==
  ASSUME IInv, (\E t \in Threads : Crash(t)) \/ UNCHANGED segvars
  PROVE  IInv'
<1> USE DEF IInv
<1>1. /\ UNCHANGED <<seq, lock_num, content, pc, blk, msg, seen, tries, val>>
      /\ crashed' \in SUBSET Threads
  BY DEF Crash, segvars, TypeOK
<1>2. TypeOK'
  BY <1>1 DEF TypeOK
<1>3. \A b \in Blocks : WritersOf(b)' = WritersOf(b) /\ ReadersOf(b)' = ReadersOf(b)
  BY <1>1 DEF WritersOf, ReadersOf, HoldsWrite, HoldsRead
<1>4. LockWordExact'
  BY <1>1, <1>3, NobodyMoves
<1>5. TornOnlyUnderWriteLock' /\ AboutToLock' /\ NoTornRead'
  BY <1>1, <1>3 DEF TornOnlyUnderWriteLock, AboutToLock, NoTornRead
<1> QED
  BY <1>2, <1>4, <1>5

(* Every step keeps the invariant. *)
LEMMA NextIInv == IInv /\ [Next]_segvars => IInv'
<1> SUFFICES ASSUME IInv, [Next]_segvars PROVE IInv'
  OBVIOUS
<1>1. CASE \E w \in Writers : Write(w)
  BY <1>1, DrawIInv, TryLockForWriteIInv, WriteIInv, ReleaseWrittenBlockIInv DEF Write
<1>2. CASE \E r \in Readers : Read(r)
  BY <1>2, LookIInv, TryLockForReadIInv, ReadBlockIInv, ReleaseReadableBlockIInv DEF Read
<1>3. CASE (\E t \in Threads : Crash(t)) \/ UNCHANGED segvars
  BY <1>3, CrashIInv
<1> QED
  BY <1>1, <1>2, <1>3 DEF Next

(***************************************************************************)
(* Every reachable state satisfies the inductive invariant.                *)
(***************************************************************************)
THEOREM Invariance == Spec => []IInv
  BY InitIInv, NextIInv, PTL DEF Spec

(* The model's variables keep their types (block indices stay in range). *)
THEOREM TypeCorrect == Spec => []TypeOK
<1>1. IInv => TypeOK
  BY DEF IInv
<1> QED
  BY <1>1, Invariance, PTL

(***************************************************************************)
(* block.cpp's lock word is -1 exactly when one writer, and no reader, is  *)
(* in the block, and otherwise counts the readers in it.                   *)
(***************************************************************************)
THEOREM LocksExact == Spec => []LockWordExact
<1>1. IInv => LockWordExact
  BY DEF IInv
<1> QED
  BY <1>1, Invariance, PTL

(* No listener of ShmDispatcher::ReadMessage is handed a torn message. *)
THEOREM ReadsComplete == Spec => []NoTornRead
<1>1. IInv => NoTornRead
  BY DEF IInv
<1> QED
  BY <1>1, Invariance, PTL

(* What a reader holds is not written: the word counts it, so no writer is in. *)
LEMMA HeldIsStable ==
  ASSUME IInv, [Next]_segvars, NEW r \in Readers, HoldsRead(r)
  PROVE  content'[blk[r]] = content[blk[r]]
<1>1. blk[r] \in Blocks /\ r \in ReadersOf(blk[r])
  BY DEF IInv, TypeOK, Threads, ReadersOf
<1>2. WritersOf(blk[r]) = {}
  BY <1>1 DEF IInv, LockWordExact
<1>3. CASE \E w \in Writers : WriteBegin(w) \/ WriteEnd(w)
  <2>1. PICK w \in Writers : WriteBegin(w) \/ WriteEnd(w)
    BY <1>3
  <2>2. blk[w] # blk[r]
    BY <1>2, <2>1 DEF WriteBegin, WriteEnd, Goto, WritersOf, HoldsWrite
  <2> QED
    BY <1>1, <2>1, <2>2 DEF WriteBegin, WriteEnd, IInv, TypeOK
<1>4. CASE UNCHANGED content
  BY <1>4
<1> QED
  BY <1>3, <1>4 DEF Next, Write, Read, Crash, AcquireBlockToWrite, TryLockForWrite,
     GetNextWritableBlockIndex, ReleaseWrittenBlock, AcquireBlockToRead,
     TryLockForRead, RetryLockForRead, ReadBlock, ReleaseReadableBlock, ReadMessageDeref,
     segvars

(***************************************************************************)
(* No Transmit changes a message while a dispatcher is in its block.       *)
(***************************************************************************)
THEOREM ReadsStable == Spec => StableWhileRead
<1> DEFINE Stable == \A r \in Readers : HoldsRead(r) => content'[blk[r]] = content[blk[r]]
<1>1. IInv /\ [Next]_segvars => [Stable]_segvars
  BY HeldIsStable
<1> QED
  BY <1>1, Invariance, PTL DEF Spec, StableWhileRead

-----------------------------------------------------------------------------
(* The channel: the ring's state keeps its types. *)

LEMMA SlotInRing == \A s \in Int : Ntf!Slot(s) \in Ntf!Slots
  BY ChannelRing DEF Ntf!Slot, Ntf!Slots

(* The ring's operations leave the ring's indices and notifications known. *)
RingAction ==
  \/ \E w \in Writers : \/ Ntf!NotifyDraw(w) \/ Ntf!NotifyWriteBegin(w)
                        \/ Ntf!NotifyWriteEnd(w) \/ Ntf!NotifyStamp(w)
  \/ \E d \in Readers : \/ Ntf!ListenStart(d) \/ Ntf!ListenCheck(d) \/ Ntf!ListenSeq(d)
                        \/ Ntf!ListenCopyBegin(d) \/ Ntf!ListenCopyEnd(d)
                        \/ Ntf!ListenAgain(d)

LEMMA RingActionType ==
  ASSUME RingTypeOK, RingAction
  PROVE  RingTypeOK'
<1> DEFINE NtfPC == Ntf!NotifierPC \cup Ntf!ListenerPC
<1> DEFINE Notified == Nat \cup {Ntf!NoInfo, Ntf!Torn}
<1> USE DEF RingTypeOK, Ntf!NotifierPC, Ntf!ListenerPC, Ntf!NoInfo, Ntf!Torn
<1>1. \A w \in Writers : w \in Threads /\ w \notin Readers
  BY SegThreads DEF Threads
<1>2. \A d \in Readers : d \in Threads /\ d \notin Writers
  BY SegThreads DEF Threads
<1>3. ASSUME NEW w \in Writers, Ntf!NotifyDraw(w)
      PROVE  RingTypeOK'
  <2>1. next_seq' = next_seq + 1 /\ ntf_seq' = [ntf_seq EXCEPT ![w] = next_seq]
    BY <1>3 DEF Ntf!NotifyDraw
  <2>2. UNCHANGED <<infos, seqs, cursor, info>>
    BY <1>3 DEF Ntf!NotifyDraw
  <2>3. ntf_pc' = [ntf_pc EXCEPT ![w] = "drawn"]
    BY <1>3 DEF Ntf!NotifyDraw, Ntf!Goto
  <2>4. ntf_pc' \in [Threads -> NtfPC]
    BY <1>1, <2>3
  <2>5. \A v \in Writers \ {w} : Ntf!InFlight(v)' => Ntf!InFlight(v)
    BY <1>1, <2>3 DEF Ntf!InFlight
  <2>6. \A v \in Writers : Ntf!InFlight(v)' => ntf_seq'[v] < next_seq'
    BY <2>1, <2>5
  <2>7. next_seq' \in Nat /\ ntf_seq' \in [Writers -> Nat]
    BY <2>1
  <2>8. \A i \in Ntf!Slots : infos'[i] < next_seq'
    BY <2>1, <2>2
  <2>9. \A d \in Readers : info'[d] < next_seq'
    BY <2>1, <2>2
  <2> QED
    BY <2>2, <2>4, <2>6, <2>7, <2>8, <2>9
<1>4. ASSUME NEW w \in Writers, Ntf!NotifyWriteBegin(w) \/ Ntf!NotifyWriteEnd(w)
      PROVE  RingTypeOK'
  <2>1. Ntf!Slot(ntf_seq[w]) \in Ntf!Slots /\ Ntf!InFlight(w) /\ ntf_seq[w] < next_seq
    BY <1>4, SlotInRing DEF Ntf!NotifyWriteBegin, Ntf!NotifyWriteEnd, Ntf!Goto, Ntf!InFlight
  <2>2. infos' \in [Ntf!Slots -> Notified] /\ \A i \in Ntf!Slots : infos'[i] < next_seq
    BY <1>4, <2>1 DEF Ntf!NotifyWriteBegin, Ntf!NotifyWriteEnd, Ntf!Torn
  <2>3. ntf_pc' \in [Threads -> NtfPC]
    BY <1>1, <1>4 DEF Ntf!NotifyWriteBegin, Ntf!NotifyWriteEnd, Ntf!Goto
  <2>4. \A v \in Writers : Ntf!InFlight(v)' => Ntf!InFlight(v)
    BY <1>1, <1>4, <2>1 DEF Ntf!NotifyWriteBegin, Ntf!NotifyWriteEnd, Ntf!Goto, Ntf!InFlight
  <2> QED
    BY <1>4, <2>2, <2>3, <2>4 DEF Ntf!NotifyWriteBegin, Ntf!NotifyWriteEnd
<1>5. ASSUME NEW w \in Writers, Ntf!NotifyStamp(w)
      PROVE  RingTypeOK'
  <2>1. Ntf!Slot(ntf_seq[w]) \in Ntf!Slots
    BY SlotInRing
  <2>2. seqs' \in [Ntf!Slots -> Int] /\ ntf_pc' \in [Threads -> NtfPC]
    BY <1>1, <1>5, <2>1 DEF Ntf!NotifyStamp, Ntf!Goto
  <2>3. \A v \in Writers : Ntf!InFlight(v)' => Ntf!InFlight(v)
    BY <1>1, <1>5 DEF Ntf!NotifyStamp, Ntf!Goto, Ntf!InFlight
  <2> QED
    BY <1>5, <2>2, <2>3 DEF Ntf!NotifyStamp
<1>6. ASSUME NEW d \in Readers,
             \/ Ntf!ListenStart(d) \/ Ntf!ListenCheck(d) \/ Ntf!ListenSeq(d)
             \/ Ntf!ListenCopyBegin(d) \/ Ntf!ListenCopyEnd(d) \/ Ntf!ListenAgain(d)
      PROVE  RingTypeOK'
  <2>1. Ntf!Slot(cursor[d]) \in Ntf!Slots
    BY SlotInRing
  <2>2. UNCHANGED <<next_seq, infos, seqs, ntf_seq>>
    BY <1>6 DEF Ntf!ListenStart, Ntf!ListenCheck, Ntf!ListenSeq, Ntf!ListenCopyBegin,
       Ntf!ListenCopyEnd, Ntf!ListenAgain
  <2>3. ntf_pc' \in [Threads -> NtfPC] /\ \A t \in Threads \ {d} : ntf_pc'[t] = ntf_pc[t]
    BY <1>2, <1>6 DEF Ntf!ListenStart, Ntf!ListenCheck, Ntf!ListenSeq, Ntf!ListenCopyBegin,
       Ntf!ListenCopyEnd, Ntf!ListenAgain, Ntf!Goto
  <2>4. cursor' \in [Readers -> Int]
    BY <1>6, <2>1 DEF Ntf!ListenStart, Ntf!ListenCheck, Ntf!ListenSeq, Ntf!ListenCopyBegin,
       Ntf!ListenCopyEnd, Ntf!ListenAgain
  <2>5. info' \in [Readers -> Notified] /\ \A e \in Readers : info'[e] < next_seq
    BY <1>6, <2>1 DEF Ntf!ListenStart, Ntf!ListenCheck, Ntf!ListenSeq, Ntf!ListenCopyBegin,
       Ntf!ListenCopyEnd, Ntf!ListenAgain, Ntf!Torn
  <2>6. \A v \in Writers : Ntf!InFlight(v)' <=> Ntf!InFlight(v)
    BY <1>1, <1>2, <2>3 DEF Ntf!InFlight
  <2> QED
    BY <2>2, <2>3, <2>4, <2>5, <2>6
<1> QED
  BY <1>3, <1>4, <1>5, <1>6 DEF RingAction

-----------------------------------------------------------------------------
(* How the channel uses its parts. *)

(* Whatever info a dispatcher holds, it names a block of the segment. *)
LEMMA NamedAreBlocks ==
  ASSUME ChannelInv, NEW d \in Readers
  PROVE  Named(d) \subseteq Blocks
<1> USE DEF ChannelInv, RingTypeOK, LogTypeOK
<1>1. 0 \in Blocks
  BY SegBlocks DEF Blocks
<1>2. \A s \in 0 .. next_seq - 1 : notified[s + 1].block \in Blocks
  <2> SUFFICES ASSUME NEW s \in 0 .. next_seq - 1 PROVE notified[s + 1].block \in Blocks
    OBVIOUS
  <2>1. s + 1 \in 1 .. Len(notified)
    OBVIOUS
  <2>2. notified[s + 1] \in [block : Blocks, msg : Messages]
    BY <2>1, ElementOfSeq
  <2> QED
    BY <2>2
<1>3. info[d] \in Nat \cup {Ntf!NoInfo, Ntf!Torn} /\ info[d] < next_seq
  OBVIOUS
<1> QED
  BY <1>1, <1>2, <1>3 DEF Named, Ntf!NoInfo, Ntf!Torn

(* Every step of the channel is a step of the segment or leaves it alone. *)
LEMMA SegmentStep ==
  ASSUME ChannelInv, [ChannelNext]_channelVars
  PROVE  [Next]_segvars
<1>1. ASSUME NEW w \in Writers, Transmit(w) PROVE [Next]_segvars
  BY <1>1 DEF Transmit, TransmitWrite, TransmitWritten, TransmitRelease,
     TransmitNotifyDraw, TransmitNotifyWrite, TransmitNotifyStamp, Next, Write
<1>2. ASSUME NEW d \in Readers, ThreadFunc(d) PROVE [Next]_segvars
  <2>1. CASE ReadMessageAcquire(d)
    BY <2>1, NamedAreBlocks DEF ReadMessageAcquire, Next, Read
  <2>2. CASE ThreadFuncListen(d) \/ ThreadFuncOtherHost(d)
    BY <2>2 DEF ThreadFuncListen, ThreadFuncOtherHost
  <2>3. CASE ReadMessage(d) \/ ReadMessageRelease(d)
    BY <2>3 DEF ReadMessage, ReadMessageRelease, Next, Read
  <2> QED
    BY <1>2, <2>1, <2>2, <2>3 DEF ThreadFunc
<1>3. ASSUME NEW t \in Threads, ProcessDies(t) PROVE [Next]_segvars
  BY <1>3 DEF ProcessDies, Next
<1>4. CASE UNCHANGED channelVars
  BY <1>4 DEF channelVars
<1> QED
  BY <1>1, <1>2, <1>3, <1>4 DEF ChannelNext

(* Every step of the channel is an operation on the ring or leaves it alone. *)
LEMMA RingStep ==
  ASSUME [ChannelNext]_channelVars
  PROVE  RingAction \/ UNCHANGED ntfvars
<1>1. ASSUME NEW w \in Writers, Transmit(w) PROVE RingAction \/ UNCHANGED ntfvars
  BY <1>1 DEF Transmit, TransmitWrite, TransmitWritten, TransmitRelease,
     TransmitNotifyDraw, TransmitNotifyWrite, TransmitNotifyStamp, RingAction
<1>2. ASSUME NEW d \in Readers, ThreadFunc(d) PROVE RingAction \/ UNCHANGED ntfvars
  BY <1>2 DEF ThreadFunc, ThreadFuncListen, ThreadFuncOtherHost, ReadMessageAcquire,
     ReadMessage, ReadMessageRelease, RingAction
<1>3. ASSUME NEW t \in Threads, ProcessDies(t) PROVE UNCHANGED ntfvars
  BY <1>3 DEF ProcessDies
<1>4. CASE UNCHANGED channelVars
  BY <1>4 DEF channelVars
<1> QED
  BY <1>1, <1>2, <1>3, <1>4 DEF ChannelNext

(* Hence the segment's invariant and the types of the ring are kept. *)
LEMMA PartsKept ==
  ASSUME ChannelInv, [ChannelNext]_channelVars
  PROVE  IInv' /\ RingTypeOK'
<1>1. IInv'
  BY SegmentStep, NextIInv DEF ChannelInv
<1>2. CASE RingAction
  BY <1>1, <1>2, RingActionType DEF ChannelInv
<1>3. CASE UNCHANGED ntfvars
  <2>1. \A w \in Writers : Ntf!InFlight(w)' <=> Ntf!InFlight(w)
    BY <1>3 DEF ntfvars, Ntf!InFlight
  <2> QED
    BY <1>1, <1>3, <2>1 DEF ChannelInv, RingTypeOK, ntfvars
<1> QED
  BY <1>2, <1>3, RingStep

-----------------------------------------------------------------------------
(* What has been written and announced. *)

(* A block's history only grows, so what was written into it stays written. *)
Grows ==
  \/ UNCHANGED history
  \/ \E c \in Blocks, m \in Messages : history' = [history EXCEPT ![c] = Append(@, m)]

LEMMA AppendKeeps ==
  ASSUME NEW S, NEW h \in Seq(S), NEW m \in S
  PROVE  /\ Append(h, m) \in Seq(S)
         /\ DOMAIN Append(h, m) = 1 .. Len(h) + 1
         /\ Len(Append(h, m)) = Len(h) + 1
         /\ \A i \in 1 .. Len(h) : Append(h, m)[i] = h[i]
         /\ Append(h, m)[Len(h) + 1] = m
         /\ DOMAIN h = 1 .. Len(h) /\ Len(h) \in Nat
  BY AppendProperties, LenProperties

LEMMA WrittenStays ==
  ASSUME LogTypeOK, Grows, NEW b \in Blocks, NEW m, Written(m, b)
  PROVE  Written(m, b)'
<1>1. CASE UNCHANGED history
  BY <1>1 DEF Written
<1>2. CASE ~UNCHANGED history
  <2>1. PICK c \in Blocks, x \in Messages : history' = [history EXCEPT ![c] = Append(@, x)]
    BY <1>2 DEF Grows
  <2>2. history[c] \in Seq(Messages)
    BY DEF LogTypeOK
  <2>3. CASE b = c
    <3>1. history'[b] = Append(history[b], x)
      BY <2>1, <2>3 DEF LogTypeOK
    <3>2. PICK i \in DOMAIN history[b] : history[b][i] = m
      BY DEF Written
    <3>3. i \in DOMAIN Append(history[b], x) /\ Append(history[b], x)[i] = m
      BY <2>2, <2>3, <3>2, AppendKeeps
    <3> QED
      BY <3>1, <3>3 DEF Written
  <2>4. CASE b # c
    <3>1. history'[b] = history[b]
      BY <2>1, <2>4 DEF LogTypeOK
    <3> QED
      BY <3>1 DEF Written
  <2> QED
    BY <2>3, <2>4
<1> QED
  BY <1>1, <1>2

(* A dispatcher that does nothing keeps to its notification: nobody writes *)
(* into the block it holds, and notifications do not change.               *)
LEMMA OthersKeep ==
  ASSUME ChannelInv, [Next]_segvars, NEW d \in Readers,
         pc'[d] = pc[d], blk'[d] = blk[d], val'[d] = val[d],
         ntf_pc'[d] = ntf_pc[d], info'[d] = info[d],
         \A n \in DOMAIN notified : notified'[n] = notified[n]
  PROVE  KeepsTo(d)'
<1> SUFFICES ASSUME pc[d] # "idle" PROVE KeepsTo(d)'
  BY DEF KeepsTo
<1>1. KeepsTo(d)
  BY DEF ChannelInv, KeepsToNotification
<1>2. ASSUME info[d] >= 0 PROVE info[d] + 1 \in DOMAIN notified
  <2>1. DOMAIN notified = 1 .. next_seq
    BY LenProperties DEF ChannelInv, LogTypeOK
  <2>2. info[d] \in Nat /\ info[d] < next_seq /\ next_seq \in Nat
    BY <1>2 DEF ChannelInv, RingTypeOK, Ntf!NoInfo, Ntf!Torn
  <2> QED
    BY <2>1, <2>2
<1>3. ASSUME info[d] >= 0 PROVE blk'[d] = notified'[info'[d] + 1].block
  BY <1>1, <1>2, <1>3 DEF KeepsTo
<1>4. ASSUME pc[d] = "reading" PROVE val'[d] = content'[blk'[d]]
  <2>1. content'[blk[d]] = content[blk[d]]
    BY <1>4, HeldIsStable DEF ChannelInv, HoldsRead
  <2> QED
    BY <1>1, <1>4, <2>1 DEF KeepsTo
<1> QED
  BY <1>1, <1>3, <1>4 DEF KeepsTo

(* The parts of the invariant that speak of the channel itself. *)
LogInv == LogTypeOK /\ AnnouncedIsWritten /\ HoldsLastWritten /\ KeepsToNotification

(* A writer is no reader: what it does to its own variables, no reader sees. *)
LEMMA WriterMoves ==
  ASSUME ChannelInv, NEW w \in Writers, Transmit(w), NEW d \in Readers
  PROVE  /\ pc'[d] = pc[d] /\ blk'[d] = blk[d] /\ val'[d] = val[d]
         /\ ntf_pc'[d] = ntf_pc[d] /\ info'[d] = info[d]
<1>1. d # w /\ d \in Threads /\ w \in Threads
  BY SegThreads DEF Threads
<1>2. pc'[d] = pc[d] /\ blk'[d] = blk[d] /\ val'[d] = val[d]
  BY <1>1 DEF ChannelInv, IInv, TypeOK, Transmit, TransmitWrite, TransmitWritten,
     TransmitRelease, TransmitNotifyDraw, TransmitNotifyWrite, TransmitNotifyStamp,
     AcquireBlockToWrite, TryLockForWrite, GetNextWritableBlockIndex, WriteBegin,
     WriteEnd, ReleaseWrittenBlock, Goto, segvars
<1>3. ntf_pc'[d] = ntf_pc[d] /\ info'[d] = info[d]
  BY <1>1 DEF ChannelInv, RingTypeOK, Transmit, TransmitWrite, TransmitWritten,
     TransmitRelease, TransmitNotifyDraw, TransmitNotifyWrite, TransmitNotifyStamp,
     Ntf!NotifyDraw, Ntf!NotifyWriteBegin, Ntf!NotifyWriteEnd, Ntf!NotifyStamp,
     Ntf!Goto, ntfvars
<1> QED
  BY <1>2, <1>3

(* Acquiring, writing and releasing a block. *)
LEMMA TransmitBlockInv ==
  ASSUME ChannelInv, [Next]_segvars, NEW w \in Writers,
         TransmitWrite(w) \/ TransmitWritten(w) \/ TransmitRelease(w)
  PROVE  LogInv'
<1> USE DEF ChannelInv
<1>1. /\ w \in Threads /\ blk[w] \in Blocks /\ msg[w] \in Messages
      /\ UNCHANGED <<next_seq, notified>> /\ Transmit(w)
  BY DEF IInv, TypeOK, Threads, TransmitWrite, TransmitWritten, TransmitRelease, ntfvars,
     logvars, Transmit
<1>2. history[blk[w]] \in Seq(Messages)
  BY <1>1 DEF LogTypeOK
<1>3. Grows
  BY <1>1 DEF Grows, TransmitWrite, TransmitWritten, TransmitRelease, logvars
<1>4. LogTypeOK'
  <2>1. history' \in [Blocks -> Seq(Messages)]
    <3>1. Append(history[blk[w]], msg[w]) \in Seq(Messages)
      BY <1>1, <1>2, AppendKeeps
    <3> QED
      BY <1>1, <3>1 DEF LogTypeOK, TransmitWrite, TransmitWritten, TransmitRelease, logvars
  <2> QED
    BY <1>1, <2>1 DEF LogTypeOK
<1>5. AnnouncedIsWritten'
  <2>1. ASSUME NEW n \in DOMAIN notified PROVE Written(notified[n].msg, notified[n].block)'
    <3>1. n \in 1 .. Len(notified)
      BY <2>1, LenProperties DEF LogTypeOK
    <3>2. notified[n].block \in Blocks
      <4>1. notified \in Seq([block : Blocks, msg : Messages])
        BY DEF LogTypeOK
      <4>2. notified[n] \in [block : Blocks, msg : Messages]
        BY <3>1, <4>1, ElementOfSeq
      <4> QED
        BY <4>2
    <3>3. Written(notified[n].msg, notified[n].block)
      BY DEF AnnouncedIsWritten
    <3>4. \E i \in DOMAIN history'[notified[n].block] :
             history'[notified[n].block][i] = notified[n].msg
      BY <1>3, <3>2, <3>3, WrittenStays DEF Written
    <3> QED
      BY <1>1, <3>4 DEF Written
  <2>2. ASSUME NEW v \in Writers, pc'[v] = "written" \/ v \in pending'
        PROVE  Written(msg[v], blk[v])'
    <3>1. v \in Threads /\ blk[v] \in Blocks
      BY DEF IInv, TypeOK, Threads
    <3>2. CASE v # w \/ TransmitRelease(w)
      <4>1. pc[v] = "written" \/ v \in pending
        BY <1>1, <2>2, <3>1, <3>2
           DEF IInv, TypeOK, TransmitWrite, TransmitWritten, TransmitRelease, logvars, Goto,
               AcquireBlockToWrite, TryLockForWrite, GetNextWritableBlockIndex, WriteBegin,
               WriteEnd, ReleaseWrittenBlock
      <4>2. msg'[v] = msg[v] /\ blk'[v] = blk[v] /\ blk[v] \in Blocks
        BY <1>1, <3>1, <3>2
           DEF IInv, TypeOK, TransmitWrite, TransmitWritten, TransmitRelease, Goto,
               AcquireBlockToWrite, TryLockForWrite, GetNextWritableBlockIndex, WriteBegin,
               WriteEnd, ReleaseWrittenBlock
      <4>3. Written(msg[v], blk[v])
        BY <4>1 DEF AnnouncedIsWritten
      <4>4. \E i \in DOMAIN history'[blk[v]] : history'[blk[v]][i] = msg[v]
        BY <1>3, <4>2, <4>3, WrittenStays DEF Written
      <4> QED
        BY <4>2, <4>4 DEF Written
    <3>3. CASE v = w /\ TransmitWritten(w)
      <4>1. msg' = msg /\ blk' = blk
        BY <3>3 DEF TransmitWritten, WriteEnd
      <4>2. history'[blk[w]] = Append(history[blk[w]], msg[w])
        BY <1>1, <3>3 DEF TransmitWritten, LogTypeOK
      <4>3. /\ Len(history[blk[w]]) + 1 \in DOMAIN history'[blk[w]]
            /\ history'[blk[w]][Len(history[blk[w]]) + 1] = msg[w]
        BY <1>1, <1>2, <4>2, AppendKeeps
      <4> QED
        BY <3>3, <4>1, <4>3 DEF Written
    <3>4. CASE v = w /\ TransmitWrite(w)
      BY <1>1, <2>2, <3>4
         DEF IInv, TypeOK, TransmitWrite, Goto, logvars,
             AcquireBlockToWrite, TryLockForWrite, GetNextWritableBlockIndex, WriteBegin
    <3> QED
      BY <3>1, <3>2, <3>3, <3>4
  <2> QED
    BY <1>1, <2>1, <2>2 DEF AnnouncedIsWritten
<1>6. HoldsLastWritten'
  <2> SUFFICES ASSUME NEW b \in Blocks
               PROVE  \/ content'[b] = Torn
                      \/ content'[b] = Empty /\ history'[b] = <<>>
                      \/ history'[b] # <<>> /\ content'[b] = history'[b][Len(history'[b])]
    BY DEF HoldsLastWritten
  <2>1. CASE TransmitWritten(w) /\ b = blk[w]
    <3>1. history'[b] = Append(history[b], msg[w]) /\ content'[b] = msg[w]
      BY <1>1, <2>1 DEF TransmitWritten, WriteEnd, LogTypeOK, IInv, TypeOK
    <3>2. history'[b] # <<>>
      BY <1>1, <1>2, <2>1, <3>1, AppendProperties
    <3>3. history'[b][Len(history'[b])] = msg[w]
      BY <1>1, <1>2, <2>1, <3>1, AppendKeeps
    <3> QED
      BY <3>1, <3>2, <3>3
  <2>2. CASE TransmitWrite(w) /\ WriteBegin(w) /\ b = blk[w]
    BY <2>2 DEF WriteBegin, IInv, TypeOK
  <2>3. CASE content'[b] = content[b] /\ history'[b] = history[b]
    BY <2>3 DEF HoldsLastWritten
  <2>4. TransmitWritten(w) /\ b # blk[w] => content'[b] = content[b] /\ history'[b] = history[b]
    BY <1>1 DEF TransmitWritten, WriteEnd, LogTypeOK, IInv, TypeOK
  <2>5. TransmitWrite(w) /\ ~(WriteBegin(w) /\ b = blk[w]) =>
          content'[b] = content[b] /\ history'[b] = history[b]
    BY <1>1 DEF TransmitWrite, WriteBegin, AcquireBlockToWrite, TryLockForWrite,
       GetNextWritableBlockIndex, logvars, IInv, TypeOK
  <2>6. TransmitRelease(w) => content'[b] = content[b] /\ history'[b] = history[b]
    BY DEF TransmitRelease, ReleaseWrittenBlock
  <2> QED
    BY <2>1, <2>2, <2>3, <2>4, <2>5, <2>6
<1>7. KeepsToNotification'
  BY <1>1, WriterMoves, OthersKeep DEF KeepsToNotification
<1> QED
  BY <1>4, <1>5, <1>6, <1>7 DEF LogInv

(* Notify: the message it announces has been written. *)
LEMMA TransmitNotifyInv ==
  ASSUME ChannelInv, [Next]_segvars, NEW w \in Writers,
         TransmitNotifyDraw(w) \/ TransmitNotifyWrite(w) \/ TransmitNotifyStamp(w)
  PROVE  LogInv'
<1> USE DEF ChannelInv
<1>1. /\ w \in Threads /\ blk[w] \in Blocks /\ msg[w] \in Messages
      /\ UNCHANGED <<segvars, history>> /\ Transmit(w)
  BY DEF IInv, TypeOK, Threads, TransmitNotifyDraw, TransmitNotifyWrite,
     TransmitNotifyStamp, logvars, Transmit
<1>2. notified \in Seq([block : Blocks, msg : Messages]) /\ Len(notified) = next_seq
  BY DEF LogTypeOK
<1>3. CASE TransmitNotifyDraw(w)
  <2> DEFINE n == [block |-> blk[w], msg |-> msg[w]]
  <2>1. n \in [block : Blocks, msg : Messages] /\ n.block = blk[w] /\ n.msg = msg[w]
    BY <1>1
  <2>2. notified' = Append(notified, n) /\ next_seq' = next_seq + 1 /\ pending' = pending
    BY <1>3 DEF TransmitNotifyDraw, Ntf!NotifyDraw
  <2> HIDE DEF n
  <2>3. /\ notified' \in Seq([block : Blocks, msg : Messages])
        /\ Len(notified') = next_seq'
        /\ DOMAIN notified = 1 .. Len(notified) /\ Len(notified) \in Nat
        /\ DOMAIN notified' = 1 .. Len(notified) + 1
        /\ \A i \in 1 .. Len(notified) : notified'[i] = notified[i]
        /\ notified'[Len(notified) + 1] = n
    BY <1>2, <2>1, <2>2, AppendKeeps
  <2>4. LogTypeOK'
    BY <1>1, <2>3 DEF LogTypeOK
  <2>5. AnnouncedIsWritten'
    <3>1. ASSUME NEW i \in DOMAIN notified' PROVE Written(notified'[i].msg, notified'[i].block)
      <4>1. CASE i \in 1 .. Len(notified)
        BY <2>3, <4>1 DEF AnnouncedIsWritten
      <4>2. CASE i = Len(notified) + 1
        <5>1. w \in pending
          BY <1>3 DEF TransmitNotifyDraw
        <5> QED
          BY <2>1, <2>3, <4>2, <5>1 DEF AnnouncedIsWritten
      <4> QED
        BY <2>3, <3>1, <4>1, <4>2
    <3> QED
      BY <1>1, <2>2, <3>1 DEF AnnouncedIsWritten, Written, segvars
  <2>6. KeepsToNotification'
    BY <1>1, <2>3, WriterMoves, OthersKeep DEF KeepsToNotification
  <2> QED
    BY <1>1, <2>4, <2>5, <2>6 DEF LogInv, HoldsLastWritten, segvars
<1>4. CASE TransmitNotifyWrite(w) \/ TransmitNotifyStamp(w)
  <2>1. UNCHANGED <<next_seq, notified>> /\ pending' \subseteq pending
    BY <1>4 DEF TransmitNotifyWrite, TransmitNotifyStamp, logvars, Ntf!NotifyWriteBegin,
       Ntf!NotifyWriteEnd, Ntf!NotifyStamp
  <2>2. LogTypeOK' /\ HoldsLastWritten'
    BY <1>1, <2>1 DEF LogTypeOK, HoldsLastWritten, segvars
  <2>3. AnnouncedIsWritten'
    BY <1>1, <2>1 DEF AnnouncedIsWritten, Written, segvars
  <2>4. KeepsToNotification'
    BY <1>1, <2>1, WriterMoves, OthersKeep DEF KeepsToNotification
  <2> QED
    BY <2>2, <2>3, <2>4 DEF LogInv
<1> QED
  BY <1>3, <1>4

(* Listening and reading: a dispatcher reads the block its notification    *)
(* names and listens again only when it has released it.                   *)
LEMMA ThreadFuncInv ==
  ASSUME ChannelInv, [Next]_segvars, NEW d \in Readers, ThreadFunc(d)
  PROVE  LogInv'
<1> USE DEF ChannelInv
<1>1. /\ d \in Threads /\ d \notin Writers
      /\ \A w \in Writers : w \in Threads /\ w # d
  BY SegThreads DEF Threads
<1>2. UNCHANGED <<logvars, next_seq, content, msg>>
  BY DEF ThreadFunc, ThreadFuncListen, ThreadFuncOtherHost, ReadMessageAcquire,
     ReadMessage, ReadMessageRelease, Ntf!ListenStart, Ntf!ListenCheck, Ntf!ListenSeq,
     Ntf!ListenCopyBegin, Ntf!ListenCopyEnd, Ntf!ListenAgain, AcquireBlockToRead,
     TryLockForRead, RetryLockForRead, ReadBlock, ReadMessageDeref,
     ReleaseReadableBlock, ntfvars, segvars, logvars
<1>3. \A t \in Threads \ {d} : pc'[t] = pc[t] /\ blk'[t] = blk[t]
  BY <1>1 DEF ThreadFunc, ThreadFuncListen, ThreadFuncOtherHost, ReadMessageAcquire,
     ReadMessage, ReadMessageRelease, AcquireBlockToRead, TryLockForRead,
     RetryLockForRead, ReadBlock, ReadMessageDeref, ReleaseReadableBlock,
     segvars, IInv, TypeOK, Goto
<1>4. \A e \in Readers \ {d} : /\ val'[e] = val[e] /\ info'[e] = info[e]
                               /\ ntf_pc'[e] = ntf_pc[e]
  <2>1. \A e \in Readers \ {d} : val'[e] = val[e]
    BY DEF ThreadFunc, ThreadFuncListen, ThreadFuncOtherHost, ReadMessageAcquire,
       ReadMessage, ReadMessageRelease, AcquireBlockToRead, TryLockForRead,
       RetryLockForRead, ReadBlock, ReadMessageDeref, ReleaseReadableBlock,
       segvars, IInv, TypeOK
  <2>2. \A e \in Readers \ {d} : info'[e] = info[e] /\ ntf_pc'[e] = ntf_pc[e]
    BY DEF ThreadFunc, ThreadFuncListen, ThreadFuncOtherHost, ReadMessageAcquire,
       ReadMessage, ReadMessageRelease, Ntf!ListenStart, Ntf!ListenCheck, Ntf!ListenSeq,
       Ntf!ListenCopyBegin, Ntf!ListenCopyEnd, Ntf!ListenAgain, Ntf!Goto, ntfvars,
       RingTypeOK, Threads
  <2> QED
    BY <2>1, <2>2
<1>5. LogTypeOK' /\ HoldsLastWritten'
  BY <1>2 DEF LogTypeOK, HoldsLastWritten, logvars
<1>6. AnnouncedIsWritten'
  BY <1>1, <1>2, <1>3 DEF AnnouncedIsWritten, Written, logvars
<1>7. \A e \in Readers \ {d} : KeepsTo(e)'
  BY <1>2, <1>3, <1>4, OthersKeep DEF Threads, logvars
<1>8. KeepsTo(d)'
  <2>0. KeepsTo(d) /\ pc[d] \in ReaderPC
    BY DEF KeepsToNotification, IInv, TypeOK
  <2>1. CASE ThreadFuncListen(d) \/ ThreadFuncOtherHost(d)
    <3>1. pc'[d] = pc[d]
      BY <2>1 DEF ThreadFuncListen, ThreadFuncOtherHost, segvars
    <3>2. pc[d] = "idle"
      BY <2>0, <2>1 DEF KeepsTo, ThreadFuncListen, ThreadFuncOtherHost, Ntf!ListenStart,
         Ntf!ListenCheck, Ntf!ListenSeq, Ntf!ListenCopyBegin, Ntf!ListenCopyEnd, Ntf!Goto
    <3> QED
      BY <3>1, <3>2 DEF KeepsTo
  <2>2. CASE ReadMessageAcquire(d)
    <3>1. PICK b \in Named(d) : AcquireBlockToRead(d, b)
      BY <2>2 DEF ReadMessageAcquire
    <3>2. blk'[d] = b /\ pc'[d] \in {"failed", "cas"}
      BY <1>1, <3>1 DEF AcquireBlockToRead, Goto, IInv, TypeOK
    <3>3. ntf_pc'[d] = "returned" /\ info'[d] = info[d] /\ notified' = notified
      BY <2>2 DEF ReadMessageAcquire, ntfvars, logvars
    <3>4. info[d] >= 0 => b = notified[info[d] + 1].block
      BY <3>1 DEF Named, Ntf!NoInfo, Ntf!Torn
    <3> QED
      BY <3>2, <3>3, <3>4 DEF KeepsTo
  <2>3. CASE ReadMessage(d)
    <3>1. pc[d] # "idle" /\ blk'[d] = blk[d] /\ content' = content
      BY <2>3 DEF ReadMessage, TryLockForRead, RetryLockForRead, ReadBlock,
         ReadMessageDeref, Goto
    <3>2. ntf_pc'[d] = ntf_pc[d] /\ info'[d] = info[d] /\ notified' = notified
      BY <2>3 DEF ReadMessage, ntfvars, logvars
    <3>3. pc'[d] = "reading" => val'[d] = content[blk[d]]
      BY <1>1, <2>3 DEF ReadMessage, TryLockForRead, RetryLockForRead, ReadBlock,
         ReadMessageDeref, Goto, IInv, TypeOK
    <3> QED
      BY <2>0, <3>1, <3>2, <3>3 DEF KeepsTo
  <2>4. CASE ReadMessageRelease(d)
    <3>1. pc'[d] = "idle"
      BY <1>1, <2>4 DEF ReadMessageRelease, ReleaseReadableBlock, Goto, IInv, TypeOK
    <3> QED
      BY <3>1 DEF KeepsTo
  <2> QED
    BY <2>1, <2>2, <2>3, <2>4 DEF ThreadFunc
<1> QED
  BY <1>5, <1>6, <1>7, <1>8 DEF LogInv, KeepsToNotification

(* Initially nothing is written, announced or read. *)
LEMMA ChannelInitInv == ChannelInit => ChannelInv
<1> SUFFICES ASSUME ChannelInit PROVE ChannelInv
  OBVIOUS
<1>1. IInv
  BY InitIInv DEF ChannelInit
<1>2. RingTypeOK
  <2>1. /\ next_seq = 0 /\ infos = [i \in Ntf!Slots |-> Ntf!NoInfo]
        /\ seqs = [i \in Ntf!Slots |-> 0] /\ ntf_seq = [w \in Writers |-> 0]
        /\ cursor = [d \in Readers |-> 0] /\ info = [d \in Readers |-> Ntf!NoInfo]
    BY DEF ChannelInit, Ntf!Init
  <2>2. ntf_pc = [t \in Threads |-> IF t \in Writers THEN "idle" ELSE "off"]
    BY DEF ChannelInit, Ntf!Init, Threads
  <2>3. ntf_pc \in [Threads -> Ntf!NotifierPC \cup Ntf!ListenerPC]
    BY <2>2 DEF Ntf!NotifierPC, Ntf!ListenerPC
  <2>4. \A w \in Writers : ~Ntf!InFlight(w)
    BY <2>2 DEF Ntf!InFlight, Threads
  <2> QED
    BY <2>1, <2>3, <2>4 DEF RingTypeOK, Ntf!NoInfo, Ntf!Torn
<1>3. LogTypeOK
  <2>1. <<>> \in Seq(Messages)
    BY EmptySeq
  <2>2. history \in [Blocks -> Seq(Messages)]
    BY <2>1 DEF ChannelInit
  <2>3. notified \in Seq([block : Blocks, msg : Messages]) /\ Len(notified) = 0
    BY EmptySeq DEF ChannelInit
  <2> QED
    BY <2>2, <2>3 DEF LogTypeOK, ChannelInit, Ntf!Init
<1>4. AnnouncedIsWritten
  <2>1. DOMAIN notified = {} /\ pending = {}
    BY DEF ChannelInit
  <2>2. \A w \in Writers : pc[w] = "idle"
    BY DEF ChannelInit, Init, Threads
  <2> QED
    BY <2>1, <2>2 DEF AnnouncedIsWritten
<1>5. HoldsLastWritten
  BY DEF HoldsLastWritten, ChannelInit, Init
<1>6. KeepsToNotification
  BY DEF KeepsToNotification, KeepsTo, ChannelInit, Init, Threads
<1> QED
  BY <1>1, <1>2, <1>3, <1>4, <1>5, <1>6 DEF ChannelInv

(* Every step of the channel keeps its invariant. *)
LEMMA ChannelNextInv == ChannelInv /\ [ChannelNext]_channelVars => ChannelInv'
<1> SUFFICES ASSUME ChannelInv, [ChannelNext]_channelVars PROVE ChannelInv'
  OBVIOUS
<1>1. [Next]_segvars /\ IInv' /\ RingTypeOK'
  BY SegmentStep, PartsKept
<1>2. ASSUME NEW w \in Writers, Transmit(w) PROVE LogInv'
  BY <1>1, <1>2, TransmitBlockInv, TransmitNotifyInv DEF Transmit
<1>3. ASSUME NEW d \in Readers, ThreadFunc(d) PROVE LogInv'
  BY <1>1, <1>3, ThreadFuncInv
<1>4. ASSUME (\E t \in Threads : ProcessDies(t)) \/ UNCHANGED channelVars PROVE LogInv'
  <2>1. /\ UNCHANGED <<ntfvars, logvars>>
        /\ UNCHANGED <<content, pc, blk, msg, val>>
    BY <1>4 DEF ProcessDies, Crash, channelVars, segvars
  <2>2. LogTypeOK' /\ HoldsLastWritten'
    BY <2>1 DEF ChannelInv, LogTypeOK, HoldsLastWritten, ntfvars, logvars
  <2>3. AnnouncedIsWritten'
    BY <2>1 DEF ChannelInv, AnnouncedIsWritten, Written, logvars
  <2>4. KeepsToNotification'
    BY <2>1 DEF ChannelInv, KeepsToNotification, KeepsTo, ntfvars, logvars
  <2> QED
    BY <2>2, <2>3, <2>4 DEF LogInv
<1> QED
  BY <1>1, <1>2, <1>3, <1>4 DEF ChannelNext, LogInv, ChannelInv

(* Every reachable state of the channel satisfies its inductive invariant. *)
THEOREM ChannelInvariance == ChannelSpec => []ChannelInv
  BY ChannelInitInv, ChannelNextInv, PTL DEF ChannelSpec

(***************************************************************************)
(* For any number of transmitters, dispatchers, blocks and slots: what a   *)
(* dispatcher reads for a notification is the message announced or a whole *)
(* message written into the same block after it, although ReadMessage      *)
(* takes the block's lock long after Transmit released it.                 *)
(***************************************************************************)
THEOREM DeliveriesSound == ChannelSpec => []DeliversAnnouncedOrNewer
<1>1. ChannelInv => DeliversAnnouncedOrNewer
  <2> SUFFICES ASSUME ChannelInv, NEW d \in Readers, pc[d] = "reading", info[d] >= 0
               PROVE  LET n == notified[info[d] + 1]
                      IN  \E i, j \in DOMAIN history[n.block] :
                            /\ history[n.block][i] = n.msg /\ i <= j
                            /\ history[n.block][j] = val[d]
    BY DEF DeliversAnnouncedOrNewer
  <2> DEFINE n == notified[info[d] + 1]
  <2> USE DEF ChannelInv
  <2>1. /\ blk[d] = n.block /\ val[d] = content[n.block]
        /\ blk[d] \in Blocks /\ val[d] # Torn
    BY DEF KeepsToNotification, KeepsTo, IInv, TypeOK, NoTornRead, Threads
  <2>2. info[d] + 1 \in DOMAIN notified
    <3>1. DOMAIN notified = 1 .. next_seq
      BY LenProperties DEF LogTypeOK
    <3>2. info[d] \in Nat /\ info[d] < next_seq /\ next_seq \in Nat
      BY DEF RingTypeOK, Ntf!NoInfo, Ntf!Torn
    <3> QED
      BY <3>1, <3>2
  <2>3. PICK i \in DOMAIN history[n.block] : history[n.block][i] = n.msg
    BY <2>2 DEF AnnouncedIsWritten, Written
  <2>4. history[n.block] \in Seq(Messages)
    BY <2>1 DEF LogTypeOK
  <2> HIDE DEF n
  <2>5. i \in 1 .. Len(history[n.block]) /\ Len(history[n.block]) \in Nat
    BY <2>3, <2>4, LenProperties
  <2>6. history[n.block] # <<>>
    BY <2>5, EmptySeq
  <2>7. val[d] = history[n.block][Len(history[n.block])]
    BY <2>1, <2>6 DEF HoldsLastWritten
  <2>8. Len(history[n.block]) \in DOMAIN history[n.block] /\ i <= Len(history[n.block])
    BY <2>4, <2>5, LenProperties
  <2> QED
    BY <2>3, <2>7, <2>8 DEF n
<1> QED
  BY <1>1, ChannelInvariance, PTL

(***************************************************************************)
(* Transmit and ReadMessage use the segment as ShmSegment describes it: so *)
(* the lock words are exact and no read is torn in the channel as well.    *)
(***************************************************************************)
THEOREM SegmentRefined == ChannelSpec => UsesSegment
<1>1. ChannelInit => Init
  BY DEF ChannelInit
<1>2. ChannelInv /\ [ChannelNext]_channelVars => [Next]_segvars
  BY SegmentStep
<1> QED
  BY <1>1, <1>2, ChannelInvariance, PTL DEF ChannelSpec, UsesSegment, Spec

(***************************************************************************)
(* Transmit and ThreadFunc use the ring as ConditionNotifier describes it: *)
(* so in the channel too an announcement is skipped only when it was       *)
(* lapped, and none is taken that is older than its number.                *)
(***************************************************************************)
THEOREM NotifierRefined == ChannelSpec => UsesNotifier
<1>1. ChannelInit => Ntf!Init
  BY DEF ChannelInit
<1>2. ChannelInv /\ [ChannelNext]_channelVars => [Ntf!Next]_(Ntf!vars)
  <2> SUFFICES ASSUME ChannelInv, [ChannelNext]_channelVars PROVE [Ntf!Next]_(Ntf!vars)
    OBVIOUS
  <2>1. CASE RingAction
    BY <2>1 DEF RingAction, Ntf!Next, Ntf!Notify, Ntf!Listen
  <2>2. CASE UNCHANGED <<ntfvars, crashed>>
    BY <2>2 DEF ntfvars, Ntf!vars
  <2>3. ASSUME NEW t \in Threads, ProcessDies(t) PROVE [Ntf!Next]_(Ntf!vars)
    <3>1. UNCHANGED ntfvars /\ crashed' = crashed \cup {t} /\ t \notin crashed
      BY <2>3 DEF ProcessDies, Crash
    <3>2. CASE t \notin Writers
      <4>1. (crashed \cap Writers)' = crashed \cap Writers
        BY <3>1, <3>2
      <4> QED
        BY <3>1, <4>1 DEF ntfvars, Ntf!vars
    <3>3. CASE t \in Writers
      <4>1. crashed \subseteq Threads /\ IsFiniteSet(Threads)
        BY SegThreads, FS_Union DEF ChannelInv, IInv, TypeOK, Threads
      <4>2. IsFiniteSet(crashed)
        BY <4>1, FS_Subset
      <4>3. /\ Cardinality(crashed \cap Writers) <= Cardinality(crashed)
            /\ Cardinality(crashed \cap Writers) \in Nat /\ Cardinality(crashed) \in Nat
        BY <4>2, FS_Subset, FS_CardinalityType
      <4>4. Ntf!Cardinality(crashed \cap Writers) = Cardinality(crashed \cap Writers)
        BY Zenon DEF Ntf!Cardinality, Cardinality
      <4>5. Ntf!Cardinality(crashed \cap Writers) < MaxCrashes
        BY <2>3, <4>3, <4>4, SegBounds DEF ProcessDies, Crash
      <4>6. (crashed \cap Writers)' = (crashed \cap Writers) \cup {t}
        BY <3>1, <3>3
      <4>7. Ntf!Crash(t)
        BY <3>1, <4>5, <4>6 DEF Ntf!Crash, ntfvars
      <4> QED
        BY <3>3, <4>7 DEF Ntf!Next
    <3> QED
      BY <3>2, <3>3
  <2>4. ASSUME NEW w \in Writers, Transmit(w) PROVE RingAction \/ UNCHANGED <<ntfvars, crashed>>
    BY <2>4 DEF Transmit, TransmitWrite, TransmitWritten, TransmitRelease,
       TransmitNotifyDraw, TransmitNotifyWrite, TransmitNotifyStamp, RingAction,
       AcquireBlockToWrite, TryLockForWrite, GetNextWritableBlockIndex, WriteBegin,
       WriteEnd, ReleaseWrittenBlock
  <2>5. ASSUME NEW d \in Readers, ThreadFunc(d) PROVE RingAction \/ UNCHANGED <<ntfvars, crashed>>
    BY <2>5 DEF ThreadFunc, ThreadFuncListen, ThreadFuncOtherHost, ReadMessageAcquire,
       ReadMessage, ReadMessageRelease, RingAction, AcquireBlockToRead, TryLockForRead,
       RetryLockForRead, ReadBlock, ReadMessageDeref
  <2>6. CASE UNCHANGED channelVars
    BY <2>2, <2>6 DEF channelVars, segvars
  <2> QED
    BY <2>1, <2>2, <2>3, <2>4, <2>5, <2>6 DEF ChannelNext
<1> QED
  BY <1>1, <1>2, ChannelInvariance, PTL DEF ChannelSpec, UsesNotifier, Ntf!Spec
=============================================================================
