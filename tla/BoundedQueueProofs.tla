------------------------- MODULE BoundedQueueProofs -------------------------
(***************************************************************************)
(* Proofs about BoundedQueue for every Size, every number of producers and *)
(* consumers and every number of calls: the type invariant, the order of   *)
(* the cursors, slot ownership, complete delivery, and that the three      *)
(* cursors and the ring implement FifoQueue.                               *)
(***************************************************************************)
EXTENDS BoundedQueue, NatLemmas, SequenceTheorems, TLAPS

-----------------------------------------------------------------------------
(* Arithmetic of GetIndex. *)

(* The ring has a slot. *)
LEMMA PoolSize == pool_size \in Nat \ {0}
BY SizeAssumption DEF pool_size

(* A position names a slot of the ring. *)
LEMMA IndexType ==
  ASSUME NEW a \in Nat
  PROVE  GetIndex(a) \in 0 .. pool_size - 1
BY PoolSize, DivMod DEF GetIndex

(* Positions less than one lap apart have different slots. *)
LEMMA IndexDistinct ==
  ASSUME NEW a \in Nat, NEW b \in Nat, a < b, b < a + pool_size
  PROVE  GetIndex(a) # GetIndex(b)
BY PoolSize, LapDistinct DEF GetIndex

(* Positions one lap apart share their slot. *)
LEMMA IndexWraps ==
  ASSUME NEW a \in Nat
  PROVE  GetIndex(a + pool_size) = GetIndex(a)
BY PoolSize, LapSame DEF GetIndex

-----------------------------------------------------------------------------
(* The inductive invariant. *)

(* The constructor establishes the invariant. *)
LEMMA InitIInv == Init => IInv
<1> SUFFICES ASSUME Init PROVE IInv
  OBVIOUS
<1> USE SizeAssumption, MaxCallsAssumption DEF Init, pool_size
<1>1. TypeOK
  BY DEF TypeOK, Slots, Threads, ProducerPC, ConsumerPC
<1>2. CursorsOrdered
  BY DEF CursorsOrdered
<1>3. PendingInside /\ DeliversComplete
  BY DEF PendingInside, DeliversComplete, Threads
<1>4. (\A p \in Producers : ProducerInv(p)) /\ ClaimsDistinct
  BY DEF ProducerInv, ClaimsDistinct, Owns, Threads
<1>5. \A c \in Consumers : ConsumerInv(c)
  BY DEF ConsumerInv, Threads
<1>6. CommittedWritten
  BY DEF CommittedWritten
<1> QED BY <1>1, <1>2, <1>3, <1>4, <1>5, <1>6 DEF IInv

(* Producers and consumers are threads, and none is both. *)
LEMMA Roles ==
  /\ Producers \subseteq Threads
  /\ Consumers \subseteq Threads
  /\ \A p \in Producers : p \notin Consumers
BY ThreadsAssumption DEF Threads

(* Loading tail_ leaves the ring and the cursors alone. *)
LEMMA EnqueueCallIInv ==
  ASSUME IInv, NEW p \in Producers, NEW e \in Elements, EnqueueCall(p, e)
  PROVE  IInv'
<1> USE DEF IInv, EnqueueCall, Goto, cursors
<1>1. TypeOK'
  BY Roles, MaxCallsAssumption DEF TypeOK, ProducerPC, ConsumerPC
<1>2. CursorsOrdered'
  BY DEF CursorsOrdered
<1>3. PendingInside' /\ DeliversComplete'
  BY Roles DEF PendingInside, DeliversComplete, TypeOK
<1>4. (\A q \in Producers : ProducerInv(q))'
  <2> SUFFICES ASSUME NEW q \in Producers PROVE ProducerInv(q)'
    OBVIOUS
  <2>1. CASE q # p
    BY <2>1, Roles DEF ProducerInv, Owns, TypeOK
  <2>2. CASE q = p
    BY <2>2, Roles DEF ProducerInv, Owns, TypeOK
  <2> QED BY <2>1, <2>2
<1>5. ClaimsDistinct'
  BY Roles DEF ClaimsDistinct, Owns, TypeOK
<1>6. (\A c \in Consumers : ConsumerInv(c))'
  BY Roles DEF ConsumerInv, TypeOK
<1>7. CommittedWritten'
  BY DEF CommittedWritten
<1> QED BY <1>1, <1>2, <1>3, <1>4, <1>5, <1>6, <1>7

(* The full test: with an old_tail that is still current it leaves room    *)
(* for one more position.                                                  *)
LEMMA EnqueueCheckIInv ==
  ASSUME IInv, NEW p \in Producers, EnqueueCheck(p)
  PROVE  IInv'
<1> USE DEF IInv, EnqueueCheck, Goto, cursors, Return
<1>1. TypeOK'
  BY Roles DEF TypeOK, ProducerPC, ConsumerPC
<1>2. CursorsOrdered'
  BY DEF CursorsOrdered
<1>3. PendingInside' /\ DeliversComplete'
  BY Roles DEF PendingInside, DeliversComplete, TypeOK
<1>4. (\A q \in Producers : ProducerInv(q))'
  <2> SUFFICES ASSUME NEW q \in Producers PROVE ProducerInv(q)'
    OBVIOUS
  <2>1. CASE q # p
    BY <2>1, Roles DEF ProducerInv, Owns, TypeOK
  <2>2. CASE q = p /\ LooksFull(p)
    BY <2>2, Roles DEF ProducerInv, Owns, TypeOK
  <2>3. CASE q = p /\ ~LooksFull(p)
    <3>1. old[p] + 1 # head + pool_size
      BY <2>3, IndexWraps DEF LooksFull, TypeOK
    <3>2. old[p] = tail => tail + 1 < head + pool_size
      BY <3>1, PoolSize, Roles DEF CursorsOrdered, TypeOK
    <3> QED BY <2>3, <3>2, Roles DEF ProducerInv, Owns, TypeOK
  <2> QED BY <2>1, <2>2, <2>3
<1>5. ClaimsDistinct'
  BY Roles DEF ClaimsDistinct, Owns, TypeOK
<1>6. (\A d \in Consumers : ConsumerInv(d))'
  BY Roles DEF ConsumerInv, TypeOK
<1>7. CommittedWritten'
  BY DEF CommittedWritten
<1> QED BY <1>1, <1>2, <1>3, <1>4, <1>5, <1>6, <1>7

(* The claim: the CAS succeeds only if old_tail is current, so the test    *)
(* made before it still holds.                                             *)
LEMMA EnqueueClaimIInv ==
  ASSUME IInv, NEW p \in Producers, EnqueueClaim(p)
  PROVE  IInv'
<1> USE DEF IInv, EnqueueClaim, Goto, cursors
<1>1. TypeOK'
  BY Roles DEF TypeOK, ProducerPC, ConsumerPC
<1>2. CursorsOrdered'
  BY PoolSize DEF CursorsOrdered, ProducerInv, TypeOK
<1>3. PendingInside' /\ DeliversComplete'
  BY Roles DEF PendingInside, DeliversComplete, TypeOK
<1>4. (\A q \in Producers : ProducerInv(q))'
  <2> SUFFICES ASSUME NEW q \in Producers PROVE ProducerInv(q)'
    OBVIOUS
  <2>1. CASE q # p
    BY <2>1, Roles DEF ProducerInv, Owns, TypeOK
  <2>2. CASE q = p
    BY <2>2, Roles DEF ProducerInv, CursorsOrdered, Owns, TypeOK
  <2> QED BY <2>1, <2>2
<1>5. ClaimsDistinct'
  BY Roles DEF ClaimsDistinct, ProducerInv, Owns, TypeOK
<1>6. (\A d \in Consumers : ConsumerInv(d))'
  BY Roles DEF ConsumerInv, TypeOK
<1>7. CommittedWritten'
  BY DEF CommittedWritten
<1> QED BY <1>1, <1>2, <1>3, <1>4, <1>5, <1>6, <1>7

(* A failed CAS reloads old_tail. *)
LEMMA EnqueueRetryIInv ==
  ASSUME IInv, NEW p \in Producers, EnqueueRetry(p)
  PROVE  IInv'
<1> USE DEF IInv, EnqueueRetry, Goto, cursors
<1>1. TypeOK'
  BY Roles DEF TypeOK, ProducerPC, ConsumerPC
<1>2. CursorsOrdered'
  BY DEF CursorsOrdered
<1>3. PendingInside' /\ DeliversComplete'
  BY Roles DEF PendingInside, DeliversComplete, TypeOK
<1>4. (\A q \in Producers : ProducerInv(q))'
  <2> SUFFICES ASSUME NEW q \in Producers PROVE ProducerInv(q)'
    OBVIOUS
  <2>1. CASE q # p
    BY <2>1, Roles DEF ProducerInv, Owns, TypeOK
  <2>2. CASE q = p
    BY <2>2, Roles DEF ProducerInv, Owns, TypeOK
  <2> QED BY <2>1, <2>2
<1>5. ClaimsDistinct'
  BY Roles DEF ClaimsDistinct, Owns, TypeOK
<1>6. (\A d \in Consumers : ConsumerInv(d))'
  BY Roles DEF ConsumerInv, TypeOK
<1>7. CommittedWritten'
  BY DEF CommittedWritten
<1> QED BY <1>1, <1>2, <1>3, <1>4, <1>5, <1>6, <1>7

(* The slots of claimed and of committed positions are all different. *)
LEMMA SlotsApart == IInv => SlotOwnership
<1> SUFFICES ASSUME IInv, NEW p \in Producers, Owns(p)
             PROVE  /\ \A q \in Producers \ {p} :
                         Owns(q) => GetIndex(old[p]) # GetIndex(old[q])
                    /\ \A i \in head + 1 .. commit - 1 :
                         GetIndex(i) # GetIndex(old[p])
  BY DEF SlotOwnership
<1>1. /\ head \in Nat /\ commit \in Nat /\ tail \in Nat
      /\ head < commit /\ tail < head + pool_size
  BY DEF IInv, TypeOK, CursorsOrdered
<1>2. \A q \in Producers : Owns(q) =>
         old[q] \in Nat /\ commit <= old[q] /\ old[q] < tail
  BY Roles DEF IInv, TypeOK, ProducerInv
<1>3. ASSUME NEW q \in Producers \ {p}, Owns(q)
      PROVE  GetIndex(old[p]) # GetIndex(old[q])
  <2>1. old[p] # old[q]
    BY <1>3 DEF IInv, ClaimsDistinct
  <2>2. /\ old[q] < old[p] => old[p] < old[q] + pool_size
        /\ old[p] < old[q] => old[q] < old[p] + pool_size
    BY <1>1, <1>2, <1>3, PoolSize
  <2> QED BY <1>2, <1>3, <2>1, <2>2, IndexDistinct
<1>4. ASSUME NEW i \in head + 1 .. commit - 1
      PROVE  GetIndex(i) # GetIndex(old[p])
  <2>1. i \in Nat /\ i < old[p] /\ old[p] < i + pool_size
    BY <1>1, <1>2, PoolSize
  <2> QED BY <1>2, <2>1, IndexDistinct
<1> QED BY <1>3, <1>4

(* The slot of a claimed position is neither a committed one nor another   *)
(* producer's.                                                             *)
LEMMA EnqueueWriteBeginIInv ==
  ASSUME IInv, NEW p \in Producers, EnqueueWriteBegin(p)
  PROVE  IInv'
<1> USE DEF IInv, EnqueueWriteBegin, Goto, cursors
<1>a. /\ head \in Nat /\ old[p] \in Nat /\ Owns(p)
  BY Roles DEF Owns, TypeOK
<1>b. \A i \in head + 1 .. commit - 1 : GetIndex(i) # GetIndex(old[p])
  BY <1>a, SlotsApart DEF SlotOwnership
<1>c. \A q \in Producers \ {p} : Owns(q) => GetIndex(old[q]) # GetIndex(old[p])
  BY <1>a, SlotsApart DEF SlotOwnership
<1>d. GetIndex(old[p]) \in 0 .. pool_size - 1
  BY <1>a, IndexType
<1>1. TypeOK'
  BY <1>d, Roles DEF TypeOK, ProducerPC, ConsumerPC, Slots
<1>2. CursorsOrdered'
  BY DEF CursorsOrdered
<1>3. PendingInside' /\ DeliversComplete'
  BY Roles DEF PendingInside, DeliversComplete, TypeOK
<1>4. (\A q \in Producers : ProducerInv(q))'
  <2> SUFFICES ASSUME NEW q \in Producers PROVE ProducerInv(q)'
    OBVIOUS
  <2>1. CASE q # p
    <3>1. pc'[q] = pc[q]
      BY <2>1, Roles DEF TypeOK
    <3>2. pc[q] = "commit" => GetIndex(old[q]) # GetIndex(old[p])
      BY <2>1, <1>c DEF Owns
    <3>3. pc[q] = "commit" => pool'[GetIndex(old[q])] = pool[GetIndex(old[q])]
      BY <3>2, <1>d, Roles, IndexType DEF TypeOK
    <3> QED BY <3>1, <3>3 DEF ProducerInv, Owns
  <2>2. CASE q = p
    BY <2>2, <1>d, Roles DEF ProducerInv, Owns, TypeOK
  <2> QED BY <2>1, <2>2
<1>5. ClaimsDistinct'
  BY Roles DEF ClaimsDistinct, Owns, TypeOK
<1>6. (\A d \in Consumers : ConsumerInv(d))'
  <2> SUFFICES ASSUME NEW d \in Consumers PROVE ConsumerInv(d)'
    OBVIOUS
  <2>1. pc'[d] = pc[d]
    BY Roles DEF TypeOK
  <2>2. pc[d] = "cas" /\ old[d] = head => GetIndex(head + 1) # GetIndex(old[p])
    BY <1>b DEF ConsumerInv, TypeOK
  <2>3. GetIndex(head + 1) \in 0 .. pool_size - 1
    BY <1>a, IndexType
  <2> QED BY <2>1, <2>2, <2>3, <1>d DEF ConsumerInv, TypeOK
<1>7. CommittedWritten'
  <2> SUFFICES ASSUME NEW i \in head + 1 .. commit - 1
               PROVE  pool'[GetIndex(i)] \in Elements
    BY DEF CommittedWritten
  <2>1. i \in Nat /\ GetIndex(i) \in 0 .. pool_size - 1
    BY IndexType DEF TypeOK
  <2>2. GetIndex(i) # GetIndex(old[p]) /\ pool[GetIndex(i)] \in Elements
    BY <1>b DEF CommittedWritten
  <2> QED BY <2>1, <2>2, <1>d DEF TypeOK
<1> QED BY <1>1, <1>2, <1>3, <1>4, <1>5, <1>6, <1>7

(* The second half of the slot write. *)
LEMMA EnqueueWriteEndIInv ==
  ASSUME IInv, NEW p \in Producers, EnqueueWriteEnd(p)
  PROVE  IInv'
<1> USE DEF IInv, EnqueueWriteEnd, Goto, cursors
<1>a. /\ head \in Nat /\ old[p] \in Nat /\ Owns(p)
  BY Roles DEF Owns, TypeOK
<1>b. \A i \in head + 1 .. commit - 1 : GetIndex(i) # GetIndex(old[p])
  BY <1>a, SlotsApart DEF SlotOwnership
<1>c. \A q \in Producers \ {p} : Owns(q) => GetIndex(old[q]) # GetIndex(old[p])
  BY <1>a, SlotsApart DEF SlotOwnership
<1>d. GetIndex(old[p]) \in 0 .. pool_size - 1
  BY <1>a, IndexType
<1>1. TypeOK'
  BY <1>d, Roles DEF TypeOK, ProducerPC, ConsumerPC, Slots
<1>2. CursorsOrdered'
  BY DEF CursorsOrdered
<1>3. PendingInside' /\ DeliversComplete'
  BY Roles DEF PendingInside, DeliversComplete, TypeOK
<1>4. (\A q \in Producers : ProducerInv(q))'
  <2> SUFFICES ASSUME NEW q \in Producers PROVE ProducerInv(q)'
    OBVIOUS
  <2>1. CASE q # p
    <3>1. pc'[q] = pc[q]
      BY <2>1, Roles DEF TypeOK
    <3>2. pc[q] = "commit" => GetIndex(old[q]) # GetIndex(old[p])
      BY <2>1, <1>c DEF Owns
    <3>3. pc[q] = "commit" => pool'[GetIndex(old[q])] = pool[GetIndex(old[q])]
      BY <3>2, <1>d, Roles, IndexType DEF TypeOK
    <3> QED BY <3>1, <3>3 DEF ProducerInv, Owns
  <2>2. CASE q = p
    BY <2>2, <1>d, Roles DEF ProducerInv, Owns, TypeOK
  <2> QED BY <2>1, <2>2
<1>5. ClaimsDistinct'
  BY Roles DEF ClaimsDistinct, Owns, TypeOK
<1>6. (\A d \in Consumers : ConsumerInv(d))'
  <2> SUFFICES ASSUME NEW d \in Consumers PROVE ConsumerInv(d)'
    OBVIOUS
  <2>1. pc'[d] = pc[d]
    BY Roles DEF TypeOK
  <2>2. pc[d] = "cas" /\ old[d] = head => GetIndex(head + 1) # GetIndex(old[p])
    BY <1>b DEF ConsumerInv, TypeOK
  <2>3. GetIndex(head + 1) \in 0 .. pool_size - 1
    BY <1>a, IndexType
  <2> QED BY <2>1, <2>2, <2>3, <1>d DEF ConsumerInv, TypeOK
<1>7. CommittedWritten'
  <2> SUFFICES ASSUME NEW i \in head + 1 .. commit - 1
               PROVE  pool'[GetIndex(i)] \in Elements
    BY DEF CommittedWritten
  <2>1. i \in Nat /\ GetIndex(i) \in 0 .. pool_size - 1
    BY IndexType DEF TypeOK
  <2>2. GetIndex(i) # GetIndex(old[p]) /\ pool[GetIndex(i)] \in Elements
    BY <1>b DEF CommittedWritten
  <2> QED BY <2>1, <2>2, <1>d DEF TypeOK
<1> QED BY <1>1, <1>2, <1>3, <1>4, <1>5, <1>6, <1>7

(* Positions are committed in order and written before they are. *)
LEMMA EnqueueCommitIInv ==
  ASSUME IInv, NEW p \in Producers, EnqueueCommit(p)
  PROVE  IInv'
<1> USE DEF IInv, EnqueueCommit, Goto, cursors, Return
<1>a. /\ old[p] \in Nat /\ commit = old[p] /\ old[p] < tail
      /\ pool[GetIndex(old[p])] \in Elements
  BY Roles DEF ProducerInv, Owns, TypeOK
<1>1. TypeOK'
  BY Roles DEF TypeOK, ProducerPC, ConsumerPC
<1>2. CursorsOrdered'
  BY <1>a DEF CursorsOrdered, TypeOK
<1>3. PendingInside' /\ DeliversComplete'
  BY Roles DEF PendingInside, DeliversComplete, TypeOK
<1>4. (\A q \in Producers : ProducerInv(q))'
  BY <1>a, Roles DEF ProducerInv, ClaimsDistinct, Owns, TypeOK
<1>5. ClaimsDistinct'
  BY Roles DEF ClaimsDistinct, Owns, TypeOK
<1>6. (\A d \in Consumers : ConsumerInv(d))'
  BY Roles DEF ConsumerInv, TypeOK
<1>7. CommittedWritten'
  BY <1>a DEF CommittedWritten, CursorsOrdered, TypeOK
<1> QED BY <1>1, <1>2, <1>3, <1>4, <1>5, <1>6, <1>7

(* Loading head_. *)
LEMMA DequeueCallIInv ==
  ASSUME IInv, NEW c \in Consumers, DequeueCall(c)
  PROVE  IInv'
<1> USE DEF IInv, DequeueCall, Goto, cursors
<1>1. TypeOK'
  BY Roles DEF TypeOK, ProducerPC, ConsumerPC
<1>2. CursorsOrdered'
  BY DEF CursorsOrdered
<1>3. PendingInside' /\ DeliversComplete'
  BY Roles DEF PendingInside, DeliversComplete, TypeOK
<1>4. (\A q \in Producers : ProducerInv(q))'
  BY Roles DEF ProducerInv, Owns, TypeOK
<1>5. ClaimsDistinct'
  BY Roles DEF ClaimsDistinct, Owns, TypeOK
<1>6. (\A d \in Consumers : ConsumerInv(d))'
  BY Roles DEF ConsumerInv, TypeOK
<1>7. CommittedWritten'
  BY DEF CommittedWritten
<1> QED BY <1>1, <1>2, <1>3, <1>4, <1>5, <1>6, <1>7

(* The empty test: with an old_head that is still current it finds a       *)
(* committed position.                                                     *)
LEMMA DequeueCheckIInv ==
  ASSUME IInv, NEW c \in Consumers, DequeueCheck(c)
  PROVE  IInv'
<1> USE DEF IInv, DequeueCheck, Goto, cursors, Return
<1>1. TypeOK'
  BY Roles DEF TypeOK, ProducerPC, ConsumerPC
<1>2. CursorsOrdered'
  BY DEF CursorsOrdered
<1>3. PendingInside' /\ DeliversComplete'
  BY Roles DEF PendingInside, DeliversComplete, TypeOK
<1>4. (\A q \in Producers : ProducerInv(q))'
  BY Roles DEF ProducerInv, Owns, TypeOK
<1>5. ClaimsDistinct'
  BY Roles DEF ClaimsDistinct, Owns, TypeOK
<1>6. (\A d \in Consumers : ConsumerInv(d))'
  BY Roles DEF ConsumerInv, LooksEmpty, CursorsOrdered, TypeOK
<1>7. CommittedWritten'
  BY DEF CommittedWritten
<1> QED BY <1>1, <1>2, <1>3, <1>4, <1>5, <1>6, <1>7

(* The copy: if old_head is still current it is the committed element,     *)
(* otherwise it may be anything, torn included.                            *)
LEMMA DequeueCopyIInv ==
  ASSUME IInv, NEW c \in Consumers, DequeueCopy(c)
  PROVE  IInv'
<1> USE DEF IInv, DequeueCopy, Goto, cursors
<1>1. TypeOK'
  <2>1. GetIndex(old[c] + 1) \in 0 .. pool_size - 1
    BY Roles, IndexType DEF TypeOK
  <2> QED BY <2>1, Roles DEF TypeOK, ProducerPC, ConsumerPC
<1>2. CursorsOrdered'
  BY DEF CursorsOrdered
<1>3. PendingInside' /\ DeliversComplete'
  BY Roles DEF PendingInside, DeliversComplete, TypeOK
<1>4. (\A q \in Producers : ProducerInv(q))'
  BY Roles DEF ProducerInv, Owns, TypeOK
<1>5. ClaimsDistinct'
  BY Roles DEF ClaimsDistinct, Owns, TypeOK
<1>6. (\A d \in Consumers : ConsumerInv(d))'
  BY Roles DEF ConsumerInv, TypeOK
<1>7. CommittedWritten'
  BY DEF CommittedWritten
<1> QED BY <1>1, <1>2, <1>3, <1>4, <1>5, <1>6, <1>7

(* The claim: the CAS succeeds only if old_head is current, so the copy is *)
(* the committed element.                                                  *)
LEMMA DequeueClaimIInv ==
  ASSUME IInv, NEW c \in Consumers, DequeueClaim(c)
  PROVE  IInv'
<1> USE DEF IInv, DequeueClaim, Goto, cursors, Return
<1>a. /\ head = old[c] /\ head + 1 < commit /\ head' = head + 1
      /\ element[c] = pool[GetIndex(head + 1)]
  BY Roles DEF ConsumerInv
<1>b. element[c] \in Elements
  BY <1>a DEF CommittedWritten, TypeOK
<1>1. TypeOK'
  BY Roles DEF TypeOK, ProducerPC, ConsumerPC
<1>2. CursorsOrdered'
  BY <1>a, PoolSize DEF CursorsOrdered, TypeOK
<1>3. PendingInside' /\ DeliversComplete'
  BY <1>b, Roles DEF PendingInside, DeliversComplete, TypeOK
<1>4. (\A q \in Producers : ProducerInv(q))'
  <2> SUFFICES ASSUME NEW q \in Producers PROVE ProducerInv(q)'
    OBVIOUS
  <2>1. pc'[q] = pc[q]
    BY Roles DEF TypeOK
  <2> QED BY <1>a, <2>1, PoolSize, SMTT(30) DEF ProducerInv, Owns, TypeOK
<1>5. ClaimsDistinct'
  BY Roles DEF ClaimsDistinct, Owns, TypeOK
<1>6. (\A d \in Consumers : ConsumerInv(d))'
  BY <1>a, Roles DEF ConsumerInv, TypeOK
<1>7. CommittedWritten'
  BY <1>a DEF CommittedWritten, TypeOK
<1> QED BY <1>1, <1>2, <1>3, <1>4, <1>5, <1>6, <1>7

(* A failed CAS reloads old_head. *)
LEMMA DequeueRetryIInv ==
  ASSUME IInv, NEW c \in Consumers, DequeueRetry(c)
  PROVE  IInv'
<1> USE DEF IInv, DequeueRetry, Goto, cursors
<1>1. TypeOK'
  BY Roles DEF TypeOK, ProducerPC, ConsumerPC
<1>2. CursorsOrdered'
  BY DEF CursorsOrdered
<1>3. PendingInside' /\ DeliversComplete'
  BY Roles DEF PendingInside, DeliversComplete, TypeOK
<1>4. (\A q \in Producers : ProducerInv(q))'
  BY Roles DEF ProducerInv, Owns, TypeOK
<1>5. ClaimsDistinct'
  BY Roles DEF ClaimsDistinct, Owns, TypeOK
<1>6. (\A d \in Consumers : ConsumerInv(d))'
  BY Roles DEF ConsumerInv, TypeOK
<1>7. CommittedWritten'
  BY DEF CommittedWritten
<1> QED BY <1>1, <1>2, <1>3, <1>4, <1>5, <1>6, <1>7

(* Every step preserves the invariant. *)
LEMMA NextIInv == IInv /\ [Next]_vars => IInv'
<1> SUFFICES ASSUME IInv, [Next]_vars PROVE IInv'
  OBVIOUS
<1>1. ASSUME NEW p \in Producers, Enqueue(p) PROVE IInv'
  BY <1>1, EnqueueCallIInv, EnqueueCheckIInv, EnqueueClaimIInv,
     EnqueueRetryIInv, EnqueueWriteBeginIInv, EnqueueWriteEndIInv,
     EnqueueCommitIInv DEF Enqueue
<1>2. ASSUME NEW c \in Consumers, Dequeue(c) PROVE IInv'
  BY <1>2, DequeueCallIInv, DequeueCheckIInv, DequeueCopyIInv,
     DequeueClaimIInv, DequeueRetryIInv DEF Dequeue
<1>3. CASE UNCHANGED vars
  BY <1>3 DEF vars, IInv, TypeOK, CursorsOrdered, PendingInside, ProducerInv,
     ClaimsDistinct, ConsumerInv, CommittedWritten, DeliversComplete, Owns
<1> QED BY <1>1, <1>2, <1>3 DEF Next

(* The invariant holds in every reachable state of the queue. *)
THEOREM Invariance == Spec => []IInv
BY InitIInv, NextIInv, PTL DEF Spec

-----------------------------------------------------------------------------
(* The safety properties. *)

(* Every variable keeps its type: in particular no cursor becomes negative *)
(* and no slot outside the ring is written.                                *)
THEOREM TypeCorrect == Spec => []TypeOK
<1>1. IInv => TypeOK
  BY DEF IInv
<1> QED BY <1>1, Invariance, PTL

(* head_ < commit_ <= tail_ < head_ + pool_size_ at all times. *)
THEOREM CursorsCorrect == Spec => []CursorsOrdered
<1>1. IInv => CursorsOrdered
  BY DEF IInv
<1> QED BY <1>1, Invariance, PTL

(* A producer's slot is its own and holds nothing that is to be consumed. *)
THEOREM SlotsOwned == Spec => []SlotOwnership
BY SlotsApart, Invariance, PTL

(* What Dequeue delivers is an element that was enqueued, never a torn one. *)
THEOREM DeliveryComplete == Spec => []DeliversComplete
<1>1. IInv => DeliversComplete
  BY DEF IInv
<1> QED BY <1>1, Invariance, PTL

(* Enqueue is refused only by a full queue or after tail_ moved under it. *)
THEOREM RefusalJustified == Spec => RefusedMeansFullOrStale
<1>1. IInv /\ [Next]_vars =>
        [\A p \in Producers :
           pc[p] = "check" /\ pc'[p] = "idle" =>
             tail - head - 1 = Size \/ old[p] < tail]_vars
  <2> SUFFICES ASSUME IInv, [Next]_vars, NEW p \in Producers,
                      pc[p] = "check", pc'[p] = "idle", ~(old[p] < tail)
               PROVE  tail - head - 1 = Size
    BY DEF vars
  <2>1. EnqueueCheck(p) /\ LooksFull(p)
    <3>1. pc # pc'
      OBVIOUS
    <3>2. ASSUME NEW c \in Consumers, Dequeue(c) PROVE FALSE
      BY <3>2, Roles DEF Dequeue, DequeueCall, DequeueCheck, DequeueCopy,
         DequeueClaim, DequeueRetry, Goto, Return, IInv, TypeOK
    <3>3. ASSUME NEW q \in Producers, Enqueue(q), q # p PROVE FALSE
      BY <3>3, Roles DEF Enqueue, EnqueueCall, EnqueueCheck, EnqueueClaim,
         EnqueueRetry, EnqueueWriteBegin, EnqueueWriteEnd, EnqueueCommit,
         Goto, Return, IInv, TypeOK
    <3>4. Enqueue(p)
      BY <3>1, <3>2, <3>3 DEF Next, vars
    <3> QED
      BY <3>4, Roles DEF Enqueue, EnqueueCall, EnqueueCheck, EnqueueClaim,
         EnqueueRetry, EnqueueWriteBegin, EnqueueWriteEnd, EnqueueCommit,
         Goto, Return, IInv, TypeOK
  <2>2. /\ head \in Nat /\ tail \in Nat /\ old[p] = tail
        /\ head < tail /\ tail < head + pool_size
    BY <2>1, Roles DEF IInv, TypeOK, CursorsOrdered, ProducerInv, EnqueueCheck,
       Goto, Return
  <2>3. CASE tail + 1 < head + pool_size
    BY <2>1, <2>2, <2>3, IndexDistinct DEF LooksFull
  <2>4. CASE tail + 1 = head + pool_size
    BY <2>2, <2>4, SizeAssumption DEF pool_size
  <2> QED BY <2>2, <2>3, <2>4, PoolSize
<1> QED BY <1>1, Invariance, PTL DEF Spec, RefusedMeansFullOrStale

-----------------------------------------------------------------------------
(* The ring implements the abstract queue. *)

(* A function on 1..n is a sequence of length n. *)
LEMMA FunctionIsSequence ==
  ASSUME NEW S, NEW n \in Nat, NEW f \in [1 .. n -> S]
  PROVE  f \in Seq(S) /\ Len(f) = n
<1>1. f \in Seq(S)
  BY SeqDef
<1>2. DOMAIN f = 1 .. n /\ DOMAIN f = 1 .. Len(f) /\ Len(f) \in Nat
  BY <1>1, LenProperties
<1> QED BY <1>1, <1>2

(* The represented queue is a sequence of the committed elements. *)
LEMMA ContentsSequence ==
  ASSUME IInv
  PROVE  /\ Contents \in Seq(Elements)
         /\ Len(Contents) = commit - head - 1
         /\ commit - head - 1 \in Nat
<1>1. commit - head - 1 \in Nat /\ head \in Nat /\ commit \in Nat
  BY DEF IInv, TypeOK, CursorsOrdered
<1>2. \A i \in 1 .. commit - head - 1 : pool[GetIndex(head + i)] \in Elements
  BY <1>1 DEF IInv, CommittedWritten
<1>3. Contents \in [1 .. commit - head - 1 -> Elements]
  BY <1>2 DEF Contents
<1> QED BY <1>1, <1>3, FunctionIsSequence

(* After Init the three cursors and the ring represent the empty queue. *)
LEMMA InitRefines == Init => Abs!Init
<1> SUFFICES ASSUME Init PROVE Abs!Init
  OBVIOUS
<1>1. Contents = <<>>
  <2>1. commit - head - 1 = 0
    BY DEF Init
  <2>2. IInv
    BY InitIInv
  <2> QED BY <2>1, <2>2, ContentsSequence, EmptySeq
<1>2. Delivered = [c \in Consumers |-> Default]
  BY DEF Init, Delivered, Threads
<1> QED BY <1>1, <1>2 DEF Abs!Init, Init, Threads

(* Writing the slot of a claimed position does not change the queue. *)
LEMMA WriteKeepsContents ==
  ASSUME IInv, NEW p \in Producers, NEW v, Owns(p), UNCHANGED cursors,
         pool' = [pool EXCEPT ![GetIndex(old[p])] = v]
  PROVE  Contents' = Contents
<1>1. head \in Nat /\ commit \in Nat /\ pool \in [0 .. pool_size - 1 -> Slots]
  BY DEF IInv, TypeOK
<1>2. ASSUME NEW i \in 1 .. commit - head - 1
      PROVE  pool'[GetIndex(head + i)] = pool[GetIndex(head + i)]
  <2>1. head + i \in head + 1 .. commit - 1 /\ head + i \in Nat
    BY <1>1
  <2>2. GetIndex(head + i) # GetIndex(old[p])
    BY <2>1, SlotsApart DEF SlotOwnership
  <2>3. GetIndex(head + i) \in 0 .. pool_size - 1
    BY <2>1, IndexType
  <2> QED BY <1>1, <2>2, <2>3
<1> QED BY <1>2 DEF Contents, cursors

(* The CAS on commit_ appends the producer's argument. *)
LEMMA CommitAppends ==
  ASSUME IInv, NEW p \in Producers, EnqueueCommit(p)
  PROVE  Contents' = Append(Contents, arg[p]) /\ Len(Contents) < Size
<1>0. /\ head \in Nat /\ commit \in Nat /\ commit' = commit + 1
      /\ head' = head /\ pool' = pool /\ commit < tail /\ tail \in Nat
      /\ tail < head + pool_size /\ head < commit
      /\ pool[GetIndex(commit)] = arg[p] /\ arg[p] \in Elements
  BY Roles DEF IInv, TypeOK, CursorsOrdered, ProducerInv, Owns, EnqueueCommit,
     Return, Goto
<1> DEFINE n == commit - head - 1
<1>1. Contents \in Seq(Elements) /\ Len(Contents) = n /\ n \in Nat
  BY ContentsSequence
<1>2. Contents' = [i \in 1 .. n + 1 |-> pool[GetIndex(head + i)]]
  <2>1. commit' - head' - 1 = n + 1
    BY <1>0
  <2> QED BY <1>0, <2>1 DEF Contents
<1>3. Contents' \in [1 .. n + 1 -> Elements]
  <2> SUFFICES ASSUME NEW i \in 1 .. n + 1 PROVE pool[GetIndex(head + i)] \in Elements
    BY <1>2
  <2>1. CASE i = n + 1
    <3>1. head + i = commit
      BY <2>1, <1>0
    <3> QED BY <3>1, <1>0
  <2>2. CASE i # n + 1
    <3>1. head + i \in head + 1 .. commit - 1
      BY <2>2, <1>0, <1>1
    <3> QED BY <3>1 DEF IInv, CommittedWritten
  <2> QED BY <2>1, <2>2
<1>4. Contents' \in Seq(Elements) /\ Len(Contents') = n + 1
  BY <1>1, <1>3, FunctionIsSequence
<1>5. /\ Append(Contents, arg[p]) \in Seq(Elements)
      /\ Len(Append(Contents, arg[p])) = n + 1
      /\ \A i \in 1 .. n + 1 :
           Append(Contents, arg[p])[i] = IF i = n + 1 THEN arg[p] ELSE Contents[i]
  BY <1>0, <1>1
<1>6. \A i \in 1 .. n + 1 : Contents'[i] = Append(Contents, arg[p])[i]
  <2> SUFFICES ASSUME NEW i \in 1 .. n + 1
               PROVE  Contents'[i] = Append(Contents, arg[p])[i]
    OBVIOUS
  <2>1. CASE i = n + 1
    <3>1. head + i = commit
      BY <2>1, <1>0
    <3> QED BY <3>1, <2>1, <1>0, <1>2, <1>5
  <2>2. CASE i # n + 1
    <3>1. i \in 1 .. n
      BY <2>2, <1>1
    <3>2. Contents[i] = pool[GetIndex(head + i)]
      BY <3>1 DEF Contents
    <3> QED BY <2>2, <3>2, <1>2, <1>5
  <2> QED BY <2>1, <2>2
<1>7. Contents' = Append(Contents, arg[p])
  BY <1>4, <1>5, <1>6, SeqEqual
<1>8. n < Size
  BY <1>0, SizeAssumption DEF pool_size
<1> QED BY <1>1, <1>7, <1>8

(* The CAS on head_ removes the first element, the one that was copied. *)
LEMMA ClaimRemoves ==
  ASSUME IInv, NEW c \in Consumers, DequeueClaim(c)
  PROVE  /\ Contents # <<>>
         /\ Contents' = Tail(Contents)
         /\ element[c] = Head(Contents)
<1>0. /\ head \in Nat /\ commit \in Nat /\ head' = head + 1
      /\ commit' = commit /\ pool' = pool /\ head + 1 < commit
      /\ element[c] = pool[GetIndex(head + 1)]
  BY Roles DEF IInv, TypeOK, ConsumerInv, DequeueClaim, Return, Goto
<1> DEFINE n == commit - head - 1
<1>1. Contents \in Seq(Elements) /\ Len(Contents) = n /\ n \in Nat /\ n >= 1
  BY <1>0, ContentsSequence
<1>2. Contents # <<>>
  BY <1>1, EmptySeq
<1>3. Contents' = [i \in 1 .. n - 1 |-> pool[GetIndex((head + 1) + i)]]
  <2>1. commit' - head' - 1 = n - 1
    BY <1>0
  <2> QED BY <1>0, <2>1 DEF Contents
<1>4. \A i \in 1 .. n - 1 : Contents'[i] = Contents[i + 1]
  <2> SUFFICES ASSUME NEW i \in 1 .. n - 1 PROVE Contents'[i] = Contents[i + 1]
    OBVIOUS
  <2>1. i + 1 \in 1 .. n /\ (head + 1) + i = head + (i + 1)
    BY <1>0, <1>1
  <2>2. Contents[i + 1] = pool[GetIndex(head + (i + 1))]
    BY <2>1 DEF Contents
  <2> QED BY <1>3, <2>1, <2>2
<1>5. /\ Tail(Contents) \in Seq(Elements) /\ Len(Tail(Contents)) = n - 1
      /\ \A i \in 1 .. n - 1 : Tail(Contents)[i] = Contents[i + 1]
  BY <1>1, <1>2, HeadTailProperties
<1>6. Contents' \in Seq(Elements) /\ Len(Contents') = n - 1
  <2>1. \A i \in 1 .. n - 1 : Contents'[i] \in Elements
    BY <1>1, <1>4, ElementOfSeq
  <2>2. Contents' \in [1 .. n - 1 -> Elements]
    BY <1>3, <2>1
  <2> QED BY <1>1, <2>2, FunctionIsSequence
<1>7. Contents' = Tail(Contents)
  BY <1>4, <1>5, <1>6, SeqEqual
<1>8. element[c] = Head(Contents)
  <2>1. 1 \in 1 .. n
    BY <1>1
  <2>2. Contents[1] = pool[GetIndex(head + 1)]
    BY <2>1 DEF Contents
  <2>3. Head(Contents) = Contents[1]
    BY <1>1, <1>2
  <2> QED BY <1>0, <2>2, <2>3
<1> QED BY <1>2, <1>7, <1>8

(* Every step of Enqueue is a step of the abstract queue or invisible. *)
LEMMA EnqueueRefines ==
  ASSUME IInv, NEW p \in Producers, Enqueue(p)
  PROVE  [Abs!Next]_(Abs!vars)
<1>0. /\ p \in Threads /\ p \notin Consumers /\ Consumers \subseteq Threads
      /\ pc \in [Threads -> ProducerPC \cup ConsumerPC]
      /\ ret \in [Threads -> {"idle", "pending", "true", "false"}]
      /\ pc[p] = "idle" <=> ret[p] # "pending"
  BY Roles DEF IInv, TypeOK, PendingInside
<1>1. ASSUME NEW e \in Elements, EnqueueCall(p, e) PROVE Abs!PutCall(p, e)
  <2>1. Contents' = Contents /\ Delivered' = Delivered
    BY <1>0, <1>1 DEF EnqueueCall, Goto, cursors, Contents, Delivered
  <2> QED BY <1>0, <1>1, <2>1 DEF EnqueueCall, Goto, Abs!PutCall
<1>2. CASE EnqueueCheck(p) /\ LooksFull(p)
  <2>1. Contents' = Contents /\ Delivered' = Delivered
    BY <1>0, <1>2 DEF EnqueueCheck, Return, Goto, cursors, Contents, Delivered
  <2>2. Abs!PutRefused(p)
    BY <1>0, <1>2, <2>1 DEF EnqueueCheck, Return, Goto, Abs!PutRefused
  <2> QED BY <2>2 DEF Abs!Next
<1>3. CASE EnqueueCheck(p) /\ ~LooksFull(p)
  BY <1>0, <1>3 DEF EnqueueCheck, Return, Goto, cursors, Contents, Delivered, Abs!vars
<1>4. CASE EnqueueClaim(p) \/ EnqueueRetry(p)
  BY <1>4 DEF EnqueueClaim, EnqueueRetry, cursors, Contents, Delivered, Abs!vars
<1>5. CASE EnqueueWriteBegin(p) \/ EnqueueWriteEnd(p)
  <2>1. Contents' = Contents
    BY <1>5, WriteKeepsContents DEF EnqueueWriteBegin, EnqueueWriteEnd, Goto, Owns
  <2> QED BY <1>5, <2>1 DEF EnqueueWriteBegin, EnqueueWriteEnd, Delivered, Abs!vars
<1>6. CASE EnqueueCommit(p)
  <2>1. Delivered' = Delivered
    BY <1>0, <1>6 DEF EnqueueCommit, Return, Goto, Delivered
  <2>2. Abs!Put(p)
    BY <1>0, <1>6, <2>1, CommitAppends DEF EnqueueCommit, Return, Goto, Abs!Put
  <2> QED BY <2>2 DEF Abs!Next
<1> QED BY <1>1, <1>2, <1>3, <1>4, <1>5, <1>6 DEF Enqueue, Abs!Next

(* Every step of Dequeue is a step of the abstract queue or invisible. *)
LEMMA DequeueRefines ==
  ASSUME IInv, NEW c \in Consumers, Dequeue(c)
  PROVE  [Abs!Next]_(Abs!vars)
<1>0. /\ c \in Threads /\ Consumers \subseteq Threads
      /\ pc \in [Threads -> ProducerPC \cup ConsumerPC]
      /\ ret \in [Threads -> {"idle", "pending", "true", "false"}]
      /\ element \in [Consumers -> Slots]
      /\ pc[c] = "idle" <=> ret[c] # "pending"
  BY Roles DEF IInv, TypeOK, PendingInside
<1>1. CASE DequeueCall(c)
  <2>1. Contents' = Contents /\ Delivered' = [Delivered EXCEPT ![c] = Default]
    BY <1>0, <1>1 DEF DequeueCall, Goto, cursors, Contents, Delivered
  <2>2. Abs!TakeCall(c)
    BY <1>0, <1>1, <2>1 DEF DequeueCall, Goto, Abs!TakeCall
  <2> QED BY <2>2 DEF Abs!Next
<1>2. CASE DequeueCheck(c) /\ LooksEmpty(c)
  <2>1. Contents' = Contents /\ Delivered' = Delivered
    BY <1>0, <1>2 DEF DequeueCheck, Return, Goto, cursors, Contents, Delivered
  <2>2. Contents = <<>>
    <3>1. commit - head - 1 = 0
      BY <1>0, <1>2 DEF DequeueCheck, Return, Goto, LooksEmpty, IInv, TypeOK,
         ConsumerInv, CursorsOrdered
    <3> QED BY <3>1, ContentsSequence, EmptySeq
  <2>3. Abs!TakeEmpty(c)
    BY <1>0, <1>2, <2>1, <2>2 DEF DequeueCheck, Return, Goto, Abs!TakeEmpty
  <2> QED BY <2>3 DEF Abs!Next
<1>3. CASE DequeueCheck(c) /\ ~LooksEmpty(c)
  BY <1>0, <1>3 DEF DequeueCheck, Return, Goto, cursors, Contents, Delivered, Abs!vars
<1>4. CASE DequeueCopy(c)
  <2>1. Delivered' = Delivered
    BY <1>0, <1>4 DEF DequeueCopy, Goto, Delivered
  <2> QED BY <1>4, <2>1 DEF DequeueCopy, cursors, Contents, Abs!vars
<1>5. CASE DequeueClaim(c)
  <2>1. Delivered' = [Delivered EXCEPT ![c] = element[c]]
    BY <1>0, <1>5 DEF DequeueClaim, Return, Goto, Delivered
  <2>2. Abs!Take(c)
    BY <1>0, <1>5, <2>1, ClaimRemoves DEF DequeueClaim, Return, Goto, Abs!Take
  <2> QED BY <2>2 DEF Abs!Next
<1>6. CASE DequeueRetry(c)
  BY <1>6 DEF DequeueRetry, cursors, Contents, Delivered, Abs!vars
<1> QED BY <1>1, <1>2, <1>3, <1>4, <1>5, <1>6 DEF Dequeue

(* BoundedQueue is a linearizable first-in first-out queue of Size elements. *)
THEOREM Refinement == Spec => Linearizable
<1>1. IInv /\ [Next]_vars => [Abs!Next]_(Abs!vars)
  <2> SUFFICES ASSUME IInv, [Next]_vars PROVE [Abs!Next]_(Abs!vars)
    OBVIOUS
  <2>1. CASE UNCHANGED vars
    BY <2>1 DEF vars, Contents, Delivered, Abs!vars
  <2> QED BY <2>1, EnqueueRefines, DequeueRefines DEF Next
<1> QED BY <1>1, InitRefines, Invariance, PTL DEF Spec, Linearizable, Abs!Spec
=============================================================================
