--------------------------- MODULE BaseStructures ---------------------------
(***************************************************************************)
(* The concurrent structures of src/base together.  They share nothing, so *)
(* that a behaviour exercises the one which the first state picks and the  *)
(* others stay as they were constructed.  After the properties, the proofs *)
(* for each structure alone: AtomicRWLock, CCObjectPool, UnboundedQueue    *)
(* and the bucket of GlobalData.                                           *)
(***************************************************************************)
EXTENDS ThreadPool, AtomicRWLock, CCObjectPool, NatLemmas, SequenceTheorems,
        FiniteSetTheorems, TLAPS

CONSTANTS
  Producers, Addresses, Nil, MaxCalls,                  \* UnboundedQueue
  Callers, Keys, NoEntry, MaxEntries, MaxValues, Hash, MaxRegistryCalls   \* GlobalData

(* What the proofs need of the constants: addresses are not null. *)
NodeType ==
  [data : Nat, ref_count : 1 .. 2, next : Addresses \cup {Nil}]
ASSUME QueueConstants ==
  IsFiniteSet(Producers) /\ IsFiniteSet(Addresses) /\ Nil \notin Addresses \cup NodeType

(* Ids are numbers, no pointer to an entry or a value is null, and a       *)
(* deleted value is not a name.                                            *)
EntryType ==
  [key : Nat, value_ptr : 1 .. MaxValues \cup {NoEntry}, next : 0 .. MaxEntries \cup {NoEntry}]
ASSUME RegistryConstants ==
  /\ MaxEntries \in Nat /\ MaxValues \in Nat /\ Keys \subseteq Nat
  /\ Hash \in [DOMAIN Hash -> Nat]
  /\ NoEntry \notin 0 .. MaxEntries \cup 1 .. MaxValues \cup EntryType \cup DOMAIN Hash
  /\ "deleted" \notin DOMAIN Hash \cup {NoEntry}

VARIABLES
  which,                  \* the structure this behaviour exercises
  head, tail, size, node, qpos, new, old_tail, getter, qold_head, head_next,
  queued, qtaken,
  entry, value, rat, key, arg, prev, target, new_entry, new_value,
  old_val_ptr, found, ptr, doing, name, id, calls

unboundedVars == <<head, tail, size, node, qpos, new, old_tail, getter,
                   qold_head, head_next, queued, qtaken>>
globalVars == <<entry, value, rat, key, arg, prev, target, new_entry, new_value,
                old_val_ptr, found, ptr, doing, name, id, calls>>

UQ == INSTANCE UnboundedQueue WITH
  pos <- qpos, old_head <- qold_head, taken <- qtaken

GD == INSTANCE GlobalData WITH Threads <- Callers, at <- rat

(* Two names with one hash, the case in which RegisterChannel probes on. *)
MCHash == [n \in {"a", "b"} |-> 1]

BaseInit ==
  /\ which \in {"pool", "lock", "objects", "queue", "registry"}
  /\ Init /\ (which # "pool" => strategy = "Block")
  /\ LockInit /\ (which # "lock" => write_first)
  /\ CCInit /\ UQ!QueueInit /\ GD!RegistryInit
  /\ head = CHOOSE first \in Addresses : TRUE     \* addresses are interchangeable

BaseNext ==
  \/ /\ which = "pool" /\ Next
     /\ UNCHANGED <<which, lockVars, ccVars, unboundedVars, globalVars>>
  \/ /\ which = "lock" /\ LockNext
     /\ UNCHANGED <<which, vars, ccVars, unboundedVars, globalVars>>
  \/ /\ which = "objects" /\ CCNext
     /\ UNCHANGED <<which, vars, lockVars, unboundedVars, globalVars>>
  \/ /\ which = "queue" /\ UQ!QueueNext
     /\ UNCHANGED <<which, vars, lockVars, ccVars, globalVars>>
  \/ /\ which = "registry" /\ GD!RegistryNext
     /\ UNCHANGED <<which, vars, lockVars, ccVars, unboundedVars>>

baseVars == <<which, vars, lockVars, ccVars, unboundedVars, globalVars>>

(* The fairness of ThreadPool, and threads inside a lock call go on. *)
BaseFairness ==
  /\ \A w \in Workers : WF_vars(which = "pool" /\ WorkerStep(w))
  /\ WF_vars(which = "pool" /\ OwnerStep)
  /\ \A t \in Threads : WF_lockVars(which = "lock" /\ LockStep(t))

BaseSpec == BaseInit /\ [][BaseNext]_baseVars /\ BaseFairness

-----------------------------------------------------------------------------
(***************************************************************************)
(* UnboundedQueue: no thread touches a deleted node, none is leaked, and   *)
(* elements come out in the order in which tail_ was exchanged, held back  *)
(* only by an Enqueue that has not returned.                               *)
(***************************************************************************)
QueueSound == UQ!NodesOwned /\ UQ!InOrder

(***************************************************************************)
(* AtomicHashMap under GlobalData: racing calls of Set leave every bucket  *)
(* sorted, without a second entry for a key, a lost value or a leak.       *)
(***************************************************************************)
RegistrySound == GD!BucketSound

(***************************************************************************)
(* What doc/base_components.md says of the registries: no update races     *)
(* with a lookup, so that the names behind Get's pointers are not deleted  *)
(* before they are read.                                                   *)
(***************************************************************************)
LookupsAreSafe == GD!LookupsAreSafe

-----------------------------------------------------------------------------
(***************************************************************************)
(* AtomicRWLock.                                                           *)
(***************************************************************************)
(* A reader that goes on to exchange has seen no writer. *)
LockInv ==
  /\ LockTypeOK /\ LockExclusion
  /\ \A t \in Threads : at[t] = "join" => seen[t] >= RW_LOCK_FREE

(* The steps that let no thread in or out leave the readers, the writers   *)
(* and the word as they are.                                               *)
LEMMA LockWaiting ==
  ASSUME LockInv, NEW t \in Threads,
         ReadLockLoad(t) \/ ReadLockTest(t) \/ WriteLockWait(t) \/ WriteLockEntered(t)
  PROVE  LockInv'
<1>1. LockTypeOK'
  BY DEF LockInv, LockTypeOK, ReadLockLoad, ReadLockTest, WriteLockWait, WriteLockEntered, Move
<1>2. Reading' = Reading /\ Writing' = Writing /\ lock_num' = lock_num
  BY DEF LockInv, LockTypeOK, ReadLockLoad, ReadLockTest, WriteLockWait, WriteLockEntered,
         Move, Reading, Writing
<1>3. LockExclusion'
  BY <1>2 DEF LockInv, LockExclusion, WRITE_EXCLUSIVE
<1>4. \A x \in Threads : at'[x] = "join" => seen'[x] >= RW_LOCK_FREE
  BY DEF LockInv, LockTypeOK, ReadLockLoad, ReadLockTest, WriteLockWait, WriteLockEntered,
         Move, RW_LOCK_FREE
<1> QED
  BY <1>1, <1>3, <1>4 DEF LockInv

(* Readers are finitely many, and are counted one at a time. *)
LEMMA CountReading ==
  ASSUME NEW t \in Threads
  PROVE  /\ IsFiniteSet(Reading) /\ Cardinality(Reading) \in Nat
         /\ t \notin Reading => Cardinality(Reading \cup {t}) = Cardinality(Reading) + 1
         /\ t \in Reading => Cardinality(Reading \ {t}) = Cardinality(Reading) - 1
<1>1. IsFiniteSet(Reading)
  BY ThreadsFinite, FS_Subset DEF Reading
<1> QED
  BY <1>1, FS_CardinalityType, FS_AddElement, FS_RemoveElement

(* ReadLock's exchange lets a reader in, or is tried again. *)
LEMMA ReadLockExchangeStep ==
  ASSUME LockInv, NEW t \in Threads, ReadLockExchange(t)
  PROVE  LockInv'
<1> USE DEF RW_LOCK_FREE, WRITE_EXCLUSIVE
<1>1. LockTypeOK'
  BY DEF LockInv, LockTypeOK, ReadLockExchange, Move
<1>2. \A x \in Threads : at'[x] = "join" => seen'[x] >= RW_LOCK_FREE
  BY DEF LockInv, LockTypeOK, ReadLockExchange, Move
<1>3. CASE lock_num = seen[t] /\ at[t] = "join"
           /\ at' = [at EXCEPT ![t] = "reading"] /\ lock_num' = lock_num + 1
  <2>1. lock_num >= 0 /\ t \notin Reading
    BY <1>3 DEF LockInv, Reading
  <2>2. lock_num = Cardinality(Reading) /\ Writing = {}
    BY <2>1 DEF LockInv, LockExclusion
  <2>3. Reading' = Reading \cup {t} /\ Writing' = Writing
    BY <1>3 DEF LockInv, LockTypeOK, Reading, Writing
  <2>4. lock_num' = Cardinality(Reading')
    BY <1>3, <2>1, <2>2, <2>3, CountReading
  <2> QED
    BY <1>1, <1>2, <2>2, <2>3, <2>4 DEF LockInv, LockExclusion
<1>4. CASE at[t] = "join" /\ at' = [at EXCEPT ![t] = "test"] /\ lock_num' = lock_num
  <2>1. Reading' = Reading /\ Writing' = Writing
    BY <1>4 DEF LockInv, LockTypeOK, Reading, Writing
  <2> QED
    BY <1>1, <1>2, <1>4, <2>1 DEF LockInv, LockExclusion
<1> QED
  BY <1>3, <1>4 DEF ReadLockExchange, Move

(* A reader leaves. *)
LEMMA ReadUnlockStep ==
  ASSUME LockInv, NEW t \in Threads, ReadUnlock(t)
  PROVE  LockInv'
<1> USE DEF RW_LOCK_FREE, WRITE_EXCLUSIVE
<1>1. LockTypeOK' /\ \A x \in Threads : at'[x] = "join" => seen'[x] >= RW_LOCK_FREE
  BY DEF LockInv, LockTypeOK, ReadUnlock, Move
<1>2. t \in Reading /\ Reading' = Reading \ {t} /\ Writing' = Writing
  BY DEF LockInv, LockTypeOK, ReadUnlock, Move, Reading, Writing
<1>3. lock_num = Cardinality(Reading) /\ Writing = {}
  BY <1>2 DEF LockInv, LockExclusion
<1>4. lock_num' = Cardinality(Reading')
  BY <1>2, <1>3, CountReading DEF ReadUnlock
<1> QED
  BY <1>1, <1>2, <1>3, <1>4 DEF LockInv, LockExclusion

(* A writer finds the word free, and leaves it free. *)
LEMMA WriterStep ==
  ASSUME LockInv, NEW t \in Threads, WriteLockExchange(t) \/ WriteUnlock(t)
  PROVE  LockInv'
<1> USE DEF RW_LOCK_FREE, WRITE_EXCLUSIVE
<1>1. LockTypeOK' /\ \A x \in Threads : at'[x] = "join" => seen'[x] >= RW_LOCK_FREE
  BY DEF LockInv, LockTypeOK, WriteLockExchange, WriteUnlock, Move
<1>2. CASE WriteLockExchange(t)
  <2>1. Cardinality(Reading) = 0 /\ Writing = {}
    BY <1>2 DEF LockInv, LockExclusion, WriteLockExchange
  <2>2. Reading = {}
    BY <2>1, ThreadsFinite, FS_Subset, FS_EmptySet DEF Reading
  <2>3. Reading' = Reading /\ Writing' = {t} /\ lock_num' = WRITE_EXCLUSIVE
    BY <1>2, <2>1 DEF LockInv, LockTypeOK, WriteLockExchange, Move, Reading, Writing
  <2> QED
    BY <1>1, <2>2, <2>3 DEF LockInv, LockExclusion
<1>3. CASE WriteUnlock(t)
  <2>1. t \in Writing /\ Reading' = Reading /\ Writing' = Writing \ {t}
    BY <1>3 DEF LockInv, LockTypeOK, WriteUnlock, Move, Reading, Writing
  <2>2. lock_num = WRITE_EXCLUSIVE /\ Reading = {} /\ Writing = {t}
    BY <2>1 DEF LockInv, LockExclusion
  <2>3. lock_num' = 0 /\ Reading' = {} /\ Writing' = {} /\ Cardinality({}) = 0
    BY <1>3, <2>1, <2>2, FS_EmptySet DEF WriteUnlock
  <2> QED
    BY <1>1, <2>3 DEF LockInv, LockExclusion
<1> QED
  BY <1>2, <1>3

(***************************************************************************)
(* The lock excludes for any finite number of threads: readers together,   *)
(* or one writer alone, and the word lock_num_ says which.                 *)
(***************************************************************************)
THEOREM LockExcludes == LockSpec => []LockExclusion
<1>1. LockInit => LockInv
  <2> SUFFICES ASSUME LockInit
               PROVE  LockInv
    OBVIOUS
  <2>1. Reading = {} /\ Writing = {}
    BY DEF LockInit, Reading, Writing
  <2> QED
    BY <2>1, FS_EmptySet DEF LockInit, LockInv, LockTypeOK, LockExclusion, RW_LOCK_FREE
<1>2. LockInv /\ [LockNext]_lockVars => LockInv'
  <2> SUFFICES ASSUME LockInv, [LockNext]_lockVars
               PROVE  LockInv'
    OBVIOUS
  <2>1. CASE LockNext
    BY <2>1, LockWaiting, ReadLockExchangeStep, ReadUnlockStep, WriterStep
       DEF LockNext, LockStep
  <2>2. CASE UNCHANGED lockVars
    BY <2>2 DEF lockVars, LockInv, LockTypeOK, LockExclusion, Reading, Writing
  <2> QED
    BY <2>1, <2>2
<1>3. LockInv => LockExclusion
  BY DEF LockInv
<1> QED
  BY <1>1, <1>2, <1>3, PTL DEF LockSpec

-----------------------------------------------------------------------------
(***************************************************************************)
(* CCObjectPool implements ObjectPool.                                     *)
(***************************************************************************)

Pointers == Nodes \cup {Nullptr}
Heads == [count : Nat, node : Pointers]

PoolTypes ==
  /\ free_head \in Heads
  /\ next \in [Nodes -> Pointers]
  /\ taken \in [Users -> SUBSET Nodes]
  /\ result \in [Users -> Pointers]
  /\ pos \in [Users -> {"idle", "next", "pop", "link", "push"}]
  /\ old_head \in [Users -> Heads]
  /\ new_node \in [Users -> Pointers]
  /\ object \in [Users -> Pointers]

(* s is the free list, without a node twice, and nobody has a node of it. *)
IsFree(s) ==
  /\ s \in Lists
  /\ IsChain(s, free_head.node, next)
  /\ \A i, j \in DOMAIN s : s[i] = s[j] => i = j
  /\ \A i \in DOMAIN s, u \in Users : s[i] \notin taken[u]

(* What a thread knows between its steps: a head that is still the one it  *)
(* read has the successor it read, for every exchange moves the count on;  *)
(* and a node on its way back is nobody else's.                            *)
CallsCoherent ==
  \A u \in Users :
    /\ old_head[u].count <= free_head.count
    /\ pos[u] \in {"next", "pop"} => old_head[u].node # Nullptr
    /\ pos[u] = "pop" /\ old_head[u] = free_head => new_node[u] = next[free_head.node]
    /\ pos[u] \in {"link", "push"} => object[u] \in taken[u]
    /\ pos[u] = "push" => next[object[u]] = old_head[u].node

PoolInv ==
  /\ PoolTypes /\ CallsCoherent
  /\ \E s : IsFree(s)
  /\ \A u, v \in Users : u # v => taken[u] \cap taken[v] = {}

(* Lists are sequences of at most capacity nodes. *)
LEMMA ListType ==
  ASSUME NEW s \in Lists
  PROVE  /\ s \in Seq(Nodes) /\ Len(s) \in 0 .. capacity
         /\ DOMAIN s = 1 .. Len(s) /\ \A i \in 1 .. Len(s) : s[i] \in Nodes
<1>1. PICK n \in 0 .. capacity : s \in [1 .. n -> Nodes]
  BY DEF Lists
<1>2. n \in Nat
  BY <1>1, PoolConstants
<1> QED
  BY <1>1, <1>2

LEMMA ListFrom ==
  ASSUME NEW n \in 0 .. capacity, NEW s \in [1 .. n -> Nodes]
  PROVE  s \in Lists /\ s \in Seq(Nodes) /\ Len(s) = n
<1>1. n \in Nat
  BY PoolConstants
<1> QED
  BY <1>1 DEF Lists

(* A pointer has one chain. *)
LEMMA ChainUnique ==
  ASSUME NEW s \in Lists, NEW t \in Lists, NEW first, NEW succ,
         IsChain(s, first, succ), IsChain(t, first, succ)
  PROVE  s = t
<1> DEFINE S == {n \in Nat : Element(s, n + 1) = Element(t, n + 1)}
<1>0. /\ DOMAIN s = 1 .. Len(s) /\ DOMAIN t = 1 .. Len(t) /\ Len(s) \in Nat /\ Len(t) \in Nat
      /\ \A i \in 1 .. Len(s) : s[i] \in Nodes
      /\ \A i \in 1 .. Len(t) : t[i] \in Nodes
      /\ s \in Seq(Nodes) /\ t \in Seq(Nodes)
  BY ListType, PoolConstants
<1>1. 0 \in S
  BY DEF IsChain
<1>2. ASSUME NEW n \in S
      PROVE  n + 1 \in S
  <2>1. CASE n + 1 \in DOMAIN s
    <3>1. s[n + 1] = t[n + 1] /\ n + 1 \in DOMAIN t
      BY <1>0, <1>2, <2>1, PoolConstants DEF Element
    <3> QED
      BY <1>0, <2>1, <3>1 DEF IsChain
  <2>2. CASE n + 1 \notin DOMAIN s
    <3>1. n + 1 \notin DOMAIN t
      BY <1>0, <1>2, <2>2, PoolConstants DEF Element
    <3> QED
      BY <1>0, <2>2, <3>1 DEF Element
  <2> QED
    BY <2>1, <2>2
<1>3. S = Nat
  <2> HIDE DEF S
  <2>1. S \in SUBSET Nat
    BY DEF S
  <2> QED
    BY <1>1, <1>2, <2>1, NatInduct
<1>4. \A i \in Nat \ {0} : Element(s, i) = Element(t, i)
  <2> SUFFICES ASSUME NEW i \in Nat \ {0}
               PROVE  Element(s, i) = Element(t, i)
    OBVIOUS
  <2>1. i - 1 \in Nat /\ (i - 1) + 1 = i
    OBVIOUS
  <2>2. i - 1 \in S
    <3> HIDE DEF S
    <3> QED
      BY <1>3, <2>1
  <2> QED
    BY <2>1, <2>2
<1>5. \A i \in Nat \ {0} : i \in 1 .. Len(s) <=> i \in 1 .. Len(t)
  BY <1>0, <1>4, PoolConstants DEF Element
<1>6. Len(s) = Len(t)
  <2>1. Len(s) > 0 => Len(s) <= Len(t)
    BY <1>0, <1>5
  <2>2. Len(t) > 0 => Len(t) <= Len(s)
    BY <1>0, <1>5
  <2>3. Len(s) \in Nat /\ Len(t) \in Nat
    BY <1>0
  <2> QED
    BY <2>1, <2>2, <2>3
<1> QED
  BY <1>0, <1>4, <1>6 DEF Element

(* Any list that IsFree is FreeList. *)
LEMMA FreeListIs ==
  ASSUME NEW s, IsFree(s)
  PROVE  FreeList = s
<1>1. s \in Lists /\ IsChain(s, free_head.node, next)
  BY DEF IsFree
<1>2. FreeList \in Lists /\ IsChain(FreeList, free_head.node, next)
  BY <1>1, Zenon DEF FreeList
<1> QED
  BY <1>1, <1>2, ChainUnique

LEMMA FreeListIsNext ==
  ASSUME NEW s, IsFree(s)'
  PROVE  FreeList' = s
<1>1. s \in Lists /\ IsChain(s, free_head'.node, next')
  BY DEF IsFree
<1>2. FreeList' \in Lists /\ IsChain(FreeList', free_head'.node, next')
  BY <1>1, Zenon DEF FreeList
<1> QED
  BY <1>1, <1>2, ChainUnique

-----------------------------------------------------------------------------
(* The steps that leave the head alone keep the list, as long as no link   *)
(* of a node in it changes.                                                *)
LEMMA FreeKept ==
  ASSUME NEW s, IsFree(s), UNCHANGED <<free_head, taken>>,
         \A i \in DOMAIN s : next'[s[i]] = next[s[i]]
  PROVE  IsFree(s)'
  BY DEF IsFree, IsChain

LEMMA GetObjectLoad ==
  ASSUME PoolInv, NEW u \in Users, NEW from, FindFreeHeadLoad(u, from)
  PROVE  PoolInv'
<1>1. PoolTypes'
  BY DEF PoolInv, PoolTypes, FindFreeHeadLoad, Heads, Pointers
<1>2. CallsCoherent'
  BY DEF PoolInv, PoolTypes, CallsCoherent, FindFreeHeadLoad, Heads
<1>3. PICK s : IsFree(s)
  BY DEF PoolInv
<1>4. IsFree(s)'
  BY <1>3, FreeKept DEF FindFreeHeadLoad
<1> QED
  BY <1>1, <1>2, <1>4 DEF PoolInv, FindFreeHeadLoad

LEMMA GetObjectNext ==
  ASSUME PoolInv, NEW u \in Users, FindFreeHeadNext(u)
  PROVE  PoolInv'
<1>0. old_head[u].node \in Nodes
  BY DEF PoolInv, PoolTypes, CallsCoherent, FindFreeHeadNext, Heads, Pointers
<1>1. PoolTypes'
  BY <1>0 DEF PoolInv, PoolTypes, FindFreeHeadNext
<1>2. CallsCoherent'
  BY <1>0 DEF PoolInv, PoolTypes, CallsCoherent, FindFreeHeadNext
<1>3. PICK s : IsFree(s)
  BY DEF PoolInv
<1>4. IsFree(s)'
  BY <1>3, FreeKept DEF FindFreeHeadNext
<1> QED
  BY <1>1, <1>2, <1>4 DEF PoolInv, FindFreeHeadNext

LEMMA ReleaseObjectBegin ==
  ASSUME PoolInv, NEW u \in Users, NEW o \in Nodes, CCReleaseObject(u, o)
  PROVE  PoolInv'
<1>1. PoolTypes'
  BY DEF PoolInv, PoolTypes, CCReleaseObject, Pointers
<1>2. CallsCoherent'
  BY DEF PoolInv, PoolTypes, CallsCoherent, CCReleaseObject, Heads
<1>3. PICK s : IsFree(s)
  BY DEF PoolInv
<1>4. IsFree(s)'
  BY <1>3, FreeKept DEF CCReleaseObject
<1> QED
  BY <1>1, <1>2, <1>4 DEF PoolInv, CCReleaseObject

(* The node on its way back is in nobody's list. *)
LEMMA ReleaseObjectLinks ==
  ASSUME PoolInv, NEW u \in Users, ReleaseObjectLink(u)
  PROVE  PoolInv'
<1>0. /\ object[u] \in taken[u] /\ object[u] \in Nodes /\ old_head[u].node \in Pointers
      /\ next' = [next EXCEPT ![object[u]] = old_head[u].node]
  BY DEF PoolInv, PoolTypes, CallsCoherent, ReleaseObjectLink, Heads
<1>1. PoolTypes'
  BY <1>0 DEF PoolInv, PoolTypes, ReleaseObjectLink
<1>3. PICK s : IsFree(s)
  BY DEF PoolInv
<1>5. \A i \in DOMAIN s : s[i] # object[u] /\ s[i] \in Nodes
  BY <1>0, <1>3, ListType DEF IsFree
<1>4. IsFree(s)'
  <2>1. \A i \in DOMAIN s : next'[s[i]] = next[s[i]]
    BY <1>0, <1>5 DEF PoolInv, PoolTypes
  <2> QED
    BY <1>3, <2>1, FreeKept DEF ReleaseObjectLink
<1>2. CallsCoherent'
  <2> SUFFICES ASSUME NEW v \in Users
               PROVE  /\ old_head'[v].count <= free_head'.count
                      /\ pos'[v] \in {"next", "pop"} => old_head'[v].node # Nullptr
                      /\ pos'[v] = "pop" /\ old_head'[v] = free_head'
                           => new_node'[v] = next'[free_head'.node]
                      /\ pos'[v] \in {"link", "push"} => object'[v] \in taken'[v]
                      /\ pos'[v] = "push" => next'[object'[v]] = old_head'[v].node
    BY DEF CallsCoherent
  <2>1. v # u => pos'[v] = pos[v] /\ taken[u] \cap taken[v] = {}
    BY DEF PoolInv, PoolTypes, ReleaseObjectLink
  <2>2. pos'[u] = "push"
    BY DEF PoolInv, PoolTypes, ReleaseObjectLink
  <2>3. free_head.node # Nullptr => free_head.node # object[u] /\ free_head.node \in Nodes
    BY <1>3, <1>5 DEF IsFree, IsChain, Element
  <2>4. pos[v] = "pop" /\ old_head[v] = free_head => next'[free_head.node] = next[free_head.node]
    BY <1>0, <2>3 DEF PoolInv, PoolTypes, CallsCoherent
  <2>5. v # u /\ pos[v] = "push" => next'[object[v]] = next[object[v]]
    BY <1>0, <2>1 DEF PoolInv, PoolTypes, CallsCoherent
  <2>6. next'[object[u]] = old_head[u].node
    BY <1>0 DEF PoolInv, PoolTypes
  <2> QED
    BY <1>0, <2>1, <2>2, <2>4, <2>5, <2>6 DEF PoolInv, CallsCoherent, ReleaseObjectLink
<1> QED
  BY <1>1, <1>2, <1>4 DEF PoolInv, ReleaseObjectLink

(* The list after the head was popped. *)
Popped(s) == [i \in 1 .. Len(s) - 1 |-> s[i + 1]]

LEMMA GetObjectExchange ==
  ASSUME PoolInv, NEW u \in Users, NEW s, IsFree(s),
         pos[u] = "pop", free_head = old_head[u], FindFreeHeadExchange(u)
  PROVE  /\ PoolInv' /\ IsFree(Popped(s))' /\ Len(s) > 0
         /\ s[1] = old_head[u].node /\ s[1] \in Nodes
<1> DEFINE t == Popped(s)
<1>0. /\ free_head' = [count |-> free_head.count + 1, node |-> new_node[u]]
      /\ taken' = [taken EXCEPT ![u] = @ \cup {old_head[u].node}]
      /\ result' = [result EXCEPT ![u] = old_head[u].node]
      /\ pos' = [pos EXCEPT ![u] = "idle"]
      /\ UNCHANGED <<next, old_head, new_node, object>>
  BY DEF FindFreeHeadExchange, NextCount
<1>1. /\ old_head[u].node \in Nodes /\ new_node[u] = next[old_head[u].node]
      /\ free_head.count \in Nat /\ new_node[u] \in Pointers
  BY DEF PoolInv, PoolTypes, CallsCoherent, Heads, Pointers
<1>2. /\ Len(s) \in 0 .. capacity /\ Len(s) \in Nat /\ DOMAIN s = 1 .. Len(s)
      /\ \A i \in 1 .. Len(s) : s[i] \in Nodes
  BY ListType, PoolConstants DEF IsFree
<1>3. Len(s) > 0 /\ s[1] = old_head[u].node
  BY <1>1, <1>2, PoolConstants DEF IsFree, IsChain, Element
<1>4. t \in [1 .. Len(s) - 1 -> Nodes] /\ t \in Lists /\ DOMAIN t = 1 .. Len(s) - 1
      /\ \A i \in 1 .. Len(s) - 1 : t[i] = s[i + 1]
  <2>1. t \in [1 .. Len(s) - 1 -> Nodes] /\ Len(s) - 1 \in 0 .. capacity
    BY <1>2, <1>3, PoolConstants DEF Popped
  <2> QED
    BY <2>1, ListFrom DEF Popped
<1>5. IsFree(t)'
  <2> HIDE DEF t
  <2>1. \A i \in Nat \ {0} : Element(t, i) = Element(s, i + 1)
    BY <1>2, <1>4 DEF Element
  <2>2. IsChain(t, free_head'.node, next')
    <3>1. next[s[1]] = Element(t, 1)
      <4>1. 1 \in DOMAIN s /\ 1 \in Nat \ {0}
        BY <1>2, <1>3
      <4> QED
        BY <2>1, <4>1, Zenon DEF IsFree, IsChain
    <3>2. ASSUME NEW i \in DOMAIN t
          PROVE  next[t[i]] = Element(t, i + 1)
      <4>1. i + 1 \in DOMAIN s /\ t[i] = s[i + 1] /\ i + 1 \in Nat \ {0}
        BY <1>2, <1>4
      <4>2. next[s[i + 1]] = Element(s, (i + 1) + 1)
        BY <4>1 DEF IsFree, IsChain
      <4> QED
        BY <2>1, <4>1, <4>2
    <3> QED
      BY <1>0, <1>1, <1>3, <3>1, <3>2 DEF IsChain
  <2>3. ASSUME NEW i \in DOMAIN t, NEW j \in DOMAIN t, t[i] = t[j]
        PROVE  i = j
    <3>1. i + 1 \in DOMAIN s /\ j + 1 \in DOMAIN s /\ s[i + 1] = s[j + 1] /\ i \in Nat /\ j \in Nat
      BY <1>2, <1>4, <2>3
    <3>2. i + 1 = j + 1
      BY <3>1 DEF IsFree
    <3> QED
      BY <3>1, <3>2
  <2>4. \A i \in DOMAIN t, v \in Users : t[i] \notin taken'[v]
    <3> SUFFICES ASSUME NEW i \in DOMAIN t, NEW v \in Users
                 PROVE  t[i] \notin taken'[v]
      OBVIOUS
    <3>1. i + 1 \in DOMAIN s /\ t[i] = s[i + 1] /\ 1 \in DOMAIN s /\ i + 1 # 1
      BY <1>2, <1>3, <1>4
    <3>2. t[i] # s[1] /\ t[i] \notin taken[v]
      BY <3>1 DEF IsFree
    <3> QED
      BY <1>0, <1>3, <3>2 DEF PoolInv, PoolTypes
  <2> QED
    BY <1>4, <2>2, <2>3, <2>4 DEF IsFree
<1>6. PoolTypes'
  BY <1>0, <1>1 DEF PoolInv, PoolTypes, Heads, Pointers
<1>7. CallsCoherent'
  <2> SUFFICES ASSUME NEW v \in Users
               PROVE  /\ old_head'[v].count <= free_head'.count
                      /\ pos'[v] \in {"next", "pop"} => old_head'[v].node # Nullptr
                      /\ pos'[v] = "pop" /\ old_head'[v] = free_head'
                           => new_node'[v] = next'[free_head'.node]
                      /\ pos'[v] \in {"link", "push"} => object'[v] \in taken'[v]
                      /\ pos'[v] = "push" => next'[object'[v]] = old_head'[v].node
    BY DEF CallsCoherent
  <2>1. old_head[v].count < free_head'.count /\ old_head[v].count \in Nat
    BY <1>0, <1>1 DEF PoolInv, PoolTypes, CallsCoherent, Heads
  <2>2. old_head[v] # free_head' /\ old_head'[v] = old_head[v]
    BY <1>0, <1>1, <2>1
  <2>3. /\ pos'[v] = IF v = u THEN "idle" ELSE pos[v]
        /\ taken[v] \subseteq taken'[v]
    BY <1>0 DEF PoolInv, PoolTypes
  <2>4. /\ pos[v] \in {"next", "pop"} => old_head[v].node # Nullptr
        /\ pos[v] \in {"link", "push"} => object[v] \in taken[v]
        /\ pos[v] = "push" => next[object[v]] = old_head[v].node
    BY DEF PoolInv, CallsCoherent
  <2> QED
    BY <1>0, <1>1, <2>1, <2>2, <2>3, <2>4
<1>8. \A v, w \in Users : v # w => taken'[v] \cap taken'[w] = {}
  <2>1. \A v \in Users : s[1] \notin taken[v]
    BY <1>2, <1>3 DEF IsFree
  <2> QED
    BY <1>0, <1>3, <2>1 DEF PoolInv, PoolTypes
<1>9. PoolInv'
  <2> HIDE DEF t
  <2> QED
    BY <1>5, <1>6, <1>7, <1>8 DEF PoolInv
<1> QED
  BY <1>1, <1>3, <1>5, <1>9

(* A list without a node twice has at most capacity nodes. *)
LEMMA ShortList ==
  ASSUME NEW n \in Nat, NEW s \in [1 .. n -> Nodes],
         \A i, j \in 1 .. n : s[i] = s[j] => i = j
  PROVE  n \in 0 .. capacity
<1>1. /\ IsFiniteSet(1 .. n) /\ Cardinality(1 .. n) = n
      /\ IsFiniteSet(Nodes) /\ Cardinality(Nodes) = capacity
  BY FS_Interval, PoolConstants DEF Nodes
<1>2. ~(capacity < n)
  BY <1>1, FS_PigeonHole
<1> QED
  BY <1>2, PoolConstants

(* The list after a node was pushed. *)
Pushed(o, s) == [i \in 1 .. Len(s) + 1 |-> IF i = 1 THEN o ELSE s[i - 1]]

LEMMA ReleaseObjectExchanges ==
  ASSUME PoolInv, NEW u \in Users, NEW s, IsFree(s), NEW o, o = object[u],
         free_head = old_head[u], ReleaseObjectExchange(u)
  PROVE  /\ PoolInv' /\ IsFree(Pushed(o, s))'
         /\ o \in Nodes /\ o \in taken[u]
<1> DEFINE t == Pushed(o, s)
<1>0. /\ free_head' = [count |-> free_head.count + 1, node |-> object[u]]
      /\ taken' = [taken EXCEPT ![u] = @ \ {object[u]}]
      /\ pos[u] = "push" /\ pos' = [pos EXCEPT ![u] = "idle"]
      /\ UNCHANGED <<next, result, old_head, new_node, object>>
  BY DEF ReleaseObjectExchange, NextCount
<1>1. /\ object[u] \in Nodes /\ object[u] \in taken[u] /\ free_head.count \in Nat
      /\ next[object[u]] = free_head.node
  BY <1>0 DEF PoolInv, PoolTypes, CallsCoherent, Heads, Pointers
<1>2. /\ Len(s) \in Nat /\ DOMAIN s = 1 .. Len(s)
      /\ \A i \in 1 .. Len(s) : s[i] \in Nodes
      /\ \A i \in 1 .. Len(s), v \in Users : s[i] \notin taken[v]
      /\ \A i, j \in 1 .. Len(s) : s[i] = s[j] => i = j
  BY ListType, PoolConstants DEF IsFree
<1>3. /\ t \in [1 .. Len(s) + 1 -> Nodes] /\ DOMAIN t = 1 .. Len(s) + 1
      /\ t[1] = object[u] /\ \A i \in 2 .. Len(s) + 1 : t[i] = s[i - 1] /\ i - 1 \in 1 .. Len(s)
  BY <1>1, <1>2 DEF Pushed
<1>4. \A i, j \in 1 .. Len(s) + 1 : t[i] = t[j] => i = j
  <2> HIDE DEF t
  <2> SUFFICES ASSUME NEW i \in 1 .. Len(s) + 1, NEW j \in 1 .. Len(s) + 1, t[i] = t[j], i # j
               PROVE  FALSE
    OBVIOUS
  <2>1. \A k \in 2 .. Len(s) + 1 : t[k] # t[1]
    BY <1>1, <1>2, <1>3
  <2>2. i \in 2 .. Len(s) + 1 /\ j \in 2 .. Len(s) + 1
    BY <1>2, <2>1
  <2>3. s[i - 1] = s[j - 1]
    BY <1>3, <2>2
  <2> QED
    BY <1>2, <1>3, <2>2, <2>3
<1>5. t \in Lists
  <2> HIDE DEF t
  <2>1. Len(s) + 1 \in Nat
    BY <1>2
  <2>2. Len(s) + 1 \in 0 .. capacity
    BY <1>3, <1>4, <2>1, ShortList
  <2> QED
    BY <1>3, <2>2, ListFrom
<1>6. IsFree(t)'
  <2> HIDE DEF t
  <2>1. \A i \in 2 .. Len(s) + 2 : Element(t, i) = Element(s, i - 1)
    BY <1>2, <1>3 DEF Element
  <2>2. IsChain(t, free_head'.node, next')
    <3>1. free_head'.node = Element(t, 1)
      BY <1>0, <1>2, <1>3 DEF Element
    <3>2. next[t[1]] = Element(t, 2)
      BY <1>1, <1>2, <1>3, <2>1 DEF IsFree, IsChain
    <3>3. ASSUME NEW i \in 2 .. Len(s) + 1
          PROVE  next[t[i]] = Element(t, i + 1)
      <4>1. next[s[i - 1]] = Element(s, i)
        BY <1>2, <1>3 DEF IsFree, IsChain
      <4>2. i + 1 \in 2 .. Len(s) + 2 /\ (i + 1) - 1 = i
        BY <1>2
      <4>3. Element(t, i + 1) = Element(s, i)
        BY <2>1, <4>2
      <4> QED
        BY <1>3, <4>1, <4>3
    <3>4. \A i \in DOMAIN t : i = 1 \/ i \in 2 .. Len(s) + 1
      BY <1>2, <1>3
    <3>5. Element(t, 1 + 1) = Element(t, 2)
      OBVIOUS
    <3> QED
      BY <1>0, <3>1, <3>2, <3>3, <3>4, <3>5 DEF IsChain
  <2>3. ASSUME NEW i \in DOMAIN t, NEW v \in Users
        PROVE  t[i] \notin taken'[v]
    <3>1. CASE i = 1
      BY <1>0, <1>1, <1>3, <3>1 DEF PoolInv, PoolTypes
    <3>2. CASE i # 1
      <4>0. i \in 2 .. Len(s) + 1
        BY <1>2, <1>3, <3>2
      <4>1. t[i] \notin taken[v]
        BY <1>2, <1>3, <4>0
      <4> QED
        BY <1>0, <4>1 DEF PoolInv, PoolTypes
    <3> QED
      BY <3>1, <3>2
  <2> QED
    BY <1>3, <1>4, <1>5, <2>2, <2>3 DEF IsFree
<1>7. PoolTypes'
  BY <1>0, <1>1 DEF PoolInv, PoolTypes, Heads, Pointers
<1>8. CallsCoherent'
  <2> SUFFICES ASSUME NEW v \in Users
               PROVE  /\ old_head'[v].count <= free_head'.count
                      /\ pos'[v] \in {"next", "pop"} => old_head'[v].node # Nullptr
                      /\ pos'[v] = "pop" /\ old_head'[v] = free_head'
                           => new_node'[v] = next'[free_head'.node]
                      /\ pos'[v] \in {"link", "push"} => object'[v] \in taken'[v]
                      /\ pos'[v] = "push" => next'[object'[v]] = old_head'[v].node
    BY DEF CallsCoherent
  <2>1. old_head[v].count < free_head'.count /\ old_head[v].count \in Nat
    BY <1>0, <1>1 DEF PoolInv, PoolTypes, CallsCoherent, Heads
  <2>2. old_head[v] # free_head' /\ old_head'[v] = old_head[v]
    BY <1>0, <1>1, <2>1
  <2>3. /\ pos'[v] = IF v = u THEN "idle" ELSE pos[v]
        /\ v # u => taken[v] = taken'[v]
    BY <1>0 DEF PoolInv, PoolTypes
  <2>4. /\ pos[v] \in {"next", "pop"} => old_head[v].node # Nullptr
        /\ pos[v] \in {"link", "push"} => object[v] \in taken[v]
        /\ pos[v] = "push" => next[object[v]] = old_head[v].node
    BY DEF PoolInv, CallsCoherent
  <2> QED
    BY <1>0, <1>1, <2>1, <2>2, <2>3, <2>4
<1>9. \A v, w \in Users : v # w => taken'[v] \cap taken'[w] = {}
  BY <1>0 DEF PoolInv, PoolTypes
<1>10. PoolInv'
  <2> HIDE DEF t
  <2> QED
    BY <1>6, <1>7, <1>8, <1>9 DEF PoolInv
<1> QED
  BY <1>1, <1>6, <1>10

LEMMA ReleaseObjectRetry ==
  ASSUME PoolInv, NEW u \in Users, free_head # old_head[u], ReleaseObjectExchange(u)
  PROVE  PoolInv'
<1>1. PoolTypes'
  BY DEF PoolInv, PoolTypes, ReleaseObjectExchange
<1>2. CallsCoherent'
  BY DEF PoolInv, PoolTypes, CallsCoherent, ReleaseObjectExchange, Heads
<1>3. PICK s : IsFree(s)
  BY DEF PoolInv
<1>4. IsFree(s)'
  BY <1>3, FreeKept DEF ReleaseObjectExchange
<1> QED
  BY <1>1, <1>2, <1>4 DEF PoolInv, ReleaseObjectExchange

LEMMA PoolStep ==
  ASSUME PoolInv, [CCNext]_ccVars
  PROVE  PoolInv'
<1>1. CASE UNCHANGED ccVars
  <2>1. PICK s : IsFree(s)
    BY DEF PoolInv
  <2>2. IsFree(s)'
    BY <1>1, <2>1, FreeKept DEF ccVars
  <2>3. PoolTypes' /\ CallsCoherent'
    BY <1>1 DEF ccVars, PoolInv, PoolTypes, CallsCoherent
  <2> QED
    BY <1>1, <2>2, <2>3 DEF ccVars, PoolInv
<1>2. ASSUME NEW u \in Users, FindFreeHeadExchange(u)
      PROVE  PoolInv'
  <2>1. CASE free_head = old_head[u]
    <3>1. PICK s : IsFree(s)
      BY DEF PoolInv
    <3>2. pos[u] = "pop"
      BY <1>2, <2>1 DEF FindFreeHeadExchange
    <3> QED
      BY <1>2, <2>1, <3>1, <3>2, GetObjectExchange
  <2>2. CASE free_head # old_head[u]
    BY <1>2, <2>2, GetObjectLoad DEF FindFreeHeadExchange
  <2> QED
    BY <2>1, <2>2
<1>3. ASSUME NEW u \in Users, ReleaseObjectExchange(u)
      PROVE  PoolInv'
  <2>1. CASE free_head = old_head[u]
    <3>1. PICK s : IsFree(s)
      BY DEF PoolInv
    <3> QED
      BY <1>3, <2>1, <3>1, ReleaseObjectExchanges
  <2>2. CASE free_head # old_head[u]
    BY <1>3, <2>2, ReleaseObjectRetry
  <2> QED
    BY <2>1, <2>2
<1> QED
  BY <1>1, <1>2, <1>3, GetObjectLoad, GetObjectNext, ReleaseObjectBegin, ReleaseObjectLinks
     DEF CCNext, CCGetObject

(* The constructor's list. *)
LEMMA PoolBegins ==
  ASSUME CCInit
  PROVE  PoolInv /\ IsFree([i \in 1 .. capacity |-> i - 1])
<1> DEFINE s == [i \in 1 .. capacity |-> i - 1]
<1>1. s \in [1 .. capacity -> Nodes] /\ DOMAIN s = 1 .. capacity
  BY PoolConstants DEF Nodes
<1>2. s \in Lists
  BY <1>1, PoolConstants, ListFrom
<1>3. IsChain(s, free_head.node, next)
  <2>1. free_head.node = Element(s, 1)
    BY PoolConstants DEF CCInit, Element
  <2>2. ASSUME NEW i \in DOMAIN s
        PROVE  next[s[i]] = Element(s, i + 1)
    <3>1. i \in 1 .. capacity /\ s[i] = i - 1 /\ s[i] \in Nodes
      BY <1>1, <2>2
    <3>2. next[s[i]] = IF s[i] = capacity - 1 THEN Nullptr ELSE s[i] + 1
      BY <3>1 DEF CCInit
    <3> QED
      BY <3>1, <3>2, PoolConstants DEF Element
  <2> QED
    BY <2>1, <2>2 DEF IsChain
<1>4. IsFree(s)
  BY <1>1, <1>2, <1>3, PoolConstants DEF IsFree, CCInit
<1>5. PoolTypes /\ CallsCoherent
  BY PoolConstants DEF CCInit, PoolTypes, CallsCoherent, Heads, Pointers, Nodes
<1>6. \A u, v \in Users : u # v => taken[u] \cap taken[v] = {}
  BY DEF CCInit
<1> HIDE DEF s
<1>7. PoolInv
  BY <1>4, <1>5, <1>6 DEF PoolInv
<1> QED
  BY <1>4, <1>7 DEF s

-----------------------------------------------------------------------------
(* The nodes of a list, numbered as ObjectPool numbers its objects. *)
Renumber(s) == [i \in DOMAIN s |-> Renumbered(s[i])]

LEMMA RenumberedNodes ==
  /\ \A n \in Nodes : Renumbered(n) = capacity - 1 - n /\ Renumbered(n) \in Nodes
  /\ \A n, m \in Nodes : Renumbered(n) = Renumbered(m) => n = m
  BY PoolConstants DEF Renumbered, Nodes

LEMMA RenumberType ==
  ASSUME NEW s \in Lists
  PROVE  /\ Renumber(s) \in Seq(Nodes) /\ Len(Renumber(s)) = Len(s)
         /\ \A i \in 1 .. Len(s) : Renumber(s)[i] = Renumbered(s[i])
<1>1. Len(s) \in Nat /\ DOMAIN s = 1 .. Len(s) /\ \A i \in 1 .. Len(s) : s[i] \in Nodes
  BY ListType, PoolConstants
<1>2. Renumber(s) \in [1 .. Len(s) -> Nodes]
  BY <1>1, RenumberedNodes DEF Renumber
<1> QED
  BY <1>1, <1>2 DEF Renumber

LEMMA RenumberPopped ==
  ASSUME NEW s \in Lists, Len(s) > 0, Popped(s) \in Lists
  PROVE  /\ Renumber(s) # <<>> /\ Head(Renumber(s)) = Renumbered(s[1])
         /\ Renumber(Popped(s)) = Tail(Renumber(s))
<1>1. Len(s) \in Nat /\ DOMAIN s = 1 .. Len(s)
  BY ListType, PoolConstants
<1>2. /\ Renumber(s) \in Seq(Nodes) /\ Len(Renumber(s)) = Len(s)
      /\ \A i \in 1 .. Len(s) : Renumber(s)[i] = Renumbered(s[i])
  BY RenumberType
<1>3. Renumber(s) # <<>> /\ Head(Renumber(s)) = Renumbered(s[1])
  BY <1>1, <1>2
<1>4. /\ Tail(Renumber(s)) \in Seq(Nodes) /\ Len(Tail(Renumber(s))) = Len(s) - 1
      /\ \A i \in 1 .. Len(s) - 1 : Tail(Renumber(s))[i] = Renumbered(s[i + 1])
  BY <1>1, <1>2, <1>3
<1>5. Popped(s) = [i \in 1 .. Len(s) - 1 |-> s[i + 1]] /\ Len(Popped(s)) = Len(s) - 1
  BY <1>1 DEF Popped
<1>6. /\ Renumber(Popped(s)) \in Seq(Nodes) /\ Len(Renumber(Popped(s))) = Len(s) - 1
      /\ \A i \in 1 .. Len(s) - 1 : Renumber(Popped(s))[i] = Renumbered(s[i + 1])
  <2>1. /\ Renumber(Popped(s)) \in Seq(Nodes) /\ Len(Renumber(Popped(s))) = Len(Popped(s))
        /\ \A i \in 1 .. Len(Popped(s)) : Renumber(Popped(s))[i] = Renumbered(Popped(s)[i])
    BY RenumberType
  <2>2. \A i \in 1 .. Len(s) - 1 : Popped(s)[i] = s[i + 1]
    BY <1>5
  <2>3. Len(Popped(s)) = Len(s) - 1
    BY <1>5
  <2> QED
    BY <2>1, <2>2, <2>3, Zenon
<1> QED
  BY <1>3, <1>4, <1>6, SeqEqual

LEMMA RenumberPushed ==
  ASSUME NEW s \in Lists, NEW o \in Nodes, Pushed(o, s) \in Lists
  PROVE  Renumber(Pushed(o, s)) = <<Renumbered(o)>> \o Renumber(s)
<1>1. Len(s) \in Nat /\ DOMAIN s = 1 .. Len(s)
  BY ListType, PoolConstants
<1>2. /\ Renumber(s) \in Seq(Nodes) /\ Len(Renumber(s)) = Len(s)
      /\ \A i \in 1 .. Len(s) : Renumber(s)[i] = Renumbered(s[i])
  BY RenumberType
<1>3. /\ Len(Pushed(o, s)) = Len(s) + 1
      /\ \A i \in 1 .. Len(s) + 1 : Pushed(o, s)[i] = IF i = 1 THEN o ELSE s[i - 1]
  BY <1>1 DEF Pushed
<1>4. /\ Renumber(Pushed(o, s)) \in Seq(Nodes) /\ Len(Renumber(Pushed(o, s))) = Len(s) + 1
      /\ \A i \in 1 .. Len(s) + 1 :
           Renumber(Pushed(o, s))[i] = IF i = 1 THEN Renumbered(o) ELSE Renumbered(s[i - 1])
  BY <1>3, RenumberType
<1> DEFINE r == <<Renumbered(o)>> \o Renumber(s)
<1>5. /\ r \in Seq(Nodes) /\ Len(r) = Len(s) + 1
      /\ \A i \in 1 .. Len(s) + 1 :
           r[i] = IF i = 1 THEN Renumbered(o) ELSE Renumber(s)[i - 1]
  <2>1. Renumbered(o) \in Nodes
    BY RenumberedNodes
  <2> QED
    BY <1>1, <1>2, <2>1
<1> HIDE DEF r
<1>6. ASSUME NEW i \in 1 .. Len(s) + 1
      PROVE  r[i] = Renumber(Pushed(o, s))[i]
  <2>1. i # 1 => i - 1 \in 1 .. Len(s)
    BY <1>1
  <2> QED
    BY <1>2, <1>4, <1>5, <2>1
<1>7. Renumber(Pushed(o, s)) = r
  BY <1>4, <1>5, <1>6, SeqEqual
<1> QED
  BY <1>7 DEF r

(* Every step is a step of the sequential pool, or none. *)
LEMMA PoolRefines ==
  ASSUME PoolInv, PoolInv', [CCNext]_ccVars
  PROVE  [Pool!PoolNext]_Pool!poolVars
<1> USE DEF Pool!poolVars
<1>0. PICK s : IsFree(s)
  BY DEF PoolInv
<1>1. FreeList = s /\ s \in Lists
  BY <1>0, FreeListIs DEF IsFree
<1> DEFINE free == Renumber(FreeList)
<1> DEFINE held == [u \in Users |-> {Renumbered(n) : n \in taken[u]}]
<1> DEFINE last == [u \in Users |-> Renumbered(result[u])]
<1>2. ASSUME IsFree(s)', UNCHANGED <<taken, result>>
      PROVE  UNCHANGED <<free, held, last>>
  BY <1>1, <1>2, FreeListIsNext DEF Renumber
<1>3. ASSUME NEW u \in Users, NEW from, FindFreeHeadLoad(u, from)
      PROVE  [Pool!PoolNext]_Pool!poolVars
  <2>1. IsFree(s)'
    BY <1>0, <1>3, FreeKept DEF FindFreeHeadLoad
  <2>2. FreeList' = FreeList
    BY <1>1, <2>1, FreeListIsNext
  <2>3. CASE free_head.node = Nullptr
    <3>1. Len(s) = 0
      BY <1>0, <1>1, <2>3, ListType, PoolConstants DEF IsFree, IsChain, Element
    <3>2. free = <<>>
      <4>1. free \in Seq(Nodes) /\ Len(free) = 0
        BY <1>1, <3>1, RenumberType
      <4> QED
        BY <4>1, EmptySeq
    <3>3. result' = [result EXCEPT ![u] = Nullptr]
      BY <1>3, <2>3 DEF FindFreeHeadLoad
    <3>4. last' = [last EXCEPT ![u] = Nullptr]
      BY <3>3 DEF PoolInv, PoolTypes, Renumbered
    <3>5. free' = free /\ held' = held
      BY <1>3, <2>2 DEF FindFreeHeadLoad, Renumber
    <3>6. Pool!GetObject(u)
      BY <3>2, <3>4, <3>5 DEF Pool!GetObject, Renumber
    <3> QED
      BY <3>6 DEF Pool!PoolNext
  <2>4. CASE free_head.node # Nullptr
    <3>1. UNCHANGED <<taken, result>>
      BY <1>3, <2>4 DEF FindFreeHeadLoad
    <3> QED
      BY <1>2, <2>1, <3>1 DEF Renumber
  <2> QED
    BY <2>3, <2>4
<1>4. ASSUME NEW u \in Users, FindFreeHeadExchange(u), free_head = old_head[u]
      PROVE  Pool!PoolNext
  <2>0. pos[u] = "pop"
    BY <1>4 DEF FindFreeHeadExchange
  <2>1. /\ IsFree(Popped(s))' /\ Len(s) > 0 /\ s[1] = old_head[u].node /\ s[1] \in Nodes
    BY <1>0, <1>4, <2>0, GetObjectExchange
  <2>2. FreeList' = Popped(s) /\ Popped(s) \in Lists
    BY <2>1, FreeListIsNext DEF IsFree
  <2>3. free # <<>> /\ Head(free) = Renumbered(s[1]) /\ free' = Tail(free)
    BY <1>1, <2>1, <2>2, RenumberPopped DEF Renumber
  <2>4. /\ taken' = [taken EXCEPT ![u] = @ \cup {s[1]}]
        /\ result' = [result EXCEPT ![u] = s[1]]
    BY <1>4, <2>0, <2>1 DEF FindFreeHeadExchange, FindFreeHeadLoad
  <2>5. held' = [held EXCEPT ![u] = @ \cup {Renumbered(s[1])}]
    <3>1. \A v \in Users : taken'[v] = IF v = u THEN taken[u] \cup {s[1]} ELSE taken[v]
      BY <2>4 DEF PoolInv, PoolTypes
    <3>2. \A v \in Users : {Renumbered(n) : n \in taken'[v]}
            = IF v = u THEN {Renumbered(n) : n \in taken[u]} \cup {Renumbered(s[1])}
              ELSE {Renumbered(n) : n \in taken[v]}
      BY <3>1
    <3> QED
      BY <3>2
  <2>6. last' = [last EXCEPT ![u] = Renumbered(s[1])]
    BY <2>4 DEF PoolInv, PoolTypes
  <2>7. Pool!GetObject(u)
    BY <2>3, <2>5, <2>6 DEF Pool!GetObject, Renumber
  <2> QED
    BY <2>7 DEF Pool!PoolNext
<1>5. ASSUME NEW u \in Users, ReleaseObjectExchange(u), free_head = old_head[u]
      PROVE  Pool!PoolNext
  <2>0. PICK o : o = object[u]
    OBVIOUS
  <2>1. IsFree(Pushed(o, s))' /\ o \in Nodes /\ o \in taken[u]
    BY <1>0, <1>5, <2>0, ReleaseObjectExchanges
  <2>2. FreeList' = Pushed(o, s) /\ Pushed(o, s) \in Lists
    BY <2>1, FreeListIsNext DEF IsFree
  <2>3. free' = <<Renumbered(o)>> \o free
    BY <1>1, <2>1, <2>2, RenumberPushed DEF Renumber
  <2>4. taken' = [taken EXCEPT ![u] = @ \ {o}] /\ result' = result
    BY <1>5, <2>0 DEF ReleaseObjectExchange
  <2>5. held' = [held EXCEPT ![u] = @ \ {Renumbered(o)}]
    <3>1. \A v \in Users : taken'[v] = IF v = u THEN taken[u] \ {o} ELSE taken[v]
      BY <2>4 DEF PoolInv, PoolTypes
    <3>2. {Renumbered(n) : n \in taken[u] \ {o}} = {Renumbered(n) : n \in taken[u]} \ {Renumbered(o)}
      BY <2>1, RenumberedNodes DEF PoolInv, PoolTypes
    <3> QED
      BY <3>1, <3>2
  <2>6. last' = last /\ Renumbered(o) \in held[u] /\ Renumbered(o) \in Nodes
    BY <2>1, <2>4, RenumberedNodes
  <2>7. Pool!ReleaseObject(u, Renumbered(o))
    BY <2>3, <2>5, <2>6 DEF Pool!ReleaseObject, Renumber
  <2>8. Renumbered(o) \in Pool!Objects
    BY <2>6 DEF Pool!Objects, Nodes
  <2> QED
    BY <2>7, <2>8 DEF Pool!PoolNext
<1>6. ASSUME NEW u \in Users,
             \/ FindFreeHeadNext(u)
             \/ \E o \in Nodes : CCReleaseObject(u, o)
             \/ ReleaseObjectExchange(u) /\ free_head # old_head[u]
      PROVE  UNCHANGED Pool!poolVars
  <2>1. UNCHANGED <<free_head, next, taken, result>>
    BY <1>6 DEF FindFreeHeadNext, CCReleaseObject, ReleaseObjectExchange
  <2>2. IsFree(s)'
    BY <1>0, <2>1, FreeKept
  <2> QED
    BY <1>2, <2>1, <2>2 DEF Renumber
<1>7. ASSUME NEW u \in Users, ReleaseObjectLink(u)
      PROVE  UNCHANGED Pool!poolVars
  <2>1. UNCHANGED <<free_head, taken, result>>
    BY <1>7 DEF ReleaseObjectLink
  <2>2. /\ object[u] \in taken[u] /\ object[u] \in Nodes
        /\ next' = [next EXCEPT ![object[u]] = old_head[u].node]
    BY <1>7 DEF PoolInv, PoolTypes, CallsCoherent, ReleaseObjectLink
  <2>3. \A i \in DOMAIN s : s[i] # object[u] /\ s[i] \in Nodes
    BY <1>0, <2>2, ListType DEF IsFree
  <2>4. \A i \in DOMAIN s : next'[s[i]] = next[s[i]]
    BY <2>2, <2>3 DEF PoolInv, PoolTypes
  <2>5. IsFree(s)'
    BY <1>0, <2>1, <2>4, FreeKept
  <2> QED
    BY <1>2, <2>1, <2>5 DEF Renumber
<1>8. ASSUME UNCHANGED ccVars
      PROVE  UNCHANGED Pool!poolVars
  <2>1. IsFree(s)'
    BY <1>0, <1>8, FreeKept DEF ccVars
  <2> QED
    BY <1>2, <1>8, <2>1 DEF Renumber, ccVars
<1>9. ASSUME NEW u \in Users, FindFreeHeadExchange(u)
      PROVE  [Pool!PoolNext]_Pool!poolVars
  <2>1. free_head # old_head[u] => FindFreeHeadLoad(u, "pop")
    BY <1>9 DEF FindFreeHeadExchange
  <2> HIDE DEF Pool!poolVars
  <2> QED
    BY <1>3, <1>4, <1>9, <2>1
<1> QED
  <2> HIDE DEF Pool!poolVars
  <2> QED
    BY <1>3, <1>5, <1>6, <1>7, <1>8, <1>9 DEF CCNext, CCGetObject

(***************************************************************************)
(* CCObjectPool is linearizable for any number of threads and objects: it  *)
(* implements the sequential ObjectPool.  The count in the head is what    *)
(* makes it so: a head that a thread finds unchanged at its exchange has   *)
(* been the head ever since the thread read it and its successor.          *)
(***************************************************************************)
THEOREM PoolIsLinearizable == CCSpec => PoolLinearizable
<1>1. CCInit => PoolInv
  BY PoolBegins
<1>2. PoolInv /\ [CCNext]_ccVars => PoolInv'
  BY PoolStep
<1>3. CCInit => Pool!PoolInit
  <2> SUFFICES ASSUME CCInit
               PROVE  Pool!PoolInit
    OBVIOUS
  <2> DEFINE s == [i \in 1 .. capacity |-> i - 1]
  <2>1. FreeList = s
    BY PoolBegins, FreeListIs
  <2>2. \A i \in 1 .. capacity : Renumbered(s[i]) = capacity - i
    BY PoolConstants DEF Renumbered, Nodes
  <2>3. [i \in DOMAIN FreeList |-> Renumbered(FreeList[i])] = [i \in 1 .. capacity |-> capacity - i]
    BY <2>1, <2>2
  <2> QED
    BY <2>3 DEF Pool!PoolInit, CCInit, Renumbered
<1>4. PoolInv /\ PoolInv' /\ [CCNext]_ccVars => [Pool!PoolNext]_Pool!poolVars
  BY PoolRefines
<1> QED
  BY <1>1, <1>2, <1>3, <1>4, PTL DEF CCSpec, PoolLinearizable, Pool!PoolSpec

-----------------------------------------------------------------------------
(***************************************************************************)
(* UnboundedQueue.  The nodes from head_ to tail_ in the order in which    *)
(* tail_ was exchanged are a sequence s: the list along next, and beyond   *)
(* it what producers are about to link.  A node's count is 1 for the       *)
(* producer of its successor, who may not have come yet, and 1 for the     *)
(* consumer.                                                               *)
(***************************************************************************)
Positions == {"idle", "swap", "link", "release", "count"}

QueueTypes ==
  /\ head \in Addresses /\ tail \in Addresses /\ size \in Int
  /\ node \in [Addresses -> NodeType \cup {Nil}]
  /\ qpos \in [Producers -> Positions]
  /\ new \in [Producers -> Addresses \cup {Nil}]
  /\ old_tail \in [Producers -> Addresses \cup {Nil}]
  /\ getter \in {"idle", "next", "swap", "count", "release"}
  /\ qold_head \in Addresses \cup {Nil} /\ head_next \in Addresses \cup {Nil}
  /\ queued \in Seq(Nat) /\ qtaken \in 0 .. Len(queued)

Swapping == {p \in Producers : qpos[p] = "swap"}
Following == {p \in Producers : qpos[p] \in {"link", "release"}}

(* The nodes on their way into the queue, those whose successor's producer *)
(* is not done with them, and the one the consumer is not done with.       *)
NewNodes == {new[p] : p \in Swapping}
Followed == {old_tail[p] : p \in Following}
Passed == IF getter \in {"count", "release"} THEN {qold_head} ELSE {}
InList(s) == {s[i] : i \in 1 .. Len(s)}

ProducerHas(a) == a = tail \/ a \in NewNodes \/ a \in Followed
ConsumerHas(s, a) == a \in InList(s) \/ a \in NewNodes \/ a \in Passed

(* s is the queue in the order of tail_. *)
InShape(s) ==
  /\ s \in Seq(Addresses) /\ Len(s) = Len(queued) - qtaken + 1
  /\ s[1] = head /\ s[Len(s)] = tail
  /\ \A i, j \in 1 .. Len(s) : s[i] = s[j] => i = j

Alive(s) ==
  \A a \in Addresses :
    /\ node[a] # Nil <=> ProducerHas(a) \/ ConsumerHas(s, a)
    /\ node[a] # Nil => node[a].ref_count =
         (IF ProducerHas(a) THEN 1 ELSE 0) + (IF ConsumerHas(s, a) THEN 1 ELSE 0)

(* Every node before the last is linked to its successor, or is about to. *)
LinkedUp(s) ==
  /\ \A i \in 1 .. Len(s) - 1 :
       /\ node[s[i + 1]].data = queued[qtaken + i]
       /\ \/ node[s[i]].next = s[i + 1]
          \/ /\ node[s[i]].next = Nil
             /\ \E p \in Producers : qpos[p] = "link" /\ old_tail[p] = s[i] /\ new[p] = s[i + 1]
  /\ \A p \in Producers : qpos[p] = "link" =>
       \E i \in 1 .. Len(s) - 1 :
         s[i] = old_tail[p] /\ s[i + 1] = new[p] /\ node[s[i]].next = Nil
  /\ node[tail].next = Nil
  /\ \A p \in Swapping : new[p] \in Addresses /\ node[new[p]].next = Nil

(* Whose nodes are whose. *)
Apart(s) ==
  /\ \A p, q \in Swapping : new[p] = new[q] => p = q
  /\ \A p, q \in Following : old_tail[p] = old_tail[q] => p = q
  /\ \A p \in Following : old_tail[p] \in Addresses /\ old_tail[p] # tail
  /\ \A p \in Swapping :
       new[p] \notin InList(s) /\ new[p] \notin Followed /\ new[p] \notin Passed
  /\ \A a \in Passed : a \notin InList(s)

Getting(s) ==
  /\ getter \in {"next", "swap"} => qold_head = head
  /\ getter = "swap" => Len(s) > 1 /\ head_next = s[2] /\ node[head].next = s[2]
  /\ getter = "count" => head_next = head
  /\ getter \in {"count", "release"} => qold_head \in Addresses

IsQueue(s) == InShape(s) /\ Alive(s) /\ LinkedUp(s) /\ Apart(s) /\ Getting(s)

Uncounted == {p \in Producers : qpos[p] \in {"link", "release", "count"}}

SizeCounts ==
  size = Len(queued) - qtaken - Cardinality(Uncounted) + (IF getter = "count" THEN 1 ELSE 0)

QueueInv == QueueTypes /\ SizeCounts /\ \E s : IsQueue(s)

-----------------------------------------------------------------------------
LEMMA QueueCardinality ==
  ASSUME NEW S PROVE UQ!Cardinality(S) = Cardinality(S)
  BY DEF UQ!Cardinality, Cardinality

LEMMA QueueFacts ==
  ASSUME QueueTypes, NEW s, IsQueue(s)
  PROVE  /\ Len(s) \in Nat \ {0} /\ s \in Seq(Addresses) /\ DOMAIN s = 1 .. Len(s)
         /\ \A i \in 1 .. Len(s) : s[i] \in Addresses /\ node[s[i]] \in NodeType
         /\ head \in InList(s) /\ tail \in InList(s)
         /\ node[head] \in NodeType /\ node[tail] \in NodeType
         /\ \A a \in Addresses : node[a] \in NodeType <=> node[a] # Nil
         /\ InList(s) \subseteq Addresses
         /\ Len(queued) \in Nat /\ qtaken \in Nat /\ Len(s) = Len(queued) - qtaken + 1
<1>1. /\ s \in Seq(Addresses) /\ Len(queued) \in Nat /\ qtaken \in 0 .. Len(queued)
      /\ Len(s) = Len(queued) - qtaken + 1
  BY DEF QueueTypes, IsQueue, InShape
<1>2. Len(s) \in Nat \ {0} /\ DOMAIN s = 1 .. Len(s) /\ qtaken \in Nat
  BY <1>1
<1>3. \A i \in 1 .. Len(s) : s[i] \in Addresses
  BY <1>1, <1>2
<1>4. \A a \in Addresses : node[a] \in NodeType <=> node[a] # Nil
  BY QueueConstants DEF QueueTypes
<1>5. \A i \in 1 .. Len(s) : s[i] \in InList(s)
  BY DEF InList
<1>6. \A i \in 1 .. Len(s) : node[s[i]] \in NodeType
  BY <1>3, <1>4, <1>5 DEF IsQueue, Alive, ConsumerHas
<1>7. s[1] = head /\ s[Len(s)] = tail /\ 1 \in 1 .. Len(s) /\ Len(s) \in 1 .. Len(s)
  BY <1>2 DEF IsQueue, InShape
<1>8. InList(s) \subseteq Addresses
  BY <1>3 DEF InList
<1> QED
  BY <1>1, <1>2, <1>3, <1>4, <1>5, <1>6, <1>7, <1>8

(* What holds a node alive stays as it is. *)
LEMMA AliveKept ==
  ASSUME NEW s, NEW t, Alive(s),
         \A a \in Addresses :
           /\ node'[a] = Nil <=> node[a] = Nil
           /\ node'[a] # Nil => node'[a].ref_count = node[a].ref_count
           /\ ProducerHas(a)' <=> ProducerHas(a)
           /\ ConsumerHas(t, a)' <=> ConsumerHas(s, a)
  PROVE  Alive(t)'
  BY DEF Alive

(* The consumer's steps leave the producers' part alone. *)
LEMMA ProducersKept ==
  ASSUME UNCHANGED <<qpos, new, old_tail>>
  PROVE  /\ Swapping' = Swapping /\ Following' = Following /\ Uncounted' = Uncounted
         /\ NewNodes' = NewNodes /\ Followed' = Followed
  BY DEF Swapping, Following, Uncounted, NewNodes, Followed

LEMMA DequeueLoadStep ==
  ASSUME QueueInv, UQ!DequeueLoad
  PROVE  QueueInv'
<1>1. PICK s : IsQueue(s)
  BY DEF QueueInv
<1>2. QueueTypes' /\ SizeCounts'
  BY ProducersKept DEF QueueInv, QueueTypes, SizeCounts, UQ!DequeueLoad
<1>3. Passed' = Passed /\ node' = node /\ tail' = tail
  BY DEF UQ!DequeueLoad, Passed
<1>4. Alive(s)'
  BY <1>1, <1>3, AliveKept, ProducersKept DEF IsQueue, ProducerHas, ConsumerHas, InList, UQ!DequeueLoad
<1>5. InShape(s)'
  BY <1>1 DEF IsQueue, InShape, UQ!DequeueLoad
<1>6. LinkedUp(s)'
  BY <1>1, ProducersKept DEF IsQueue, LinkedUp, UQ!DequeueLoad
<1>7. Apart(s)'
  BY <1>1, <1>3, ProducersKept DEF IsQueue, Apart, InList, UQ!DequeueLoad
<1>8. Getting(s)'
  BY DEF Getting, UQ!DequeueLoad
<1> QED
  BY <1>2, <1>4, <1>5, <1>6, <1>7, <1>8 DEF QueueInv, IsQueue

LEMMA DequeueNextStep ==
  ASSUME QueueInv, UQ!DequeueNext
  PROVE  QueueInv'
<1>1. PICK s : IsQueue(s)
  BY DEF QueueInv
<1>0. /\ Len(s) \in Nat \ {0} /\ node[head] \in NodeType /\ s[1] = head /\ s[Len(s)] = tail
      /\ qold_head = head
  BY <1>1, QueueFacts DEF QueueInv, IsQueue, InShape, Getting, UQ!DequeueNext
<1>2. QueueTypes'
  BY <1>0 DEF QueueInv, QueueTypes, UQ!DequeueNext, NodeType
<1>9. SizeCounts'
  BY ProducersKept DEF QueueInv, SizeCounts, UQ!DequeueNext
<1>3. Passed' = Passed /\ node' = node /\ tail' = tail
  BY DEF UQ!DequeueNext, Passed
<1>4. Alive(s)'
  BY <1>1, <1>3, AliveKept, ProducersKept DEF IsQueue, ProducerHas, ConsumerHas, InList, UQ!DequeueNext
<1>5. InShape(s)'
  BY <1>1 DEF IsQueue, InShape, UQ!DequeueNext
<1>6. LinkedUp(s)'
  BY <1>1, ProducersKept DEF IsQueue, LinkedUp, UQ!DequeueNext
<1>7. Apart(s)'
  BY <1>1, <1>3, ProducersKept DEF IsQueue, Apart, InList, UQ!DequeueNext
<1>8. Getting(s)'
  <2>1. getter' = "swap" => Len(s) > 1 /\ node[s[1]].next = s[2]
    <3>1. getter' = "swap" => node[head].next # Nil
      BY <1>0 DEF UQ!DequeueNext
    <3>2. node[tail].next = Nil
      BY <1>1 DEF IsQueue, LinkedUp
    <3>3. node[head].next # Nil => Len(s) > 1
      BY <1>0, <3>2
    <3>4. Len(s) > 1 => 1 \in 1 .. Len(s) - 1
      BY <1>0
    <3>5. 1 \in 1 .. Len(s) - 1 => node[s[1]].next \in {Nil, s[1 + 1]}
      BY <1>1 DEF IsQueue, LinkedUp
    <3> QED
      BY <1>0, <3>1, <3>3, <3>4, <3>5
  <2> QED
    BY <1>0, <2>1 DEF Getting, UQ!DequeueNext
<1> QED
  BY <1>2, <1>4, <1>5, <1>6, <1>7, <1>8, <1>9 DEF QueueInv, IsQueue

LEMMA DequeueCountStep ==
  ASSUME QueueInv, UQ!DequeueCount
  PROVE  QueueInv'
<1>1. PICK s : IsQueue(s)
  BY DEF QueueInv
<1>2. QueueTypes'
  BY DEF QueueInv, QueueTypes, UQ!DequeueCount
<1>f. IsFiniteSet(Uncounted) /\ Cardinality(Uncounted) \in Nat
  BY QueueConstants, FS_Subset, FS_CardinalityType DEF Uncounted
<1>9. SizeCounts'
  BY <1>f, ProducersKept DEF QueueInv, QueueTypes, SizeCounts, UQ!DequeueCount
<1>3. Passed' = Passed /\ node' = node /\ tail' = tail
  BY DEF UQ!DequeueCount, Passed
<1>4. Alive(s)'
  BY <1>1, <1>3, AliveKept, ProducersKept DEF IsQueue, ProducerHas, ConsumerHas, InList, UQ!DequeueCount
<1>5. InShape(s)'
  BY <1>1 DEF IsQueue, InShape, UQ!DequeueCount
<1>6. LinkedUp(s)'
  BY <1>1, ProducersKept DEF IsQueue, LinkedUp, UQ!DequeueCount
<1>7. Apart(s)'
  BY <1>1, <1>3, ProducersKept DEF IsQueue, Apart, InList, UQ!DequeueCount
<1>8. Getting(s)'
  BY <1>1 DEF IsQueue, Getting, UQ!DequeueCount
<1> QED
  BY <1>2, <1>4, <1>5, <1>6, <1>7, <1>8, <1>9 DEF QueueInv, IsQueue

(* The head moves on: its node is passed, and no longer in the list. *)
LEMMA DequeueSwapStep ==
  ASSUME QueueInv, UQ!DequeueSwap
  PROVE  QueueInv'
<1>1. PICK s : IsQueue(s)
  BY DEF QueueInv
<1>0. /\ Len(s) \in Nat \ {0} /\ s \in Seq(Addresses) /\ DOMAIN s = 1 .. Len(s)
      /\ \A i \in 1 .. Len(s) : s[i] \in Addresses
      /\ Len(queued) \in Nat /\ qtaken \in Nat /\ Len(s) = Len(queued) - qtaken + 1
  BY <1>1, QueueFacts DEF QueueInv
<1>2. /\ Len(s) > 1 /\ head_next = s[2] /\ node[s[1]].next = s[2] /\ head = s[1]
      /\ qold_head = head /\ s[Len(s)] = tail
      /\ \A i, j \in 1 .. Len(s) : s[i] = s[j] => i = j
  BY <1>1 DEF IsQueue, Getting, InShape, UQ!DequeueSwap
<1>3. /\ head' = head_next /\ qtaken' = qtaken + 1 /\ getter = "swap" /\ getter' = "count"
      /\ UNCHANGED <<tail, size, node, qpos, new, old_tail, qold_head, head_next, queued>>
  BY DEF UQ!DequeueSwap
<1>4. QueueTypes' /\ s[2] \in Addresses /\ s[1] \in Addresses
  BY <1>0, <1>2, <1>3 DEF QueueInv, QueueTypes
<1>f. IsFiniteSet(Uncounted) /\ Cardinality(Uncounted) \in Nat
  BY QueueConstants, FS_Subset, FS_CardinalityType DEF Uncounted
<1>5. SizeCounts'
  BY <1>0, <1>3, <1>f, ProducersKept DEF QueueInv, QueueTypes, SizeCounts
<1> DEFINE t == Tail(s)
<1>6. t \in Seq(Addresses) /\ Len(t) = Len(s) - 1 /\ \A i \in 1 .. Len(s) - 1 : t[i] = s[i + 1]
  BY <1>0, <1>2
<1> HIDE DEF t
<1>7. \A i \in 1 .. Len(t) : i + 1 \in 1 .. Len(s) /\ t[i] = s[i + 1] /\ i \in Nat
  BY <1>0, <1>6
<1>8. InShape(t)'
  <2>1. t[1] = s[2] /\ t[Len(t)] = s[Len(s)]
    BY <1>0, <1>2, <1>6
  <2>2. ASSUME NEW i \in 1 .. Len(t), NEW j \in 1 .. Len(t), t[i] = t[j]
        PROVE  i = j
    <3>1. i + 1 = j + 1 /\ i \in Nat /\ j \in Nat
      BY <1>2, <1>7, <2>2
    <3> QED
      BY <3>1
  <2> QED
    BY <1>0, <1>2, <1>3, <1>6, <2>1, <2>2 DEF InShape
<1>9. InList(s) = InList(t) \cup {head} /\ head \notin InList(t)
  <2>1. \A i \in 1 .. Len(s) : i = 1 \/ (i - 1 \in 1 .. Len(t) /\ t[i - 1] = s[i])
    BY <1>0, <1>6
  <2>2. ASSUME NEW i \in 1 .. Len(t)
        PROVE  t[i] # s[1]
    <3>1. i + 1 \in 1 .. Len(s) /\ t[i] = s[i + 1] /\ i \in Nat /\ i >= 1
      BY <1>7
    <3>2. 1 \in 1 .. Len(s) /\ i + 1 # 1
      BY <1>0, <3>1
    <3> QED
      BY <1>2, <3>1, <3>2
  <2>3. \A a \in InList(t) : a \in InList(s) /\ a # head
    BY <1>2, <1>7, <2>2 DEF InList
  <2>4. \A a \in InList(s) : a = head \/ a \in InList(t)
    BY <1>2, <2>1 DEF InList
  <2>5. head \in InList(s)
    BY <1>0, <1>2 DEF InList
  <2> QED
    BY <2>3, <2>4, <2>5
<1>10. Passed = {} /\ Passed' = {head}
  BY <1>2, <1>3 DEF Passed
<1>11. InList(t)' = InList(t)
  BY DEF InList
<1>12. Alive(t)'
  BY <1>1, <1>3, <1>9, <1>10, <1>11, AliveKept, ProducersKept DEF IsQueue, ProducerHas, ConsumerHas
<1>13. LinkedUp(t)'
  <2>1. ASSUME NEW i \in 1 .. Len(t) - 1
        PROVE  /\ node'[t[i + 1]].data = queued'[qtaken' + i]
               /\ \/ node'[t[i]].next = t[i + 1]
                  \/ /\ node'[t[i]].next = Nil
                     /\ \E p \in Producers : qpos'[p] = "link" /\ old_tail'[p] = t[i] /\ new'[p] = t[i + 1]
    <3>1. i + 1 \in 1 .. Len(s) - 1 /\ t[i] = s[i + 1] /\ t[i + 1] = s[(i + 1) + 1]
      BY <1>0, <1>6
    <3>2. qtaken' + i = qtaken + (i + 1)
      BY <1>0, <1>3
    <3>3. /\ node[s[(i + 1) + 1]].data = queued[qtaken + (i + 1)]
          /\ \/ node[s[i + 1]].next = s[(i + 1) + 1]
             \/ /\ node[s[i + 1]].next = Nil
                /\ \E p \in Producers : qpos[p] = "link" /\ old_tail[p] = s[i + 1]
                                        /\ new[p] = s[(i + 1) + 1]
      BY <1>1, <3>1 DEF IsQueue, LinkedUp
    <3> QED
      BY <1>3, <3>1, <3>2, <3>3
  <2>2. ASSUME NEW p \in Producers, qpos[p] = "link"
        PROVE  \E i \in 1 .. Len(t) - 1 :
                 t[i] = old_tail[p] /\ t[i + 1] = new[p] /\ node[t[i]].next = Nil
    <3>1. PICK i \in 1 .. Len(s) - 1 :
            s[i] = old_tail[p] /\ s[i + 1] = new[p] /\ node[s[i]].next = Nil
      BY <1>1, <2>2 DEF IsQueue, LinkedUp
    <3>2. i # 1
      BY <1>2, <1>4, <3>1, QueueConstants
    <3>3. i - 1 \in 1 .. Len(t) - 1 /\ t[i - 1] = s[i] /\ t[(i - 1) + 1] = s[i + 1]
      BY <1>0, <1>6, <3>2
    <3> QED
      BY <3>1, <3>3
  <2> QED
    BY <1>1, <1>3, <2>1, <2>2, ProducersKept DEF IsQueue, LinkedUp
<1>14. Apart(t)'
  BY <1>1, <1>3, <1>9, <1>10, <1>11, ProducersKept DEF IsQueue, Apart
<1>15. Getting(t)'
  BY <1>2, <1>3, <1>4 DEF Getting
<1> QED
  BY <1>4, <1>5, <1>8, <1>12, <1>13, <1>14, <1>15 DEF QueueInv, IsQueue

(* Nodes keep what links them. *)
LEMMA LinkedUpKept ==
  ASSUME NEW s, QueueTypes, IsQueue(s),
         UNCHANGED <<tail, queued, qtaken, new, old_tail>>, Swapping' = Swapping,
         \A p \in Producers : qpos'[p] = "link" <=> qpos[p] = "link",
         \A a \in InList(s) \cup NewNodes :
           node'[a].next = node[a].next /\ node'[a].data = node[a].data
  PROVE  LinkedUp(s)'
<1>1. tail \in InList(s) /\ Len(s) \in Nat
  BY QueueFacts
<1>2. \A i \in 1 .. Len(s) - 1 : s[i] \in InList(s) /\ s[i + 1] \in InList(s)
  BY <1>1 DEF InList
<1>3. \A p \in Swapping : new[p] \in NewNodes
  BY DEF NewNodes
<1>4. LinkedUp(s)
  BY DEF IsQueue
<1>5. ASSUME NEW i \in 1 .. Len(s) - 1
      PROVE  /\ node'[s[i + 1]].data = queued'[qtaken' + i]
             /\ \/ node'[s[i]].next = s[i + 1]
                \/ /\ node'[s[i]].next = Nil
                   /\ \E p \in Producers : qpos'[p] = "link" /\ old_tail'[p] = s[i] /\ new'[p] = s[i + 1]
  <2>1. node'[s[i + 1]].data = node[s[i + 1]].data /\ node'[s[i]].next = node[s[i]].next
    BY <1>2
  <2>2. /\ node[s[i + 1]].data = queued[qtaken + i]
        /\ \/ node[s[i]].next = s[i + 1]
           \/ /\ node[s[i]].next = Nil
              /\ \E p \in Producers : qpos[p] = "link" /\ old_tail[p] = s[i] /\ new[p] = s[i + 1]
    BY <1>4 DEF LinkedUp
  <2> QED
    BY <2>1, <2>2
<1>6. ASSUME NEW p \in Producers, qpos'[p] = "link"
      PROVE  \E i \in 1 .. Len(s) - 1 :
               s[i] = old_tail'[p] /\ s[i + 1] = new'[p] /\ node'[s[i]].next = Nil
  <2>1. PICK i \in 1 .. Len(s) - 1 :
          s[i] = old_tail[p] /\ s[i + 1] = new[p] /\ node[s[i]].next = Nil
    BY <1>4, <1>6 DEF LinkedUp
  <2> QED
    BY <1>2, <2>1
<1>7. node'[tail'].next = Nil
  BY <1>1, <1>4 DEF LinkedUp
<1>8. \A p \in Swapping' : new'[p] \in Addresses /\ node'[new'[p]].next = Nil
  BY <1>3, <1>4 DEF LinkedUp
<1> QED
  BY <1>5, <1>6, <1>7, <1>8 DEF LinkedUp

(* What release does to a node that one holder gives up. *)
LEMMA ReleasedNode ==
  ASSUME QueueTypes, NEW a \in Addresses, node[a] # Nil, node' = UQ!Released(a)
  PROVE  /\ node' \in [Addresses -> NodeType \cup {Nil}]
         /\ \A b \in Addresses \ {a} : node'[b] = node[b]
         /\ node[a].ref_count = 1 => node'[a] = Nil
         /\ node[a].ref_count = 2 =>
              /\ node'[a] # Nil /\ node'[a].ref_count = 1
              /\ node'[a].next = node[a].next /\ node'[a].data = node[a].data
<1>1. node[a] \in NodeType /\ node \in [Addresses -> NodeType \cup {Nil}]
  BY DEF QueueTypes
<1>2. CASE node[a].ref_count = 1
  <2>1. node' = [node EXCEPT ![a] = Nil]
    BY <1>2 DEF UQ!Released
  <2> QED
    BY <1>1, <1>2, <2>1
<1>3. CASE node[a].ref_count # 1
  <2>1. node' = [node EXCEPT ![a].ref_count = @ - 1] /\ node[a].ref_count = 2
    BY <1>1, <1>3 DEF UQ!Released, NodeType
  <2>2. node'[a] = [node[a] EXCEPT !.ref_count = 1] /\ \A b \in Addresses \ {a} : node'[b] = node[b]
    BY <1>1, <2>1
  <2>3. node'[a] \in NodeType /\ node'[a].ref_count = 1 /\ node'[a].next = node[a].next
        /\ node'[a].data = node[a].data
    BY <1>1, <2>2 DEF NodeType
  <2>4. node' \in [Addresses -> NodeType \cup {Nil}]
    BY <1>1, <2>1, <2>2, <2>3
  <2> QED
    BY <2>1, <2>2, <2>3, <2>4, QueueConstants
<1> QED
  BY <1>2, <1>3

LEMMA DequeueReleaseStep ==
  ASSUME QueueInv, UQ!DequeueRelease
  PROVE  QueueInv'
<1>1. PICK s : IsQueue(s)
  BY DEF QueueInv
<1>0. /\ getter = "release" /\ getter' = "idle" /\ node' = UQ!Released(qold_head)
      /\ UNCHANGED <<head, tail, size, qpos, new, old_tail, qold_head, head_next, queued, qtaken>>
  BY DEF UQ!DequeueRelease
<1>2. /\ qold_head \in Addresses /\ Passed = {qold_head} /\ Passed' = {} /\ InList(s)' = InList(s)
      /\ qold_head \notin InList(s) /\ qold_head \notin NewNodes
  BY <1>0, <1>1 DEF IsQueue, Getting, Passed, Apart, InList, NewNodes
<1>3. ConsumerHas(s, qold_head) /\ ~ConsumerHas(s, qold_head)'
  BY <1>0, <1>2, ProducersKept DEF ConsumerHas
<1>4. \A a \in Addresses \ {qold_head} : ConsumerHas(s, a)' <=> ConsumerHas(s, a)
  BY <1>0, <1>2, ProducersKept DEF ConsumerHas
<1>5. \A a \in Addresses : ProducerHas(a)' <=> ProducerHas(a)
  BY <1>0, ProducersKept DEF ProducerHas
<1>6. node[qold_head] # Nil /\ node[qold_head].ref_count = (IF ProducerHas(qold_head) THEN 2 ELSE 1)
  BY <1>1, <1>2, <1>3 DEF IsQueue, Alive
<1>7. /\ node' \in [Addresses -> NodeType \cup {Nil}]
      /\ \A b \in Addresses \ {qold_head} : node'[b] = node[b]
      /\ ProducerHas(qold_head) => node'[qold_head] # Nil /\ node'[qold_head].ref_count = 1
      /\ ~ProducerHas(qold_head) => node'[qold_head] = Nil
  BY <1>0, <1>2, <1>6, ReleasedNode DEF QueueInv
<1>8. QueueTypes' /\ SizeCounts'
  BY <1>0, <1>7, ProducersKept DEF QueueInv, QueueTypes, SizeCounts
<1>9. Alive(s)'
  <2>1. ASSUME NEW a \in Addresses
        PROVE  /\ node'[a] # Nil <=> ProducerHas(a)' \/ ConsumerHas(s, a)'
               /\ node'[a] # Nil => node'[a].ref_count =
                    (IF ProducerHas(a)' THEN 1 ELSE 0) + (IF ConsumerHas(s, a)' THEN 1 ELSE 0)
    <3>1. CASE a = qold_head
      BY <1>0, <1>3, <1>5, <1>7, <3>1
    <3>2. CASE a # qold_head
      BY <1>1, <1>4, <1>5, <1>7, <3>2 DEF IsQueue, Alive
    <3> QED
      BY <3>1, <3>2
  <2> QED
    BY <2>1 DEF Alive
<1>10. InShape(s)'
  BY <1>0, <1>1 DEF IsQueue, InShape
<1>11. LinkedUp(s)'
  <2>1. InList(s) \cup NewNodes \subseteq Addresses
    BY <1>1, QueueFacts DEF QueueInv, IsQueue, LinkedUp, NewNodes
  <2>2. \A a \in InList(s) \cup NewNodes : node'[a] = node[a]
    BY <1>2, <1>7, <2>1
  <2> QED
    BY <1>0, <1>1, <2>2, LinkedUpKept, ProducersKept DEF QueueInv
<1>12. Apart(s)'
  BY <1>0, <1>1, <1>2, ProducersKept DEF IsQueue, Apart
<1>13. Getting(s)'
  BY <1>0 DEF Getting
<1> QED
  BY <1>8, <1>9, <1>10, <1>11, <1>12, <1>13 DEF QueueInv, IsQueue

LEMMA EnqueueReleaseStep ==
  ASSUME QueueInv, NEW p \in Producers, UQ!EnqueueRelease(p)
  PROVE  QueueInv'
<1>1. PICK s : IsQueue(s)
  BY DEF QueueInv
<1>e. PICK a0 : a0 = old_tail[p]
  OBVIOUS
<1>0. /\ qpos[p] = "release" /\ qpos' = [qpos EXCEPT ![p] = "count"] /\ node' = UQ!Released(a0)
      /\ UNCHANGED <<head, tail, size, new, old_tail, getter, qold_head, head_next, queued, qtaken>>
  BY <1>e DEF UQ!EnqueueRelease, UQ!Step
<1>a. /\ qpos' \in [Producers -> Positions] /\ qpos'[p] = "count"
      /\ \A q \in Producers \ {p} : qpos'[q] = qpos[q]
  BY <1>0 DEF QueueInv, QueueTypes, Positions
<1>b. /\ Swapping' = Swapping /\ Following' = Following \ {p} /\ Uncounted' = Uncounted
      /\ p \in Following
      /\ \A q \in Producers : qpos'[q] = "link" <=> qpos[q] = "link"
  BY <1>0, <1>a DEF Swapping, Following, Uncounted
<1>2. /\ a0 \in Addresses /\ a0 # tail /\ a0 \notin NewNodes /\ a0 \in Followed
      /\ \A q \in Following \ {p} : old_tail[q] # a0
  BY <1>1, <1>b, <1>e DEF IsQueue, Apart, NewNodes, Followed
<1>c. NewNodes' = NewNodes /\ Followed' = Followed \ {a0} /\ Passed' = Passed /\ InList(s)' = InList(s)
  BY <1>0, <1>b, <1>2, <1>e DEF NewNodes, Followed, Passed, InList
<1>3. ProducerHas(a0) /\ ~ProducerHas(a0)'
  BY <1>0, <1>2, <1>c DEF ProducerHas
<1>4. \A a \in Addresses \ {a0} : ProducerHas(a)' <=> ProducerHas(a)
  BY <1>0, <1>c DEF ProducerHas
<1>5. \A a \in Addresses : ConsumerHas(s, a)' <=> ConsumerHas(s, a)
  BY <1>c DEF ConsumerHas
<1>6. node[a0] # Nil /\ node[a0].ref_count = (IF ConsumerHas(s, a0) THEN 2 ELSE 1)
  BY <1>1, <1>2, <1>3 DEF IsQueue, Alive
<1>7. /\ node' \in [Addresses -> NodeType \cup {Nil}]
      /\ \A b \in Addresses \ {a0} : node'[b] = node[b]
      /\ ConsumerHas(s, a0) =>
           /\ node'[a0] # Nil /\ node'[a0].ref_count = 1
           /\ node'[a0].next = node[a0].next /\ node'[a0].data = node[a0].data
      /\ ~ConsumerHas(s, a0) => node'[a0] = Nil
  BY <1>0, <1>2, <1>6, ReleasedNode DEF QueueInv
<1>8. QueueTypes' /\ SizeCounts'
  BY <1>0, <1>a, <1>b, <1>7 DEF QueueInv, QueueTypes, SizeCounts
<1>9. Alive(s)'
  <2>1. ASSUME NEW a \in Addresses
        PROVE  /\ node'[a] # Nil <=> ProducerHas(a)' \/ ConsumerHas(s, a)'
               /\ node'[a] # Nil => node'[a].ref_count =
                    (IF ProducerHas(a)' THEN 1 ELSE 0) + (IF ConsumerHas(s, a)' THEN 1 ELSE 0)
    <3>1. CASE a = a0
      BY <1>3, <1>5, <1>7, <3>1
    <3>2. CASE a # a0
      BY <1>1, <1>4, <1>5, <1>7, <3>2 DEF IsQueue, Alive
    <3> QED
      BY <3>1, <3>2
  <2> QED
    BY <2>1 DEF Alive
<1>10. InShape(s)'
  BY <1>0, <1>1 DEF IsQueue, InShape
<1>d. \A a \in InList(s) \cup NewNodes :
        node'[a].next = node[a].next /\ node'[a].data = node[a].data
  <2>1. InList(s) \cup NewNodes \subseteq Addresses
    BY <1>1, QueueFacts DEF QueueInv, IsQueue, LinkedUp, NewNodes
  <2>2. a0 \in InList(s) => ConsumerHas(s, a0)
    BY DEF ConsumerHas
  <2> QED
    BY <1>2, <1>7, <2>1, <2>2
<1>11. LinkedUp(s)'
  BY <1>0, <1>1, <1>b, <1>d, LinkedUpKept DEF QueueInv
<1>12. Apart(s)'
  BY <1>0, <1>1, <1>b, <1>c DEF IsQueue, Apart
<1>13. Getting(s)'
  <2>1. head \in InList(s)
    BY <1>1, QueueFacts DEF QueueInv
  <2> QED
    BY <1>0, <1>1, <1>d, <2>1 DEF IsQueue, Getting
<1> QED
  BY <1>8, <1>9, <1>10, <1>11, <1>12, <1>13 DEF QueueInv, IsQueue

LEMMA EnqueueCountStep ==
  ASSUME QueueInv, NEW p \in Producers, UQ!EnqueueCount(p)
  PROVE  QueueInv'
<1>1. PICK s : IsQueue(s)
  BY DEF QueueInv
<1>0. /\ qpos[p] = "count" /\ qpos' = [qpos EXCEPT ![p] = "idle"] /\ size' = size + 1
      /\ UNCHANGED <<head, tail, node, new, old_tail, getter, qold_head, head_next, queued, qtaken>>
  BY DEF UQ!EnqueueCount, UQ!Step
<1>a. /\ qpos' \in [Producers -> Positions] /\ qpos'[p] = "idle"
      /\ \A q \in Producers \ {p} : qpos'[q] = qpos[q]
  BY <1>0 DEF QueueInv, QueueTypes, Positions
<1>b. /\ Swapping' = Swapping /\ Following' = Following /\ Uncounted' = Uncounted \ {p}
      /\ p \in Uncounted
      /\ \A q \in Producers : qpos'[q] = "link" <=> qpos[q] = "link"
  BY <1>0, <1>a DEF Swapping, Following, Uncounted
<1>c. /\ NewNodes' = NewNodes /\ Followed' = Followed /\ Passed' = Passed /\ InList(s)' = InList(s)
  BY <1>0, <1>b DEF NewNodes, Followed, Passed, InList
<1>d. /\ Cardinality(Uncounted) \in Nat /\ Cardinality(Uncounted') = Cardinality(Uncounted) - 1
  <2>1. IsFiniteSet(Uncounted)
    BY QueueConstants, FS_Subset DEF Uncounted
  <2> QED
    BY <1>b, <2>1, FS_CardinalityType, FS_RemoveElement
<1>2. QueueTypes' /\ SizeCounts'
  BY <1>0, <1>a, <1>d DEF QueueInv, QueueTypes, SizeCounts
<1>3. Alive(s)'
  BY <1>0, <1>1, <1>c, AliveKept DEF IsQueue, ProducerHas, ConsumerHas
<1>4. InShape(s)'
  BY <1>0, <1>1 DEF IsQueue, InShape
<1>5. LinkedUp(s)'
  BY <1>0, <1>1, <1>b, LinkedUpKept DEF QueueInv
<1>6. Apart(s)'
  BY <1>0, <1>1, <1>b, <1>c DEF IsQueue, Apart
<1>7. Getting(s)'
  BY <1>0, <1>1 DEF IsQueue, Getting
<1> QED
  BY <1>2, <1>3, <1>4, <1>5, <1>6, <1>7 DEF QueueInv, IsQueue

LEMMA EnqueueLinkStep ==
  ASSUME QueueInv, NEW p \in Producers, UQ!EnqueueLink(p)
  PROVE  QueueInv'
<1>1. PICK s : IsQueue(s)
  BY DEF QueueInv
<1>0. /\ qpos[p] = "link" /\ qpos' = [qpos EXCEPT ![p] = "release"]
      /\ node' = [node EXCEPT ![old_tail[p]].next = new[p]]
      /\ UNCHANGED <<head, tail, size, new, old_tail, getter, qold_head, head_next, queued, qtaken>>
  BY DEF UQ!EnqueueLink, UQ!Step
<1>a. /\ qpos' \in [Producers -> Positions] /\ qpos'[p] = "release"
      /\ \A q \in Producers \ {p} : qpos'[q] = qpos[q]
  BY <1>0 DEF QueueInv, QueueTypes, Positions
<1>b. /\ Swapping' = Swapping /\ Following' = Following /\ Uncounted' = Uncounted
      /\ p \in Following
  BY <1>0, <1>a DEF Swapping, Following, Uncounted
<1>c. /\ NewNodes' = NewNodes /\ Followed' = Followed /\ Passed' = Passed /\ InList(s)' = InList(s)
  BY <1>0, <1>b DEF NewNodes, Followed, Passed, InList
<1>2. PICK k \in 1 .. Len(s) - 1 :
        s[k] = old_tail[p] /\ s[k + 1] = new[p] /\ node[s[k]].next = Nil
  BY <1>0, <1>1 DEF IsQueue, LinkedUp
<1>3. /\ Len(s) \in Nat \ {0} /\ k \in Nat
      /\ \A i \in 1 .. Len(s) : s[i] \in Addresses /\ node[s[i]] \in NodeType
      /\ s[1] = head /\ s[Len(s)] = tail
      /\ \A i, j \in 1 .. Len(s) : s[i] = s[j] => i = j
      /\ k \in 1 .. Len(s) /\ k + 1 \in 1 .. Len(s)
  <2>1. Len(s) \in Nat \ {0} /\ \A i \in 1 .. Len(s) : s[i] \in Addresses /\ node[s[i]] \in NodeType
    BY <1>1, QueueFacts DEF QueueInv
  <2>2. k \in Nat /\ k \in 1 .. Len(s) /\ k + 1 \in 1 .. Len(s)
    BY <2>1
  <2> QED
    BY <1>1, <2>1, <2>2 DEF IsQueue, InShape
<1>4. /\ node'[s[k]] = [node[s[k]] EXCEPT !.next = s[k + 1]]
      /\ \A a \in Addresses \ {s[k]} : node'[a] = node[a]
  BY <1>0, <1>2, <1>3 DEF QueueInv, QueueTypes
<1>5. /\ node'[s[k]] \in NodeType /\ node'[s[k]].next = s[k + 1] /\ node'[s[k]].data = node[s[k]].data
      /\ node'[s[k]].ref_count = node[s[k]].ref_count
  BY <1>3, <1>4 DEF NodeType
<1>6. node' \in [Addresses -> NodeType \cup {Nil}]
  BY <1>0, <1>2, <1>3, <1>4, <1>5 DEF QueueInv, QueueTypes
<1>7. QueueTypes' /\ SizeCounts'
  BY <1>0, <1>a, <1>b, <1>6 DEF QueueInv, QueueTypes, SizeCounts
<1>8. Alive(s)'
  <2>1. \A a \in Addresses :
          /\ node'[a] = Nil <=> node[a] = Nil
          /\ node'[a] # Nil => node'[a].ref_count = node[a].ref_count
    <3>1. node'[s[k]] # Nil /\ node[s[k]] # Nil
      BY <1>3, <1>5, QueueConstants
    <3> QED
      BY <1>4, <1>5, <3>1
  <2> QED
    BY <1>0, <1>1, <1>c, <2>1, AliveKept DEF IsQueue, ProducerHas, ConsumerHas
<1>9. InShape(s)'
  BY <1>0, <1>1 DEF IsQueue, InShape
<1>10. LinkedUp(s)'
  <2>1. ASSUME NEW i \in 1 .. Len(s) - 1
        PROVE  /\ node'[s[i + 1]].data = queued'[qtaken' + i]
               /\ \/ node'[s[i]].next = s[i + 1]
                  \/ /\ node'[s[i]].next = Nil
                     /\ \E q \in Producers : qpos'[q] = "link" /\ old_tail'[q] = s[i] /\ new'[q] = s[i + 1]
    <3>1. i \in 1 .. Len(s) /\ i + 1 \in 1 .. Len(s)
      BY <1>3
    <3>2. node'[s[i + 1]].data = node[s[i + 1]].data
      BY <1>3, <1>4, <1>5, <3>1
    <3>3. /\ node[s[i + 1]].data = queued[qtaken + i]
          /\ \/ node[s[i]].next = s[i + 1]
             \/ /\ node[s[i]].next = Nil
                /\ \E q \in Producers : qpos[q] = "link" /\ old_tail[q] = s[i] /\ new[q] = s[i + 1]
      BY <1>1 DEF IsQueue, LinkedUp
    <3>4. CASE i = k
      BY <1>0, <1>5, <3>2, <3>3, <3>4
    <3>5. CASE i # k
      <4>1. s[i] # s[k] /\ node'[s[i]] = node[s[i]]
        BY <1>3, <1>4, <3>1, <3>5
      <4>2. \A q \in Producers : old_tail[q] = s[i] => q # p
        BY <1>2, <4>1
      <4> QED
        BY <1>0, <1>a, <3>2, <3>3, <4>1, <4>2
    <3> QED
      BY <3>4, <3>5
  <2>2. ASSUME NEW q \in Producers, qpos'[q] = "link"
        PROVE  \E i \in 1 .. Len(s) - 1 :
                 s[i] = old_tail'[q] /\ s[i + 1] = new'[q] /\ node'[s[i]].next = Nil
    <3>1. q # p /\ qpos[q] = "link" /\ q \in Following
      BY <1>a, <2>2 DEF Following
    <3>2. PICK i \in 1 .. Len(s) - 1 :
            s[i] = old_tail[q] /\ s[i + 1] = new[q] /\ node[s[i]].next = Nil
      BY <1>1, <3>1 DEF IsQueue, LinkedUp
    <3>3. old_tail[q] # old_tail[p] /\ s[i] \in Addresses
      BY <1>1, <1>b, <1>3, <3>1 DEF IsQueue, Apart
    <3>4. node'[s[i]] = node[s[i]]
      BY <1>2, <1>4, <3>2, <3>3
    <3> QED
      BY <1>0, <3>2, <3>4
  <2>3. tail \in Addresses /\ tail # s[k] /\ node'[tail].next = Nil
    BY <1>1, <1>3, <1>4 DEF IsQueue, LinkedUp
  <2>4. \A q \in Swapping : new[q] \in Addresses /\ node'[new[q]].next = Nil
    <3>1. \A q \in Swapping : new[q] # s[k]
      BY <1>1, <1>3 DEF IsQueue, Apart, InList
    <3> QED
      BY <1>1, <1>4, <3>1 DEF IsQueue, LinkedUp
  <2> QED
    BY <1>0, <1>b, <2>1, <2>2, <2>3, <2>4 DEF LinkedUp
<1>11. Apart(s)'
  BY <1>0, <1>1, <1>b, <1>c DEF IsQueue, Apart
<1>12. Getting(s)'
  <2>1. getter = "swap" => node[head].next # Nil
    BY <1>1, <1>3, QueueConstants DEF IsQueue, Getting
  <2>2. getter = "swap" => node'[head] = node[head]
    BY <1>2, <1>3, <1>4, <2>1
  <2> QED
    BY <1>0, <1>1, <2>2 DEF IsQueue, Getting
<1> QED
  BY <1>7, <1>8, <1>9, <1>10, <1>11, <1>12 DEF QueueInv, IsQueue

LEMMA EnqueueSwapStep ==
  ASSUME QueueInv, NEW p \in Producers, UQ!EnqueueSwap(p), tail = old_tail[p]
  PROVE  QueueInv'
<1>1. PICK s : IsQueue(s)
  BY DEF QueueInv
<1>e. PICK a0 : a0 = new[p]
  OBVIOUS
<1>0. /\ qpos[p] = "swap" /\ qpos' = [qpos EXCEPT ![p] = "link"] /\ tail' = a0
      /\ queued' = Append(queued, node[a0].data)
      /\ UNCHANGED <<head, size, node, new, old_tail, getter, qold_head, head_next, qtaken>>
  BY <1>e DEF UQ!EnqueueSwap, UQ!Step
<1>a. /\ qpos' \in [Producers -> Positions] /\ qpos'[p] = "link"
      /\ \A q \in Producers \ {p} : qpos'[q] = qpos[q]
  BY <1>0 DEF QueueInv, QueueTypes, Positions
<1>b. /\ Swapping' = Swapping \ {p} /\ Following' = Following \cup {p}
      /\ Uncounted' = Uncounted \cup {p} /\ p \in Swapping /\ p \notin Uncounted
      /\ p \notin Following
  BY <1>0, <1>a DEF Swapping, Following, Uncounted
<1>2. /\ Len(s) \in Nat \ {0} /\ s \in Seq(Addresses)
      /\ \A i \in 1 .. Len(s) : s[i] \in Addresses /\ s[i] \in InList(s)
      /\ s[1] = head /\ s[Len(s)] = tail /\ tail \in InList(s)
      /\ Len(queued) \in Nat /\ qtaken \in 0 .. Len(queued) /\ Len(s) = Len(queued) - qtaken + 1
      /\ \A i, j \in 1 .. Len(s) : s[i] = s[j] => i = j
  <2>1. /\ Len(s) \in Nat \ {0} /\ s \in Seq(Addresses) /\ tail \in InList(s)
        /\ \A i \in 1 .. Len(s) : s[i] \in Addresses
    BY <1>1, QueueFacts DEF QueueInv
  <2>2. /\ s[1] = head /\ s[Len(s)] = tail /\ Len(s) = Len(queued) - qtaken + 1
        /\ \A i, j \in 1 .. Len(s) : s[i] = s[j] => i = j
    BY <1>1 DEF IsQueue, InShape
  <2>3. Len(queued) \in Nat /\ qtaken \in 0 .. Len(queued)
    BY DEF QueueInv, QueueTypes
  <2> QED
    BY <2>1, <2>2, <2>3 DEF InList
<1>3. /\ a0 \in Addresses /\ a0 \notin InList(s) /\ a0 \notin Followed /\ a0 \notin Passed
      /\ a0 \in NewNodes /\ node[a0].next = Nil /\ \A q \in Swapping \ {p} : new[q] # a0
  BY <1>1, <1>b, <1>e DEF IsQueue, LinkedUp, Apart, NewNodes
<1>4. node[a0] \in NodeType
  <2>1. ConsumerHas(s, a0)
    BY <1>3 DEF ConsumerHas
  <2> QED
    BY <1>1, <1>3, <2>1, QueueFacts DEF QueueInv, IsQueue, Alive
<1> DEFINE t == Append(s, a0)
<1>5. /\ t \in Seq(Addresses) /\ Len(t) = Len(s) + 1 /\ t[Len(s) + 1] = a0
      /\ \A i \in 1 .. Len(s) : t[i] = s[i]
  <2>1. s \in Seq(Addresses) /\ a0 \in Addresses /\ Len(s) \in Nat
    BY <1>2, <1>3
  <2> QED
    BY <2>1, AppendProperties
<1> HIDE DEF t
<1>6. /\ Len(queued') = Len(queued) + 1 /\ queued' \in Seq(Nat)
      /\ \A i \in 1 .. Len(queued) : queued'[i] = queued[i]
      /\ queued'[Len(queued) + 1] = node[a0].data
  BY <1>0, <1>4 DEF QueueInv, QueueTypes, NodeType
<1>c. /\ NewNodes' = NewNodes \ {a0} /\ Followed' = Followed \cup {tail} /\ Passed' = Passed
  BY <1>0, <1>b, <1>3, <1>e DEF NewNodes, Followed, Passed
<1>d. InList(t)' = InList(t) /\ InList(t) = InList(s) \cup {a0}
  <2>1. \A i \in 1 .. Len(t) : i = Len(s) + 1 \/ i \in 1 .. Len(s)
    BY <1>2, <1>5
  <2>2. \A i \in 1 .. Len(s) + 1 : i \in 1 .. Len(t)
    BY <1>5
  <2>3. Len(s) + 1 \in 1 .. Len(s) + 1 /\ \A i \in 1 .. Len(s) : i \in 1 .. Len(s) + 1
    BY <1>2
  <2>4. \A a \in InList(t) : a \in InList(s) \cup {a0}
    BY <1>5, <2>1 DEF InList
  <2>5. \A a \in InList(s) \cup {a0} : a \in InList(t)
    BY <1>5, <2>2, <2>3 DEF InList
  <2> QED
    BY <2>4, <2>5 DEF InList
<1>7. QueueTypes'
  BY <1>0, <1>a, <1>2, <1>3, <1>6 DEF QueueInv, QueueTypes
<1>8. SizeCounts'
  <2>1. IsFiniteSet(Uncounted)
    BY QueueConstants, FS_Subset DEF Uncounted
  <2>2. Cardinality(Uncounted) \in Nat /\ Cardinality(Uncounted') = Cardinality(Uncounted) + 1
    BY <1>b, <2>1, FS_CardinalityType, FS_AddElement
  <2> QED
    BY <1>0, <1>2, <1>6, <2>2 DEF QueueInv, QueueTypes, SizeCounts
<1>9. Alive(t)'
  <2>1. \A a \in Addresses : ProducerHas(a)' <=> ProducerHas(a)
    BY <1>0, <1>3, <1>c DEF ProducerHas
  <2>2. \A a \in Addresses : ConsumerHas(t, a)' <=> ConsumerHas(s, a)
    BY <1>3, <1>c, <1>d DEF ConsumerHas
  <2> QED
    BY <1>0, <1>1, <2>1, <2>2, AliveKept DEF IsQueue
<1>10. InShape(t)'
  <2>1. t[1] = head /\ t[Len(t)] = a0
    BY <1>2, <1>5
  <2>2. ASSUME NEW i \in 1 .. Len(t), NEW j \in 1 .. Len(t), t[i] = t[j]
        PROVE  i = j
    <3>1. /\ i \in 1 .. Len(s) \/ i = Len(s) + 1
          /\ j \in 1 .. Len(s) \/ j = Len(s) + 1
      <4>1. Len(t) = Len(s) + 1 /\ Len(s) \in Nat
        BY <1>2, <1>5
      <4> QED
        BY <4>1
    <3> QED
      BY <1>2, <1>3, <1>5, <2>2, <3>1
  <2> QED
    BY <1>0, <1>2, <1>5, <1>6, <2>1, <2>2 DEF InShape
<1>11. LinkedUp(t)'
  <2>1. ASSUME NEW i \in 1 .. Len(t) - 1
        PROVE  /\ node'[t[i + 1]].data = queued'[qtaken' + i]
               /\ \/ node'[t[i]].next = t[i + 1]
                  \/ /\ node'[t[i]].next = Nil
                     /\ \E q \in Producers : qpos'[q] = "link" /\ old_tail'[q] = t[i] /\ new'[q] = t[i + 1]
    <3>1. CASE i = Len(s)
      <4>1. t[i] = tail /\ t[i + 1] = a0 /\ qtaken + i = Len(queued) + 1
        BY <1>2, <1>5, <3>1
      <4>2. node[tail].next = Nil
        BY <1>1 DEF IsQueue, LinkedUp
      <4> QED
        BY <1>0, <1>a, <1>e, <1>6, <4>1, <4>2
    <3>2. CASE i # Len(s)
      <4>1. /\ i \in 1 .. Len(s) - 1 /\ t[i] = s[i] /\ t[i + 1] = s[i + 1]
            /\ qtaken + i \in 1 .. Len(queued)
        <5>1. /\ Len(t) = Len(s) + 1 /\ Len(s) \in Nat \ {0} /\ Len(queued) \in Nat
              /\ qtaken \in 0 .. Len(queued) /\ Len(s) = Len(queued) - qtaken + 1
          BY <1>2, <1>5
        <5>2. i \in 1 .. Len(s) - 1 /\ i + 1 \in 1 .. Len(s) /\ i \in 1 .. Len(s)
          BY <3>2, <5>1
        <5>3. qtaken + i \in 1 .. Len(queued)
          BY <5>1, <5>2
        <5> QED
          BY <1>5, <5>2, <5>3
      <4>2. /\ node[s[i + 1]].data = queued[qtaken + i]
            /\ \/ node[s[i]].next = s[i + 1]
               \/ /\ node[s[i]].next = Nil
                  /\ \E q \in Producers : qpos[q] = "link" /\ old_tail[q] = s[i] /\ new[q] = s[i + 1]
        BY <1>1, <4>1 DEF IsQueue, LinkedUp
      <4>3. \A q \in Producers : qpos[q] = "link" => qpos'[q] = "link"
        BY <1>a
      <4> QED
        BY <1>0, <1>6, <4>1, <4>2, <4>3
    <3> QED
      BY <3>1, <3>2
  <2>2. ASSUME NEW q \in Producers, qpos'[q] = "link"
        PROVE  \E i \in 1 .. Len(t) - 1 :
                 t[i] = old_tail'[q] /\ t[i + 1] = new'[q] /\ node'[t[i]].next = Nil
    <3>1. CASE q = p
      <4>1. Len(s) \in 1 .. Len(t) - 1 /\ t[Len(s)] = tail /\ t[Len(s) + 1] = a0
        BY <1>2, <1>5
      <4>2. node[tail].next = Nil
        BY <1>1 DEF IsQueue, LinkedUp
      <4> QED
        BY <1>0, <1>e, <3>1, <4>1, <4>2
    <3>2. CASE q # p
      <4>1. PICK i \in 1 .. Len(s) - 1 :
              s[i] = old_tail[q] /\ s[i + 1] = new[q] /\ node[s[i]].next = Nil
        BY <1>1, <1>a, <2>2, <3>2 DEF IsQueue, LinkedUp
      <4>2. i \in 1 .. Len(t) - 1 /\ t[i] = s[i] /\ t[i + 1] = s[i + 1]
        BY <1>2, <1>5
      <4> QED
        BY <1>0, <4>1, <4>2
    <3> QED
      BY <3>1, <3>2
  <2> QED
    BY <1>0, <1>1, <1>b, <1>3, <2>1, <2>2 DEF IsQueue, LinkedUp
<1>12. Apart(t)'
  <2>1. \A q, r \in Swapping' : new'[q] = new'[r] => q = r
    BY <1>0, <1>1, <1>b DEF IsQueue, Apart
  <2>2. \A q \in Following : old_tail[q] \in Addresses /\ old_tail[q] # tail /\ old_tail[q] # a0
    BY <1>1, <1>3 DEF IsQueue, Apart, Followed
  <2>3. \A q, r \in Following' : old_tail'[q] = old_tail'[r] => q = r
    BY <1>0, <1>1, <1>b, <2>2 DEF IsQueue, Apart
  <2>4. \A q \in Following' : old_tail'[q] \in Addresses /\ old_tail'[q] # tail'
    BY <1>0, <1>b, <1>2, <1>3, <2>2 DEF QueueInv, QueueTypes
  <2>5. \A q \in Swapping' :
          new'[q] \notin InList(t)' /\ new'[q] \notin Followed' /\ new'[q] \notin Passed'
    BY <1>0, <1>1, <1>b, <1>2, <1>3, <1>c, <1>d DEF IsQueue, Apart
  <2>6. \A a \in Passed' : a \notin InList(t)'
    BY <1>1, <1>3, <1>c, <1>d DEF IsQueue, Apart
  <2> QED
    BY <2>1, <2>3, <2>4, <2>5, <2>6 DEF Apart
<1>13. Getting(t)'
  <2>1. getter = "swap" => Len(t) > 1 /\ t[2] = s[2]
    BY <1>1, <1>2, <1>5 DEF IsQueue, Getting
  <2> QED
    BY <1>0, <1>1, <2>1 DEF IsQueue, Getting
<1> QED
  BY <1>7, <1>8, <1>9, <1>10, <1>11, <1>12, <1>13 DEF QueueInv, IsQueue

(* Another producer was first: the exchange fails. *)
LEMMA EnqueueRetryStep ==
  ASSUME QueueInv, NEW p \in Producers, UQ!EnqueueSwap(p), tail # old_tail[p]
  PROVE  QueueInv'
<1>1. PICK s : IsQueue(s)
  BY DEF QueueInv
<1>0. /\ qpos[p] = "swap" /\ old_tail' = [old_tail EXCEPT ![p] = tail]
      /\ UNCHANGED <<head, tail, size, node, qpos, new, getter, qold_head, head_next, queued, qtaken>>
  BY DEF UQ!EnqueueSwap
<1>a. \A q \in Producers \ {p} : old_tail'[q] = old_tail[q]
  BY <1>0 DEF QueueInv, QueueTypes
<1>b. /\ Swapping' = Swapping /\ Following' = Following /\ Uncounted' = Uncounted
      /\ p \notin Following
  BY <1>0 DEF Swapping, Following, Uncounted
<1>c. \A q \in Following : q \in Producers /\ old_tail'[q] = old_tail[q]
  BY <1>a, <1>b DEF Following
<1>d. /\ NewNodes' = NewNodes /\ Followed' = Followed /\ Passed' = Passed /\ InList(s)' = InList(s)
  BY <1>0, <1>b, <1>c DEF NewNodes, Followed, Passed, InList
<1>2. QueueTypes' /\ SizeCounts'
  BY <1>0, <1>b DEF QueueInv, QueueTypes, SizeCounts
<1>3. Alive(s)'
  BY <1>0, <1>1, <1>d, AliveKept DEF IsQueue, ProducerHas, ConsumerHas
<1>4. InShape(s)'
  BY <1>0, <1>1 DEF IsQueue, InShape
<1>5. LinkedUp(s)'
  <2>1. \A q \in Producers : qpos[q] = "link" => old_tail'[q] = old_tail[q]
    BY <1>0, <1>a
  <2> QED
    BY <1>0, <1>1, <1>b, <2>1 DEF IsQueue, LinkedUp
<1>6. Apart(s)'
  BY <1>0, <1>1, <1>b, <1>c, <1>d DEF IsQueue, Apart
<1>7. Getting(s)'
  BY <1>0, <1>1 DEF IsQueue, Getting
<1> QED
  BY <1>2, <1>3, <1>4, <1>5, <1>6, <1>7 DEF QueueInv, IsQueue

LEMMA EnqueueNewStep ==
  ASSUME QueueInv, NEW p \in Producers, UQ!EnqueueNew(p)
  PROVE  QueueInv'
<1>1. PICK s : IsQueue(s)
  BY DEF QueueInv
<1>e. PICK a0 \in UQ!Unused : /\ node' = [node EXCEPT ![a0] = UQ!Node(UQ!Elements + 1)]
                              /\ new' = [new EXCEPT ![p] = a0]
  BY DEF UQ!EnqueueNew
<1>0. /\ qpos[p] = "idle" /\ qpos' = [qpos EXCEPT ![p] = "swap"]
      /\ old_tail' = [old_tail EXCEPT ![p] = tail]
      /\ UNCHANGED <<head, tail, size, getter, qold_head, head_next, queued, qtaken>>
  BY DEF UQ!EnqueueNew, UQ!Step
<1>a. /\ qpos' \in [Producers -> Positions] /\ qpos'[p] = "swap" /\ new'[p] = a0
      /\ \A q \in Producers \ {p} :
           qpos'[q] = qpos[q] /\ new'[q] = new[q] /\ old_tail'[q] = old_tail[q]
  BY <1>0, <1>e DEF QueueInv, QueueTypes, Positions
<1>b. /\ Swapping' = Swapping \cup {p} /\ Following' = Following /\ Uncounted' = Uncounted
      /\ p \notin Swapping /\ p \notin Following
      /\ Swapping \subseteq Producers /\ Following \subseteq Producers
      /\ \A q \in Producers : qpos'[q] = "link" <=> q # p /\ qpos[q] = "link"
  BY <1>0, <1>a DEF Swapping, Following, Uncounted
<1>c. /\ NewNodes' = NewNodes \cup {a0} /\ Followed' = Followed /\ Passed' = Passed
      /\ InList(s)' = InList(s)
  <2>1. \A q \in Swapping : new'[q] = new[q]
    BY <1>a, <1>b
  <2>2. \A q \in Following : old_tail'[q] = old_tail[q]
    BY <1>a, <1>b
  <2> QED
    BY <1>0, <1>a, <1>b, <2>1, <2>2 DEF NewNodes, Followed, Passed, InList
<1>2. a0 \in Addresses /\ node[a0] = Nil
  BY <1>e DEF UQ!Unused
<1>3. ~ProducerHas(a0) /\ ~ConsumerHas(s, a0)
  BY <1>1, <1>2 DEF IsQueue, Alive
<1>4. a0 \notin InList(s) /\ a0 \notin NewNodes /\ a0 \notin Followed /\ a0 \notin Passed /\ a0 # tail
  BY <1>3 DEF ProducerHas, ConsumerHas
<1>5. UQ!Elements \in Nat
  <2>1. IsFiniteSet({q \in Producers : qpos[q] = "swap"})
    BY QueueConstants, FS_Subset
  <2>2. Cardinality({q \in Producers : qpos[q] = "swap"}) \in Nat
    BY <2>1, FS_CardinalityType
  <2>3. Len(queued) \in Nat
    BY DEF QueueInv, QueueTypes
  <2>4. UQ!Elements = Len(queued) + Cardinality({q \in Producers : qpos[q] = "swap"})
    BY QueueCardinality, Zenon DEF UQ!Elements
  <2> QED
    BY <2>2, <2>3, <2>4
<1>6. /\ node'[a0] \in NodeType /\ node'[a0].ref_count = 2 /\ node'[a0].next = Nil /\ node'[a0] # Nil
      /\ \A a \in Addresses \ {a0} : node'[a] = node[a]
      /\ node' \in [Addresses -> NodeType \cup {Nil}]
  <2>1. UQ!Node(UQ!Elements + 1) \in NodeType
    BY <1>5 DEF UQ!Node, NodeType
  <2>2. node'[a0] = UQ!Node(UQ!Elements + 1)
    BY <1>e, <1>2 DEF QueueInv, QueueTypes
  <2> QED
    BY <1>e, <1>2, <2>1, <2>2, QueueConstants DEF QueueInv, QueueTypes, UQ!Node
<1>7. QueueTypes' /\ SizeCounts'
  BY <1>0, <1>a, <1>b, <1>e, <1>2, <1>6 DEF QueueInv, QueueTypes, SizeCounts
<1>8. Alive(s)'
  <2>1. ASSUME NEW a \in Addresses
        PROVE  /\ node'[a] # Nil <=> ProducerHas(a)' \/ ConsumerHas(s, a)'
               /\ node'[a] # Nil => node'[a].ref_count =
                    (IF ProducerHas(a)' THEN 1 ELSE 0) + (IF ConsumerHas(s, a)' THEN 1 ELSE 0)
    <3>1. CASE a = a0
      <4>1. ProducerHas(a)' /\ ConsumerHas(s, a)'
        BY <1>c, <3>1 DEF ProducerHas, ConsumerHas
      <4> QED
        BY <1>6, <3>1, <4>1
    <3>2. CASE a # a0
      <4>1. (ProducerHas(a)' <=> ProducerHas(a)) /\ (ConsumerHas(s, a)' <=> ConsumerHas(s, a))
        BY <1>0, <1>c, <3>2 DEF ProducerHas, ConsumerHas
      <4> QED
        BY <1>1, <1>6, <3>2, <4>1 DEF IsQueue, Alive
    <3> QED
      BY <3>1, <3>2
  <2> QED
    BY <2>1 DEF Alive
<1>9. InShape(s)'
  BY <1>0, <1>1 DEF IsQueue, InShape
<1>f. /\ Len(s) \in Nat \ {0} /\ InList(s) \subseteq Addresses /\ tail \in InList(s) /\ head \in InList(s)
      /\ \A i \in 1 .. Len(s) : s[i] \in InList(s)
      /\ \A a \in InList(s) : node'[a] = node[a]
  <2>1. Len(s) \in Nat \ {0} /\ InList(s) \subseteq Addresses /\ tail \in InList(s) /\ head \in InList(s)
    BY <1>1, QueueFacts DEF QueueInv
  <2> QED
    BY <1>4, <1>6, <2>1 DEF InList
<1>10. LinkedUp(s)'
  <2>1. ASSUME NEW i \in 1 .. Len(s) - 1
        PROVE  /\ node'[s[i + 1]].data = queued'[qtaken' + i]
               /\ \/ node'[s[i]].next = s[i + 1]
                  \/ /\ node'[s[i]].next = Nil
                     /\ \E q \in Producers : qpos'[q] = "link" /\ old_tail'[q] = s[i] /\ new'[q] = s[i + 1]
    <3>1. node'[s[i + 1]] = node[s[i + 1]] /\ node'[s[i]] = node[s[i]]
      <4>1. i \in 1 .. Len(s) /\ i + 1 \in 1 .. Len(s)
        BY <1>f
      <4> QED
        BY <1>f, <4>1
    <3>2. /\ node[s[i + 1]].data = queued[qtaken + i]
          /\ \/ node[s[i]].next = s[i + 1]
             \/ /\ node[s[i]].next = Nil
                /\ \E q \in Producers : qpos[q] = "link" /\ old_tail[q] = s[i] /\ new[q] = s[i + 1]
      BY <1>1 DEF IsQueue, LinkedUp
    <3>3. \A q \in Producers : qpos[q] = "link" =>
            qpos'[q] = "link" /\ old_tail'[q] = old_tail[q] /\ new'[q] = new[q]
      BY <1>0, <1>a
    <3> QED
      BY <1>0, <3>1, <3>2, <3>3
  <2>2. ASSUME NEW q \in Producers, qpos'[q] = "link"
        PROVE  \E i \in 1 .. Len(s) - 1 :
                 s[i] = old_tail'[q] /\ s[i + 1] = new'[q] /\ node'[s[i]].next = Nil
    <3>1. q # p /\ qpos[q] = "link" /\ old_tail'[q] = old_tail[q] /\ new'[q] = new[q]
      BY <1>a, <1>b, <2>2
    <3>2. PICK i \in 1 .. Len(s) - 1 :
            s[i] = old_tail[q] /\ s[i + 1] = new[q] /\ node[s[i]].next = Nil
      BY <1>1, <3>1 DEF IsQueue, LinkedUp
    <3>3. i \in 1 .. Len(s)
      BY <1>f
    <3> QED
      BY <1>f, <3>1, <3>2, <3>3
  <2>3. node'[tail'].next = Nil
    BY <1>0, <1>1, <1>f DEF IsQueue, LinkedUp
  <2>4. \A q \in Swapping' : new'[q] \in Addresses /\ node'[new'[q]].next = Nil
    <3>1. \A q \in Swapping : new'[q] = new[q] /\ new[q] # a0
      BY <1>a, <1>b, <1>4 DEF NewNodes
    <3> QED
      BY <1>1, <1>a, <1>b, <1>2, <1>6, <3>1 DEF IsQueue, LinkedUp
  <2> QED
    BY <2>1, <2>2, <2>3, <2>4 DEF LinkedUp
<1>11. Apart(s)'
  <2>1. \A q \in Swapping : new'[q] = new[q] /\ new[q] # a0
    BY <1>a, <1>b, <1>4 DEF NewNodes
  <2>2. \A q \in Following : old_tail'[q] = old_tail[q]
    BY <1>a, <1>b
  <2>3. \A q, r \in Swapping' : new'[q] = new'[r] => q = r
    BY <1>1, <1>a, <1>b, <2>1 DEF IsQueue, Apart
  <2>4. \A q \in Swapping' :
          new'[q] \notin InList(s)' /\ new'[q] \notin Followed' /\ new'[q] \notin Passed'
    BY <1>1, <1>a, <1>b, <1>c, <1>4, <2>1 DEF IsQueue, Apart
  <2> QED
    BY <1>0, <1>1, <1>b, <1>c, <2>2, <2>3, <2>4 DEF IsQueue, Apart
<1>12. Getting(s)'
  BY <1>0, <1>1, <1>f DEF IsQueue, Getting
<1> QED
  BY <1>7, <1>8, <1>9, <1>10, <1>11, <1>12 DEF QueueInv, IsQueue

-----------------------------------------------------------------------------
(* Nodes are chained one way. *)
LEMMA ListUnique ==
  ASSUME NEW m \in Nat \ {0}, NEW s \in [1 .. m -> Addresses],
         NEW n \in Nat \ {0}, NEW t \in [1 .. n -> Addresses], s[1] = t[1],
         \A i \in 1 .. m : node[s[i]].next = IF i = m THEN Nil ELSE s[i + 1],
         \A i \in 1 .. n : node[t[i]].next = IF i = n THEN Nil ELSE t[i + 1]
  PROVE  s = t /\ m = n
<1> DEFINE S == {k \in Nat : k + 1 <= m => k + 1 <= n /\ s[k + 1] = t[k + 1]}
<1>1. S = Nat
  <2>1. 0 \in S
    OBVIOUS
  <2>2. ASSUME NEW k \in S
        PROVE  k + 1 \in S
    <3> SUFFICES ASSUME (k + 1) + 1 <= m
                 PROVE  (k + 1) + 1 <= n /\ s[(k + 1) + 1] = t[(k + 1) + 1]
      OBVIOUS
    <3>1. k \in Nat /\ k + 1 \in 1 .. m /\ k + 1 # m /\ (k + 1) + 1 \in 1 .. m
      OBVIOUS
    <3>2. k + 1 <= n /\ s[k + 1] = t[k + 1]
      BY <3>1
    <3>3. node[s[k + 1]].next = s[(k + 1) + 1] /\ s[(k + 1) + 1] # Nil
      BY <3>1, QueueConstants
    <3>4. k + 1 \in 1 .. n
      BY <3>1, <3>2
    <3>5. k + 1 # n /\ node[t[k + 1]].next = t[(k + 1) + 1]
      BY <3>2, <3>3, <3>4
    <3> QED
      BY <3>1, <3>2, <3>3, <3>4, <3>5
  <2> HIDE DEF S
  <2>3. S \in SUBSET Nat
    BY DEF S
  <2> QED
    BY <2>1, <2>2, <2>3, NatInduct
<1>2. ASSUME NEW i \in 1 .. m
      PROVE  i <= n /\ s[i] = t[i]
  <2>1. i - 1 \in Nat /\ (i - 1) + 1 = i /\ i <= m
    OBVIOUS
  <2>2. i - 1 \in S
    <3> HIDE DEF S
    <3> QED
      BY <1>1, <2>1
  <2> QED
    BY <2>1, <2>2
<1>3. m = n
  <2>1. m \in 1 .. m /\ m <= n /\ s[m] = t[m]
    BY <1>2
  <2>2. m \in 1 .. n
    BY <2>1
  <2>3. m # n => t[m + 1] \in Addresses
    BY <2>2
  <2> QED
    BY <2>1, <2>2, <2>3, QueueConstants
<1> QED
  BY <1>2, <1>3

(* With no call under way the list along next is the whole queue. *)
LEMMA RestingList ==
  ASSUME QueueTypes, NEW s, IsQueue(s), UQ!AtRest
  PROVE  UQ!List = s /\ UQ!IsList(s)
<1>0. /\ Len(s) \in Nat \ {0} /\ s \in Seq(Addresses) /\ DOMAIN s = 1 .. Len(s)
      /\ \A i \in 1 .. Len(s) : s[i] \in Addresses /\ node[s[i]] \in NodeType
      /\ s[1] = head /\ s[Len(s)] = tail /\ \A i, j \in 1 .. Len(s) : s[i] = s[j] => i = j
  BY QueueFacts DEF IsQueue, InShape
<1>1. UQ!IsList(s)
  <2>1. ASSUME NEW i \in 1 .. Len(s)
        PROVE  node[s[i]] # Nil /\ node[s[i]].next = IF i = Len(s) THEN Nil ELSE s[i + 1]
    <3>1. node[s[i]] # Nil
      BY <1>0, QueueConstants
    <3>2. CASE i = Len(s)
      BY <1>0, <3>1, <3>2 DEF IsQueue, LinkedUp
    <3>3. CASE i # Len(s)
      <4>1. i \in 1 .. Len(s) - 1
        <5>1. Len(s) \in Nat
          BY <1>0
        <5> QED
          BY <3>3, <5>1
      <4>2. \A p \in Producers : qpos[p] # "link"
        BY DEF UQ!AtRest
      <4> QED
        BY <3>1, <3>3, <4>1, <4>2 DEF IsQueue, LinkedUp
    <3> QED
      BY <3>2, <3>3
  <2> QED
    BY <1>0, <2>1 DEF UQ!IsList
<1>2. s \in [1 .. Len(s) -> Addresses]
  BY <1>0
<1>3. s \in UQ!Lists
  <2>1. IsFiniteSet(1 .. Len(s)) /\ Cardinality(1 .. Len(s)) = Len(s)
    BY <1>0, FS_Interval
  <2>2. Cardinality(Addresses) \in Nat
    BY QueueConstants, FS_CardinalityType
  <2>3. ~(Cardinality(Addresses) < Len(s))
    BY <1>0, <1>2, <2>1, QueueConstants, FS_PigeonHole
  <2>4. Len(s) \in 1 .. Cardinality(Addresses)
    BY <1>0, <2>2, <2>3
  <2> QED
    BY <1>2, <2>4, QueueCardinality DEF UQ!Lists
<1>4. UQ!List \in UQ!Lists /\ UQ!IsList(UQ!List)
  BY <1>1, <1>3 DEF UQ!List
<1>5. PICK n \in 1 .. Cardinality(Addresses) : UQ!List \in [1 .. n -> Addresses]
  BY <1>4, QueueCardinality DEF UQ!Lists
<1>6. n \in Nat \ {0} /\ Len(UQ!List) = n /\ DOMAIN UQ!List = 1 .. n
  <2>1. n \in Nat \ {0}
    BY QueueConstants, FS_CardinalityType
  <2> QED
    BY <1>5, <2>1
<1>7. /\ UQ!List[1] = s[1]
      /\ \A i \in 1 .. n : node[UQ!List[i]].next = IF i = n THEN Nil ELSE UQ!List[i + 1]
      /\ \A i \in 1 .. Len(s) : node[s[i]].next = IF i = Len(s) THEN Nil ELSE s[i + 1]
  BY <1>0, <1>1, <1>4, <1>6 DEF UQ!IsList
<1>8. UQ!List = s
  <2>1. Len(s) \in Nat \ {0} /\ s[1] = UQ!List[1]
    BY <1>0, <1>7
  <2> QED
    BY <1>2, <1>5, <1>6, <1>7, <2>1, ListUnique
<1> QED
  BY <1>1, <1>8

(* What is allocated with no call under way. *)
LEMMA RestingNodes ==
  ASSUME QueueTypes, NEW s, IsQueue(s), UQ!AtRest
  PROVE  /\ UQ!Listed = InList(s) /\ Swapping = {} /\ Following = {} /\ Uncounted = {} /\ Passed = {}
         /\ \A a \in Addresses : node[a] # Nil <=> a \in InList(s)
<1>1. /\ Swapping = {} /\ Following = {} /\ Uncounted = {} /\ Passed = {}
  BY DEF UQ!AtRest, Swapping, Following, Uncounted, Passed
<1>2. NewNodes = {} /\ Followed = {}
  BY <1>1 DEF NewNodes, Followed
<1>3. DOMAIN s = 1 .. Len(s) /\ tail \in InList(s)
  BY QueueFacts
<1>4. UQ!Listed = InList(s)
  BY <1>3, RestingList DEF UQ!Listed, InList
<1>5. \A a \in Addresses : node[a] # Nil <=> a \in InList(s)
  BY <1>1, <1>2, <1>3 DEF IsQueue, Alive, ProducerHas, ConsumerHas
<1> QED
  BY <1>1, <1>4, <1>5

LEMMA EmptyCardinality == Cardinality({}) = 0
  BY FS_EmptySet

(* A queue of the sentinel alone. *)
Fresh(a) ==
  /\ head = a /\ tail = a /\ Len(queued) = qtaken /\ queued \in Seq(Nat)
  /\ node = [b \in Addresses |-> IF b = a THEN UQ!Node(0) ELSE Nil]
  /\ Swapping = {} /\ Following = {} /\ getter = "idle"

LEMMA FreshQueue ==
  ASSUME NEW a \in Addresses
  PROVE  Fresh(a) => IsQueue(<<a>>) /\ node \in [Addresses -> NodeType \cup {Nil}]
<1> SUFFICES ASSUME Fresh(a)
             PROVE  IsQueue(<<a>>) /\ node \in [Addresses -> NodeType \cup {Nil}]
  OBVIOUS
<1> USE DEF Fresh
<1> DEFINE s == <<a>>
<1>1. s \in Seq(Addresses) /\ Len(s) = 1 /\ s[1] = a
  OBVIOUS
<1> HIDE DEF s
<1>2. InList(s) = {a} /\ Passed = {} /\ NewNodes = {} /\ Followed = {}
  BY <1>1 DEF InList, Passed, NewNodes, Followed
<1>3. UQ!Node(0) \in NodeType /\ UQ!Node(0).ref_count = 2 /\ UQ!Node(0).next = Nil
  BY DEF UQ!Node, NodeType
<1>4. \A b \in Addresses : (ProducerHas(b) <=> b = a) /\ (ConsumerHas(s, b) <=> b = a)
  BY <1>2 DEF ProducerHas, ConsumerHas
<1>5. Alive(s)
  BY <1>3, <1>4, QueueConstants DEF Alive
<1>6. InShape(s)
  BY <1>1 DEF InShape
<1>7. Apart(s) /\ Getting(s)
  BY <1>2 DEF Apart, Getting
<1>8. \A p \in Producers : qpos[p] # "link"
  BY DEF Following
<1>9. LinkedUp(s)
  BY <1>1, <1>3, <1>8 DEF LinkedUp
<1> QED
  BY <1>3, <1>5, <1>6, <1>7, <1>9 DEF IsQueue, s

LEMMA FreshQueueNext ==
  ASSUME NEW a \in Addresses
  PROVE  Fresh(a)' => IsQueue(<<a>>)' /\ (node \in [Addresses -> NodeType \cup {Nil}])'
  BY FreshQueue, PTL

LEMMA ClearStep ==
  ASSUME QueueInv, UQ!Clear
  PROVE  QueueInv'
<1>1. PICK s : IsQueue(s)
  BY DEF QueueInv
<1>2. PICK a \in UQ!Unused \cup UQ!Listed :
        /\ head' = a /\ tail' = a
        /\ node' = [b \in Addresses |-> IF b = a THEN UQ!Node(0)
                                        ELSE IF b \in UQ!Listed THEN Nil ELSE node[b]]
  BY DEF UQ!Clear
<1>3. /\ UQ!AtRest /\ size' = 0 /\ qtaken' = Len(queued)
      /\ UNCHANGED <<qpos, new, old_tail, getter, qold_head, head_next, queued>>
  BY DEF UQ!Clear
<1>4. /\ UQ!Listed = InList(s) /\ Swapping = {} /\ Following = {} /\ Uncounted = {}
      /\ \A b \in Addresses : node[b] # Nil <=> b \in InList(s)
  BY <1>1, <1>3, RestingNodes DEF QueueInv
<1>5. a \in Addresses
  BY <1>1, <1>4, QueueFacts DEF UQ!Unused, QueueInv
<1>6. \A b \in Addresses : b \notin UQ!Listed => node[b] = Nil
  BY <1>4
<1>7. node' = [b \in Addresses |-> IF b = a THEN UQ!Node(0) ELSE Nil]
  BY <1>2, <1>6
<1>8. Swapping' = {} /\ Following' = {} /\ Uncounted' = {} /\ getter' = "idle"
  BY <1>3, <1>4, ProducersKept DEF UQ!AtRest
<1>9. queued' \in Seq(Nat) /\ Len(queued') = qtaken' /\ Len(queued) \in Nat
  BY <1>3 DEF QueueInv, QueueTypes
<1>10. IsQueue(<<a>>)' /\ node' \in [Addresses -> NodeType \cup {Nil}]
  BY <1>2, <1>5, <1>7, <1>8, <1>9, FreshQueueNext DEF Fresh
<1>11. QueueTypes'
  BY <1>2, <1>3, <1>5, <1>9, <1>10 DEF QueueInv, QueueTypes
<1>12. SizeCounts'
  BY <1>3, <1>8, <1>9, EmptyCardinality DEF SizeCounts
<1> QED
  BY <1>10, <1>11, <1>12 DEF QueueInv

LEMMA QueueStarts ==
  ASSUME UQ!QueueInit
  PROVE  QueueInv
<1>1. /\ head \in Addresses /\ tail = head /\ size = 0 /\ qtaken = 0 /\ queued = <<>>
      /\ node = [a \in Addresses |-> IF a = head THEN UQ!Node(0) ELSE Nil]
      /\ qpos = [p \in Producers |-> "idle"] /\ new = [p \in Producers |-> Nil]
      /\ old_tail = [p \in Producers |-> Nil]
      /\ getter = "idle" /\ qold_head = Nil /\ head_next = Nil
  BY DEF UQ!QueueInit
<1>2. Swapping = {} /\ Following = {} /\ Uncounted = {}
  BY <1>1 DEF Swapping, Following, Uncounted
<1>3. IsQueue(<<head>>) /\ node \in [Addresses -> NodeType \cup {Nil}]
  BY <1>1, <1>2, FreshQueue DEF Fresh
<1>4. QueueTypes
  BY <1>1, <1>3 DEF QueueTypes, Positions
<1>5. SizeCounts
  BY <1>1, <1>2, EmptyCardinality DEF SizeCounts
<1> QED
  BY <1>3, <1>4, <1>5 DEF QueueInv

LEMMA QueueStep ==
  ASSUME QueueInv, [UQ!QueueNext]_(UQ!queueVars)
  PROVE  QueueInv'
<1>1. CASE UQ!QueueNext
  <2>1. ASSUME NEW p \in Producers, UQ!EnqueueSwap(p)
        PROVE  QueueInv'
    BY <2>1, EnqueueSwapStep, EnqueueRetryStep
  <2> QED
    BY <1>1, <2>1, EnqueueNewStep, EnqueueLinkStep, EnqueueReleaseStep, EnqueueCountStep,
       DequeueLoadStep, DequeueNextStep, DequeueSwapStep, DequeueCountStep, DequeueReleaseStep,
       ClearStep DEF UQ!QueueNext
<1>2. CASE UNCHANGED UQ!queueVars
  <2>1. UNCHANGED <<head, tail, size, node, qpos, new, old_tail, getter, qold_head, head_next,
                    queued, qtaken>>
    BY <1>2 DEF UQ!queueVars
  <2>2. QueueTypes' /\ SizeCounts'
    BY <2>1, ProducersKept DEF QueueInv, QueueTypes, SizeCounts
  <2>3. PICK s : IsQueue(s)
    BY DEF QueueInv
  <2>4. Passed' = Passed /\ InList(s)' = InList(s)
    BY <2>1 DEF Passed, InList
  <2>5. Alive(s)'
    BY <2>1, <2>3, <2>4, AliveKept, ProducersKept DEF IsQueue, ProducerHas, ConsumerHas
  <2>6. InShape(s)' /\ Getting(s)'
    BY <2>1, <2>3 DEF IsQueue, InShape, Getting
  <2>7. LinkedUp(s)'
    BY <2>1, <2>3, ProducersKept DEF IsQueue, LinkedUp
  <2>8. Apart(s)'
    BY <2>1, <2>3, <2>4, ProducersKept DEF IsQueue, Apart
  <2> QED
    BY <2>2, <2>5, <2>6, <2>7, <2>8 DEF QueueInv, IsQueue
<1> QED
  BY <1>1, <1>2

(* The inductive invariant gives what the run checks. *)
LEMMA QueueInvSuffices ==
  ASSUME QueueInv
  PROVE  QueueSound
<1>1. PICK s : IsQueue(s)
  BY DEF QueueInv
<1>2. /\ Len(s) \in Nat \ {0} /\ s[1] = head /\ s[Len(s)] = tail /\ Len(s) = Len(queued) - qtaken + 1
      /\ \A i \in 1 .. Len(s) : s[i] \in Addresses /\ node[s[i]] \in NodeType /\ s[i] \in InList(s)
      /\ Len(queued) \in Nat /\ qtaken \in Nat /\ queued \in Seq(Nat)
      /\ node[head] \in NodeType /\ node[tail] \in NodeType
  <2>1. /\ Len(s) \in Nat \ {0} /\ Len(queued) \in Nat /\ qtaken \in Nat
        /\ \A i \in 1 .. Len(s) : s[i] \in Addresses /\ node[s[i]] \in NodeType
        /\ node[head] \in NodeType /\ node[tail] \in NodeType
    BY <1>1, QueueFacts DEF QueueInv
  <2> QED
    BY <1>1, <2>1 DEF IsQueue, InShape, InList, QueueInv, QueueTypes
<1>3. \A a \in UQ!Touched : node[a] # Nil
  <2>1. \A p \in Producers : qpos[p] \in {"link", "release"} => node[old_tail[p]] # Nil
    <3>1. \A p \in Following : old_tail[p] \in Addresses /\ old_tail[p] \in Followed
      BY <1>1 DEF IsQueue, Apart, Followed
    <3> QED
      BY <1>1, <3>1 DEF Following, IsQueue, Alive, ProducerHas
  <2>2. getter = "next" => node[qold_head] # Nil
    BY <1>1, <1>2, QueueConstants DEF IsQueue, Getting
  <2>3. getter = "release" => node[qold_head] # Nil
    BY <1>1 DEF IsQueue, Getting, Alive, ConsumerHas, Passed
  <2>4. getter = "swap" => node[head_next] # Nil
    <3>1. getter = "swap" => 2 \in 1 .. Len(s) /\ head_next = s[2]
      BY <1>1, <1>2 DEF IsQueue, Getting
    <3> QED
      BY <1>2, <3>1, QueueConstants
  <2>5. getter = "count" => node[head_next] # Nil
    BY <1>1, <1>2, QueueConstants DEF IsQueue, Getting
  <2>6. node[head] # Nil /\ node[tail] # Nil
    BY <1>2, QueueConstants
  <2> QED
    BY <2>1, <2>2, <2>3, <2>4, <2>5, <2>6 DEF UQ!Touched
<1>4. ASSUME UQ!AtRest
      PROVE  /\ Addresses \ UQ!Unused = UQ!Listed
             /\ [i \in 1 .. Len(UQ!List) - 1 |-> node[UQ!List[i + 1]].data]
                  = SubSeq(queued, qtaken + 1, Len(queued))
             /\ size = Len(UQ!List) - 1
  <2>1. UQ!List = s
    BY <1>1, <1>4, RestingList DEF QueueInv
  <2>2. UQ!Listed = InList(s) /\ Uncounted = {} /\ \A a \in Addresses : node[a] # Nil <=> a \in InList(s)
    BY <1>1, <1>4, RestingNodes DEF QueueInv
  <2>3. InList(s) \subseteq Addresses
    BY <1>1, QueueFacts DEF QueueInv
  <2>4. Addresses \ UQ!Unused = UQ!Listed
    BY <2>2, <2>3 DEF UQ!Unused
  <2>5. size = Len(s) - 1
    BY <1>2, <1>4, <2>2, EmptyCardinality DEF QueueInv, SizeCounts, UQ!AtRest
  <2>6. \A i \in 1 .. Len(s) - 1 : node[s[i + 1]].data = queued[qtaken + i]
    BY <1>1 DEF IsQueue, LinkedUp
  <2>7. SubSeq(queued, qtaken + 1, Len(queued)) = [i \in 1 .. Len(s) - 1 |-> queued[qtaken + i]]
    <3>1. SubSeq(queued, qtaken + 1, Len(queued))
            = [i \in 1 .. (Len(queued) - (qtaken + 1) + 1) |-> queued[(qtaken + 1) + i - 1]]
      <4>1. queued \in Seq(Nat) /\ qtaken + 1 \in Int /\ Len(queued) \in Int
        BY <1>2
      <4> QED
        BY <4>1
    <3>2. Len(queued) - (qtaken + 1) + 1 = Len(s) - 1
      BY <1>2
    <3>3. \A i \in 1 .. Len(s) - 1 : (qtaken + 1) + i - 1 = qtaken + i
      BY <1>2
    <3> QED
      BY <3>1, <3>2, <3>3
  <2> QED
    BY <2>1, <2>4, <2>5, <2>6, <2>7
<1>5. getter = "swap" => node[head_next].data = queued[qtaken + 1]
  <2>1. getter = "swap" => 1 \in 1 .. Len(s) - 1 /\ head_next = s[1 + 1]
    BY <1>1, <1>2 DEF IsQueue, Getting
  <2> QED
    BY <1>1, <2>1 DEF IsQueue, LinkedUp
<1>6. ASSUME getter = "next", node[qold_head].next = Nil, qtaken < Len(queued)
      PROVE  \E p \in Producers : qpos[p] = "link" /\ node[new[p]].data = queued[qtaken + 1]
  <2>1. 1 \in 1 .. Len(s) - 1 /\ qold_head = s[1] /\ 1 + 1 \in 1 .. Len(s)
    BY <1>1, <1>2, <1>6 DEF IsQueue, Getting
  <2>2. s[1 + 1] # Nil
    BY <1>2, <2>1, QueueConstants
  <2> QED
    BY <1>1, <1>6, <2>1, <2>2 DEF IsQueue, LinkedUp
<1> QED
  BY <1>3, <1>4, <1>5, <1>6 DEF QueueSound, UQ!NodesOwned, UQ!InOrder

(***************************************************************************)
(* UnboundedQueue, for any number of producers, calls and addresses: no    *)
(* thread touches a deleted node, none is leaked, and elements come out in *)
(* the order in which tail_ was exchanged.                                 *)
(***************************************************************************)
THEOREM QueueIsSound == UQ!QueueSpec => []QueueSound
<1>1. UQ!QueueInit => QueueInv
  BY QueueStarts
<1>2. QueueInv /\ [UQ!QueueNext]_(UQ!queueVars) => QueueInv'
  BY QueueStep
<1>3. QueueInv => QueueSound
  BY QueueInvSuffices
<1> QED
  BY <1>1, <1>2, <1>3, PTL DEF UQ!QueueSpec

-----------------------------------------------------------------------------
(***************************************************************************)
(* The bucket of GlobalData.  Its entries, head_ included, are a set B     *)
(* closed under next, along which keys grow and skip none of B's: that     *)
(* makes B the entries met from head_.  Every other entry is the new_entry *)
(* of one call of Set, and every value is one entry's or the new_value of  *)
(* one call.                                                               *)
(***************************************************************************)
RegistryTypes ==
  /\ entry \in [GD!EntryIds -> EntryType \cup {NoEntry}]
  /\ value \in [GD!ValueIds -> GD!Names \cup {NoEntry, "deleted"}]
  /\ rat \in [Callers -> {"idle", "get", "set", "update", "link"}]
  /\ key \in [Callers -> Nat] /\ arg \in [Callers -> GD!Names \cup {NoEntry}]
  /\ prev \in [Callers -> GD!EntryIds] /\ target \in [Callers -> GD!EntryIds \cup {NoEntry}]
  /\ new_entry \in [Callers -> GD!EntryIds \cup {NoEntry}]
  /\ new_value \in [Callers -> GD!ValueIds \cup {NoEntry}]
  /\ old_val_ptr \in [Callers -> GD!ValueIds \cup {NoEntry}]
  /\ doing \in [Callers -> {"idle", "has", "lookup", "get", "set"}]
  /\ name \in [Callers -> GD!Names \cup {NoEntry}] /\ id \in [Callers -> Nat]

Inserting == {t \in Callers : rat[t] \in {"set", "update", "link"}}

(* A name is registered, and not null. *)
Named ==
  \A t \in Callers :
    /\ doing[t] \in {"has", "get"} => name[t] \in GD!Names
    /\ t \in Inserting => arg[t] \in GD!Names

Beyond(x, k) == x = 0 \/ entry[x].key < k

IsBucket(B) ==
  /\ B \subseteq GD!Entries /\ 0 \in B
  /\ \A x \in B : entry[x].next \in (B \ {0}) \cup {NoEntry}
  /\ \A x \in B \ {0} : entry[x].next # NoEntry => entry[x].key < entry[entry[x].next].key
  /\ \A x \in B, y \in B \ {0} :
       Beyond(x, entry[y].key) =>
         entry[x].next # NoEntry /\ entry[entry[x].next].key <= entry[y].key
  /\ \A x, y \in B \ {0} : entry[x].key = entry[y].key => x = y

EntriesOwned(B) ==
  /\ \A e \in GD!Entries : e \in B \/ \E t \in Inserting : new_entry[t] = e
  /\ \A t \in Inserting : new_entry[t] # NoEntry =>
       new_entry[t] \in GD!Entries \ B /\ entry[new_entry[t]].key = key[t]
  /\ \A t, u \in Inserting : new_entry[t] # NoEntry /\ new_entry[t] = new_entry[u] => t = u

ValuesOwned ==
  /\ \A v \in GD!Allocated :
       \/ \E e \in GD!Entries \ {0} : entry[e].value_ptr = v
       \/ \E t \in Inserting : new_value[t] = v
  /\ \A e \in GD!Entries \ {0} : entry[e].value_ptr \in GD!Allocated
  /\ \A d, e \in GD!Entries \ {0} : entry[d].value_ptr = entry[e].value_ptr => d = e
  /\ \A t \in Inserting : new_value[t] # NoEntry =>
       /\ new_value[t] \in GD!Allocated
       /\ \A e \in GD!Entries \ {0} : entry[e].value_ptr # new_value[t]
  /\ \A t, u \in Inserting : new_value[t] # NoEntry /\ new_value[t] = new_value[u] => t = u

(* Where the calls are in the list. *)
Finding(B, t) ==
  /\ rat[t] # "idle" =>
       /\ prev[t] \in B /\ Beyond(prev[t], key[t])
       /\ target[t] \in (B \ {0}) \cup {NoEntry}
  /\ rat[t] = "link" =>
       /\ new_value[t] = NoEntry /\ new_entry[t] # NoEntry /\ entry[new_entry[t]].next = target[t]
       /\ target[t] # NoEntry => entry[target[t]].key > key[t]
  /\ rat[t] = "update" =>
       new_value[t] # NoEntry /\ target[t] # NoEntry /\ entry[target[t]].key = key[t]
  /\ t \in Inserting /\ new_value[t] # NoEntry =>
       /\ \E x \in B \ {0} : entry[x].key = key[t]
       /\ target[t] # NoEntry /\ entry[target[t]].key <= key[t]

InBucket(B) ==
  IsBucket(B) /\ EntriesOwned(B) /\ \A t \in Callers : Finding(B, t)

RegistryInv == RegistryTypes /\ Named /\ ValuesOwned /\ \E B : InBucket(B)

-----------------------------------------------------------------------------
LEMMA RegistryFacts ==
  ASSUME RegistryTypes
  PROVE  /\ NoEntry \notin GD!EntryIds \cup GD!ValueIds \cup GD!Names /\ 0 \in GD!EntryIds
         /\ GD!Entries \subseteq GD!EntryIds
         /\ \A e \in GD!EntryIds : e \in GD!Entries <=> entry[e] # NoEntry
         /\ \A e \in GD!EntryIds : e \in GD!Entries <=> entry[e] \in EntryType
         /\ \A e \in GD!Entries : entry[e].key \in Nat
         /\ GD!Allocated \subseteq GD!ValueIds
         /\ \A v \in GD!ValueIds : v \in GD!Allocated <=> value[v] \in GD!Names
<1>1. NoEntry \notin GD!EntryIds \cup GD!ValueIds \cup GD!Names /\ 0 \in GD!EntryIds
  BY RegistryConstants DEF GD!EntryIds, GD!ValueIds, GD!Names
<1>2. \A e \in GD!EntryIds : e \in GD!Entries <=> entry[e] # NoEntry
  BY DEF GD!Entries
<1>3. \A e \in GD!EntryIds : entry[e] # NoEntry <=> entry[e] \in EntryType
  BY RegistryConstants DEF RegistryTypes
<1>4. GD!Entries \subseteq GD!EntryIds /\ GD!Allocated \subseteq GD!ValueIds
  BY DEF GD!Entries, GD!Allocated
<1>5. \A v \in GD!ValueIds : v \in GD!Allocated <=> value[v] \in GD!Names
  BY RegistryConstants DEF RegistryTypes, GD!Allocated, GD!Names
<1>6. \A e \in GD!Entries : entry[e].key \in Nat
  BY <1>2, <1>3, <1>4 DEF EntryType
<1> QED
  BY <1>1, <1>2, <1>3, <1>4, <1>5, <1>6

(* The list's entries keep what orders them. *)
LEMMA BucketKept ==
  ASSUME NEW B, IsBucket(B), B \subseteq GD!Entries',
         \A x \in B : entry'[x].key = entry[x].key /\ entry'[x].next = entry[x].next
  PROVE  IsBucket(B)'
  BY DEF IsBucket, Beyond

(* A call is where it was, in a list that may have grown. *)
LEMMA FindingKept ==
  ASSUME NEW B, NEW C, NEW t \in Callers, Finding(B, t), B \subseteq C,
         \A x \in B : entry'[x].key = entry[x].key,
         rat'[t] = rat[t], key'[t] = key[t], prev'[t] = prev[t], target'[t] = target[t],
         new_entry'[t] = new_entry[t], new_value'[t] = new_value[t],
         rat[t] = "link" => entry'[new_entry[t]].next = entry[new_entry[t]].next
  PROVE  Finding(C, t)'
<1>1. t \in Inserting' <=> t \in Inserting
  BY DEF Inserting
<1>2. rat[t] # "idle" => /\ prev'[t] \in C /\ Beyond(prev[t], key[t])'
                         /\ target'[t] \in (C \ {0}) \cup {NoEntry}
                         /\ target[t] \in B \cup {NoEntry}
  BY DEF Finding, Beyond
<1>3. rat[t] # "idle" /\ target[t] # NoEntry => entry'[target[t]].key = entry[target[t]].key
  BY <1>2
<1>4. t \in Inserting => rat[t] # "idle"
  BY DEF Inserting
<1>5. (\E x \in B \ {0} : entry[x].key = key[t]) => \E x \in C \ {0} : entry'[x].key = key'[t]
  OBVIOUS
<1> QED
  BY <1>1, <1>2, <1>3, <1>4, <1>5 DEF Finding

(* Find starts at the head. *)
LEMMA FindingStarts ==
  ASSUME RegistryTypes, NEW B, IsBucket(B), NEW t \in Callers, entry' = entry,
         prev'[t] = 0, target'[t] = entry[0].next, rat'[t] \in {"get", "set"}, key'[t] \in Nat,
         t \in Inserting' /\ new_value'[t] # NoEntry => \E x \in B \ {0} : entry[x].key = key'[t]
  PROVE  Finding(B, t)'
<1>1. prev'[t] \in B /\ Beyond(prev[t], key[t])' /\ target'[t] \in (B \ {0}) \cup {NoEntry}
  BY DEF IsBucket, Beyond
<1>2. ASSUME NEW x \in B \ {0}
      PROVE  entry[0].next # NoEntry /\ entry[entry[0].next].key <= entry[x].key
  BY DEF IsBucket, Beyond
<1> QED
  BY <1>1, <1>2 DEF Finding, Beyond

LEMMA FindStep ==
  ASSUME RegistryInv, NEW t \in Callers, GD!Find(t), UNCHANGED <<doing, name, id, calls>>
  PROVE  RegistryInv'
<1>1. PICK B : InBucket(B)
  BY DEF RegistryInv
<1>2. /\ rat[t] \in {"get", "set"} /\ target[t] # NoEntry /\ entry[target[t]].key < key[t]
      /\ prev' = [prev EXCEPT ![t] = target[t]]
      /\ target' = [target EXCEPT ![t] = entry[target[t]].next]
      /\ UNCHANGED <<entry, value, rat, new_entry, new_value, old_val_ptr, key, arg>>
  BY DEF GD!Find, GD!local
<1>3. /\ target[t] \in B \ {0} /\ B \subseteq GD!Entries
      /\ entry[target[t]].next \in (B \ {0}) \cup {NoEntry}
  BY <1>1, <1>2 DEF InBucket, Finding, IsBucket
<1>4. Inserting' = Inserting /\ GD!Entries' = GD!Entries /\ GD!Allocated' = GD!Allocated
  BY <1>2 DEF Inserting, GD!Entries, GD!Allocated
<1>5. RegistryTypes'
  BY <1>2, <1>3, RegistryFacts DEF RegistryInv, RegistryTypes
<1>6. Named' /\ ValuesOwned'
  BY <1>2, <1>4 DEF RegistryInv, Named, ValuesOwned
<1>7. IsBucket(B)' /\ EntriesOwned(B)'
  BY <1>1, <1>2, <1>3, <1>4, BucketKept DEF InBucket, EntriesOwned
<1>8. ASSUME NEW u \in Callers \ {t}
      PROVE  Finding(B, u)'
  <2>1. prev'[u] = prev[u] /\ target'[u] = target[u]
    BY <1>2 DEF RegistryInv, RegistryTypes
  <2> QED
    BY <1>1, <1>2, <2>1, FindingKept DEF InBucket
<1>9. Finding(B, t)'
  <2>1. prev'[t] = target[t] /\ target'[t] = entry[target[t]].next
    BY <1>2 DEF RegistryInv, RegistryTypes
  <2>2. ASSUME new_value[t] # NoEntry, t \in Inserting
        PROVE  /\ \E x \in B \ {0} : entry[x].key = key[t]
               /\ target'[t] # NoEntry /\ entry[target'[t]].key <= key[t]
    <3>1. PICK x \in B \ {0} : entry[x].key = key[t]
      BY <1>1, <2>2 DEF InBucket, Finding
    <3>2. Beyond(target[t], entry[x].key)
      BY <1>2, <3>1 DEF Beyond
    <3> QED
      BY <1>1, <1>3, <2>1, <3>1, <3>2 DEF InBucket, IsBucket
  <2> QED
    BY <1>2, <1>3, <1>4, <2>1, <2>2 DEF Finding, Beyond
<1> QED
  BY <1>5, <1>6, <1>7, <1>8, <1>9 DEF RegistryInv, InBucket

LEMMA GetStep ==
  ASSUME RegistryInv, NEW t \in Callers, GD!Get(t), UNCHANGED <<doing, name, id, calls>>
  PROVE  RegistryInv'
<1>1. PICK B : InBucket(B)
  BY DEF RegistryInv
<1>2. /\ rat[t] = "get" /\ rat' = [rat EXCEPT ![t] = "idle"]
      /\ UNCHANGED <<entry, value, key, arg, prev, target, new_entry, new_value, old_val_ptr>>
  BY DEF GD!Get
<1>3. rat'[t] = "idle" /\ \A u \in Callers \ {t} : rat'[u] = rat[u]
  BY <1>2 DEF RegistryInv, RegistryTypes
<1>4. /\ Inserting' = Inserting /\ GD!Entries' = GD!Entries /\ GD!Allocated' = GD!Allocated
      /\ t \notin Inserting'
  BY <1>2, <1>3 DEF Inserting, GD!Entries, GD!Allocated
<1>5. RegistryTypes'
  BY <1>2 DEF RegistryInv, RegistryTypes
<1>6. Named' /\ ValuesOwned'
  BY <1>2, <1>4 DEF RegistryInv, Named, ValuesOwned
<1>7. IsBucket(B)' /\ EntriesOwned(B)'
  BY <1>1, <1>2, <1>4, BucketKept DEF InBucket, IsBucket, EntriesOwned
<1>8. ASSUME NEW u \in Callers \ {t}
      PROVE  Finding(B, u)'
  BY <1>1, <1>2, <1>3, FindingKept DEF InBucket
<1>9. Finding(B, t)'
  BY <1>3, <1>4 DEF Finding
<1> QED
  BY <1>5, <1>6, <1>7, <1>8, <1>9 DEF RegistryInv, InBucket

(* The exchange failed: the call begins again, with what it has made. *)
LEMMA AgainStep ==
  ASSUME RegistryInv, NEW t \in Callers, rat[t] \in {"update", "link"},
         rat' = [rat EXCEPT ![t] = "set"], GD!StartFind(t),
         UNCHANGED <<entry, value, key, arg, new_entry, new_value, old_val_ptr,
                     doing, name, id, calls>>
  PROVE  RegistryInv'
<1>1. PICK B : InBucket(B)
  BY DEF RegistryInv
<1>2. /\ prev' = [prev EXCEPT ![t] = 0] /\ target' = [target EXCEPT ![t] = entry[0].next]
  BY DEF GD!StartFind
<1>3. /\ rat'[t] = "set" /\ prev'[t] = 0 /\ target'[t] = entry[0].next
      /\ \A u \in Callers \ {t} :
           rat'[u] = rat[u] /\ prev'[u] = prev[u] /\ target'[u] = target[u]
  BY <1>2 DEF RegistryInv, RegistryTypes
<1>4. /\ Inserting' = Inserting /\ GD!Entries' = GD!Entries /\ GD!Allocated' = GD!Allocated
      /\ t \in Inserting
  BY <1>3 DEF Inserting, GD!Entries, GD!Allocated
<1>5. RegistryTypes'
  <2>1. 0 \in GD!EntryIds /\ entry[0].next \in GD!EntryIds \cup {NoEntry}
    BY <1>1, RegistryFacts DEF RegistryInv, InBucket, IsBucket
  <2> QED
    BY <1>2, <2>1 DEF RegistryInv, RegistryTypes
<1>6. Named' /\ ValuesOwned'
  BY <1>4 DEF RegistryInv, Named, ValuesOwned
<1>7. IsBucket(B)' /\ EntriesOwned(B)'
  BY <1>1, <1>4, BucketKept DEF InBucket, IsBucket, EntriesOwned
<1>8. ASSUME NEW u \in Callers \ {t}
      PROVE  Finding(B, u)'
  BY <1>1, <1>3, FindingKept DEF InBucket
<1>9. Finding(B, t)'
  <2>1. new_value[t] # NoEntry => \E x \in B \ {0} : entry[x].key = key[t]
    BY <1>1, <1>4 DEF InBucket, Finding
  <2>2. key[t] \in Nat
    BY DEF RegistryInv, RegistryTypes
  <2> QED
    BY <1>1, <1>3, <2>1, <2>2, FindingStarts DEF RegistryInv, InBucket
<1> QED
  BY <1>5, <1>6, <1>7, <1>8, <1>9 DEF RegistryInv, InBucket

LEMMA InsertFoundStep ==
  ASSUME RegistryInv, NEW t \in Callers, GD!InsertFound(t), UNCHANGED <<doing, name, id, calls>>
  PROVE  RegistryInv'
<1>1. PICK B : InBucket(B)
  BY DEF RegistryInv
<1>2. /\ rat[t] = "set" /\ rat' = [rat EXCEPT ![t] = "update"]
      /\ target[t] # NoEntry /\ entry[target[t]].key = key[t]
      /\ old_val_ptr' = [old_val_ptr EXCEPT ![t] = entry[target[t]].value_ptr]
      /\ UNCHANGED <<entry, prev, target, new_entry, key, arg>>
  BY DEF GD!InsertFound, GD!FindTrue, GD!local
<1>3. rat'[t] = "update" /\ \A u \in Callers \ {t} : rat'[u] = rat[u]
  BY <1>2 DEF RegistryInv, RegistryTypes
<1>4. Inserting' = Inserting /\ GD!Entries' = GD!Entries /\ t \in Inserting
  BY <1>2, <1>3 DEF Inserting, GD!Entries
<1>5. target[t] \in B \ {0} /\ target[t] \in GD!Entries \ {0}
  BY <1>1, <1>2 DEF InBucket, Finding, IsBucket
<1>6. entry[target[t]].value_ptr \in GD!ValueIds
  BY <1>5, RegistryFacts DEF RegistryInv, ValuesOwned
<1>7. /\ new_value' \in [Callers -> GD!ValueIds \cup {NoEntry}]
      /\ value' \in [GD!ValueIds -> GD!Names \cup {NoEntry, "deleted"}]
      /\ new_value'[t] # NoEntry /\ \A u \in Callers \ {t} : new_value'[u] = new_value[u]
      /\ ValuesOwned'
  <2>1. CASE new_value[t] # NoEntry
    <3>1. UNCHANGED <<value, new_value>>
      BY <2>1 DEF GD!InsertFound
    <3>2. GD!Allocated' = GD!Allocated
      BY <3>1 DEF GD!Allocated
    <3> QED
      BY <1>2, <1>4, <2>1, <3>1, <3>2 DEF RegistryInv, RegistryTypes, ValuesOwned
  <2>2. CASE new_value[t] = NoEntry
    <3>1. PICK v \in GD!FreshValues : /\ value' = [value EXCEPT ![v] = arg[t]]
                                      /\ new_value' = [new_value EXCEPT ![t] = v]
      BY <2>2 DEF GD!InsertFound, GD!FreshValue
    <3>2. v \in GD!ValueIds /\ value[v] = NoEntry /\ arg[t] \in GD!Names
      BY <1>4, <3>1 DEF GD!FreshValues, RegistryInv, Named
    <3>3. /\ new_value' \in [Callers -> GD!ValueIds \cup {NoEntry}]
          /\ value' \in [GD!ValueIds -> GD!Names \cup {NoEntry, "deleted"}]
          /\ new_value'[t] = v /\ \A u \in Callers \ {t} : new_value'[u] = new_value[u]
          /\ value'[v] = arg[t] /\ \A w \in GD!ValueIds \ {v} : value'[w] = value[w]
      BY <3>1, <3>2 DEF RegistryInv, RegistryTypes
    <3>4. v # NoEntry /\ v \notin GD!Allocated
      BY <3>2, RegistryFacts DEF RegistryInv
    <3>5. GD!Allocated' = GD!Allocated \cup {v}
      BY <3>2, <3>3, RegistryConstants DEF GD!Allocated, GD!Names
    <3>6. ValuesOwned'
      <4>1. \A a \in GD!Allocated' :
              \/ \E e \in GD!Entries' \ {0} : entry'[e].value_ptr = a
              \/ \E u \in Inserting' : new_value'[u] = a
        <5>1. ASSUME NEW a \in GD!Allocated, NEW u \in Inserting, new_value[u] = a
              PROVE  new_value'[u] = a
          BY <2>2, <3>3, <5>1, RegistryFacts DEF RegistryInv, Inserting
        <5> QED
          BY <1>2, <1>4, <3>3, <3>5, <5>1 DEF RegistryInv, ValuesOwned
      <4>2. \A e \in GD!Entries' \ {0} : entry'[e].value_ptr \in GD!Allocated'
        BY <1>2, <1>4, <3>5 DEF RegistryInv, ValuesOwned
      <4>3. \A d, e \in GD!Entries' \ {0} : entry'[d].value_ptr = entry'[e].value_ptr => d = e
        BY <1>2, <1>4 DEF RegistryInv, ValuesOwned
      <4>4. \A u \in Inserting' : new_value'[u] # NoEntry =>
              /\ new_value'[u] \in GD!Allocated'
              /\ \A e \in GD!Entries' \ {0} : entry'[e].value_ptr # new_value'[u]
        BY <1>2, <1>4, <3>3, <3>4, <3>5 DEF RegistryInv, ValuesOwned, Inserting
      <4>5. \A u, w \in Inserting' : new_value'[u] # NoEntry /\ new_value'[u] = new_value'[w] => u = w
        BY <1>4, <3>3, <3>4 DEF RegistryInv, ValuesOwned, Inserting
      <4> QED
        BY <4>1, <4>2, <4>3, <4>4, <4>5 DEF ValuesOwned
    <3> QED
      BY <3>3, <3>4, <3>6
  <2> QED
    BY <2>1, <2>2
<1>8. RegistryTypes'
  BY <1>2, <1>6, <1>7 DEF RegistryInv, RegistryTypes
<1>9. Named'
  BY <1>2, <1>4 DEF RegistryInv, Named
<1>10. IsBucket(B)' /\ EntriesOwned(B)'
  BY <1>1, <1>2, <1>4, BucketKept DEF InBucket, IsBucket, EntriesOwned
<1>11. ASSUME NEW u \in Callers \ {t}
      PROVE  Finding(B, u)'
  BY <1>1, <1>2, <1>3, <1>7, FindingKept DEF InBucket
<1>12. Finding(B, t)'
  <2>1. prev[t] \in B /\ Beyond(prev[t], key[t]) /\ key[t] \in Nat
    BY <1>1, <1>2 DEF InBucket, Finding, RegistryInv, RegistryTypes
  <2> QED
    BY <1>2, <1>3, <1>5, <1>7, <2>1 DEF Finding, Beyond
<1> QED
  BY <1>7, <1>8, <1>9, <1>10, <1>11, <1>12 DEF RegistryInv, InBucket

(* The entry at the target gets the new value; what it replaces and what   *)
(* an earlier round made in vain are deleted.                              *)
LEMMA InsertUpdateStep ==
  ASSUME RegistryInv, NEW t \in Callers, GD!InsertUpdate(t), UNCHANGED <<doing, name, id, calls>>,
         entry[target[t]].value_ptr = old_val_ptr[t]
  PROVE  RegistryInv'
<1>1. PICK B : InBucket(B)
  BY DEF RegistryInv
<1>e. PICK goal, vain, fresh, old : /\ goal = target[t] /\ vain = new_entry[t]
                                    /\ fresh = new_value[t] /\ old = old_val_ptr[t]
  OBVIOUS
<1> DEFINE dead == {old} \cup (IF vain = NoEntry THEN {} ELSE {entry[vain].value_ptr})
<1>2. /\ rat[t] = "update" /\ rat' = [rat EXCEPT ![t] = "idle"]
      /\ entry' = [e \in GD!EntryIds |->
                     IF e = goal THEN [entry[e] EXCEPT !.value_ptr = fresh]
                     ELSE IF e = vain THEN NoEntry ELSE entry[e]]
      /\ value' = [v \in GD!ValueIds |-> IF v \in dead THEN "deleted" ELSE value[v]]
      /\ UNCHANGED <<prev, target, new_entry, new_value, old_val_ptr, key, arg>>
  BY <1>e DEF GD!InsertUpdate, GD!local
<1>3. rat'[t] = "idle" /\ \A u \in Callers \ {t} : rat'[u] = rat[u]
  BY <1>2 DEF RegistryInv, RegistryTypes
<1>4. Inserting' = Inserting \ {t} /\ t \in Inserting /\ Inserting \subseteq Callers
  BY <1>2, <1>3 DEF Inserting
<1>5. /\ goal \in B \ {0} /\ goal \in GD!Entries \ {0} /\ goal \in GD!EntryIds
      /\ fresh # NoEntry /\ fresh \in GD!Allocated /\ fresh \in GD!ValueIds
      /\ entry[goal].value_ptr = old /\ entry[goal] \in EntryType
      /\ \A e \in GD!Entries \ {0} : entry[e].value_ptr # fresh
  <2>1. goal \in B \ {0} /\ B \subseteq GD!Entries /\ fresh # NoEntry
    BY <1>1, <1>2, <1>e DEF InBucket, Finding, IsBucket
  <2>2. fresh \in GD!Allocated /\ \A e \in GD!Entries \ {0} : entry[e].value_ptr # fresh
    BY <1>4, <1>e, <2>1 DEF RegistryInv, ValuesOwned
  <2> QED
    BY <1>e, <2>1, <2>2, RegistryFacts DEF RegistryInv
<1>6. /\ vain # NoEntry => vain \in GD!Entries /\ vain \notin B /\ vain # 0
      /\ vain # goal
  BY <1>1, <1>4, <1>5, <1>e, RegistryFacts DEF InBucket, EntriesOwned, IsBucket, RegistryInv
<1>7. /\ entry'[goal] \in EntryType /\ entry'[goal].key = entry[goal].key
      /\ entry'[goal].next = entry[goal].next /\ entry'[goal].value_ptr = fresh
      /\ \A e \in GD!EntryIds \ {goal, vain} : entry'[e] = entry[e]
      /\ vain # NoEntry => entry'[vain] = NoEntry
  <2>1. entry'[goal] = [entry[goal] EXCEPT !.value_ptr = fresh]
    BY <1>2, <1>5
  <2>2. /\ [entry[goal] EXCEPT !.value_ptr = fresh] \in EntryType
        /\ [entry[goal] EXCEPT !.value_ptr = fresh].key = entry[goal].key
        /\ [entry[goal] EXCEPT !.value_ptr = fresh].next = entry[goal].next
        /\ [entry[goal] EXCEPT !.value_ptr = fresh].value_ptr = fresh
    BY <1>5 DEF EntryType, GD!ValueIds
  <2>3. vain # NoEntry => entry'[vain] = NoEntry
    BY <1>2, <1>6, RegistryFacts DEF RegistryInv
  <2>4. \A e \in GD!EntryIds \ {goal, vain} : entry'[e] = entry[e]
    BY <1>2
  <2> QED
    BY <2>1, <2>2, <2>3, <2>4
<1>8. entry' \in [GD!EntryIds -> EntryType \cup {NoEntry}]
  <2>1. \A e \in GD!EntryIds : entry'[e] \in EntryType \cup {NoEntry}
    BY <1>6, <1>7, RegistryFacts DEF RegistryInv, RegistryTypes
  <2> QED
    BY <1>2, <2>1
<1>9. /\ value' \in [GD!ValueIds -> GD!Names \cup {NoEntry, "deleted"}]
      /\ GD!Allocated' = GD!Allocated \ dead
  <2> HIDE DEF dead
  <2>1. \A v \in GD!ValueIds : value'[v] = IF v \in dead THEN "deleted" ELSE value[v]
    BY <1>2
  <2> QED
    BY <1>2, <2>1 DEF RegistryInv, RegistryTypes, GD!Allocated
<1>10. GD!Entries' = GD!Entries \ {vain}
  <2>1. ASSUME NEW e \in GD!EntryIds
        PROVE  entry'[e] # NoEntry <=> entry[e] # NoEntry /\ e # vain
    <3>1. entry'[goal] # NoEntry /\ entry[goal] # NoEntry
      BY <1>5, <1>7, RegistryConstants
    <3> QED
      BY <1>6, <1>7, <2>1, <3>1, RegistryFacts DEF RegistryInv
  <2> QED
    BY <2>1 DEF GD!Entries
<1>11. RegistryTypes'
  BY <1>2, <1>8, <1>9 DEF RegistryInv, RegistryTypes
<1>12. Named'
  BY <1>2, <1>4 DEF RegistryInv, Named
<1>13. B \subseteq GD!EntryIds /\ \A x \in B : entry'[x].key = entry[x].key /\ entry'[x].next = entry[x].next
  <2>1. B \subseteq GD!EntryIds /\ vain \notin B
    BY <1>1, <1>6, RegistryFacts DEF InBucket, IsBucket, RegistryInv
  <2> QED
    BY <1>7, <2>1
<1>14. IsBucket(B)'
  <2>1. B \subseteq GD!Entries'
    BY <1>1, <1>6, <1>10, RegistryFacts DEF InBucket, IsBucket, RegistryInv
  <2> QED
    BY <1>1, <1>13, <2>1, BucketKept DEF InBucket
<1>15. \A u \in Inserting \ {t} : new_entry[u] # NoEntry =>
         /\ new_entry[u] \in GD!Entries /\ new_entry[u] \notin B /\ new_entry[u] # vain
         /\ entry'[new_entry[u]] = entry[new_entry[u]]
  <2>1. \A u \in Inserting \ {t} : new_entry[u] # NoEntry =>
          new_entry[u] \in GD!Entries /\ new_entry[u] \notin B /\ new_entry[u] # vain
    BY <1>1, <1>4, <1>e DEF InBucket, EntriesOwned
  <2>2. GD!Entries \subseteq GD!EntryIds
    BY RegistryFacts DEF RegistryInv
  <2> QED
    BY <1>5, <1>7, <2>1, <2>2
<1>16. EntriesOwned(B)'
  <2>1. \A e \in GD!Entries' : e \in B \/ \E u \in Inserting' : new_entry'[u] = e
    BY <1>1, <1>2, <1>4, <1>10, <1>e DEF InBucket, EntriesOwned
  <2>2. \A u \in Inserting' : new_entry'[u] # NoEntry =>
          new_entry'[u] \in GD!Entries' \ B /\ entry'[new_entry'[u]].key = key'[u]
    <3>1. new_entry' = new_entry /\ key' = key
      BY <1>2
    <3>2. \A u \in Inserting : new_entry[u] # NoEntry => entry[new_entry[u]].key = key[u]
      BY <1>1 DEF InBucket, EntriesOwned
    <3> QED
      BY <1>4, <1>10, <1>15, <3>1, <3>2
  <2>3. \A u, w \in Inserting' : new_entry'[u] # NoEntry /\ new_entry'[u] = new_entry'[w] => u = w
    BY <1>1, <1>2, <1>4 DEF InBucket, EntriesOwned
  <2> QED
    BY <2>1, <2>2, <2>3 DEF EntriesOwned
<1>17. \A e \in GD!Entries' \ {0} : entry'[e].value_ptr = IF e = goal THEN fresh ELSE entry[e].value_ptr
  BY <1>7, <1>10, RegistryFacts DEF RegistryInv
<1>18. ValuesOwned'
  <2>1. \A e \in GD!Entries' \ {0} : e # goal => entry[e].value_ptr \notin dead
    BY <1>5, <1>6, <1>10 DEF RegistryInv, ValuesOwned
  <2>2. fresh \notin dead
    BY <1>5, <1>6
  <2>3. \A u \in Inserting : new_value[u] # NoEntry => new_value[u] \notin dead
    BY <1>5, <1>6 DEF RegistryInv, ValuesOwned
  <2>4. \A e \in GD!Entries \ {0} : entry[e].value_ptr \notin dead => e \in GD!Entries' /\ e # goal
    BY <1>5, <1>6, <1>10, RegistryFacts DEF RegistryInv
  <2>n. NoEntry \notin GD!Allocated
    BY RegistryFacts DEF RegistryInv
  <2> HIDE DEF dead
  <2>5. ASSUME NEW v \in GD!Allocated'
        PROVE  \/ \E e \in GD!Entries' \ {0} : entry'[e].value_ptr = v
               \/ \E u \in Inserting' : new_value'[u] = v
    <3>1. v \in GD!Allocated /\ v \notin dead
      BY <1>9
    <3>2. CASE \E e \in GD!Entries \ {0} : entry[e].value_ptr = v
      BY <1>17, <2>4, <3>1, <3>2
    <3>3. CASE \E u \in Inserting : new_value[u] = v
      <4>1. goal \in GD!Entries' \ {0} /\ entry'[goal].value_ptr = fresh
        BY <1>5, <1>6, <1>7, <1>10
      <4> QED
        BY <1>2, <1>4, <1>e, <3>3, <4>1
    <3> QED
      BY <3>1, <3>2, <3>3 DEF RegistryInv, ValuesOwned
  <2>6. \A e \in GD!Entries' \ {0} : entry'[e].value_ptr \in GD!Allocated'
    BY <1>5, <1>9, <1>10, <1>17, <2>1, <2>2 DEF RegistryInv, ValuesOwned
  <2>7. \A d, e \in GD!Entries' \ {0} : entry'[d].value_ptr = entry'[e].value_ptr => d = e
    BY <1>5, <1>10, <1>17 DEF RegistryInv, ValuesOwned
  <2>8. \A u \in Inserting' : new_value'[u] # NoEntry =>
          /\ new_value'[u] \in GD!Allocated'
          /\ \A e \in GD!Entries' \ {0} : entry'[e].value_ptr # new_value'[u]
    <3>1. \A u \in Inserting' : u \in Inserting /\ new_value'[u] = new_value[u]
      BY <1>2, <1>4
    <3>2. \A u \in Inserting' : new_value[u] # NoEntry => new_value[u] # fresh
      BY <1>4, <1>5, <1>e DEF RegistryInv, ValuesOwned
    <3> QED
      BY <1>9, <1>10, <1>17, <2>3, <3>1, <3>2 DEF RegistryInv, ValuesOwned
  <2>9. \A u, w \in Inserting' : new_value'[u] # NoEntry /\ new_value'[u] = new_value'[w] => u = w
    BY <1>2, <1>4 DEF RegistryInv, ValuesOwned
  <2> QED
    BY <2>5, <2>6, <2>7, <2>8, <2>9 DEF ValuesOwned
<1>19. ASSUME NEW u \in Callers \ {t}
       PROVE  Finding(B, u)'
  <2>1. rat[u] = "link" => entry'[new_entry[u]].next = entry[new_entry[u]].next
    <3>1. rat[u] = "link" => u \in Inserting \ {t} /\ new_entry[u] # NoEntry
      BY <1>1 DEF Inserting, InBucket, Finding
    <3> QED
      BY <1>15, <3>1
  <2> QED
    BY <1>1, <1>2, <1>3, <1>13, <2>1, FindingKept DEF InBucket
<1>20. Finding(B, t)'
  BY <1>3, <1>4 DEF Finding
<1> QED
  BY <1>11, <1>12, <1>14, <1>16, <1>18, <1>19, <1>20 DEF RegistryInv, InBucket

(* What a call of Set that does not find its key knows. *)
LEMMA MissingFacts ==
  ASSUME RegistryInv, NEW t \in Callers, NEW B, InBucket(B), rat[t] = "set", GD!FindFalse(t)
  PROVE  /\ t \in Inserting /\ new_value[t] = NoEntry /\ key[t] \in Nat
         /\ prev[t] \in B /\ Beyond(prev[t], key[t]) /\ target[t] \in (B \ {0}) \cup {NoEntry}
         /\ target[t] # NoEntry => entry[target[t]].key > key[t]
         /\ B \subseteq GD!Entries
<1>1. /\ t \in Inserting /\ key[t] \in Nat /\ prev[t] \in B /\ Beyond(prev[t], key[t])
      /\ target[t] \in (B \ {0}) \cup {NoEntry} /\ B \subseteq GD!Entries
  BY DEF Inserting, RegistryInv, RegistryTypes, InBucket, Finding, IsBucket
<1>2. target[t] # NoEntry => entry[target[t]].key > key[t] /\ entry[target[t]].key \in Nat
  BY <1>1, RegistryFacts DEF GD!FindFalse, RegistryInv
<1>3. new_value[t] # NoEntry => target[t] # NoEntry /\ entry[target[t]].key <= key[t]
  BY <1>1 DEF InBucket, Finding
<1> QED
  BY <1>1, <1>2, <1>3

(* An earlier round made the entry: it gets its next. *)
LEMMA InsertMissingAgainStep ==
  ASSUME RegistryInv, NEW t \in Callers, GD!InsertMissing(t), UNCHANGED <<doing, name, id, calls>>,
         new_entry[t] # NoEntry
  PROVE  RegistryInv'
<1>1. PICK B : InBucket(B)
  BY DEF RegistryInv
<1>e. PICK mine : mine = new_entry[t]
  OBVIOUS
<1>2. /\ rat[t] = "set" /\ rat' = [rat EXCEPT ![t] = "link"] /\ GD!FindFalse(t)
      /\ entry' = [entry EXCEPT ![mine].next = target[t]]
      /\ UNCHANGED <<value, prev, target, new_entry, new_value, old_val_ptr, key, arg>>
  BY <1>e DEF GD!InsertMissing, GD!local
<1>3. rat'[t] = "link" /\ \A u \in Callers \ {t} : rat'[u] = rat[u]
  BY <1>2 DEF RegistryInv, RegistryTypes
<1>4. /\ t \in Inserting /\ new_value[t] = NoEntry /\ key[t] \in Nat
      /\ prev[t] \in B /\ Beyond(prev[t], key[t]) /\ target[t] \in (B \ {0}) \cup {NoEntry}
      /\ target[t] # NoEntry => entry[target[t]].key > key[t]
      /\ B \subseteq GD!Entries
  BY <1>1, <1>2, MissingFacts
<1>5. Inserting' = Inserting /\ Inserting \subseteq Callers
  BY <1>2, <1>3 DEF Inserting
<1>6. /\ mine \in GD!Entries /\ mine \notin B /\ mine # 0 /\ mine \in GD!EntryIds
      /\ entry[mine] \in EntryType /\ mine # NoEntry
  BY <1>1, <1>4, <1>e, RegistryFacts DEF InBucket, EntriesOwned, IsBucket, RegistryInv
<1>7. /\ entry'[mine] \in EntryType /\ entry'[mine].next = target[t]
      /\ entry'[mine].key = entry[mine].key /\ entry'[mine].value_ptr = entry[mine].value_ptr
      /\ \A e \in GD!EntryIds \ {mine} : entry'[e] = entry[e]
  <2>1. entry'[mine] = [entry[mine] EXCEPT !.next = target[t]]
        /\ \A e \in GD!EntryIds \ {mine} : entry'[e] = entry[e]
    BY <1>2, <1>6 DEF RegistryInv, RegistryTypes
  <2>2. target[t] \in 0 .. MaxEntries \cup {NoEntry}
    BY DEF RegistryInv, RegistryTypes, GD!EntryIds
  <2> QED
    BY <1>6, <2>1, <2>2 DEF EntryType
<1>8. entry' \in [GD!EntryIds -> EntryType \cup {NoEntry}]
  <2>1. entry' = [e \in GD!EntryIds |-> entry'[e]]
    BY <1>2, <1>6 DEF RegistryInv, RegistryTypes
  <2>2. \A e \in GD!EntryIds : entry'[e] \in EntryType \cup {NoEntry}
    BY <1>7 DEF RegistryInv, RegistryTypes
  <2> QED
    BY <2>1, <2>2
<1>9. GD!Entries' = GD!Entries /\ GD!Allocated' = GD!Allocated /\ GD!Entries \subseteq GD!EntryIds
  BY <1>2, <1>6, <1>7, RegistryConstants DEF GD!Entries, GD!Allocated
<1>10. \A e \in GD!Entries : entry'[e].key = entry[e].key /\ entry'[e].value_ptr = entry[e].value_ptr
  BY <1>7, <1>9
<1>11. RegistryTypes'
  BY <1>2, <1>8 DEF RegistryInv, RegistryTypes
<1>12. Named'
  BY <1>2, <1>5 DEF RegistryInv, Named
<1>13. ValuesOwned'
  BY <1>2, <1>5, <1>9, <1>10 DEF RegistryInv, ValuesOwned
<1>14. \A x \in B : entry'[x] = entry[x]
  BY <1>4, <1>6, <1>7, <1>9
<1>15. IsBucket(B)'
  BY <1>1, <1>4, <1>9, <1>14, BucketKept DEF InBucket
<1>16. EntriesOwned(B)'
  BY <1>1, <1>2, <1>5, <1>9, <1>10 DEF InBucket, EntriesOwned
<1>17. ASSUME NEW u \in Callers \ {t}
       PROVE  Finding(B, u)'
  <2>1. rat[u] = "link" => entry'[new_entry[u]].next = entry[new_entry[u]].next
    <3>1. rat[u] = "link" => u \in Inserting /\ new_entry[u] # NoEntry
      BY <1>1 DEF Inserting, InBucket, Finding
    <3>2. rat[u] = "link" => new_entry[u] \in GD!Entries /\ new_entry[u] # mine
      BY <1>1, <1>4, <1>e, <3>1 DEF InBucket, EntriesOwned
    <3> QED
      BY <1>7, <1>9, <3>2
  <2> QED
    BY <1>1, <1>2, <1>3, <1>14, <2>1, FindingKept DEF InBucket
<1>18. Finding(B, t)'
  BY <1>2, <1>3, <1>4, <1>6, <1>7, <1>14, <1>e DEF Finding, Beyond
<1> QED
  BY <1>11, <1>12, <1>13, <1>15, <1>16, <1>17, <1>18 DEF RegistryInv, InBucket

(* The entry is made, with its value. *)
LEMMA InsertMissingNewStep ==
  ASSUME RegistryInv, NEW t \in Callers, GD!InsertMissing(t), UNCHANGED <<doing, name, id, calls>>,
         new_entry[t] = NoEntry
  PROVE  RegistryInv'
<1>1. PICK B : InBucket(B)
  BY DEF RegistryInv
<1>e. PICK mine \in GD!FreshEntries, made \in GD!FreshValues :
        /\ entry' = [entry EXCEPT ![mine] =
                       [key |-> key[t], value_ptr |-> made, next |-> target[t]]]
        /\ value' = [value EXCEPT ![made] = arg[t]]
        /\ new_entry' = [new_entry EXCEPT ![t] = mine]
  <2>1. GD!FreshEntry \in GD!FreshEntries /\ GD!FreshValue \in GD!FreshValues
    BY DEF GD!InsertMissing, GD!FreshEntry, GD!FreshValue
  <2> QED
    BY <2>1 DEF GD!InsertMissing
<1>2. /\ rat[t] = "set" /\ rat' = [rat EXCEPT ![t] = "link"] /\ GD!FindFalse(t)
      /\ UNCHANGED <<prev, target, new_value, old_val_ptr, key, arg>>
  BY DEF GD!InsertMissing, GD!local
<1>3. /\ rat'[t] = "link" /\ \A u \in Callers \ {t} : rat'[u] = rat[u] /\ new_entry'[u] = new_entry[u]
      /\ new_entry'[t] = mine
  BY <1>2, <1>e DEF RegistryInv, RegistryTypes
<1>4. /\ t \in Inserting /\ new_value[t] = NoEntry /\ key[t] \in Nat
      /\ prev[t] \in B /\ Beyond(prev[t], key[t]) /\ target[t] \in (B \ {0}) \cup {NoEntry}
      /\ target[t] # NoEntry => entry[target[t]].key > key[t]
      /\ B \subseteq GD!Entries
  BY <1>1, <1>2, MissingFacts
<1>5. Inserting' = Inserting /\ Inserting \subseteq Callers
  BY <1>2, <1>3 DEF Inserting
<1>6. /\ mine \in GD!EntryIds /\ mine \notin GD!Entries /\ made \in GD!ValueIds /\ made \notin GD!Allocated
      /\ mine # NoEntry /\ made # NoEntry /\ arg[t] \in GD!Names /\ 0 \in GD!Entries
      /\ GD!Entries \subseteq GD!EntryIds /\ GD!Allocated \subseteq GD!ValueIds
  BY <1>1, <1>4, RegistryFacts
     DEF GD!FreshEntries, GD!FreshValues, GD!Entries, GD!Allocated, RegistryInv, Named, InBucket, IsBucket
<1>7. /\ entry'[mine] \in EntryType /\ entry'[mine].next = target[t]
      /\ entry'[mine].key = key[t] /\ entry'[mine].value_ptr = made
      /\ \A e \in GD!EntryIds \ {mine} : entry'[e] = entry[e]
      /\ entry' \in [GD!EntryIds -> EntryType \cup {NoEntry}]
  <2>1. /\ entry'[mine] = [key |-> key[t], value_ptr |-> made, next |-> target[t]]
        /\ \A e \in GD!EntryIds \ {mine} : entry'[e] = entry[e]
    BY <1>6, <1>e DEF RegistryInv, RegistryTypes
  <2>2. target[t] \in 0 .. MaxEntries \cup {NoEntry} /\ made \in 1 .. MaxValues
    BY <1>6 DEF RegistryInv, RegistryTypes, GD!EntryIds, GD!ValueIds
  <2>3. [key |-> key[t], value_ptr |-> made, next |-> target[t]] \in EntryType
    BY <1>4, <2>2 DEF EntryType
  <2> QED
    BY <1>6, <1>e, <2>1, <2>3 DEF RegistryInv, RegistryTypes
<1>8. /\ value' \in [GD!ValueIds -> GD!Names \cup {NoEntry, "deleted"}]
      /\ GD!Allocated' = GD!Allocated \cup {made}
  <2>1. value'[made] = arg[t] /\ \A v \in GD!ValueIds \ {made} : value'[v] = value[v]
    BY <1>6, <1>e DEF RegistryInv, RegistryTypes
  <2> QED
    BY <1>6, <1>e, <2>1, RegistryConstants DEF RegistryInv, RegistryTypes, GD!Allocated, GD!Names
<1>9. GD!Entries' = GD!Entries \cup {mine}
  BY <1>6, <1>7, RegistryConstants DEF GD!Entries
<1>10. \A e \in GD!Entries : entry'[e] = entry[e]
  BY <1>6, <1>7
<1>11. RegistryTypes'
  BY <1>2, <1>6, <1>7, <1>8, <1>e DEF RegistryInv, RegistryTypes
<1>12. Named'
  BY <1>2, <1>5 DEF RegistryInv, Named
<1>13. ValuesOwned'
  <2>1. \A v \in GD!Allocated' :
          \/ \E e \in GD!Entries' \ {0} : entry'[e].value_ptr = v
          \/ \E u \in Inserting' : new_value'[u] = v
    BY <1>2, <1>5, <1>6, <1>7, <1>8, <1>9, <1>10 DEF RegistryInv, ValuesOwned
  <2>2. \A e \in GD!Entries' \ {0} : entry'[e].value_ptr \in GD!Allocated'
    BY <1>7, <1>8, <1>9, <1>10 DEF RegistryInv, ValuesOwned
  <2>3. \A d, e \in GD!Entries' \ {0} : entry'[d].value_ptr = entry'[e].value_ptr => d = e
    BY <1>6, <1>7, <1>9, <1>10 DEF RegistryInv, ValuesOwned
  <2>4. \A u \in Inserting' : new_value'[u] # NoEntry =>
          /\ new_value'[u] \in GD!Allocated'
          /\ \A e \in GD!Entries' \ {0} : entry'[e].value_ptr # new_value'[u]
    BY <1>2, <1>5, <1>6, <1>7, <1>8, <1>9, <1>10 DEF RegistryInv, ValuesOwned
  <2>5. \A u, w \in Inserting' : new_value'[u] # NoEntry /\ new_value'[u] = new_value'[w] => u = w
    BY <1>2, <1>5 DEF RegistryInv, ValuesOwned
  <2> QED
    BY <2>1, <2>2, <2>3, <2>4, <2>5 DEF ValuesOwned
<1>14. IsBucket(B)'
  BY <1>1, <1>4, <1>9, <1>10, BucketKept DEF InBucket
<1>15. EntriesOwned(B)'
  <2>1. \A u \in Inserting \ {t} : new_entry[u] # NoEntry =>
          /\ new_entry[u] \in GD!Entries \ B /\ entry[new_entry[u]].key = key[u]
          /\ new_entry[u] # mine /\ new_entry'[u] = new_entry[u]
    BY <1>1, <1>3, <1>5, <1>6 DEF InBucket, EntriesOwned
  <2>2. \A u \in Inserting \ {t} : new_entry'[u] = new_entry[u]
    BY <1>3, <1>5
  <2>3. \A e \in GD!Entries' : e \in B \/ \E u \in Inserting' : new_entry'[u] = e
    <3>1. ASSUME NEW e \in GD!Entries, e \notin B
          PROVE  \E u \in Inserting' : new_entry'[u] = e
      <4>1. PICK u \in Inserting : new_entry[u] = e
        BY <1>1, <3>1 DEF InBucket, EntriesOwned
      <4>2. u # t
        BY <1>6, <4>1, RegistryFacts DEF RegistryInv
      <4> QED
        BY <1>5, <2>2, <4>1, <4>2
    <3> QED
      BY <1>3, <1>4, <1>5, <1>9, <3>1
  <2>4. \A u \in Inserting' : new_entry'[u] # NoEntry =>
          new_entry'[u] \in GD!Entries' \ B /\ entry'[new_entry'[u]].key = key'[u]
    BY <1>2, <1>3, <1>4, <1>5, <1>6, <1>7, <1>9, <1>10, <2>1, <2>2
  <2>5. \A u, w \in Inserting' : new_entry'[u] # NoEntry /\ new_entry'[u] = new_entry'[w] => u = w
    BY <1>1, <1>3, <1>5, <1>6, <2>1, <2>2 DEF InBucket, EntriesOwned
  <2> QED
    BY <2>3, <2>4, <2>5 DEF EntriesOwned
<1>16. ASSUME NEW u \in Callers \ {t}
       PROVE  Finding(B, u)'
  <2>1. rat[u] = "link" => entry'[new_entry[u]].next = entry[new_entry[u]].next
    <3>1. rat[u] = "link" => u \in Inserting /\ new_entry[u] # NoEntry
      BY <1>1 DEF Inserting, InBucket, Finding
    <3>2. rat[u] = "link" => new_entry[u] \in GD!Entries
      BY <1>1, <3>1 DEF InBucket, EntriesOwned
    <3> QED
      BY <1>10, <3>2
  <2> QED
    BY <1>1, <1>2, <1>3, <1>4, <1>10, <2>1, FindingKept DEF InBucket
<1>17. Finding(B, t)'
  BY <1>2, <1>3, <1>4, <1>6, <1>7, <1>10 DEF Finding, Beyond
<1> QED
  BY <1>11, <1>12, <1>13, <1>14, <1>15, <1>16, <1>17 DEF RegistryInv, InBucket

(* The new entry is put between two that are next to each other. *)
LEMMA BucketGrows ==
  ASSUME NEW B, IsBucket(B), NEW mine, mine \notin B, NEW p \in B, NEW k \in Nat,
         \A x \in B : entry[x].key \in Nat /\ entry'[x].key = entry[x].key,
         entry'[mine].key = k, Beyond(p, k), mine # NoEntry,
         \A x \in B \ {p} : entry'[x].next = entry[x].next,
         entry'[mine].next = entry[p].next, entry'[p].next = mine,
         entry[p].next # NoEntry => entry[entry[p].next].key > k,
         B \cup {mine} \subseteq GD!Entries'
  PROVE  IsBucket(B \cup {mine})'
<1> DEFINE C == B \cup {mine}
           g == entry[p].next
<1>0. /\ 0 \in B /\ \A x \in B : entry[x].next \in (B \ {0}) \cup {NoEntry}
      /\ \A x \in B \ {0} : entry[x].next # NoEntry => entry[x].key < entry[entry[x].next].key
      /\ \A x \in B, y \in B \ {0} :
           (x = 0 \/ entry[x].key < entry[y].key) =>
             entry[x].next # NoEntry /\ entry[entry[x].next].key <= entry[y].key
      /\ \A x, y \in B \ {0} : entry[x].key = entry[y].key => x = y
      /\ p = 0 \/ entry[p].key < k
      /\ g \in (B \ {0}) \cup {NoEntry} /\ mine # 0
  BY DEF IsBucket, Beyond
<1>1. \A x \in C : entry'[x].next \in (C \ {0}) \cup {NoEntry}
  BY <1>0
<1>2. \A x \in C \ {0} : entry'[x].next # NoEntry => entry'[x].key < entry'[entry'[x].next].key
  <2>1. ASSUME NEW x \in B \ {0}, x # p, entry[x].next # NoEntry
        PROVE  entry'[x].key < entry'[entry'[x].next].key
    BY <1>0, <2>1
  <2>2. ASSUME p # 0
        PROVE  entry'[p].key < entry'[entry'[p].next].key
    BY <1>0, <2>2
  <2>3. ASSUME entry[p].next # NoEntry
        PROVE  entry'[mine].key < entry'[entry'[mine].next].key
    BY <1>0, <2>3
  <2> QED
    BY <2>1, <2>2, <2>3
<1>3. \A y \in B \ {0} : entry[y].key # k
  BY <1>0
<1>4. \A x, y \in C \ {0} : entry'[x].key = entry'[y].key => x = y
  BY <1>0, <1>3
<1>5. ASSUME NEW x \in C, NEW y \in C \ {0}, x = 0 \/ entry'[x].key < entry'[y].key
      PROVE  entry'[x].next # NoEntry /\ entry'[entry'[x].next].key <= entry'[y].key
  <2>1. CASE x = mine /\ y \in B
    BY <1>0, <1>5, <2>1
  <2>2. CASE x = mine /\ y = mine
    BY <1>0, <1>5, <2>2
  <2>3. CASE x = p /\ y = mine
    BY <1>0, <2>3
  <2>4. CASE x = p /\ y \in B
    BY <1>0, <1>5, <2>4
  <2>5. CASE x \in B \ {p} /\ y \in B
    BY <1>0, <1>5, <2>5
  <2>6. CASE x \in B \ {p} /\ y = mine
    <3>1. entry'[x].next = entry[x].next /\ (x = 0 \/ entry[x].key < k)
      BY <1>5, <2>6
    <3>2. p # 0
      BY <1>0, <2>6, <3>1
    <3>3. entry[p].key < k /\ p \in B \ {0}
      BY <1>0, <3>2
    <3>4. x = 0 \/ entry[x].key < entry[p].key
      <4>1. ASSUME x # 0
            PROVE  entry[x].key < entry[p].key
        <5>1. x \in B \ {0} /\ entry[x].key # entry[p].key /\ entry[x].key < k
          BY <1>0, <2>6, <3>1, <3>3, <4>1
        <5>2. ~(entry[p].key < entry[x].key)
          BY <1>0, <3>3, <5>1
        <5> QED
          BY <2>6, <3>3, <5>1, <5>2
      <4> QED
        BY <4>1
    <3>5. entry[x].next # NoEntry /\ entry[entry[x].next].key <= entry[p].key /\ entry[x].next \in B
      BY <1>0, <2>6, <3>3, <3>4
    <3> QED
      BY <2>6, <3>1, <3>3, <3>5
  <2> QED
    BY <2>1, <2>2, <2>3, <2>4, <2>5, <2>6
<1> HIDE DEF C
<1>6. IsBucket(C)'
  <2>1. C \subseteq GD!Entries' /\ 0 \in C
    BY <1>0 DEF C
  <2> QED
    BY <1>1, <1>2, <1>4, <1>5, <2>1 DEF IsBucket, Beyond
<1> QED
  BY <1>6 DEF C

LEMMA InsertLinkStep ==
  ASSUME RegistryInv, NEW t \in Callers, GD!InsertLink(t), UNCHANGED <<doing, name, id, calls>>,
         entry[prev[t]].next = target[t]
  PROVE  RegistryInv'
<1>1. PICK B : InBucket(B)
  BY DEF RegistryInv
<1>e. PICK mine, p : mine = new_entry[t] /\ p = prev[t]
  OBVIOUS
<1>2. /\ rat[t] = "link" /\ rat' = [rat EXCEPT ![t] = "idle"]
      /\ entry' = [entry EXCEPT ![p].next = mine]
      /\ UNCHANGED <<value, prev, target, new_entry, new_value, old_val_ptr, key, arg>>
  BY <1>e DEF GD!InsertLink, GD!local
<1>3. rat'[t] = "idle" /\ \A u \in Callers \ {t} : rat'[u] = rat[u]
  BY <1>2 DEF RegistryInv, RegistryTypes
<1>4. Inserting' = Inserting \ {t} /\ t \in Inserting /\ Inserting \subseteq Callers
  BY <1>2, <1>3 DEF Inserting
<1>5. /\ p \in B /\ Beyond(p, key[t]) /\ entry[p].next = target[t] /\ new_value[t] = NoEntry
      /\ mine # NoEntry /\ entry[mine].next = target[t] /\ B \subseteq GD!Entries
      /\ target[t] # NoEntry => entry[target[t]].key > key[t]
      /\ key[t] \in Nat
  BY <1>1, <1>2, <1>e DEF InBucket, Finding, IsBucket, RegistryInv, RegistryTypes
<1>6. /\ mine \in GD!Entries /\ mine \notin B /\ entry[mine].key = key[t] /\ mine # p
      /\ GD!Entries \subseteq GD!EntryIds /\ \A x \in GD!Entries : entry[x] \in EntryType /\ entry[x].key \in Nat
  BY <1>1, <1>4, <1>5, <1>e, RegistryFacts DEF InBucket, EntriesOwned, RegistryInv
<1>7. /\ entry'[p] \in EntryType /\ entry'[p].next = mine /\ entry'[p].key = entry[p].key
      /\ entry'[p].value_ptr = entry[p].value_ptr
      /\ \A e \in GD!EntryIds \ {p} : entry'[e] = entry[e]
      /\ entry' \in [GD!EntryIds -> EntryType \cup {NoEntry}]
  <2>1. entry'[p] = [entry[p] EXCEPT !.next = mine] /\ \A e \in GD!EntryIds \ {p} : entry'[e] = entry[e]
    BY <1>2, <1>5, <1>6 DEF RegistryInv, RegistryTypes
  <2>2. mine \in 0 .. MaxEntries /\ entry[p] \in EntryType
    BY <1>5, <1>6 DEF GD!EntryIds
  <2>3. [entry[p] EXCEPT !.next = mine] \in EntryType
    BY <2>2 DEF EntryType
  <2>4. entry' = [e \in GD!EntryIds |-> entry'[e]]
    BY <1>2 DEF RegistryInv, RegistryTypes
  <2>5. \A e \in GD!EntryIds : entry'[e] \in EntryType \cup {NoEntry}
    BY <2>1, <2>3 DEF RegistryInv, RegistryTypes
  <2>6. entry' \in [GD!EntryIds -> EntryType \cup {NoEntry}]
    BY <2>4, <2>5
  <2>7. entry'[p].next = mine /\ entry'[p].key = entry[p].key /\ entry'[p].value_ptr = entry[p].value_ptr
    BY <2>1, <2>2 DEF EntryType
  <2> QED
    BY <2>1, <2>3, <2>6, <2>7
<1>8. GD!Entries' = GD!Entries /\ GD!Allocated' = GD!Allocated
  BY <1>2, <1>5, <1>6, <1>7, RegistryConstants DEF GD!Entries, GD!Allocated
<1>9. \A e \in GD!Entries : entry'[e].key = entry[e].key /\ entry'[e].value_ptr = entry[e].value_ptr
  BY <1>6, <1>7
<1>10. RegistryTypes'
  BY <1>2, <1>7 DEF RegistryInv, RegistryTypes
<1>11. Named'
  BY <1>2, <1>4 DEF RegistryInv, Named
<1>12. ValuesOwned'
  <2>1. \A v \in GD!Allocated : v # NoEntry
    BY RegistryFacts DEF RegistryInv
  <2>2. \A v \in GD!Allocated :
          (\E u \in Inserting : new_value[u] = v) => \E u \in Inserting' : new_value'[u] = v
    BY <1>2, <1>4, <1>5, <2>1
  <2> QED
    BY <1>2, <1>4, <1>8, <1>9, <2>2 DEF RegistryInv, ValuesOwned
<1> DEFINE C == B \cup {mine}
<1>13. IsBucket(C)'
  <2>1. /\ \A x \in B : entry[x].key \in Nat /\ entry'[x].key = entry[x].key
        /\ \A x \in B \ {p} : entry'[x].next = entry[x].next
        /\ entry'[mine].next = entry[p].next /\ entry'[p].next = mine
        /\ entry'[mine].key = key[t] /\ C \subseteq GD!Entries'
        /\ entry[p].next # NoEntry => entry[entry[p].next].key > key[t]
    BY <1>5, <1>6, <1>7, <1>8, <1>9
  <2>2. PICK k : k = key[t]
    OBVIOUS
  <2> QED
    BY <1>1, <1>5, <1>6, <2>1, <2>2, BucketGrows DEF InBucket
<1>14. \A u \in Inserting \ {t} : new_entry[u] # NoEntry =>
         /\ new_entry[u] \in GD!Entries \ C /\ entry[new_entry[u]].key = key[u]
         /\ entry'[new_entry[u]] = entry[new_entry[u]]
  <2>1. \A u \in Inserting \ {t} : new_entry[u] # NoEntry =>
          new_entry[u] \in GD!Entries \ C /\ entry[new_entry[u]].key = key[u]
    BY <1>1, <1>4, <1>e DEF InBucket, EntriesOwned
  <2> QED
    BY <1>5, <1>6, <1>7, <2>1
<1>15. EntriesOwned(C)'
  <2>1. \A e \in GD!Entries' : e \in C \/ \E u \in Inserting' : new_entry'[u] = e
    BY <1>1, <1>2, <1>4, <1>8, <1>e DEF InBucket, EntriesOwned
  <2>2. \A u \in Inserting' : new_entry'[u] # NoEntry =>
          new_entry'[u] \in GD!Entries' \ C /\ entry'[new_entry'[u]].key = key'[u]
    BY <1>2, <1>4, <1>8, <1>14
  <2>3. \A u, w \in Inserting' : new_entry'[u] # NoEntry /\ new_entry'[u] = new_entry'[w] => u = w
    BY <1>1, <1>2, <1>4 DEF InBucket, EntriesOwned
  <2> HIDE DEF C
  <2> QED
    BY <2>1, <2>2, <2>3 DEF EntriesOwned
<1>16. ASSUME NEW u \in Callers \ {t}
       PROVE  Finding(C, u)'
  <2>1. rat[u] = "link" => entry'[new_entry[u]].next = entry[new_entry[u]].next
    <3>1. rat[u] = "link" => u \in Inserting \ {t} /\ new_entry[u] # NoEntry
      BY <1>1 DEF Inserting, InBucket, Finding
    <3> QED
      BY <1>14, <3>1
  <2>2. \A x \in B : entry'[x].key = entry[x].key
    BY <1>5, <1>9
  <2>3. Finding(B, u) /\ B \subseteq C
    BY <1>1 DEF InBucket
  <2> HIDE DEF C
  <2> QED
    BY <1>2, <1>3, <2>1, <2>2, <2>3, FindingKept
<1>17. Finding(C, t)'
  BY <1>3, <1>4 DEF Finding
<1> HIDE DEF C
<1> QED
  BY <1>10, <1>11, <1>12, <1>13, <1>15, <1>16, <1>17 DEF RegistryInv, InBucket

-----------------------------------------------------------------------------
(* The calls of the map: Has and Get. *)
LEMMA CallGetStep ==
  ASSUME RegistryInv, NEW t \in Callers, NEW k \in Nat, GD!CallGet(t, k),
         doing' \in [Callers -> {"idle", "has", "lookup", "get", "set"}],
         name' \in [Callers -> GD!Names \cup {NoEntry}], id' \in [Callers -> Nat],
         \A u \in Callers : doing'[u] \in {"has", "get"} => name'[u] \in GD!Names
  PROVE  RegistryInv'
<1>1. PICK B : InBucket(B)
  BY DEF RegistryInv
<1>2. /\ rat[t] = "idle" /\ rat' = [rat EXCEPT ![t] = "get"] /\ key' = [key EXCEPT ![t] = k]
      /\ prev' = [prev EXCEPT ![t] = 0] /\ target' = [target EXCEPT ![t] = entry[0].next]
      /\ UNCHANGED <<entry, value, arg, new_entry, new_value, old_val_ptr>>
  BY DEF GD!CallGet, GD!StartFind
<1>3. /\ rat'[t] = "get" /\ prev'[t] = 0 /\ target'[t] = entry[0].next /\ key'[t] = k
      /\ \A u \in Callers \ {t} :
           rat'[u] = rat[u] /\ prev'[u] = prev[u] /\ target'[u] = target[u] /\ key'[u] = key[u]
  BY <1>2 DEF RegistryInv, RegistryTypes
<1>4. /\ Inserting' = Inserting /\ t \notin Inserting /\ Inserting \subseteq Callers
      /\ GD!Entries' = GD!Entries /\ GD!Allocated' = GD!Allocated
  BY <1>2, <1>3 DEF Inserting, GD!Entries, GD!Allocated
<1>5. RegistryTypes'
  <2>1. 0 \in GD!EntryIds /\ entry[0].next \in GD!EntryIds \cup {NoEntry}
    BY <1>1, RegistryFacts DEF RegistryInv, InBucket, IsBucket
  <2> QED
    BY <1>2, <2>1 DEF RegistryInv, RegistryTypes
<1>6. Named' /\ ValuesOwned'
  BY <1>2, <1>4 DEF RegistryInv, Named, ValuesOwned
<1>7. \A u \in Inserting : key'[u] = key[u]
  BY <1>3, <1>4
<1>8. IsBucket(B)' /\ EntriesOwned(B)'
  BY <1>1, <1>2, <1>4, <1>7, BucketKept DEF InBucket, IsBucket, EntriesOwned
<1>9. ASSUME NEW u \in Callers \ {t}
      PROVE  Finding(B, u)'
  BY <1>1, <1>2, <1>3, FindingKept DEF InBucket
<1>10. Finding(B, t)'
  BY <1>1, <1>2, <1>3, <1>4, FindingStarts DEF RegistryInv, InBucket
<1> QED
  BY <1>5, <1>6, <1>8, <1>9, <1>10 DEF RegistryInv, InBucket

(* Set *)
LEMMA CallSetStep ==
  ASSUME RegistryInv, NEW t \in Callers, NEW k \in Nat, NEW n \in GD!Names, GD!CallSet(t, k, n),
         doing' \in [Callers -> {"idle", "has", "lookup", "get", "set"}],
         name' \in [Callers -> GD!Names \cup {NoEntry}], id' \in [Callers -> Nat],
         \A u \in Callers : doing'[u] \in {"has", "get"} => name'[u] \in GD!Names
  PROVE  RegistryInv'
<1>1. PICK B : InBucket(B)
  BY DEF RegistryInv
<1>2. /\ rat[t] = "idle" /\ rat' = [rat EXCEPT ![t] = "set"] /\ key' = [key EXCEPT ![t] = k]
      /\ arg' = [arg EXCEPT ![t] = n]
      /\ new_entry' = [new_entry EXCEPT ![t] = NoEntry] /\ new_value' = [new_value EXCEPT ![t] = NoEntry]
      /\ prev' = [prev EXCEPT ![t] = 0] /\ target' = [target EXCEPT ![t] = entry[0].next]
      /\ UNCHANGED <<entry, value, old_val_ptr>>
  BY DEF GD!CallSet, GD!StartFind
<1>3. /\ rat'[t] = "set" /\ prev'[t] = 0 /\ target'[t] = entry[0].next /\ key'[t] = k /\ arg'[t] = n
      /\ new_entry'[t] = NoEntry /\ new_value'[t] = NoEntry
      /\ \A u \in Callers \ {t} :
           /\ rat'[u] = rat[u] /\ prev'[u] = prev[u] /\ target'[u] = target[u] /\ key'[u] = key[u]
           /\ arg'[u] = arg[u] /\ new_entry'[u] = new_entry[u] /\ new_value'[u] = new_value[u]
  BY <1>2 DEF RegistryInv, RegistryTypes
<1>4. /\ Inserting' = Inserting \cup {t} /\ t \notin Inserting /\ Inserting \subseteq Callers
      /\ GD!Entries' = GD!Entries /\ GD!Allocated' = GD!Allocated
  BY <1>2, <1>3 DEF Inserting, GD!Entries, GD!Allocated
<1>5. RegistryTypes'
  <2>1. 0 \in GD!EntryIds /\ entry[0].next \in GD!EntryIds \cup {NoEntry}
    BY <1>1, RegistryFacts DEF RegistryInv, InBucket, IsBucket
  <2> QED
    BY <1>2, <2>1 DEF RegistryInv, RegistryTypes
<1>6. Named'
  BY <1>3, <1>4 DEF RegistryInv, Named
<1>7. \A u \in Inserting : key'[u] = key[u] /\ new_entry'[u] = new_entry[u] /\ new_value'[u] = new_value[u]
  BY <1>3, <1>4
<1>8. ValuesOwned'
  BY <1>2, <1>3, <1>4, <1>7 DEF RegistryInv, ValuesOwned
<1>9. IsBucket(B)'
  BY <1>1, <1>2, <1>4, BucketKept DEF InBucket, IsBucket
<1>10. EntriesOwned(B)'
  BY <1>1, <1>2, <1>3, <1>4, <1>7 DEF InBucket, EntriesOwned
<1>11. ASSUME NEW u \in Callers \ {t}
       PROVE  Finding(B, u)'
  BY <1>1, <1>2, <1>3, FindingKept DEF InBucket
<1>12. Finding(B, t)'
  BY <1>1, <1>2, <1>3, <1>4, FindingStarts DEF RegistryInv, InBucket
<1> QED
  BY <1>5, <1>6, <1>8, <1>9, <1>10, <1>11, <1>12 DEF RegistryInv, InBucket

(* Steps outside the map. *)
LEMMA MapKept ==
  ASSUME RegistryInv, UNCHANGED GD!mapVars,
         doing' \in [Callers -> {"idle", "has", "lookup", "get", "set"}],
         UNCHANGED <<name, id>>,
         \A u \in Callers : doing'[u] \in {"has", "get"} => doing[u] \in {"has", "get"}
  PROVE  RegistryInv'
<1>1. PICK B : InBucket(B)
  BY DEF RegistryInv
<1>2. UNCHANGED <<entry, value, rat, key, arg, prev, target, new_entry, new_value, old_val_ptr>>
  BY DEF GD!mapVars
<1>3. Inserting' = Inserting /\ GD!Entries' = GD!Entries /\ GD!Allocated' = GD!Allocated
  BY <1>2 DEF Inserting, GD!Entries, GD!Allocated
<1>4. RegistryTypes' /\ Named' /\ ValuesOwned'
  BY <1>2, <1>3 DEF RegistryInv, RegistryTypes, Named, ValuesOwned
<1>5. IsBucket(B)' /\ EntriesOwned(B)'
  BY <1>1, <1>2, <1>3, BucketKept DEF InBucket, IsBucket, EntriesOwned
<1>6. ASSUME NEW u \in Callers
      PROVE  Finding(B, u)'
  BY <1>1, <1>2, FindingKept DEF InBucket
<1> QED
  BY <1>4, <1>5, <1>6 DEF RegistryInv, InBucket

LEMMA RegistryCallStep ==
  ASSUME RegistryInv, NEW t \in Callers,
         \/ \E n \in GD!Names : GD!RegisterChannel(t, n)
         \/ \E k \in Keys : GD!GetChannelById(t, k)
         \/ GD!RegisterHas(t) \/ GD!RegisterCompare(t) \/ GD!RegisterReturn(t) \/ GD!LookupCopy(t)
  PROVE  RegistryInv'
<1>0. /\ doing \in [Callers -> {"idle", "has", "lookup", "get", "set"}]
      /\ name \in [Callers -> GD!Names \cup {NoEntry}] /\ id \in [Callers -> Nat]
      /\ \A u \in Callers : doing[u] \in {"has", "get"} => name[u] \in GD!Names
  BY DEF RegistryInv, RegistryTypes, Named
<1>1. ASSUME NEW n \in GD!Names, GD!RegisterChannel(t, n)
      PROVE  RegistryInv'
  <2>1. /\ doing' = [doing EXCEPT ![t] = "has"] /\ name' = [name EXCEPT ![t] = n]
        /\ id' = [id EXCEPT ![t] = Hash[n]] /\ GD!CallGet(t, Hash[n])
    BY <1>1 DEF GD!RegisterChannel, GD!Begin
  <2>2. Hash[n] \in Nat
    BY RegistryConstants DEF GD!Names
  <2> QED
    BY <1>0, <2>1, <2>2, CallGetStep
<1>2. ASSUME NEW k \in Keys, GD!GetChannelById(t, k)
      PROVE  RegistryInv'
  <2>1. /\ doing' = [doing EXCEPT ![t] = "lookup"] /\ name' = [name EXCEPT ![t] = NoEntry]
        /\ id' = [id EXCEPT ![t] = k] /\ GD!CallGet(t, k)
    BY <1>2 DEF GD!GetChannelById, GD!Begin
  <2>2. k \in Nat
    BY RegistryConstants
  <2> QED
    BY <1>0, <2>1, <2>2, CallGetStep
<1>3. ASSUME GD!RegisterHas(t)
      PROVE  RegistryInv'
  <2>1. doing[t] = "has" /\ UNCHANGED <<name, id>> /\ id[t] \in Nat /\ name[t] \in GD!Names
    BY <1>0, <1>3 DEF GD!RegisterHas
  <2>2. CASE doing' = [doing EXCEPT ![t] = "get"] /\ GD!CallGet(t, id[t])
    BY <1>0, <2>1, <2>2, CallGetStep
  <2>3. CASE doing' = [doing EXCEPT ![t] = "set"] /\ GD!CallSet(t, id[t], name[t])
    BY <1>0, <2>1, <2>3, CallSetStep
  <2> QED
    BY <1>3, <2>2, <2>3 DEF GD!RegisterHas
<1>4. ASSUME GD!RegisterCompare(t)
      PROVE  RegistryInv'
  <2>1. doing[t] = "get" /\ name' = name /\ id[t] \in Nat /\ name[t] \in GD!Names
    BY <1>0, <1>4 DEF GD!RegisterCompare
  <2>2. CASE doing' = [doing EXCEPT ![t] = "set"] /\ GD!CallSet(t, id[t], name[t]) /\ UNCHANGED id
    BY <1>0, <2>1, <2>2, CallSetStep
  <2>3. CASE doing' = [doing EXCEPT ![t] = "has"] /\ id' = [id EXCEPT ![t] = @ + 1] /\ GD!CallGet(t, id'[t])
    <3>1. PICK k : k = id[t] + 1
      OBVIOUS
    <3>2. k \in Nat /\ id'[t] = k /\ id' \in [Callers -> Nat]
      BY <1>0, <2>1, <2>3, <3>1
    <3>3. GD!CallGet(t, k)
      BY <2>3, <3>2
    <3> QED
      BY <1>0, <2>1, <2>3, <3>2, <3>3, CallGetStep
  <2> QED
    BY <1>4, <2>2, <2>3 DEF GD!RegisterCompare
<1>5. ASSUME GD!RegisterReturn(t) \/ GD!LookupCopy(t)
      PROVE  RegistryInv'
  <2>1. doing' = [doing EXCEPT ![t] = "idle"] /\ UNCHANGED <<name, id>> /\ UNCHANGED GD!mapVars
    BY <1>5 DEF GD!RegisterReturn, GD!LookupCopy
  <2> QED
    BY <1>0, <2>1, MapKept
<1> QED
  BY <1>1, <1>2, <1>3, <1>4, <1>5

LEMMA MapStepKeeps ==
  ASSUME RegistryInv, NEW t \in Callers, GD!MapStep(t), UNCHANGED <<doing, name, id, calls>>
  PROVE  RegistryInv'
<1>1. ASSUME GD!InsertUpdate(t)
      PROVE  RegistryInv'
  <2>1. CASE entry[target[t]].value_ptr = old_val_ptr[t]
    BY <1>1, <2>1, InsertUpdateStep
  <2>2. CASE entry[target[t]].value_ptr # old_val_ptr[t]
    <3>1. /\ rat[t] = "update" /\ rat' = [rat EXCEPT ![t] = "set"] /\ GD!StartFind(t)
          /\ UNCHANGED <<entry, value, key, arg, new_entry, new_value, old_val_ptr>>
      BY <1>1, <2>2 DEF GD!InsertUpdate, GD!local
    <3> QED
      BY <3>1, AgainStep
  <2> QED
    BY <2>1, <2>2
<1>2. ASSUME GD!InsertLink(t)
      PROVE  RegistryInv'
  <2>1. CASE entry[prev[t]].next = target[t]
    BY <1>2, <2>1, InsertLinkStep
  <2>2. CASE entry[prev[t]].next # target[t]
    <3>1. /\ rat[t] = "link" /\ rat' = [rat EXCEPT ![t] = "set"] /\ GD!StartFind(t)
          /\ UNCHANGED <<entry, value, key, arg, new_entry, new_value, old_val_ptr>>
      BY <1>2, <2>2 DEF GD!InsertLink, GD!local
    <3> QED
      BY <3>1, AgainStep
  <2> QED
    BY <2>1, <2>2
<1> QED
  BY <1>1, <1>2, FindStep, GetStep, InsertFoundStep, InsertMissingAgainStep, InsertMissingNewStep
     DEF GD!MapStep

LEMMA RegistryStep ==
  ASSUME RegistryInv, [GD!RegistryNext]_(GD!registryVars)
  PROVE  RegistryInv'
<1>1. CASE GD!RegistryNext
  BY <1>1, RegistryCallStep, MapStepKeeps DEF GD!RegistryNext
<1>2. CASE UNCHANGED GD!registryVars
  <2>1. UNCHANGED GD!mapVars /\ UNCHANGED <<doing, name, id>>
    BY <1>2 DEF GD!registryVars
  <2> QED
    BY <2>1, MapKept DEF RegistryInv, RegistryTypes
<1> QED
  BY <1>1, <1>2

LEMMA RegistryStarts ==
  ASSUME GD!RegistryInit
  PROVE  RegistryInv
<1>1. /\ entry = [e \in GD!EntryIds |->
                    IF e = 0 THEN [key |-> 0, value_ptr |-> NoEntry, next |-> NoEntry] ELSE NoEntry]
      /\ value = [v \in GD!ValueIds |-> NoEntry] /\ rat = [t \in Callers |-> "idle"]
      /\ key = [t \in Callers |-> 0] /\ arg = [t \in Callers |-> NoEntry]
      /\ prev = [t \in Callers |-> 0] /\ target = [t \in Callers |-> NoEntry]
      /\ new_entry = [t \in Callers |-> NoEntry] /\ new_value = [t \in Callers |-> NoEntry]
      /\ old_val_ptr = [t \in Callers |-> NoEntry] /\ doing = [t \in Callers |-> "idle"]
      /\ name = [t \in Callers |-> NoEntry] /\ id = [t \in Callers |-> 0]
  BY DEF GD!RegistryInit, GD!MapInit
<1>2. 0 \in GD!EntryIds /\ [key |-> 0, value_ptr |-> NoEntry, next |-> NoEntry] \in EntryType
  BY RegistryConstants DEF GD!EntryIds, EntryType
<1>3. RegistryTypes
  BY <1>1, <1>2 DEF RegistryTypes
<1>4. entry[0].next = NoEntry /\ entry[0] \in EntryType /\ \A e \in GD!EntryIds : e # 0 => entry[e] = NoEntry
  BY <1>1, <1>2
<1>5. GD!Entries = {0} /\ GD!Allocated = {} /\ Inserting = {}
  BY <1>1, <1>2, <1>4, RegistryConstants DEF GD!Entries, GD!Allocated, Inserting
<1>6. Named /\ ValuesOwned
  BY <1>1, <1>5 DEF Named, ValuesOwned
<1>7. IsBucket({0}) /\ EntriesOwned({0})
  BY <1>4, <1>5 DEF IsBucket, EntriesOwned
<1>8. \A t \in Callers : Finding({0}, t)
  BY <1>1, <1>5 DEF Finding
<1> QED
  BY <1>3, <1>6, <1>7, <1>8 DEF RegistryInv, InBucket

-----------------------------------------------------------------------------
(* A bucket is the entries met from the head: a closed set misses none of  *)
(* them, or the largest of its keys below a missed one would be followed   *)
(* by a larger one.                                                        *)
LEMMA BucketIsLinked ==
  ASSUME RegistryTypes, NEW B, IsBucket(B)
  PROVE  GD!Linked = B \ {0}
<1>0. /\ B \subseteq GD!Entries /\ 0 \in B
      /\ \A x \in B : entry[x].next \in (B \ {0}) \cup {NoEntry} /\ entry[x].key \in Nat
      /\ \A x \in B \ {0} : entry[x].next # NoEntry => entry[x].key < entry[entry[x].next].key
      /\ \A x \in B, y \in B \ {0} :
           (x = 0 \/ entry[x].key < entry[y].key) =>
             entry[x].next # NoEntry /\ entry[entry[x].next].key <= entry[y].key
      /\ \A x, y \in B \ {0} : entry[x].key = entry[y].key => x = y
  BY RegistryFacts DEF IsBucket, Beyond
<1>1. GD!Closed(B)
  BY <1>0 DEF GD!Closed
<1>2. GD!Linked \subseteq B \ {0}
  BY <1>0, <1>1 DEF GD!Linked
<1>3. ASSUME NEW y \in B \ {0}, NEW X \in SUBSET GD!Entries, GD!Closed(X), y \notin X
      PROVE  FALSE
  <2> DEFINE gap(x) == entry[y].key - entry[x].key
             D == {gap(x) : x \in {z \in (X \cap B) \ {0} : entry[z].key < entry[y].key}}
  <2>1. 0 \in X /\ \A x \in X : entry[x].next \in X \cup {NoEntry}
    BY <1>3 DEF GD!Closed
  <2>2. ASSUME NEW x \in X \cap B, x = 0 \/ entry[x].key < entry[y].key
        PROVE  /\ entry[x].next \in (X \cap B) \ {0} /\ entry[entry[x].next].key < entry[y].key
               /\ x = 0 \/ entry[x].key < entry[entry[x].next].key
    <3>1. entry[x].next # NoEntry /\ entry[entry[x].next].key <= entry[y].key
      BY <1>0, <2>2
    <3>2. entry[x].next \in (X \cap B) \ {0} /\ entry[x].next # y
      BY <1>0, <1>3, <2>1, <3>1
    <3> QED
      BY <1>0, <3>1, <3>2
  <2>3. entry[0].next \in (X \cap B) \ {0} /\ entry[entry[0].next].key < entry[y].key
    BY <1>0, <2>1, <2>2
  <2>4. D # {} /\ D \in SUBSET Nat
    BY <1>0, <2>3
  <2> HIDE DEF D
  <2>5. PICK d \in D : \A e \in D : d <= e
    BY <2>4, Least
  <2>6. PICK x \in (X \cap B) \ {0} : entry[x].key < entry[y].key /\ d = entry[y].key - entry[x].key
    BY <2>5 DEF D
  <2>7. PICK z : z = entry[x].next
    OBVIOUS
  <2>8. z \in (X \cap B) \ {0} /\ entry[z].key < entry[y].key /\ entry[x].key < entry[z].key
    BY <2>2, <2>6, <2>7
  <2>9. entry[y].key - entry[z].key \in D
    BY <2>8 DEF D
  <2>10. entry[x].key \in Nat /\ entry[y].key \in Nat /\ entry[z].key \in Nat
    BY <1>0, <2>6, <2>8
  <2> QED
    BY <2>5, <2>6, <2>8, <2>9, <2>10
<1>4. B \ {0} \subseteq GD!Linked
  BY <1>0, <1>3 DEF GD!Linked
<1> QED
  BY <1>2, <1>4

LEMMA RegistryInvSuffices ==
  ASSUME RegistryInv
  PROVE  RegistrySound
<1>1. PICK B : InBucket(B)
  BY DEF RegistryInv
<1>2. GD!Linked = B \ {0} /\ B \subseteq GD!Entries /\ 0 \in B
  BY <1>1, BucketIsLinked DEF RegistryInv, InBucket, IsBucket
<1>3. \A e \in GD!Linked : entry[e].next # NoEntry => entry[e].key < entry[entry[e].next].key
  BY <1>1, <1>2 DEF InBucket, IsBucket
<1>4. \A e \in GD!Linked : entry[e].value_ptr \in GD!Allocated
  BY <1>2 DEF RegistryInv, ValuesOwned
<1>5. ASSUME \A t \in Callers : rat[t] = "idle"
      PROVE  GD!Entries = GD!Linked \cup {0} /\ GD!Allocated = {entry[e].value_ptr : e \in GD!Linked}
  <2>1. Inserting = {}
    BY <1>5 DEF Inserting
  <2>2. GD!Entries = GD!Linked \cup {0}
    BY <1>1, <1>2, <2>1 DEF InBucket, EntriesOwned
  <2> QED
    BY <1>2, <1>4, <2>1, <2>2 DEF RegistryInv, ValuesOwned
<1> QED
  BY <1>3, <1>4, <1>5 DEF RegistrySound, GD!BucketSound

(***************************************************************************)
(* AtomicHashMap under GlobalData, for any number of callers, names, keys  *)
(* and any hash: racing calls of Set leave every bucket sorted, without a  *)
(* second entry for a key, a lost value or a leak.                         *)
(***************************************************************************)
THEOREM RegistryIsSound == GD!RegistrySpec => []RegistrySound
<1>1. GD!RegistryInit => RegistryInv
  BY RegistryStarts
<1>2. RegistryInv /\ [GD!RegistryNext]_(GD!registryVars) => RegistryInv'
  BY RegistryStep
<1>3. RegistryInv => RegistrySound
  BY RegistryInvSuffices
<1> QED
  BY <1>1, <1>2, <1>3, PTL DEF GD!RegistrySpec
=============================================================================
