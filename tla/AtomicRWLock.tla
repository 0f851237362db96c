---------------------------- MODULE AtomicRWLock ----------------------------
(***************************************************************************)
(* base::AtomicRWLock (base/atomic_rw_lock.h) under its guards             *)
(* (base/rw_lock_guard.h): every atomic load, exchange and addition is a   *)
(* step of its own.  The retry counters only decide when a spinning thread *)
(* yields and are left out.  A weak exchange fails only on a word that     *)
(* differs, as on x86-64, the machine of croutine/swap_x86_64.S.           *)
(***************************************************************************)
EXTENDS Integers, FiniteSets

CONSTANT Threads   \* the threads that share the lock

ASSUME ThreadsFinite == IsFiniteSet(Threads)

VARIABLES
  write_first,     \* write_first_, given to the constructor
  lock_num,        \* lock_num_
  wait_num,        \* write_lock_wait_num_
  at,              \* where each thread is
  seen             \* its local lock_num

lockVars == <<write_first, lock_num, wait_num, at, seen>>

RW_LOCK_FREE == 0
WRITE_EXCLUSIVE == -1

LockInit ==
  /\ write_first \in BOOLEAN
  /\ lock_num = RW_LOCK_FREE /\ wait_num = 0
  /\ at = [t \in Threads |-> "out"]
  /\ seen = [t \in Threads |-> RW_LOCK_FREE]

Move(t, from, to) == at[t] = from /\ at' = [at EXCEPT ![t] = to]

(* ReadLock: the first load, and the one of each round of the inner loop. *)
ReadLockLoad(t) ==
  /\ Move(t, "out", "test") \/ Move(t, "spin", "test")
  /\ seen' = [seen EXCEPT ![t] = lock_num]
  /\ UNCHANGED <<write_first, lock_num, wait_num>>

(* Fault: waiting writers are not looked at. *)
ReadLockTestIgnoringWriters(t) ==
  /\ Move(t, "test", IF seen[t] < RW_LOCK_FREE THEN "spin" ELSE "join")
  /\ UNCHANGED <<write_first, lock_num, wait_num, seen>>

ReadLockTest(t) ==
  /\ Move(t, "test", IF seen[t] < RW_LOCK_FREE \/ (write_first /\ wait_num > 0)
                       THEN "spin" ELSE "join")
  /\ UNCHANGED <<write_first, lock_num, wait_num, seen>>

(* Fault: the reader stores its count instead of exchanging it. *)
ReadLockExchangeByStore(t) ==
  /\ Move(t, "join", "reading")
  /\ lock_num' = seen[t] + 1
  /\ UNCHANGED <<write_first, wait_num, seen>>

(* compare_exchange_weak(lock_num, lock_num + 1). *)
ReadLockExchange(t) ==
  /\ \/ /\ lock_num = seen[t]
        /\ Move(t, "join", "reading")
        /\ lock_num' = lock_num + 1
        /\ UNCHANGED seen
     \/ /\ lock_num # seen[t]
        /\ Move(t, "join", "test")
        /\ seen' = [seen EXCEPT ![t] = lock_num]
        /\ UNCHANGED lock_num
  /\ UNCHANGED <<write_first, wait_num>>

ReadUnlock(t) ==
  /\ Move(t, "reading", "out")
  /\ lock_num' = lock_num - 1
  /\ UNCHANGED <<write_first, wait_num, seen>>

WriteLockWait(t) ==
  /\ Move(t, "out", "claim")
  /\ wait_num' = wait_num + 1
  /\ UNCHANGED <<write_first, lock_num, seen>>

(* The exchange RW_LOCK_FREE -> WRITE_EXCLUSIVE; a failed one is retried. *)
WriteLockExchange(t) ==
  /\ lock_num = RW_LOCK_FREE
  /\ Move(t, "claim", "claimed")
  /\ lock_num' = WRITE_EXCLUSIVE
  /\ UNCHANGED <<write_first, wait_num, seen>>

WriteLockEntered(t) ==
  /\ Move(t, "claimed", "writing")
  /\ wait_num' = wait_num - 1
  /\ UNCHANGED <<write_first, lock_num, seen>>

WriteUnlock(t) ==
  /\ Move(t, "writing", "out")
  /\ lock_num' = lock_num + 1
  /\ UNCHANGED <<write_first, wait_num, seen>>

(* What a thread inside ReadLock, WriteLock or a guard's scope goes on to do. *)
LockStep(t) ==
  \/ at[t] # "out" /\ ReadLockLoad(t)
  \/ ReadLockTest(t) \/ ReadLockExchange(t) \/ ReadUnlock(t)
  \/ WriteLockExchange(t) \/ WriteLockEntered(t) \/ WriteUnlock(t)

LockNext == \E t \in Threads : ReadLockLoad(t) \/ WriteLockWait(t) \/ LockStep(t)

LockSpec == LockInit /\ [][LockNext]_lockVars

-----------------------------------------------------------------------------
Reading == {t \in Threads : at[t] = "reading"}
Writing == {t \in Threads : at[t] \in {"claimed", "writing"}}

LockTypeOK ==
  /\ write_first \in BOOLEAN
  /\ lock_num \in Int /\ wait_num \in Int
  /\ at \in [Threads -> {"out", "test", "spin", "join", "reading",
                         "claim", "claimed", "writing"}]
  /\ seen \in [Threads -> Int]

(***************************************************************************)
(* ReadLock and WriteLock exclude: the word lock_num_ is -1 with one       *)
(* writer and nobody else inside, or counts exactly the readers inside,    *)
(* whatever exchanges fail and retry.                                      *)
(***************************************************************************)
LockExclusion ==
  \/ lock_num = WRITE_EXCLUSIVE /\ Reading = {} /\ \E t \in Threads : Writing = {t}
  \/ lock_num = Cardinality(Reading) /\ Writing = {}

(***************************************************************************)
(* Write first: once a writer waits, readers that come later stand back,   *)
(* so that a writer (this one or another) gets in however many readers     *)
(* come and go.  Without write_first_ the code promises no such thing.     *)
(***************************************************************************)
WriterGetsIn ==
  (write_first /\ \E t \in Threads : at[t] = "claim") ~> Writing # {}
=============================================================================
