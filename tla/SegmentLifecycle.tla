-------------------------- MODULE SegmentLifecycle --------------------------
(***************************************************************************)
(* How the processes of one channel create, attach to, replace and remove  *)
(* its shared-memory segment: Segment::AcquireBlockToWrite/Read, Remap,    *)
(* Recreate and Destory (transport/shm/segment.cpp), the reference count   *)
(* and the remap flag of State (state.h), the two backends                 *)
(* (xsi_segment.cpp, posix_segment.cpp) and the size classes of shm_conf.  *)
(* ShmSegment models the blocks of one segment; here a segment is replaced *)
(* while others use it.                                                    *)
(*                                                                         *)
(* A segment is numbered when it is created.  The key (shmget) or the name *)
(* (shm_open) denotes at most one of them; an attached process keeps using *)
(* a segment whose key was removed.  Sizes are in KB.  SegmentFactory only *)
(* makes XsiSegment objects; the POSIX backend is the alternative its test *)
(* names.  Reset and the pointer arithmetic are local to the process and   *)
(* part of the step that follows them.                                     *)
(***************************************************************************)
EXTENDS Integers, FiniteSets

CONSTANTS
  Processes,      \* each has one Segment object of the channel
  MessageSizes,   \* the sizes of the messages written, in KB
  Indexes,        \* the block indexes announced to readers
  MaxSegments,    \* bound on the segments created
  MaxAcquires,    \* bound on the calls of Acquire...
  MaxFaults       \* bound on failing system calls and killed processes

VARIABLES
  backend,        \* "xsi" or "posix"
  key,            \* the segment the key or name denotes, 0 if none
  made,           \* the number of segments created
  space,          \* the size class whose memory each segment has, 0 before ftruncate
  ceiling,        \* ceiling_msg_size_ in each segment's State, 0 before it is built
  reference_count, need_remap,   \* the other fields of State
  init, conf, mapped,            \* init_, conf_.ceiling_msg_size_, managed_shm_
  pc, then,       \* where a process is; where OpenOnly/OpenOrCreate returns to
  arg,            \* the size or the index the caller passed
  retry,          \* OpenOrCreate's local
  early,          \* history: segments opened before their State was built
  lost,           \* history: references of killed processes
  raced,          \* history: segments opened while their last user removes the key,
                  \* or whose key was taken by a process of another segment
  orphaned,       \* history: segments whose process was killed in between
  faults, acquires

lifeVars == <<backend, key, made, space, ceiling, reference_count, need_remap, init,
              conf, mapped, pc, then, arg, retry, early, lost, raced,
              orphaned, faults, acquires>>

segmentVars == <<ceiling, reference_count, need_remap>>
processVars == <<init, conf, mapped>>
historyVars == <<early, lost, raced, orphaned, faults, acquires>>
raceVars == <<raced, orphaned>>

Segments == 1 .. MaxSegments

(* The size classes of ShmConf and the number of blocks of each. *)
SizeClasses == <<16, 128, 1024, 8192, 16384, 32768>>
BlockNums == <<512, 128, 64, 32, 16, 8>>

GetCeilingMessageSize(size) ==
  IF \E i \in 1 .. 6 : size <= SizeClasses[i]
  THEN SizeClasses[CHOOSE i \in 1 .. 6 : /\ size <= SizeClasses[i]
                                         /\ \A j \in 1 .. i - 1 : size > SizeClasses[j]]
  ELSE SizeClasses[6]

GetBlockNum(c) == BlockNums[CHOOSE i \in 1 .. 6 : SizeClasses[i] = c]

LifeInit ==
  /\ backend \in {"xsi", "posix"}
  /\ key = 0 /\ made = 0
  /\ space = [s \in Segments |-> 0]
  /\ ceiling = [s \in Segments |-> 0]
  /\ reference_count = [s \in Segments |-> 0]
  /\ need_remap = [s \in Segments |-> FALSE]
  /\ init = [p \in Processes |-> FALSE]
  /\ conf = [p \in Processes |-> GetCeilingMessageSize(16)]
  /\ mapped = [p \in Processes |-> 0]
  /\ pc = [p \in Processes |-> "idle"]
  /\ then = [p \in Processes |-> "idle"]
  /\ arg = [p \in Processes |-> 0]
  /\ retry = [p \in Processes |-> 0]
  /\ early = {} /\ lost = [s \in Segments |-> 0] /\ raced = {} /\ orphaned = {}
  /\ faults = 0 /\ acquires = 0

Jump(p, from, to) == pc[p] = from /\ pc' = [pc EXCEPT ![p] = to]

(* OpenOnly or OpenOrCreate returns false: AcquireBlockToWrite still compares *)
(* the size after a failed Remap, every other caller returns false.           *)
Failed(p) == pc' = [pc EXCEPT ![p] = IF then[p] = "fit" THEN "misfit" ELSE "idle"]

FailNow == faults < MaxFaults /\ faults' = faults + 1

(* Remove takes the key from whatever segment has it by now. *)
Remove(meant) ==
  /\ key' = 0
  /\ raced' = raced \cup ({key} \ (meant \cup {0}))

-----------------------------------------------------------------------------
(* OpenOnly and OpenOrCreate. *)

(* shmget or shm_open with the EXCL flag: it exists, so OpenOnly. *)
CreateExists(p) ==
  /\ key # 0
  /\ Jump(p, "create", "open")
  /\ UNCHANGED <<backend, key, made, space, segmentVars, processVars, then, arg, retry, historyVars>>

Create(p) ==
  /\ key = 0 /\ made < MaxSegments /\ retry[p] < 2
  /\ Jump(p, "create", IF backend = "xsi" THEN "build" ELSE "truncate")
  /\ made' = made + 1 /\ key' = made + 1
  /\ space' = IF backend = "xsi" THEN [space EXCEPT ![made + 1] = conf[p]] ELSE space
  /\ mapped' = [mapped EXCEPT ![p] = made + 1]
  /\ UNCHANGED <<backend, segmentVars, init, conf, then, arg, retry, historyVars>>

(* The system refuses the size (EINVAL): Reset, then "removing" and a second try. *)
CreateRefused(p) ==
  /\ key = 0 /\ FailNow
  /\ IF backend = "xsi" /\ retry[p] < 2
     THEN Jump(p, "create", "refused")
     ELSE pc[p] = "create" /\ Failed(p)
  /\ UNCHANGED <<backend, key, made, space, segmentVars, processVars, then, arg, retry, early, lost, acquires, raceVars>>

RemoveRefused(p) ==
  /\ Jump(p, "refused", "create")
  /\ Remove({})
  /\ retry' = [retry EXCEPT ![p] = @ + 1]
  /\ UNCHANGED <<backend, made, space, segmentVars, processVars, then, arg, early, lost,
                 orphaned, faults, acquires>>

CreateGivesUp(p) ==
  /\ pc[p] = "create" /\ retry[p] = 2 /\ key = 0 /\ Failed(p)
  /\ UNCHANGED <<backend, key, made, space, segmentVars, processVars, then, arg, retry, historyVars>>

(* PosixSegment: ftruncate gives the object its size; if it fails the name stays. *)
Truncate(p) ==
  /\ \/ /\ Jump(p, "truncate", "build")
        /\ space' = [space EXCEPT ![mapped[p]] = conf[p]]
        /\ UNCHANGED <<mapped, faults>>
     \/ /\ pc[p] = "truncate" /\ Failed(p) /\ FailNow
        /\ mapped' = [mapped EXCEPT ![p] = 0]
        /\ UNCHANGED space
  /\ UNCHANGED <<backend, key, made, segmentVars, init, conf, then, arg, retry, early, lost, acquires, raceVars>>

(* shmat or mmap fails after the creation: the segment is removed again. *)
BuildFails(p) ==
  /\ pc[p] = "build" /\ Failed(p) /\ FailNow
  /\ IF backend = "posix" \/ key = mapped[p] THEN Remove({mapped[p]})
                                             ELSE UNCHANGED <<key, raced>>
  /\ mapped' = [mapped EXCEPT ![p] = 0]
  /\ UNCHANGED <<backend, made, space, segmentVars, init, conf, then, arg, retry, early, lost,
                 orphaned, acquires>>

(* State is constructed in the new memory (its count and flag start afresh) *)
(* and the blocks after it.                                                 *)
Build(p) ==
  /\ Jump(p, "build", "increase")
  /\ ceiling' = [ceiling EXCEPT ![mapped[p]] = conf[p]]
  /\ reference_count' = [reference_count EXCEPT ![mapped[p]] = 0]
  /\ need_remap' = [need_remap EXCEPT ![mapped[p]] = FALSE]
  /\ UNCHANGED <<backend, key, made, space, processVars, then, arg, retry, historyVars>>

OpenFails(p) ==
  /\ pc[p] = "open" /\ Failed(p)
  /\ \/ (IF key = 0 THEN TRUE ELSE space[key] = 0) /\ UNCHANGED faults
     \/ FailNow
  /\ UNCHANGED <<backend, key, made, space, segmentVars, processVars, then, arg, retry, early, lost, acquires, raceVars>>

(* Attach to the segment of the key and take the size its State says. *)
OpenOnly(p) ==
  /\ key # 0 /\ space[key] # 0
  /\ Jump(p, "open", "increase")
  /\ mapped' = [mapped EXCEPT ![p] = key]
  /\ conf' = [conf EXCEPT ![p] = GetCeilingMessageSize(ceiling[key])]
  /\ early' = IF ceiling[key] = 0 THEN early \cup {key} ELSE early
  /\ raced' = IF \E q \in Processes : pc[q] = "unlink" /\ mapped[q] = key
              THEN raced \cup {key} ELSE raced
  /\ UNCHANGED <<backend, key, made, space, segmentVars, init, then, arg, retry, lost, orphaned,
                 faults, acquires>>

IncreaseReferenceCount(p) ==
  /\ Jump(p, "increase", then[p])
  /\ reference_count' = [reference_count EXCEPT ![mapped[p]] = @ + 1]
  /\ init' = [init EXCEPT ![p] = TRUE]
  /\ UNCHANGED <<backend, key, made, space, ceiling, need_remap, conf, mapped, then, arg, retry, historyVars>>

-----------------------------------------------------------------------------
(* AcquireBlockToWrite and AcquireBlockToRead. *)

(* !init_ && !OpenOrCreate(). *)
Acquire(p, to, a) ==
  /\ acquires < MaxAcquires /\ acquires' = acquires + 1
  /\ Jump(p, "idle", IF init[p] THEN to ELSE "create")
  /\ then' = [then EXCEPT ![p] = to]
  /\ arg' = [arg EXCEPT ![p] = a]
  /\ retry' = [retry EXCEPT ![p] = 0]
  /\ UNCHANGED <<backend, key, made, space, segmentVars, processVars, early, lost, faults, raceVars>>

AcquireBlockToWrite(p) == \E size \in MessageSizes : Acquire(p, "flag", size)

AcquireBlockToRead(p) == \E i \in Indexes : Acquire(p, "range", i)

(* Remap: detach without giving the reference back, then OpenOnly. *)
RemapIfNeeded(p, from, to) ==
  /\ pc[p] = from
  /\ IF need_remap[mapped[p]]
     THEN /\ Jump(p, from, "open")
          /\ mapped' = [mapped EXCEPT ![p] = 0]
          /\ init' = [init EXCEPT ![p] = FALSE]
          /\ then' = [then EXCEPT ![p] = to]
     ELSE /\ Jump(p, from, to)
          /\ UNCHANGED <<mapped, init, then>>
  /\ UNCHANGED <<backend, key, made, space, segmentVars, conf, arg, retry, historyVars>>

WriterRemap(p) == RemapIfNeeded(p, "flag", "fit")

WriteFitsAlready(p) ==
  /\ arg[p] <= conf[p]
  /\ \/ Jump(p, "fit", "write")
     \/ Jump(p, "misfit", "idle")
  /\ UNCHANGED <<backend, key, made, space, segmentVars, processVars, then, arg, retry, historyVars>>

(* Recreate: flag the segment of this process, detach from it ... *)
Recreate(p) ==
  /\ arg[p] > conf[p]
  /\ Jump(p, "fit", "remove")
  /\ init' = [init EXCEPT ![p] = FALSE]
  /\ need_remap' = [need_remap EXCEPT ![mapped[p]] = TRUE]
  /\ mapped' = [mapped EXCEPT ![p] = 0]
  /\ UNCHANGED <<backend, key, made, space, ceiling, reference_count, conf, then, arg, retry, historyVars>>

(* ... remove the segment that has the key by now, and create one that is large enough. *)
RecreateRemove(p) ==
  /\ Jump(p, "remove", "create")
  /\ Remove({s \in Segments : need_remap[s]})
  /\ conf' = [conf EXCEPT ![p] = GetCeilingMessageSize(arg[p])]
  /\ then' = [then EXCEPT ![p] = "write"]
  /\ retry' = [retry EXCEPT ![p] = 0]
  /\ UNCHANGED <<backend, made, space, segmentVars, init, mapped, arg, early, lost, orphaned,
                 faults, acquires>>

CheckIndex(p) ==
  /\ Jump(p, "range", IF arg[p] < GetBlockNum(conf[p]) THEN "stale" ELSE "idle")
  /\ UNCHANGED <<backend, key, made, space, segmentVars, processVars, then, arg, retry, historyVars>>

ReaderRemap(p) == RemapIfNeeded(p, "stale", "read")

(* The block is locked, used and released. *)
UseBlock(p) ==
  /\ \/ Jump(p, "write", "idle")
     \/ Jump(p, "read", "idle")
  /\ UNCHANGED <<backend, key, made, space, segmentVars, processVars, then, arg, retry, historyVars>>

-----------------------------------------------------------------------------
(* Destory and the end of a process. *)

(* Fault: the reference is not given back. *)
DestoryKeeping(p) ==
  /\ init[p]
  /\ Jump(p, "idle", "counted")
  /\ init' = [init EXCEPT ![p] = FALSE]
  /\ UNCHANGED <<backend, key, made, space, segmentVars, conf, mapped, then, arg, retry, historyVars>>

(* DecreaseReferenceCount stops at zero. *)
Destory(p) ==
  /\ init[p]
  /\ Jump(p, "idle", "counted")
  /\ init' = [init EXCEPT ![p] = FALSE]
  /\ reference_count' =
       [reference_count EXCEPT ![mapped[p]] = IF @ = 0 THEN 0 ELSE @ - 1]
  /\ UNCHANGED <<backend, key, made, space, ceiling, need_remap, conf, mapped, then, arg, retry, historyVars>>

(* The count is read again, while others may be about to add theirs; at zero *)
(* the key is removed.  Then the object is gone, and the next one of this     *)
(* process starts afresh.                                                     *)
DestoryRead(p) ==
  /\ pc[p] = "counted"
  /\ IF reference_count[mapped[p]] = 0
     THEN /\ Jump(p, "counted", "unlink")
          /\ raced' = IF \E q \in Processes : pc[q] = "increase" /\ mapped[q] = mapped[p]
                      THEN raced \cup {mapped[p]} ELSE raced
          /\ UNCHANGED mapped
     ELSE /\ Jump(p, "counted", "idle")
          /\ mapped' = [mapped EXCEPT ![p] = 0]
          /\ UNCHANGED raced
  /\ conf' = [conf EXCEPT ![p] = GetCeilingMessageSize(16)]
  /\ UNCHANGED <<backend, key, made, space, segmentVars, init, then, arg, retry, early, lost,
                 orphaned, faults, acquires>>

DestoryRemove(p) ==
  /\ Jump(p, "unlink", "idle")
  /\ Remove({mapped[p]})
  /\ mapped' = [mapped EXCEPT ![p] = 0]
  /\ UNCHANGED <<backend, made, space, segmentVars, init, conf, then, arg, retry, early, lost,
                 orphaned, faults, acquires>>

(* The process dies and is restarted: killed, or by Recreate's use of the     *)
(* null state_ a failed Remap leaves behind.  Its reference is never returned. *)
Die(p) ==
  /\ \/ FailNow
     \/ pc[p] = "misfit" /\ arg[p] > conf[p] /\ UNCHANGED faults
  /\ pc' = [pc EXCEPT ![p] = "idle"]
  /\ init' = [init EXCEPT ![p] = FALSE]
  /\ conf' = [conf EXCEPT ![p] = GetCeilingMessageSize(16)]
  /\ mapped' = [mapped EXCEPT ![p] = 0]
  /\ IF init[p] THEN lost' = [lost EXCEPT ![mapped[p]] = @ + 1] /\ UNCHANGED orphaned
                ELSE orphaned' = orphaned \cup ({mapped[p]} \ {0}) /\ UNCHANGED lost
  /\ UNCHANGED <<backend, key, made, space, segmentVars, then, arg, retry, early, raced, acquires>>

LifeNext ==
  \E p \in Processes :
     \/ CreateExists(p) \/ Create(p) \/ CreateRefused(p) \/ RemoveRefused(p) \/ CreateGivesUp(p)
     \/ Truncate(p) \/ BuildFails(p) \/ Build(p) \/ OpenFails(p) \/ OpenOnly(p)
     \/ IncreaseReferenceCount(p) \/ AcquireBlockToWrite(p) \/ AcquireBlockToRead(p)
     \/ WriterRemap(p) \/ WriteFitsAlready(p) \/ Recreate(p) \/ RecreateRemove(p)
     \/ CheckIndex(p) \/ ReaderRemap(p) \/ UseBlock(p)
     \/ Destory(p) \/ DestoryRead(p) \/ DestoryRemove(p) \/ Die(p)

LifeSpec == LifeInit /\ [][LifeNext]_lifeVars

-----------------------------------------------------------------------------
(* The references of a segment are those of its users and the ones dead    *)
(* processes left, and more only once it is flagged: Remap gives none      *)
(* back.  Excepted are segments opened before their State was built.       *)
Users(s) == {p \in Processes : init[p] /\ mapped[p] = s}

ReferenceExact ==
  \A s \in Segments \ early :
    /\ reference_count[s] >= lost[s] + Cardinality(Users(s))
    /\ ~ need_remap[s] => reference_count[s] = lost[s] + Cardinality(Users(s))

(* A segment in use keeps its key until it is flagged, unless it was opened *)
(* while its last user removed it or lost the key to another's Remove ...   *)
RemovedNotBefore ==
  \A p \in Processes :
    init[p] /\ ~ need_remap[mapped[p]] /\ mapped[p] \notin early \cup raced => key = mapped[p]

(* ... and a segment without references is about to get one or to go,      *)
(* unless the process was killed that would have seen to it.               *)
RemovedWithLastUser ==
  key # 0 /\ ceiling[key] # 0 /\ key \notin early \cup orphaned /\ reference_count[key] = 0 =>
    \E p \in Processes : mapped[p] = key /\ pc[p] \in {"increase", "counted", "unlink"}

(* An object that is attached lays the blocks out as the creator did, and a *)
(* reader locks a block its segment has, unless the segment was opened      *)
(* before its State was built or replaced within the same call.             *)
GeometryAgrees ==
  \A p \in Processes : init[p] /\ mapped[p] \notin early =>
    /\ conf[p] = ceiling[mapped[p]]
    /\ pc[p] = "read" /\ then[p] # "read" => arg[p] < GetBlockNum(conf[p])
=============================================================================
