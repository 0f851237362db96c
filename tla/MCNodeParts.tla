----------------------------- MODULE MCNodeParts -----------------------------
(***************************************************************************)
(* A node's own parts for TLC: the caches of its subscribers, the fusion   *)
(* of channels, blockers, the Node API, the views the discovery keeps of   *)
(* the other processes and its graph of nodes; and services they rest on:  *)
(* the information behind a message, the logger, the clock's Rate and the  *)
(* start of the scheduler from its configuration.  They share nothing      *)
(* here: the first state picks the part a behaviour exercises.             *)
(***************************************************************************)
EXTENDS ChannelBuffer, Sequences, FiniteSets, TLC

CONSTANTS
  Data, Undefined,                                                \* MessageInfo
  ClockWord, Cycles, MaxNow, MaxJumps,                            \* Rate
  Loggers, Levels, log_level, max_filestr, MaxLines, MaxSecond,   \* Logger
  Threads, Contents, Hosts, Groups, Word, Unset, Absent, BadFile, Nothing, \* Config
  Others, MaxFirst, MaxOther,                                     \* DataFusion
  Publishers, CallbackIds, Capacities, DefaultCapacity, MaxPublished, MaxBlockers,
  Callers, NodeObjects, Channels, Remote, Routine(_, _),          \* NodeApi
  NameProcesses, JoinTimes, HomeOf,                               \* NodeNames
  Peers, PeerRoles, MaxReports,                                   \* TopologyManager
  FlowRoles                                                       \* NodeGraph

(* What the proofs of NodeProofs need of the parts' constants.             *)

(* The clock and a delay of two cycles stay far from the ends of int64_t:  *)
(* 2^63 nanoseconds are 292 years.                                         *)
ASSUME RateConstants ==
  /\ ClockWord \in Nat /\ MaxNow \in Nat \ {0, 1} /\ Cycles \subseteq Nat
  /\ \A c \in Cycles : MaxNow + 2 * c < ClockWord \div 2
ASSUME BlockerConstants ==
  Capacities \subseteq Nat /\ DefaultCapacity \in Nat /\ MaxBlockers \in Nat
ASSUME ConfigConstants == Nothing \notin Threads
ASSUME FusionConstants == Others \in Nat
ASSUME ApiConstants == Nothing \notin NodeObjects \X Channels
ASSUME NameConstants ==
  JoinTimes \subseteq Nat \ {0} /\ HomeOf \in [JoinTimes -> NameProcesses]

ASSUME FlowConstants ==
  IsFiniteSet(FlowRoles) /\ \A r \in FlowRoles : r.kind \in {"writer", "reader"}

VARIABLES
  which,                  \* the part this behaviour exercises
  info_sent, words, info_got, path,
  now, start_, expected_cycle_time_, actual_cycle_time_, sleeping, until, asleep,
  jumps, jumped,
  inode, dir, fout, file_len, thread, second, written, collided, crashed,
  files, host, state, host_ip, process_group, global_conf, instance, made, mutex,
  conf_at, obj, inner_thr_confs, classic_conf, cr_confs, task_pool_size,
  processors, level_cpus, inner, outcome,
  stage, first, other, fused, sent, fusing, since, cursor, got,
  manager, blockers, resetting, published, observed, limit, callbacks, count, pub,
  user, subscribed, strayed,
  node, joined_nodes, subscribers, init, task_owner, receiver_map, enabled,
  is_shutdown, publishers, writers, readers, listening, changes, call, null_used,
  owner, told, work, left, overlapped,
  init_, started, participant_listener_, participant_names_, nodes_,
  channel_writers_, channel_readers_, report, closing, reports, joined, open,
  unpaired, swapped, undefined,
  node_writers, node_readers, channel_writers, channel_readers, src, dst, list,
  vertices, disposed, robbed

messages == <<info_sent, words, info_got, path>>
rates == <<now, start_, expected_cycle_time_, actual_cycle_time_, sleeping, until,
           asleep, jumps, jumped>>
logs == <<inode, dir, fout, file_len, thread, second, written, collided, crashed>>
configs == <<files, host, state, host_ip, process_group, global_conf, instance, made,
             mutex, conf_at, obj, inner_thr_confs, classic_conf, cr_confs,
             task_pool_size, processors, level_cpus, inner, outcome>>
fusions == <<stage, first, other, fused, sent, fusing, since, cursor, got>>
blocks == <<manager, blockers, resetting, published, observed, limit, callbacks, count, pub,
            user, subscribed, strayed>>
apis == <<node, joined_nodes, subscribers, init, task_owner, receiver_map, enabled,
          is_shutdown, publishers, writers, readers, listening, changes, call, null_used>>
names == <<owner, told, work, left, overlapped>>
managers == <<init_, started, participant_listener_, participant_names_, nodes_,
              channel_writers_, channel_readers_, report, closing, reports, joined,
              open, unpaired, swapped, undefined>>
graphs == <<node_writers, node_readers, channel_writers, channel_readers, src, dst,
            list, vertices, disposed, robbed>>
partVars == <<vars, messages, rates, logs, configs, fusions, blocks, apis, names, managers,
              graphs>>

InfoHash(id) == 100 + id
Info == INSTANCE MessageInfo WITH Hash <- InfoHash, sent <- info_sent, got <- info_got
Pace == INSTANCE Rate WITH Word <- ClockWord
Log == INSTANCE Logger
Start == INSTANCE Config WITH Malformed <- BadFile, level <- level_cpus

(* What the conversions of a file yield has the types of the fields of     *)
(* SchedulerConf and SchedGroup; a cpuset is a string of numbers.          *)
TypedGroups(groups) ==
  /\ Len(groups) \in Nat
  /\ \A g \in 1 .. Len(groups) :
       groups[g].processor_num \in Nat /\ groups[g].cpuset \in Seq(Seq(Nat))
ASSUME ConfigTypes ==
  \A file \in Contents \ {Absent} : \A c \in Start!GetRcmwConfFromFile(file) :
    /\ c.scheduler_conf.default_proc_num \in Nat
    /\ TypedGroups(c.scheduler_conf.classic_conf.groups)

Fusion == INSTANCE DataFusion

Blocking == INSTANCE Blocker WITH made <- blockers, capacity <- limit

Api == INSTANCE NodeApi WITH Nodes <- NodeObjects, owner <- task_owner, crashed <- null_used

Naming == INSTANCE NodeNames

Manager == INSTANCE TopologyManager WITH Roles <- PeerRoles

Flow == INSTANCE NodeGraph WITH Roles <- FlowRoles, stage <- disposed

Parts == {"info", "rate", "log", "config", "cache", "fusion", "blocker", "api",
          "names", "manager", "graph"}

(* The parts that are not exercised start in one of their initial states. *)
PartInit ==
  /\ \/ which = "info" /\ Info!InfoInit
     \/ /\ which # "info" /\ info_sent = Undefined /\ words = <<>>
        /\ info_got = Undefined /\ path = "shm"
  /\ Pace!RateInit
  /\ which # "rate" => now = 1 /\ \A c \in Cycles : expected_cycle_time_ <= c
  /\ Log!LogInit
  /\ Start!ConfigInit
  /\ which # "config" => files = [place \in DOMAIN files |-> Absent]
  /\ Init
  /\ Fusion!FusionInit /\ Blocking!BlockerInit /\ Api!ApiInit /\ Naming!NameInit
  /\ Manager!ManagerInit /\ (which # "manager" => init_)
  /\ Flow!GraphInit

PartNext ==
  \/ /\ which = "info" /\ Info!InfoNext
     /\ UNCHANGED <<vars, rates, logs, configs, fusions, blocks,
                    apis, names, managers, graphs>>
  \/ /\ which = "rate" /\ Pace!RateNext
     /\ UNCHANGED <<vars, messages, logs, configs, fusions, blocks,
                    apis, names, managers, graphs>>
  \/ /\ which = "log" /\ Log!LogNext
     /\ UNCHANGED <<vars, messages, rates, configs, fusions, blocks,
                    apis, names, managers, graphs>>
  \/ /\ which = "config" /\ Start!ConfigNext
     /\ UNCHANGED <<vars, messages, rates, logs, fusions, blocks,
                    apis, names, managers, graphs>>
  \/ /\ which = "cache" /\ Next
     /\ UNCHANGED <<messages, rates, logs, configs, fusions, blocks,
                    apis, names, managers, graphs>>
  \/ /\ which = "fusion" /\ Fusion!FusionNext
     /\ UNCHANGED <<vars, messages, rates, logs, configs, blocks,
                    apis, names, managers, graphs>>
  \/ /\ which = "blocker" /\ Blocking!BlockerNext
     /\ UNCHANGED <<vars, messages, rates, logs, configs, fusions,
                    apis, names, managers, graphs>>
  \/ /\ which = "api" /\ Api!ApiNext
     /\ UNCHANGED <<vars, messages, rates, logs, configs, fusions,
                    blocks, names, managers, graphs>>
  \/ /\ which = "names" /\ Naming!NameNext
     /\ UNCHANGED <<vars, messages, rates, logs, configs, fusions,
                    blocks, apis, managers, graphs>>
  \/ /\ which = "manager" /\ Manager!ManagerNext
     /\ UNCHANGED <<vars, messages, rates, logs, configs, fusions,
                    blocks, apis, names, graphs>>
  \/ /\ which = "graph" /\ Flow!GraphNext
     /\ UNCHANGED <<vars, messages, rates, logs, configs, fusions,
                    blocks, apis, names, managers>>
-----------------------------------------------------------------------------
(* Configuration files: none, not JSON, without a scheduler, a policy and  *)
(* a boolean for a number, members of the wrong type, and groups with and  *)
(* without cpus.                                                           *)
JsonOf(t, v) == [t |-> t, v |-> v]
SchedulerConf(f) == JsonOf("object", [scheduler_conf |-> JsonOf("object", f)])
ConfGroup(n, k, affinity, cpus) ==
  JsonOf("object",
    [name |-> JsonOf("string", n), processor_num |-> JsonOf("number", k),
     affinity |-> JsonOf("string", affinity), cpuset |-> JsonOf("string", cpus),
     tasks |-> JsonOf("array", <<JsonOf("object", [name |-> JsonOf("string", "b"),
                                                   prio |-> JsonOf("number", 1)])>>)])
ClassicConf(groups) == JsonOf("object", [groups |-> JsonOf("array", groups)])
InnerThreads ==
  <<JsonOf("object", [name |-> JsonOf("string", "shm"),
                      cpuset |-> JsonOf("string", << <<1, 2, 3>> >>)]),
    JsonOf("object", [name |-> JsonOf("string", "async_log"),
                      cpuset |-> JsonOf("string", << <<1>> >>),
                      prio |-> JsonOf("number", -1)])>>
MCContents ==
  {Absent, BadFile, JsonOf("object", [transport |-> JsonOf("number", 1)]),
   SchedulerConf([default_proc_num |-> JsonOf("boolean", TRUE), policy |-> JsonOf("string", "classic")]),
   SchedulerConf([classic_conf |-> JsonOf("array", <<>>), threads |-> JsonOf("number", 1)]),
   SchedulerConf([classic_conf |-> ClassicConf(<<ConfGroup("g", 1, "range", << <<1, 2, 3>> >>)>>)]),
   SchedulerConf(
     [classic_conf |-> ClassicConf(<<ConfGroup("g", 2, "1to1", << <<0, 1>> >>),
                                     ConfGroup("h", 3, "1to1", << <<2>>, <<4, 5>> >>),
                                     ConfGroup("k", 1, "range", <<>>)>>),
      process_level_cpuset |-> JsonOf("string", << <<0, 3>> >>),
      threads |-> JsonOf("array", InnerThreads)])}
MCHosts == {[env |-> Unset, interfaces |-> <<"127", "10.0.0.1">>]}

(* All subscribers of a channel get one coroutine name, as nodes of one    *)
(* name do in the code.                                                    *)
MCRoutine(n, c) == c

(* The second node of the name is the first process's. *)
MCHomeOf == [n \in JoinTimes |-> IF n = 2 THEN "q1" ELSE "q2"]

(* Two processes with a node each, of one name, q's the earlier; q has a   *)
(* reader and a writer with the ids of p's.                                *)
Role(n, p, c, i, k, t) ==
  [node_id |-> n, process_id |-> p, channel_id |-> c, id |-> i, kind |-> k, since |-> t]
MCPeerRoles ==
  {Role(1, "p", 0, 0, "node", 2), Role(1, "p", 1, 1, "writer", 3), Role(1, "q", 0, 0, "node", 1),
   Role(2, "q", 1, 2, "reader", 1), Role(1, "q", 1, 1, "writer", 1)}

(* A node with two writers of a channel that it reads as well, and two     *)
(* edges of it under one key, "x_y_z".                                     *)
Edge(n, c, k, i) == [node |-> n, channel |-> c, kind |-> k, id |-> i]
MCFlowRoles ==
  {Edge("y_z", "x", "writer", 1), Edge("y_z", "x", "writer", 2), Edge("y_z", "x", "reader", 3),
   Edge("y_z", "x_y", "writer", 4), Edge("z", "x_y", "reader", 5)}
-----------------------------------------------------------------------------
(* Rate::Sleep waits for a cycle at most, however late it is called and    *)
(* however the clock was set, and leaves at most a cycle to be made up.    *)
KeepsThePace == Pace!KeepsThePace

(* A line written to the log stays in one file, once, through rotations.   *)
LinesKept == Log!LinesKept

(* Threads that ask for the scheduler first construct one, and its         *)
(* processors are bound to cpus of their own group, one each in 1to1.      *)
SchedulerConfigured == Start!OneScheduler /\ Start!PinnedInside

(* What a visitor of several channels fetches moves forward in all of      *)
(* them, and pairs messages that were the latest at one time (AllLatest).  *)
FusionMovesForward == Fusion!FusionMovesForward

(* What a Blocker holds is a run of messages down from the newest, and no  *)
(* callback runs after its Unsubscribe or a Reset has returned, but for a  *)
(* Subscribe that overlapped with a Reset.                                 *)
BlockersOrderly == Blocking!HistoryUnbroken /\ Blocking!UnsubscribedIsQuiet

(* A subscriber that was created has its own coroutine, whatever its       *)
(* namesakes do, and a receiver enabled for every writer of its channel.   *)
SubscribersServed == Api!OwnsItsTask /\ Api!KnowsWriters

(* The node graph says that messages flow from a node to another exactly   *)
(* if they do through writers and readers that are present.                *)
FlowExact == Flow!FlowExact

(***************************************************************************)
(* What a process keeps of the others follows the reports: the earliest    *)
(* node of a name stays, a participant's leave is signalled once and after *)
(* its join, and takes along no role that another process had when its     *)
(* roles were searched.                                                    *)
(***************************************************************************)
PeersTracked ==
  [](Naming!EarliestKept /\ Manager!LeaveFollowsJoin) /\ Manager!OthersKept
=============================================================================
