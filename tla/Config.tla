------------------------------- MODULE Config -------------------------------
(***************************************************************************)
(* How a process configures itself: GlobalData at Init, then the scheduler *)
(* at the first use of scheduler::Instance(), which reads the file of the  *)
(* process group, creates the processors of its groups and pins their      *)
(* threads.  Several threads may ask for the scheduler first.              *)
(*                                                                         *)
(* A file is Absent, Malformed (not JSON: `file >> j` throws) or a JSON    *)
(* value [t, v].  A conversion is the set of its results: empty when it    *)
(* throws.  Nothing catches what a conversion throws, so the process ends. *)
(* A cpuset string is the sequence of its comma-separated parts, each the  *)
(* sequence of its dash-separated numbers.                                 *)
(***************************************************************************)
EXTENDS Integers, Sequences, FiniteSets

CONSTANTS
    Threads,       \* threads that ask for the scheduler
    Contents,      \* what a configuration file may hold
    Hosts,         \* [env, interfaces]: RCMW_IP and the addresses found
    Groups,        \* names given to SetProcessGroup
    Word,          \* 2^32, scaled down
    Unset, Absent, Malformed, Nothing

VARIABLES
    files,         \* conf/rcmw.pb.conf and, by process group, the two places
                   \* its file is looked for
    host,          \* what the host answers
    state,         \* rcmw::State
    host_ip, process_group, global_conf,
    instance,      \* the scheduler the factory published, or 0
    made,          \* how many schedulers were constructed
    mutex,         \* the thread in the factory's critical section
    conf_at, obj,  \* per thread: its place in Instance() and its local
    inner_thr_confs, classic_conf, cr_confs, task_pool_size,
    processors,    \* [group, cpus, policy, prio] of each processor thread
    level,         \* the cpus of the thread that built the scheduler
    inner,         \* [name, cpus, sched] of the inner threads set up so far
    outcome        \* "runs", "terminated" (an exception) or "exited"

globalVars == <<state, host_ip, process_group, global_conf>>
schedVars == <<inner_thr_confs, classic_conf, cr_confs, task_pool_size,
               processors, level, inner>>
factoryVars == <<instance, made, mutex, conf_at, obj>>
configVars == <<files, host, globalVars, factoryVars, schedVars, outcome>>

-----------------------------------------------------------------------------
(* nlohmann::json conversions. *)

\* contains: false for anything but an object that has the key.
Contains(j, key) == j.t = "object" /\ key \in DOMAIN j.v

\* from_json for std::string, for 32-bit numbers (a number is cut to the
\* width, a boolean is 0 or 1), for a vector.
GetString(j) == IF j.t = "string" THEN {j.v} ELSE {}

GetArithmetic(j) ==
    IF j.t = "boolean" THEN {IF j.v THEN 1 ELSE 0}
    ELSE IF j.t = "number" THEN {j.v} ELSE {}

GetUint32(j) == {v % Word : v \in GetArithmetic(j)}

GetInt32(j) == {IF 2 * u < Word THEN u ELSE u - Word : u \in GetUint32(j)}

GetVector(j, Conv(_)) ==
    IF j.t # "array" THEN {}
    ELSE {s \in [1..Len(j.v) -> UNION {Conv(j.v[i]) : i \in 1..Len(j.v)}] :
            \A i \in 1..Len(j.v) : s[i] \in Conv(j.v[i])}

\* `if (j.contains(key)) j.at(key).get_to(field)`: a missing key keeps the
\* default.
GetTo(j, key, Conv(_), default) ==
    IF Contains(j, key) THEN Conv(j.v[key]) ELSE {default}

-----------------------------------------------------------------------------
(* conf_parse.cpp. *)

InnerThreadOf(j) ==
    [name : GetTo(j, "name", GetString, ""),
     cpuset : GetTo(j, "cpuset", GetString, <<>>),
     policy : GetTo(j, "policy", GetString, ""),
     prio : GetTo(j, "prio", GetUint32, 0)]

ClassicTaskOf(j) ==
    [name : GetTo(j, "name", GetString, ""),
     prio : GetTo(j, "prio", GetUint32, 0),
     group_name : GetTo(j, "group_name", GetString, "")]

TasksOf(j) == GetVector(j, ClassicTaskOf)

SchedGroupOf(j) ==
    [name : GetTo(j, "name", GetString, ""),
     processor_num : GetTo(j, "processor_num", GetUint32, 0),
     affinity : GetTo(j, "affinity", GetString, ""),
     cpuset : GetTo(j, "cpuset", GetString, <<>>),
     processor_policy : GetTo(j, "processor_policy", GetString, ""),
     processor_prio : GetTo(j, "processor_prio", GetInt32, 0),
     tasks : GetTo(j, "tasks", TasksOf, <<>>)]

GroupsOf(j) == GetVector(j, SchedGroupOf)

ClassicConfOf(j) == [groups : GetTo(j, "groups", GroupsOf, <<>>)]

ThreadsOf(j) == GetVector(j, InnerThreadOf)

NoClassicConf == [groups |-> <<>>]

SchedulerConfOf(j) ==
    [policy : GetTo(j, "policy", GetString, ""),
     routine_num : GetTo(j, "routine_num", GetUint32, 0),
     default_proc_num : GetTo(j, "default_proc_num", GetUint32, 0),
     process_level_cpuset : GetTo(j, "process_level_cpuset", GetString, <<>>),
     threads : GetTo(j, "threads", ThreadsOf, <<>>),
     classic_conf : GetTo(j, "classic_conf", ClassicConfOf, NoClassicConf)]

NoSchedulerConf ==
    [policy |-> "", routine_num |-> 0, default_proc_num |-> 0,
     process_level_cpuset |-> <<>>, threads |-> <<>>,
     classic_conf |-> NoClassicConf]

RcmwConfigOf(j) ==
    [scheduler_conf : GetTo(j, "scheduler_conf", SchedulerConfOf, NoSchedulerConf)]

NoRcmwConfig == [scheduler_conf |-> NoSchedulerConf]

\* GetRcmwConfFromFile on a file that opens: empty when it throws.
GetRcmwConfFromFile(file) ==
    IF file = Malformed THEN {} ELSE RcmwConfigOf(file)

-----------------------------------------------------------------------------
(* pin_thread.cpp. *)

\* ParseCpuset: a part that is not one number or two ends the process.
WellFormedCpuset(text) == \A i \in 1..Len(text) : Len(text[i]) \in {1, 2}

Part(p) == IF Len(p) = 1 THEN p
           ELSE [i \in 1..(IF p[1] <= p[2] THEN p[2] - p[1] + 1 ELSE 0)
                   |-> p[1] + i - 1]

\* ParseCpuset appends the cpus of text to cpuset.
ParseCpuset(text, cpuset) ==
    LET upto[i \in 0..Len(text)] ==
          IF i = 0 THEN cpuset ELSE upto[i - 1] \o Part(text[i])
    IN upto[Len(text)]

RangeOf(s) == {s[i] : i \in 1..Len(s)}

\* SetSchedAffinity for thread cpu_id (from 0; Nothing for none): the cpus it
\* is bound to, Unset when it is left alone.
SetSchedAffinity(cpus, affinity, cpu_id) ==
    IF cpus = <<>> THEN {Unset}
    ELSE CASE affinity = "range" -> RangeOf(cpus)
           [] affinity = "1to1" /\ cpu_id < Len(cpus) -> {cpus[cpu_id + 1]}
           [] OTHER -> {Unset}

\* SetSchedPolicy: other policies change nothing.
SetSchedPolicy(policy, prio) ==
    IF policy \in {"SCHED_FIFO", "SCHED_RR", "SCHED_OTHER"}
      THEN [policy |-> policy, prio |-> prio]
      ELSE [policy |-> Unset, prio |-> 0]

-----------------------------------------------------------------------------
(* GlobalData and Init. *)

\* InitHostInfo: RCMW_IP unless it is a loopback address, else the first
\* interface that is not one.
InitHostInfo ==
    LET addresses == {i \in 1..Len(host.interfaces) : host.interfaces[i] # "127"}
    IN host_ip' =
         IF host.env \notin {Unset, "127"} THEN host.env
         ELSE IF addresses = {} THEN "127"
         ELSE host.interfaces[CHOOSE i \in addresses :
                                \A k \in addresses : i <= k]

\* GlobalData::InitConfig; a file that does not open leaves the defaults.
InitConfig ==
    IF files.global = Absent
      THEN global_conf' = NoRcmwConfig /\ UNCHANGED outcome
      ELSE LET conf == GetRcmwConfFromFile(files.global) IN
           IF conf = {} THEN outcome' = "terminated" /\ UNCHANGED global_conf
           ELSE global_conf' \in conf /\ UNCHANGED outcome

\* rcmw::Init: the first GlobalData::Instance() constructs it.  The path of
\* the program is read from the relative path proc/self/exe, so the group is
\* named after the process id either way; no file has that name.
RcmwInit ==
    /\ outcome = "runs" /\ state = "UNINITIALIZED"
    /\ InitHostInfo /\ InitConfig
    /\ process_group' = "pid"
    /\ state' = IF outcome' = "runs" THEN "INITIALIZED" ELSE state
    /\ UNCHANGED <<files, host, factoryVars, schedVars>>

\* GlobalData::SetProcessGroup.
SetProcessGroup(g) ==
    /\ outcome = "runs" /\ state = "INITIALIZED" /\ process_group = "pid"
    /\ process_group' = g
    /\ UNCHANGED <<files, host, state, host_ip, global_conf, factoryVars,
                   schedVars, outcome>>

\* A file of the process group, in place "relative" or "absolute".
GroupFile(place) ==
    IF process_group \in Groups THEN files[place] ELSE Absent

-----------------------------------------------------------------------------
(* scheduler::Instance. *)

Goto(t, p) == conf_at' = [conf_at EXCEPT ![t] = p]

\* The unlocked look at the published instance.
InstanceLoad(t) ==
    /\ outcome = "runs" /\ state = "INITIALIZED" /\ conf_at[t] = "idle"
    /\ obj' = [obj EXCEPT ![t] = instance]
    /\ Goto(t, IF instance = 0 THEN "lock" ELSE "has")
    /\ UNCHANGED <<files, host, globalVars, instance, made, mutex, schedVars,
                   outcome>>

\* The lock, and the second look under it.
InstanceLock(t) ==
    /\ outcome = "runs" /\ conf_at[t] = "lock" /\ mutex = Nothing
    /\ obj' = [obj EXCEPT ![t] = instance]
    /\ IF instance = 0 THEN mutex' = t /\ Goto(t, "policy")
                       ELSE Goto(t, "has") /\ UNCHANGED mutex
    /\ UNCHANGED <<files, host, globalVars, instance, made, schedVars, outcome>>

\* The policy: the relative file, else the absolute one.  Whatever it says a
\* SchedulerClassic is made, but a file that throws ends the process.
InstancePolicy(t) ==
    LET file == IF GroupFile("relative") # Absent THEN GroupFile("relative")
                ELSE GroupFile("absolute") IN
    /\ outcome = "runs" /\ conf_at[t] = "policy"
    /\ IF file # Absent /\ GetRcmwConfFromFile(file) = {}
         THEN outcome' = "terminated" /\ UNCHANGED conf_at
         ELSE Goto(t, "construct") /\ UNCHANGED outcome
    /\ UNCHANGED <<files, host, globalVars, instance, made, mutex, obj, schedVars>>

\* cr_confs_: the tasks of all groups by name, each with its group's name.
TasksOfGroups(groups) ==
    LET names == UNION {{groups[g].tasks[i].name : i \in 1..Len(groups[g].tasks)}
                          : g \in 1..Len(groups)}
        Last(n) == CHOOSE g \in 1..Len(groups) :
                     /\ \E i \in 1..Len(groups[g].tasks) :
                          groups[g].tasks[i].name = n
                     /\ \A k \in (g + 1)..Len(groups) :
                          \A i \in 1..Len(groups[k].tasks) :
                            groups[k].tasks[i].name # n
        LastTask(g, n) == CHOOSE i \in 1..Len(groups[g].tasks) :
                            /\ groups[g].tasks[i].name = n
                            /\ \A k \in (i + 1)..Len(groups[g].tasks) :
                                 groups[g].tasks[k].name # n
    IN [n \in names |-> [group |-> groups[Last(n)].name,
                         prio |-> groups[Last(n)].tasks[LastTask(Last(n), n)].prio]]

\* ProcessLevelResourceControl: the building thread is bound, even to no cpu.
ProcessLevelResourceControl(text) ==
    IF text = <<>> THEN UNCHANGED <<level, outcome>>
    ELSE IF ~WellFormedCpuset(text) THEN outcome' = "exited" /\ UNCHANGED level
    ELSE level' = RangeOf(ParseCpuset(text, <<>>)) /\ UNCHANGED outcome

\* The constructor when the absolute file of the group is there.
ConstructFromFile(t) ==
    /\ outcome = "runs" /\ conf_at[t] = "construct"
    /\ GroupFile("absolute") # Absent
    /\ LET conf == GetRcmwConfFromFile(GroupFile("absolute")) IN
       IF conf = {}
         THEN /\ outcome' = "terminated"
              /\ UNCHANGED <<conf_at, schedVars>>
         ELSE \E c \in conf :
              LET s == c.scheduler_conf IN
              /\ inner_thr_confs' =
                   {s.threads[i] : i \in {k \in 1..Len(s.threads) :
                      \A m \in (k + 1)..Len(s.threads) :
                        s.threads[m].name # s.threads[k].name}}
              /\ ProcessLevelResourceControl(s.process_level_cpuset)
              /\ classic_conf' = s.classic_conf.groups
              /\ cr_confs' = TasksOfGroups(s.classic_conf.groups)
              /\ Goto(t, "create")
              /\ UNCHANGED <<task_pool_size, processors, inner>>
    /\ UNCHANGED <<files, host, globalVars, instance, made, mutex, obj>>

\* The constructor without a file: one default group.
ConstructDefault(t) ==
    LET n == global_conf.scheduler_conf.default_proc_num
        num == IF n # 0 THEN n ELSE 2 IN
    /\ outcome = "runs" /\ conf_at[t] = "construct"
    /\ GroupFile("absolute") = Absent
    /\ task_pool_size' = num
    /\ classic_conf' = <<[name |-> "default_grp", processor_num |-> num,
                          affinity |-> "", cpuset |-> <<>>,
                          processor_policy |-> "", processor_prio |-> 0,
                          tasks |-> <<>>]>>
    /\ Goto(t, "create")
    /\ UNCHANGED <<files, host, globalVars, instance, made, mutex, obj,
                   inner_thr_confs, cr_confs, processors, level, inner, outcome>>

\* Mutant of GroupCpus: cpuset is declared before the loop and never cleared.
GroupCpusKept(g) ==
    LET upto[i \in 0..g] ==
          IF i = 0 THEN <<>> ELSE ParseCpuset(classic_conf[i].cpuset, upto[i - 1])
    IN upto[g]

\* CreateProcessor: the cpus of group g.
GroupCpus(g) == ParseCpuset(classic_conf[g].cpuset, <<>>)

\* CreateProcessor, then the publication of the scheduler.
CreateProcessor(t) ==
    LET bad == {g \in 1..Len(classic_conf) : ~WellFormedCpuset(classic_conf[g].cpuset)}
        Procs(g) ==
          [i \in 1..classic_conf[g].processor_num |->
             [group |-> g,
              cpus |-> SetSchedAffinity(GroupCpus(g), classic_conf[g].affinity, i - 1),
              sched |-> SetSchedPolicy(classic_conf[g].processor_policy,
                                       classic_conf[g].processor_prio)]]
        upto[g \in 0..Len(classic_conf)] ==
          IF g = 0 THEN <<>> ELSE upto[g - 1] \o Procs(g)
        sizes == {g \in 1..Len(classic_conf) : classic_conf[g].processor_num > 0}
    IN
    /\ outcome = "runs" /\ conf_at[t] = "create"
    /\ made' = made + 1
    /\ IF bad # {}
         THEN /\ outcome' = "exited"
              /\ UNCHANGED <<processors, task_pool_size, conf_at>>
         ELSE /\ processors' = upto[Len(classic_conf)]
              /\ task_pool_size' =
                   IF task_pool_size # 0 \/ sizes = {} THEN task_pool_size
                   ELSE classic_conf[CHOOSE g \in sizes :
                                       \A k \in sizes : g <= k].processor_num
              /\ Goto(t, "store")
              /\ UNCHANGED outcome
    /\ UNCHANGED <<files, host, globalVars, instance, mutex, obj,
                   inner_thr_confs, classic_conf, cr_confs, level, inner>>

InstanceStore(t) ==
    /\ outcome = "runs" /\ conf_at[t] = "store"
    /\ instance' = made /\ obj' = [obj EXCEPT ![t] = made]
    /\ mutex' = Nothing /\ Goto(t, "has")
    /\ UNCHANGED <<files, host, globalVars, made, schedVars, outcome>>

\* SetInnerThreadAttr: a thread of this process with a configured name.
SetInnerThreadAttr(t, conf) ==
    /\ outcome = "runs" /\ conf_at[t] = "has" /\ conf \in inner_thr_confs
    /\ IF WellFormedCpuset(conf.cpuset)
         THEN /\ inner' = inner \cup
                   {[name |-> conf.name,
                     cpus |-> SetSchedAffinity(ParseCpuset(conf.cpuset, <<>>), "range", 0),
                     sched |-> SetSchedPolicy(conf.policy, conf.prio)]}
              /\ UNCHANGED outcome
         ELSE outcome' = "exited" /\ UNCHANGED inner
    /\ UNCHANGED <<files, host, globalVars, factoryVars, inner_thr_confs,
                   classic_conf, cr_confs, task_pool_size, processors, level>>

-----------------------------------------------------------------------------
ConfigInit ==
    /\ files \in [global : Contents, relative : Contents, absolute : Contents]
    /\ host \in Hosts
    /\ state = "UNINITIALIZED" /\ host_ip = Unset /\ process_group = Unset
    /\ global_conf = NoRcmwConfig
    /\ instance = 0 /\ made = 0 /\ mutex = Nothing
    /\ conf_at = [t \in Threads |-> "idle"] /\ obj = [t \in Threads |-> 0]
    /\ inner_thr_confs = {} /\ classic_conf = <<>> /\ cr_confs = <<>>
    /\ task_pool_size = 0 /\ processors = <<>> /\ level = {Unset}
    /\ inner = {}
    /\ outcome = "runs"

ConfigNext ==
    \/ RcmwInit
    \/ \E g \in Groups : SetProcessGroup(g)
    \/ \E t \in Threads :
         \/ InstanceLoad(t) \/ InstanceLock(t) \/ InstancePolicy(t)
         \/ ConstructFromFile(t) \/ ConstructDefault(t) \/ CreateProcessor(t)
         \/ InstanceStore(t)
         \/ \E c \in inner_thr_confs : SetInnerThreadAttr(t, c)

ConfigSpec == ConfigInit /\ [][ConfigNext]_configVars

-----------------------------------------------------------------------------
(* Properties. *)

\* However many threads ask for the scheduler first, one is constructed and
\* they all get it.
OneScheduler ==
    /\ made <= 1
    /\ \A t \in Threads : conf_at[t] = "has" => obj[t] = instance /\ instance # 0

\* The cpus a cpuset string lists.
Listed(text) == UNION {RangeOf(Part(text[n])) : n \in 1..Len(text)}

\* A processor thread is bound, if at all, to cpus its own group lists, and the
\* threads of a 1to1 group share none as long as the group lists none twice
\* (CreateProcessor, ParseCpuset, SetSchedAffinity).
Inside(p, g) == p.cpus \subseteq Listed(g.cpuset) \cup {Unset}

Apart(p, q, g) ==
    /\ p.group = q.group /\ g.affinity = "1to1"
    /\ Cardinality(Listed(g.cpuset)) = Len(ParseCpuset(g.cpuset, <<>>))
    => p.cpus \cap q.cpus \subseteq {Unset}

PinnedInside ==
    \A i, k \in 1..Len(processors) :
      /\ Inside(processors[i], classic_conf[processors[i].group])
      /\ i # k => Apart(processors[i], processors[k], classic_conf[processors[i].group])
=============================================================================
