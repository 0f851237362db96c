--------------------------- MODULE TopologyProofs ---------------------------
(***************************************************************************)
(* While no subscriber leaves, a publisher's transmitter counts exactly    *)
(* the readers that joined after it listened (Topology's CountsReaders),   *)
(* for any numbers of processes, publishers, subscribers, crashes and lost *)
(* changes.                                                                *)
(***************************************************************************)
EXTENDS Topology, SequenceTheorems, FiniteSetTheorems, TLAPS

(* No subscriber has left or is leaving; then none ever did. *)
NobodyLeaves == \A s \in Subscribers : phase[s] \notin {"leaving", "gone"}

-----------------------------------------------------------------------------
(* What a thread is about.                                                 *)

Callback == {"call", "enable", "sub", "disable"}

(* The thread of a role disposes of that role's change, the receiving      *)
(* thread of a process of another process's.                               *)
OwnChange ==
  /\ \A r \in Roles : job[r].step # "idle" =>
       /\ job[r].msg.role = r /\ phase[r] \in {"joining", "leaving"}
       /\ job[r].msg.operate_type = "OPT_JOIN" => phase[r] = "joining"
       /\ job[r].msg.operate_type = "OPT_LEAVE" => phase[r] = "leaving"
  /\ \A q \in Processes : job[q].step # "idle" =>
       /\ Home[job[q].msg.role] # q
       /\ job[q].msg.operate_type = "OPT_LEAVE" => phase[job[q].msg.role] \in {"leaving", "gone"}

(* A process writes the changes of its own roles; a leave that is written  *)
(* has begun.                                                              *)
OwnLog ==
  \A h \in Processes : \A i \in 1 .. Len(log[h]) :
    /\ Home[log[h][i].role] = h
    /\ log[h][i].operate_type = "OPT_LEAVE" => phase[log[h][i].role] \in {"leaving", "gone"}

(* The publishers a thread has to call, or is calling, are its process's   *)
(* and have listened, and the change is a subscriber's.                    *)
Called(t) == job[t].slots \cup ({job[t].pub} \ {None})
OwnSlots ==
  \A t \in Threads :
    /\ job[t].step \in {"idle", "dispose"} => job[t].slots = {}
    /\ job[t].step \in Callback <=> job[t].pub # None
    /\ job[t].pub \notin job[t].slots
    /\ \A p \in Called(t) : Home[p] = ProcessOf(t) /\ phase[p] # "none"
    /\ Called(t) # {} => job[t].msg.role \in Subscribers

Connected == \A p \in Publishers : p \in connected <=> phase[p] \in {"joining", "joined"}

ThreadInv == TypeOK /\ OwnChange /\ OwnLog /\ OwnSlots /\ Connected

-----------------------------------------------------------------------------
(* How subscribers become known while none leaves.                         *)

(* A subscriber is written once, when it has joined. *)
WrittenOnce ==
  \A h \in Processes : \A i \in 1 .. Len(log[h]) : log[h][i].role \in Subscribers =>
    /\ phase[log[h][i].role] = "joined"
    /\ \A j \in 1 .. Len(log[h]) : log[h][j].role = log[h][i].role => i = j

(* Process q has taken the change of s from s's process. *)
Taken(q, s) == \E i \in 1 .. Len(log[Home[s]]) : i <= received[q][Home[s]] /\ log[Home[s]][i].role = s

(* A subscriber is known from its own process's join or from a change that *)
(* was taken; and it becomes known in Dispose.                             *)
KnownOnce ==
  /\ \A q \in Processes : \A s \in known[q] \cap Subscribers :
       IF Home[s] = q THEN phase[s] # "none" ELSE Taken(q, s)
  /\ \A q \in Processes : job[q].step # "idle" /\ job[q].msg.role \in Subscribers => Taken(q, job[q].msg.role)
  /\ \A t \in Threads : job[t].step # "idle" /\ job[t].msg.role \in Subscribers =>
       (job[t].msg.role \in known[ProcessOf(t)] <=> job[t].step # "dispose")

(* A publisher misses the subscribers that become known before it listens, *)
(* and no other.                                                           *)
MissedBefore ==
  /\ \A p \in Publishers, s \in Subscribers : <<p, s>> \in missed => s \in known[Home[p]]
  /\ \A p \in Publishers : phase[p] = "none" => \A s \in ReadersKnown(p) : <<p, s>> \in missed
  /\ \A t \in Threads : \A p \in Called(t) : <<p, job[t].msg.role>> \notin missed

(* A thread has still to count s for p. *)
Claims(t, p) == p \in job[t].slots \/ (job[t].step = "call" /\ job[t].pub = p)
ToCount(p, s) == \E t \in Threads : Claims(t, p) /\ job[t].msg.role = s
Counted(p) == {s \in ReadersKnown(p) : <<p, s>> \notin missed /\ ~ ToCount(p, s)}

(* A thread has raised the count and goes on to enable the transmitter. *)
Enabling(p) == \E t \in Threads : job[t].step = "enable" /\ job[t].pub = p

(* The count counts them, and a positive count is or will be enabled. *)
CountExact ==
  \A p \in Publishers :
    /\ phase[p] \in {"joining", "joined"} => receiver_count[p] = Cardinality(Counted(p))
    /\ phase[p] = "none" => receiver_count[p] = 0
    /\ receiver_count[p] >= 0
    /\ enabled[p] = TRUE \/ Enabling(p) => receiver_count[p] > 0
    /\ receiver_count[p] > 0 => enabled[p] = TRUE \/ Enabling(p)

CountInv == WrittenOnce /\ KnownOnce /\ MissedBefore /\ CountExact

TopoInv == ThreadInv /\ (NobodyLeaves => CountInv)

-----------------------------------------------------------------------------
(* Roles, threads and their processes. *)

LEMMA Homes ==
  /\ \A r \in Roles : Home[r] \in Processes /\ ProcessOf(r) = Home[r] /\ r \in Threads
  /\ \A q \in Processes : ProcessOf(q) = q /\ q \in Threads
  /\ \A t \in Threads : ProcessOf(t) \in Processes /\ (t \in Processes <=> t \notin Roles)
<1>1. ASSUME NEW r \in Roles
      PROVE  Home[r] \in Processes
  <2>1. \E q \in Processes : q \in r
    BY TopoHome
  <2>2. Home[r] = CHOOSE q \in Processes : q \in r
    BY DEF Home
  <2> QED
    BY <2>1, <2>2
<1>2. \A r \in Roles : r \notin Processes
  BY TopoSets
<1> QED
  BY <1>1, <1>2 DEF ProcessOf, Threads

LEMMA RoleSets ==
  /\ Publishers \subseteq Roles /\ Subscribers \subseteq Roles
  /\ None \notin Publishers /\ \A p \in Publishers : p \notin Subscribers
  /\ None \notin ChangeMsg
  BY TopoSets, TopoNone DEF Roles

LEMMA LogEntries ==
  ASSUME TypeOK, NEW h \in Processes
  PROVE  /\ Len(log[h]) \in Nat
         /\ \A i \in 1 .. Len(log[h]) : log[h][i] \in ChangeMsg /\ log[h][i].role \in Roles
<1>1. log[h] \in Seq(ChangeMsg)
  BY DEF TypeOK
<1>2. Len(log[h]) \in Nat /\ \A i \in 1 .. Len(log[h]) : log[h][i] \in ChangeMsg
  BY <1>1, LenProperties, ElementOfSeq
<1> QED
  BY <1>2 DEF ChangeMsg

JobRec == [step : Steps, msg : ChangeMsg \cup {None},
           slots : SUBSET Publishers, pub : Publishers \cup {None}]

(* A thread's job is replaced. *)
LEMMA JobReplaced ==
  ASSUME TypeOK, NEW t \in Threads, NEW j \in JobRec, job' = [job EXCEPT ![t] = j]
  PROVE  /\ job' \in [Threads -> JobRec] /\ job'[t] = j
         /\ \A u \in Threads \ {t} : job'[u] = job[u]
  BY DEF TypeOK, JobRec

(* A thread goes on with its change. *)
Proceeds(t, step, slots, pub) ==
  /\ job' \in [Threads -> JobRec]
  /\ job'[t].step = step /\ job'[t].slots = slots /\ job'[t].pub = pub
  /\ job'[t].msg = job[t].msg
  /\ \A u \in Threads \ {t} : job'[u] = job[u]

LEMMA JobContinues ==
  ASSUME TypeOK, NEW t \in Threads, NEW step \in Steps, Continue(t, step)
  PROVE  Proceeds(t, step, job[t].slots, job[t].pub)
<1>1. PICK j : j = [job[t] EXCEPT !.step = step]
  OBVIOUS
<1>2. job \in [Threads -> JobRec] /\ job[t] \in JobRec
  BY DEF TypeOK, JobRec
<1>3. /\ j \in JobRec /\ j.step = step /\ j.slots = job[t].slots /\ j.pub = job[t].pub
      /\ j.msg = job[t].msg
  BY <1>1, <1>2 DEF JobRec
<1>4. /\ DOMAIN job' = Threads /\ job'[t] = j
      /\ \A u \in Threads \ {t} : job'[u] = job[u]
  BY <1>1, <1>2 DEF Continue
<1>5. job' = [u \in Threads |-> job'[u]]
  BY <1>2, <1>4 DEF Continue
<1>6. job' \in [Threads -> JobRec]
  BY <1>2, <1>3, <1>4, <1>5
<1> QED
  BY <1>3, <1>4, <1>6 DEF Proceeds

LEMMA JobReturns ==
  ASSUME TypeOK, NEW t \in Threads, Return(t)
  PROVE  Proceeds(t, "notify", job[t].slots, None)
<1>1. PICK j : j = [job[t] EXCEPT !.step = "notify", !.pub = None]
  OBVIOUS
<1>2. job \in [Threads -> JobRec] /\ job[t] \in JobRec
  BY DEF TypeOK, JobRec
<1>3. /\ j \in JobRec /\ j.step = "notify" /\ j.slots = job[t].slots /\ j.pub = None
      /\ j.msg = job[t].msg
  BY <1>1, <1>2 DEF JobRec, Steps
<1>4. /\ DOMAIN job' = Threads /\ job'[t] = j
      /\ \A u \in Threads \ {t} : job'[u] = job[u]
  BY <1>1, <1>2 DEF Return
<1>5. job' = [u \in Threads |-> job'[u]]
  BY <1>2, <1>4 DEF Return
<1>6. job' \in [Threads -> JobRec]
  BY <1>2, <1>3, <1>4, <1>5
<1> QED
  BY <1>3, <1>4, <1>6 DEF Proceeds

LEMMA JobNotifies ==
  ASSUME TypeOK, NEW t \in Threads, NEW slots \in SUBSET Publishers,
         job' = [job EXCEPT ![t].step = "notify", ![t].slots = slots]
  PROVE  Proceeds(t, "notify", slots, job[t].pub)
<1>1. PICK j : j = [job[t] EXCEPT !.step = "notify", !.slots = slots]
  OBVIOUS
<1>2. job \in [Threads -> JobRec] /\ job[t] \in JobRec
  BY DEF TypeOK, JobRec
<1>3. /\ j \in JobRec /\ j.step = "notify" /\ j.slots = slots /\ j.pub = job[t].pub
      /\ j.msg = job[t].msg
  BY <1>1, <1>2 DEF JobRec, Steps
<1>4. /\ DOMAIN job' = Threads /\ job'[t] = j
      /\ \A u \in Threads \ {t} : job'[u] = job[u]
  BY <1>1, <1>2
<1>5. job' = [u \in Threads |-> job'[u]]
  BY <1>2, <1>4
<1>6. job' \in [Threads -> JobRec]
  BY <1>2, <1>3, <1>4, <1>5
<1> QED
  BY <1>3, <1>4, <1>6 DEF Proceeds

LEMMA JobCalls ==
  ASSUME TypeOK, NEW t \in Threads, NEW slots \in SUBSET Publishers, NEW step \in Steps,
         NEW pub \in Publishers \cup {None},
         job' = [job EXCEPT ![t].slots = slots, ![t].step = step, ![t].pub = pub]
  PROVE  Proceeds(t, step, slots, pub)
<1>1. PICK j : j = [job[t] EXCEPT !.slots = slots, !.step = step, !.pub = pub]
  OBVIOUS
<1>2. job \in [Threads -> JobRec] /\ job[t] \in JobRec
  BY DEF TypeOK, JobRec
<1>3. /\ j \in JobRec /\ j.step = step /\ j.slots = slots /\ j.pub = pub
      /\ j.msg = job[t].msg
  BY <1>1, <1>2 DEF JobRec
<1>4. /\ DOMAIN job' = Threads /\ job'[t] = j
      /\ \A u \in Threads \ {t} : job'[u] = job[u]
  BY <1>1, <1>2
<1>5. job' = [u \in Threads |-> job'[u]]
  BY <1>2, <1>4
<1>6. job' \in [Threads -> JobRec]
  BY <1>2, <1>3, <1>4, <1>5
<1> QED
  BY <1>3, <1>4, <1>6 DEF Proceeds

LEMMA IdleJob ==
  /\ Idle \in JobRec /\ Idle.step = "idle" /\ Idle.msg = None /\ Idle.slots = {} /\ Idle.pub = None
  BY DEF Idle, JobRec, Steps

LEMMA NewJob ==
  ASSUME NEW msg \in ChangeMsg
  PROVE  /\ Job(msg) \in JobRec /\ Job(msg).step = "dispose" /\ Job(msg).msg = msg
         /\ Job(msg).slots = {} /\ Job(msg).pub = None
  BY DEF Job, JobRec, Steps

-----------------------------------------------------------------------------
(* Every step keeps what is said of the threads. *)

(* A thread goes on with its change, or ends it. *)
LEMMA StepThreads ==
  ASSUME ThreadInv, NEW t \in Threads, job[t].step # "idle",
         UNCHANGED <<connected, phase, log>>,
         known' \in [Processes -> SUBSET Roles],
         received' \in [Processes -> [Processes -> Nat]],
         enabled' \in [Publishers -> BOOLEAN], receiver_count' \in [Publishers -> Int],
         down' \in SUBSET Processes, missed' \in SUBSET (Publishers \X Subscribers),
         lost' \in [Processes -> SUBSET Roles],
         job' \in [Threads -> JobRec],
         \A u \in Threads \ {t} : job'[u] = job[u],
         \/ job'[t] = Idle
         \/ /\ job'[t].msg = job[t].msg /\ job'[t].step \notin {"idle", "dispose"}
            /\ job'[t].step \in Callback <=> job'[t].pub # None
            /\ job'[t].pub \notin job'[t].slots
            /\ \A p \in Called(t)' : Home[p] = ProcessOf(t) /\ phase[p] # "none"
            /\ Called(t)' # {} => job[t].msg.role \in Subscribers
  PROVE  ThreadInv'
<1> USE DEF ThreadInv
<1>1. TypeOK'
  <2>1. \A u \in Threads : job'[u].step = "idle" <=> job'[u].msg = None
    BY IdleJob DEF TypeOK
  <2> QED
    BY <2>1 DEF TypeOK, JobRec
<1>2. OwnChange'
  <2>1. \A u \in Threads : job'[u].step # "idle" => job[u].step # "idle" /\ job'[u].msg = job[u].msg
    BY IdleJob
  <2>2. ASSUME NEW r \in Roles, job'[r].step # "idle"
        PROVE  /\ job'[r].msg.role = r /\ phase'[r] \in {"joining", "leaving"}
               /\ job'[r].msg.operate_type = "OPT_JOIN" => phase'[r] = "joining"
               /\ job'[r].msg.operate_type = "OPT_LEAVE" => phase'[r] = "leaving"
    <3>1. job[r].step # "idle" /\ job'[r].msg = job[r].msg
      BY <2>1, <2>2, Homes
    <3> QED
      BY <3>1 DEF OwnChange
  <2>3. ASSUME NEW q \in Processes, job'[q].step # "idle"
        PROVE  /\ Home[job'[q].msg.role] # q
               /\ job'[q].msg.operate_type = "OPT_LEAVE" => phase'[job'[q].msg.role] \in {"leaving", "gone"}
    <3>1. job[q].step # "idle" /\ job'[q].msg = job[q].msg
      BY <2>1, <2>3, Homes
    <3> QED
      BY <3>1 DEF OwnChange
  <2> QED
    BY <2>2, <2>3 DEF OwnChange
<1>3. OwnLog'
  BY DEF OwnLog
<1>4. OwnSlots'
  <2>1. ASSUME NEW u \in Threads
        PROVE  /\ job'[u].step \in {"idle", "dispose"} => job'[u].slots = {}
               /\ job'[u].step \in Callback <=> job'[u].pub # None
               /\ job'[u].pub \notin job'[u].slots
               /\ \A p \in Called(u)' : Home[p] = ProcessOf(u) /\ phase[p] # "none"
               /\ Called(u)' # {} => job'[u].msg.role \in Subscribers
    <3>1. CASE u # t
      <4>1. Called(u)' = Called(u)
        BY <3>1 DEF Called
      <4> QED
        BY <3>1, <4>1 DEF OwnSlots
    <3>2. CASE u = t /\ job'[t] = Idle
      <4>1. Called(u)' = {}
        BY <3>2, IdleJob DEF Called
      <4> QED
        BY <3>2, <4>1, IdleJob DEF Callback
    <3>3. CASE u = t /\ job'[t] # Idle
      BY <3>3
    <3> QED
      BY <3>1, <3>2, <3>3
  <2> QED
    BY <2>1 DEF OwnSlots
<1>5. Connected'
  BY DEF Connected
<1> QED
  BY <1>1, <1>2, <1>3, <1>4, <1>5

(* Nothing about the threads changes. *)
LEMMA QuietThreads ==
  ASSUME ThreadInv, UNCHANGED <<known, connected, phase, job, log, enabled, receiver_count, missed>>,
         received' \in [Processes -> [Processes -> Nat]],
         down' \in SUBSET Processes, lost' \in [Processes -> SUBSET Roles]
  PROVE  ThreadInv'
<1> USE DEF ThreadInv
<1>1. TypeOK'
  BY DEF TypeOK
<1>2. OwnChange' /\ OwnLog' /\ Connected'
  BY DEF OwnChange, OwnLog, Connected
<1>3. OwnSlots'
  BY DEF OwnSlots, Called
<1> QED
  BY <1>1, <1>2, <1>3

(* JoinTheTopology and LeaveTheTopology give the role's thread its change. *)
LEMMA JoinLeaveThreads ==
  ASSUME ThreadInv, NEW r \in Roles, JoinTheTopology(r) \/ LeaveTheTopology(r)
  PROVE  ThreadInv'
<1> USE DEF ThreadInv
<1>1. PICK msg \in ChangeMsg :
        /\ msg.role = r /\ job' = [job EXCEPT ![r] = Job(msg)]
        /\ \/ /\ phase[r] = "none" /\ msg.operate_type = "OPT_JOIN"
              /\ phase' = [phase EXCEPT ![r] = "joining"] /\ connected' = connected \cup {r}
           \/ /\ phase[r] = "joined" /\ msg.operate_type = "OPT_LEAVE"
              /\ phase' = [phase EXCEPT ![r] = "leaving"] /\ connected' = connected \ {r}
        /\ UNCHANGED <<known, log, received, enabled, receiver_count, down, missed, lost>>
  <2>1. CASE JoinTheTopology(r)
    <3> DEFINE m == [operate_type |-> "OPT_JOIN", role |-> r]
    <3>1. m \in ChangeMsg /\ m.role = r /\ m.operate_type = "OPT_JOIN"
      BY DEF ChangeMsg
    <3> QED
      BY <2>1, <3>1 DEF JoinTheTopology, endpoints
  <2>2. CASE LeaveTheTopology(r)
    <3> DEFINE m == [operate_type |-> "OPT_LEAVE", role |-> r]
    <3>1. m \in ChangeMsg /\ m.role = r /\ m.operate_type = "OPT_LEAVE"
      BY DEF ChangeMsg
    <3> QED
      BY <2>2, <3>1 DEF LeaveTheTopology, endpoints
  <2> QED
    BY <2>1, <2>2
<1>2. /\ job' \in [Threads -> JobRec] /\ job'[r] = Job(msg)
      /\ \A u \in Threads \ {r} : job'[u] = job[u]
  BY <1>1, NewJob, JobReplaced, Homes
<1>3. /\ Job(msg).step = "dispose" /\ Job(msg).msg = msg
      /\ Job(msg).slots = {} /\ Job(msg).pub = None
  BY NewJob
<1>4. /\ phase' \in [Roles -> {"none", "joining", "joined", "leaving", "gone"}]
      /\ \A x \in Roles \ {r} : phase'[x] = phase[x]
      /\ phase'[r] = (IF msg.operate_type = "OPT_JOIN" THEN "joining" ELSE "leaving")
      /\ phase[r] \notin {"leaving", "gone"}
  BY <1>1 DEF TypeOK
<1>5. TypeOK'
  <2>1. \A u \in Threads : job'[u].step = "idle" <=> job'[u].msg = None
    <3>1. job'[r].step # "idle" /\ job'[r].msg # None
      BY <1>2, <1>3, RoleSets
    <3> QED
      BY <1>2, <3>1 DEF TypeOK
  <2>2. connected' \in SUBSET Roles
    BY <1>1 DEF TypeOK
  <2> QED
    BY <1>1, <1>2, <1>4, <2>1, <2>2 DEF TypeOK, JobRec
<1>6. OwnChange'
  <2>1. ASSUME NEW x \in Roles, job'[x].step # "idle"
        PROVE  /\ job'[x].msg.role = x /\ phase'[x] \in {"joining", "leaving"}
               /\ job'[x].msg.operate_type = "OPT_JOIN" => phase'[x] = "joining"
               /\ job'[x].msg.operate_type = "OPT_LEAVE" => phase'[x] = "leaving"
    BY <1>1, <1>2, <1>3, <1>4, <2>1, Homes DEF OwnChange
  <2>2. ASSUME NEW q \in Processes, job'[q].step # "idle"
        PROVE  /\ Home[job'[q].msg.role] # q
               /\ job'[q].msg.operate_type = "OPT_LEAVE" => phase'[job'[q].msg.role] \in {"leaving", "gone"}
    <3>1. job'[q] = job[q]
      BY <1>2, Homes
    <3>2. job[q].msg.role \in Roles
      BY <2>2, <3>1, Homes DEF TypeOK, ChangeMsg
    <3> QED
      BY <1>4, <2>2, <3>1, <3>2 DEF OwnChange
  <2> QED
    BY <2>1, <2>2 DEF OwnChange
<1>7. OwnLog'
  BY <1>1, <1>4, LogEntries DEF OwnLog
<1>8. OwnSlots'
  <2>1. ASSUME NEW u \in Threads
        PROVE  /\ job'[u].step \in {"idle", "dispose"} => job'[u].slots = {}
               /\ job'[u].step \in Callback <=> job'[u].pub # None
               /\ job'[u].pub \notin job'[u].slots
               /\ \A p \in Called(u)' : Home[p] = ProcessOf(u) /\ phase'[p] # "none"
               /\ Called(u)' # {} => job'[u].msg.role \in Subscribers
    <3>1. CASE u # r
      <4>1. Called(u)' = Called(u) /\ Called(u) \subseteq Roles
        BY <1>2, <3>1, RoleSets DEF Called, TypeOK
      <4>2. \A p \in Called(u) : phase'[p] # "none"
        BY <1>4, <4>1 DEF OwnSlots
      <4> QED
        BY <1>2, <3>1, <4>1, <4>2 DEF OwnSlots
    <3>2. CASE u = r
      <4>1. Called(u)' = {}
        BY <1>2, <1>3, <3>2 DEF Called
      <4> QED
        BY <1>2, <1>3, <3>2, <4>1 DEF Callback
    <3> QED
      BY <3>1, <3>2
  <2> QED
    BY <2>1 DEF OwnSlots
<1>9. Connected'
  BY <1>1, <1>4, RoleSets DEF Connected
<1> QED
  BY <1>5, <1>6, <1>7, <1>8, <1>9

(* Write ends the thread of the role with its change in the log. *)
LEMMA WriteEffect ==
  ASSUME ThreadInv, NEW r \in Roles, Write(r)
  PROVE  /\ job[r].step = "notify" /\ job[r].slots = {} /\ job[r].pub = None
         /\ job[r].msg \in ChangeMsg /\ job[r].msg.role = r
         /\ job' \in [Threads -> JobRec] /\ job'[r] = Idle
         /\ \A u \in Threads \ {r} : job'[u] = job[u]
         /\ log' \in [Processes -> Seq(ChangeMsg)]
         /\ \A h \in Processes \ {Home[r]} : log'[h] = log[h]
         /\ Len(log'[Home[r]]) = Len(log[Home[r]]) + 1
         /\ log'[Home[r]][Len(log[Home[r]]) + 1] = job[r].msg
         /\ \A i \in 1 .. Len(log[Home[r]]) : log'[Home[r]][i] = log[Home[r]][i]
         /\ phase' \in [Roles -> {"none", "joining", "joined", "leaving", "gone"}]
         /\ \A x \in Roles \ {r} : phase'[x] = phase[x]
         /\ \/ phase[r] = "joining" /\ phase'[r] = "joined"
            \/ phase[r] = "leaving" /\ phase'[r] = "gone"
         /\ UNCHANGED <<known, connected, received, enabled, receiver_count, down, missed, lost>>
<1> USE DEF ThreadInv
<1>1. /\ job[r].step = "notify" /\ job[r].slots = {}
      /\ log' = [log EXCEPT ![Home[r]] = Append(@, job[r].msg)]
      /\ phase' = [phase EXCEPT ![r] = IF @ = "joining" THEN "joined" ELSE "gone"]
      /\ job' = [job EXCEPT ![r] = Idle]
      /\ UNCHANGED <<known, connected, received, enabled, receiver_count, down, missed, lost>>
  BY DEF Write, endpoints
<1>2. r \in Threads /\ Home[r] \in Processes
  BY Homes
<1>3. /\ job[r].pub = None /\ job[r].msg \in ChangeMsg /\ job[r].msg.role = r
      /\ phase[r] \in {"joining", "leaving"}
  <2>1. job[r].pub = None
    BY <1>1, <1>2 DEF OwnSlots, Callback
  <2>2. job[r].msg \in ChangeMsg
    BY <1>1, <1>2 DEF TypeOK
  <2>3. job[r].msg.role = r /\ phase[r] \in {"joining", "leaving"}
    BY <1>1 DEF OwnChange
  <2> QED
    BY <2>1, <2>2, <2>3
<1>4. /\ job' \in [Threads -> JobRec] /\ job'[r] = Idle
      /\ \A u \in Threads \ {r} : job'[u] = job[u]
  BY <1>1, <1>2, IdleJob, JobReplaced
<1>5. /\ phase' \in [Roles -> {"none", "joining", "joined", "leaving", "gone"}]
      /\ \A x \in Roles \ {r} : phase'[x] = phase[x]
      /\ \/ phase[r] = "joining" /\ phase'[r] = "joined"
         \/ phase[r] = "leaving" /\ phase'[r] = "gone"
  BY <1>1, <1>3 DEF TypeOK
<1>6. log[Home[r]] \in Seq(ChangeMsg) /\ log \in [Processes -> Seq(ChangeMsg)]
  BY <1>2 DEF TypeOK
<1>7. PICK l \in Seq(ChangeMsg) : l = Append(log[Home[r]], job[r].msg)
  BY <1>3, <1>6, AppendProperties
<1>8. /\ Len(l) = Len(log[Home[r]]) + 1
      /\ l[Len(log[Home[r]]) + 1] = job[r].msg
      /\ \A i \in 1 .. Len(log[Home[r]]) : l[i] = log[Home[r]][i]
  BY <1>3, <1>6, <1>7, AppendProperties
<1>9. /\ log' \in [Processes -> Seq(ChangeMsg)] /\ log'[Home[r]] = l
      /\ \A h \in Processes \ {Home[r]} : log'[h] = log[h]
  BY <1>1, <1>2, <1>6, <1>7
<1> QED
  BY <1>1, <1>3, <1>4, <1>5, <1>8, <1>9

LEMMA WriteThreads ==
  ASSUME ThreadInv, NEW r \in Roles, Write(r)
  PROVE  ThreadInv'
<1> USE DEF ThreadInv
<1>1. /\ job[r].step = "notify" /\ job[r].msg \in ChangeMsg /\ job[r].msg.role = r
      /\ job' \in [Threads -> JobRec] /\ job'[r] = Idle
      /\ \A u \in Threads \ {r} : job'[u] = job[u]
      /\ UNCHANGED <<known, connected, received, enabled, receiver_count, down, missed, lost>>
  BY WriteEffect
<1>2. /\ log' \in [Processes -> Seq(ChangeMsg)]
      /\ \A h \in Processes \ {Home[r]} : log'[h] = log[h]
      /\ Len(log'[Home[r]]) = Len(log[Home[r]]) + 1
      /\ log'[Home[r]][Len(log[Home[r]]) + 1] = job[r].msg
      /\ \A i \in 1 .. Len(log[Home[r]]) : log'[Home[r]][i] = log[Home[r]][i]
  BY WriteEffect
<1>3. /\ phase' \in [Roles -> {"none", "joining", "joined", "leaving", "gone"}]
      /\ \A x \in Roles \ {r} : phase'[x] = phase[x]
      /\ \/ phase[r] = "joining" /\ phase'[r] = "joined"
         \/ phase[r] = "leaving" /\ phase'[r] = "gone"
  BY WriteEffect
<1>4. r \in Threads /\ Home[r] \in Processes
  BY Homes
<1>5. \A x \in Roles : phase[x] \in {"leaving", "gone"} => phase'[x] \in {"leaving", "gone"}
  BY <1>3
<1>6. TypeOK'
  <2>1. \A u \in Threads : job'[u].step = "idle" <=> job'[u].msg = None
    BY <1>1, IdleJob DEF TypeOK
  <2> QED
    BY <1>1, <1>2, <1>3, <2>1 DEF TypeOK, JobRec
<1>7. OwnChange'
  <2>1. ASSUME NEW x \in Roles, job'[x].step # "idle"
        PROVE  /\ job'[x].msg.role = x /\ phase'[x] \in {"joining", "leaving"}
               /\ job'[x].msg.operate_type = "OPT_JOIN" => phase'[x] = "joining"
               /\ job'[x].msg.operate_type = "OPT_LEAVE" => phase'[x] = "leaving"
    <3>1. x # r /\ job'[x] = job[x] /\ phase'[x] = phase[x]
      BY <1>1, <1>3, <2>1, Homes, IdleJob
    <3> QED
      BY <2>1, <3>1 DEF OwnChange
  <2>2. ASSUME NEW q \in Processes, job'[q].step # "idle"
        PROVE  /\ Home[job'[q].msg.role] # q
               /\ job'[q].msg.operate_type = "OPT_LEAVE" => phase'[job'[q].msg.role] \in {"leaving", "gone"}
    <3>1. job'[q] = job[q]
      BY <1>1, Homes
    <3>2. job[q].msg.role \in Roles
      BY <2>2, <3>1, Homes DEF TypeOK, ChangeMsg
    <3> QED
      BY <1>5, <2>2, <3>1, <3>2 DEF OwnChange
  <2> QED
    BY <2>1, <2>2 DEF OwnChange
<1>8. OwnLog'
  <2> SUFFICES ASSUME NEW h \in Processes, NEW i \in 1 .. Len(log'[h])
               PROVE  /\ Home[log'[h][i].role] = h
                      /\ log'[h][i].operate_type = "OPT_LEAVE" =>
                           phase'[log'[h][i].role] \in {"leaving", "gone"}
    BY DEF OwnLog
  <2>1. Len(log[h]) \in Nat
    BY LogEntries
  <2>2. CASE i \in 1 .. Len(log[h])
    <3>1. log'[h][i] = log[h][i] /\ log[h][i].role \in Roles
      BY <1>2, <2>2, LogEntries
    <3> QED
      BY <1>5, <2>2, <3>1 DEF OwnLog
  <2>3. CASE i \notin 1 .. Len(log[h])
    <3>1. h = Home[r] /\ i = Len(log[h]) + 1
      BY <1>2, <1>4, <2>1, <2>3
    <3>2. log'[h][i] = job[r].msg
      BY <1>2, <3>1
    <3>3. job[r].msg.operate_type = "OPT_LEAVE" => phase'[r] = "gone"
      BY <1>1, <1>3 DEF OwnChange
    <3> QED
      BY <1>1, <3>1, <3>2, <3>3
  <2> QED
    BY <2>2, <2>3
<1>9. OwnSlots'
  <2>1. ASSUME NEW u \in Threads
        PROVE  /\ job'[u].step \in {"idle", "dispose"} => job'[u].slots = {}
               /\ job'[u].step \in Callback <=> job'[u].pub # None
               /\ job'[u].pub \notin job'[u].slots
               /\ \A p \in Called(u)' : Home[p] = ProcessOf(u) /\ phase'[p] # "none"
               /\ Called(u)' # {} => job'[u].msg.role \in Subscribers
    <3>1. CASE u # r
      <4>1. Called(u)' = Called(u) /\ Called(u) \subseteq Roles
        BY <1>1, <3>1, RoleSets DEF Called, TypeOK
      <4>2. \A p \in Called(u) : phase'[p] # "none"
        BY <1>3, <4>1 DEF OwnSlots
      <4> QED
        BY <1>1, <3>1, <4>1, <4>2 DEF OwnSlots
    <3>2. CASE u = r
      <4>1. Called(u)' = {}
        BY <1>1, <3>2, IdleJob DEF Called
      <4> QED
        BY <1>1, <3>2, <4>1, IdleJob DEF Callback
    <3> QED
      BY <3>1, <3>2
  <2> QED
    BY <2>1 DEF OwnSlots
<1>10. Connected'
  BY <1>1, <1>3, RoleSets DEF Connected
<1> QED
  BY <1>6, <1>7, <1>8, <1>9, <1>10

(* OnRemoteChange starts a change of another process's. *)
LEMMA ReceiveEffect ==
  ASSUME ThreadInv, NEW q \in Processes, NEW s \in Processes, OnRemoteChange(q, s)
  PROVE  /\ job[q].step = "idle" /\ q # s /\ received[q][s] + 1 \in 1 .. Len(log[s])
         /\ log[s][received[q][s] + 1] \in ChangeMsg
         /\ log[s][received[q][s] + 1].role \in Roles
         /\ Home[log[s][received[q][s] + 1].role] = s
         /\ job' \in [Threads -> JobRec]
         /\ job'[q] = Job(log[s][received[q][s] + 1])
         /\ \A u \in Threads \ {q} : job'[u] = job[u]
         /\ received' \in [Processes -> [Processes -> Nat]]
         /\ received'[q][s] = received[q][s] + 1
         /\ \A x, y \in Processes : received[x][y] <= received'[x][y]
         /\ UNCHANGED <<known, connected, phase, log, enabled, receiver_count, down, missed, lost>>
<1> USE DEF ThreadInv
<1>1. /\ job[q].step = "idle" /\ q # s /\ received[q][s] < Len(log[s])
      /\ job' = [job EXCEPT ![q] = Job(log[s][received[q][s] + 1])]
      /\ received' = [received EXCEPT ![q][s] = @ + 1]
      /\ UNCHANGED <<known, connected, phase, log, enabled, receiver_count, down, missed, lost>>
  BY DEF OnRemoteChange, endpoints
<1>2. received \in [Processes -> [Processes -> Nat]] /\ received[q][s] \in Nat
  BY DEF TypeOK
<1>3. received[q][s] + 1 \in 1 .. Len(log[s])
  BY <1>1, <1>2, LogEntries
<1>4. /\ log[s][received[q][s] + 1] \in ChangeMsg
      /\ log[s][received[q][s] + 1].role \in Roles
      /\ Home[log[s][received[q][s] + 1].role] = s
  BY <1>3, LogEntries DEF OwnLog
<1>5. /\ job' \in [Threads -> JobRec]
      /\ job'[q] = Job(log[s][received[q][s] + 1])
      /\ \A u \in Threads \ {q} : job'[u] = job[u]
  BY <1>1, <1>4, NewJob, JobReplaced, Homes
<1>6. /\ received' \in [Processes -> [Processes -> Nat]]
      /\ received'[q][s] = received[q][s] + 1
      /\ \A x, y \in Processes : received[x][y] <= received'[x][y]
  BY <1>1, <1>2, SMTT(30)
<1> QED
  BY <1>1, <1>3, <1>4, <1>5, <1>6

LEMMA ReceiveThreads ==
  ASSUME ThreadInv, NEW q \in Processes, NEW s \in Processes, OnRemoteChange(q, s)
  PROVE  ThreadInv'
<1> USE DEF ThreadInv
<1>1. PICK msg \in ChangeMsg : msg = log[s][received[q][s] + 1]
  BY ReceiveEffect
<1>2. /\ q # s /\ msg.role \in Roles /\ Home[msg.role] = s
      /\ received[q][s] + 1 \in 1 .. Len(log[s])
      /\ job' \in [Threads -> JobRec] /\ job'[q] = Job(msg)
      /\ \A u \in Threads \ {q} : job'[u] = job[u]
      /\ received' \in [Processes -> [Processes -> Nat]]
      /\ UNCHANGED <<known, connected, phase, log, enabled, receiver_count, down, missed, lost>>
  BY <1>1, ReceiveEffect
<1>3. /\ Job(msg).step = "dispose" /\ Job(msg).msg = msg
      /\ Job(msg).slots = {} /\ Job(msg).pub = None
  BY NewJob
<1>4. msg.operate_type = "OPT_LEAVE" => phase[msg.role] \in {"leaving", "gone"}
  BY <1>1, <1>2 DEF OwnLog
<1>5. TypeOK'
  <2>1. \A u \in Threads : job'[u].step = "idle" <=> job'[u].msg = None
    <3>1. job'[q].step # "idle" /\ job'[q].msg # None
      BY <1>2, <1>3, RoleSets
    <3> QED
      BY <1>2, <3>1 DEF TypeOK
  <2> QED
    BY <1>2, <2>1 DEF TypeOK, JobRec
<1>6. OwnChange'
  <2>1. ASSUME NEW x \in Roles, job'[x].step # "idle"
        PROVE  /\ job'[x].msg.role = x /\ phase'[x] \in {"joining", "leaving"}
               /\ job'[x].msg.operate_type = "OPT_JOIN" => phase'[x] = "joining"
               /\ job'[x].msg.operate_type = "OPT_LEAVE" => phase'[x] = "leaving"
    <3>1. job'[x] = job[x] /\ phase' = phase
      BY <1>2, Homes
    <3> QED
      BY <2>1, <3>1 DEF OwnChange
  <2>2. ASSUME NEW x \in Processes, job'[x].step # "idle"
        PROVE  /\ Home[job'[x].msg.role] # x
               /\ job'[x].msg.operate_type = "OPT_LEAVE" => phase'[job'[x].msg.role] \in {"leaving", "gone"}
    <3>1. CASE x = q
      BY <1>2, <1>3, <1>4, <3>1
    <3>2. CASE x # q
      <4>1. job'[x] = job[x] /\ phase' = phase
        BY <1>2, <3>2, Homes
      <4> QED
        BY <2>2, <4>1 DEF OwnChange
    <3> QED
      BY <3>1, <3>2
  <2> QED
    BY <2>1, <2>2 DEF OwnChange
<1>7. OwnLog' /\ Connected'
  BY <1>2 DEF OwnLog, Connected
<1>8. OwnSlots'
  <2>1. ASSUME NEW u \in Threads
        PROVE  /\ job'[u].step \in {"idle", "dispose"} => job'[u].slots = {}
               /\ job'[u].step \in Callback <=> job'[u].pub # None
               /\ job'[u].pub \notin job'[u].slots
               /\ \A p \in Called(u)' : Home[p] = ProcessOf(u) /\ phase'[p] # "none"
               /\ Called(u)' # {} => job'[u].msg.role \in Subscribers
    <3>1. CASE u # q
      <4>1. Called(u)' = Called(u) /\ phase' = phase
        BY <1>2, <3>1 DEF Called
      <4> QED
        BY <1>2, <3>1, <4>1 DEF OwnSlots
    <3>2. CASE u = q
      <4>1. Called(u)' = {}
        BY <1>2, <1>3, <3>2 DEF Called
      <4> QED
        BY <1>2, <1>3, <3>2, <4>1 DEF Callback
    <3> QED
      BY <3>1, <3>2
  <2> QED
    BY <2>1 DEF OwnSlots
<1> QED
  BY <1>5, <1>6, <1>7, <1>8

-----------------------------------------------------------------------------
(* Dispose makes the change known and collects the slots to call. *)
LEMMA DisposeEffect ==
  ASSUME ThreadInv, NEW t \in Threads, Dispose(t)
  PROVE  /\ job[t].step = "dispose" /\ job[t].slots = {} /\ job[t].pub = None
         /\ job[t].msg \in ChangeMsg /\ job[t].msg.role \in Roles
         /\ SlotsToCall(t) \in SUBSET Publishers
         /\ Proceeds(t, "notify", SlotsToCall(t), None)
         /\ known' \in [Processes -> SUBSET Roles]
         /\ known'[ProcessOf(t)] = Warehouse(known[ProcessOf(t)], job[t].msg)
         /\ \A x \in Processes \ {ProcessOf(t)} : known'[x] = known[x]
         /\ missed' \in SUBSET (Publishers \X Subscribers)
         /\ missed' = IF job[t].msg.role \in Subscribers /\ job[t].msg.operate_type = "OPT_JOIN"
                        THEN missed \cup ({p \in Publishers \ connected : Home[p] = ProcessOf(t)}
                                            \X {job[t].msg.role})
                        ELSE missed
         /\ UNCHANGED <<connected, phase, log, received, enabled, receiver_count, down, lost>>
<1> USE DEF ThreadInv
<1>1. /\ job[t].step = "dispose"
      /\ known' = [known EXCEPT ![ProcessOf(t)] = Warehouse(@, job[t].msg)]
      /\ job' = [job EXCEPT ![t].step = "notify", ![t].slots = SlotsToCall(t)]
      /\ missed' = IF job[t].msg.role \in Subscribers /\ job[t].msg.operate_type = "OPT_JOIN"
                     THEN missed \cup ({p \in Publishers \ connected : Home[p] = ProcessOf(t)}
                                         \X {job[t].msg.role})
                     ELSE missed
      /\ UNCHANGED <<connected, phase, log, received, enabled, receiver_count, down, lost>>
  BY DEF Dispose, endpoints
<1>2. job[t].slots = {} /\ job[t].pub = None
  BY <1>1 DEF OwnSlots, Callback
<1>3. job[t].msg \in ChangeMsg /\ job[t].msg.role \in Roles
  <2>1. job[t].msg \in ChangeMsg
    BY <1>1 DEF TypeOK
  <2> QED
    BY <2>1 DEF ChangeMsg
<1>4. SlotsToCall(t) \in SUBSET Publishers
  BY DEF SlotsToCall, Listening
<1>5. Proceeds(t, "notify", SlotsToCall(t), None)
  <2>1. Proceeds(t, "notify", SlotsToCall(t), job[t].pub)
    BY <1>1, <1>4, JobNotifies
  <2> QED
    BY <1>2, <2>1
<1>6. /\ known' \in [Processes -> SUBSET Roles]
      /\ known'[ProcessOf(t)] = Warehouse(known[ProcessOf(t)], job[t].msg)
      /\ \A x \in Processes \ {ProcessOf(t)} : known'[x] = known[x]
  <2>1. ProcessOf(t) \in Processes
    BY Homes
  <2>2. Warehouse(known[ProcessOf(t)], job[t].msg) \in SUBSET Roles
    BY <1>3, <2>1 DEF Warehouse, TypeOK
  <2> QED
    BY <1>1, <2>1, <2>2 DEF TypeOK
<1>7. missed' \in SUBSET (Publishers \X Subscribers)
  BY <1>1 DEF TypeOK
<1> QED
  BY <1>1, <1>2, <1>3, <1>4, <1>5, <1>6, <1>7

LEMMA DisposeThreads ==
  ASSUME ThreadInv, NEW t \in Threads, Dispose(t)
  PROVE  ThreadInv'
<1>1. /\ job[t].step = "dispose"
      /\ Proceeds(t, "notify", SlotsToCall(t), None)
      /\ known' \in [Processes -> SUBSET Roles]
      /\ missed' \in SUBSET (Publishers \X Subscribers)
      /\ UNCHANGED <<connected, phase, log, received, enabled, receiver_count, down, lost>>
  BY DisposeEffect
<1>2. /\ job' \in [Threads -> JobRec] /\ \A u \in Threads \ {t} : job'[u] = job[u]
      /\ job'[t].step = "notify" /\ job'[t].slots = SlotsToCall(t) /\ job'[t].pub = None
      /\ job'[t].msg = job[t].msg
  BY <1>1 DEF Proceeds
<1>3. Called(t)' = SlotsToCall(t)
  BY <1>2 DEF Called
<1>4. \A p \in SlotsToCall(t) : p \in Publishers /\ Home[p] = ProcessOf(t) /\ phase[p] # "none"
  BY DEF SlotsToCall, Listening, ThreadInv, Connected
<1>5. SlotsToCall(t) # {} => job[t].msg.role \in Subscribers
  BY DEF SlotsToCall
<1>6. None \notin SlotsToCall(t)
  BY <1>4, RoleSets
<1>7. received' \in [Processes -> [Processes -> Nat]] /\ enabled' \in [Publishers -> BOOLEAN]
      /\ receiver_count' \in [Publishers -> Int] /\ down' \in SUBSET Processes
      /\ lost' \in [Processes -> SUBSET Roles]
  BY <1>1 DEF ThreadInv, TypeOK
<1>8. /\ job[t].step # "idle" /\ job'[t].step \notin {"idle", "dispose"}
      /\ job'[t].step \in Callback <=> job'[t].pub # None
      /\ job'[t].pub \notin job'[t].slots
  BY <1>1, <1>2, <1>6 DEF Callback
<1> QED
  BY <1>1, <1>2, <1>3, <1>4, <1>5, <1>7, <1>8, StepThreads

(* NotifySlot takes a slot and calls it if it is connected. *)
LEMMA NotifyEffect ==
  ASSUME ThreadInv, NEW t \in Threads, NotifySlot(t)
  PROVE  /\ job[t].step = "notify" /\ job[t].pub = None
         /\ \E p \in job[t].slots :
              /\ p \in Publishers
              /\ \/ p \in connected /\ Proceeds(t, "call", job[t].slots \ {p}, p)
                 \/ p \notin connected /\ Proceeds(t, "notify", job[t].slots \ {p}, None)
         /\ UNCHANGED <<known, connected, phase, log, received, enabled, receiver_count, down,
                        missed, lost>>
<1> USE DEF ThreadInv
<1>1. /\ job[t].step = "notify"
      /\ UNCHANGED <<known, connected, phase, log, received, enabled, receiver_count, down,
                     missed, lost>>
  BY DEF NotifySlot, endpoints
<1>2. PICK p \in job[t].slots :
        job' = [job EXCEPT ![t].slots = @ \ {p},
                           ![t].step = IF p \in connected THEN "call" ELSE @,
                           ![t].pub = IF p \in connected THEN p ELSE @]
  BY DEF NotifySlot
<1>3. job[t].pub = None
  BY <1>1 DEF OwnSlots, Callback
<1>4. p \in Publishers /\ job[t].slots \ {p} \in SUBSET Publishers
  BY DEF TypeOK
<1>5. "call" \in Steps /\ "notify" \in Steps
  BY DEF Steps
<1>6. CASE p \in connected
  <2>1. job' = [job EXCEPT ![t].slots = job[t].slots \ {p}, ![t].step = "call", ![t].pub = p]
    BY <1>2, <1>6
  <2>2. Proceeds(t, "call", job[t].slots \ {p}, p)
    BY <1>4, <1>5, <2>1, JobCalls
  <2> QED
    BY <1>1, <1>3, <1>4, <1>6, <2>2
<1>7. CASE p \notin connected
  <2>1. job' = [job EXCEPT ![t].slots = job[t].slots \ {p}, ![t].step = "notify", ![t].pub = None]
    BY <1>1, <1>2, <1>3, <1>7
  <2>2. Proceeds(t, "notify", job[t].slots \ {p}, None)
    BY <1>4, <1>5, <2>1, JobCalls
  <2> QED
    BY <1>1, <1>3, <1>4, <1>7, <2>2
<1> QED
  BY <1>6, <1>7

LEMMA NotifyThreads ==
  ASSUME ThreadInv, NEW t \in Threads, NotifySlot(t)
  PROVE  ThreadInv'
<1>1. /\ job[t].step = "notify" /\ job[t].pub = None
      /\ UNCHANGED <<known, connected, phase, log, received, enabled, receiver_count, down,
                     missed, lost>>
  BY NotifyEffect
<1>2. PICK p \in job[t].slots :
        /\ p \in Publishers
        /\ \/ p \in connected /\ Proceeds(t, "call", job[t].slots \ {p}, p)
           \/ p \notin connected /\ Proceeds(t, "notify", job[t].slots \ {p}, None)
  BY NotifyEffect
<1>3. /\ job' \in [Threads -> JobRec] /\ \A u \in Threads \ {t} : job'[u] = job[u]
      /\ job'[t].slots = job[t].slots \ {p} /\ job'[t].msg = job[t].msg
      /\ \/ job'[t].step = "call" /\ job'[t].pub = p
         \/ job'[t].step = "notify" /\ job'[t].pub = None
  BY <1>2 DEF Proceeds
<1>4. Called(t)' \subseteq Called(t) /\ p \in Called(t)
  BY <1>3 DEF Called
<1>5. /\ \A x \in Called(t)' : Home[x] = ProcessOf(t) /\ phase[x] # "none"
      /\ job[t].msg.role \in Subscribers
  BY <1>4 DEF ThreadInv, OwnSlots
<1>6. /\ known' \in [Processes -> SUBSET Roles] /\ received' \in [Processes -> [Processes -> Nat]]
      /\ enabled' \in [Publishers -> BOOLEAN] /\ receiver_count' \in [Publishers -> Int]
      /\ down' \in SUBSET Processes /\ missed' \in SUBSET (Publishers \X Subscribers)
      /\ lost' \in [Processes -> SUBSET Roles]
  BY <1>1 DEF ThreadInv, TypeOK
<1>7. None \notin job[t].slots
  BY RoleSets DEF ThreadInv, TypeOK
<1>8. /\ job[t].step # "idle" /\ job'[t].step \notin {"idle", "dispose"}
      /\ job'[t].step \in Callback <=> job'[t].pub # None
      /\ job'[t].pub \notin job'[t].slots
  BY <1>1, <1>2, <1>3, <1>7, RoleSets DEF Callback
<1> QED
  BY <1>1, <1>3, <1>5, <1>6, <1>8, StepThreads

(* A step of Enable(attr) or Disable(attr) in a callback. *)
LEMMA CallbackThreads ==
  ASSUME ThreadInv, NEW t \in Threads, job[t].step \in Callback,
         \/ \E step \in Callback : Continue(t, step)
         \/ Return(t),
         UNCHANGED <<known, connected, phase, log, received, down, missed, lost>>,
         enabled' \in [Publishers -> BOOLEAN], receiver_count' \in [Publishers -> Int]
  PROVE  ThreadInv'
<1>1. /\ job' \in [Threads -> JobRec] /\ \A u \in Threads \ {t} : job'[u] = job[u]
      /\ job'[t].slots = job[t].slots /\ job'[t].msg = job[t].msg
      /\ \/ job'[t].step \in Callback /\ job'[t].pub = job[t].pub
         \/ job'[t].step = "notify" /\ job'[t].pub = None
  <2>1. CASE Return(t)
    BY <2>1, JobReturns DEF Proceeds, ThreadInv
  <2>2. ASSUME NEW step \in Callback, Continue(t, step)
        PROVE  Proceeds(t, step, job[t].slots, job[t].pub)
    <3>1. step \in Steps
      BY DEF Callback, Steps
    <3> QED
      BY <2>2, <3>1, JobContinues DEF ThreadInv
  <2> QED
    BY <2>1, <2>2 DEF Proceeds
<1>2. /\ job[t].step # "idle" /\ job[t].pub # None /\ job[t].pub \notin job[t].slots
      /\ job[t].slots \in SUBSET Publishers
      /\ \A x \in Called(t) : Home[x] = ProcessOf(t) /\ phase[x] # "none"
      /\ Called(t) # {} => job[t].msg.role \in Subscribers
  BY DEF ThreadInv, OwnSlots, Callback, TypeOK
<1>3. Called(t)' \subseteq Called(t)
  BY <1>1 DEF Called
<1>4. None \notin job[t].slots
  BY <1>2, RoleSets
<1>5. /\ job'[t].step \notin {"idle", "dispose"}
      /\ job'[t].step \in Callback <=> job'[t].pub # None
      /\ job'[t].pub \notin job'[t].slots
  BY <1>1, <1>2, <1>4 DEF Callback
<1>6. /\ known' \in [Processes -> SUBSET Roles] /\ received' \in [Processes -> [Processes -> Nat]]
      /\ down' \in SUBSET Processes /\ missed' \in SUBSET (Publishers \X Subscribers)
      /\ lost' \in [Processes -> SUBSET Roles]
  BY DEF ThreadInv, TypeOK
<1>7. /\ \A x \in Called(t)' : Home[x] = ProcessOf(t) /\ phase[x] # "none"
      /\ Called(t)' # {} => job[t].msg.role \in Subscribers
  BY <1>2, <1>3
<1> QED
  BY <1>1, <1>2, <1>5, <1>6, <1>7, StepThreads

(* Enable and Disable change the flag or the count of the publisher called. *)
LEMMA DisposingThreads ==
  ASSUME ThreadInv, NEW t \in Threads, Disposing(t)
  PROVE  ThreadInv'
<1>1. CASE Dispose(t) \/ NotifySlot(t)
  BY <1>1, DisposeThreads, NotifyThreads
<1>2. CASE EnableCount(t) \/ DisableCount(t)
  <2>1. job[t].step \in Callback
    BY <1>2 DEF EnableCount, DisableCount, InCallback, Callback
  <2>2. /\ \/ \E step \in Callback : Continue(t, step)
           \/ Return(t)
        /\ UNCHANGED <<known, connected, phase, log, received, enabled, down, missed, lost>>
    BY <1>2 DEF EnableCount, DisableCount, Callback
  <2>3. enabled' \in [Publishers -> BOOLEAN]
    BY <2>2 DEF ThreadInv, TypeOK
  <2>4. receiver_count' \in [Publishers -> Int]
    <3>1. receiver_count \in [Publishers -> Int]
      BY DEF ThreadInv, TypeOK
    <3>2. \/ receiver_count' = [receiver_count EXCEPT ![job[t].pub] = @ + 1]
          \/ receiver_count' = [receiver_count EXCEPT ![job[t].pub] = @ - 1]
      BY <1>2 DEF EnableCount, DisableCount
    <3> QED
      BY <3>1, <3>2
  <2> QED
    BY <2>1, <2>2, <2>3, <2>4, CallbackThreads
<1>3. CASE Enable(t) \/ DisableTest(t) \/ Disable(t)
  <2>1. job[t].step \in Callback
    BY <1>3 DEF Enable, DisableTest, Disable, InCallback, Callback
  <2>2. /\ \/ \E step \in Callback : Continue(t, step)
           \/ Return(t)
        /\ UNCHANGED <<known, connected, phase, log, received, receiver_count, down, missed, lost>>
    BY <1>3 DEF Enable, DisableTest, Disable, Callback, endpoints
  <2>3. receiver_count' \in [Publishers -> Int]
    BY <2>2 DEF ThreadInv, TypeOK
  <2>4. enabled' \in [Publishers -> BOOLEAN]
    <3>1. enabled \in [Publishers -> BOOLEAN]
      BY DEF ThreadInv, TypeOK
    <3>2. job[t].pub \in Publishers
      BY <2>1 DEF ThreadInv, OwnSlots, TypeOK
    <3>3. CASE DisableTest(t)
      BY <3>1, <3>3 DEF DisableTest, endpoints
    <3>4. CASE Disable(t)
      <4>1. enabled' = [enabled EXCEPT ![job[t].pub] = FALSE]
        BY <3>4 DEF Disable
      <4> QED
        BY <3>1, <4>1
    <3>5. CASE Enable(t)
      <4>1. enabled' = [enabled EXCEPT ![job[t].pub] =
                          enabled[job[t].pub] \/ receiver_count[job[t].pub] # 0]
        BY <3>5 DEF Enable
      <4>2. (enabled[job[t].pub] \/ receiver_count[job[t].pub] # 0) \in BOOLEAN
        OBVIOUS
      <4> QED
        BY <3>1, <3>2, <4>1, <4>2, Zenon
    <3> QED
      BY <1>3, <3>3, <3>4, <3>5
  <2> QED
    BY <2>1, <2>2, <2>3, <2>4, CallbackThreads
<1>4. CASE CallbackOnGone(t)
  <2>1. /\ UNCHANGED <<known, connected, phase, job, log, received, enabled, receiver_count, missed, lost>>
        /\ down' = down \cup {ProcessOf(t)}
    BY <1>4 DEF CallbackOnGone, endpoints
  <2>2. ProcessOf(t) \in Processes
    BY Homes
  <2>3. /\ received' \in [Processes -> [Processes -> Nat]]
        /\ down' \in SUBSET Processes /\ lost' \in [Processes -> SUBSET Roles]
    BY <2>1, <2>2 DEF ThreadInv, TypeOK
  <2> QED
    BY <2>1, <2>3, QuietThreads
<1> QED
  BY <1>1, <1>2, <1>3, <1>4 DEF Disposing

(* LoseChange takes a change without a job. *)
LEMMA LoseEffect ==
  ASSUME ThreadInv, NEW q \in Processes, NEW s \in Processes, LoseChange(q, s)
  PROVE  /\ received' \in [Processes -> [Processes -> Nat]]
         /\ \A x, y \in Processes : received[x][y] <= received'[x][y]
         /\ lost' \in [Processes -> SUBSET Roles]
         /\ UNCHANGED <<known, connected, phase, job, log, enabled, receiver_count, down, missed>>
<1> USE DEF ThreadInv
<1>1. /\ received[q][s] < Len(log[s])
      /\ received' = [received EXCEPT ![q][s] = @ + 1]
      /\ lost' = [lost EXCEPT ![q] = @ \cup {log[s][received[q][s] + 1].role}]
      /\ UNCHANGED <<known, connected, phase, job, log, enabled, receiver_count, down, missed>>
  BY DEF LoseChange, endpoints
<1>2. received \in [Processes -> [Processes -> Nat]] /\ received[q][s] \in Nat
  BY DEF TypeOK
<1>3. received[q][s] + 1 \in 1 .. Len(log[s])
  BY <1>1, <1>2, LogEntries
<1>4. log[s][received[q][s] + 1].role \in Roles
  BY <1>3, LogEntries
<1>5. lost' \in [Processes -> SUBSET Roles]
  BY <1>1, <1>4 DEF TypeOK
<1>6. /\ received' \in [Processes -> [Processes -> Nat]]
      /\ \A x, y \in Processes : received[x][y] <= received'[x][y]
  BY <1>1, <1>2, SMTT(30)
<1> QED
  BY <1>1, <1>5, <1>6

(* OnRemoteChangeEnd makes the receiving thread idle. *)
LEMMA EndEffect ==
  ASSUME ThreadInv, NEW q \in Processes, OnRemoteChangeEnd(q)
  PROVE  /\ job[q].step = "notify" /\ job[q].slots = {} /\ job[q].pub = None
         /\ job' \in [Threads -> JobRec] /\ job'[q] = Idle
         /\ \A u \in Threads \ {q} : job'[u] = job[u]
         /\ UNCHANGED <<known, connected, phase, log, received, enabled, receiver_count, down,
                        missed, lost>>
<1>1. /\ job[q].step = "notify" /\ job[q].slots = {}
      /\ job' = [job EXCEPT ![q] = Idle]
      /\ UNCHANGED <<known, connected, phase, log, received, enabled, receiver_count, down,
                     missed, lost>>
  BY DEF OnRemoteChangeEnd, endpoints
<1>2. q \in Threads
  BY Homes
<1>3. job[q].pub = None
  BY <1>1, <1>2 DEF ThreadInv, OwnSlots, Callback
<1> QED
  BY <1>1, <1>2, <1>3, IdleJob, JobReplaced DEF ThreadInv

LEMMA NextThreads ==
  ASSUME ThreadInv, [Next]_vars
  PROVE  ThreadInv'
<1>1. CASE \E r \in Roles : JoinTheTopology(r) \/ LeaveTheTopology(r) \/ Write(r)
  BY <1>1, JoinLeaveThreads, WriteThreads
<1>2. ASSUME NEW q \in Processes, NEW s \in Processes, OnRemoteChange(q, s)
      PROVE  ThreadInv'
  BY <1>2, ReceiveThreads
<1>3. ASSUME NEW q \in Processes, NEW s \in Processes, LoseChange(q, s)
      PROVE  ThreadInv'
  <2>1. down' \in SUBSET Processes
    BY <1>3, LoseEffect DEF ThreadInv, TypeOK
  <2> QED
    BY <1>3, <2>1, LoseEffect, QuietThreads
<1>4. ASSUME NEW q \in Processes, OnRemoteChangeEnd(q)
      PROVE  ThreadInv'
  <2>1. q \in Threads
    BY Homes
  <2>2. /\ job[q].step = "notify" /\ job' \in [Threads -> JobRec] /\ job'[q] = Idle
        /\ \A u \in Threads \ {q} : job'[u] = job[u]
        /\ UNCHANGED <<known, connected, phase, log, received, enabled, receiver_count, down,
                       missed, lost>>
    BY <1>4, EndEffect
  <2>3. /\ known' \in [Processes -> SUBSET Roles] /\ received' \in [Processes -> [Processes -> Nat]]
        /\ enabled' \in [Publishers -> BOOLEAN] /\ receiver_count' \in [Publishers -> Int]
        /\ down' \in SUBSET Processes /\ missed' \in SUBSET (Publishers \X Subscribers)
        /\ lost' \in [Processes -> SUBSET Roles]
    BY <2>2 DEF ThreadInv, TypeOK
  <2>4. job[q].step # "idle"
    BY <2>2
  <2> QED
    BY <2>1, <2>2, <2>3, <2>4, StepThreads
<1>5. ASSUME NEW q \in Processes, Crash(q)
      PROVE  ThreadInv'
  <2>1. /\ UNCHANGED <<known, connected, phase, job, log, received, enabled, receiver_count, missed, lost>>
        /\ down' = down \cup {q}
    BY <1>5 DEF Crash, endpoints
  <2>2. /\ received' \in [Processes -> [Processes -> Nat]]
        /\ down' \in SUBSET Processes /\ lost' \in [Processes -> SUBSET Roles]
    BY <2>1 DEF ThreadInv, TypeOK
  <2> QED
    BY <2>1, <2>2, QuietThreads
<1>6. CASE UNCHANGED vars
  <2>1. /\ received' \in [Processes -> [Processes -> Nat]]
        /\ down' \in SUBSET Processes /\ lost' \in [Processes -> SUBSET Roles]
        /\ UNCHANGED <<known, connected, phase, job, log, enabled, receiver_count, missed>>
    BY <1>6 DEF ThreadInv, TypeOK, vars, endpoints
  <2> QED
    BY <2>1, QuietThreads
<1> QED
  BY <1>1, <1>2, <1>3, <1>4, <1>5, <1>6, DisposingThreads DEF Next

-----------------------------------------------------------------------------
(* While nobody leaves, a subscriber is disposed of by one thread in each  *)
(* process, as a join.                                                     *)

LEMMA OneDisposer ==
  ASSUME OwnChange, NEW t \in Threads, NEW u \in Threads,
         job[t].step # "idle", job[u].step # "idle",
         ProcessOf(t) = ProcessOf(u), job[t].msg.role = job[u].msg.role
  PROVE  t = u
<1>1. \A x \in Threads : x \in Roles /\ job[x].step # "idle" =>
        job[x].msg.role = x /\ ProcessOf(x) = Home[job[x].msg.role]
  BY Homes DEF OwnChange
<1>2. \A x \in Threads : x \notin Roles /\ job[x].step # "idle" =>
        ProcessOf(x) = x /\ ProcessOf(x) # Home[job[x].msg.role]
  BY Homes DEF OwnChange
<1>3. CASE t \in Roles
  BY <1>1, <1>2, <1>3
<1>4. CASE t \notin Roles
  BY <1>1, <1>2, <1>4
<1> QED
  BY <1>3, <1>4

LEMMA SubscribersJoin ==
  ASSUME ThreadInv, NobodyLeaves, NEW t \in Threads, job[t].step # "idle",
         job[t].msg.role \in Subscribers
  PROVE  job[t].msg.operate_type = "OPT_JOIN"
<1>1. job[t].msg \in ChangeMsg
  BY DEF ThreadInv, TypeOK
<1>2. job[t].msg.operate_type \in {"OPT_JOIN", "OPT_LEAVE"}
  BY <1>1 DEF ChangeMsg
<1>3. job[t].msg.operate_type = "OPT_LEAVE" => phase[job[t].msg.role] \in {"leaving", "gone"}
  BY Homes DEF ThreadInv, OwnChange
<1> QED
  BY <1>2, <1>3 DEF NobodyLeaves

(* A thread that has publishers to call has a change, which is known. *)
LEMMA Calling ==
  ASSUME ThreadInv, NEW t \in Threads, NEW p \in Called(t)
  PROVE  /\ job[t].step \notin {"idle", "dispose"} /\ Home[p] = ProcessOf(t)
         /\ job[t].msg.role \in Subscribers /\ p \in Publishers
<1>1. job[t].step \notin {"idle", "dispose"}
  BY DEF ThreadInv, OwnSlots, Called, Callback
<1>2. Home[p] = ProcessOf(t) /\ job[t].msg.role \in Subscribers
  BY DEF ThreadInv, OwnSlots
<1>3. p \in Publishers
  BY DEF ThreadInv, TypeOK, Called
<1> QED
  BY <1>1, <1>2, <1>3

LEMMA ClaimsCalled ==
  ASSUME NEW t, NEW p \in Publishers, Claims(t, p)
  PROVE  p \in Called(t)
  BY RoleSets DEF Claims, Called

(* A change that was taken stays taken as logs grow. *)
LEMMA StaysTaken ==
  ASSUME TypeOK, NEW q \in Processes, NEW s \in Subscribers, Taken(q, s),
         received' \in [Processes -> [Processes -> Nat]],
         received[q][Home[s]] <= received'[q][Home[s]],
         Len(log'[Home[s]]) \in Nat, Len(log[Home[s]]) <= Len(log'[Home[s]]),
         \A i \in 1 .. Len(log[Home[s]]) : log'[Home[s]][i] = log[Home[s]][i]
  PROVE  Taken(q, s)'
<1>1. Home[s] \in Processes
  BY Homes, RoleSets
<1>2. PICK i \in 1 .. Len(log[Home[s]]) : i <= received[q][Home[s]] /\ log[Home[s]][i].role = s
  BY DEF Taken
<1>3. received[q][Home[s]] \in Nat /\ received'[q][Home[s]] \in Nat /\ Len(log[Home[s]]) \in Nat
  BY <1>1, LogEntries DEF TypeOK
<1>4. i \in 1 .. Len(log'[Home[s]]) /\ i <= received'[q][Home[s]]
  BY <1>2, <1>3
<1> QED
  BY <1>2, <1>4 DEF Taken

(* The count stays exact when what is counted and who enables stay. *)
LEMMA CountsKept ==
  ASSUME CountExact, MissedBefore, UNCHANGED <<enabled, receiver_count>>,
         \A p \in Publishers :
           /\ Enabling(p)' <=> Enabling(p)
           /\ phase'[p] = "none" => phase[p] = "none"
           /\ phase'[p] \in {"joining", "joined"} =>
                phase[p] \in {"none", "joining", "joined"} /\ Counted(p)' = Counted(p)
  PROVE  CountExact'
<1> SUFFICES ASSUME NEW p \in Publishers
             PROVE  /\ phase'[p] \in {"joining", "joined"} =>
                         receiver_count[p] = Cardinality(Counted(p)')
                    /\ phase'[p] = "none" => receiver_count[p] = 0
                    /\ receiver_count[p] >= 0
                    /\ enabled[p] = TRUE \/ Enabling(p) => receiver_count[p] > 0
                    /\ receiver_count[p] > 0 => enabled[p] = TRUE \/ Enabling(p)
  BY DEF CountExact
<1>1. CASE phase[p] = "none"
  <2>1. Counted(p) = {}
    BY <1>1 DEF MissedBefore, Counted
  <2>2. Cardinality({}) = 0
    BY FS_EmptySet
  <2> QED
    BY <1>1, <2>1, <2>2 DEF CountExact
<1>2. CASE phase[p] # "none"
  BY <1>2 DEF CountExact
<1> QED
  BY <1>1, <1>2

(* A thread without publishers to call begins, goes on with or ends its    *)
(* change, and known readers stay.                                         *)
LEMMA NoCallKeeps ==
  ASSUME ThreadInv, CountExact, MissedBefore, NEW t \in Threads,
         job[t].slots = {}, job[t].pub = None, job'[t].slots = {}, job'[t].pub = None,
         \A u \in Threads \ {t} : job'[u] = job[u],
         UNCHANGED <<enabled, receiver_count, missed>>,
         \A q \in Processes : known'[q] \cap Subscribers = known[q] \cap Subscribers,
         \A p \in Publishers :
           /\ phase'[p] = "none" => phase[p] = "none"
           /\ phase'[p] \in {"joining", "joined"} => phase[p] \in {"none", "joining", "joined"}
  PROVE  CountExact' /\ MissedBefore'
<1>0. \A p \in Publishers : p \in Roles /\ p # None /\ Home[p] \in Processes
  BY Homes, RoleSets
<1>1. \A p \in Publishers : ReadersKnown(p)' = ReadersKnown(p)
  BY <1>0 DEF ReadersKnown
<1>2. \A u \in Threads, p \in Publishers : Claims(u, p)' <=> Claims(u, p)
  BY <1>0 DEF Claims
<1>3. \A p \in Publishers : ~ Claims(t, p)
  BY <1>0 DEF Claims
<1>4. ASSUME NEW p \in Publishers, NEW s
      PROVE  ToCount(p, s)' <=> ToCount(p, s)
  BY <1>2, <1>3 DEF ToCount
<1>5. \A p \in Publishers : Counted(p)' = Counted(p)
  BY <1>1, <1>4 DEF Counted
<1>6. \A p \in Publishers : Enabling(p)' <=> Enabling(p)
  BY <1>0 DEF Enabling
<1>7. CountExact'
  BY <1>5, <1>6, CountsKept
<1>8. MissedBefore'
  <2>1. ASSUME NEW p \in Publishers, NEW s \in Subscribers, <<p, s>> \in missed
        PROVE  s \in known'[Home[p]]
    BY <1>0, <2>1 DEF MissedBefore
  <2>2. ASSUME NEW p \in Publishers, phase'[p] = "none", NEW s \in ReadersKnown(p)'
        PROVE  <<p, s>> \in missed
    BY <1>1, <2>2 DEF MissedBefore
  <2>3. ASSUME NEW u \in Threads, NEW p \in Called(u)'
        PROVE  <<p, job'[u].msg.role>> \notin missed
    <3>1. u # t
      BY <2>3 DEF Called
    <3>2. job'[u] = job[u] /\ Called(u)' = Called(u)
      BY <3>1 DEF Called
    <3> QED
      BY <3>2 DEF MissedBefore
  <2> QED
    BY <2>1, <2>2, <2>3 DEF MissedBefore
<1> QED
  BY <1>7, <1>8

(* JoinTheTopology and LeaveTheTopology: a role that begins to join is not *)
(* known, and only publishers leave.                                       *)
LEMMA JoinLeaveCounts ==
  ASSUME ThreadInv, NobodyLeaves, NobodyLeaves', CountInv,
         NEW r \in Roles, JoinTheTopology(r) \/ LeaveTheTopology(r)
  PROVE  CountInv'
<1> USE DEF ThreadInv
<1>1. PICK msg \in ChangeMsg :
        /\ msg.role = r /\ job' = [job EXCEPT ![r] = Job(msg)]
        /\ \/ phase[r] = "none" /\ phase' = [phase EXCEPT ![r] = "joining"]
           \/ phase[r] = "joined" /\ phase' = [phase EXCEPT ![r] = "leaving"]
        /\ UNCHANGED <<known, log, received, enabled, receiver_count, missed>>
  <2>1. CASE JoinTheTopology(r)
    <3> DEFINE m == [operate_type |-> "OPT_JOIN", role |-> r]
    <3>1. m \in ChangeMsg /\ m.role = r
      BY DEF ChangeMsg
    <3> QED
      BY <2>1, <3>1 DEF JoinTheTopology, endpoints
  <2>2. CASE LeaveTheTopology(r)
    <3> DEFINE m == [operate_type |-> "OPT_LEAVE", role |-> r]
    <3>1. m \in ChangeMsg /\ m.role = r
      BY DEF ChangeMsg
    <3> QED
      BY <2>2, <3>1 DEF LeaveTheTopology, endpoints
  <2> QED
    BY <2>1, <2>2
<1>2. r \in Threads /\ r \notin Processes /\ ProcessOf(r) = Home[r] /\ Home[r] \in Processes
  BY Homes
<1>3. /\ job'[r].step = "dispose" /\ job'[r].msg = msg
      /\ job'[r].slots = {} /\ job'[r].pub = None
      /\ \A u \in Threads \ {r} : job'[u] = job[u]
  <2>1. job'[r] = Job(msg) /\ \A u \in Threads \ {r} : job'[u] = job[u]
    BY <1>1, <1>2, NewJob, JobReplaced
  <2> QED
    BY <2>1, NewJob
<1>4. /\ \A x \in Roles \ {r} : phase'[x] = phase[x]
      /\ phase'[r] \in {"joining", "leaving"}
      /\ phase'[r] = "joining" => phase[r] = "none"
      /\ phase[r] \in {"none", "joined"}
  BY <1>1 DEF TypeOK
<1>5. r \in Subscribers => phase[r] = "none"
  BY <1>1, <1>4 DEF NobodyLeaves
<1>6. job[r].slots = {} /\ job[r].pub = None
  <2>1. job[r].step = "idle"
    BY <1>4 DEF OwnChange
  <2> QED
    BY <1>2, <2>1 DEF OwnSlots, Callback
<1>7. WrittenOnce'
  <2> SUFFICES ASSUME NEW h \in Processes, NEW i \in 1 .. Len(log[h]), log[h][i].role \in Subscribers
               PROVE  /\ phase'[log[h][i].role] = "joined"
                      /\ \A j \in 1 .. Len(log[h]) : log[h][j].role = log[h][i].role => i = j
    BY <1>1 DEF WrittenOnce
  <2>1. /\ phase[log[h][i].role] = "joined"
        /\ \A j \in 1 .. Len(log[h]) : log[h][j].role = log[h][i].role => i = j
    BY DEF CountInv, WrittenOnce
  <2>2. log[h][i].role # r /\ log[h][i].role \in Roles
    BY <1>5, <2>1, RoleSets
  <2> QED
    BY <1>4, <2>1, <2>2
<1>8. KnownOnce'
  <2>0. \A q, s : Taken(q, s)' <=> Taken(q, s)
    BY <1>1 DEF Taken
  <2>1. ASSUME NEW q \in Processes, NEW s \in known'[q] \cap Subscribers
        PROVE  IF Home[s] = q THEN phase'[s] # "none" ELSE Taken(q, s)'
    <3>1. IF Home[s] = q THEN phase[s] # "none" ELSE Taken(q, s)
      BY <1>1 DEF CountInv, KnownOnce
    <3>2. s \in Roles
      BY RoleSets
    <3> QED
      BY <1>4, <2>0, <3>1, <3>2
  <2>2. ASSUME NEW q \in Processes, job'[q].step # "idle", job'[q].msg.role \in Subscribers
        PROVE  Taken(q, job[q].msg.role)'
    <3>1. job'[q] = job[q]
      BY <1>2, <1>3, Homes
    <3>2. PICK s \in Subscribers : s = job[q].msg.role
      BY <2>2, <3>1
    <3>3. Taken(q, s)
      BY <2>2, <3>1, <3>2 DEF CountInv, KnownOnce
    <3>4. Taken(q, s)'
      BY <2>0, <3>3
    <3> QED
      BY <3>1, <3>2, <3>4 DEF Taken
  <2>3. ASSUME NEW t \in Threads, job'[t].step # "idle", job'[t].msg.role \in Subscribers
        PROVE  job'[t].msg.role \in known'[ProcessOf(t)] <=> job'[t].step # "dispose"
    <3>1. CASE t # r
      BY <1>1, <1>3, <2>3, <3>1 DEF CountInv, KnownOnce
    <3>2. CASE t = r
      <4>1. r \in Subscribers /\ phase[r] = "none"
        BY <1>1, <1>3, <1>5, <2>3, <3>2
      <4>2. r \notin known[Home[r]]
        BY <1>2, <4>1 DEF CountInv, KnownOnce
      <4> QED
        BY <1>1, <1>2, <1>3, <3>2, <4>2
    <3> QED
      BY <3>1, <3>2
  <2> QED
    BY <2>1, <2>2, <2>3 DEF KnownOnce
<1>9. CountExact' /\ MissedBefore'
  <2>1. \A p \in Publishers :
          /\ phase'[p] = "none" => phase[p] = "none"
          /\ phase'[p] \in {"joining", "joined"} => phase[p] \in {"none", "joining", "joined"}
    BY <1>4, RoleSets
  <2> QED
    BY <1>1, <1>2, <1>3, <1>6, <2>1, NoCallKeeps DEF CountInv
<1> QED
  BY <1>7, <1>8, <1>9 DEF CountInv

(* Write: what a subscriber writes is not in the log before. *)
LEMMA WriteCounts ==
  ASSUME ThreadInv, NobodyLeaves, CountInv, NEW r \in Roles, Write(r)
  PROVE  CountInv'
<1> USE DEF ThreadInv
<1>1. /\ job[r].slots = {} /\ job[r].pub = None /\ job[r].msg.role = r
      /\ job'[r] = Idle /\ \A u \in Threads \ {r} : job'[u] = job[u]
      /\ UNCHANGED <<known, received, enabled, receiver_count, missed>>
  BY WriteEffect
<1>2. /\ \A h \in Processes \ {Home[r]} : log'[h] = log[h]
      /\ Len(log'[Home[r]]) = Len(log[Home[r]]) + 1
      /\ log'[Home[r]][Len(log[Home[r]]) + 1] = job[r].msg
      /\ \A i \in 1 .. Len(log[Home[r]]) : log'[Home[r]][i] = log[Home[r]][i]
  BY WriteEffect
<1>3. /\ \A x \in Roles \ {r} : phase'[x] = phase[x]
      /\ \/ phase[r] = "joining" /\ phase'[r] = "joined"
         \/ phase[r] = "leaving" /\ phase'[r] = "gone"
  BY WriteEffect
<1>4. /\ r \in Threads /\ Home[r] \in Processes /\ r \notin Processes
      /\ \A h \in Processes : Len(log[h]) \in Nat
  BY Homes, LogEntries
<1>5. \A h \in Processes :
        /\ Len(log'[h]) \in Nat /\ Len(log[h]) <= Len(log'[h])
        /\ \A i \in 1 .. Len(log[h]) : log'[h][i] = log[h][i]
        /\ \A i \in 1 .. Len(log'[h]) : i \in 1 .. Len(log[h]) \/ (h = Home[r] /\ log'[h][i] = job[r].msg /\ i = Len(log[h]) + 1)
  BY <1>2, <1>4
<1>6. WrittenOnce'
  <2> SUFFICES ASSUME NEW h \in Processes, NEW i \in 1 .. Len(log'[h]), log'[h][i].role \in Subscribers
               PROVE  /\ phase'[log'[h][i].role] = "joined"
                      /\ \A j \in 1 .. Len(log'[h]) : log'[h][j].role = log'[h][i].role => i = j
    BY DEF WrittenOnce
  <2>1. ASSUME NEW k \in 1 .. Len(log[h]), log[h][k].role \in Subscribers
        PROVE  log[h][k].role # r /\ phase'[log[h][k].role] = "joined"
    <3>1. phase[log[h][k].role] = "joined"
      BY <2>1 DEF CountInv, WrittenOnce
    <3>2. log[h][k].role # r /\ log[h][k].role \in Roles
      BY <1>3, <2>1, <3>1, RoleSets
    <3> QED
      BY <1>3, <3>1, <3>2
  <2>2. CASE i \in 1 .. Len(log[h])
    <3>1. log'[h][i] = log[h][i]
      BY <1>5, <2>2
    <3>2. phase'[log[h][i].role] = "joined" /\ log[h][i].role # r
      BY <2>1, <2>2, <3>1
    <3>3. ASSUME NEW j \in 1 .. Len(log'[h]), log'[h][j].role = log'[h][i].role
          PROVE  i = j
      <4>1. j \in 1 .. Len(log[h]) /\ log'[h][j] = log[h][j]
        BY <1>1, <1>5, <3>1, <3>2, <3>3
      <4> QED
        BY <2>2, <3>1, <3>3, <4>1 DEF CountInv, WrittenOnce
    <3> QED
      BY <3>1, <3>2, <3>3
  <2>3. CASE i \notin 1 .. Len(log[h])
    <3>1. h = Home[r] /\ i = Len(log[h]) + 1 /\ log'[h][i].role = r
      BY <1>1, <1>5, <2>3
    <3>2. r \in Subscribers /\ phase'[r] = "joined"
      BY <1>3, <3>1 DEF NobodyLeaves
    <3>3. ASSUME NEW j \in 1 .. Len(log'[h]), log'[h][j].role = r
          PROVE  i = j
      <4>1. j \notin 1 .. Len(log[h])
        BY <1>5, <2>1, <3>2, <3>3
      <4> QED
        BY <1>5, <3>1, <4>1
    <3> QED
      BY <3>1, <3>2, <3>3
  <2> QED
    BY <2>2, <2>3
<1>7. KnownOnce'
  <2>0. ASSUME NEW q \in Processes, NEW s \in Subscribers, Taken(q, s)
        PROVE  Taken(q, s)'
    <3>1. Home[s] \in Processes
      BY Homes, RoleSets
    <3>2. received' \in [Processes -> [Processes -> Nat]] /\ received[q][Home[s]] <= received'[q][Home[s]]
      BY <1>1, <3>1 DEF TypeOK
    <3> QED
      BY <1>5, <2>0, <3>1, <3>2, StaysTaken
  <2>1. ASSUME NEW q \in Processes, NEW s \in known'[q] \cap Subscribers
        PROVE  IF Home[s] = q THEN phase'[s] # "none" ELSE Taken(q, s)'
    <3>1. IF Home[s] = q THEN phase[s] # "none" ELSE Taken(q, s)
      BY <1>1 DEF CountInv, KnownOnce
    <3>2. s \in Roles
      BY RoleSets
    <3> QED
      BY <1>3, <2>0, <3>1, <3>2
  <2>2. ASSUME NEW q \in Processes, job'[q].step # "idle", job'[q].msg.role \in Subscribers
        PROVE  Taken(q, job[q].msg.role)'
    <3>1. job'[q] = job[q]
      BY <1>1, <1>4, Homes
    <3>2. PICK s \in Subscribers : s = job[q].msg.role
      BY <2>2, <3>1
    <3>3. Taken(q, s)
      BY <2>2, <3>1, <3>2 DEF CountInv, KnownOnce
    <3>4. Taken(q, s)'
      BY <2>0, <3>3
    <3> QED
      BY <3>1, <3>2, <3>4 DEF Taken
  <2>3. ASSUME NEW t \in Threads, job'[t].step # "idle", job'[t].msg.role \in Subscribers
        PROVE  job'[t].msg.role \in known'[ProcessOf(t)] <=> job'[t].step # "dispose"
    <3>1. t # r /\ job'[t] = job[t]
      BY <1>1, <2>3, IdleJob
    <3> QED
      BY <1>1, <2>3, <3>1 DEF CountInv, KnownOnce
  <2> QED
    BY <2>1, <2>2, <2>3 DEF KnownOnce
<1>8. CountExact' /\ MissedBefore'
  <2>1. \A p \in Publishers :
          /\ phase'[p] = "none" => phase[p] = "none"
          /\ phase'[p] \in {"joining", "joined"} => phase[p] \in {"none", "joining", "joined"}
    BY <1>3, RoleSets
  <2>2. job'[r].slots = {} /\ job'[r].pub = None
    BY <1>1, IdleJob
  <2> QED
    BY <1>1, <1>4, <2>1, <2>2, NoCallKeeps DEF CountInv
<1> QED
  BY <1>6, <1>7, <1>8 DEF CountInv

(* What is known stays justified when no subscriber's change begins or is  *)
(* disposed of.                                                            *)
LEMMA KnownKept ==
  ASSUME ThreadInv, WrittenOnce, KnownOnce, UNCHANGED <<phase, log>>,
         received' \in [Processes -> [Processes -> Nat]],
         \A x, y \in Processes : received[x][y] <= received'[x][y],
         \A q \in Processes : known'[q] \cap Subscribers = known[q] \cap Subscribers,
         \A u \in Threads : job'[u].step # "idle" /\ job'[u].msg.role \in Subscribers =>
           /\ job[u].step # "idle" /\ job'[u].msg = job[u].msg
           /\ job'[u].step = "dispose" <=> job[u].step = "dispose"
  PROVE  WrittenOnce' /\ KnownOnce'
<1>0. ASSUME NEW q \in Processes, NEW s \in Subscribers, Taken(q, s)
      PROVE  Taken(q, s)'
  <2>1. Home[s] \in Processes
    BY Homes, RoleSets
  <2>2. Len(log[Home[s]]) \in Nat
    BY <2>1, LogEntries DEF ThreadInv
  <2>3. /\ Len(log'[Home[s]]) \in Nat /\ Len(log[Home[s]]) <= Len(log'[Home[s]])
        /\ \A i \in 1 .. Len(log[Home[s]]) : log'[Home[s]][i] = log[Home[s]][i]
    BY <2>2
  <2> QED
    BY <1>0, <2>1, <2>3, StaysTaken DEF ThreadInv
<1>1. ASSUME NEW q \in Processes, NEW s \in known'[q] \cap Subscribers
      PROVE  IF Home[s] = q THEN phase'[s] # "none" ELSE Taken(q, s)'
  <2>1. s \in known[q] \cap Subscribers
    OBVIOUS
  <2>2. IF Home[s] = q THEN phase[s] # "none" ELSE Taken(q, s)
    BY <2>1 DEF KnownOnce
  <2> QED
    BY <1>0, <2>1, <2>2
<1>2. ASSUME NEW q \in Processes, job'[q].step # "idle", job'[q].msg.role \in Subscribers
      PROVE  Taken(q, job[q].msg.role)'
  <2>1. job[q].step # "idle" /\ job'[q].msg = job[q].msg
    BY <1>2, Homes
  <2>2. PICK s \in Subscribers : s = job[q].msg.role
    BY <1>2, <2>1
  <2>3. Taken(q, s)'
    BY <1>0, <1>2, <2>1, <2>2 DEF KnownOnce
  <2> QED
    BY <2>1, <2>2, <2>3 DEF Taken
<1>3. ASSUME NEW t \in Threads, job'[t].step # "idle", job'[t].msg.role \in Subscribers
      PROVE  job'[t].msg.role \in known'[ProcessOf(t)] <=> job'[t].step # "dispose"
  <2>1. /\ job[t].step # "idle" /\ job'[t].msg = job[t].msg
        /\ job'[t].step = "dispose" <=> job[t].step = "dispose"
    BY <1>3
  <2>2. job[t].msg.role \in known[ProcessOf(t)] <=> job[t].step # "dispose"
    BY <1>3, <2>1 DEF KnownOnce
  <2>3. ProcessOf(t) \in Processes
    BY Homes
  <2> QED
    BY <1>3, <2>1, <2>2, <2>3
<1>4. WrittenOnce'
  BY DEF WrittenOnce
<1> QED
  BY <1>1, <1>2, <1>3, <1>4 DEF KnownOnce

(* OnRemoteChange: what a process takes from a log it has not taken. *)
LEMMA ReceiveCounts ==
  ASSUME ThreadInv, CountInv, NEW q \in Processes, NEW s \in Processes, OnRemoteChange(q, s)
  PROVE  CountInv'
<1> USE DEF ThreadInv
<1>1. PICK msg \in ChangeMsg : msg = log[s][received[q][s] + 1]
  BY ReceiveEffect
<1>2. /\ job[q].step = "idle" /\ q # s /\ msg.role \in Roles /\ Home[msg.role] = s
      /\ received[q][s] + 1 \in 1 .. Len(log[s])
      /\ job'[q] = Job(msg)
      /\ \A u \in Threads \ {q} : job'[u] = job[u]
      /\ UNCHANGED <<known, phase, log, enabled, receiver_count, missed>>
  BY <1>1, ReceiveEffect
<1>3. /\ received' \in [Processes -> [Processes -> Nat]]
      /\ received'[q][s] = received[q][s] + 1 /\ received[q][s] \in Nat
      /\ \A x, y \in Processes : received[x][y] <= received'[x][y]
  <2>1. received[q][s] \in Nat
    BY DEF TypeOK
  <2> QED
    BY <2>1, ReceiveEffect
<1>4. /\ job'[q].step = "dispose" /\ job'[q].msg = msg
      /\ job'[q].slots = {} /\ job'[q].pub = None
  BY <1>2, NewJob
<1>5. q \in Threads /\ ProcessOf(q) = q
  BY Homes
<1>6. WrittenOnce'
  BY <1>2 DEF CountInv, WrittenOnce
<1>7. KnownOnce'
  <2>0. ASSUME NEW x \in Processes, NEW y \in Subscribers, Taken(x, y)
        PROVE  Taken(x, y)'
    <3>1. Home[y] \in Processes
      BY Homes, RoleSets
    <3>2. Len(log[Home[y]]) \in Nat
      BY <3>1, LogEntries
    <3>3. /\ Len(log'[Home[y]]) \in Nat /\ Len(log[Home[y]]) <= Len(log'[Home[y]])
          /\ \A i \in 1 .. Len(log[Home[y]]) : log'[Home[y]][i] = log[Home[y]][i]
      BY <1>2, <3>2
    <3> QED
      BY <1>3, <2>0, <3>1, <3>3, StaysTaken
  <2>1. ASSUME NEW x \in Processes, NEW y \in known'[x] \cap Subscribers
        PROVE  IF Home[y] = x THEN phase'[y] # "none" ELSE Taken(x, y)'
    BY <1>2, <2>0 DEF CountInv, KnownOnce
  <2>2. ASSUME NEW x \in Processes, job'[x].step # "idle", job'[x].msg.role \in Subscribers
        PROVE  Taken(x, job[x].msg.role)'
    <3>1. CASE x = q
      <4>1. received[q][s] + 1 <= received'[q][s] /\ log'[s][received[q][s] + 1].role = msg.role
        BY <1>1, <1>2, <1>3
      <4>2. received[q][s] + 1 \in 1 .. Len(log'[s])
        BY <1>2
      <4> QED
        BY <1>2, <1>4, <3>1, <4>1, <4>2 DEF Taken
    <3>2. CASE x # q
      <4>1. job'[x] = job[x]
        BY <1>2, <3>2, Homes
      <4>2. PICK y \in Subscribers : y = job[x].msg.role
        BY <2>2, <4>1
      <4>3. Taken(x, y)'
        BY <2>0, <2>2, <4>1, <4>2 DEF CountInv, KnownOnce
      <4> QED
        BY <4>1, <4>2, <4>3 DEF Taken
    <3> QED
      BY <3>1, <3>2
  <2>3. ASSUME NEW t \in Threads, job'[t].step # "idle", job'[t].msg.role \in Subscribers
        PROVE  job'[t].msg.role \in known'[ProcessOf(t)] <=> job'[t].step # "dispose"
    <3>1. CASE t # q
      BY <1>2, <2>3, <3>1 DEF CountInv, KnownOnce
    <3>2. CASE t = q
      <4>1. msg.role \in Subscribers
        BY <1>4, <2>3, <3>2
      <4>2. ASSUME msg.role \in known[q]
            PROVE  FALSE
        <5>1. Taken(q, msg.role)
          BY <1>2, <4>1, <4>2 DEF CountInv, KnownOnce
        <5>2. PICK i \in 1 .. Len(log[s]) : i <= received[q][s] /\ log[s][i].role = msg.role
          BY <1>2, <5>1 DEF Taken
        <5>3. received[q][s] + 1 = i
          BY <1>1, <1>2, <4>1, <5>2 DEF CountInv, WrittenOnce
        <5> QED
          BY <1>3, <5>2, <5>3
      <4> QED
        BY <1>2, <1>4, <1>5, <3>2, <4>2
    <3> QED
      BY <3>1, <3>2
  <2> QED
    BY <2>1, <2>2, <2>3 DEF KnownOnce
<1>8. CountExact' /\ MissedBefore'
  <2>1. job[q].slots = {} /\ job[q].pub = None
    BY <1>2, <1>5 DEF OwnSlots, Callback
  <2>2. \A p \in Publishers :
          /\ phase'[p] = "none" => phase[p] = "none"
          /\ phase'[p] \in {"joining", "joined"} => phase[p] \in {"none", "joining", "joined"}
    BY <1>2
  <2> QED
    BY <1>2, <1>4, <1>5, <2>1, <2>2, NoCallKeeps DEF CountInv
<1> QED
  BY <1>6, <1>7, <1>8 DEF CountInv

(* OnRemoteChangeEnd. *)
LEMMA EndCounts ==
  ASSUME ThreadInv, CountInv, NEW q \in Processes, OnRemoteChangeEnd(q)
  PROVE  CountInv'
<1>1. /\ job[q].slots = {} /\ job[q].pub = None /\ job'[q] = Idle
      /\ \A u \in Threads \ {q} : job'[u] = job[u]
      /\ UNCHANGED <<known, phase, log, received, enabled, receiver_count, missed>>
  BY EndEffect
<1>2. q \in Threads /\ job'[q].step = "idle" /\ job'[q].slots = {} /\ job'[q].pub = None
  BY <1>1, Homes, IdleJob
<1>3. WrittenOnce' /\ KnownOnce'
  <2>1. /\ received' \in [Processes -> [Processes -> Nat]]
        /\ \A x, y \in Processes : received[x][y] <= received'[x][y]
    <3>1. received \in [Processes -> [Processes -> Nat]]
      BY DEF ThreadInv, TypeOK
    <3> QED
      BY <1>1, <3>1
  <2>2. \A u \in Threads : job'[u].step # "idle" /\ job'[u].msg.role \in Subscribers =>
           /\ job[u].step # "idle" /\ job'[u].msg = job[u].msg
           /\ job'[u].step = "dispose" <=> job[u].step = "dispose"
    BY <1>1, <1>2
  <2> QED
    BY <1>1, <2>1, <2>2, KnownKept DEF CountInv
<1>4. CountExact' /\ MissedBefore'
  BY <1>1, <1>2, NoCallKeeps DEF CountInv
<1> QED
  BY <1>3, <1>4 DEF CountInv

(* LoseChange, crashes and stuttering. *)
LEMMA QuietCounts ==
  ASSUME ThreadInv, CountInv,
         UNCHANGED <<known, phase, job, log, enabled, receiver_count, missed>>,
         received' \in [Processes -> [Processes -> Nat]],
         \A x, y \in Processes : received[x][y] <= received'[x][y]
  PROVE  CountInv'
<1>1. WrittenOnce' /\ KnownOnce'
  BY KnownKept DEF CountInv
<1>2. MissedBefore'
  BY DEF CountInv, MissedBefore, Called, ReadersKnown
<1>3. CountExact'
  <2>1. \A p : ReadersKnown(p)' = ReadersKnown(p) /\ (Enabling(p)' <=> Enabling(p))
    BY DEF ReadersKnown, Enabling
  <2>2. \A p, s : ToCount(p, s)' <=> ToCount(p, s)
    BY DEF ToCount, Claims
  <2>3. \A p \in Publishers : Counted(p)' = Counted(p)
    BY <2>1, <2>2 DEF Counted
  <2> QED
    BY <2>1, <2>3 DEF CountInv, CountExact
<1> QED
  BY <1>1, <1>2, <1>3 DEF CountInv

(* Dispose of a publisher's change changes no reader. *)
LEMMA DisposePublisher ==
  ASSUME ThreadInv, CountInv, NEW t \in Threads, Dispose(t), job[t].msg.role \notin Subscribers
  PROVE  CountInv'
<1>1. /\ job[t].step = "dispose" /\ job[t].slots = {} /\ job[t].pub = None
      /\ job[t].msg \in ChangeMsg
      /\ Proceeds(t, "notify", SlotsToCall(t), None)
      /\ known'[ProcessOf(t)] = Warehouse(known[ProcessOf(t)], job[t].msg)
      /\ \A x \in Processes \ {ProcessOf(t)} : known'[x] = known[x]
      /\ missed' = missed
      /\ UNCHANGED <<phase, log, received, enabled, receiver_count>>
  BY DisposeEffect
<1>2. /\ \A u \in Threads \ {t} : job'[u] = job[u]
      /\ job'[t].msg = job[t].msg /\ job'[t].slots = {} /\ job'[t].pub = None
  BY <1>1 DEF Proceeds, SlotsToCall
<1>3. \A q \in Processes : known'[q] \cap Subscribers = known[q] \cap Subscribers
  BY <1>1 DEF Warehouse
<1>4. WrittenOnce' /\ KnownOnce'
  <2>1. /\ received' \in [Processes -> [Processes -> Nat]]
        /\ \A x, y \in Processes : received[x][y] <= received'[x][y]
    <3>1. received \in [Processes -> [Processes -> Nat]]
      BY DEF ThreadInv, TypeOK
    <3> QED
      BY <1>1, <3>1
  <2>2. \A u \in Threads : job'[u].step # "idle" /\ job'[u].msg.role \in Subscribers =>
           /\ job[u].step # "idle" /\ job'[u].msg = job[u].msg
           /\ job'[u].step = "dispose" <=> job[u].step = "dispose"
    BY <1>2
  <2> QED
    BY <1>1, <1>3, <2>1, <2>2, KnownKept DEF CountInv
<1>5. CountExact' /\ MissedBefore'
  BY <1>1, <1>2, <1>3, NoCallKeeps DEF CountInv
<1> QED
  BY <1>4, <1>5 DEF CountInv

(* Dispose of a subscriber's join: it becomes known; the publishers of the *)
(* process that listen will count it and the others miss it.               *)
LEMMA DisposeSubscriber ==
  ASSUME ThreadInv, NobodyLeaves, CountInv, NEW t \in Threads, Dispose(t),
         NEW x \in Subscribers, x = job[t].msg.role
  PROVE  CountInv'
<1> DEFINE deaf == {p \in Publishers \ connected : Home[p] = ProcessOf(t)}
<1>0. PICK q \in Processes : q = ProcessOf(t)
  BY Homes
<1>1. /\ job[t].step = "dispose" /\ job[t].slots = {} /\ job[t].pub = None
      /\ Proceeds(t, "notify", SlotsToCall(t), None)
      /\ UNCHANGED <<connected, phase, log, received, enabled, receiver_count>>
  BY DisposeEffect
<1>2. job[t].msg.operate_type = "OPT_JOIN"
  BY <1>1, SubscribersJoin
<1>3. /\ known'[q] = known[q] \cup {x}
      /\ \A y \in Processes \ {q} : known'[y] = known[y]
  BY <1>0, <1>2, DisposeEffect DEF Warehouse
<1>4. missed' = missed \cup (deaf \X {x})
  BY <1>2, DisposeEffect
<1>5. /\ \A u \in Threads \ {t} : job'[u] = job[u]
      /\ job'[t].step = "notify" /\ job'[t].slots = Listening(t) /\ job'[t].pub = None
      /\ job'[t].msg = job[t].msg
  BY <1>1 DEF Proceeds, SlotsToCall
<1>6. x \notin known[q]
  BY <1>0, <1>1 DEF CountInv, KnownOnce
<1>7. ASSUME NEW u \in Threads \ {t}, job[u].step # "idle", ProcessOf(u) = q
      PROVE  job[u].msg.role # x
  BY <1>0, <1>1, <1>7, OneDisposer DEF ThreadInv
<1>8. WrittenOnce'
  BY <1>1 DEF CountInv, WrittenOnce
<1>9. KnownOnce'
  <2>0. \A y, s : Taken(y, s)' <=> Taken(y, s)
    BY <1>1 DEF Taken
  <2>1. ASSUME NEW y \in Processes, NEW s \in known'[y] \cap Subscribers
        PROVE  IF Home[s] = y THEN phase'[s] # "none" ELSE Taken(y, s)'
    <3>1. CASE s \in known[y]
      BY <1>1, <2>0, <3>1 DEF CountInv, KnownOnce
    <3>2. CASE s \notin known[y]
      <4>1. y = q /\ s = x
        BY <1>3, <3>2
      <4>2. CASE t \in Roles
        <5>1. t = x /\ phase[x] \in {"joining", "leaving"} /\ Home[x] = q
          BY <1>0, <1>1, <4>2, Homes DEF ThreadInv, OwnChange
        <5> QED
          BY <1>1, <4>1, <5>1
      <4>3. CASE t \notin Roles
        <5>1. t \in Processes /\ t = q
          BY <1>0, <4>3, Homes
        <5>2. Home[x] # q /\ Taken(q, x)
          BY <1>1, <5>1 DEF ThreadInv, OwnChange, CountInv, KnownOnce
        <5> QED
          BY <2>0, <4>1, <5>2
      <4> QED
        BY <4>2, <4>3
    <3> QED
      BY <3>1, <3>2
  <2>2. ASSUME NEW y \in Processes, job'[y].step # "idle", job'[y].msg.role \in Subscribers
        PROVE  Taken(y, job[y].msg.role)'
    <3>1. job[y].step # "idle" /\ job'[y].msg = job[y].msg
      BY <1>1, <1>5, <2>2, Homes
    <3>2. PICK s \in Subscribers : s = job[y].msg.role
      BY <2>2, <3>1
    <3>3. Taken(y, s)'
      BY <2>0, <2>2, <3>1, <3>2 DEF CountInv, KnownOnce
    <3> QED
      BY <3>1, <3>2, <3>3 DEF Taken
  <2>3. ASSUME NEW u \in Threads, job'[u].step # "idle", job'[u].msg.role \in Subscribers
        PROVE  job'[u].msg.role \in known'[ProcessOf(u)] <=> job'[u].step # "dispose"
    <3>1. CASE u = t
      BY <1>0, <1>3, <1>5, <3>1
    <3>2. CASE u # t
      <4>1. /\ job'[u] = job[u]
            /\ job[u].msg.role \in known[ProcessOf(u)] <=> job[u].step # "dispose"
        BY <1>5, <2>3, <3>2 DEF CountInv, KnownOnce
      <4>2. ProcessOf(u) = q => job[u].msg.role # x
        BY <1>7, <2>3, <3>2, <4>1
      <4>3. ProcessOf(u) \in Processes
        BY Homes
      <4> QED
        BY <1>3, <4>1, <4>2, <4>3
    <3> QED
      BY <3>1, <3>2
  <2> QED
    BY <2>1, <2>2, <2>3 DEF KnownOnce
<1>10. \A p \in Publishers : p \in Roles /\ p # None /\ Home[p] \in Processes
  BY Homes, RoleSets
<1>11. \A p \in Listening(t) : p \in Publishers /\ p \in connected /\ Home[p] = q
  BY <1>0 DEF Listening
<1>12. MissedBefore'
  <2>1. ASSUME NEW p \in Publishers, NEW s \in Subscribers, <<p, s>> \in missed'
        PROVE  s \in known'[Home[p]]
    <3>1. CASE <<p, s>> \in missed
      BY <1>3, <1>10, <3>1 DEF CountInv, MissedBefore
    <3>2. CASE <<p, s>> \in deaf \X {x}
      BY <1>0, <1>3, <3>2
    <3> QED
      BY <1>4, <2>1, <3>1, <3>2
  <2>2. ASSUME NEW p \in Publishers, phase'[p] = "none", NEW s \in ReadersKnown(p)'
        PROVE  <<p, s>> \in missed'
    <3>1. CASE s \in ReadersKnown(p)
      BY <1>1, <1>4, <2>2, <3>1 DEF CountInv, MissedBefore
    <3>2. CASE s \notin ReadersKnown(p)
      <4>1. Home[p] = q /\ s = x
        BY <1>3, <1>10, <3>2 DEF ReadersKnown
      <4>2. p \notin connected
        BY <1>1, <2>2 DEF ThreadInv, Connected
      <4>3. p \in deaf
        BY <1>0, <4>1, <4>2
      <4> QED
        BY <1>4, <4>1, <4>3
    <3> QED
      BY <3>1, <3>2
  <2>3. ASSUME NEW u \in Threads, NEW p \in Called(u)'
        PROVE  <<p, job'[u].msg.role>> \notin missed'
    <3>1. CASE u = t
      <4>1. p \in Listening(t)
        BY <1>5, <3>1 DEF Called
      <4>2. <<p, x>> \notin missed
        BY <1>6, <1>11, <4>1 DEF CountInv, MissedBefore
      <4>3. p \notin deaf
        BY <1>11, <4>1
      <4> QED
        BY <1>4, <1>5, <3>1, <4>2, <4>3
    <3>2. CASE u # t
      <4>1. job'[u] = job[u] /\ p \in Called(u)
        BY <1>5, <3>2 DEF Called
      <4>2. job[u].step # "idle" /\ Home[p] = ProcessOf(u)
        BY <4>1, Calling
      <4>3. <<p, job[u].msg.role>> \notin missed
        BY <4>1 DEF CountInv, MissedBefore
      <4>4. <<p, job[u].msg.role>> \notin deaf \X {x}
        BY <1>0, <1>7, <3>2, <4>2
      <4> QED
        BY <1>4, <4>1, <4>3, <4>4
    <3> QED
      BY <3>1, <3>2
  <2> QED
    BY <2>1, <2>2, <2>3 DEF MissedBefore
<1>13. CountExact'
  <2>1. \A p \in Publishers : Enabling(p)' <=> Enabling(p)
    BY <1>1, <1>5, <1>10 DEF Enabling
  <2>2. \A p \in Publishers : ~ Claims(t, p)
    BY <1>1, <1>10 DEF Claims
  <2>3. \A p \in Publishers : Claims(t, p)' <=> p \in Listening(t)
    BY <1>5, <1>10 DEF Claims
  <2>4. \A u \in Threads \ {t}, p \in Publishers : Claims(u, p)' <=> Claims(u, p)
    BY <1>5 DEF Claims
  <2>5. ASSUME NEW p \in Publishers, NEW s \in Subscribers
        PROVE  ToCount(p, s)' <=> ToCount(p, s) \/ (p \in Listening(t) /\ s = x)
    BY <1>5, <2>2, <2>3, <2>4 DEF ToCount
  <2>6. ASSUME NEW p \in Publishers, phase'[p] \in {"joining", "joined"}
        PROVE  Counted(p)' = Counted(p)
    <3>1. p \in connected
      BY <1>1, <2>6 DEF ThreadInv, Connected
    <3>2. p \notin deaf
      BY <3>1
    <3>3. \A s : <<p, s>> \in missed' <=> <<p, s>> \in missed
      BY <1>4, <3>2
    <3>4. CASE Home[p] = q
      <4>1. ReadersKnown(p)' = ReadersKnown(p) \cup {x} /\ x \notin ReadersKnown(p)
        BY <1>3, <1>6, <3>4 DEF ReadersKnown
      <4>2. p \in Listening(t)
        BY <1>0, <3>1, <3>4 DEF Listening
      <4>3. ReadersKnown(p) \subseteq Subscribers
        BY DEF ReadersKnown
      <4>4. ASSUME NEW s
            PROVE  s \in Counted(p)' <=> s \in Counted(p)
        BY <2>5, <3>3, <4>1, <4>2, <4>3 DEF Counted
      <4> QED
        BY <4>4
    <3>5. CASE Home[p] # q
      <4>1. ReadersKnown(p)' = ReadersKnown(p) /\ ReadersKnown(p) \subseteq Subscribers
        BY <1>3, <1>10, <3>5 DEF ReadersKnown
      <4>2. p \notin Listening(t)
        BY <1>11, <3>5
      <4> QED
        BY <2>5, <3>3, <4>1, <4>2 DEF Counted
    <3> QED
      BY <3>4, <3>5
  <2> QED
    BY <1>1, <2>1, <2>6, CountsKept DEF CountInv
<1> QED
  BY <1>8, <1>9, <1>12, <1>13 DEF CountInv

(* In Notify and in a callback a thread keeps its change. *)
LEMMA OnwardKnown ==
  ASSUME ThreadInv, CountInv, NEW t \in Threads, job[t].step \notin {"idle", "dispose"},
         job'[t].step \notin {"idle", "dispose"}, job'[t].msg = job[t].msg, Called(t)' \subseteq Called(t),
         \A u \in Threads \ {t} : job'[u] = job[u],
         UNCHANGED <<known, phase, log, received, missed>>
  PROVE  WrittenOnce' /\ KnownOnce' /\ MissedBefore'
<1>1. WrittenOnce' /\ KnownOnce'
  <2>1. /\ received' \in [Processes -> [Processes -> Nat]]
        /\ \A x, y \in Processes : received[x][y] <= received'[x][y]
    BY DEF ThreadInv, TypeOK
  <2>2. \A u \in Threads : job'[u].step # "idle" /\ job'[u].msg.role \in Subscribers =>
           /\ job[u].step # "idle" /\ job'[u].msg = job[u].msg
           /\ job'[u].step = "dispose" <=> job[u].step = "dispose"
    OBVIOUS
  <2> QED
    BY <2>1, <2>2, KnownKept DEF CountInv
<1>2. MissedBefore'
  <2>1. ASSUME NEW u \in Threads, NEW p \in Called(u)'
        PROVE  <<p, job'[u].msg.role>> \notin missed
    <3>1. p \in Called(u) /\ job'[u].msg = job[u].msg
      BY DEF Called
    <3> QED
      BY <3>1 DEF CountInv, MissedBefore
  <2> QED
    BY <2>1 DEF CountInv, MissedBefore, ReadersKnown
<1> QED
  BY <1>1, <1>2

(* NotifySlot: a publisher that is called is still to be counted; one that *)
(* has disconnected meanwhile is leaving.                                  *)
LEMMA NotifyCounts ==
  ASSUME ThreadInv, CountInv, NEW t \in Threads, NotifySlot(t)
  PROVE  CountInv'
<1>1. /\ job[t].step = "notify" /\ job[t].pub = None
      /\ UNCHANGED <<known, connected, phase, log, received, enabled, receiver_count, missed>>
  BY NotifyEffect
<1>2. PICK p \in job[t].slots :
        /\ p \in Publishers
        /\ \/ p \in connected /\ Proceeds(t, "call", job[t].slots \ {p}, p)
           \/ p \notin connected /\ Proceeds(t, "notify", job[t].slots \ {p}, None)
  BY NotifyEffect
<1>3. /\ \A u \in Threads \ {t} : job'[u] = job[u]
      /\ job'[t].slots = job[t].slots \ {p} /\ job'[t].msg = job[t].msg
      /\ \/ p \in connected /\ job'[t].step = "call" /\ job'[t].pub = p
         \/ p \notin connected /\ job'[t].step = "notify" /\ job'[t].pub = None
  BY <1>2 DEF Proceeds
<1>4. WrittenOnce' /\ KnownOnce' /\ MissedBefore'
  <2>1. Called(t)' \subseteq Called(t)
    BY <1>3 DEF Called
  <2>2. job[t].step \notin {"idle", "dispose"} /\ job'[t].step \notin {"idle", "dispose"}
    BY <1>1, <1>3
  <2> QED
    BY <1>1, <1>3, <2>1, <2>2, OnwardKnown
<1>5. CountExact'
  <2>1. \A x \in Publishers : x # None
    BY RoleSets
  <2>2. \A x \in Publishers : Enabling(x)' <=> Enabling(x)
    BY <1>1, <1>3, <2>1 DEF Enabling
  <2>3. ASSUME NEW x \in Publishers, x # p \/ p \in connected, NEW u \in Threads
        PROVE  Claims(u, x)' <=> Claims(u, x)
    BY <1>1, <1>3, <2>1, <2>3 DEF Claims
  <2>4. ASSUME NEW x \in Publishers, phase'[x] \in {"joining", "joined"}
        PROVE  Counted(x)' = Counted(x)
    <3>1. x # p \/ p \in connected
      BY <1>1, <2>4 DEF ThreadInv, Connected
    <3>2. \A s : ToCount(x, s)' <=> ToCount(x, s)
      BY <1>3, <2>3, <3>1 DEF ToCount
    <3> QED
      BY <1>1, <3>2 DEF Counted, ReadersKnown
  <2> QED
    BY <1>1, <2>2, <2>4, CountsKept DEF CountInv
<1> QED
  BY <1>4, <1>5 DEF CountInv

(* EnableCount: the thread counts its subscriber, which nobody else does   *)
(* for this publisher.                                                     *)
LEMMA EnableCountCounts ==
  ASSUME ThreadInv, CountInv, NEW t \in Threads, EnableCount(t)
  PROVE  CountInv'
<1>1. /\ job[t].step = "call"
      /\ receiver_count' = [receiver_count EXCEPT ![job[t].pub] = @ + 1]
      /\ Continue(t, "enable")
      /\ UNCHANGED <<known, phase, log, received, enabled, missed>>
  BY DEF EnableCount, InCallback
<1>2. PICK p \in Publishers : p = job[t].pub /\ p \notin job[t].slots
  BY <1>1 DEF ThreadInv, OwnSlots, Callback, TypeOK
<1>3. PICK x : x = job[t].msg.role
  OBVIOUS
<1>4. /\ \A u \in Threads \ {t} : job'[u] = job[u]
      /\ job'[t].step = "enable" /\ job'[t].slots = job[t].slots /\ job'[t].pub = p
      /\ job'[t].msg = job[t].msg
  <2>1. "enable" \in Steps
    BY DEF Steps
  <2> QED
    BY <1>1, <1>2, <2>1, JobContinues DEF Proceeds, ThreadInv
<1>5. p \in Called(t) /\ p # None
  BY <1>2, RoleSets DEF Called
<1>6. x \in Subscribers /\ Home[p] = ProcessOf(t)
  BY <1>3, <1>5, Calling
<1>7. x \in ReadersKnown(p) /\ <<p, x>> \notin missed
  <2>1. x \in known[ProcessOf(t)]
    BY <1>1, <1>3, <1>6 DEF CountInv, KnownOnce
  <2>2. <<p, x>> \notin missed
    BY <1>3, <1>5 DEF CountInv, MissedBefore
  <2> QED
    BY <1>6, <2>1, <2>2 DEF ReadersKnown
<1>8. WrittenOnce' /\ KnownOnce' /\ MissedBefore'
  <2>1. Called(t)' \subseteq Called(t)
    BY <1>2, <1>4 DEF Called
  <2>2. job[t].step \notin {"idle", "dispose"} /\ job'[t].step \notin {"idle", "dispose"}
    BY <1>1, <1>4
  <2> QED
    BY <1>1, <1>4, <2>1, <2>2, OnwardKnown
<1>9. \A y \in Publishers, u \in Threads : (u # t \/ y # p) => (Claims(u, y)' <=> Claims(u, y))
  BY <1>1, <1>2, <1>4 DEF Claims
<1>10. Claims(t, p) /\ ~ Claims(t, p)'
  BY <1>1, <1>2, <1>4 DEF Claims
<1>11. ASSUME NEW u \in Threads \ {t}, Claims(u, p)
       PROVE  job[u].msg.role # x
  <2>1. p \in Called(u)
    BY <1>11, ClaimsCalled
  <2>2. job[u].step # "idle" /\ ProcessOf(u) = ProcessOf(t)
    BY <1>6, <2>1, Calling
  <2> QED
    BY <1>1, <1>3, <2>2, OneDisposer DEF ThreadInv
<1>12. ToCount(p, x) /\ ~ ToCount(p, x)'
  <2>1. ToCount(p, x)
    BY <1>3, <1>10 DEF ToCount
  <2>2. ASSUME NEW u \in Threads, Claims(u, p)', job'[u].msg.role = x
        PROVE  FALSE
    <3>1. u # t
      BY <1>10, <2>2
    <3>2. Claims(u, p) /\ job[u].msg.role = x
      BY <1>4, <1>9, <2>2, <3>1
    <3> QED
      BY <1>11, <3>1, <3>2
  <2> QED
    BY <2>1, <2>2 DEF ToCount
<1>13. ASSUME NEW s, s # x
       PROVE  ToCount(p, s)' <=> ToCount(p, s)
  BY <1>3, <1>4, <1>9, <1>13 DEF ToCount
<1>14. ASSUME NEW y \in Publishers \ {p}
       PROVE  Counted(y)' = Counted(y) /\ (Enabling(y)' <=> Enabling(y))
  <2>1. \A s : ToCount(y, s)' <=> ToCount(y, s)
    BY <1>4, <1>9 DEF ToCount
  <2>2. Enabling(y)' <=> Enabling(y)
    BY <1>2, <1>4 DEF Enabling
  <2> QED
    BY <1>1, <2>1, <2>2 DEF Counted, ReadersKnown
<1>15. Counted(p)' = Counted(p) \cup {x} /\ x \notin Counted(p)
  <2>1. x \notin Counted(p)
    BY <1>12 DEF Counted
  <2>2. ReadersKnown(p)' = ReadersKnown(p)
    BY <1>1 DEF ReadersKnown
  <2>3. ASSUME NEW s
        PROVE  s \in Counted(p)' <=> s \in Counted(p) \cup {x}
    <3>1. CASE s = x
      BY <1>1, <1>7, <1>12, <2>2, <3>1 DEF Counted
    <3>2. CASE s # x
      BY <1>1, <1>13, <2>2, <3>2 DEF Counted
    <3> QED
      BY <3>1, <3>2
  <2> QED
    BY <2>1, <2>3
<1>16. Cardinality(Counted(p)') = Cardinality(Counted(p)) + 1
  <2>1. IsFiniteSet(Counted(p))
    <3>1. Counted(p) \subseteq Subscribers
      BY DEF Counted, ReadersKnown
    <3> QED
      BY <3>1, TopoSets, FS_Subset
  <2> QED
    BY <1>15, <2>1, FS_AddElement
<1>17. /\ receiver_count'[p] = receiver_count[p] + 1 /\ receiver_count[p] \in Int
       /\ \A y \in Publishers \ {p} : receiver_count'[y] = receiver_count[y]
  BY <1>1, <1>2 DEF ThreadInv, TypeOK
<1>18. Enabling(p)'
  BY <1>4 DEF Enabling
<1>19. CountExact'
  <2>1. ASSUME NEW y \in Publishers \ {p}
        PROVE  /\ phase'[y] \in {"joining", "joined"} => receiver_count'[y] = Cardinality(Counted(y)')
               /\ phase'[y] = "none" => receiver_count'[y] = 0
               /\ receiver_count'[y] >= 0
               /\ enabled'[y] = TRUE \/ Enabling(y)' => receiver_count'[y] > 0
               /\ receiver_count'[y] > 0 => enabled'[y] = TRUE \/ Enabling(y)'
    BY <1>1, <1>14, <1>17 DEF CountInv, CountExact
  <2>2. /\ phase'[p] \in {"joining", "joined"} => receiver_count'[p] = Cardinality(Counted(p)')
        /\ phase'[p] # "none"
        /\ receiver_count'[p] > 0
    <3>1. phase[p] # "none"
      BY <1>5 DEF ThreadInv, OwnSlots
    <3>2. /\ phase[p] \in {"joining", "joined"} => receiver_count[p] = Cardinality(Counted(p))
          /\ receiver_count[p] >= 0
      BY DEF CountInv, CountExact
    <3> QED
      BY <1>1, <1>16, <1>17, <3>1, <3>2
  <2>3. receiver_count'[p] >= 0
    BY <1>17, <2>2
  <2> QED
    BY <1>18, <2>1, <2>2, <2>3 DEF CountExact
<1> QED
  BY <1>8, <1>19 DEF CountInv

(* Enable: the count that was raised is not zero. *)
LEMMA EnableCounts ==
  ASSUME ThreadInv, CountInv, NEW t \in Threads, Enable(t)
  PROVE  CountInv'
<1>1. /\ job[t].step = "enable"
      /\ enabled' = [enabled EXCEPT ![job[t].pub] = @ \/ receiver_count[job[t].pub] # 0]
      /\ Return(t)
      /\ UNCHANGED <<known, phase, log, received, receiver_count, missed>>
  BY DEF Enable, InCallback
<1>2. PICK p \in Publishers : p = job[t].pub
  BY <1>1 DEF ThreadInv, OwnSlots, Callback, TypeOK
<1>3. /\ \A u \in Threads \ {t} : job'[u] = job[u]
      /\ job'[t].step = "notify" /\ job'[t].slots = job[t].slots /\ job'[t].pub = None
      /\ job'[t].msg = job[t].msg
  BY <1>1, JobReturns DEF Proceeds, ThreadInv
<1>4. WrittenOnce' /\ KnownOnce' /\ MissedBefore'
  <2>1. Called(t)' \subseteq Called(t)
    BY <1>3 DEF Called
  <2>2. job[t].step \notin {"idle", "dispose"} /\ job'[t].step \notin {"idle", "dispose"}
    BY <1>1, <1>3
  <2> QED
    BY <1>1, <1>3, <2>1, <2>2, OnwardKnown
<1>5. receiver_count[p] > 0 /\ receiver_count[p] \in Int
  <2>1. Enabling(p)
    BY <1>1, <1>2 DEF Enabling
  <2> QED
    BY <2>1 DEF CountInv, CountExact, ThreadInv, TypeOK
<1>6. enabled'[p] = TRUE /\ \A y \in Publishers \ {p} : enabled'[y] = enabled[y]
  <2>1. enabled \in [Publishers -> BOOLEAN]
    BY DEF ThreadInv, TypeOK
  <2>2. (receiver_count[p] # 0) = TRUE
    BY <1>5
  <2>3. enabled' = [enabled EXCEPT ![p] = enabled[p] \/ receiver_count[p] # 0]
    BY <1>1, <1>2
  <2>4. enabled'[p] = (enabled[p] \/ receiver_count[p] # 0)
    BY <2>1, <2>3, Zenon
  <2>5. (enabled[p] \/ receiver_count[p] # 0) = TRUE
    BY <2>2, Zenon
  <2>6. \A y \in Publishers \ {p} : enabled'[y] = enabled[y]
    BY <2>1, <2>3, Zenon
  <2> QED
    BY <2>4, <2>5, <2>6, Zenon
<1>7. \A y \in Publishers : Counted(y)' = Counted(y)
  <2>1. \A y \in Publishers, u \in Threads : Claims(u, y)' <=> Claims(u, y)
    BY <1>1, <1>3 DEF Claims
  <2>2. \A y \in Publishers : \A s : ToCount(y, s)' <=> ToCount(y, s)
    BY <1>3, <2>1 DEF ToCount
  <2> QED
    BY <1>1, <2>2 DEF Counted, ReadersKnown
<1>8. \A y \in Publishers \ {p} : Enabling(y)' <=> Enabling(y)
  BY <1>2, <1>3 DEF Enabling
<1>9. CountExact'
  <2>1. ASSUME NEW y \in Publishers
        PROVE  /\ phase'[y] \in {"joining", "joined"} => receiver_count'[y] = Cardinality(Counted(y)')
               /\ phase'[y] = "none" => receiver_count'[y] = 0
               /\ receiver_count'[y] >= 0
    BY <1>1, <1>7 DEF CountInv, CountExact
  <2>2. ASSUME NEW y \in Publishers
        PROVE  /\ enabled'[y] = TRUE \/ Enabling(y)' => receiver_count'[y] > 0
               /\ receiver_count'[y] > 0 => enabled'[y] = TRUE \/ Enabling(y)'
    <3>1. CASE y = p
      BY <1>1, <1>5, <1>6, <3>1
    <3>2. CASE y # p
      BY <1>1, <1>6, <1>8, <3>2 DEF CountInv, CountExact
    <3> QED
      BY <3>1, <3>2
  <2> QED
    BY <2>1, <2>2 DEF CountExact
<1> QED
  BY <1>4, <1>9 DEF CountInv

-----------------------------------------------------------------------------
(* Roles that have left do not come back. *)
LEMMA LeavesStay ==
  ASSUME ThreadInv, [Next]_vars, NobodyLeaves'
  PROVE  NobodyLeaves
<1>1. ASSUME NEW s \in Subscribers
      PROVE  phase'[s] = phase[s] \/ phase[s] \notin {"leaving", "gone"} \/ phase'[s] \in {"leaving", "gone"}
  <2>0. s \in Roles /\ phase \in [Roles -> {"none", "joining", "joined", "leaving", "gone"}]
    BY RoleSets DEF ThreadInv, TypeOK
  <2>1. ASSUME NEW r \in Roles, JoinTheTopology(r) \/ LeaveTheTopology(r) \/ Write(r)
        PROVE  \/ phase'[s] = phase[s] \/ phase[s] \notin {"leaving", "gone"}
               \/ phase'[s] \in {"leaving", "gone"}
    BY <2>0, <2>1 DEF JoinTheTopology, LeaveTheTopology, Write
  <2>2. ASSUME NEW q \in Processes, NEW x \in Processes, OnRemoteChange(q, x) \/ LoseChange(q, x)
        PROVE  phase' = phase
    BY <2>2 DEF OnRemoteChange, LoseChange
  <2>3. ASSUME NEW q \in Processes, OnRemoteChangeEnd(q) \/ Crash(q)
        PROVE  phase' = phase
    BY <2>3 DEF OnRemoteChangeEnd, Crash
  <2>4. ASSUME NEW t \in Threads, Disposing(t)
        PROVE  phase' = phase
    BY <2>4 DEF Disposing, Dispose, NotifySlot, EnableCount, Enable, DisableTest, DisableCount, Disable,
                CallbackOnGone
  <2>5. CASE UNCHANGED vars
    BY <2>5 DEF vars
  <2> QED
    BY <2>1, <2>2, <2>3, <2>4, <2>5 DEF Next
<1> QED
  BY <1>1 DEF NobodyLeaves

(* While nobody leaves, every step keeps the count. *)
LEMMA NextCounts ==
  ASSUME ThreadInv, NobodyLeaves, NobodyLeaves', CountInv, [Next]_vars
  PROVE  CountInv'
<1>0. \A x, y \in Processes : received[x][y] \in Nat
  BY DEF ThreadInv, TypeOK
<1>1. CASE \E r \in Roles : JoinTheTopology(r) \/ LeaveTheTopology(r) \/ Write(r)
  BY <1>1, JoinLeaveCounts, WriteCounts
<1>2. ASSUME NEW q \in Processes, NEW s \in Processes, OnRemoteChange(q, s)
      PROVE  CountInv'
  BY <1>2, ReceiveCounts
<1>3. ASSUME NEW q \in Processes, NEW s \in Processes, LoseChange(q, s)
      PROVE  CountInv'
  BY <1>3, LoseEffect, QuietCounts
<1>4. ASSUME NEW q \in Processes, OnRemoteChangeEnd(q)
      PROVE  CountInv'
  BY <1>4, EndCounts
<1>5. ASSUME UNCHANGED <<known, phase, job, log, received, enabled, receiver_count, missed>>
      PROVE  CountInv'
  <2>1. /\ received' \in [Processes -> [Processes -> Nat]]
        /\ \A x, y \in Processes : received[x][y] <= received'[x][y]
    BY <1>0, <1>5 DEF ThreadInv, TypeOK
  <2> QED
    BY <1>5, <2>1, QuietCounts
<1>6. ASSUME NEW q \in Processes, Crash(q)
      PROVE  CountInv'
  BY <1>5, <1>6 DEF Crash, endpoints
<1>7. CASE UNCHANGED vars
  BY <1>5, <1>7 DEF vars, endpoints
<1>8. ASSUME NEW t \in Threads, Disposing(t)
      PROVE  CountInv'
  <2>1. CASE Dispose(t)
    <3>1. CASE job[t].msg.role \in Subscribers
      BY <2>1, <3>1, DisposeSubscriber
    <3>2. CASE job[t].msg.role \notin Subscribers
      BY <2>1, <3>2, DisposePublisher
    <3> QED
      BY <3>1, <3>2
  <2>2. CASE NotifySlot(t) \/ EnableCount(t) \/ Enable(t)
    BY <2>2, NotifyCounts, EnableCountCounts, EnableCounts
  <2>3. CASE DisableTest(t) \/ DisableCount(t) \/ Disable(t)
    <3>1. job[t].step \in Callback /\ job[t].msg.operate_type = "OPT_LEAVE"
      BY <2>3 DEF DisableTest, DisableCount, Disable, InCallback, Callback
    <3>2. job[t].pub # None /\ job[t].step # "idle"
      BY <3>1 DEF ThreadInv, OwnSlots, Callback
    <3>3. job[t].msg.role \in Subscribers
      BY <3>2 DEF ThreadInv, OwnSlots, Called
    <3> QED
      BY <3>1, <3>2, <3>3, SubscribersJoin
  <2>4. CASE CallbackOnGone(t)
    BY <1>5, <2>4 DEF CallbackOnGone, endpoints
  <2> QED
    BY <1>8, <2>1, <2>2, <2>3, <2>4 DEF Disposing
<1> QED
  BY <1>1, <1>2, <1>3, <1>4, <1>6, <1>7, <1>8 DEF Next

LEMMA TopoInit ==
  ASSUME Init
  PROVE  TopoInv
<1> USE DEF Init
<1>1. \A t \in Threads : job[t] = Idle
  OBVIOUS
<1>2. \A t \in Threads : job[t].step = "idle" /\ job[t].msg = None /\ job[t].slots = {} /\ job[t].pub = None
  BY <1>1, IdleJob
<1>3. job \in [Threads -> JobRec]
  BY IdleJob
<1>4. \A q \in Processes : Len(log[q]) = 0 /\ log[q] \in Seq(ChangeMsg)
  BY EmptySeq
<1>5. TypeOK
  <2>1. log \in [Processes -> Seq(ChangeMsg)]
    BY <1>4
  <2>2. \A t \in Threads : job[t].step = "idle" <=> job[t].msg = None
    BY <1>2
  <2> QED
    BY <1>3, <2>1, <2>2 DEF TypeOK, JobRec
<1>6. ThreadInv
  <2>1. OwnChange /\ OwnLog /\ Connected
    BY <1>2, <1>4, Homes, RoleSets DEF OwnChange, OwnLog, Connected
  <2>2. OwnSlots
    BY <1>2 DEF OwnSlots, Called, Callback
  <2> QED
    BY <1>5, <2>1, <2>2 DEF ThreadInv
<1>7. CountInv
  <2>1. WrittenOnce /\ KnownOnce
    BY <1>2, <1>4, Homes DEF WrittenOnce, KnownOnce
  <2>2. MissedBefore
    <3>1. \A t \in Threads : Called(t) = {}
      BY <1>2 DEF Called
    <3>2. \A p \in Publishers : ReadersKnown(p) = {}
      BY Homes, RoleSets DEF ReadersKnown
    <3> QED
      BY <3>1, <3>2 DEF MissedBefore
  <2>3. CountExact
    <3>1. \A p \in Publishers : ~ Enabling(p)
      BY <1>2 DEF Enabling
    <3>2. \A p \in Publishers : phase[p] = "none" /\ receiver_count[p] = 0 /\ enabled[p] = FALSE
      BY RoleSets
    <3>3. \A p \in Publishers : enabled[p] # TRUE
      BY <3>2, Zenon
    <3> QED
      BY <3>1, <3>2, <3>3 DEF CountExact
  <2> QED
    BY <2>1, <2>2, <2>3 DEF CountInv
<1> QED
  BY <1>6, <1>7 DEF TopoInv

(* A settled publisher has no reader left to count and is not enabling. *)
LEMMA SettledCounts ==
  ASSUME TopoInv
  PROVE  CountsReaders
<1> SUFFICES ASSUME NobodyLeaves, NEW p \in Publishers, phase[p] = "joined", Settled(Home[p])
             PROVE  /\ receiver_count[p] = Cardinality({s \in ReadersKnown(p) : <<p, s>> \notin missed})
                    /\ enabled[p] <=> receiver_count[p] > 0
  BY DEF CountsReaders, NobodyLeaves
<1>1. ThreadInv /\ CountInv
  BY DEF TopoInv
<1>2. ASSUME NEW t \in Threads, p \in Called(t)
      PROVE  FALSE
  BY <1>1, <1>2, Calling DEF Settled
<1>3. \A s : ~ ToCount(p, s)
  BY <1>2, ClaimsCalled DEF ToCount
<1>4. ~ Enabling(p)
  BY <1>2, RoleSets DEF Enabling, Called
<1>5. Counted(p) = {s \in ReadersKnown(p) : <<p, s>> \notin missed}
  BY <1>3 DEF Counted
<1>6. receiver_count[p] = Cardinality(Counted(p)) /\ (enabled[p] = TRUE <=> receiver_count[p] > 0)
  BY <1>1, <1>4 DEF CountInv, CountExact
<1>7. enabled[p] \in BOOLEAN
  BY <1>1 DEF ThreadInv, TypeOK
<1>8. enabled[p] <=> receiver_count[p] > 0
  BY <1>6, <1>7, Zenon
<1> QED
  BY <1>5, <1>6, <1>8, Zenon

(***************************************************************************)
(* CountsReaders for any number of processes, publishers, subscribers,     *)
(* crashes and lost changes: while no subscriber leaves, a settled         *)
(* publisher's ShmTransmitter has been told once, by Enable(attr), of      *)
(* every reader that joined after it listened, and is enabled if there is  *)
(* one.                                                                    *)
(***************************************************************************)
THEOREM ReadersCounted == Spec => []CountsReaders
<1>1. Init => TopoInv
  BY TopoInit
<1>2. TopoInv /\ [Next]_vars => TopoInv'
  <2> SUFFICES ASSUME TopoInv, [Next]_vars
               PROVE  TopoInv'
    OBVIOUS
  <2>1. ThreadInv /\ ThreadInv'
    BY NextThreads DEF TopoInv
  <2>2. ASSUME NobodyLeaves'
        PROVE  CountInv'
    <3>1. NobodyLeaves
      BY <2>1, <2>2, LeavesStay
    <3> QED
      BY <2>1, <2>2, <3>1, NextCounts DEF TopoInv
  <2> QED
    BY <2>1, <2>2 DEF TopoInv
<1>3. TopoInv => CountsReaders
  BY SettledCounts
<1> QED
  BY <1>1, <1>2, <1>3, PTL DEF Spec

(* Types of the discovery state, and a thread's job has a message unless   *)
(* the thread is idle.                                                     *)
THEOREM TopologyTypes == Spec => []TypeOK
<1>1. Init => ThreadInv
  BY TopoInit DEF TopoInv
<1>2. ThreadInv /\ [Next]_vars => ThreadInv'
  BY NextThreads
<1>3. ThreadInv => TypeOK
  BY DEF ThreadInv
<1> QED
  BY <1>1, <1>2, <1>3, PTL DEF Spec
=============================================================================
