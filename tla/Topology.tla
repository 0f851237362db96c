------------------------------ MODULE Topology ------------------------------
(***************************************************************************)
(* How publishers and subscribers of one channel find each other: the      *)
(* ChannelManager of every process (discovery/specific_manager), the       *)
(* change broadcast between the processes, and what Publisher and          *)
(* Subscriber do when they join, leave and hear of a change.               *)
(*                                                                         *)
(* The broadcast is external (FastRTPS).  QOS_PROFILE_TOPO_CHANGE asks for *)
(* reliable delivery, but AttributesFiller makes every endpoint            *)
(* BEST_EFFORT: a process receives what another has written in order, and  *)
(* any change may be lost to it; a process that starts late has lost what  *)
(* was written before.  Each process has one receiving thread, and every   *)
(* role is created and destroyed by a thread of its own.  A process may    *)
(* crash.                                                                  *)
(*                                                                         *)
(* Left out: the node graph and the listeners a subscriber's receiver      *)
(* keeps per publisher.  ReadMessage copies the sender's id into the       *)
(* MessageInfo without updating its hash, so those never fire; messages    *)
(* arrive through the listener CreateReceiver adds once per process.       *)
(* TopologyManager removes nothing when a process disappears: its search   *)
(* (OnTopoModuleLeave) asks for a role whose ids are 0, and no role is.    *)
(***************************************************************************)
EXTENDS Integers, Sequences, FiniteSets

CONSTANTS
  Processes,
  Publishers, Subscribers,   \* the roles: writers and readers of the channel,
                             \* each the set of its process and its id
  MaxFaults,                 \* bound on processes killed and changes lost
  None                       \* no role

Roles == Publishers \cup Subscribers

(* The process a role's RoleAttributes name. *)
Home == [r \in Roles |-> CHOOSE q \in Processes : q \in r]

ASSUME TopoSets ==
  /\ Publishers \cap Subscribers = {} /\ IsFiniteSet(Subscribers)
  /\ (Processes \cup {None}) \cap Roles = {} /\ None \notin Processes
ASSUME TopoHome == \A r \in Roles : \E q \in Processes : r \cap Processes = {q}
ASSUME TopoBounds == MaxFaults \in Nat

VARIABLES
  known,            \* channel_writers_ and channel_readers_ of each process
  connected,        \* roles whose change_conn_ is connected to signal_
  phase,            \* where the life of each role is
  job,              \* the ChangeMsg each thread disposes of
  log,              \* the ChangeMsgs each process has written
  received,         \* how many of a process's ChangeMsgs each other has taken
  enabled,          \* enabled_ of each publisher's ShmTransmitter
  receiver_count,   \* its receiver_count_
  down,             \* the processes that are gone
  missed,           \* history: joins notified before the publisher listened
  lost              \* history: roles of which a process has lost a change

endpoints == <<enabled, receiver_count>>
vars == <<known, connected, phase, job, log, received, endpoints, down, missed, lost>>

Threads == Roles \cup Processes
ProcessOf(t) == IF t \in Processes THEN t ELSE Home[t]
Running(t) == ProcessOf(t) \notin down

Faults == Cardinality(down) + Cardinality(UNION {{q} \X lost[q] : q \in Processes})

ChangeMsg == [operate_type : {"OPT_JOIN", "OPT_LEAVE"}, role : Roles]
ASSUME TopoNone == None \notin ChangeMsg

(* A thread without a job; one with a job is at a step of Dispose, Notify  *)
(* or Write, has slots still to call and may be inside the callback of pub. *)
Idle == [step |-> "idle", msg |-> None, slots |-> {}, pub |-> None]
Job(msg) == [step |-> "dispose", msg |-> msg, slots |-> {}, pub |-> None]

Init ==
  /\ known = [q \in Processes |-> {}]
  /\ connected = {}
  /\ phase = [r \in Roles |-> "none"]
  /\ job = [t \in Threads |-> Idle]
  /\ log = [q \in Processes |-> <<>>]
  /\ received = [q \in Processes |-> [s \in Processes |-> 0]]
  /\ enabled = [p \in Publishers |-> FALSE]
  /\ receiver_count = [p \in Publishers |-> 0]
  /\ down = {}
  /\ missed = {}
  /\ lost = [q \in Processes |-> {}]

-----------------------------------------------------------------------------
(* The life of a role. *)

(* JoinTheTopology: AddChangeListener, then Join.  A publisher does not    *)
(* look at the readers that are already there; a subscriber's receiver is  *)
(* listening before it gets here.                                          *)
JoinTheTopology(r) ==
  /\ Running(r)
  /\ phase[r] = "none"
  /\ phase' = [phase EXCEPT ![r] = "joining"]
  /\ connected' = connected \cup {r}
  /\ job' = [job EXCEPT ![r] = Job([operate_type |-> "OPT_JOIN", role |-> r])]
  /\ UNCHANGED <<known, log, received, endpoints, down, missed, lost>>

(* Shutdown -> LeaveTheTopology: RemoveChangeListener, then Leave. *)
LeaveTheTopology(r) ==
  /\ Running(r)
  /\ phase[r] = "joined"
  /\ phase' = [phase EXCEPT ![r] = "leaving"]
  /\ connected' = connected \ {r}
  /\ job' = [job EXCEPT ![r] = Job([operate_type |-> "OPT_LEAVE", role |-> r])]
  /\ UNCHANGED <<known, log, received, endpoints, down, missed, lost>>

(* The end of Manager::Join or Leave: Write.  A publisher that has left    *)
(* drops its transmitter.                                                  *)
Write(r) ==
  /\ Running(r)
  /\ job[r].step = "notify" /\ job[r].slots = {}
  /\ log' = [log EXCEPT ![Home[r]] = Append(@, job[r].msg)]
  /\ phase' = [phase EXCEPT ![r] = IF @ = "joining" THEN "joined" ELSE "gone"]
  /\ job' = [job EXCEPT ![r] = Idle]
  /\ UNCHANGED <<known, connected, received, endpoints, down, missed, lost>>

-----------------------------------------------------------------------------
(* The receiving thread of process q. *)

(* OnRemoteChange; what a process wrote itself it ignores. *)
OnRemoteChange(q, s) ==
  /\ Running(q)
  /\ job[q].step = "idle"
  /\ q # s /\ received[q][s] < Len(log[s])
  /\ job' = [job EXCEPT ![q] = Job(log[s][received[q][s] + 1])]
  /\ received' = [received EXCEPT ![q][s] = @ + 1]
  /\ UNCHANGED <<known, connected, phase, log, endpoints, down, missed, lost>>

(* FillInWriterAttr and FillInReaderAttr: the profile goes into the qos    *)
(* that is announced, the endpoint itself is best effort in any case.      *)
FillInAttr(qos) == [endpoint |-> "BEST_EFFORT", qos |-> qos]

QOS_PROFILE_TOPO_CHANGE ==
  [history |-> "KEEP_ALL", reliability |-> "RELIABLE", durability |-> "TRANSIENT_LOCAL"]

(* A change that never arrives: nothing is sent again to a best effort reader. *)
LoseChange(q, s) ==
  /\ FillInAttr(QOS_PROFILE_TOPO_CHANGE).endpoint = "BEST_EFFORT"
  /\ Running(q)
  /\ q # s /\ received[q][s] < Len(log[s])
  /\ Faults < MaxFaults
  /\ received' = [received EXCEPT ![q][s] = @ + 1]
  /\ lost' = [lost EXCEPT ![q] = @ \cup {log[s][received[q][s] + 1].role}]
  /\ UNCHANGED <<known, connected, phase, job, log, endpoints, down, missed>>

OnRemoteChangeEnd(q) ==
  /\ Running(q)
  /\ job[q].step = "notify" /\ job[q].slots = {}
  /\ job' = [job EXCEPT ![q] = Idle]
  /\ UNCHANGED <<known, connected, phase, log, received, endpoints, down, missed, lost>>

-----------------------------------------------------------------------------
(* ChannelManager::Dispose, in the thread of a role or of the broadcast. *)

(* The slots Notify has to call.  Only a publisher that hears of a reader  *)
(* changes its state in OnChannelChange.                                   *)
Listening(t) == {p \in connected \cap Publishers : Home[p] = ProcessOf(t)}

SlotsToCall(t) == IF job[t].msg.role \in Subscribers THEN Listening(t) ELSE {}

(* Fault: a role that leaves is not removed from the warehouse. *)
WarehouseKeeping(roles, msg) == roles \cup {msg.role}

(* DisposeJoin and DisposeLeave. *)
Warehouse(roles, msg) ==
  IF msg.operate_type = "OPT_JOIN" THEN roles \cup {msg.role} ELSE roles \ {msg.role}

(* Dispose updates the warehouse, and Notify -> Signal::operator() copies  *)
(* the slots.  One step: a publisher that connects its slot in between     *)
(* does not read the warehouse.                                            *)
Dispose(t) ==
  LET msg == job[t].msg
      q == ProcessOf(t)
      deaf == {p \in Publishers \ connected : Home[p] = q}
  IN  /\ Running(t)
      /\ job[t].step = "dispose"
      /\ known' = [known EXCEPT ![q] = Warehouse(@, msg)]
      /\ job' = [job EXCEPT ![t].step = "notify", ![t].slots = SlotsToCall(t)]
      /\ missed' = IF msg.role \in Subscribers /\ msg.operate_type = "OPT_JOIN"
                     THEN missed \cup (deaf \X {msg.role}) ELSE missed
      /\ UNCHANGED <<connected, phase, log, received, endpoints, down, lost>>

(* Slot::operator(): a slot that is connected is called. *)
NotifySlot(t) ==
  /\ Running(t)
  /\ job[t].step = "notify"
  /\ \E p \in job[t].slots :
       job' = [job EXCEPT ![t].slots = @ \ {p},
                          ![t].step = IF p \in connected THEN "call" ELSE @,
                          ![t].pub = IF p \in connected THEN p ELSE @]
  /\ UNCHANGED <<known, connected, phase, log, received, endpoints, down, missed, lost>>

(* Publisher::OnChannelChange in thread t is at a step of Enable(attr) or  *)
(* Disable(attr) of a transmitter that exists.                             *)
InCallback(t, op, step) ==
  /\ Running(t)
  /\ job[t].step = step /\ job[t].msg.operate_type = op
  /\ phase[job[t].pub] # "gone"

Continue(t, step) == job' = [job EXCEPT ![t].step = step]
Return(t) == job' = [job EXCEPT ![t].step = "notify", ![t].pub = None]

(* Enable(attr): receiver_count_.fetch_add(1), ... *)
EnableCount(t) ==
  /\ InCallback(t, "OPT_JOIN", "call")
  /\ receiver_count' = [receiver_count EXCEPT ![job[t].pub] = @ + 1]
  /\ Continue(t, "enable")
  /\ UNCHANGED <<known, connected, phase, log, received, enabled, down, missed, lost>>

(* Fault: the first reader does not enable the transmitter. *)
EnableSecond(t) ==
  /\ InCallback(t, "OPT_JOIN", "enable")
  /\ enabled' = [enabled EXCEPT ![job[t].pub] = @ \/ receiver_count[job[t].pub] > 1]
  /\ Return(t)
  /\ UNCHANGED <<known, connected, phase, log, received, receiver_count, down, missed, lost>>

(* ... then Enable(), which refuses a count of zero. *)
Enable(t) ==
  /\ InCallback(t, "OPT_JOIN", "enable")
  /\ enabled' = [enabled EXCEPT ![job[t].pub] = @ \/ receiver_count[job[t].pub] # 0]
  /\ Return(t)
  /\ UNCHANGED <<known, connected, phase, log, received, receiver_count, down, missed, lost>>

(* Disable(attr): nothing if it is not enabled, ... *)
DisableTest(t) ==
  /\ InCallback(t, "OPT_LEAVE", "call")
  /\ IF enabled[job[t].pub] THEN Continue(t, "sub") ELSE Return(t)
  /\ UNCHANGED <<known, connected, phase, log, received, endpoints, down, missed, lost>>

(* ... receiver_count_.fetch_sub(1) <= 1, ... *)
DisableCount(t) ==
  /\ InCallback(t, "OPT_LEAVE", "sub")
  /\ receiver_count' = [receiver_count EXCEPT ![job[t].pub] = @ - 1]
  /\ IF receiver_count[job[t].pub] <= 1 THEN Continue(t, "disable") ELSE Return(t)
  /\ UNCHANGED <<known, connected, phase, log, received, enabled, down, missed, lost>>

(* ... then Disable(). *)
Disable(t) ==
  /\ InCallback(t, "OPT_LEAVE", "disable")
  /\ enabled' = [enabled EXCEPT ![job[t].pub] = FALSE]
  /\ Return(t)
  /\ UNCHANGED <<known, connected, phase, log, received, receiver_count, down, missed, lost>>

(* The slot was connected when it was tested, but meanwhile the publisher  *)
(* has shut down: transmitter_ is nullptr.                                 *)
CallbackOnGone(t) ==
  /\ Running(t)
  /\ job[t].pub # None /\ phase[job[t].pub] = "gone"
  /\ down' = down \cup {ProcessOf(t)}
  /\ UNCHANGED <<known, connected, phase, job, log, received, endpoints, missed, lost>>

(* A process is killed. *)
Crash(q) ==
  /\ q \notin down /\ Faults < MaxFaults
  /\ down' = down \cup {q}
  /\ UNCHANGED <<known, connected, phase, job, log, received, endpoints, missed, lost>>

-----------------------------------------------------------------------------
Disposing(t) ==
  \/ Dispose(t) \/ NotifySlot(t)
  \/ EnableCount(t) \/ Enable(t)
  \/ DisableTest(t) \/ DisableCount(t) \/ Disable(t) \/ CallbackOnGone(t)

Next ==
  \/ \E r \in Roles : JoinTheTopology(r) \/ LeaveTheTopology(r) \/ Write(r)
  \/ \E q, s \in Processes : OnRemoteChange(q, s) \/ LoseChange(q, s)
  \/ \E q \in Processes : OnRemoteChangeEnd(q) \/ Crash(q)
  \/ \E t \in Threads : Disposing(t)

(***************************************************************************)
(* Threads of running processes run, and FastRTPS delivers what a running  *)
(* process has written unless it is lost.  Nobody has to join, leave or    *)
(* crash.                                                                  *)
(***************************************************************************)
Fairness ==
  /\ \A r \in Roles : WF_vars(Disposing(r) \/ Write(r))
  /\ \A q \in Processes :
       WF_vars(\/ Disposing(q) \/ OnRemoteChangeEnd(q)
               \/ \E s \in Processes \ down : OnRemoteChange(q, s))

Spec == Init /\ [][Next]_vars

FairSpec == Spec /\ Fairness

-----------------------------------------------------------------------------
Steps == {"idle", "dispose", "notify", "call", "enable", "sub", "disable"}

(* Types of the discovery state; a job has a message unless it is idle.    *)
TypeOK ==
  /\ known \in [Processes -> SUBSET Roles]
  /\ connected \in SUBSET Roles
  /\ phase \in [Roles -> {"none", "joining", "joined", "leaving", "gone"}]
  /\ job \in [Threads -> [step : Steps, msg : ChangeMsg \cup {None},
                          slots : SUBSET Publishers, pub : Publishers \cup {None}]]
  /\ \A t \in Threads : job[t].step = "idle" <=> job[t].msg = None
  /\ log \in [Processes -> Seq(ChangeMsg)]
  /\ received \in [Processes -> [Processes -> Nat]]
  /\ enabled \in [Publishers -> BOOLEAN]
  /\ receiver_count \in [Publishers -> Int]
  /\ down \in SUBSET Processes
  /\ missed \in SUBSET (Publishers \X Subscribers)
  /\ lost \in [Processes -> SUBSET Roles]

(* The roles of process s that have joined and not left. *)
Present(s) == {r \in Roles : Home[r] = s /\ phase[r] = "joined"}

(***************************************************************************)
(* Discovery converges: in the end every running process knows exactly the *)
(* roles that are present in the other running processes and in itself,    *)
(* but for those of which it lost a change, whatever joined, left or       *)
(* crashed and however the threads of Join, Leave and OnRemoteChange       *)
(* interleave.                                                             *)
(***************************************************************************)
DiscoveryConverges ==
  <>[](\A q, s \in Processes \ down :
         {r \in known[q] : Home[r] = s} \ lost[q] = Present(s) \ lost[q])

(* No thread of process q is disposing of a change or has one to take from *)
(* a running process.                                                      *)
Settled(q) ==
  /\ \A t \in Threads : ProcessOf(t) = q => job[t].step = "idle"
  /\ \A s \in Processes \ (down \cup {q}) : received[q][s] = Len(log[s])

ReadersKnown(p) == known[Home[p]] \cap Subscribers

(***************************************************************************)
(* While no subscriber leaves, a settled publisher has counted exactly the *)
(* readers it knows that joined after it listened, and is enabled if there *)
(* is one: ShmTransmitter::Enable(attr) is called for each of them, once,  *)
(* by whichever thread, and calls that race lose nothing.                  *)
(***************************************************************************)
CountsReaders ==
  (\A s \in Subscribers : phase[s] \notin {"leaving", "gone"}) =>
    \A p \in Publishers :
      phase[p] = "joined" /\ Home[p] \notin down /\ Settled(Home[p]) =>
        /\ receiver_count[p] = Cardinality({s \in ReadersKnown(p) : <<p, s>> \notin missed})
        /\ enabled[p] <=> receiver_count[p] > 0

(***************************************************************************)
(* "Pub/Sub of the same channel match automatically" (README.md:124): a    *)
(* publisher whose HasSubscriber() is true and for which no change is on   *)
(* its way can transmit.                                                   *)
(***************************************************************************)
MatchedCanTransmit ==
  \A p \in Publishers :
    phase[p] = "joined" /\ Home[p] \notin down /\ Settled(Home[p])
      /\ ReadersKnown(p) # {} => enabled[p]
=============================================================================
