--------------------------- MODULE TopologyManager --------------------------
(***************************************************************************)
(* TopologyManager (discovery/topology_manager.cpp) of one process: the    *)
(* discovery thread of FastRTPS reports participants that appear and       *)
(* vanish, roles of vanished processes are taken out of the node and the   *)
(* channel manager, and the change is signalled; meanwhile roles join and  *)
(* leave, and the process may shut the manager down.                       *)
(*                                                                         *)
(* OnTopoModuleLeave searches with a RoleAttributes of which it sets only  *)
(* host and process: the other fields are whatever the stack holds, any    *)
(* ids here.  It collects what it finds and then removes it piece by piece, *)
(* each under the warehouse's lock, and other threads come in between: a   *)
(* node is removed by its id, whoever has it by then.                      *)
(*                                                                         *)
(* The participant listener is deleted while the participant that calls it *)
(* lives on: a report after that is undefined (`undefined`).  The steps of *)
(* a node's join, one here, are the matter of NodeNames.                   *)
(***************************************************************************)
EXTENDS Naturals, FiniteSets, Functions

CONSTANTS
  Peers,          \* the other processes, with one participant each
  Roles,          \* their nodes, writers and readers
  MaxReports      \* bound: reports of the discovery thread

VARIABLES
  init_,          \* TopologyManager::init_
  started,        \* is_discovery_started_ of the node and the channel manager
  participant_listener_,
  participant_names_,   \* the peers whose names are known
  nodes_, channel_writers_, channel_readers_,   \* the warehouses
  report,         \* what the discovery thread is doing
  closing,        \* how far Shutdown has come
  reports,
  joined,         \* history: roles that have joined and not left
  open,           \* history: peers signalled as joined and not since as left
  unpaired,       \* history: a leave was signalled without a join
  swapped,        \* history: nodes that joined since the search, while others are removed
  undefined

managerVars == <<init_, started, participant_listener_, participant_names_, nodes_,
                 channel_writers_, channel_readers_, report, closing, reports, joined, open,
                 unpaired, swapped, undefined>>
views == <<nodes_, channel_writers_, channel_readers_>>
signals == <<open, unpaired, swapped>>

NoAttr == [node_id |-> 0, process_id |-> "none", channel_id |-> 0, id |-> 0]
Report(at, p, opt) == [at |-> at, peer |-> p, opt |-> opt, attr |-> NoAttr, found |-> {}]
NoReport == Report("none", "none", "none")

-----------------------------------------------------------------------------
(* MutilValueWarehouse (discovery/container/multi_value_warehouse.cpp), a  *)
(* multimap from keys to roles: a set of <<key, role>>.  Each operation    *)
(* holds the warehouse's lock, so it is an operator here; equal entries    *)
(* are added, found and removed together.  A role has the attributes       *)
(* node_id, process_id, channel_id, id, a kind and the timestamp `since`   *)
(* of its join; a host is part of the process_id.                          *)
Search(roles, key) == \E e \in roles : e[1] = key

AddMulti(roles, key, role, ignore_if_exist) ==
  IF ~ ignore_if_exist /\ Search(roles, key) THEN roles ELSE roles \cup {<<key, role>>}

(* RoleBase::Match for nodes, RoleWriter::Match for writers and readers. *)
Match(role, attr) ==
  /\ attr.node_id = role.node_id
  /\ attr.process_id = role.process_id
  /\ role.kind # "node" => attr.channel_id = role.channel_id /\ attr.id = role.id

RemoveRole(roles, key, role) == {e \in roles : ~ (e[1] = key /\ Match(e[2], role))}
MatchingMulti(roles, attr) == {e[2] : e \in {e \in roles : Match(e[2], attr)}}

-----------------------------------------------------------------------------
(* SingleValueWarehouse (discovery/container/single_value_warehouse.cpp),  *)
(* a map from keys to roles: a function.                                   *)

Empty == [key \in {} |-> 0]
Has(roles, key) == key \in DOMAIN roles

(* An existing role is replaced, or kept when ignore_if_exist is false. *)
Add(roles, key, role, ignore_if_exist) ==
  IF ~ ignore_if_exist /\ Has(roles, key) THEN roles
  ELSE [k \in DOMAIN roles \cup {key} |-> IF k = key THEN role ELSE roles[k]]

RemoveKey(roles, key) == Restrict(roles, DOMAIN roles \ {key})

Matching(roles, attr) == {roles[k] : k \in {k \in DOMAIN roles : Match(roles[k], attr)}}
RolesOf(roles) == {roles[k] : k \in DOMAIN roles}

-----------------------------------------------------------------------------
(* Init: creating the managers and starting both discoveries succeeds, or  *)
(* everything is taken back.                                               *)
ManagerInit ==
  /\ init_ \in BOOLEAN
  /\ started = [node |-> init_, channel |-> init_]
  /\ participant_listener_ = init_
  /\ participant_names_ = {} /\ nodes_ = Empty /\ channel_writers_ = {} /\ channel_readers_ = {}
  /\ report = NoReport /\ closing = "open" /\ reports = 0
  /\ joined = {} /\ open = {} /\ unpaired = FALSE /\ swapped = {} /\ undefined = FALSE

NamesAfter(p, status) ==
  CASE status = "DISCOVERED" -> participant_names_ \cup {p}
    [] status \in {"REMOVED", "DROPPED"} -> participant_names_ \ {p}
    [] OTHER -> participant_names_

(* onParticipantDiscovery: under the listener's mutex, OnparticipantChange  *)
(* and first Convert.  A change of QoS, or a second end of a participant,   *)
(* has no name, and ParseParticipantName refuses it.                        *)
OnParticipantDiscovery(p, status) ==
  /\ report.at = "none" /\ reports < MaxReports
  /\ reports' = reports + 1
  /\ IF ~ participant_listener_
     THEN undefined' = TRUE /\ UNCHANGED <<participant_names_, report>>
     ELSE /\ participant_names_' = NamesAfter(p, status)
          /\ report' = IF status = "DISCOVERED" THEN Report("init", p, "join")
                       ELSE IF status # "CHANGED_QOS" /\ p \in participant_names_
                       THEN Report("init", p, "leave")
                       ELSE NoReport
          /\ UNCHANGED undefined
  /\ UNCHANGED <<init_, started, participant_listener_, views, closing, joined, signals>>

OnParticipantChange ==
  /\ report.at = "init"
  /\ report' = IF ~ init_ THEN NoReport
               ELSE [report EXCEPT !.at = IF report.opt = "leave" THEN "nodes" ELSE "signal"]
  /\ UNCHANGED <<init_, started, participant_listener_, participant_names_, views, closing,
                 reports, joined, signals, undefined>>

(* The attributes a search of a vanished process compares with. *)
Stack(p) ==
  {[node_id |-> r.node_id, process_id |-> p, channel_id |-> r.channel_id, id |-> r.id] : r \in Roles}
  \cup {[node_id |-> 0, process_id |-> p, channel_id |-> 0, id |-> 0]}

(* NodeManager::OnTopoModuleLeave searches, and then removes by the id. *)
NodesTopoModuleLeave ==
  /\ report.at = "nodes"
  /\ IF started.node
     THEN \E attr \in Stack(report.peer) :
            LET nodes_to_remove == Matching(nodes_, attr)
            IN  report' = [report EXCEPT !.found = nodes_to_remove,
                             !.at = IF nodes_to_remove = {} THEN "channels" ELSE "remove"]
     ELSE report' = [report EXCEPT !.at = "channels"]
  /\ UNCHANGED <<init_, started, participant_listener_, participant_names_, views, closing,
                 reports, joined, signals, undefined>>

RemoveNode(node) ==
  /\ report.at = "remove" /\ node \in report.found
  /\ nodes_' = RemoveKey(nodes_, node.node_id)
  /\ report' = [report EXCEPT !.found = report.found \ {node},
                              !.at = IF report.found = {node} THEN "channels" ELSE "remove"]
  /\ swapped' = IF report.found = {node} THEN {} ELSE swapped
  /\ UNCHANGED <<init_, started, participant_listener_, participant_names_, channel_writers_,
                 channel_readers_, closing, reports, joined, open, unpaired, undefined>>

(* ChannelManager::OnTopoModuleLeave searches the writers, then the        *)
(* readers, with the same attributes.                                      *)
ChannelsTopoModuleLeave ==
  /\ report.at = "channels"
  /\ IF started.channel
     THEN \E attr \in Stack(report.peer) :
            report' = [report EXCEPT !.at = "readers", !.attr = attr,
                                     !.found = MatchingMulti(channel_writers_, attr)]
     ELSE report' = [report EXCEPT !.at = "signal"]
  /\ UNCHANGED <<init_, started, participant_listener_, participant_names_, views, closing,
                 reports, joined, signals, undefined>>

SearchReaders ==
  LET roles == report.found \cup MatchingMulti(channel_readers_, report.attr)
  IN  /\ report.at = "readers"
      /\ report' = [report EXCEPT !.attr = NoAttr, !.found = roles,
                                  !.at = IF roles = {} THEN "signal" ELSE "dispose"]
      /\ UNCHANGED <<init_, started, participant_listener_, participant_names_, views, closing,
                     reports, joined, signals, undefined>>

(* A DisposeLeave for each that was found, the writers first. *)
DisposeLeave(role) ==
  /\ report.at = "dispose" /\ role \in report.found
  /\ role.kind = "reader" => \A r \in report.found : r.kind = "reader"
  /\ IF role.kind = "writer"
     THEN /\ channel_writers_' = RemoveRole(channel_writers_, role.channel_id, role)
          /\ UNCHANGED channel_readers_
     ELSE /\ channel_readers_' = RemoveRole(channel_readers_, role.channel_id, role)
          /\ UNCHANGED channel_writers_
  /\ report' = [report EXCEPT !.found = report.found \ {role},
                              !.at = IF report.found = {role} THEN "signal" ELSE "dispose"]
  /\ UNCHANGED <<init_, started, participant_listener_, participant_names_, nodes_, closing,
                 reports, joined, signals, undefined>>

ChangeSignal ==
  /\ report.at = "signal"
  /\ report' = NoReport
  /\ open' = IF report.opt = "join" THEN open \cup {report.peer} ELSE open \ {report.peer}
  /\ unpaired' = (unpaired \/ (report.opt = "leave" /\ report.peer \notin open))
  /\ UNCHANGED <<init_, started, participant_listener_, participant_names_, views, closing,
                 reports, joined, swapped, undefined>>

(* NodeManager::DisposeJoin: of two nodes of one id the earlier is kept. *)
NodeJoins(node) ==
  LET key == node.node_id
  IN  IF Has(nodes_, key) /\ ~ (node.since < nodes_[key].since)
      THEN nodes_ ELSE Add(nodes_, key, node, TRUE)

(* Dispose of a role's join or leave that a peer has broadcast. *)
Dispose(r) ==
  /\ IF r.kind = "node" THEN started.node ELSE started.channel
  /\ IF r \in joined
     THEN /\ joined' = joined \ {r}
          /\ nodes_' = IF r.kind = "node" THEN RemoveKey(nodes_, r.node_id) ELSE nodes_
          /\ channel_writers_' = IF r.kind = "writer" THEN RemoveRole(channel_writers_, r.channel_id, r) ELSE channel_writers_
          /\ channel_readers_' = IF r.kind = "reader" THEN RemoveRole(channel_readers_, r.channel_id, r) ELSE channel_readers_
     ELSE /\ joined' = joined \cup {r}
          /\ nodes_' = IF r.kind = "node" THEN NodeJoins(r) ELSE nodes_
          /\ channel_writers_' = IF r.kind = "writer" THEN AddMulti(channel_writers_, r.channel_id, r, TRUE) ELSE channel_writers_
          /\ channel_readers_' = IF r.kind = "reader" THEN AddMulti(channel_readers_, r.channel_id, r, TRUE) ELSE channel_readers_
  /\ swapped' = IF report.at = "remove" /\ nodes_' # nodes_ /\ r \notin joined
                THEN swapped \cup {r} ELSE swapped
  /\ UNCHANGED <<init_, started, participant_listener_, participant_names_, report, closing,
                 reports, open, unpaired, undefined>>

ShutdownBegin ==
  /\ closing = "open" /\ init_
  /\ init_' = FALSE /\ closing' = "managers"
  /\ UNCHANGED <<started, participant_listener_, participant_names_, views, report, reports,
                 joined, signals, undefined>>

(* Manager::Shutdown stops the discovery, the node manager's first. *)
ShutdownManagers ==
  /\ closing = "managers"
  /\ IF started.node THEN started' = [started EXCEPT !.node = FALSE] /\ UNCHANGED closing
     ELSE started' = [started EXCEPT !.channel = FALSE] /\ closing' = "listener"
  /\ UNCHANGED <<init_, participant_listener_, participant_names_, views, report, reports,
                 joined, signals, undefined>>

(* The listener's destructor waits for a callback that holds its mutex. *)
ShutdownListener ==
  /\ closing = "listener" /\ report.at = "none"
  /\ participant_listener_' = FALSE /\ closing' = "closed"
  /\ UNCHANGED <<init_, started, participant_names_, views, report, reports, joined, signals,
                 undefined>>

ManagerNext ==
  \/ \E p \in Peers, s \in {"DISCOVERED", "CHANGED_QOS", "REMOVED", "DROPPED"} :
       OnParticipantDiscovery(p, s)
  \/ OnParticipantChange \/ ChangeSignal
  \/ NodesTopoModuleLeave \/ ChannelsTopoModuleLeave \/ SearchReaders
  \/ \E r \in Roles : RemoveNode(r) \/ DisposeLeave(r) \/ Dispose(r)
  \/ ShutdownBegin \/ ShutdownManagers \/ ShutdownListener

ManagerSpec == ManagerInit /\ [][ManagerNext]_managerVars

-----------------------------------------------------------------------------
(* The end of a participant is signalled once, and only after its         *)
(* discovery was: FastRTPS may report it as removed and as dropped.       *)
LeaveFollowsJoin == ~ unpaired

(***************************************************************************)
(* When a participant vanishes, the roles of other processes stay in the   *)
(* views, whatever the uninitialised fields of the search hold and         *)
(* whatever joins and leaves while what was found is removed.  The one     *)
(* exception is a node that took the id of a node found after the search   *)
(* and before the removal by that id (node_manager.cpp:52-53).             *)
(***************************************************************************)
OthersKept ==
  [][report.at # "none" /\ joined' = joined =>
       /\ \A r \in RolesOf(nodes_) :
            r.process_id # report.peer =>
              \/ r \in RolesOf(nodes_')
              \/ r \in swapped
       /\ \A e \in channel_writers_ \cup channel_readers_ :
            e[2].process_id # report.peer => e \in channel_writers_' \cup channel_readers_']_managerVars
=============================================================================
