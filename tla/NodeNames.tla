----------------------------- MODULE NodeNames ------------------------------
(***************************************************************************)
(* The NodeManager of every process (discovery/specific_manager/           *)
(* node_manager.cpp): which node owns a node name.  Its warehouse          *)
(* (container/single_value_warehouse.cpp) holds one node per name, and of  *)
(* two nodes of one name the earlier is kept.  A change is disposed of by  *)
(* the thread of the node that joins or leaves, or by the process's        *)
(* receiving thread, in steps between which the warehouse is not locked.   *)
(*                                                                         *)
(* All nodes here have the same name.  A node is named by the timestamp of *)
(* its join, so that IsEarlierThan is <, and no two nodes have the same.   *)
(* The broadcast may deliver in any order and lose nothing: what losses do *)
(* is the matter of Topology.  OnTopoModuleLeave finds nothing: it         *)
(* searches for the node_id 0.                                             *)
(***************************************************************************)
EXTENDS Integers, FiniteSets

CONSTANTS
  NameProcesses,
  JoinTimes,      \* the nodes
  HomeOf          \* the process of each node

None == 0         \* no node of the name; JoinTimes are positive

VARIABLES
  owner,          \* nodes_ of each process
  told,           \* <<process, node, change>>: changes disposed of
  work,           \* what each thread of a process is disposing of
  left,           \* the nodes that have left
  overlapped      \* history: processes in which two joins were disposed of at once

nameVars == <<owner, told, work, left, overlapped>>

(* A process disposes with its receiving thread and those of its nodes. *)
NameThreads == {<<q, n>> : q \in NameProcesses, n \in JoinTimes \cup {None}}
Rest == [step |-> "rest", node |-> None, existing |-> None]

NameInit ==
  /\ owner = [q \in NameProcesses |-> None]
  /\ told = {}
  /\ work = [t \in NameThreads |-> Rest]
  /\ left = {} /\ overlapped = {}

BusyJoins(q) == {t \in NameThreads : t[1] = q /\ work[t].step # "rest"}

(* Join in the thread of the node, OnRemoteChange in the receiving thread  *)
(* of another process; nodes_.Add(key, node, false) fails if the name is   *)
(* there.                                                                  *)
DisposeJoin(q, n) ==
  LET t == IF HomeOf[n] = q THEN <<q, n>> ELSE <<q, None>>
  IN  /\ work[t].step = "rest"
      /\ <<q, n, "join">> \notin told
      /\ HomeOf[n] # q => <<HomeOf[n], n, "join">> \in told
      /\ told' = told \cup {<<q, n, "join">>}
      /\ IF owner[q] = None
         THEN /\ owner' = [owner EXCEPT ![q] = n]
              /\ UNCHANGED work
         ELSE /\ work' = [work EXCEPT ![t] = [step |-> "search", node |-> n, existing |-> None]]
              /\ UNCHANGED owner
      /\ overlapped' = IF BusyJoins(q) = {} THEN overlapped ELSE overlapped \cup {q}
      /\ UNCHANGED left

(* nodes_.Search: another thread may have removed the node meanwhile. *)
SearchExisting(t) ==
  /\ work[t].step = "search"
  /\ IF owner[t[1]] = None
     THEN /\ owner' = [owner EXCEPT ![t[1]] = work[t].node]
          /\ work' = [work EXCEPT ![t] = Rest]
     ELSE /\ work' = [work EXCEPT ![t].step = "compare", ![t].existing = owner[t[1]]]
          /\ UNCHANGED owner
  /\ UNCHANGED <<told, left, overlapped>>

(* Fault: the node that is there stays. *)
KeepEarlierNever(t) ==
  /\ work[t].step = "compare"
  /\ work' = [work EXCEPT ![t] = Rest]
  /\ UNCHANGED <<owner, told, left, overlapped>>

(* The earlier of the two is put into the warehouse.  That the process of  *)
(* the later one will be terminated is only logged.                        *)
KeepEarlier(t) ==
  /\ work[t].step = "compare"
  /\ owner' = IF work[t].node < work[t].existing
              THEN [owner EXCEPT ![t[1]] = work[t].node] ELSE owner
  /\ work' = [work EXCEPT ![t] = Rest]
  /\ UNCHANGED <<told, left, overlapped>>

(* DisposeLeave removes whatever node has the name. *)
DisposeLeave(q, n) ==
  LET t == IF HomeOf[n] = q THEN <<q, n>> ELSE <<q, None>>
  IN  /\ work[t].step = "rest"
      /\ <<q, n, "join">> \in told /\ <<q, n, "leave">> \notin told
      /\ HomeOf[n] # q => n \in left
      /\ told' = told \cup {<<q, n, "leave">>}
      /\ left' = left \cup {n}
      /\ owner' = [owner EXCEPT ![q] = None]
      /\ UNCHANGED <<work, overlapped>>

NameNext ==
  \/ \E q \in NameProcesses, n \in JoinTimes : DisposeJoin(q, n) \/ DisposeLeave(q, n)
  \/ \E t \in NameThreads : SearchExisting(t) \/ KeepEarlier(t)

NameSpec == NameInit /\ [][NameNext]_nameVars

-----------------------------------------------------------------------------
Joined == {n \in JoinTimes : <<HomeOf[n], n, "join">> \in told}

(***************************************************************************)
(* Until a node of the name leaves, every process that has heard of all    *)
(* the nodes of the name keeps one of them, and the same one, the earliest, *)
(* in whatever order it heard of them, unless it disposed of two joins at  *)
(* once: then the later of two checks may overwrite the result of the      *)
(* earlier one (node_manager.cpp:65-76).                                   *)
(***************************************************************************)
EarliestKept ==
  \A q \in NameProcesses :
    left = {} /\ Joined # {} /\ (\A n \in Joined : <<q, n, "join">> \in told) =>
      /\ owner[q] \in Joined
      /\ BusyJoins(q) = {} /\ q \notin overlapped => \A n \in Joined : owner[q] <= n
=============================================================================
