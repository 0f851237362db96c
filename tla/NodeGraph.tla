----------------------------- MODULE NodeGraph ------------------------------
(***************************************************************************)
(* What the ChannelManager of one process keeps about the writers and      *)
(* readers it hears of (discovery/specific_manager/channel_manager.cpp):   *)
(* four warehouses (container/multi_value_warehouse.cpp) and the graph of  *)
(* nodes (container/graph.cpp), and the queries on them.  Every change is  *)
(* disposed of by some thread, a warehouse or the graph at a time, each    *)
(* under its own lock; the changes of one role come in order.              *)
(*                                                                         *)
(* A role is a record; Match (role/role.cpp) compares the fields that tell *)
(* two of them apart, so a warehouse is a set of roles.  The graph keeps   *)
(* for every channel the nodes that write and read it, and the adjacency   *)
(* list, a set of triples: source node, channel, destination node.  A      *)
(* node's edges are kept under Edge::GetKey, which joins the names of the  *)
(* channel and of the destination: an edge takes the place of another one  *)
(* with its key, and is erased with it.  The keys of list_ are the nodes   *)
(* of the edges it ever had.                                               *)
(***************************************************************************)
EXTENDS Integers, Sequences, FiniteSets, SequencesExt

CONSTANT Roles   \* [node, channel, kind ("writer" or "reader"), id]

VARIABLES
  node_writers, node_readers, channel_writers, channel_readers,  \* the warehouses
  src, dst,       \* edges_: <<channel, node>> pairs
  list,           \* list_: the complete edges
  vertices,       \* the keys of list_
  stage,          \* how far the disposal of each role's last change has come
  robbed          \* history: roles whose pair in edges_ another one's leave took

graphVars == <<node_writers, node_readers, channel_writers, channel_readers,
               src, dst, list, vertices, stage, robbed>>

warehouses == <<node_writers, node_readers, channel_writers, channel_readers>>

GraphInit ==
  /\ node_writers = {} /\ node_readers = {}
  /\ channel_writers = {} /\ channel_readers = {}
  /\ src = {} /\ dst = {} /\ list = {} /\ vertices = {}
  /\ stage = [r \in Roles |-> "new"]
  /\ robbed = {}

Nodes == {r.node : r \in Roles}

Key(e) == e[2] \o "_" \o e[3]

(* The entries of list_ under the keys of these edges. *)
Keyed(edges) == {e \in list : \E f \in edges : f[1] = e[1] /\ Key(f) = Key(e)}

Advance(r, from, to) == stage[r] = from /\ stage' = [stage EXCEPT ![r] = to]

(* DisposeJoin: ScanMessageType only logs; the node's warehouse, ... *)
DisposeJoin(r) ==
  /\ Advance(r, "new", "join channel")
  /\ IF r.kind = "writer" THEN node_writers' = node_writers \cup {r} /\ UNCHANGED node_readers
                          ELSE node_readers' = node_readers \cup {r} /\ UNCHANGED node_writers
  /\ UNCHANGED <<channel_writers, channel_readers, src, dst, list, vertices, robbed>>

(* ... the channel's, ... *)
DisposeJoinChannel(r) ==
  /\ Advance(r, "join channel", "join graph")
  /\ IF r.kind = "writer" THEN channel_writers' = channel_writers \cup {r} /\ UNCHANGED channel_readers
                          ELSE channel_readers' = channel_readers \cup {r} /\ UNCHANGED channel_writers
  /\ UNCHANGED <<node_writers, node_readers, src, dst, list, vertices, robbed>>

(* ... and Graph::Insert, which completes the edge with every node at its  *)
(* other end, unless the node is in edges_ already.                        *)
InsertCompleteEdge(new) ==
  /\ list' = (list \ Keyed(new)) \cup new
  /\ vertices' = vertices \cup {e[1] : e \in new} \cup {e[3] : e \in new}

InsertOutgoingEdge(r) ==
  /\ src' = src \cup {<<r.channel, r.node>>}
  /\ LET new == {<<r.node, r.channel, d[2]>> : d \in {d1 \in dst : d1[1] = r.channel}}
     IN  IF <<r.channel, r.node>> \in src
         THEN UNCHANGED <<list, vertices>>
         ELSE InsertCompleteEdge(new)
  /\ UNCHANGED dst

InsertIncomingEdge(r) ==
  /\ dst' = dst \cup {<<r.channel, r.node>>}
  /\ LET new == {<<s[2], r.channel, r.node>> : s \in {s1 \in src : s1[1] = r.channel}}
     IN  IF <<r.channel, r.node>> \in dst
         THEN UNCHANGED <<list, vertices>>
         ELSE InsertCompleteEdge(new)
  /\ UNCHANGED src

Insert(r) ==
  /\ Advance(r, "join graph", "joined")
  /\ IF r.kind = "writer" THEN InsertOutgoingEdge(r) ELSE InsertIncomingEdge(r)
  /\ UNCHANGED <<warehouses, robbed>>

(* DisposeLeave. *)
DisposeLeave(r) ==
  /\ Advance(r, "joined", "leave channel")
  /\ node_writers' = node_writers \ {r} /\ node_readers' = node_readers \ {r}
  /\ UNCHANGED <<channel_writers, channel_readers, src, dst, list, vertices, robbed>>

DisposeLeaveChannel(r) ==
  /\ Advance(r, "leave channel", "leave graph")
  /\ channel_writers' = channel_writers \ {r} /\ channel_readers' = channel_readers \ {r}
  /\ UNCHANGED <<node_writers, node_readers, src, dst, list, vertices, robbed>>

(* Graph::Delete takes the node's edges of the channel out of the list,    *)
(* unless the node is not in edges_, ...                                   *)
DeleteOutgoingEdge(r) ==
  /\ src' = src \ {<<r.channel, r.node>>}
  /\ LET old == {<<r.node, r.channel, d[2]>> : d \in {d1 \in dst : d1[1] = r.channel}}
     IN  list' = IF <<r.channel, r.node>> \in src THEN list \ Keyed(old) ELSE list
  /\ UNCHANGED dst

(* Fault: the edges of the readers stay in the list. *)
DeleteIncomingEdgeKeeping(r) ==
  /\ dst' = dst \ {<<r.channel, r.node>>}
  /\ UNCHANGED <<src, list>>

DeleteIncomingEdge(r) ==
  /\ dst' = dst \ {<<r.channel, r.node>>}
  /\ LET old == {<<s[2], r.channel, r.node>> : s \in {s1 \in src : s1[1] = r.channel}}
     IN  list' = IF <<r.channel, r.node>> \in dst THEN list \ Keyed(old) ELSE list
  /\ UNCHANGED src

(* The other roles of its node, channel and kind that the graph has. *)
Twins(r) ==
  {t \in Roles \ {r} : /\ t.node = r.node /\ t.channel = r.channel /\ t.kind = r.kind
                       /\ stage[t] \in {"joined", "leave channel", "leave graph"}}

(* ... but not its vertices. *)
Delete(r) ==
  /\ Advance(r, "leave graph", "gone")
  /\ IF r.kind = "writer" THEN DeleteOutgoingEdge(r) ELSE DeleteIncomingEdge(r)
  /\ robbed' = robbed \cup Twins(r)
  /\ UNCHANGED <<warehouses, vertices>>

GraphNext ==
  \E r \in Roles : \/ DisposeJoin(r) \/ DisposeJoinChannel(r) \/ Insert(r)
                   \/ DisposeLeave(r) \/ DisposeLeaveChannel(r) \/ Delete(r)

GraphSpec == GraphInit /\ [][GraphNext]_graphVars

-----------------------------------------------------------------------------
(* The queries. *)

(* The destinations in list_[n], one for every edge. *)
Destinations(n) ==
  LET out == SetToSeq({e \in list : e[1] = n})
  IN  [i \in 1 .. Len(out) |-> out[i][3]]

(* A turn of the loop of LevelTraverse: the node at the front is visited   *)
(* and its edges queued, unless it was visited before or the loop is over. *)
Turn(s, end) ==
  LET curr == Head(s.unvisited)
  IN  IF s.unvisited = <<>> \/ end \in s.visited THEN s
      ELSE IF curr \in s.visited THEN [s EXCEPT !.unvisited = Tail(s.unvisited)]
      ELSE [unvisited |-> IF curr = end THEN Tail(s.unvisited)
                          ELSE Tail(s.unvisited) \o Destinations(curr),
            visited |-> s.visited \cup {curr}]

(* Breadth first from start until end is visited.  A turn takes one node   *)
(* from the queue, into which start and one node for an edge are put, so   *)
(* these turns are enough.                                                 *)
LevelTraverse(start, end) ==
  LET turns == Cardinality(list) + 1
      loop[k \in 0 .. turns] ==
        IF k = 0 THEN [unvisited |-> <<start>>, visited |-> {}]
        ELSE Turn(loop[k - 1], end)
  IN  end \in loop[turns].visited

GetDirectionOf(l, r) ==
  IF l \notin vertices \/ r \notin vertices THEN "UNREACHABLE"
  ELSE IF LevelTraverse(l, r) THEN "UPSTREAM"
  ELSE IF LevelTraverse(r, l) THEN "DOWNSTREAM"
  ELSE "UNREACHABLE"

GetUpstreamOfNode(n) ==
  LET channels == {r.channel : r \in {r1 \in node_readers : r1.node = n}}
  IN  {w.node : w \in {w1 \in channel_writers : w1.channel \in channels}}

(* GetReadersOfNode, where its name and its variable say writers: the      *)
(* result is not the inverse of GetUpstreamOfNode but the nodes that read  *)
(* what n reads, n among them.  Nothing in the repository calls it.        *)
GetDownStreamOfnode(n) ==
  LET channels == {w.channel : w \in {w1 \in node_readers : w1.node = n}}
  IN  {r.node : r \in {r1 \in channel_readers : r1.channel \in channels}}

-----------------------------------------------------------------------------
Quiet == \A r \in Roles : stage[r] \in {"new", "joined", "gone"}

(* Messages can flow from l to r, by the warehouses: r is in every set of  *)
(* nodes that has l and, with a node, those that read what it writes.      *)
Flows(l, r) ==
  \A S \in SUBSET Nodes :
    l \in S /\ (\A n \in Nodes : GetUpstreamOfNode(n) \cap S # {} => n \in S) => r \in S

(* Roles of the source joined that make another edge with the key of e. *)
Clashes(e) ==
  \E w, r \in Roles :
    /\ stage[w] # "new" /\ stage[r] # "new" /\ w.kind = "writer" /\ r.kind = "reader"
    /\ w.channel = r.channel /\ w.node = e[1]
    /\ <<w.node, w.channel, r.node>> # e /\ Key(<<w.node, w.channel, r.node>>) = Key(e)

(* The edges of writers and readers that are present and were not robbed, *)
(* with keys of their own.                                                *)
Kept ==
  {e \in Nodes \X {r.channel : r \in Roles} \X Nodes :
     /\ \E w \in channel_writers \ robbed : w.node = e[1] /\ w.channel = e[2]
     /\ \E r \in node_readers \ robbed : r.node = e[3] /\ r.channel = e[2]
     /\ ~Clashes(e)}

(* Messages can flow from l to r along such edges. *)
FlowsOnKept(l, r) ==
  \A S \in SUBSET Nodes : l \in S /\ (\A e \in Kept : e[1] \in S => e[3] \in S) => r \in S

(***************************************************************************)
(* In a settled process the graph answers what the warehouses say, in      *)
(* whatever order threads disposed of the changes: lhs is upstream of rhs  *)
(* only if messages can flow from it to rhs through writers and readers    *)
(* that are present; and it is if they can along edges that Graph kept.    *)
(* Graph loses two kinds of edges: those of a node one of whose two        *)
(* writers or readers of the channel left while the other was there        *)
(* (graph.cpp:178-218 takes the node's edge, not the role's), and those    *)
(* whose key another edge of the source has ("a_b" to "c" and "a" to       *)
(* "b_c", graph.cpp:73-75).                                                *)
(***************************************************************************)
FlowExact ==
  Quiet =>
    \A l, r \in Nodes : l # r =>
      /\ GetDirectionOf(l, r) = "UPSTREAM" => Flows(l, r)
      /\ FlowsOnKept(l, r) => GetDirectionOf(l, r) = "UPSTREAM"
=============================================================================
