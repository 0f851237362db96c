------------------------------- MODULE NodeApi -------------------------------
(***************************************************************************)
(* The API of a process (node/, transport/transport.h): nodes, their       *)
(* publishers and subscribers, and what creating and destroying them does  *)
(* to the components below: the receivers that ReceiverManager shares, the *)
(* coroutines of the scheduler, the roles and change listeners of the      *)
(* channel manager.                                                        *)
(*                                                                         *)
(* A subscriber is a pair of a node and a channel: Node::subscribers_      *)
(* refuses a second one, and keeps the first until the node is destroyed.  *)
(* A subscriber's coroutine is named node_name + "_" + channel_name, so    *)
(* Routine may give two subscribers the same name: those of two nodes of   *)
(* one name, or of "a_b" and "c" against "a" and "b_c".                    *)
(***************************************************************************)
EXTENDS Naturals, FiniteSets

CONSTANTS
  Callers,       \* threads that use the API
  Nodes,         \* node objects
  Channels,      \* channel names
  Remote,        \* writers of other processes
  Nothing,       \* nullptr, no owner
  Routine(_, _)  \* croutine_name_ of a subscriber

VARIABLES
  node,          \* each node object: "new", "alive" or "gone"
  joined_nodes,  \* nodes the node manager has
  subscribers,   \* each node's subscribers_: a set of channels
  init,          \* subscribers with init_
  owner,         \* the subscriber whose coroutine has a name, or Nothing
  receiver_map,  \* each channel: "none", "null" or "receiver"
  enabled,       \* each channel: the writers its receiver is enabled for
  is_shutdown,   \* Transport::is_shutdown_
  publishers,    \* publishers with init_, each a pair of a node and a channel
  writers,       \* each channel: the writers the channel manager has
  readers,       \* readers the channel manager has
  listening,     \* subscribers with a change listener
  changes,       \* the changes being notified, with the listeners still to call
  call,          \* each caller: where it is, and the subscriber it creates
  crashed        \* a null receiver was used

apiVars == <<node, joined_nodes, subscribers, init, owner, receiver_map, enabled,
             is_shutdown, publishers, writers, readers, listening, changes, call, crashed>>

nodeVars == <<node, joined_nodes, subscribers>>
topoVars == <<writers, readers, listening, changes>>

Subs == Nodes \X Channels
Out == [at |-> "out", sub |-> Nothing]

ApiInit ==
  /\ node = [n \in Nodes |-> "new"] /\ joined_nodes = {}
  /\ subscribers = [n \in Nodes |-> {}] /\ init = {}
  /\ owner = [r \in {Routine(s[1], s[2]) : s \in Subs} |-> Nothing]
  /\ receiver_map = [c \in Channels |-> "none"]
  /\ enabled = [c \in Channels |-> {}] /\ is_shutdown = FALSE
  /\ publishers = {} /\ writers = [c \in Channels |-> {}] /\ readers = {}
  /\ listening = {} /\ changes = {}
  /\ call = [t \in Callers |-> Out] /\ crashed = FALSE

Name(s) == Routine(s[1], s[2])

(* NodeChannelImpl::CreateSubscriber fills in the attributes of a new      *)
(* subscriber: what tells it apart is its node and its channel.            *)
NewSubscriber(n, c) == <<n, c>>

(* The node's subscribers_mutex_ is held by a caller creating a subscriber. *)
Locked(n) == \E t \in Callers : call[t].at # "out" /\ call[t].sub[1] = n

At(t, where) == ~crashed /\ call[t].at = where
Goto(t, where) == call' = [call EXCEPT ![t].at = where]
Return(t) == call' = [call EXCEPT ![t] = Out]

-----------------------------------------------------------------------------
(* CreateNode: NodeChannelImpl joins the node manager. *)
CreateNode(n) ==
  /\ ~crashed /\ node[n] = "new"
  /\ node' = [node EXCEPT ![n] = "alive"]
  /\ joined_nodes' = joined_nodes \cup {n}
  /\ UNCHANGED <<subscribers, init, owner, receiver_map, enabled, is_shutdown,
                 publishers, topoVars, call, crashed>>

(* Node::CreateSubscriber takes subscribers_mutex_, finds no subscriber of *)
(* the channel, and Subscriber::Init sets init_.                           *)
CreateSubscriber(t, n, c) ==
  /\ At(t, "out") /\ node[n] = "alive" /\ ~Locked(n) /\ c \notin subscribers[n]
  /\ init' = init \cup {NewSubscriber(n, c)}
  /\ call' = [call EXCEPT ![t] = [at |-> "task", sub |-> NewSubscriber(n, c)]]
  /\ UNCHANGED <<nodeVars, owner, receiver_map, enabled, is_shutdown, publishers,
                 topoVars, crashed>>

(* Fault: init_ is not reset, so the destructor shuts the subscriber down. *)
InitTaskKeeping(t) ==
  LET s == call[t].sub
  IN  /\ At(t, "task")
      /\ IF owner[Name(s)] = Nothing
         THEN owner' = [owner EXCEPT ![Name(s)] = s] /\ init' = init /\ Goto(t, "receiver")
         ELSE owner' = [owner EXCEPT ![Name(s)] = Nothing] /\ init' = init \ {s} /\ Return(t)
      /\ UNCHANGED <<nodeVars, receiver_map, enabled, is_shutdown, publishers,
                     topoVars, crashed>>

(* Init: Scheduler::CreateTask refuses a name it has; init_ is reset, and  *)
(* the destructor of the new subscriber then does nothing.                 *)
InitTask(t) ==
  LET s == call[t].sub
  IN  /\ At(t, "task")
      /\ IF owner[Name(s)] = Nothing
         THEN owner' = [owner EXCEPT ![Name(s)] = s] /\ init' = init /\ Goto(t, "receiver")
         ELSE owner' = owner /\ init' = init \ {s} /\ Return(t)
      /\ UNCHANGED <<nodeVars, receiver_map, enabled, is_shutdown, publishers,
                     topoVars, crashed>>

(* Transport::CreateReceiver: none after Shutdown. *)
CreateReceiver == IF is_shutdown THEN "null" ELSE "receiver"

(* GetReceiver keeps what CreateReceiver returned, nullptr too; Init then  *)
(* takes the id of the receiver.                                           *)
GetReceiver(t) ==
  LET c == call[t].sub[2]
  IN  /\ At(t, "receiver")
      /\ receiver_map' = [receiver_map EXCEPT ![c] = IF @ = "none" THEN CreateReceiver ELSE @]
      /\ crashed' = (receiver_map'[c] = "null")
      /\ Goto(t, "listen")
      /\ UNCHANGED <<nodeVars, init, owner, enabled, is_shutdown, publishers, topoVars>>

(* The steps of JoinTheTopology: AddChangeListener; GetWritersOfChannel    *)
(* and Enable of each writer; Join as a reader, after which the node's     *)
(* subscribers_ take the subscriber.                                       *)
JoinListen(t, from, to) ==
  /\ At(t, from) /\ Goto(t, to)
  /\ listening' = listening \cup {call[t].sub}
  /\ UNCHANGED <<nodeVars, init, owner, receiver_map, enabled, is_shutdown, publishers,
                 writers, readers, changes, crashed>>

JoinWriters(t, from, to) ==
  LET c == call[t].sub[2]
  IN  /\ At(t, from) /\ Goto(t, to)
      /\ enabled' = [enabled EXCEPT ![c] = @ \cup writers[c]]
      /\ UNCHANGED <<nodeVars, init, owner, receiver_map, is_shutdown, publishers,
                     topoVars, crashed>>

JoinReader(t) ==
  LET s == call[t].sub
  IN  /\ At(t, "join") /\ Return(t)
      /\ readers' = readers \cup {s}
      /\ subscribers' = [subscribers EXCEPT ![s[1]] = @ \cup {s[2]}]
      /\ UNCHANGED <<node, joined_nodes, init, owner, receiver_map, enabled, is_shutdown,
                     publishers, writers, listening, changes, crashed>>

(* Fault: the writers are asked for before the listener is added. *)
JoinTheTopologyLate(t) ==
  JoinWriters(t, "listen", "writers") \/ JoinListen(t, "writers", "join") \/ JoinReader(t)

JoinTheTopology(t) ==
  JoinListen(t, "listen", "writers") \/ JoinWriters(t, "writers", "join") \/ JoinReader(t)

(* Subscriber::Shutdown of the subscribers in S: nothing for one that is   *)
(* not initialised.                                                        *)
ShutdownAll(S) ==
  /\ init' = init \ S
  /\ listening' = listening \ (init \cap S) /\ readers' = readers \ (init \cap S)
  /\ owner' = [r \in DOMAIN owner |->
                 IF \E s \in init \cap S : Name(s) = r THEN Nothing ELSE owner[r]]

Shutdown(n, c) ==
  /\ ~crashed /\ c \in subscribers[n]
  /\ ShutdownAll({<<n, c>>})
  /\ UNCHANGED <<nodeVars, receiver_map, enabled, is_shutdown, publishers, writers,
                 changes, call, crashed>>

(* ~Node: NodeChannelImpl leaves, then the subscribers are destroyed. *)
DestroyNode(n) ==
  /\ ~crashed /\ node[n] = "alive" /\ ~Locked(n)
  /\ node' = [node EXCEPT ![n] = "gone"]
  /\ joined_nodes' = joined_nodes \ {n}
  /\ ShutdownAll({n} \X subscribers[n])
  /\ subscribers' = [subscribers EXCEPT ![n] = {}]
  /\ UNCHANGED <<receiver_map, enabled, is_shutdown, publishers, writers, changes,
                 call, crashed>>

TransportShutdown ==
  /\ ~crashed /\ ~is_shutdown /\ is_shutdown' = TRUE
  /\ UNCHANGED <<nodeVars, init, owner, receiver_map, enabled, publishers, topoVars,
                 call, crashed>>

-----------------------------------------------------------------------------
(* The channel manager records writer w, then calls the change listeners   *)
(* it finds.  The changes of one writer come from one thread.              *)
Changed(c, w, joins) ==
  /\ \A x \in changes : x.writer # w
  /\ writers' = [writers EXCEPT ![c] = IF joins THEN @ \cup {w} ELSE @ \ {w}]
  /\ changes' = changes \cup {[channel |-> c, writer |-> w, joins |-> joins, to |-> listening]}
  /\ UNCHANGED <<readers, listening>>

(* Subscriber::OnChannelChange: only its own channel's writers. *)
OnChannelChange(x, s) ==
  /\ ~crashed /\ s \in x.to
  /\ changes' = (changes \ {x}) \cup {[x EXCEPT !.to = @ \ {s}]}
  /\ IF s[2] # x.channel \/ s \notin listening
     THEN UNCHANGED enabled
     ELSE enabled' = [enabled EXCEPT ![s[2]] = IF x.joins THEN @ \cup {x.writer}
                                                          ELSE @ \ {x.writer}]
  /\ UNCHANGED <<nodeVars, init, owner, receiver_map, is_shutdown, publishers, writers,
                 readers, listening, call, crashed>>

NotifyReturn(x) ==
  /\ x.to = {} /\ changes' = changes \ {x}
  /\ UNCHANGED <<nodeVars, init, owner, receiver_map, enabled, is_shutdown, publishers,
                 writers, readers, listening, call, crashed>>

RemoteChange(c, w, joins) ==
  /\ ~crashed /\ (w \in writers[c]) # joins
  /\ Changed(c, w, joins)
  /\ UNCHANGED <<nodeVars, init, owner, receiver_map, enabled, is_shutdown, publishers,
                 call, crashed>>

(* CreateTransmitter returns nothing after Shutdown. *)
CreateTransmitter(w) == ~is_shutdown /\ publishers' = publishers \cup {w}

CreatePublisher(n, c) ==
  /\ ~crashed /\ node[n] = "alive" /\ <<n, c>> \notin publishers
  /\ CreateTransmitter(<<n, c>>)
  /\ Changed(c, <<n, c>>, TRUE)
  /\ UNCHANGED <<nodeVars, init, owner, receiver_map, enabled, is_shutdown, call, crashed>>

(* Publisher::Shutdown. *)
DestroyPublisher(p) ==
  /\ ~crashed /\ p \in publishers
  /\ publishers' = publishers \ {p}
  /\ Changed(p[2], p, FALSE)
  /\ UNCHANGED <<nodeVars, init, owner, receiver_map, enabled, is_shutdown, call, crashed>>

ApiNext ==
  \/ \E n \in Nodes : CreateNode(n) \/ DestroyNode(n)
  \/ \E t \in Callers :
       \/ InitTask(t) \/ GetReceiver(t) \/ JoinTheTopology(t)
       \/ \E s \in Subs : CreateSubscriber(t, s[1], s[2])
  \/ \E s \in Subs : Shutdown(s[1], s[2]) \/ CreatePublisher(s[1], s[2])
  \/ \E p \in publishers : DestroyPublisher(p)
  \/ \E c \in Channels, w \in Remote, joins \in BOOLEAN : RemoteChange(c, w, joins)
  \/ \E x \in changes : NotifyReturn(x) \/ \E s \in Subs : OnChannelChange(x, s)
  \/ TransportShutdown

ApiSpec == ApiInit /\ [][ApiNext]_apiVars

-----------------------------------------------------------------------------
Creating == {call[t].sub : t \in Callers}

(***************************************************************************)
(* A subscriber that CreateSubscriber returned and nobody shut down has    *)
(* its own coroutine in the scheduler, whatever its namesakes do:          *)
(* RemoveTask goes by name, and the Init that lost the name resets init_.  *)
(***************************************************************************)
OwnsItsTask == \A s \in init \ Creating : owner[Name(s)] = s

(***************************************************************************)
(* The receiver of a subscriber in the topology is enabled for every       *)
(* writer the channel manager has and no change is being notified of,      *)
(* whichever of the two joined first: JoinTheTopology adds its change      *)
(* listener before it asks for the writers.                                *)
(***************************************************************************)
KnowsWriters ==
  \A s \in readers : \A w \in writers[s[2]] :
    w \in enabled[s[2]] \/ \E x \in changes : x.writer = w
=============================================================================
