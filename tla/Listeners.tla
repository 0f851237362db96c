----------------------------- MODULE Listeners -----------------------------
(***************************************************************************)
(* How a message reaches the receivers of one channel: Signal, Slot and    *)
(* Connection (base/signal_slot.h), ListenerHandler (transport/message/    *)
(* listener_handler.h), Dispatcher::AddListener and RemoveListener         *)
(* (transport/dispatcher/), and Enable and Disable of ShmReceiver and      *)
(* RtpsReceiver, which are the same code over their dispatchers.           *)
(*                                                                         *)
(* ReceiverManager gives the subscribers of a channel one receiver, so the *)
(* receiver's id is the only self_id.  Its listeners are keyed by writer,  *)
(* or by All for Enable() without an opposite, which                       *)
(* Transport::CreateReceiver calls before anyone else has the receiver and *)
(* whose Disable() is the receiver's destructor.  Enable and Disable for a *)
(* writer are called in the threads that create subscribers and in the     *)
(* thread of the discovery; one thread of the dispatcher runs the messages *)
(* (ShmDispatcher::ThreadFunc).                                            *)
(***************************************************************************)
EXTENDS Naturals, FiniteSets, FiniteSetsExt

CONSTANTS
  Callers,        \* threads that call Enable and Disable
  Writers,        \* ids of opposite writers
  All,            \* the key of signal_
  Foreign,        \* a sender hash that is no writer's id
  Nothing,        \* nullptr, no slot, no handler
  MaxEnables      \* bound on the calls of Enable, so on slots and handlers

VARIABLES
  current,        \* the handler msg_listeners_ has for the channel
  slots,          \* slots[h][k]: the slot list of handler h's signal for k
  conn,           \* conn[h][k]: the connection stored for k
  connected,      \* slots that are connected
  made,           \* how many slots and handlers have been made
  enabled,        \* the receiver's enabled_
  segment,        \* the channel is in the dispatcher's segments_ or readers_
  is_shutdown,    \* is_shutdown_
  call,           \* each caller: what it does, for which key and handler
  run,            \* the dispatcher's thread: phase, handler, sender, slots to
                  \* call and, as history, callbacks made and enabled throughout
  calling,        \* the slot whose callback it is in
  enables, off    \* history: Enables begun per key; its Disable has returned

listenVars == <<current, slots, conn, connected, made, enabled, segment,
                is_shutdown, call, run, calling, enables, off>>

Keyed == Writers \cup {All}
Ids == 1 .. MaxEnables
Idle == [does |-> "idle", key |-> All, handler |-> Nothing, slot |-> Nothing]

ListenInit ==
  /\ current = Nothing
  /\ slots = [h \in Ids |-> [k \in Keyed |-> {}]]
  /\ conn = [h \in Ids |-> [k \in Keyed |-> Nothing]]
  /\ connected = {} /\ made = [slots |-> 0, handlers |-> 0]
  /\ enabled = FALSE /\ segment = FALSE /\ is_shutdown = FALSE
  /\ call = [c \in Callers |-> Idle]
  /\ run = [phase |-> "idle", handler |-> Nothing, from |-> Foreign, todo |-> {},
             calls |-> 0, steady |-> FALSE]
  /\ calling = Nothing
  /\ enables = [k \in Keyed |-> 0] /\ off = [k \in Keyed |-> FALSE]

(* Nobody may write-lock a handler whose rw_lock_ the dispatcher's thread  *)
(* holds for reading.                                                      *)
CanWriteLock(h) == ~(run.phase = "own" /\ run.handler = h)

-----------------------------------------------------------------------------
(* Enable, up to msg_listeners_.Get in AddListener. *)
Enable(c, k) ==
  /\ call[c].does = "idle" /\ ~is_shutdown /\ ~off[All]
  /\ IF k = All THEN enables[All] = 0 ELSE enabled
  /\ made.slots + Cardinality({d \in Callers : call[d].does \in {"create", "connect"}})
       < MaxEnables
  /\ call' = [call EXCEPT ![c] = [Idle EXCEPT !.key = k, !.handler = current,
                !.does = IF current = Nothing THEN "create" ELSE "connect"]]
  /\ enables' = [enables EXCEPT ![k] = @ + 1]
  /\ off' = [off EXCEPT ![k] = FALSE]
  /\ UNCHANGED <<current, slots, conn, connected, made, enabled, segment,
                 is_shutdown, run, calling>>

(* msg_listeners_.Set, which replaces what another caller may have set. *)
AddListenerSet(c) ==
  /\ call[c].does = "create"
  /\ made' = [made EXCEPT !.handlers = @ + 1]
  /\ current' = made'.handlers
  /\ call' = [call EXCEPT ![c].does = "connect", ![c].handler = made'.handlers]
  /\ UNCHANGED <<slots, conn, connected, enabled, segment, is_shutdown, run,
                 calling, enables, off>>

(* Connect.  For a writer it holds the write lock throughout; signal_ is   *)
(* connected before the lock is taken to store the connection.             *)
Connect(c) ==
  LET h == call[c].handler
      k == call[c].key
      s == made.slots + 1
  IN  /\ call[c].does = "connect"
      /\ k # All => CanWriteLock(h)
      /\ made' = [made EXCEPT !.slots = s]
      /\ connected' = connected \cup {s}
      /\ slots' = [slots EXCEPT ![h][k] = @ \cup {s}]
      /\ IF k = All THEN UNCHANGED conn ELSE conn' = [conn EXCEPT ![h][k] = s]
      /\ call' = [call EXCEPT ![c].does = IF k = All THEN "store" ELSE "segment",
                              ![c].slot = s]
      /\ UNCHANGED <<current, enabled, segment, is_shutdown, run, calling,
                     enables, off>>

ConnectStore(c) ==
  LET h == call[c].handler
  IN  /\ call[c].does = "store" /\ CanWriteLock(h)
      /\ conn' = [conn EXCEPT ![h][All] = call[c].slot]
      /\ call' = [call EXCEPT ![c].does = "segment"]
      /\ UNCHANGED <<current, slots, connected, made, enabled, segment, is_shutdown,
                     run, calling, enables, off>>

(* AddSegment (AddReader of RTPS), under a lock the dispatcher's thread    *)
(* holds while it handles a message; and the end of Enable.                *)
AddSegment(c) ==
  /\ call[c].does = "segment" /\ run.phase = "idle"
  /\ segment' = TRUE
  /\ enabled' = (enabled \/ call[c].key = All)
  /\ call' = [call EXCEPT ![c] = Idle]
  /\ UNCHANGED <<current, slots, conn, connected, made, is_shutdown, run,
                 calling, enables, off>>

(* Disable, up to msg_listeners_.Get in RemoveListener. *)
Disable(c, k) ==
  /\ call[c].does = "idle" /\ enabled /\ current # Nothing
  /\ k = All => \A d \in Callers : call[d].does = "idle"
  /\ call' = [call EXCEPT ![c] = [Idle EXCEPT !.does = "disconnect", !.key = k,
                                                !.handler = current]]
  /\ UNCHANGED <<current, slots, conn, connected, made, enabled, segment,
                 is_shutdown, run, calling, enables, off>>

(* Fault: the slot stays connected. *)
DisconnectErasing(c) ==
  LET h == call[c].handler
      k == call[c].key
  IN  /\ call[c].does = "disconnect" /\ CanWriteLock(h)
      /\ conn' = [conn EXCEPT ![h][k] = Nothing]
      /\ enabled' = (enabled /\ k # All)
      /\ off' = [off EXCEPT ![k] = @ \/ conn[h][k] # Nothing]
      /\ run' = [run EXCEPT !.steady = @ /\ k # All]
      /\ call' = [call EXCEPT ![c] = Idle]
      /\ UNCHANGED <<current, slots, connected, made, segment, is_shutdown, calling, enables>>

(* Signal::DisConnect: the slot, and ClearDisconnectedSlots. *)
DisConnect(h, k, s) ==
  /\ connected' = connected \ {s}
  /\ slots' = [slots EXCEPT ![h][k] = @ \cap connected']

(* ListenerHandler::Disconnect; nothing if no connection is stored. *)
Disconnect(c) ==
  LET h == call[c].handler
      k == call[c].key
      s == conn[h][k]
  IN  /\ call[c].does = "disconnect" /\ CanWriteLock(h)
      /\ DisConnect(h, k, s)
      /\ conn' = [conn EXCEPT ![h][k] = Nothing]
      /\ enabled' = (enabled /\ k # All)
      /\ off' = [off EXCEPT ![k] = @ \/ s # Nothing]
      /\ run' = [run EXCEPT !.steady = @ /\ k # All]
      /\ call' = [call EXCEPT ![c] = Idle]
      /\ UNCHANGED <<current, made, segment, is_shutdown, calling, enables>>

-----------------------------------------------------------------------------

(* The hash of the sender that a message is dispatched with.               *)
(* ShmDispatcher::ReadMessage copies the id into a MessageInfo whose       *)
(* hash_value_ stays 0; ReaListener takes sample_identity, which FastRTPS  *)
(* fills in, where the transmitter has set related_sample_identity.        *)
SenderHash(w) == Foreign

(* OnMessage and Run for a message of writer w: copy the slots of signal_. *)
OnMessage(w) ==
  /\ run.phase = "idle" /\ segment /\ ~is_shutdown /\ current # Nothing
  /\ run' = [phase |-> "all", handler |-> current, from |-> SenderHash(w),
             todo |-> slots[current][All], calls |-> 0, steady |-> enabled]
  /\ UNCHANGED <<current, slots, conn, connected, made, enabled, segment,
                 is_shutdown, call, calling, enables, off>>

(* Slot::operator(): the next slot of the copy is called if connected_. *)
SlotCall ==
  /\ run.phase \in {"all", "own"} /\ calling = Nothing /\ run.todo # {}
  /\ LET s == Min(run.todo)
     IN  /\ run' = [run EXCEPT !.todo = @ \ {s},
                               !.calls = IF s \in connected THEN @ + 1 ELSE @]
         /\ calling' = IF s \in connected THEN s ELSE Nothing
  /\ UNCHANGED <<current, slots, conn, connected, made, enabled, segment,
                 is_shutdown, call, enables, off>>

SlotReturn ==
  /\ calling # Nothing /\ calling' = Nothing
  /\ UNCHANGED <<current, slots, conn, connected, made, enabled, segment,
                 is_shutdown, call, run, enables, off>>

(* ClearDisconnectedSlots, at the end of Signal::operator(). *)
SignalEnd ==
  LET k == IF run.phase = "all" THEN All ELSE run.from
  IN  /\ run.phase \in {"all", "own"} /\ calling = Nothing /\ run.todo = {}
      /\ slots' = [slots EXCEPT ![run.handler][k] = @ \cap connected]
      /\ run' = [run EXCEPT !.phase = IF @ = "all" THEN "lock" ELSE "idle"]
      /\ UNCHANGED <<current, conn, connected, made, enabled, segment, is_shutdown,
                     call, calling, enables, off>>

(* The read lock, and the signal of the sender if there is one. *)
RunLock ==
  /\ run.phase = "lock"
  /\ run' = IF run.from \in Writers
            THEN [run EXCEPT !.phase = "own", !.todo = slots[run.handler][run.from]]
            ELSE [run EXCEPT !.phase = "idle"]
  /\ UNCHANGED <<current, slots, conn, connected, made, enabled, segment,
                 is_shutdown, call, calling, enables, off>>

(* ShmDispatcher::Shutdown, up to the join of the thread. *)
Shutdown ==
  /\ ~is_shutdown /\ is_shutdown' = TRUE
  /\ UNCHANGED <<current, slots, conn, connected, made, enabled, segment, call,
                 run, calling, enables, off>>

ListenNext ==
  \/ \E c \in Callers :
       \/ \E k \in Keyed : Enable(c, k) \/ Disable(c, k)
       \/ AddListenerSet(c) \/ Connect(c) \/ ConnectStore(c) \/ AddSegment(c)
       \/ Disconnect(c)
  \/ \E w \in Writers : OnMessage(w)
  \/ SlotCall \/ SlotReturn \/ SignalEnd \/ RunLock \/ Shutdown

ListenSpec == ListenInit /\ [][ListenNext]_listenVars

-----------------------------------------------------------------------------
Returned(k) == \A c \in Callers : call[c].does # "idle" => call[c].key # k

(***************************************************************************)
(* A writer that was enabled once has exactly one connected listener when  *)
(* Enable has returned and none when Disable has (a second Enable for the  *)
(* same writer leaves its first slot behind).                              *)
(***************************************************************************)
ListenersExact ==
  \A w \in Writers :
    (enables[w] = 1 /\ Returned(w)) =>
      Cardinality(slots[current][w] \cap connected) = IF off[w] THEN 0 ELSE 1

(***************************************************************************)
(* A message handled while the receiver is enabled calls the receiver back *)
(* once, however often Subscriber::JoinTheTopology and OnChannelChange     *)
(* have enabled its writer: the receiver listens to signal_ and to the     *)
(* signal of each writer, both with the callback that dispatches to every  *)
(* subscriber, and Run fires both.  It holds because the sender's hash the *)
(* dispatchers compute is never the writer's id.                           *)
(***************************************************************************)
DeliversOnce == (run.phase = "idle" /\ run.steady) => run.calls = 1
=============================================================================
