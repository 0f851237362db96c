------------------------------ MODULE Blocker ------------------------------
(***************************************************************************)
(* blocker::Blocker and BlockerManager (blocker/), the in-process history  *)
(* of a channel that Subscriber keeps for Observe: two lists of messages   *)
(* under msg_mutex_, and callbacks that are called under cb_mutex_.  The   *)
(* manager's map has one blocker per channel, here the one of one channel. *)
(* Messages are numbered in the order in which they are enqueued.  A       *)
(* callback id has one user, who subscribes and unsubscribes it in turn.   *)
(* The manager looks its blocker up under blocker_mutex_ and calls it      *)
(* after the unlock: a Reset may come between.                             *)
(***************************************************************************)
EXTENDS Naturals, Sequences, FiniteSets, SequencesExt

CONSTANTS
  Publishers,        \* threads that publish
  CallbackIds,       \* ids given to Subscribe
  Capacities,        \* capacities given to Subscribe and set_capacity
  DefaultCapacity,   \* BlockerAttr's capacity when Publish creates the blocker
  MaxPublished,      \* bound on the messages of a blocker
  MaxBlockers        \* bound on the blockers created after Resets

VARIABLES
  manager,           \* the blocker in blockers_, 0 if there is none
  made,              \* how many blockers have been made
  resetting,         \* BlockerManager::Reset is between its two sections
  published, observed, capacity, callbacks,    \* the state of each blocker
  count,             \* history: messages enqueued in each blocker
  pub,               \* each publisher: step, blocker, callbacks it is calling
  user,              \* each id's user: step, blocker
  subscribed,        \* history: ids subscribed since they were unsubscribed or reset
  strayed            \* history: <<blocker, id>> subscribed after the blocker's Reset

blockerVars == <<manager, made, resetting, published, observed, capacity, callbacks,
                 count, pub, user, subscribed, strayed>>
userVars == <<user, subscribed, strayed>>

Blockers == 1 .. MaxBlockers
NotPublishing == [step |-> "idle", blocker |-> 0, calls |-> {}]
NotCalling == [step |-> "out", blocker |-> 0]

BlockerInit ==
  /\ manager = 0 /\ made = 0 /\ resetting = FALSE
  /\ published = [b \in Blockers |-> <<>>] /\ observed = [b \in Blockers |-> <<>>]
  /\ capacity = [b \in Blockers |-> 0] /\ callbacks = [b \in Blockers |-> {}]
  /\ count = [b \in Blockers |-> 0]
  /\ pub = [p \in Publishers |-> NotPublishing]
  /\ user = [id \in CallbackIds |-> NotCalling] /\ subscribed = {} /\ strayed = {}

(* cb_mutex_ of blocker b is held by a publisher that calls back. *)
CallbacksLocked(b) == \E p \in Publishers : pub[p].step = "notify" /\ pub[p].blocker = b

(* GetOrCreateBlocker: an existing blocker keeps its capacity. *)
GetOrCreateBlocker(cap) ==
  /\ ~resetting
  /\ \/ manager # 0 /\ UNCHANGED <<manager, made, capacity>>
     \/ /\ manager = 0 /\ made < MaxBlockers
        /\ made' = made + 1 /\ manager' = made'
        /\ capacity' = [capacity EXCEPT ![made'] = cap]

PublishGet(p) ==
  /\ pub[p].step = "idle"
  /\ GetOrCreateBlocker(DefaultCapacity)
  /\ pub' = [pub EXCEPT ![p].step = "enqueue", ![p].blocker = manager']
  /\ UNCHANGED <<resetting, published, observed, callbacks, count, userVars>>

(* Enqueue tests the capacity before it locks. *)
EnqueueTest(p) ==
  /\ pub[p].step = "enqueue"
  /\ pub' = [pub EXCEPT ![p].step = IF capacity[pub[p].blocker] = 0 THEN "queued" ELSE "push"]
  /\ UNCHANGED <<manager, made, resetting, published, observed, capacity, callbacks, count,
                 userVars>>

Trimmed(queue, cap) == SubSeq(queue, 1, IF Len(queue) < cap THEN Len(queue) ELSE cap)

EnqueuePush(p) ==
  LET b == pub[p].blocker
  IN  /\ pub[p].step = "push" /\ count[b] < MaxPublished
      /\ count' = [count EXCEPT ![b] = @ + 1]
      /\ published' = [published EXCEPT ![b] = Trimmed(<<count'[b]>> \o @, capacity[b])]
      /\ pub' = [pub EXCEPT ![p].step = "queued"]
      /\ UNCHANGED <<manager, made, resetting, observed, capacity, callbacks, userVars>>

Notify(p) ==
  /\ pub[p].step = "queued" /\ ~CallbacksLocked(pub[p].blocker)
  /\ pub' = [pub EXCEPT ![p].step = "notify", ![p].calls = callbacks[pub[p].blocker]]
  /\ UNCHANGED <<manager, made, resetting, published, observed, capacity, callbacks, count,
                 userVars>>

NotifyEnd(p) ==
  /\ pub[p].step = "notify"
  /\ pub' = [pub EXCEPT ![p] = NotPublishing]
  /\ UNCHANGED <<manager, made, resetting, published, observed, capacity, callbacks, count,
                 userVars>>

-----------------------------------------------------------------------------
SubscribeGet(id, cap) ==
  /\ user[id].step = "out"
  /\ GetOrCreateBlocker(cap)
  /\ user' = [user EXCEPT ![id] = [step |-> "subscribe", blocker |-> manager']]
  /\ UNCHANGED <<resetting, published, observed, callbacks, count, pub, subscribed, strayed>>

(* An id that is there stays, and false is returned. *)
Subscribe(id) ==
  LET b == user[id].blocker
  IN  /\ user[id].step = "subscribe" /\ ~CallbacksLocked(b)
      /\ callbacks' = [callbacks EXCEPT ![b] = @ \cup {id}]
      /\ user' = [user EXCEPT ![id] = NotCalling]
      /\ subscribed' = subscribed \cup {id}
      /\ strayed' = strayed \cup (IF b = manager THEN {} ELSE {<<b, id>>})
      /\ UNCHANGED <<manager, made, resetting, published, observed, capacity, count, pub>>

(* Unsubscribe returns at once if GetBlocker finds none. *)
UnsubscribeGet(id) ==
  /\ user[id].step = "out" /\ ~resetting
  /\ \/ /\ manager = 0 /\ subscribed' = subscribed \ {id}
        /\ UNCHANGED user
     \/ /\ manager # 0 /\ UNCHANGED subscribed
        /\ user' = [user EXCEPT ![id] = [step |-> "unsubscribe", blocker |-> manager]]
  /\ UNCHANGED <<manager, made, resetting, published, observed, capacity, callbacks, count, pub,
                 strayed>>

Unsubscribed(id) ==
  /\ user[id].step = "unsubscribe"
  /\ callbacks' = [callbacks EXCEPT ![user[id].blocker] = @ \ {id}]
  /\ user' = [user EXCEPT ![id] = NotCalling]
  /\ subscribed' = subscribed \ {id}
  /\ UNCHANGED <<manager, made, resetting, published, observed, capacity, count, pub, strayed>>

(* Fault: the callbacks' mutex is not taken. *)
UnsubscribeUnlocked(id) == Unsubscribed(id)

Unsubscribe(id) == ~CallbacksLocked(user[id].blocker) /\ Unsubscribed(id)

Observe(b) ==
  /\ observed' = [observed EXCEPT ![b] = published[b]]
  /\ UNCHANGED <<manager, made, resetting, published, capacity, callbacks, count, pub,
                 userVars>>

(* Subscriber::ClearData calls both; they are locked one by one. *)
ClearPublished(b) ==
  /\ published' = [published EXCEPT ![b] = <<>>]
  /\ UNCHANGED <<manager, made, resetting, observed, capacity, callbacks, count, pub, userVars>>

ClearObserved(b) ==
  /\ observed' = [observed EXCEPT ![b] = <<>>]
  /\ UNCHANGED <<manager, made, resetting, published, capacity, callbacks, count, pub, userVars>>

set_capacity(b, cap) ==
  /\ capacity' = [capacity EXCEPT ![b] = cap]
  /\ published' = [published EXCEPT ![b] = Trimmed(@, cap)]
  /\ UNCHANGED <<manager, made, resetting, observed, callbacks, count, pub, userVars>>

(* BlockerManager::Reset, which keeps the manager's mutex throughout: the  *)
(* lists of the blocker, then its callbacks and the map.                   *)
ResetLists ==
  /\ manager # 0 /\ ~resetting /\ resetting' = TRUE
  /\ published' = [published EXCEPT ![manager] = <<>>]
  /\ observed' = [observed EXCEPT ![manager] = <<>>]
  /\ UNCHANGED <<manager, made, capacity, callbacks, count, pub, userVars>>

ResetCallbacks ==
  /\ resetting /\ ~CallbacksLocked(manager)
  /\ callbacks' = [callbacks EXCEPT ![manager] = {}]
  /\ manager' = 0 /\ resetting' = FALSE /\ subscribed' = {}
  /\ UNCHANGED <<made, published, observed, capacity, count, pub, user, strayed>>

BlockerNext ==
  \/ \E p \in Publishers :
       PublishGet(p) \/ EnqueueTest(p) \/ EnqueuePush(p) \/ Notify(p) \/ NotifyEnd(p)
  \/ \E id \in CallbackIds :
       \/ Subscribe(id) \/ UnsubscribeGet(id) \/ Unsubscribe(id)
       \/ \E cap \in Capacities : SubscribeGet(id, cap)
  \/ \E b \in 1 .. made :
       \/ Observe(b) \/ ClearPublished(b) \/ ClearObserved(b)
       \/ \E cap \in Capacities : set_capacity(b, cap)
  \/ ResetLists \/ ResetCallbacks

BlockerSpec == BlockerInit /\ [][BlockerNext]_blockerVars

-----------------------------------------------------------------------------
(* GetLatestPublishedPtr and GetLatestObservedPtr: 0 for the null pointer. *)
GetLatestPublishedPtr(b) == IF published[b] = <<>> THEN 0 ELSE Head(published[b])
GetLatestObservedPtr(b) == IF observed[b] = <<>> THEN 0 ELSE Head(observed[b])

(* Consecutive messages, newest first. *)
Run(queue) == \A i \in 1 .. Len(queue) - 1 : queue[i] = queue[i + 1] + 1

(***************************************************************************)
(* The history has no holes: whatever publishers, clearings, resets and    *)
(* changes of the capacity interleave, what is published is a run of       *)
(* messages down from the newest, no longer than the capacity, and what    *)
(* was observed is such a run of an earlier moment.                        *)
(***************************************************************************)
HistoryUnbroken ==
  \A b \in Blockers :
    /\ Run(published[b]) /\ Len(published[b]) <= capacity[b]
    /\ published[b] # <<>> => GetLatestPublishedPtr(b) = count[b]
    /\ Run(observed[b])
    /\ observed[b] # <<>> => GetLatestObservedPtr(b) <= count[b]

(***************************************************************************)
(* Once its Unsubscribe or a Reset has returned, and until it is           *)
(* subscribed again, a callback is not running and no blocker will call    *)
(* it, whatever publishers hold of blockers that Resets took out of the    *)
(* map.  The exception is a Subscribe that looked its blocker up before a  *)
(* Reset and registered after it: that blocker keeps the callback, no      *)
(* Unsubscribe finds it, and publishers that hold the blocker call it      *)
(* (blocker_manager.h:90-94).                                              *)
(***************************************************************************)
UnsubscribedIsQuiet ==
  \A b \in Blockers, id \in CallbackIds \ subscribed :
    \/ <<b, id>> \in strayed
    \/ /\ id \notin callbacks[b]
       /\ \A p \in Publishers : pub[p].step = "notify" /\ pub[p].blocker = b => id \notin pub[p].calls
=============================================================================
