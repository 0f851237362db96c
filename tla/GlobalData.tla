----------------------------- MODULE GlobalData -----------------------------
(***************************************************************************)
(* The registries of common::GlobalData (common/global_data.cpp), from     *)
(* names of channels, nodes and tasks to ids, over base::AtomicHashMap.    *)
(* RegisterChannel, RegisterNode and RegisterTaskName are the same code.   *)
(* They are called when publishers, subscribers and tasks are created, and *)
(* for every query of the discovery by name (ChannelManager::HasReader and *)
(* the like), in any thread; GetChannelById is called for log messages.    *)
(*                                                                         *)
(* One bucket of the map (base/atomic_hash_map.h) is a list of entries     *)
(* sorted by key, in which entries are inserted and their values replaced  *)
(* by compare-and-exchange and never removed.  Every atomic load and       *)
(* exchange is a step.  The three overloads of Insert differ in how they   *)
(* construct V, and Has and both Gets in what they do with the value.      *)
(***************************************************************************)
EXTENDS Naturals, FiniteSets

CONSTANTS
  Threads,
  Keys,            \* keys of one bucket, numbers
  NoEntry,         \* nullptr, for entries and values
  MaxEntries,      \* bound on the entries allocated
  MaxValues,       \* bound on the values allocated
  Hash,            \* Hash of each name; the names are its domain
  MaxRegistryCalls \* bound on the calls of a thread

VARIABLES
  entry,           \* each entry: key, value_ptr, next; or NoEntry; 0 is head_
  value,           \* the value at each address: its content, "deleted" or NoEntry
  at,              \* where each thread is in a call
  key, arg,        \* arguments of its call
  prev, target,    \* its locals, set by Find
  new_entry, new_value, old_val_ptr,
  found,           \* what its latest Has or Get returned
  ptr,             \* the pointer Get gave it
  doing,           \* the step of RegisterChannel or GetChannelById a thread is at
  name,            \* the argument of its RegisterChannel
  id,              \* its local id
  calls            \* how many calls each thread has made

mapVars == <<entry, value, at, key, arg, prev, target, new_entry, new_value,
             old_val_ptr, found, ptr>>
local == <<key, arg, found, ptr>>

EntryIds == 0 .. MaxEntries
ValueIds == 1 .. MaxValues

MapInit ==
  /\ entry = [e \in EntryIds |-> IF e = 0 THEN [key |-> 0, value_ptr |-> NoEntry, next |-> NoEntry]
                                 ELSE NoEntry]
  /\ value = [v \in ValueIds |-> NoEntry]
  /\ at = [t \in Threads |-> "idle"]
  /\ key = [t \in Threads |-> 0] /\ arg = [t \in Threads |-> NoEntry]
  /\ prev = [t \in Threads |-> 0] /\ target = [t \in Threads |-> NoEntry]
  /\ new_entry = [t \in Threads |-> NoEntry] /\ new_value = [t \in Threads |-> NoEntry]
  /\ old_val_ptr = [t \in Threads |-> NoEntry]
  /\ found = [t \in Threads |-> FALSE] /\ ptr = [t \in Threads |-> NoEntry]

(* new: an address that is not in use (the bounds leave some). *)
FreshEntries == {e \in EntryIds : entry[e] = NoEntry}
FreshValues == {v \in ValueIds : value[v] = NoEntry}
FreshEntry == CHOOSE e \in FreshEntries : TRUE
FreshValue == CHOOSE v \in FreshValues : TRUE

(* Find begins, or begins again after a failed exchange. *)
StartFind(t) ==
  /\ prev' = [prev EXCEPT ![t] = 0]
  /\ target' = [target EXCEPT ![t] = entry[0].next]

CallGet(t, k) ==
  /\ at[t] = "idle" /\ at' = [at EXCEPT ![t] = "get"]
  /\ key' = [key EXCEPT ![t] = k]
  /\ StartFind(t)
  /\ UNCHANGED <<entry, value, arg, new_entry, new_value, old_val_ptr, found, ptr>>

CallSet(t, k, v) ==
  /\ at[t] = "idle" /\ at' = [at EXCEPT ![t] = "set"]
  /\ key' = [key EXCEPT ![t] = k] /\ arg' = [arg EXCEPT ![t] = v]
  /\ new_entry' = [new_entry EXCEPT ![t] = NoEntry]
  /\ new_value' = [new_value EXCEPT ![t] = NoEntry]
  /\ StartFind(t)
  /\ UNCHANGED <<entry, value, old_val_ptr, found, ptr>>

(* The loop of Find passes the smaller keys. *)
Find(t) ==
  /\ at[t] \in {"get", "set"}
  /\ target[t] # NoEntry /\ entry[target[t]].key < key[t]
  /\ prev' = [prev EXCEPT ![t] = target[t]]
  /\ target' = [target EXCEPT ![t] = entry[target[t]].next]
  /\ UNCHANGED <<entry, value, at, new_entry, new_value, old_val_ptr, local>>

FindTrue(t) == target[t] # NoEntry /\ entry[target[t]].key = key[t]
FindFalse(t) == IF target[t] = NoEntry THEN TRUE ELSE entry[target[t]].key > key[t]

(* Has and Get return; the caller of Get goes on with the pointer. *)
Get(t) ==
  /\ at[t] = "get" /\ at' = [at EXCEPT ![t] = "idle"]
  /\ \/ /\ FindTrue(t)
        /\ ptr' = [ptr EXCEPT ![t] = entry[target[t]].value_ptr]
        /\ found' = [found EXCEPT ![t] = TRUE]
     \/ /\ FindFalse(t)
        /\ found' = [found EXCEPT ![t] = FALSE]
        /\ UNCHANGED ptr
  /\ UNCHANGED <<entry, value, key, arg, prev, target, new_entry, new_value, old_val_ptr>>

(* The key is there: a new value, unless an earlier round made one, and    *)
(* the pointer it is to replace.                                           *)
InsertFound(t) ==
  /\ at[t] = "set" /\ FindTrue(t)
  /\ at' = [at EXCEPT ![t] = "update"]
  /\ IF new_value[t] # NoEntry THEN UNCHANGED <<value, new_value>>
     ELSE /\ FreshValues # {}
          /\ value' = [value EXCEPT ![FreshValue] = arg[t]]
          /\ new_value' = [new_value EXCEPT ![t] = FreshValue]
  /\ old_val_ptr' = [old_val_ptr EXCEPT ![t] = entry[target[t]].value_ptr]
  /\ UNCHANGED <<entry, prev, target, new_entry, local>>

(* value_ptr is exchanged and the old value deleted, with the entry an     *)
(* earlier round made in vain; or another Set was faster.                  *)
InsertUpdate(t) ==
  /\ at[t] = "update"
  /\ \/ /\ entry[target[t]].value_ptr = old_val_ptr[t]
        /\ LET vain == new_entry[t]
               dead == {old_val_ptr[t]}
                         \cup (IF vain = NoEntry THEN {} ELSE {entry[vain].value_ptr})
           IN  /\ entry' = [e \in EntryIds |->
                              IF e = target[t] THEN [entry[e] EXCEPT !.value_ptr = new_value[t]]
                              ELSE IF e = vain THEN NoEntry ELSE entry[e]]
               /\ value' = [v \in ValueIds |-> IF v \in dead THEN "deleted" ELSE value[v]]
        /\ at' = [at EXCEPT ![t] = "idle"]
        /\ UNCHANGED <<prev, target>>
     \/ /\ entry[target[t]].value_ptr # old_val_ptr[t]
        /\ at' = [at EXCEPT ![t] = "set"]
        /\ StartFind(t)
        /\ UNCHANGED <<entry, value>>
  /\ UNCHANGED <<new_entry, new_value, old_val_ptr, local>>

(* The key is not there: a new entry, unless an earlier round made one. *)
InsertMissing(t) ==
  /\ at[t] = "set" /\ FindFalse(t)
  /\ at' = [at EXCEPT ![t] = "link"]
  /\ IF new_entry[t] # NoEntry
       THEN /\ entry' = [entry EXCEPT ![new_entry[t]].next = target[t]]
            /\ UNCHANGED <<value, new_entry>>
       ELSE /\ FreshEntries # {} /\ FreshValues # {}
            /\ entry' = [entry EXCEPT ![FreshEntry] =
                           [key |-> key[t], value_ptr |-> FreshValue, next |-> target[t]]]
            /\ value' = [value EXCEPT ![FreshValue] = arg[t]]
            /\ new_entry' = [new_entry EXCEPT ![t] = FreshEntry]
  /\ UNCHANGED <<prev, target, new_value, old_val_ptr, local>>

(* Fault: prev->next is stored. *)
InsertLinkByStore(t) ==
  /\ at[t] = "link"
  /\ entry' = [entry EXCEPT ![prev[t]].next = new_entry[t]]
  /\ at' = [at EXCEPT ![t] = "idle"]
  /\ UNCHANGED <<value, prev, target, new_entry, new_value, old_val_ptr, local>>

(* prev->next is exchanged, or another insertion was faster.  (A value     *)
(* made in an earlier round would be deleted, but no entry ever leaves, so *)
(* that FindTrue is not followed by FindFalse.)                            *)
InsertLink(t) ==
  /\ at[t] = "link"
  /\ \/ /\ entry[prev[t]].next = target[t]
        /\ entry' = [entry EXCEPT ![prev[t]].next = new_entry[t]]
        /\ at' = [at EXCEPT ![t] = "idle"]
        /\ UNCHANGED <<prev, target>>
     \/ /\ entry[prev[t]].next # target[t]
        /\ at' = [at EXCEPT ![t] = "set"]
        /\ StartFind(t)
        /\ UNCHANGED entry
  /\ UNCHANGED <<value, new_entry, new_value, old_val_ptr, local>>

MapStep(t) ==
  \/ Find(t) \/ Get(t) \/ InsertFound(t) \/ InsertUpdate(t)
  \/ InsertMissing(t) \/ InsertLink(t)


-----------------------------------------------------------------------------
(* RegisterChannel and GetChannelById. *)

registryVars == <<mapVars, doing, name, id, calls>>

Names == DOMAIN Hash

RegistryInit ==
  /\ MapInit
  /\ doing = [t \in Threads |-> "idle"]
  /\ name = [t \in Threads |-> NoEntry]
  /\ id = [t \in Threads |-> 0]
  /\ calls = [t \in Threads |-> 0]

Begin(t, what, n, i) ==
  /\ doing[t] = "idle" /\ calls[t] < MaxRegistryCalls
  /\ doing' = [doing EXCEPT ![t] = what]
  /\ calls' = [calls EXCEPT ![t] = @ + 1]
  /\ name' = [name EXCEPT ![t] = n]
  /\ id' = [id EXCEPT ![t] = i]
  /\ CallGet(t, i)

(* auto id = Hash(channel); while(channel_id_map_.Has(id)) ... *)
RegisterChannel(t, n) == Begin(t, "has", n, Hash[n])

(* if(channel_id_map_.Get(id, &channel)) return *channel; *)
GetChannelById(t, k) == Begin(t, "lookup", NoEntry, k)

(* Has returned: Get the name that has the id, or take the id. *)
RegisterHas(t) ==
  /\ doing[t] = "has" /\ at[t] = "idle"
  /\ \/ found[t] /\ doing' = [doing EXCEPT ![t] = "get"] /\ CallGet(t, id[t])
     \/ ~found[t] /\ doing' = [doing EXCEPT ![t] = "set"] /\ CallSet(t, id[t], name[t])
  /\ UNCHANGED <<name, id, calls>>

(* Get returned its pointer: if(channel == *name) break; ++id;  A string    *)
(* that has been deleted meanwhile may compare either way.                 *)
RegisterCompare(t) ==
  /\ doing[t] = "get" /\ at[t] = "idle"
  /\ \/ /\ value[ptr[t]] \in {name[t], "deleted"}
        /\ doing' = [doing EXCEPT ![t] = "set"]
        /\ CallSet(t, id[t], name[t])
        /\ UNCHANGED id
     \/ /\ value[ptr[t]] # name[t]
        /\ doing' = [doing EXCEPT ![t] = "has"]
        /\ id' = [id EXCEPT ![t] = @ + 1]
        /\ CallGet(t, id'[t])
  /\ UNCHANGED <<name, calls>>

(* Set returned, and so does RegisterChannel. *)
RegisterReturn(t) ==
  /\ doing[t] = "set" /\ at[t] = "idle"
  /\ doing' = [doing EXCEPT ![t] = "idle"]
  /\ UNCHANGED <<name, id, calls, mapVars>>

(* Get returned: the string is copied if there is one. *)
LookupCopy(t) ==
  /\ doing[t] = "lookup" /\ at[t] = "idle"
  /\ doing' = [doing EXCEPT ![t] = "idle"]
  /\ UNCHANGED <<name, id, calls, mapVars>>

RegistryNext ==
  \E t \in Threads :
    \/ \E n \in Names : RegisterChannel(t, n)
    \/ \E k \in Keys : GetChannelById(t, k)
    \/ RegisterHas(t) \/ RegisterCompare(t) \/ RegisterReturn(t) \/ LookupCopy(t)
    \/ MapStep(t) /\ UNCHANGED <<doing, name, id, calls>>

RegistrySpec == RegistryInit /\ [][RegistryNext]_registryVars

-----------------------------------------------------------------------------
Entries == {e \in EntryIds : entry[e] # NoEntry}

(* The entries met from head_ along next: those in every set that holds    *)
(* head_ and the entry after each of its own.                              *)
Closed(X) == 0 \in X /\ \A e \in X : entry[e].next \in X \cup {NoEntry}
Linked == {e \in Entries \ {0} : \A X \in SUBSET Entries : Closed(X) => e \in X}
Allocated == {v \in ValueIds : value[v] \notin {NoEntry, "deleted"}}

(***************************************************************************)
(* Racing calls of Set lose and duplicate nothing: the bucket stays sorted *)
(* with one entry per key, every entry's value is alive, and when no call  *)
(* is under way nothing else is allocated.                                 *)
(***************************************************************************)
BucketSound ==
  /\ \A e \in Linked : entry[e].next # NoEntry =>
       entry[e].key < entry[entry[e].next].key
  /\ \A e \in Linked : entry[e].value_ptr \in Allocated
  /\ (\A t \in Threads : at[t] = "idle") =>
       /\ Entries = Linked \cup {0}
       /\ Allocated = {entry[e].value_ptr : e \in Linked}

(* The thread is about to read the string behind the pointer Get gave it. *)
Dereferences(t) ==
  at[t] = "idle" /\ (doing[t] = "get" \/ (doing[t] = "lookup" /\ found[t]))

(***************************************************************************)
(* What doc/base_components.md says of the registries: no update races     *)
(* with a lookup, so that the strings behind Get's pointers are not        *)
(* deleted before they are read.                                           *)
(***************************************************************************)
LookupsAreSafe ==
  \A t \in Threads : Dereferences(t) => value[ptr[t]] # "deleted"
=============================================================================
