---------------------------- MODULE ConnectionPool ----------------------------
(***************************************************************************)
(* The pool of gRPC channels to workspace pods: a slab of slots and an     *)
(* index from address to slot.  A caller that finds no channel connects    *)
(* outside every lock and inserts what it got, so callers of one address   *)
(* may connect at the same time.  Everything done under the index lock     *)
(* is one step; reading the clock there advances it.                       *)
(***************************************************************************)
EXTENDS Naturals

CONSTANTS
    Keys,      \* addresses of workspaces
    Callers,   \* tasks that want a channel
    Size,      \* DEFAULT_SLAB_SIZE
    MaxIdle,   \* max_idle
    MaxClock,  \* bound on time
    None       \* the absent value

ASSUME ConstantsAssumption ==
    /\ Size \in Nat \ {0} /\ MaxIdle \in Nat \ {0} /\ MaxClock \in Nat
    /\ None \notin Keys /\ None \notin Nat /\ None \notin [key : Keys, used : Nat]

Slots == 1 .. Size

VARIABLES
    entries,   \* PoolEntry of each slot
    index,     \* slot of each key
    callers,   \* what each caller wants, and the key of the channel it got
    clock

vars == <<entries, index, callers, clock>>

Entry  == [key : Keys, used : Nat]   \* key: the address the channel leads to
Caller == [pc : {"idle", "connecting", "served", "failed"}, key : Keys \cup {None},
           channel : Keys \cup {None}]
Resting == [pc |-> "idle", key |-> None, channel |-> None]

\* The type invariant.
TypeOK ==
    /\ entries \in [Slots -> Entry \cup {None}]
    /\ index \in [Keys -> Slots \cup {None}]
    /\ callers \in [Callers -> Caller]
    /\ clock \in Nat

Free    == {s \in Slots : entries[s] = None}
Indexed == {s \in Slots : \E k \in Keys : index[k] = s}

Pooled(k) == index[k] # None /\ entries[index[k]] # None

Without(s) == [k \in Keys |-> IF index[k] = s THEN None ELSE index[k]]

ClockRead == clock < MaxClock /\ clock' = clock + 1

\* The fast path of lend: a read lock on the index, a write lock on the entry.
LendPooled(c, k) ==
    /\ callers[c].pc = "idle"
    /\ Pooled(k)
    /\ ClockRead
    /\ entries' = [entries EXCEPT ![index[k]].used = clock]
    /\ callers' = [callers EXCEPT ![c] = [pc |-> "served", key |-> k,
                                          channel |-> entries[index[k]].key]]
    /\ UNCHANGED index

\* No channel: connect, with no lock held.
StartConnect(c, k) ==
    /\ callers[c].pc = "idle"
    /\ ~Pooled(k)
    /\ callers' = [callers EXCEPT ![c] = [pc |-> "connecting", key |-> k, channel |-> None]]
    /\ UNCHANGED <<entries, index, clock>>

ConnectFails(c) ==
    /\ callers[c].pc = "connecting"
    /\ callers' = [callers EXCEPT ![c].pc = "failed"]
    /\ UNCHANGED <<entries, index, clock>>

StoreKeepingEvicted(c, s, kept) ==
    /\ entries' = [entries EXCEPT ![s] = [key |-> callers[c].key, used |-> clock]]
    /\ index' = [index EXCEPT ![callers[c].key] = s]
    /\ callers' = [callers EXCEPT ![c].pc = "served", ![c].channel = callers[c].key]

StoreOffByOne(c, s, kept) ==
    /\ entries' = [entries EXCEPT ![s] = [key |-> callers[c].key, used |-> clock]]
    /\ index' = [kept EXCEPT ![callers[c].key] = s + 1]
    /\ callers' = [callers EXCEPT ![c].pc = "served", ![c].channel = callers[c].key]

\* The channel goes into the slot, and the index names it for the key; kept is the
\* index without what was evicted.
Store(c, s, kept) ==
    /\ entries' = [entries EXCEPT ![s] = [key |-> callers[c].key, used |-> clock]]
    /\ index' = [kept EXCEPT ![callers[c].key] = s]
    /\ callers' = [callers EXCEPT ![c].pc = "served", ![c].channel = callers[c].key]

InsertAnywhere(c) ==
    /\ callers[c].pc = "connecting"
    /\ ClockRead
    /\ \E s \in Slots : (\A t \in Slots : s <= t) /\ Store(c, s, Without(s))

\* find_free_slot: the first one.
InsertFree(c) ==
    /\ callers[c].pc = "connecting"
    /\ ClockRead
    /\ \E s \in Free : (\A t \in Free : s <= t) /\ Store(c, s, index)

\* evict_oldest: of the slots the index knows, the least recently used.
Oldest == {s \in Indexed : /\ entries[s] # None /\ entries[s].used < clock
                           /\ \A t \in Indexed : entries[t] # None => entries[s].used <= entries[t].used}
\* If there is none, the connection just made is dropped.
InsertEvicting(c) ==
    /\ callers[c].pc = "connecting" /\ Free = {}
    /\ ClockRead
    /\ IF Oldest # {} THEN \E s \in Oldest : Store(c, s, Without(s))
       ELSE /\ callers' = [callers EXCEPT ![c].pc = "failed"]
            /\ UNCHANGED <<entries, index>>

\* The guard is dropped.
Return(c) ==
    /\ callers[c].pc \in {"served", "failed"}
    /\ callers' = [callers EXCEPT ![c] = Resting]
    /\ UNCHANGED <<entries, index, clock>>

EvictIdleFromIndex ==
    /\ ClockRead
    /\ index' = [k \in Keys |-> IF Pooled(k) /\ clock - entries[index[k]].used >= MaxIdle
                                THEN None ELSE index[k]]
    /\ UNCHANGED <<entries, callers>>

\* evict_idle, which run_pool_evictor calls every five minutes.
EvictIdle ==
    /\ ClockRead
    /\ entries' = [s \in Slots |-> IF s \in Indexed /\ entries[s] # None /\ clock - entries[s].used >= MaxIdle
                                   THEN None ELSE entries[s]]
    /\ index' = [k \in Keys |-> IF index[k] # None /\ entries'[index[k]] = None THEN None ELSE index[k]]
    /\ UNCHANGED callers

Init ==
    /\ entries = [s \in Slots |-> None]
    /\ index = [k \in Keys |-> None]
    /\ callers = [c \in Callers |-> Resting]
    /\ clock = 0

Next ==
    \/ EvictIdle
    \/ \E c \in Callers :
        \/ \E k \in Keys : LendPooled(c, k) \/ StartConnect(c, k)
        \/ ConnectFails(c) \/ InsertFree(c) \/ InsertEvicting(c) \/ Return(c)

Spec == Init /\ [][Next]_vars

-------------------------------------------------------------------------------
(* Properties *)

\* Every slot the index names holds a channel to the address it is named for: no insert
\* that raced with another, and no eviction, leaves a key on a slot that was given to
\* a different address (lend, evict_oldest, evict_idle).
IndexSound == \A k \in Keys : index[k] # None => entries[index[k]] # None /\ entries[index[k]].key = k

\* A caller is served the channel of the address it asked for.
LentToItsKey == \A c \in Callers : callers[c].pc = "served" => callers[c].channel = callers[c].key

\* A connection that was made finds room.  Channels that the index lost, because two
\* callers connected to one address at a time, occupy their slots for good, but one
\* that can be evicted always remains: the last insert's, or the slot evict_idle freed.
RoomForEveryInsert == Free = {} => Oldest # {}

\* What makes room for an insert is the channel that was idle the longest among those
\* the index knows, and only if no slot is free.
EvictsOldest ==
    [][\A k \in Keys, c \in Callers :
         /\ index[k] # None /\ callers[c].pc = "connecting" /\ callers'[c].pc = "served"
         /\ entries'[index[k]] # entries[index[k]]
         => /\ Free = {}
            /\ \A m \in Keys : index[m] # None => entries[index[k]].used <= entries[index[m]].used]_vars

\* A channel is lost to the index in one way, for good: an insert for an address whose channel
\* another caller has inserted since takes its place there (lend checks once, before it
\* connects).
Lost(s) == entries[s] # None /\ s \notin Indexed
LostToRacesOnly ==
    [][\A s \in Slots : Lost(s)' # Lost(s) =>
         /\ Lost(s)'
         /\ \E c \in Callers : /\ callers[c].pc = "connecting" /\ callers'[c].pc = "served"
                               /\ index[callers[c].key] = s]_vars
===============================================================================
