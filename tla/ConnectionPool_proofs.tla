------------------------ MODULE ConnectionPool_proofs ------------------------
(***************************************************************************)
(* Proofs about ConnectionPool, for any size of the slab and any number of *)
(* callers that connect at the same time.                                  *)
(*                                                                         *)
(* The invariant adds two facts to the properties: every entry was used    *)
(* before now, so that any of them may be the oldest; and a full slab has  *)
(* an indexed slot, since the last insert's stays indexed until evict_idle *)
(* frees it.                                                               *)
(***************************************************************************)
EXTENDS ConnectionPool, WellFoundedInduction, TLAPS

UsedBefore == \A s \in Slots : entries[s] # None => entries[s].used < clock
FullIsIndexed == Free = {} => Indexed # {}
Wanted == \A c \in Callers : callers[c].pc = "connecting" => callers[c].key \in Keys

Inv == TypeOK /\ Wanted /\ UsedBefore /\ IndexSound /\ LentToItsKey /\ FullIsIndexed

\* A set of numbers that is not empty has a least one.
LEMMA Least ==
    ASSUME NEW S \in SUBSET Nat, S # {}
    PROVE  \E n \in S : \A m \in S : n <= m
<1> DEFINE R == OpToRel(<, Nat)
<1>1. PICK n \in S : \A m \in S : ~(<<m, n>> \in R)
  BY NatLessThanWellFounded, WFMin
<1>2. \A m \in S : ~(m < n)
  <2> TAKE m \in S
  <2>1. m \in Nat /\ n \in Nat
    OBVIOUS
  <2>2. m < n => <<m, n>> \in R
    BY <2>1 DEF OpToRel
  <2> QED
    BY <1>1, <2>2
<1>3. \A m \in S : n <= m
  BY <1>2
<1> QED
  BY <1>3

\* One of the indexed channels is the oldest, which evict_oldest finds.
LEMMA OldestExists == ASSUME Inv, Indexed # {} PROVE Oldest # {}
<1> DEFINE Times == {entries[s].used : s \in Indexed}
<1>1. \A s \in Indexed : s \in Slots /\ entries[s] # None /\ entries[s].used \in Nat /\ entries[s].used < clock
  BY ConstantsAssumption DEF Indexed, Inv, IndexSound, UsedBefore, TypeOK, Entry, Slots
<1>2. Times \in SUBSET Nat /\ Times # {}
  BY <1>1
<1>3. PICK n \in Times : \A m \in Times : n <= m
  BY <1>2, Least
<1>4. PICK s \in Indexed : entries[s].used = n
  OBVIOUS
<1>5. s \in Oldest
  BY <1>1, <1>3, <1>4 DEF Oldest
<1> QED
  BY <1>5

LEMMA InitInv == Init => Inv
<1> SUFFICES ASSUME Init PROVE Inv
  OBVIOUS
<1>1. 1 \in Slots
  BY ConstantsAssumption DEF Slots
<1>2. 1 \in Free
  BY <1>1 DEF Init, Free
<1> QED
  BY <1>2 DEF Init, Inv, TypeOK, Wanted, UsedBefore, IndexSound, LentToItsKey, FullIsIndexed,
              Resting, Caller

\* An insert: into a slot that the kept part of the index does not name.
LEMMA StorePreservesInv ==
    ASSUME Inv, NEW c \in Callers, callers[c].pc = "connecting", NEW s \in Slots,
           NEW kept \in [Keys -> Slots \cup {None}],
           \A k \in Keys : kept[k] # None => kept[k] # s /\ kept[k] = index[k],
           Store(c, s, kept), clock' = clock + 1
    PROVE  Inv'
<1> DEFINE key == callers[c].key
<1>1. key \in Keys
  BY DEF Inv, Wanted
<1>2. TypeOK'
  <2>1. entries' \in [Slots -> Entry \cup {None}]
    BY <1>1 DEF Inv, TypeOK, Store, Entry
  <2>2. index' \in [Keys -> Slots \cup {None}]
    BY <1>1 DEF Store
  <2>3. callers' \in [Callers -> Caller]
    BY <1>1, ZenonT(30) DEF Inv, TypeOK, Store, Caller
  <2>4. clock' \in Nat
    BY DEF Inv, TypeOK
  <2> QED
    BY <2>1, <2>2, <2>3, <2>4 DEF TypeOK
<1>3. entries'[s] = [key |-> key, used |-> clock] /\ \A t \in Slots : t # s => entries'[t] = entries[t]
  BY DEF Store, Inv, TypeOK
<1>4. index'[key] = s /\ \A k \in Keys : k # key => index'[k] = kept[k]
  BY <1>1 DEF Store
<1>5. [key |-> key, used |-> clock] # None
  <2>1. [key |-> key, used |-> clock] \in [key : Keys, used : Nat]
    BY <1>1 DEF Inv, TypeOK
  <2> QED
    BY <2>1, ConstantsAssumption
<1>6. Wanted' /\ LentToItsKey'
  BY DEF Inv, TypeOK, Wanted, LentToItsKey, Store, Caller
<1>7. UsedBefore'
  BY <1>3 DEF Inv, TypeOK, UsedBefore, Entry
<1>8. IndexSound'
  <2> SUFFICES ASSUME NEW k \in Keys, index'[k] # None
               PROVE  entries'[index'[k]] # None /\ entries'[index'[k]].key = k
    BY DEF IndexSound
  <2>1. CASE k = key
    BY <2>1, <1>3, <1>4, <1>5
  <2>2. CASE k # key
    BY <2>2, <1>3, <1>4 DEF Inv, IndexSound
  <2> QED
    BY <2>1, <2>2
<1>9. FullIsIndexed'
  <2>1. s \in Indexed'
    BY <1>1, <1>4 DEF Indexed
  <2> QED
    BY <2>1 DEF FullIsIndexed
<1> QED
  BY <1>2, <1>6, <1>7, <1>8, <1>9 DEF Inv

\* The steps of a caller that leave the slab alone.
LEMMA CallerPreservesInv ==
    ASSUME Inv, NEW c \in Callers,
           (\E k \in Keys : StartConnect(c, k)) \/ ConnectFails(c) \/ Return(c)
    PROVE  Inv'
<1>1. UNCHANGED <<entries, index, clock>>
  BY DEF StartConnect, ConnectFails, Return
<1>2. callers' \in [Callers -> Caller] /\ Wanted' /\ LentToItsKey'
  BY SMTT(30) DEF Inv, TypeOK, Wanted, LentToItsKey, StartConnect, ConnectFails, Return, Caller, Resting
<1> QED
  BY <1>1, <1>2 DEF Inv, TypeOK, UsedBefore, IndexSound, FullIsIndexed, Free, Indexed

LEMMA LendPreservesInv ==
    ASSUME Inv, NEW c \in Callers, NEW k \in Keys, LendPooled(c, k)
    PROVE  Inv'
<1> DEFINE s == index[k]
<1>1. /\ s \in Slots /\ entries[s] \in Entry /\ entries[s].key = k
      /\ entries' = [entries EXCEPT ![s].used = clock] /\ index' = index /\ clock' = clock + 1
  BY DEF LendPooled, Pooled, ClockRead, Inv, TypeOK, IndexSound
<1>2. entries'[s] = [key |-> k, used |-> clock] /\ \A t \in Slots : t # s => entries'[t] = entries[t]
  BY <1>1 DEF Inv, TypeOK, Entry
<1>3. entries'[s] \in Entry /\ entries'[s] # None
  <2>1. entries'[s] \in [key : Keys, used : Nat]
    BY <1>2 DEF Inv, TypeOK
  <2> QED
    BY <2>1, ConstantsAssumption DEF Entry
<1>4. entries' \in [Slots -> Entry \cup {None}]
  BY <1>1, <1>3 DEF Inv, TypeOK
<1>5. callers' \in [Callers -> Caller] /\ Wanted' /\ LentToItsKey'
  BY <1>1 DEF Inv, TypeOK, Wanted, LentToItsKey, LendPooled, Caller
<1>6. TypeOK'
  BY <1>1, <1>4, <1>5 DEF Inv, TypeOK
<1>7. UsedBefore'
  BY <1>1, <1>2 DEF Inv, TypeOK, UsedBefore, Entry
<1>8. IndexSound'
  BY <1>1, <1>2, <1>3 DEF Inv, TypeOK, IndexSound
<1>9. FullIsIndexed'
  BY <1>1, <1>2, <1>3 DEF Inv, FullIsIndexed, Free, Indexed, LendPooled, Pooled
<1> QED
  BY <1>5, <1>6, <1>7, <1>8, <1>9 DEF Inv

LEMMA InsertPreservesInv ==
    ASSUME Inv, NEW c \in Callers, InsertFree(c) \/ InsertEvicting(c)
    PROVE  Inv'
<1>1. CASE InsertFree(c)
  <2>1. PICK s \in Free : Store(c, s, index)
    BY <1>1 DEF InsertFree
  <2>2. s \in Slots /\ \A k \in Keys : index[k] # None => index[k] # s
    BY <2>1 DEF Free, Inv, IndexSound
  <2> QED
    BY <1>1, <2>1, <2>2, StorePreservesInv DEF InsertFree, ClockRead, Inv, TypeOK
<1>2. CASE InsertEvicting(c)
  <2>1. Oldest # {}
    BY <1>2, OldestExists DEF InsertEvicting, Inv, FullIsIndexed
  <2>2. PICK s \in Oldest : Store(c, s, Without(s))
    BY <1>2, <2>1 DEF InsertEvicting
  <2>3. s \in Slots
    BY <2>2 DEF Oldest, Indexed
  <2>4. /\ Without(s) \in [Keys -> Slots \cup {None}]
        /\ \A k \in Keys : Without(s)[k] # None => Without(s)[k] # s /\ Without(s)[k] = index[k]
    BY DEF Without, Inv, TypeOK
  <2> QED
    BY <1>2, <2>2, <2>3, <2>4, StorePreservesInv DEF InsertEvicting, ClockRead
<1> QED
  BY <1>1, <1>2

LEMMA EvictIdlePreservesInv == ASSUME Inv, EvictIdle PROVE Inv'
<1>1. \A s \in Slots : /\ entries'[s] \in {entries[s], None}
                       /\ s \notin Indexed => entries'[s] = entries[s]
  BY DEF EvictIdle
<1>2. \A k \in Keys : IF index[k] # None /\ entries'[index[k]] = None
                      THEN index'[k] = None ELSE index'[k] = index[k]
  BY DEF EvictIdle
<1>3. clock' = clock + 1 /\ callers' = callers
  BY DEF EvictIdle, ClockRead
<1>4. TypeOK'
  BY <1>3 DEF EvictIdle, Inv, TypeOK
<1>5. Wanted' /\ LentToItsKey'
  BY <1>3 DEF Inv, Wanted, LentToItsKey
<1>6. UsedBefore'
  BY <1>1, <1>3 DEF Inv, TypeOK, UsedBefore, Entry
<1>7. IndexSound'
  BY <1>1, <1>2 DEF Inv, TypeOK, IndexSound
<1>8. FullIsIndexed'
  <2> SUFFICES ASSUME Free' = {} PROVE Indexed' # {}
    BY DEF FullIsIndexed
  <2>1. \A s \in Slots : entries'[s] # None /\ entries[s] # None
    BY <1>1 DEF Free
  <2>2. PICK s \in Slots, k \in Keys : index[k] = s
    BY <2>1 DEF Inv, FullIsIndexed, Free, Indexed
  <2>3. index'[k] = s
    BY <1>2, <2>1, <2>2
  <2> QED
    BY <2>2, <2>3 DEF Indexed
<1> QED
  BY <1>4, <1>5, <1>6, <1>7, <1>8 DEF Inv

LEMMA StepInv == Inv /\ [Next]_vars => Inv'
<1> SUFFICES ASSUME Inv, [Next]_vars PROVE Inv'
  OBVIOUS
<1>1. CASE EvictIdle
  BY <1>1, EvictIdlePreservesInv
<1>2. ASSUME NEW c \in Callers, NEW k \in Keys, LendPooled(c, k) \/ StartConnect(c, k) PROVE Inv'
  BY <1>2, LendPreservesInv, CallerPreservesInv
<1>3. ASSUME NEW c \in Callers, ConnectFails(c) \/ InsertFree(c) \/ InsertEvicting(c) \/ Return(c)
      PROVE  Inv'
  BY <1>3, CallerPreservesInv, InsertPreservesInv
<1>4. CASE UNCHANGED vars
  BY <1>4 DEF vars, Inv, TypeOK, Wanted, UsedBefore, IndexSound, LentToItsKey, FullIsIndexed,
              Free, Indexed
<1> QED
  BY <1>1, <1>2, <1>3, <1>4 DEF Next

LEMMA InvHolds == Spec => []Inv
BY InitInv, StepInv, PTL DEF Spec

\* The index never names a slot that is empty or holds another address's channel, whatever
\* was inserted and evicted in between (lend, evict_oldest, evict_idle).
THEOREM IndexNamesItsChannels == Spec => []IndexSound
BY InvHolds, PTL DEF Inv

\* A caller gets a channel to the address it asked for: the one it made, or one that the index
\* has for that address, which IndexSound speaks of (lend).
THEOREM LendsRightChannel == Spec => []LentToItsKey
BY InvHolds, PTL DEF Inv

LEMMA InvMakesRoom == Inv => RoomForEveryInsert
BY OldestExists DEF Inv, FullIsIndexed, RoomForEveryInsert

\* However many channels the index has lost, there is one to evict when the slab is
\* full: the last error of lend never happens.
THEOREM AlwaysRoom == Spec => []RoomForEveryInsert
BY InvHolds, InvMakesRoom, PTL

\* The type invariant holds.
THEOREM TypeCorrect == Spec => []TypeOK
BY InvHolds, PTL DEF Inv

\* What a caller that was connecting and is served did.
LEMMA ServedStep ==
    ASSUME Inv, [Next]_vars, NEW c \in Callers,
           callers[c].pc = "connecting", callers'[c].pc = "served"
    PROVE  InsertFree(c) \/ InsertEvicting(c)
<1>1. ~EvictIdle /\ ~UNCHANGED vars
  BY DEF EvictIdle, vars
<1>2. ASSUME NEW d \in Callers, d # c,
             \/ \E k \in Keys : LendPooled(d, k) \/ StartConnect(d, k)
             \/ ConnectFails(d) \/ InsertFree(d) \/ InsertEvicting(d) \/ Return(d)
      PROVE  FALSE
  <2>1. callers'[c] = callers[c]
    BY <1>2 DEF LendPooled, StartConnect, ConnectFails, InsertFree, InsertEvicting, Return, Store,
                Inv, TypeOK
  <2> QED
    BY <2>1
<1>3. ~(\E k \in Keys : LendPooled(c, k) \/ StartConnect(c, k)) /\ ~Return(c)
  BY DEF LendPooled, StartConnect, Return
<1>4. ~ConnectFails(c)
  BY DEF ConnectFails, Inv, TypeOK, Caller
<1> QED
  BY <1>1, <1>2, <1>3, <1>4 DEF Next

\* What is evicted to make room was idle the longest (evict_oldest), for any clock.
THEOREM OldestIsEvicted == Spec => EvictsOldest
<1>1. Inv /\ [Next]_vars =>
        [\A k \in Keys, c \in Callers :
           /\ index[k] # None /\ callers[c].pc = "connecting" /\ callers'[c].pc = "served"
           /\ entries'[index[k]] # entries[index[k]]
           => /\ Free = {}
              /\ \A m \in Keys : index[m] # None =>
                    entries[index[k]].used <= entries[index[m]].used]_vars
  <2> SUFFICES ASSUME Inv, [Next]_vars, NEW k \in Keys, NEW c \in Callers,
                      index[k] # None, callers[c].pc = "connecting", callers'[c].pc = "served",
                      entries'[index[k]] # entries[index[k]]
               PROVE  /\ Free = {}
                      /\ \A m \in Keys : index[m] # None =>
                            entries[index[k]].used <= entries[index[m]].used
    OBVIOUS
  <2>1. index[k] \in Slots /\ entries[index[k]] # None
    BY DEF Inv, TypeOK, IndexSound
  <2>2. ~InsertFree(c)
    <3> SUFFICES ASSUME InsertFree(c) PROVE FALSE
      OBVIOUS
    <3>1. PICK s \in Free : Store(c, s, index)
      BY DEF InsertFree
    <3>2. index[k] # s
      BY <2>1, <3>1 DEF Free
    <3> QED
      BY <2>1, <3>1, <3>2 DEF Store, Inv, TypeOK
  <2>3. InsertEvicting(c)
    BY <2>2, ServedStep
  <2>4. PICK s \in Oldest : Store(c, s, Without(s))
    BY <2>1, <2>3 DEF InsertEvicting
  <2>5. index[k] = s
    BY <2>1, <2>4 DEF Store, Inv, TypeOK
  <2>6. \A m \in Keys : index[m] # None => index[m] \in Indexed /\ entries[index[m]] # None
    BY DEF Indexed, Inv, TypeOK, IndexSound
  <2> QED
    BY <2>3, <2>4, <2>5, <2>6 DEF Oldest, InsertEvicting
<1> QED
  BY <1>1, InvHolds, PTL DEF Spec, EvictsOldest

\* What an insert takes from the index, besides the channel it evicts, is the one of its key.
LEMMA StoreLoses ==
    ASSUME Inv, NEW c \in Callers, callers[c].pc = "connecting", NEW r \in Slots,
           r \in Free \cup Indexed, NEW kept \in [Keys -> Slots \cup {None}],
           \A k \in Keys : kept[k] = index[k] \/ (kept[k] = None /\ index[k] = r),
           Store(c, r, kept), NEW s \in Slots, Lost(s)' # Lost(s)
    PROVE  Lost(s)' /\ callers'[c].pc = "served" /\ index[callers[c].key] = s
<1> DEFINE key == callers[c].key
<1>1. key \in Keys /\ callers'[c].pc = "served"
  BY DEF Inv, Wanted, TypeOK, Store, Caller
<1>2. index'[key] = r /\ \A k \in Keys : k # key => index'[k] = kept[k]
  BY <1>1 DEF Store
<1>3. s # r
  <2>1. r \in Indexed'
    BY <1>1, <1>2 DEF Indexed
  <2>2. s = r => ~Lost(s)' /\ ~Lost(s)
    BY <2>1 DEF Lost, Free
  <2> QED
    BY <2>2 DEF Lost
<1>4. entries'[s] = entries[s]
  BY <1>3 DEF Store, Inv, TypeOK
<1>5. s \in Indexed' => s \in Indexed
  BY <1>2, <1>3, ConstantsAssumption DEF Indexed, Slots
<1>6. s \in Indexed /\ s \notin Indexed' => index[key] = s
  <2> SUFFICES ASSUME NEW k \in Keys, index[k] = s, s \notin Indexed' PROVE k = key
    BY DEF Indexed
  <2>1. index'[k] # s
    BY DEF Indexed
  <2>2. kept[k] = s
    BY <1>3
  <2> QED
    BY <1>2, <2>1, <2>2
<1> QED
  BY <1>1, <1>4, <1>5, <1>6 DEF Lost

LEMMA EvictIdleLoses == ASSUME Inv, EvictIdle, NEW s \in Slots PROVE Lost(s)' = Lost(s)
<1>1. /\ entries'[s] \in {entries[s], None}
      /\ s \notin Indexed => entries'[s] = entries[s]
  BY DEF EvictIdle
<1>2. \A k \in Keys : IF index[k] # None /\ entries'[index[k]] = None
                      THEN index'[k] = None ELSE index'[k] = index[k]
  BY DEF EvictIdle
<1>3. s \in Indexed' => s \in Indexed
  BY <1>2, ConstantsAssumption DEF Indexed, Slots
<1>4. s \in Indexed /\ entries'[s] # None => s \in Indexed'
  BY <1>2 DEF Indexed
<1> QED
  BY <1>1, <1>3, <1>4 DEF Lost

\* A slot is lost to the index when two callers connect to one address at a time, and in no
\* other way: not by an eviction, nor by a failed connect.  It stays lost: neither evict_oldest
\* nor evict_idle looks at slots that the index does not name.
THEOREM RacesLoseSlots == Spec => LostToRacesOnly
<1>1. Inv /\ [Next]_vars =>
        [\A s \in Slots : Lost(s)' # Lost(s) =>
           /\ Lost(s)'
           /\ \E c \in Callers : /\ callers[c].pc = "connecting" /\ callers'[c].pc = "served"
                                 /\ index[callers[c].key] = s]_vars
  <2> SUFFICES ASSUME Inv, [Next]_vars, NEW s \in Slots, Lost(s)' # Lost(s)
               PROVE  /\ Lost(s)'
                      /\ \E c \in Callers : /\ callers[c].pc = "connecting"
                                            /\ callers'[c].pc = "served"
                                            /\ index[callers[c].key] = s
    OBVIOUS
  <2>1. CASE EvictIdle
    BY <2>1, EvictIdleLoses
  <2>2. ASSUME UNCHANGED index, \A t \in Slots : entries'[t] = None <=> entries[t] = None
        PROVE  FALSE
    BY <2>2 DEF Lost, Indexed
  <2>3. ~UNCHANGED <<entries, index>>
    BY <2>2
  <2>4. ASSUME NEW c \in Callers, NEW k \in Keys, LendPooled(c, k) PROVE FALSE
    <3>1. /\ index' = index /\ index[k] \in Slots /\ entries[index[k]] \in Entry
          /\ entries' = [entries EXCEPT ![index[k]].used = clock] /\ clock \in Nat
      BY <2>4 DEF LendPooled, Pooled, Inv, TypeOK
    <3>2. entries'[index[k]] = [key |-> entries[index[k]].key, used |-> clock]
          /\ \A t \in Slots : t # index[k] => entries'[t] = entries[t]
      BY <3>1 DEF Inv, TypeOK, Entry
    <3>3. entries'[index[k]] \in [key : Keys, used : Nat] /\ entries[index[k]] # None
      BY <2>4, <3>1, <3>2 DEF LendPooled, Pooled, Entry
    <3> QED
      BY <2>2, <3>1, <3>2, <3>3, ConstantsAssumption
  <2>5. ASSUME NEW c \in Callers, InsertFree(c)
        PROVE  Lost(s)' /\ callers[c].pc = "connecting" /\ callers'[c].pc = "served"
               /\ index[callers[c].key] = s
    <3>1. PICK r \in Free : Store(c, r, index)
      BY <2>5 DEF InsertFree
    <3>2. r \in Slots /\ index \in [Keys -> Slots \cup {None}] /\ callers[c].pc = "connecting"
      BY <2>5, <3>1 DEF InsertFree, Free, Inv, TypeOK
    <3> QED
      BY <3>1, <3>2, StoreLoses
  <2>6. ASSUME NEW c \in Callers, InsertEvicting(c)
        PROVE  Lost(s)' /\ callers[c].pc = "connecting" /\ callers'[c].pc = "served"
               /\ index[callers[c].key] = s
    <3>1. Oldest # {}
      BY <2>3, <2>6 DEF InsertEvicting
    <3>2. PICK r \in Oldest : Store(c, r, Without(r))
      BY <2>6, <3>1 DEF InsertEvicting
    <3>3. /\ r \in Slots /\ r \in Indexed /\ callers[c].pc = "connecting"
          /\ Without(r) \in [Keys -> Slots \cup {None}]
          /\ \A k \in Keys : Without(r)[k] = index[k] \/ (Without(r)[k] = None /\ index[k] = r)
      BY <2>6, <3>2 DEF InsertEvicting, Oldest, Indexed, Without, Inv, TypeOK
    <3> QED
      BY <3>2, <3>3, StoreLoses
  <2>7. ASSUME NEW c \in Callers, ConnectFails(c) \/ Return(c) \/ \E k \in Keys : StartConnect(c, k)
        PROVE  FALSE
    BY <2>3, <2>7 DEF ConnectFails, Return, StartConnect
  <2> QED
    BY <2>1, <2>3, <2>4, <2>5, <2>6, <2>7 DEF Next, vars
<1> QED
  BY <1>1, InvHolds, PTL DEF Spec, LostToRacesOnly

===============================================================================
