----------------------------- MODULE ExpertLRU -----------------------------
(***************************************************************************)
(* The byte-budgeted expert cache of src/src/storage/lru_cache.h: a        *)
(* recency list, a map of entries, pins ("learned pins") and soft boosts.  *)
(*                                                                         *)
(* Every public operation holds mtx_ from start to end.  insert() is the   *)
(* only one with a loop: it is modelled one evictOne() sweep per step,     *)
(* with `inserting` naming the key while the mutex is held, so that no     *)
(* other operation can run between two sweeps.                             *)
(*                                                                         *)
(* An entry's buffer has the size of its expert, so sizes are a constant   *)
(* function of the key.  The hit, miss and waste counters only feed a      *)
(* report and are left out with the prefetched and used flags behind them. *)
(***************************************************************************)
EXTENDS Integers, SequencesExt

CONSTANTS
    Keys,        \* expert keys: (layer, expert id)
    Size,        \* handle.size of each key's buffer
    Capacities,  \* byte budgets resize() may be given
    MaxProtect,  \* largest protectCycles passed to boost()
    None         \* no insert in progress

ASSUME SizeAssumption == Size \in [Keys -> Nat \ {0}]
ASSUME CapacitiesAssumption == Capacities \subseteq Nat
ASSUME MaxProtectAssumption == MaxProtect \in Nat
ASSUME NoneAssumption == None \notin Keys

VARIABLES
    capacity,    \* capacity_
    used,        \* used_
    order,       \* lruOrder_, most recently used first
    resident,    \* keys of map_
    pinned,      \* keys whose Entry.pinned is set
    protect,     \* Entry.protect of each key, 0 for a key without entry
    inserting,   \* the key insert() holds the mutex for, or None
    guard,       \* insert()'s bound on the remaining sweeps
    swept,       \* whether evictOne() has returned false in this insert
    before       \* history: the cache when the insert in progress began

vars == <<capacity, used, order, resident, pinned, protect,
          inserting, guard, swept, before>>

content == <<capacity, used, order, resident, pinned, protect>>
progress == <<inserting, guard, swept, before>>

Snapshot == [order |-> order, resident |-> resident, pinned |-> pinned,
             protect |-> protect]

NoSnapshot == [order |-> <<>>, resident |-> {}, pinned |-> {},
               protect |-> [k \in Keys |-> 0]]

IndexOf(k) == CHOOSE i \in DOMAIN order : order[i] = k

\* list::erase of k's node
Without(k) == RemoveAt(order, IndexOf(k))

\* list::splice of k's node to the front
Promoted(k) == <<k>> \o Without(k)

Init ==
    /\ capacity \in Capacities
    /\ used = 0
    /\ order = <<>>
    /\ resident = {}
    /\ pinned = {}
    /\ protect = [k \in Keys |-> 0]
    /\ inserting = None
    /\ guard = 0
    /\ swept = FALSE
    /\ before = NoSnapshot

-----------------------------------------------------------------------------

Resize(c) ==
    /\ inserting = None
    /\ capacity' = c
    /\ used' = 0
    /\ order' = <<>>
    /\ resident' = {}
    /\ pinned' = {}
    /\ protect' = [k \in Keys |-> 0]
    /\ UNCHANGED progress

(***************************************************************************)
(* acquire() and copyTo() on a hit.  A miss, like a pin or a boost of an   *)
(* absent key, changes nothing but a counter.                              *)
(***************************************************************************)
Hit(k) ==
    /\ inserting = None
    /\ k \in resident
    /\ order' = Promoted(k)
    /\ UNCHANGED <<capacity, used, resident, pinned, protect, progress>>

\* Mutation: map_[k].pinned = true, without looking k up.
Pin_Unchecked(k) ==
    /\ inserting = None
    /\ pinned' = pinned \cup {k}
    /\ UNCHANGED <<capacity, used, order, resident, protect, progress>>

Pin(k) ==
    /\ inserting = None
    /\ k \in resident
    /\ pinned' = pinned \cup {k}
    /\ UNCHANGED <<capacity, used, order, resident, protect, progress>>

Boost(k, n) ==
    /\ inserting = None
    /\ k \in resident
    /\ protect' = [protect EXCEPT ![k] = IF @ < n THEN n ELSE @]
    /\ order' = Promoted(k)
    /\ UNCHANGED <<capacity, used, resident, pinned, progress>>

-----------------------------------------------------------------------------

\* Mutations: the replaced entry's bytes stay counted; its list node stays.
DropEntry_KeepsBytes(k) ==
    /\ order' = Without(k)
    /\ resident' = resident \ {k}
    /\ pinned' = pinned \ {k}
    /\ protect' = [protect EXCEPT ![k] = 0]
    /\ UNCHANGED used
DropEntry_KeepsNode(k) ==
    /\ used' = used - Size[k]
    /\ resident' = resident \ {k}
    /\ pinned' = pinned \ {k}
    /\ protect' = [protect EXCEPT ![k] = 0]
    /\ UNCHANGED order

\* the entry insert() replaces goes with its pin and its boost
DropEntry(k) ==
    /\ used' = used - Size[k]
    /\ order' = Without(k)
    /\ resident' = resident \ {k}
    /\ pinned' = pinned \ {k}
    /\ protect' = [protect EXCEPT ![k] = 0]

(***************************************************************************)
(* insert(): refuse what can never fit, then drop the entry it replaces.   *)
(***************************************************************************)
InsertBegin(k) ==
    /\ inserting = None
    /\ Size[k] <= capacity
    /\ IF k \in resident
       THEN DropEntry(k)
       ELSE UNCHANGED <<used, order, resident, pinned, protect>>
    /\ inserting' = k
    /\ guard' = Len(order')
    /\ swept' = FALSE
    /\ before' = Snapshot
    /\ UNCHANGED capacity

\* Mutation: the test forgets the bytes of the new entry.
Fits_ForgetsNew == used <= capacity

\* Mutation: evict once even when the new entry fits.
MustEvict_Eager == inserting # None /\ ~swept /\ order # <<>> /\ guard > 0

Fits == used + Size[inserting] <= capacity

MustEvict ==
    /\ inserting # None
    /\ ~swept
    /\ ~Fits
    /\ order # <<>>
    /\ guard > 0

\* Mutations: pins, or boosts, do not count.
Evictable_IgnoresPin == {i \in DOMAIN order : protect[order[i]] = 0}
Evictable_IgnoresBoost == {i \in DOMAIN order : order[i] \notin pinned}

\* positions in the recency list whose entry evictOne() would take
Evictable == {i \in DOMAIN order : order[i] \notin pinned /\ protect[order[i]] = 0}

\* a sweep from the back reached every position after i: boosts pay for it
PaidBehind(i) ==
    [k \in Keys |->
        IF \E j \in DOMAIN order : j > i /\ order[j] = k /\ k \notin pinned
           /\ protect[k] > 0
        THEN protect[k] - 1
        ELSE protect[k]]

(***************************************************************************)
(* evictOne() returning true: the evictable entry nearest the back goes.   *)
(***************************************************************************)
EvictLast(i) ==
    /\ MustEvict
    /\ i \in Evictable
    /\ \A j \in Evictable : j <= i
    /\ used' = used - Size[order[i]]
    /\ order' = RemoveAt(order, i)
    /\ resident' = resident \ {order[i]}
    /\ protect' = PaidBehind(i)
    /\ guard' = guard - 1
    /\ UNCHANGED <<capacity, pinned, inserting, swept, before>>

(***************************************************************************)
(* evictOne() returning false after a sweep that met only pinned and       *)
(* boosted entries: insert() leaves its loop.                              *)
(***************************************************************************)
EvictNothing ==
    /\ MustEvict
    /\ Evictable = {}
    /\ protect' = PaidBehind(0)
    /\ guard' = guard - 1
    /\ swept' = TRUE
    /\ UNCHANGED <<capacity, used, order, resident, pinned, inserting, before>>

InsertEnd ==
    /\ inserting' = None
    /\ guard' = 0
    /\ swept' = FALSE
    /\ before' = NoSnapshot

InsertTrue ==
    /\ inserting # None
    /\ Fits
    /\ order' = <<inserting>> \o order
    /\ resident' = resident \cup {inserting}
    /\ used' = used + Size[inserting]
    /\ InsertEnd
    /\ UNCHANGED <<capacity, pinned, protect>>

InsertFalse ==
    /\ inserting # None
    /\ ~MustEvict
    /\ ~Fits
    /\ InsertEnd
    /\ UNCHANGED content

Next ==
    \/ \E c \in Capacities : Resize(c)
    \/ \E k \in Keys :
        \/ Hit(k)
        \/ Pin(k)
        \/ \E n \in 1..MaxProtect : Boost(k, n)
        \/ InsertBegin(k)
    \/ \E i \in DOMAIN order : EvictLast(i)
    \/ EvictNothing
    \/ InsertTrue
    \/ InsertFalse

Spec == Init /\ [][Next]_vars

(***************************************************************************)
(* The cache as its callers see it: while an insert holds the mutex, what  *)
(* was there when it took it.                                              *)
(***************************************************************************)
Resident == IF inserting = None THEN resident ELSE before.resident
Pinned == IF inserting = None THEN pinned ELSE before.pinned

\* in recency list s, x is less recently used than y
Behind(s, x, y) == \E i, j \in DOMAIN s : i < j /\ s[i] = y /\ s[j] = x

-----------------------------------------------------------------------------

(***************************************************************************)
(* Types of the cache's state.                                             *)
(***************************************************************************)
TypeOK ==
    /\ capacity \in Nat
    /\ used \in Int
    /\ order \in Seq(Keys)
    /\ resident \subseteq Keys
    /\ pinned \subseteq resident
    /\ protect \in [Keys -> Nat]
    /\ inserting \in Keys \cup {None}
    /\ guard \in Int
    /\ swept \in BOOLEAN
    /\ before \in [order : Seq(Keys), resident : SUBSET Keys,
                    pinned : SUBSET Keys, protect : [Keys -> Nat]]

(***************************************************************************)
(* lruOrder_ and map_ describe the same set: every entry's listIter is a   *)
(* node of the list, and no key has two nodes.  An erase that forgets one  *)
(* of the two structures leaves a dangling iterator.                       *)
(***************************************************************************)
OrderMatchesMap ==
    /\ \A k \in Keys : k \in resident <=> \E i \in DOMAIN order : order[i] = k
    /\ \A i, j \in DOMAIN order : order[i] = order[j] => i = j

(***************************************************************************)
(* used_ is at every moment, also between two sweeps of an insert, the sum *)
(* of the sizes of the entries: a replaced or evicted entry gives back     *)
(* exactly the bytes it took, so the budget never drifts.                  *)
(***************************************************************************)
UsedIsExact == used = SumFunctionOnSet(Size, resident)

(***************************************************************************)
(* The cache never holds more bytes than its budget.                       *)
(***************************************************************************)
WithinCapacity == used <= capacity

(***************************************************************************)
(* Replacing a resident expert always succeeds, and neither evicts nor     *)
(* sweeps anything: the entry it drops first has the size of the new one.  *)
(* Were the order of the two steps swapped, a full cache of pinned experts *)
(* would lose the expert it was refreshing.                                *)
(***************************************************************************)
ReplaceAlwaysFits ==
    inserting # None /\ inserting \in before.resident =>
        /\ Fits
        /\ resident = before.resident \ {inserting}

(***************************************************************************)
(* A pinned expert stays resident through every operation, whole inserts   *)
(* included, on its own key as on any other; only a resize clears it       *)
(* ("Pinned entries ... are exempt from eviction", lru_cache.h:16).        *)
(***************************************************************************)
PinnedStaysResident ==
    [][(\E c \in Capacities : Resize(c)) \/ Pinned \subseteq Resident']_vars

\* the entries this insert has evicted that were more recent than k
EvictedBefore(k) ==
    {v \in before.resident \ (resident \cup {inserting}) : Behind(before.order, k, v)}

(***************************************************************************)
(* Boosts are paid one sweep at a time: since the insert began, an         *)
(* evictable entry has lost one protection for each more recent entry      *)
(* evicted in its place, and one more if the last sweep found no victim;   *)
(* and no entry has been evicted before it had lost all of its own.  In    *)
(* particular an unboosted entry is never passed over, which is LRU order  *)
(* (boost(): the entry "outlives protectCycles eviction sweeps").          *)
(***************************************************************************)
BoostsPaySweeps ==
    inserting # None =>
        /\ \A k \in resident \ pinned :
            before.protect[k] - protect[k] =
                Cardinality(EvictedBefore(k)) + (IF swept THEN 1 ELSE 0)
        /\ \A k \in before.resident \ (resident \cup {inserting}) :
            before.protect[k] <= Cardinality(EvictedBefore(k))

-----------------------------------------------------------------------------

Cache == INSTANCE ExpertCache WITH resident <- Resident, pinned <- Pinned

(***************************************************************************)
(* Every operation is atomic for its callers and does what ExpertCache     *)
(* allows.                                                                 *)
(***************************************************************************)
ImplementsExpertCache == Cache!Spec
=============================================================================
