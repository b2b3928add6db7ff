---------------------------- MODULE ExpertCache ----------------------------
(***************************************************************************)
(* What the engine may rely on from the expert cache, whatever its         *)
(* replacement policy: a byte-budgeted set of resident experts, some of    *)
(* them pinned.  Every operation is one atomic step, because the class in  *)
(* src/src/storage/lru_cache.h runs each of them under its mutex.          *)
(*                                                                         *)
(* ExpertLRU implements this specification; PrefetchPipeline uses the      *)
(* cache through the operators defined here and knows nothing of recency.  *)
(***************************************************************************)
EXTENDS FiniteSetsExt

CONSTANTS
    Keys,        \* the (layer, expert id) pairs that can be cached
    Size,        \* bytes of each expert: [Keys -> Nat \ {0}]
    Capacities   \* the byte budgets the cache may be given

VARIABLES
    capacity,    \* byte budget
    resident,    \* keys in the cache
    pinned       \* resident keys that eviction must spare

cacheVars == <<capacity, resident, pinned>>

Bytes(S) == SumFunctionOnSet(Size, S)

Init ==
    /\ capacity \in Capacities
    /\ resident = {}
    /\ pinned = {}

Resize(c) ==
    /\ capacity' = c
    /\ resident' = {}
    /\ pinned' = {}

Pin(k) ==
    /\ k \in resident
    /\ pinned' = pinned \cup {k}
    /\ UNCHANGED <<capacity, resident>>

(***************************************************************************)
(* The sets a Put of k may evict from the residents: never a pinned key,   *)
(* never k itself, and nothing at all while k fits beside the others.      *)
(***************************************************************************)
Victims(k) ==
    {E \in SUBSET (resident \ (pinned \cup {k})) :
        Bytes(resident \cup {k}) <= capacity => E = {}}

(***************************************************************************)
(* k becomes resident, unpinned even if it was pinned before.              *)
(***************************************************************************)
Put(k, E) ==
    /\ Bytes((resident \ E) \cup {k}) <= capacity
    /\ resident' = (resident \ E) \cup {k}
    /\ pinned' = pinned \ {k}
    /\ UNCHANGED capacity

(***************************************************************************)
(* k, which was not resident, does not get in, yet E was evicted for it.   *)
(***************************************************************************)
PutRejected(k, E) ==
    /\ k \notin resident
    /\ Bytes((resident \ E) \cup {k}) > capacity
    /\ resident' = resident \ E
    /\ UNCHANGED <<capacity, pinned>>

Next ==
    \/ \E c \in Capacities : Resize(c)
    \/ \E k \in Keys :
        \/ Pin(k)
        \/ \E E \in Victims(k) : Put(k, E) \/ PutRejected(k, E)

Spec == Init /\ [][Next]_cacheVars
=============================================================================
