-------------------------- MODULE ExpertLRUProofs --------------------------
(***************************************************************************)
(* Proofs, for every set of experts, all sizes and all budgets, of what    *)
(* the runs check of ExpertLRU on four experts: types, agreement of the    *)
(* list with the map, exact byte accounts, the budget, pinned experts that *)
(* stay, boosts paid sweep by sweep, and the refinement of ExpertCache.    *)
(***************************************************************************)
EXTENDS ExpertLRU, SequenceTheorems, FoldLemmas, TLAPS

(***************************************************************************)
(* While an insert holds the mutex: its key is out of the map and can fit; *)
(* the residents only shrink; the pins are those of the beginning, less    *)
(* the key's own, and none of them has left.                               *)
(***************************************************************************)
InsertView ==
    inserting # None =>
        /\ inserting \notin resident
        /\ before.pinned \subseteq before.resident
        /\ before.pinned \ {inserting} \subseteq pinned

(***************************************************************************)
(* The inductive invariant.                                                *)
(***************************************************************************)
IInv ==
    /\ TypeOK
    /\ OrderMatchesMap
    /\ WithinCapacity
    /\ ReplaceAlwaysFits
    /\ InsertView

-----------------------------------------------------------------------------

(***************************************************************************)
(* RemoveAt shifts the tail of a sequence by one.                          *)
(***************************************************************************)
LEMMA RemoveAtShifts ==
    ASSUME NEW S, NEW s \in Seq(S), NEW i \in 1..Len(s)
    PROVE  /\ RemoveAt(s, i) \in Seq(S)
           /\ Len(RemoveAt(s, i)) = Len(s) - 1
           /\ \A j \in 1..(Len(s) - 1) :
                RemoveAt(s, i)[j] = IF j < i THEN s[j] ELSE s[j + 1]
  <1> DEFINE l == SubSeq(s, 1, i - 1)
             r == SubSeq(s, i + 1, Len(s))
  <1>1. /\ l \in Seq(S)
        /\ Len(l) = i - 1
        /\ \A j \in 1..(i - 1) : l[j] = s[j]
    OBVIOUS
  <1>2. /\ r \in Seq(S)
        /\ Len(r) = Len(s) - i
        /\ \A j \in 1..(Len(s) - i) : r[j] = s[i + j]
    <2>1. \A j \in (i + 1)..Len(s) : s[j] \in S
      OBVIOUS
    <2>2. i + 1 \in Int /\ Len(s) \in Int
      OBVIOUS
    <2>3. /\ r \in Seq(S)
          /\ Len(r) = IF i + 1 <= Len(s) THEN Len(s) - (i + 1) + 1 ELSE 0
          /\ \A j \in 1..(Len(s) - (i + 1) + 1) : r[j] = s[i + 1 + j - 1]
      BY <2>1, <2>2, SubSeqProperties
    <2>4. QED
      BY <2>3
  <1> HIDE DEF l, r
  <1>3. /\ l \o r \in Seq(S)
        /\ Len(l \o r) = Len(l) + Len(r)
        /\ \A j \in 1..(Len(l) + Len(r)) :
             (l \o r)[j] = IF j <= Len(l) THEN l[j] ELSE r[j - Len(l)]
    BY <1>1, <1>2, ConcatProperties
  <1>4. ASSUME NEW j \in 1..(Len(s) - 1)
        PROVE  (l \o r)[j] = IF j < i THEN s[j] ELSE s[j + 1]
    <2>1. CASE j < i
      BY <1>1, <1>2, <1>3, <2>1
    <2>2. CASE ~(j < i)
      <3>1. j - (i - 1) \in 1..(Len(s) - i) /\ i + (j - (i - 1)) = j + 1
        BY <2>2
      <3>2. j \in 1..(Len(l) + Len(r)) /\ ~(j <= Len(l))
        BY <2>2, <1>1, <1>2
      <3>3. (l \o r)[j] = r[j - (i - 1)]
        BY <3>2, <1>1, <1>3
      <3>4. r[j - (i - 1)] = s[j + 1]
        BY <3>1, <1>2
      <3>5. QED
        BY <3>3, <3>4, <2>2
    <2>3. QED
      BY <2>1, <2>2
  <1>5. RemoveAt(s, i) = l \o r
    BY DEF RemoveAt, l, r
  <1>6. Len(l) + Len(r) = Len(s) - 1
    BY <1>1, <1>2
  <1>7. QED
    BY <1>3, <1>4, <1>5, <1>6

(***************************************************************************)
(* Putting an element before a sequence shifts all of it by one.           *)
(***************************************************************************)
LEMMA PrependShifts ==
    ASSUME NEW S, NEW s \in Seq(S), NEW x \in S
    PROVE  /\ <<x>> \o s \in Seq(S)
           /\ Len(<<x>> \o s) = Len(s) + 1
           /\ (<<x>> \o s)[1] = x
           /\ \A j \in 2..(Len(s) + 1) : (<<x>> \o s)[j] = s[j - 1]
  OBVIOUS

(***************************************************************************)
(* A list enumerates a set when it lists each of its elements, once.       *)
(***************************************************************************)
Enumerates(s, R) ==
    /\ \A k \in Keys : k \in R <=> \E i \in DOMAIN s : s[i] = k
    /\ \A i, j \in DOMAIN s : s[i] = s[j] => i = j

(***************************************************************************)
(* Erasing position i of an enumeration takes s[i] out of the set.         *)
(***************************************************************************)
LEMMA EraseEnumerates ==
    ASSUME NEW s \in Seq(Keys), NEW R \in SUBSET Keys, Enumerates(s, R),
           NEW i \in DOMAIN s
    PROVE  /\ RemoveAt(s, i) \in Seq(Keys)
           /\ Enumerates(RemoveAt(s, i), R \ {s[i]})
  <1> DEFINE t == RemoveAt(s, i)
  <1>0. i \in 1..Len(s) /\ DOMAIN s = 1..Len(s)
    OBVIOUS
  <1>1. /\ t \in Seq(Keys)
        /\ Len(t) = Len(s) - 1
        /\ \A j \in 1..(Len(s) - 1) : t[j] = IF j < i THEN s[j] ELSE s[j + 1]
    BY <1>0, RemoveAtShifts
  <1>2. DOMAIN t = 1..(Len(s) - 1)
    BY <1>1
  <1> HIDE DEF t
  <1>3. ASSUME NEW k \in Keys
        PROVE  k \in R \ {s[i]} <=> \E j \in DOMAIN t : t[j] = k
    <2>1. ASSUME k \in R, k # s[i]
          PROVE  \E j \in DOMAIN t : t[j] = k
      <3>1. PICK j \in 1..Len(s) : s[j] = k
        BY <2>1, <1>0 DEF Enumerates
      <3>2. CASE j < i
        BY <3>1, <3>2, <1>0, <1>1, <1>2
      <3>3. CASE j > i
        <4>1. j - 1 \in 1..(Len(s) - 1) /\ ~(j - 1 < i) /\ (j - 1) + 1 = j
          BY <3>1, <3>3, <1>0
        <4>2. QED
          BY <4>1, <3>1, <1>1, <1>2
      <3>4. QED
        BY <3>1, <3>2, <3>3, <2>1, <1>0
    <2>2. ASSUME NEW j \in DOMAIN t, t[j] = k
          PROVE  k \in R /\ k # s[i]
      <3>1. CASE j < i
        BY <3>1, <2>2, <1>0, <1>1, <1>2 DEF Enumerates
      <3>2. CASE ~(j < i)
        <4>1. j + 1 \in 1..Len(s) /\ j + 1 # i /\ s[j + 1] = k
          BY <3>2, <2>2, <1>0, <1>1, <1>2
        <4>2. QED
          BY <4>1, <1>0 DEF Enumerates
      <3>3. QED
        BY <3>1, <3>2
    <2>3. QED
      BY <2>1, <2>2
  <1>4. ASSUME NEW j \in DOMAIN t, NEW m \in DOMAIN t, t[j] = t[m]
        PROVE  j = m
    <2> DEFINE up(n) == IF n < i THEN n ELSE n + 1
    <2>1. up(j) \in 1..Len(s) /\ up(m) \in 1..Len(s)
      BY <1>0, <1>2
    <2>2. s[up(j)] = s[up(m)]
      BY <1>4, <1>1, <1>2
    <2>3. up(j) = up(m)
      BY <2>1, <2>2, <1>0 DEF Enumerates
    <2>4. QED
      BY <2>3, <1>0, <1>2
  <1>5. QED
    BY <1>1, <1>3, <1>4 DEF Enumerates, t

(***************************************************************************)
(* Listing a new key first adds it to the set.                             *)
(***************************************************************************)
LEMMA PrependEnumerates ==
    ASSUME NEW s \in Seq(Keys), NEW R \in SUBSET Keys, Enumerates(s, R),
           NEW x \in Keys, x \notin R
    PROVE  /\ <<x>> \o s \in Seq(Keys)
           /\ Enumerates(<<x>> \o s, R \cup {x})
  <1> DEFINE t == <<x>> \o s
  <1>1. /\ t \in Seq(Keys)
        /\ Len(t) = Len(s) + 1
        /\ t[1] = x
        /\ \A j \in 2..(Len(s) + 1) : t[j] = s[j - 1]
    BY PrependShifts
  <1>2. DOMAIN t = 1..(Len(s) + 1) /\ DOMAIN s = 1..Len(s)
    BY <1>1
  <1> HIDE DEF t
  <1>3. ASSUME NEW k \in Keys
        PROVE  k \in R \cup {x} <=> \E j \in DOMAIN t : t[j] = k
    <2>1. ASSUME k \in R
          PROVE  \E j \in DOMAIN t : t[j] = k
      <3>1. PICK j \in 1..Len(s) : s[j] = k
        BY <2>1, <1>2 DEF Enumerates
      <3>2. j + 1 \in 2..(Len(s) + 1) /\ (j + 1) - 1 = j
        BY <3>1
      <3>3. t[j + 1] = k /\ j + 1 \in DOMAIN t
        BY <3>1, <3>2, <1>1, <1>2
      <3>4. QED
        BY <3>3
    <2>2. ASSUME NEW j \in DOMAIN t, t[j] = k, j # 1
          PROVE  k \in R
      <3>1. j - 1 \in 1..Len(s) /\ s[j - 1] = k
        BY <2>2, <1>1, <1>2
      <3>2. QED
        BY <3>1, <1>2 DEF Enumerates
    <2>3. QED
      BY <2>1, <2>2, <1>1, <1>2
  <1>4. ASSUME NEW j \in DOMAIN t, NEW m \in DOMAIN t, t[j] = t[m]
        PROVE  j = m
    <2>1. ASSUME NEW n \in DOMAIN t, n # 1
          PROVE  n - 1 \in DOMAIN s /\ t[n] = s[n - 1] /\ t[n] \in R
      <3>1. n - 1 \in DOMAIN s /\ t[n] = s[n - 1]
        BY <2>1, <1>1, <1>2
      <3>2. s[n - 1] \in Keys
        BY <3>1, <1>2
      <3>3. QED
        BY <3>1, <3>2 DEF Enumerates
    <2>2. CASE j = 1 \/ m = 1
      BY <2>1, <2>2, <1>1, <1>4
    <2>3. CASE j # 1 /\ m # 1
      <3>1. j - 1 = m - 1
        BY <2>1, <2>3, <1>4 DEF Enumerates
      <3>2. QED
        BY <3>1, <1>2
    <2>4. QED
      BY <2>2, <2>3
  <1>5. QED
    BY <1>1, <1>3, <1>4 DEF Enumerates, t

-----------------------------------------------------------------------------

(***************************************************************************)
(* IndexOf finds the node of a resident key.                               *)
(***************************************************************************)
LEMMA IndexOfFinds ==
    ASSUME OrderMatchesMap, resident \subseteq Keys, NEW k \in resident
    PROVE  IndexOf(k) \in DOMAIN order /\ order[IndexOf(k)] = k
  BY DEF OrderMatchesMap, IndexOf

(***************************************************************************)
(* Erasing a resident's node, and moving it to the front.                  *)
(***************************************************************************)
LEMMA WithoutEnumerates ==
    ASSUME TypeOK, OrderMatchesMap, NEW k \in resident
    PROVE  /\ Without(k) \in Seq(Keys)
           /\ Enumerates(Without(k), resident \ {k})
           /\ Promoted(k) \in Seq(Keys)
           /\ Enumerates(Promoted(k), resident)
  <1>1. IndexOf(k) \in DOMAIN order /\ order[IndexOf(k)] = k
    BY IndexOfFinds DEF TypeOK
  <1>2. Enumerates(order, resident)
    BY DEF OrderMatchesMap, Enumerates
  <1>3. /\ Without(k) \in Seq(Keys)
        /\ Enumerates(Without(k), resident \ {k})
    BY <1>1, <1>2, EraseEnumerates DEF Without, TypeOK
  <1>4. k \in Keys /\ k \notin resident \ {k} /\ resident \ {k} \in SUBSET Keys
    BY DEF TypeOK
  <1>5. /\ Promoted(k) \in Seq(Keys)
        /\ Enumerates(Promoted(k), (resident \ {k}) \cup {k})
    BY <1>3, <1>4, PrependEnumerates DEF Promoted
  <1>6. (resident \ {k}) \cup {k} = resident
    OBVIOUS
  <1>7. QED
    BY <1>3, <1>5, <1>6

(***************************************************************************)
(* OrderMatchesMap says that the list enumerates the map.                  *)
(***************************************************************************)
LEMMA OrderIsEnumeration ==
    /\ OrderMatchesMap <=> Enumerates(order, resident)
    /\ OrderMatchesMap' <=> Enumerates(order', resident')
  BY DEF OrderMatchesMap, Enumerates

(***************************************************************************)
(* The invariant holds initially.                                          *)
(***************************************************************************)
LEMMA InitEstablishes == Init => IInv
  <1> SUFFICES ASSUME Init PROVE IInv
    OBVIOUS
  <1>1. NoSnapshot \in [order : Seq(Keys), resident : SUBSET Keys,
                       pinned : SUBSET Keys, protect : [Keys -> Nat]]
    BY DEF NoSnapshot
  <1>2. TypeOK
    <2>1. capacity \in Nat /\ used \in Int /\ order \in Seq(Keys) /\ guard \in Int
      BY CapacitiesAssumption DEF Init
    <2>2. resident \subseteq Keys /\ pinned \subseteq resident
          /\ protect \in [Keys -> Nat] /\ swept \in BOOLEAN
          /\ inserting \in Keys \cup {None}
      BY DEF Init
    <2>3. QED
      BY <1>1, <2>1, <2>2 DEF Init, TypeOK
  <1>3. OrderMatchesMap
    BY DEF Init, OrderMatchesMap
  <1>4. WithinCapacity
    BY <1>2 DEF Init, WithinCapacity, TypeOK
  <1>5. ReplaceAlwaysFits /\ InsertView
    BY DEF Init, ReplaceAlwaysFits, InsertView
  <1>6. QED
    BY <1>2, <1>3, <1>4, <1>5 DEF IInv

\* Resize clears the cache and keeps the invariant.
LEMMA ResizeKeeps ==
    ASSUME IInv, NEW c \in Capacities, Resize(c)
    PROVE  IInv'
  <1> USE DEF Resize, progress
  <1>1. TypeOK'
    BY CapacitiesAssumption DEF IInv, TypeOK
  <1>2. OrderMatchesMap'
    BY DEF OrderMatchesMap
  <1>3. WithinCapacity'
    BY CapacitiesAssumption DEF WithinCapacity
  <1>4. ReplaceAlwaysFits' /\ InsertView'
    BY DEF ReplaceAlwaysFits, InsertView
  <1>5. QED
    BY <1>1, <1>2, <1>3, <1>4 DEF IInv

\* A hit moves one node of the list.
LEMMA HitKeeps ==
    ASSUME IInv, NEW k \in Keys, Hit(k)
    PROVE  IInv'
  <1> USE DEF Hit, progress
  <1>1. /\ Promoted(k) \in Seq(Keys)
        /\ Enumerates(Promoted(k), resident)
    BY WithoutEnumerates DEF IInv
  <1>2. TypeOK'
    BY <1>1 DEF IInv, TypeOK
  <1>3. OrderMatchesMap'
    BY <1>1, OrderIsEnumeration
  <1>4. WithinCapacity'
    BY DEF IInv, WithinCapacity
  <1>5. ReplaceAlwaysFits' /\ InsertView'
    BY DEF ReplaceAlwaysFits, InsertView
  <1>6. QED
    BY <1>2, <1>3, <1>4, <1>5 DEF IInv

\* A pin is set on a resident only.
LEMMA PinKeeps ==
    ASSUME IInv, NEW k \in Keys, Pin(k)
    PROVE  IInv'
  <1> USE DEF Pin, progress
  <1>1. TypeOK'
    BY DEF IInv, TypeOK
  <1>2. OrderMatchesMap' /\ WithinCapacity'
    BY DEF IInv, OrderMatchesMap, WithinCapacity
  <1>3. ReplaceAlwaysFits' /\ InsertView'
    BY DEF ReplaceAlwaysFits, InsertView
  <1>4. QED
    BY <1>1, <1>2, <1>3 DEF IInv

\* A boost moves one node and raises one count.
LEMMA BoostKeeps ==
    ASSUME IInv, NEW k \in Keys, NEW n \in 1..MaxProtect, Boost(k, n)
    PROVE  IInv'
  <1> USE DEF Boost, progress
  <1>1. /\ Promoted(k) \in Seq(Keys)
        /\ Enumerates(Promoted(k), resident)
    BY WithoutEnumerates DEF IInv
  <1>2. TypeOK'
    <2>1. protect' \in [Keys -> Nat]
      BY MaxProtectAssumption DEF IInv, TypeOK
    <2>2. QED
      BY <1>1, <2>1 DEF IInv, TypeOK
  <1>3. OrderMatchesMap'
    BY <1>1, OrderIsEnumeration
  <1>4. WithinCapacity'
    BY DEF IInv, WithinCapacity
  <1>5. ReplaceAlwaysFits' /\ InsertView'
    BY DEF ReplaceAlwaysFits, InsertView
  <1>6. QED
    BY <1>2, <1>3, <1>4, <1>5 DEF IInv

\* insert() drops the entry it replaces.
LEMMA InsertBeginKeeps ==
    ASSUME IInv, NEW k \in Keys, InsertBegin(k)
    PROVE  IInv'
  <1> USE DEF IInv, TypeOK
  <1>0. /\ inserting' = k /\ k # None /\ inserting = None
        /\ before' = Snapshot /\ swept' = FALSE /\ capacity' = capacity
        /\ Size[k] \in Nat /\ Size[k] <= capacity
    BY NoneAssumption, SizeAssumption DEF InsertBegin
  <1>1. CASE k \in resident
    <2>1. DropEntry(k)
      BY <1>1 DEF InsertBegin
    <2>2. /\ Without(k) \in Seq(Keys)
          /\ Enumerates(Without(k), resident \ {k})
      BY <1>1, WithoutEnumerates
    <2>3. TypeOK'
      <3>1. /\ order' \in Seq(Keys) /\ used' \in Int
            /\ resident' \subseteq Keys /\ pinned' \subseteq resident'
            /\ protect' \in [Keys -> Nat]
        BY <2>1, <2>2, <1>0 DEF DropEntry
      <3>2. guard' \in Int
        BY <3>1 DEF InsertBegin
      <3>3. before' \in [order : Seq(Keys), resident : SUBSET Keys,
                         pinned : SUBSET Keys, protect : [Keys -> Nat]]
        BY <1>0 DEF Snapshot
      <3>4. QED
        BY <3>1, <3>2, <3>3, <1>0
    <2>4. OrderMatchesMap'
      BY <2>1, <2>2, OrderIsEnumeration DEF DropEntry
    <2>5. WithinCapacity'
      BY <2>1, <1>0 DEF DropEntry, WithinCapacity
    <2>6. ReplaceAlwaysFits'
      BY <2>1, <1>0 DEF DropEntry, ReplaceAlwaysFits, Fits, WithinCapacity, Snapshot
    <2>7. InsertView'
      BY <2>1, <1>0 DEF DropEntry, InsertView, Snapshot
    <2>8. QED
      BY <2>3, <2>4, <2>5, <2>6, <2>7
  <1>2. CASE k \notin resident
    <2>1. UNCHANGED <<used, order, resident, pinned, protect>>
      BY <1>2 DEF InsertBegin
    <2>2. TypeOK'
      <3>1. guard' \in Int
        BY <2>1 DEF InsertBegin
      <3>2. before' \in [order : Seq(Keys), resident : SUBSET Keys,
                         pinned : SUBSET Keys, protect : [Keys -> Nat]]
        BY <1>0 DEF Snapshot
      <3>3. QED
        BY <2>1, <3>1, <3>2, <1>0
    <2>3. OrderMatchesMap' /\ WithinCapacity'
      BY <2>1, <1>0 DEF OrderMatchesMap, WithinCapacity
    <2>4. ReplaceAlwaysFits' /\ InsertView'
      BY <2>1, <1>0, <1>2 DEF ReplaceAlwaysFits, InsertView, Snapshot
    <2>5. QED
      BY <2>2, <2>3, <2>4
  <1>3. QED
    BY <1>1, <1>2

\* A sweep takes at most one protection from each entry.
LEMMA PaidIsProtect ==
    ASSUME protect \in [Keys -> Nat], NEW i
    PROVE  /\ PaidBehind(i) \in [Keys -> Nat]
           /\ \A k \in Keys : PaidBehind(i)[k] \in {protect[k], protect[k] - 1}
  <1> DEFINE paid(k) == \E j \in DOMAIN order : j > i /\ order[j] = k /\ k \notin pinned
                          /\ protect[k] > 0
  <1>1. PaidBehind(i) = [k \in Keys |-> IF paid(k) THEN protect[k] - 1 ELSE protect[k]]
    BY DEF PaidBehind
  <1>2. \A k \in Keys : paid(k) => protect[k] > 0
    OBVIOUS
  <1> HIDE DEF paid
  <1>3. QED
    BY <1>1, <1>2

\* A sweep that evicts takes one entry out of list and map.
LEMMA EvictLastKeeps ==
    ASSUME IInv, NEW i \in DOMAIN order, EvictLast(i)
    PROVE  IInv'
  <1> USE DEF IInv, TypeOK
  <1>0. /\ order[i] \in Keys /\ order[i] \in resident /\ order[i] \notin pinned
        /\ inserting # None /\ ~Fits
        /\ Size[order[i]] \in Nat
        /\ UNCHANGED <<capacity, pinned, inserting, swept, before>>
    BY SizeAssumption DEF EvictLast, MustEvict, Evictable, OrderMatchesMap
  <1>1. /\ RemoveAt(order, i) \in Seq(Keys)
        /\ Enumerates(RemoveAt(order, i), resident \ {order[i]})
    BY EraseEnumerates, OrderIsEnumeration
  <1>2. TypeOK'
    <2>1. protect' \in [Keys -> Nat]
      BY PaidIsProtect DEF EvictLast
    <2>2. order' \in Seq(Keys)
      BY <1>1 DEF EvictLast
    <2>3. used' \in Int /\ guard' \in Int
      BY <1>0 DEF EvictLast
    <2>4. resident' \subseteq Keys /\ pinned' \subseteq resident'
      BY <1>0 DEF EvictLast
    <2>5. QED
      BY <2>1, <2>2, <2>3, <2>4, <1>0
  <1>3. OrderMatchesMap'
    BY <1>1, OrderIsEnumeration DEF EvictLast
  <1>4. WithinCapacity'
    BY <1>0 DEF EvictLast, WithinCapacity
  <1>5. ReplaceAlwaysFits'
    BY <1>0 DEF ReplaceAlwaysFits
  <1>6. InsertView'
    BY <1>0 DEF InsertView, EvictLast
  <1>7. QED
    BY <1>2, <1>3, <1>4, <1>5, <1>6

\* A sweep without a victim only takes protections.
LEMMA EvictNothingKeeps ==
    ASSUME IInv, EvictNothing
    PROVE  IInv'
  <1> USE DEF EvictNothing
  <1>1. TypeOK'
    <2>1. protect' \in [Keys -> Nat] /\ guard' \in Int
      BY PaidIsProtect DEF IInv, TypeOK
    <2>2. QED
      BY <2>1 DEF IInv, TypeOK
  <1>2. OrderMatchesMap' /\ WithinCapacity'
    BY DEF IInv, OrderMatchesMap, WithinCapacity
  <1>3. ReplaceAlwaysFits' /\ InsertView'
    BY DEF IInv, ReplaceAlwaysFits, InsertView, Fits
  <1>4. QED
    BY <1>1, <1>2, <1>3 DEF IInv

(***************************************************************************)
(* NoSnapshot, which an ended insert leaves, is a snapshot.                *)
(***************************************************************************)
LEMMA NoSnapshotType ==
    NoSnapshot \in [order : Seq(Keys), resident : SUBSET Keys,
                    pinned : SUBSET Keys, protect : [Keys -> Nat]]
  BY DEF NoSnapshot

\* The new entry goes to the front of the list, within the budget.
LEMMA InsertTrueKeeps ==
    ASSUME IInv, InsertTrue
    PROVE  IInv'
  <1> USE DEF InsertTrue, InsertEnd
  <1>0. /\ inserting \in Keys /\ inserting \notin resident
        /\ Size[inserting] \in Nat
    BY SizeAssumption DEF IInv, TypeOK, InsertView
  <1>1. /\ order' \in Seq(Keys)
        /\ Enumerates(order', resident')
    BY <1>0, PrependEnumerates, OrderIsEnumeration DEF IInv, TypeOK
  <1>2. TypeOK'
    <2>1. used' \in Int /\ guard' \in Int
      BY <1>0 DEF IInv, TypeOK
    <2>2. resident' \subseteq Keys /\ pinned' \subseteq resident'
      BY <1>0 DEF IInv, TypeOK
    <2>3. QED
      BY <1>1, <2>1, <2>2, NoSnapshotType DEF IInv, TypeOK
  <1>3. OrderMatchesMap'
    BY <1>1, OrderIsEnumeration
  <1>4. WithinCapacity'
    BY <1>0 DEF Fits, WithinCapacity
  <1>5. ReplaceAlwaysFits' /\ InsertView'
    BY DEF ReplaceAlwaysFits, InsertView
  <1>6. QED
    BY <1>2, <1>3, <1>4, <1>5 DEF IInv

\* insert() gives up without touching the cache.
LEMMA InsertFalseKeeps ==
    ASSUME IInv, InsertFalse
    PROVE  IInv'
  <1>0. /\ inserting' = None /\ guard' = 0 /\ swept' = FALSE /\ before' = NoSnapshot
        /\ UNCHANGED content
    BY DEF InsertFalse, InsertEnd
  <1> USE <1>0 DEF content
  <1>1. TypeOK'
    <2>1. inserting' \in Keys \cup {None} /\ guard' \in Int
      OBVIOUS
    <2>2. swept' \in BOOLEAN
      BY <1>0, Zenon
    <2>3. before' \in [order : Seq(Keys), resident : SUBSET Keys,
                       pinned : SUBSET Keys, protect : [Keys -> Nat]]
      BY NoSnapshotType
    <2>4. UNCHANGED <<capacity, used, order, resident, pinned, protect>>
      OBVIOUS
    <2>5. QED
      BY <2>1, <2>2, <2>3, <2>4 DEF IInv, TypeOK
  <1>2. OrderMatchesMap' /\ WithinCapacity'
    BY DEF IInv, OrderMatchesMap, WithinCapacity
  <1>3. ReplaceAlwaysFits' /\ InsertView'
    BY DEF ReplaceAlwaysFits, InsertView
  <1>4. QED
    BY <1>1, <1>2, <1>3 DEF IInv

(***************************************************************************)
(* A step that changes nothing.                                            *)
(***************************************************************************)
LEMMA StutterKeeps ==
    ASSUME IInv, UNCHANGED vars
    PROVE  IInv'
  BY DEF IInv, vars, TypeOK, OrderMatchesMap, WithinCapacity,
         ReplaceAlwaysFits, InsertView, Fits

\* Every step keeps the invariant.
LEMMA NextKeeps == IInv /\ [Next]_vars => IInv'
  <1> SUFFICES ASSUME IInv, [Next]_vars PROVE IInv'
    OBVIOUS
  <1>1. ASSUME NEW c \in Capacities, Resize(c) PROVE IInv'
    BY <1>1, ResizeKeeps
  <1>2. ASSUME NEW k \in Keys, Hit(k) PROVE IInv'
    BY <1>2, HitKeeps
  <1>3. ASSUME NEW k \in Keys, Pin(k) PROVE IInv'
    BY <1>3, PinKeeps
  <1>4. ASSUME NEW k \in Keys, NEW n \in 1..MaxProtect, Boost(k, n) PROVE IInv'
    BY <1>4, BoostKeeps
  <1>5. ASSUME NEW k \in Keys, InsertBegin(k) PROVE IInv'
    BY <1>5, InsertBeginKeeps
  <1>6. ASSUME NEW i \in DOMAIN order, EvictLast(i) PROVE IInv'
    BY <1>6, EvictLastKeeps
  <1>7. QED
    BY <1>1, <1>2, <1>3, <1>4, <1>5, <1>6, EvictNothingKeeps, InsertTrueKeeps,
       InsertFalseKeeps, StutterKeeps DEF Next

(***************************************************************************)
(* IInv is an invariant of the cache.                                      *)
(***************************************************************************)
THEOREM Invariance == Spec => []IInv
  BY InitEstablishes, NextKeeps, PTL DEF Spec

-----------------------------------------------------------------------------

(***************************************************************************)
(* The state of the cache is always well typed (lru_cache.h's fields).     *)
(***************************************************************************)
THEOREM TypeCorrect == Spec => []TypeOK
  <1>1. IInv => TypeOK
    BY DEF IInv
  <1>2. QED
    BY <1>1, Invariance, PTL

(***************************************************************************)
(* lruOrder_ lists every entry of map_ exactly once, whatever the sequence *)
(* of hits, boosts, replacements and evictions.                            *)
(***************************************************************************)
THEOREM ListAgreesWithMap == Spec => []OrderMatchesMap
  <1>1. IInv => OrderMatchesMap
    BY DEF IInv
  <1>2. QED
    BY <1>1, Invariance, PTL

(***************************************************************************)
(* used_ never exceeds capacity_, in the middle of an insert included.     *)
(***************************************************************************)
THEOREM BudgetKept == Spec => []WithinCapacity
  <1>1. IInv => WithinCapacity
    BY DEF IInv
  <1>2. QED
    BY <1>1, Invariance, PTL

(***************************************************************************)
(* insert() on a resident key finds room for it without a single eviction. *)
(***************************************************************************)
THEOREM ReplacementFits == Spec => []ReplaceAlwaysFits
  <1>1. IInv => ReplaceAlwaysFits
    BY DEF IInv
  <1>2. QED
    BY <1>1, Invariance, PTL

(***************************************************************************)
(* A pinned expert leaves the cache, as its callers see it, only when the  *)
(* cache is resized.                                                       *)
(***************************************************************************)
LEMMA PinnedKept ==
    ASSUME IInv, [Next]_vars
    PROVE  (\E c \in Capacities : Resize(c)) \/ Pinned \subseteq Resident'
  <1> USE DEF Pinned, Resident
  <1>1. CASE \E k \in Keys : Hit(k) \/ Pin(k) \/ \E n \in 1..MaxProtect : Boost(k, n)
    BY <1>1 DEF Hit, Pin, Boost, progress, IInv, TypeOK
  <1>2. CASE \E k \in Keys : InsertBegin(k)
    <2>1. PICK k \in Keys : InsertBegin(k)
      BY <1>2
    <2>2. inserting = None /\ inserting' # None
      BY <2>1, NoneAssumption DEF InsertBegin
    <2>3. before'.resident = resident
      BY <2>1 DEF InsertBegin, Snapshot
    <2>4. QED
      BY <2>2, <2>3 DEF IInv, TypeOK
  <1>3. CASE EvictNothing \/ \E i \in DOMAIN order : EvictLast(i)
    BY <1>3 DEF EvictNothing, EvictLast, MustEvict, IInv, InsertView
  <1>4. CASE InsertTrue
    <2>1. before.pinned \ {inserting} \subseteq resident
      BY <1>4 DEF InsertTrue, IInv, InsertView, TypeOK
    <2>2. QED
      BY <2>1, <1>4 DEF InsertTrue, InsertEnd
  <1>5. CASE InsertFalse
    <2>1. inserting \notin before.resident
      BY <1>5 DEF InsertFalse, IInv, ReplaceAlwaysFits
    <2>2. before.pinned \subseteq resident
      BY <2>1, <1>5 DEF InsertFalse, IInv, InsertView, TypeOK
    <2>3. QED
      BY <2>2, <1>5 DEF InsertFalse, InsertEnd, content
  <1>6. CASE UNCHANGED vars
    BY <1>6 DEF vars, IInv, TypeOK, InsertView
  <1>7. QED
    BY <1>1, <1>2, <1>3, <1>4, <1>5, <1>6 DEF Next

(***************************************************************************)
(* Pins exempt from eviction through whole inserts: the property the run   *)
(* expert_lru checks.                                                      *)
(***************************************************************************)
THEOREM PinsHold == Spec => PinnedStaysResident
  <1>1. IInv /\ [Next]_vars =>
          [(\E c \in Capacities : Resize(c)) \/ Pinned \subseteq Resident']_vars
    BY PinnedKept
  <1>2. QED
    BY <1>1, Invariance, PTL DEF Spec, PinnedStaysResident

-----------------------------------------------------------------------------

(***************************************************************************)
(* What the list, the map and the budget owe to the beginning of the       *)
(* insert: the residents are some of those of the beginning, in their old  *)
(* order, with the pins of the beginning less the key's own; and an entry  *)
(* other than the key's own has left only if all could not stay.           *)
(***************************************************************************)
InsertHistory ==
    inserting # None =>
        /\ resident \subseteq before.resident
        /\ pinned = before.pinned \ {inserting}
        /\ Enumerates(before.order, before.resident)
        /\ \A i, j \in DOMAIN order : i < j => Behind(before.order, order[j], order[i])
        /\ resident # before.resident \ {inserting} =>
             SumFunctionOnSet(Size, before.resident \cup {inserting}) > capacity

(***************************************************************************)
(* The inductive invariant of the accounts: of the bytes, of the insert    *)
(* and of the boosts.                                                      *)
(***************************************************************************)
Accounts ==
    /\ UsedIsExact
    /\ InsertHistory
    /\ BoostsPaySweeps

\* What a list enumerates is finite.
LEMMA EnumeratedIsFinite ==
    ASSUME NEW s \in Seq(Keys), NEW R \in SUBSET Keys, Enumerates(s, R)
    PROVE  IsFiniteSet(R)
  <1>1. s \in [1..Len(s) -> R]
    BY DEF Enumerates
  <1>2. \A k \in R : \E i \in 1..Len(s) : s[i] = k
    BY DEF Enumerates
  <1>3. s \in Surjection(1..Len(s), R)
    BY <1>1, <1>2 DEF Surjection
  <1>4. IsFiniteSet(1..Len(s))
    BY FS_Interval
  <1>5. QED
    BY <1>3, <1>4, FS_Surjection

\* The bytes of the experts outside of k, and those of k.
LEMMA BytesTake ==
    ASSUME NEW R \in SUBSET Keys, IsFiniteSet(R), NEW k \in R
    PROVE  /\ SumFunctionOnSet(Size, R \ {k}) \in Int
           /\ Size[k] \in Int
           /\ SumFunctionOnSet(Size, R) = Size[k] + SumFunctionOnSet(Size, R \ {k})
  <1>1. /\ \A x \in R : Size[x] \in Int
        /\ \A x \in R \ {k} : Size[x] \in Int
    BY SizeAssumption
  <1>2. IsFiniteSet(R \ {k})
    BY FS_RemoveElement
  <1>3. SumFunctionOnSet(Size, R \ {k}) \in Int
    BY <1>1, <1>2, SumTakesAny
  <1>4. SumFunctionOnSet(Size, R) = Size[k] + SumFunctionOnSet(Size, R \ {k})
    BY <1>1, SumTakes
  <1>5. QED
    BY <1>1, <1>3, <1>4

\* The bytes of the residents with a newcomer.
LEMMA BytesAdd ==
    ASSUME NEW R \in SUBSET Keys, IsFiniteSet(R), NEW k \in Keys, k \notin R
    PROVE  SumFunctionOnSet(Size, R \cup {k}) = SumFunctionOnSet(Size, R) + Size[k]
  <1>1. IsFiniteSet(R \cup {k}) /\ (R \cup {k}) \ {k} = R
    BY FS_AddElement
  <1>2. \A x \in R : Size[x] \in Int
    BY SizeAssumption
  <1>3. SumFunctionOnSet(Size, R) \in Int /\ Size[k] \in Int
    BY <1>2, SizeAssumption, SumTakesAny
  <1>4. SumFunctionOnSet(Size, R \cup {k}) = Size[k] + SumFunctionOnSet(Size, R)
    BY <1>1, BytesTake
  <1>5. QED
    BY <1>3, <1>4

\* In every state of the cache, the entries of the map are finitely many.
LEMMA ResidentIsFinite ==
    ASSUME IInv
    PROVE  resident \in SUBSET Keys /\ IsFiniteSet(resident)
  BY EnumeratedIsFinite, OrderIsEnumeration DEF IInv, TypeOK

-----------------------------------------------------------------------------

\* used_ is exact in the empty cache.
LEMMA InitAccounts == Init => Accounts
  <1> SUFFICES ASSUME Init PROVE Accounts
    OBVIOUS
  <1>1. UsedIsExact
    BY SumTakesAny, FS_EmptySet DEF Init, UsedIsExact
  <1>2. InsertHistory /\ BoostsPaySweeps
    BY DEF Init, InsertHistory, BoostsPaySweeps
  <1>3. QED
    BY <1>1, <1>2 DEF Accounts

(***************************************************************************)
(* used_ stays the sum of the sizes of the entries.                        *)
(***************************************************************************)
LEMMA UsedStaysExact ==
    ASSUME IInv, UsedIsExact, [Next]_vars
    PROVE  UsedIsExact'
  <1> USE DEF UsedIsExact
  <1>0. resident \in SUBSET Keys /\ IsFiniteSet(resident)
    BY ResidentIsFinite
  <1>1. CASE \E c \in Capacities : Resize(c)
    <2>1. used' = 0 /\ resident' = {}
      BY <1>1 DEF Resize
    <2>2. SumFunctionOnSet(Size, {}) = 0
      BY SumTakesAny, FS_EmptySet
    <2>3. QED
      BY <2>1, <2>2
  <1>2. ASSUME NEW k \in Keys, InsertBegin(k)
        PROVE  UsedIsExact'
    <2>1. CASE k \in resident
      <3>1. used' = used - Size[k] /\ resident' = resident \ {k}
        BY <1>2, <2>1 DEF InsertBegin, DropEntry
      <3>2. SumFunctionOnSet(Size, resident) = Size[k] + SumFunctionOnSet(Size, resident \ {k})
        BY <1>0, <2>1, BytesTake
      <3>3. SumFunctionOnSet(Size, resident \ {k}) \in Int /\ Size[k] \in Int
        BY <1>0, <2>1, BytesTake
      <3>4. used' = SumFunctionOnSet(Size, resident \ {k})
        BY <3>1, <3>2, <3>3
      <3>5. QED
        BY <3>1, <3>4
    <2>2. CASE k \notin resident
      BY <1>2, <2>2 DEF InsertBegin
    <2>3. QED
      BY <2>1, <2>2
  <1>3. ASSUME NEW i \in DOMAIN order, EvictLast(i)
        PROVE  UsedIsExact'
    <2>1. order[i] \in resident /\ used' = used - Size[order[i]] /\ resident' = resident \ {order[i]}
      BY <1>3 DEF EvictLast, IInv, OrderMatchesMap, TypeOK
    <2>2. SumFunctionOnSet(Size, resident)
            = Size[order[i]] + SumFunctionOnSet(Size, resident \ {order[i]})
      BY <1>0, <2>1, BytesTake
    <2>3. SumFunctionOnSet(Size, resident \ {order[i]}) \in Int /\ Size[order[i]] \in Int
      BY <1>0, <2>1, BytesTake
    <2>4. used' = SumFunctionOnSet(Size, resident \ {order[i]})
      BY <2>1, <2>2, <2>3
    <2>5. QED
      BY <2>1, <2>4
  <1>4. CASE InsertTrue
    <2>1. inserting \in Keys /\ inserting \notin resident
      BY <1>4 DEF InsertTrue, IInv, TypeOK, InsertView
    <2>2. QED
      BY <1>0, <1>4, <2>1, BytesAdd DEF InsertTrue
  <1>5. CASE UNCHANGED <<used, resident>>
    BY <1>5
  <1>6. QED
    BY <1>1, <1>2, <1>3, <1>4, <1>5
       DEF Next, Hit, Pin, Boost, EvictNothing, InsertFalse, content, vars

-----------------------------------------------------------------------------

\* Erasing a node keeps the others in their order.
LEMMA EraseKeepsOrder ==
    ASSUME NEW s \in Seq(Keys), NEW i \in DOMAIN s,
           NEW j \in DOMAIN RemoveAt(s, i), NEW m \in DOMAIN RemoveAt(s, i), j < m
    PROVE  \E a, b \in DOMAIN s :
              a < b /\ s[a] = RemoveAt(s, i)[j] /\ s[b] = RemoveAt(s, i)[m]
  <1> DEFINE t == RemoveAt(s, i)
             up(n) == IF n < i THEN n ELSE n + 1
  <1>0. i \in 1..Len(s) /\ DOMAIN s = 1..Len(s) /\ Len(s) \in Nat
    OBVIOUS
  <1>1. /\ t \in Seq(Keys)
        /\ Len(t) = Len(s) - 1
        /\ \A n \in 1..(Len(s) - 1) : t[n] = IF n < i THEN s[n] ELSE s[n + 1]
    BY <1>0, RemoveAtShifts
  <1>2. DOMAIN t = 1..(Len(s) - 1)
    BY <1>1
  <1>3. j \in DOMAIN t /\ m \in DOMAIN t
    OBVIOUS
  <1> HIDE DEF t
  <1>4. up(j) \in DOMAIN s /\ up(m) \in DOMAIN s /\ up(j) < up(m)
    BY <1>0, <1>2, <1>3
  <1>5. s[up(j)] = t[j] /\ s[up(m)] = t[m]
    BY <1>1, <1>2, <1>3
  <1>6. QED
    BY <1>4, <1>5 DEF t

\* In an enumeration, nothing is behind what is behind it.
LEMMA BehindIsAsymmetric ==
    ASSUME NEW s \in Seq(Keys), NEW R, Enumerates(s, R), NEW x, NEW y, Behind(s, x, y)
    PROVE  ~Behind(s, y, x)
  <1>1. PICK i, j \in DOMAIN s : i < j /\ s[i] = y /\ s[j] = x
    BY DEF Behind
  <1>2. ASSUME NEW a \in DOMAIN s, NEW b \in DOMAIN s, a < b, s[a] = x, s[b] = y
        PROVE  FALSE
    <2>1. a = j /\ b = i
      BY <1>1, <1>2 DEF Enumerates
    <2>2. i \in Nat /\ j \in Nat
      OBVIOUS
    <2>3. QED
      BY <1>1, <1>2, <2>1, <2>2
  <1>3. QED
    BY <1>2 DEF Behind

\* insert() starts from what it finds, less the entry it replaces.
LEMMA HistoryBegins ==
    ASSUME IInv, NEW k \in Keys, InsertBegin(k)
    PROVE  InsertHistory' /\ BoostsPaySweeps'
  <1>1. /\ inserting' = k /\ swept' = FALSE /\ before' = Snapshot
        /\ resident' = resident \ {k}
        /\ pinned' = pinned \ {k}
    BY DEF InsertBegin, DropEntry, IInv, TypeOK
  <1>2. /\ before'.resident = resident /\ before'.pinned = pinned
        /\ before'.order = order /\ before'.protect = protect
    BY <1>1 DEF Snapshot
  <1>3. Enumerates(order, resident)
    BY OrderIsEnumeration DEF IInv
  <1>4. \A i, j \in DOMAIN order' : i < j => Behind(order, order'[j], order'[i])
    <2>1. CASE k \in resident
      <3>1. IndexOf(k) \in DOMAIN order
        BY <2>1, IndexOfFinds DEF IInv, TypeOK
      <3>2. order \in Seq(Keys) /\ order' = RemoveAt(order, IndexOf(k))
        BY <2>1 DEF InsertBegin, DropEntry, Without, IInv, TypeOK
      <3>3. QED
        BY <3>1, <3>2, EraseKeepsOrder DEF Behind
    <2>2. CASE k \notin resident
      BY <2>2 DEF InsertBegin, Behind
    <2>3. QED
      BY <2>1, <2>2
  <1>5. InsertHistory'
    <2>1. Enumerates(before'.order, before'.resident)
      BY <1>2, <1>3
    <2>2. \A i, j \in DOMAIN order' : i < j => Behind(before'.order, order'[j], order'[i])
      BY <1>2, <1>4
    <2>3. resident' = before'.resident \ {inserting'} /\ pinned' = before'.pinned \ {inserting'}
      BY <1>1, <1>2
    <2>4. Enumerates(before.order, before.resident)'
      BY <2>1 DEF Enumerates
    <2>5. (\A i, j \in DOMAIN order : i < j => Behind(before.order, order[j], order[i]))'
      BY <2>2 DEF Behind
    <2>6. QED
      BY <2>3, <2>4, <2>5 DEF InsertHistory
  <1>6. BoostsPaySweeps'
    <2>1. before'.resident \ (resident' \cup {inserting'}) = {}
      BY <1>1, <1>2
    <2>2. \A x : EvictedBefore(x)' = {}
      BY <2>1 DEF EvictedBefore
    <2>3. ASSUME NEW x \in resident'
          PROVE  before'.protect[x] - protect'[x] = 0
      <3>1. x \in Keys /\ x # k /\ protect \in [Keys -> Nat]
        BY <1>1, <2>3 DEF IInv, TypeOK
      <3>2. protect'[x] = protect[x]
        BY <3>1 DEF InsertBegin, DropEntry
      <3>3. QED
        BY <3>1, <3>2, <1>2
    <2>4. Cardinality({}) = 0
      BY FS_EmptySet
    <2>5. QED
      BY <1>1, <2>1, <2>2, <2>3, <2>4 DEF BoostsPaySweeps
  <1>7. QED
    BY <1>5, <1>6

\* An eviction takes one more entry away, and only when not all could stay.
LEMMA HistoryContinues ==
    ASSUME IInv, Accounts, NEW i \in DOMAIN order, EvictLast(i)
    PROVE  InsertHistory'
  <1>1. /\ inserting # None /\ ~Fits
        /\ resident' = resident \ {order[i]} /\ order' = RemoveAt(order, i)
        /\ UNCHANGED <<capacity, pinned, inserting, before>>
    BY DEF EvictLast, MustEvict
  <1>2. InsertHistory
    BY DEF Accounts
  <1>3. \A a, b \in DOMAIN order' : a < b => Behind(before.order, order'[b], order'[a])
    <2>1. SUFFICES ASSUME NEW a \in DOMAIN order', NEW b \in DOMAIN order', a < b
                   PROVE  Behind(before.order, order'[b], order'[a])
      OBVIOUS
    <2>2. order \in Seq(Keys)
      BY DEF IInv, TypeOK
    <2>3. PICK j, m \in DOMAIN order : j < m /\ order[j] = order'[a] /\ order[m] = order'[b]
      BY <1>1, <2>1, <2>2, EraseKeepsOrder
    <2>4. Behind(before.order, order[m], order[j])
      BY <1>1, <1>2, <2>3 DEF InsertHistory
    <2>5. QED
      BY <2>3, <2>4
  <1>4. SumFunctionOnSet(Size, before.resident \cup {inserting}) > capacity
    <2>1. CASE resident = before.resident \ {inserting}
      <3>1. before.resident \cup {inserting} = resident \cup {inserting}
        BY <2>1
      <3>2. inserting \in Keys /\ inserting \notin resident
        BY <1>1 DEF IInv, TypeOK, InsertView
      <3>3. SumFunctionOnSet(Size, resident \cup {inserting}) = used + Size[inserting]
        BY <3>2, ResidentIsFinite, BytesAdd DEF Accounts, UsedIsExact
      <3>4. used \in Int /\ Size[inserting] \in Int /\ capacity \in Int
        BY <3>2, SizeAssumption DEF IInv, TypeOK
      <3>5. used + Size[inserting] > capacity
        BY <1>1, <3>4 DEF Fits
      <3>6. QED
        BY <3>1, <3>3, <3>5
    <2>2. CASE resident # before.resident \ {inserting}
      BY <1>1, <1>2, <2>2 DEF InsertHistory
    <2>3. QED
      BY <2>1, <2>2
  <1>5. (\A a, b \in DOMAIN order : a < b => Behind(before.order, order[b], order[a]))'
    BY <1>1, <1>3 DEF Behind
  <1>6. Enumerates(before.order, before.resident)'
    BY <1>1, <1>2 DEF InsertHistory, Enumerates
  <1>7. QED
    BY <1>1, <1>2, <1>4, <1>5, <1>6 DEF InsertHistory

\* While an insert sweeps, the entries of its beginning are finitely many.
LEMMA BeforeIsFinite ==
    ASSUME IInv, InsertHistory, inserting # None
    PROVE  /\ before.resident \in SUBSET Keys /\ IsFiniteSet(before.resident)
           /\ before.order \in Seq(Keys)
           /\ \A k : IsFiniteSet(EvictedBefore(k)) /\ Cardinality(EvictedBefore(k)) \in Nat
  <1>1. /\ before.resident \in SUBSET Keys /\ before.order \in Seq(Keys)
        /\ Enumerates(before.order, before.resident)
    BY DEF IInv, TypeOK, InsertHistory
  <1>2. IsFiniteSet(before.resident)
    BY <1>1, EnumeratedIsFinite
  <1>3. \A k : EvictedBefore(k) \in SUBSET before.resident
    BY DEF EvictedBefore
  <1>4. QED
    BY <1>1, <1>2, <1>3, FS_Subset, FS_CardinalityType

\* A sweep that reaches everything behind i takes one protection there, and none elsewhere.
LEMMA SweepPays ==
    ASSUME IInv, NEW i \in Nat, NEW k \in resident \ pinned, NEW j \in DOMAIN order, order[j] = k
    PROVE  /\ j > i /\ protect[k] > 0 => PaidBehind(i)[k] = protect[k] - 1
           /\ ~(j > i) => PaidBehind(i)[k] = protect[k]
  <1>1. k \in Keys
    BY DEF IInv, TypeOK
  <1>2. \A m \in DOMAIN order : order[m] = k => m = j
    BY DEF IInv, OrderMatchesMap
  <1>3. QED
    BY <1>1, <1>2 DEF PaidBehind

(***************************************************************************)
(* The eviction of order[i]: an entry behind it pays one protection and    *)
(* has one more entry evicted before it; the others pay nothing; and the   *)
(* victim had paid for all that it had.                                    *)
(***************************************************************************)
LEMMA EvictionIsPaid ==
    ASSUME IInv, Accounts, NEW i \in DOMAIN order, EvictLast(i)
    PROVE  BoostsPaySweeps'
  <1> DEFINE v == order[i]
             Evicted == before.resident \ (resident \cup {inserting})
  <1>0. /\ inserting # None /\ swept = FALSE
        /\ v \in resident /\ v \notin pinned /\ protect[v] = 0
        /\ \A j \in Evictable : j <= i
        /\ resident' = resident \ {v} /\ protect' = PaidBehind(i)
        /\ UNCHANGED <<pinned, inserting, swept, before>>
    BY DEF EvictLast, MustEvict, Evictable, IInv, TypeOK, OrderMatchesMap
  <1>1. /\ InsertHistory /\ BoostsPaySweeps
        /\ resident \subseteq before.resident /\ inserting \notin resident
        /\ Enumerates(before.order, before.resident)
        /\ before.protect \in [Keys -> Nat] /\ protect \in [Keys -> Nat]
        /\ resident \subseteq Keys /\ order \in Seq(Keys)
    BY <1>0 DEF Accounts, InsertHistory, InsertView, IInv, TypeOK
  <1>2. /\ before.resident \in SUBSET Keys /\ before.order \in Seq(Keys)
        /\ \A k : IsFiniteSet(EvictedBefore(k)) /\ Cardinality(EvictedBefore(k)) \in Nat
    BY <1>0, <1>1, BeforeIsFinite
  <1> HIDE DEF v
  <1>3. before'.resident \ (resident' \cup {inserting'}) = Evicted \cup {v} /\ v \notin Evicted
    BY <1>0, <1>1
  <1>4. \A k : EvictedBefore(k)' = {w \in Evicted \cup {v} : Behind(before.order, k, w)}
    BY <1>0, <1>3 DEF EvictedBefore, Behind
  <1>5. \A k : EvictedBefore(k) = {w \in Evicted : Behind(before.order, k, w)}
    BY DEF EvictedBefore
  <1> HIDE DEF Evicted
  <1>6. \A k : /\ Behind(before.order, k, v) => EvictedBefore(k)' = EvictedBefore(k) \cup {v}
               /\ ~Behind(before.order, k, v) => EvictedBefore(k)' = EvictedBefore(k)
    BY <1>4, <1>5
  <1>7. \A k : v \notin EvictedBefore(k)
    BY <1>3, <1>5
  <1>8. \A k : /\ Behind(before.order, k, v) =>
                     Cardinality(EvictedBefore(k)') = Cardinality(EvictedBefore(k)) + 1
               /\ ~Behind(before.order, k, v) =>
                     Cardinality(EvictedBefore(k)') = Cardinality(EvictedBefore(k))
    BY <1>2, <1>6, <1>7, FS_AddElement
  <1>9. ASSUME NEW k \in resident' \ pinned'
        PROVE  before'.protect[k] - protect'[k] = Cardinality(EvictedBefore(k)')
    <2>1. k \in resident \ pinned /\ k # v /\ k \in Keys
      BY <1>0, <1>1
    <2>2. before.protect[k] - protect[k] = Cardinality(EvictedBefore(k))
      <3>1. before.protect[k] - protect[k] = Cardinality(EvictedBefore(k)) + 0
        BY <1>0, <1>1, <2>1 DEF BoostsPaySweeps
      <3>2. QED
        BY <1>2, <3>1
    <2>3. PICK j \in DOMAIN order : order[j] = k
      BY <2>1 DEF IInv, OrderMatchesMap
    <2>4. i \in Nat /\ j \in Nat /\ j # i
      BY <1>1, <2>1, <2>3 DEF v
    <2>5. CASE j > i
      <3>1. protect[k] > 0
        <4>1. j \notin Evictable
          BY <1>0, <2>4, <2>5
        <4>2. protect[k] # 0
          BY <2>1, <2>3, <4>1 DEF Evictable
        <4>3. QED
          BY <1>1, <2>1, <4>2
      <3>2. protect'[k] = protect[k] - 1
        BY <1>0, <2>1, <2>3, <2>4, <2>5, <3>1, SweepPays
      <3>3. Behind(before.order, k, v)
        BY <1>0, <1>1, <2>3, <2>4, <2>5 DEF InsertHistory, v
      <3>4. Cardinality(EvictedBefore(k)') = Cardinality(EvictedBefore(k)) + 1
        BY <1>8, <3>3
      <3>5. before.protect[k] \in Int /\ protect[k] \in Int /\ Cardinality(EvictedBefore(k)) \in Int
        BY <1>1, <1>2, <2>1
      <3>6. QED
        BY <1>0, <2>2, <3>2, <3>4, <3>5
    <2>6. CASE j < i
      <3>1. protect'[k] = protect[k]
        BY <1>0, <2>1, <2>3, <2>4, <2>6, SweepPays
      <3>2. Behind(before.order, v, k)
        BY <1>0, <1>1, <2>3, <2>4, <2>6 DEF InsertHistory, v
      <3>3. ~Behind(before.order, k, v)
        BY <1>1, <1>2, <3>2, BehindIsAsymmetric
      <3>4. QED
        BY <1>0, <1>8, <2>2, <3>1, <3>3
    <2>7. QED
      BY <2>4, <2>5, <2>6
  <1>10. ASSUME NEW k \in Evicted \cup {v}
         PROVE  before'.protect[k] <= Cardinality(EvictedBefore(k)')
    <2>1. k \in Keys
      BY <1>0, <1>1, <1>2, <1>10 DEF Evicted
    <2>2. before.protect[k] <= Cardinality(EvictedBefore(k))
      <3>1. CASE k \in Evicted
        BY <1>0, <1>1, <3>1 DEF BoostsPaySweeps, Evicted
      <3>2. CASE k = v
        <4>1. before.protect[v] - protect[v] = Cardinality(EvictedBefore(v)) + 0
          BY <1>0, <1>1 DEF BoostsPaySweeps
        <4>2. before.protect[v] \in Int /\ Cardinality(EvictedBefore(v)) \in Int
          BY <1>1, <1>2, <2>1, <3>2
        <4>3. QED
          BY <1>0, <3>2, <4>1, <4>2
      <3>3. QED
        BY <1>10, <3>1, <3>2
    <2>3. Cardinality(EvictedBefore(k)) <= Cardinality(EvictedBefore(k)')
      BY <1>2, <1>8
    <2>4. before.protect[k] \in Int /\ Cardinality(EvictedBefore(k)) \in Int
      BY <1>1, <1>2, <2>1
    <2>5. Cardinality(EvictedBefore(k)') \in Int
      BY <1>2, <1>8
    <2>6. QED
      BY <1>0, <2>2, <2>3, <2>4, <2>5
  <1>11. \A k : Cardinality(EvictedBefore(k)') \in Int
    BY <1>2, <1>8
  <1>12. QED
    BY <1>0, <1>3, <1>9, <1>10, <1>11 DEF BoostsPaySweeps

(***************************************************************************)
(* A sweep without a victim: every entry not pinned pays one protection.   *)
(***************************************************************************)
LEMMA EmptySweepIsPaid ==
    ASSUME IInv, Accounts, EvictNothing
    PROVE  BoostsPaySweeps'
  <1>0. /\ inserting # None /\ swept = FALSE /\ swept' = TRUE
        /\ Evictable = {} /\ protect' = PaidBehind(0)
        /\ UNCHANGED <<resident, pinned, inserting, before>>
    BY DEF EvictNothing, MustEvict, IInv, TypeOK
  <1>1. /\ InsertHistory /\ BoostsPaySweeps
        /\ before.protect \in [Keys -> Nat] /\ protect \in [Keys -> Nat]
        /\ resident \subseteq Keys /\ order \in Seq(Keys)
    BY DEF Accounts, IInv, TypeOK
  <1>2. \A k : EvictedBefore(k)' = EvictedBefore(k) /\ Cardinality(EvictedBefore(k)) \in Nat
    BY <1>0, <1>1, BeforeIsFinite DEF EvictedBefore, Behind
  <1>3. ASSUME NEW k \in resident \ pinned
        PROVE  before.protect[k] - protect'[k] = Cardinality(EvictedBefore(k)) + 1
    <2>1. before.protect[k] - protect[k] = Cardinality(EvictedBefore(k)) + 0
      BY <1>0, <1>1 DEF BoostsPaySweeps
    <2>2. PICK j \in DOMAIN order : order[j] = k
      BY <1>1, <1>3 DEF IInv, OrderMatchesMap
    <2>3. j \in Nat /\ j > 0 /\ k \in Keys
      BY <1>1
    <2>4. protect[k] > 0
      <3>1. protect[k] # 0
        BY <1>0, <2>2 DEF Evictable
      <3>2. QED
        BY <1>1, <2>3, <3>1
    <2>5. protect'[k] = protect[k] - 1
      BY <1>0, <2>2, <2>3, <2>4, SweepPays
    <2>6. before.protect[k] \in Int /\ protect[k] \in Int /\ Cardinality(EvictedBefore(k)) \in Int
      BY <1>1, <1>2, <2>3
    <2>7. QED
      BY <2>1, <2>5, <2>6
  <1>4. QED
    BY <1>0, <1>1, <1>2, <1>3 DEF BoostsPaySweeps

\* Every step keeps the accounts.
LEMMA NextKeepsAccounts == IInv /\ Accounts /\ [Next]_vars => Accounts'
  <1> SUFFICES ASSUME IInv, Accounts, [Next]_vars PROVE Accounts'
    OBVIOUS
  <1>1. UsedIsExact'
    BY UsedStaysExact DEF Accounts
  <1>2. ASSUME NEW k \in Keys, InsertBegin(k) PROVE InsertHistory' /\ BoostsPaySweeps'
    BY <1>2, HistoryBegins
  <1>3. ASSUME NEW i \in DOMAIN order, EvictLast(i) PROVE InsertHistory' /\ BoostsPaySweeps'
    BY <1>3, HistoryContinues, EvictionIsPaid
  <1>4. ASSUME EvictNothing PROVE InsertHistory' /\ BoostsPaySweeps'
    <2>1. InsertHistory'
      BY <1>4 DEF EvictNothing, Accounts, InsertHistory, Enumerates, Behind
    <2>2. QED
      BY <1>4, <2>1, EmptySweepIsPaid
  <1>5. ASSUME inserting' = None PROVE InsertHistory' /\ BoostsPaySweeps'
    BY <1>5 DEF InsertHistory, BoostsPaySweeps
  <1>6. ASSUME UNCHANGED vars PROVE InsertHistory' /\ BoostsPaySweeps'
    <2>1. InsertHistory'
      BY <1>6 DEF vars, Accounts, InsertHistory, Enumerates, Behind
    <2>2. BoostsPaySweeps'
      <3>1. \A k : EvictedBefore(k)' = EvictedBefore(k)
        BY <1>6 DEF vars, EvictedBefore, Behind
      <3>2. QED
        BY <1>6, <3>1 DEF vars, Accounts, BoostsPaySweeps
    <2>3. QED
      BY <2>1, <2>2
  <1>7. QED
    BY <1>1, <1>2, <1>3, <1>4, <1>5, <1>6
       DEF Next, Accounts, Resize, Hit, Pin, Boost, progress, InsertTrue, InsertFalse, InsertEnd

(***************************************************************************)
(* The accounts are an invariant of the cache.                             *)
(***************************************************************************)
THEOREM AccountsKept == Spec => []Accounts
  BY InitAccounts, NextKeepsAccounts, Invariance, PTL DEF Spec

(***************************************************************************)
(* used_ is the sum of the sizes of the entries at every moment, between   *)
(* two sweeps of an insert too: the budget never drifts.                   *)
(***************************************************************************)
THEOREM BytesAreExact == Spec => []UsedIsExact
  <1>1. Accounts => UsedIsExact
    BY DEF Accounts
  <1>2. QED
    BY <1>1, AccountsKept, PTL

(***************************************************************************)
(* Eviction is least recently used first but for boosts, and a boost of n  *)
(* outlives n sweeps, neither more nor fewer.                              *)
(***************************************************************************)
THEOREM BoostsArePaid == Spec => []BoostsPaySweeps
  <1>1. Accounts => BoostsPaySweeps
    BY DEF Accounts
  <1>2. QED
    BY <1>1, AccountsKept, PTL

-----------------------------------------------------------------------------

\* The byte count of the abstract cache is the one of this module.
LEMMA SameBytes == \A S : Cache!Bytes(S) = SumFunctionOnSet(Size, S)
  BY DEF Cache!Bytes, Cache!SumFunctionOnSet, Cache!FoldFunctionOnSet, Cache!MapThenFoldSet,
         SumFunctionOnSet, FoldFunctionOnSet, MapThenFoldSet

\* What an insert has evicted, it was allowed to: no pin, and nothing without need.
LEMMA EvictedAreVictims ==
    ASSUME IInv, Accounts, inserting # None
    PROVE  before.resident \ (resident \cup {inserting}) \in Cache!Victims(inserting)
  <1> DEFINE E == before.resident \ (resident \cup {inserting})
  <1>1. /\ Resident = before.resident /\ Pinned = before.pinned
        /\ pinned \subseteq resident /\ pinned = before.pinned \ {inserting}
        /\ resident \subseteq before.resident
        /\ inserting \in Keys /\ inserting \notin resident /\ capacity \in Int
    BY DEF Resident, Pinned, Accounts, InsertHistory, InsertView, IInv, TypeOK
  <1>2. E \in SUBSET (Resident \ (Pinned \cup {inserting}))
    BY <1>1
  <1>3. ASSUME E # {}
        PROVE  ~(Cache!Bytes(Resident \cup {inserting}) <= capacity)
    <2>1. resident # before.resident \ {inserting}
      BY <1>3
    <2>2. SumFunctionOnSet(Size, before.resident \cup {inserting}) > capacity
      BY <2>1 DEF Accounts, InsertHistory
    <2>3. SumFunctionOnSet(Size, before.resident \cup {inserting}) \in Int
      <3>1. /\ before.resident \cup {inserting} \in SUBSET Keys
            /\ IsFiniteSet(before.resident \cup {inserting})
        BY <1>1, BeforeIsFinite, FS_AddElement DEF Accounts
      <3>2. \A x \in before.resident \cup {inserting} : Size[x] \in Int
        BY <3>1, SizeAssumption
      <3>3. QED
        BY <3>1, <3>2, SumTakesAny
    <2>4. QED
      BY <1>1, <2>2, <2>3, SameBytes
  <1>4. QED
    BY <1>2, <1>3 DEF Cache!Victims

\* An insert that gets its entry in is one Put of the abstract cache.
LEMMA InsertTrueIsPut ==
    ASSUME IInv, Accounts, InsertTrue
    PROVE  Cache!Next
  <1> DEFINE E == before.resident \ (resident \cup {inserting})
  <1>1. /\ inserting \in Keys /\ inserting # None /\ inserting \notin resident /\ Fits
        /\ inserting' = None /\ resident' = resident \cup {inserting}
        /\ pinned' = pinned /\ capacity' = capacity
        /\ resident \subseteq before.resident /\ pinned \subseteq resident
        /\ pinned = before.pinned \ {inserting}
    BY DEF InsertTrue, InsertEnd, IInv, TypeOK, InsertView, Accounts, InsertHistory
  <1>2. Resident = before.resident /\ Pinned = before.pinned
    BY <1>1 DEF Resident, Pinned
  <1>3. Resident' = resident \cup {inserting} /\ Pinned' = pinned
    BY <1>1 DEF Resident, Pinned
  <1>4. (Resident \ E) \cup {inserting} = resident \cup {inserting}
    BY <1>1, <1>2
  <1>5. Cache!Bytes(resident \cup {inserting}) <= capacity
    <2>1. Cache!Bytes(resident \cup {inserting}) = used + Size[inserting]
      BY <1>1, SameBytes, ResidentIsFinite, BytesAdd DEF Accounts, UsedIsExact
    <2>2. QED
      BY <1>1, <2>1 DEF Fits
  <1>6. E \in Cache!Victims(inserting)
    BY <1>1, EvictedAreVictims
  <1> HIDE DEF E
  <1>7. Cache!Put(inserting, E)
    BY <1>1, <1>2, <1>3, <1>4, <1>5 DEF Cache!Put
  <1>8. QED
    BY <1>1, <1>6, <1>7 DEF Cache!Next

\* An insert that gives up is one PutRejected.
LEMMA InsertFalseIsPutRejected ==
    ASSUME IInv, Accounts, InsertFalse
    PROVE  Cache!Next
  <1> DEFINE E == before.resident \ (resident \cup {inserting})
  <1>1. /\ inserting \in Keys /\ inserting # None /\ inserting \notin resident /\ ~Fits
        /\ inserting' = None /\ resident' = resident
        /\ pinned' = pinned /\ capacity' = capacity
        /\ resident \subseteq before.resident /\ pinned \subseteq resident
        /\ before.pinned \subseteq before.resident
        /\ pinned = before.pinned \ {inserting}
    BY DEF InsertFalse, InsertEnd, content, IInv, TypeOK, InsertView, Accounts, InsertHistory
  <1>2. inserting \notin before.resident
    BY <1>1 DEF IInv, ReplaceAlwaysFits
  <1>3. Resident = before.resident /\ Pinned = pinned
    BY <1>1, <1>2 DEF Resident, Pinned
  <1>4. Resident' = resident /\ Pinned' = pinned
    BY <1>1 DEF Resident, Pinned
  <1>5. Resident \ E = resident
    BY <1>1, <1>2, <1>3
  <1>6. ~(Cache!Bytes(resident \cup {inserting}) <= capacity)
        /\ Cache!Bytes(resident \cup {inserting}) > capacity
    <2>1. Cache!Bytes(resident \cup {inserting}) = used + Size[inserting]
      BY <1>1, SameBytes, ResidentIsFinite, BytesAdd DEF Accounts, UsedIsExact
    <2>2. used \in Int /\ Size[inserting] \in Int /\ capacity \in Int
      BY <1>1, SizeAssumption DEF IInv, TypeOK
    <2>3. QED
      BY <1>1, <2>1, <2>2 DEF Fits
  <1>7. E \in Cache!Victims(inserting)
    BY <1>1, EvictedAreVictims
  <1> HIDE DEF E
  <1>8. Cache!PutRejected(inserting, E)
    BY <1>1, <1>2, <1>3, <1>4, <1>5, <1>6 DEF Cache!PutRejected
  <1>9. QED
    BY <1>1, <1>7, <1>8 DEF Cache!Next

\* Every step of the cache is a step of the abstract one, or none.
LEMMA NextRefines ==
    ASSUME IInv, Accounts, [Next]_vars
    PROVE  [Cache!Next]_Cache!cacheVars
  <1> USE DEF Resident, Pinned
  <1>1. ASSUME NEW c \in Capacities, Resize(c)
        PROVE  Cache!Next
    <2>1. Cache!Resize(c)
      BY <1>1 DEF Resize, progress, Cache!Resize
    <2>2. QED
      BY <2>1 DEF Cache!Next
  <1>2. ASSUME NEW k \in Keys, Pin(k)
        PROVE  Cache!Next
    <2>1. Cache!Pin(k)
      BY <1>2 DEF Pin, progress, Cache!Pin
    <2>2. QED
      BY <2>1 DEF Cache!Next
  <1>3. ASSUME NEW k \in Keys, Hit(k) \/ \E n \in 1..MaxProtect : Boost(k, n)
        PROVE  UNCHANGED Cache!cacheVars
    BY <1>3 DEF Hit, Boost, progress, Cache!cacheVars
  <1>4. ASSUME NEW k \in Keys, InsertBegin(k)
        PROVE  UNCHANGED Cache!cacheVars
    <2>1. inserting = None /\ inserting' # None /\ capacity' = capacity /\ before' = Snapshot
      BY <1>4, NoneAssumption DEF InsertBegin
    <2>2. before'.resident = resident /\ before'.pinned = pinned
      BY <2>1 DEF Snapshot
    <2>3. QED
      BY <2>1, <2>2 DEF Cache!cacheVars
  <1>5. CASE EvictNothing \/ \E i \in DOMAIN order : EvictLast(i)
    BY <1>5 DEF EvictNothing, EvictLast, MustEvict, Cache!cacheVars
  <1>6. CASE UNCHANGED vars
    BY <1>6 DEF vars, Cache!cacheVars
  <1>7. QED
    BY <1>1, <1>2, <1>3, <1>4, <1>5, <1>6, InsertTrueIsPut, InsertFalseIsPutRejected DEF Next

(***************************************************************************)
(* The class does what its callers are promised: a whole insert, sweeps    *)
(* included, is one atomic put that evicts only what it may and must.      *)
(***************************************************************************)
THEOREM Refinement == Spec => ImplementsExpertCache
  <1>1. Init => Cache!Init
    BY DEF Init, Cache!Init, Resident, Pinned
  <1>2. QED
    BY <1>1, NextRefines, Invariance, AccountsKept, PTL DEF Spec, ImplementsExpertCache, Cache!Spec
=============================================================================
