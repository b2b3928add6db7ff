--------------------------- MODULE MoeLayerProofs ---------------------------
(***************************************************************************)
(* The proofs about MoeLayer: first what each operation on the device's    *)
(* expert cache does to its parts, then the invariant of the cache, then   *)
(* that of a layer.                                                        *)
(***************************************************************************)
EXTENDS MoeLayer, FoldLemmas, SequenceTheorems

-----------------------------------------------------------------------------
(* Greatest and least elements *)

\* The greatest of a non-empty, bounded set of naturals is one of them.
LEMMA GreatestNat ==
    ASSUME NEW S \in SUBSET Nat, S # {}, NEW b \in Nat, \A x \in S : x <= b
    PROVE  Max(S) \in S /\ \A x \in S : x <= Max(S)
<1> DEFINE T == {b - x : x \in S}
<1>1. T \in SUBSET Nat /\ T # {}
  <2>1. \A x \in S : b - x \in Nat
    OBVIOUS
  <2>2. QED
    BY <2>1
<1>2. PICK y \in T : \A z \in T : y <= z
  <2> HIDE DEF T
  <2>1. QED
    BY <1>1, LeastNat
<1>3. PICK m \in S : y = b - m
  BY <1>2
<1>4. \A x \in S : m >= x
  <2>1. ASSUME NEW x \in S
        PROVE  m >= x
    <3>1. b - m <= b - x
      BY <1>2, <1>3
    <3>2. m \in Nat /\ x \in Nat
      OBVIOUS
    <3>3. QED
      BY <3>1, <3>2
  <2>2. QED
    BY <2>1
<1>5. /\ Max(S) \in S
      /\ \A x \in S : Max(S) >= x
  BY <1>4 DEF Max
<1>6. Max(S) \in Nat
  BY <1>5
<1>7. QED
  BY <1>5, <1>6

\* The least of a non-empty set of naturals is one of them.
LEMMA SmallestNat ==
    ASSUME NEW S \in SUBSET Nat, S # {}
    PROVE  Min(S) \in S /\ \A x \in S : Min(S) <= x
BY LeastNat DEF Min

\* A finite sequence of naturals has a greatest value.
LEMMA GreatestPlace ==
    ASSUME NEW n \in Nat, NEW f, \A j \in 1 .. n : f[j] \in Nat, n # 0
    PROVE  \E j \in 1 .. n : \A k \in 1 .. n : f[k] <= f[j]
<1> DEFINE Has(m) == \E j \in 1 .. m : \A k \in 1 .. m : f[k] <= f[j]
           Bad == {m \in 1 .. n : ~Has(m)}
<1>1. Bad = {}
  <2> SUFFICES ASSUME Bad # {}
               PROVE  FALSE
    OBVIOUS
  <2>1. Bad \in SUBSET Nat
    OBVIOUS
  <2>2. PICK m \in Bad : \A x \in Bad : m <= x
    <3> HIDE DEF Bad
    <3>1. QED
      BY <2>1, LeastNat
  <2>3. m \in 1 .. n /\ ~Has(m)
    BY <2>2
  <2>4. CASE m = 1
    <3>1. \A k \in 1 .. m : f[k] <= f[1]
      BY <2>4
    <3>2. QED
      BY <2>3, <2>4, <3>1
  <2>5. CASE m # 1
    <3>1. m - 1 \in 1 .. n /\ m - 1 \notin Bad
      <4>1. m - 1 \in 1 .. n /\ ~(m <= m - 1)
        BY <2>3, <2>5
      <4>2. QED
        BY <2>2, <4>1
    <3>2. PICK j \in 1 .. m - 1 : \A k \in 1 .. m - 1 : f[k] <= f[j]
      BY <3>1
    <3>3. f[m] \in Nat /\ f[j] \in Nat /\ j \in 1 .. m /\ m \in 1 .. m
      BY <2>3, <3>2
    <3>4. CASE f[m] <= f[j]
      <4>1. \A k \in 1 .. m : k = m \/ k \in 1 .. m - 1
        BY <2>3
      <4>2. \A k \in 1 .. m : f[k] <= f[j]
        BY <4>1, <3>2, <3>4
      <4>3. QED
        BY <2>3, <3>3, <4>2
    <3>5. CASE f[j] < f[m]
      <4>1. ASSUME NEW k \in 1 .. m
            PROVE  f[k] <= f[m]
        <5>1. CASE k = m
          BY <3>3, <5>1
        <5>2. CASE k # m
          <6>1. k \in 1 .. m - 1 /\ f[k] \in Nat
            BY <2>3, <5>2
          <6>2. f[k] <= f[j]
            BY <6>1, <3>2
          <6>3. QED
            BY <6>1, <6>2, <3>3, <3>5
        <5>3. QED
          BY <5>1, <5>2
      <4>2. QED
        BY <2>3, <3>3, <4>1
    <3>6. QED
      BY <3>3, <3>4, <3>5
  <2>6. QED
    BY <2>4, <2>5
<1>2. n \in 1 .. n
  OBVIOUS
<1>3. QED
  BY <1>1, <1>2

-----------------------------------------------------------------------------
(* The copy stream *)

\* None of the first n copies is for the slot.
NoCopy(g, n, d) == \A j \in 1 .. n : g.copies[j].slot # d

\* The last of the first n copies for the slot is the j-th.
LastCopy(g, n, d, j) ==
    /\ j \in 1 .. n
    /\ g.copies[j].slot = d
    /\ \A k \in 1 .. n : j < k => g.copies[k].slot # d

\* The copies for a slot among the first n are none, or have a last one.
LEMMA LastOrNone ==
    ASSUME NEW g, NEW n \in Nat, NEW d
    PROVE  /\ NoCopy(g, n, d) => After(g, n, d) = g.dev[d]
           /\ NoCopy(g, n, d) \/ \E j : LastCopy(g, n, d, j)
<1> DEFINE mine == {j \in 1 .. n : g.copies[j].slot = d}
<1>1. NoCopy(g, n, d) <=> mine = {}
  BY DEF NoCopy
<1>2. mine \in SUBSET Nat /\ \A x \in mine : x <= n
  OBVIOUS
<1>3. mine # {} => Max(mine) \in mine /\ \A x \in mine : x <= Max(mine)
  <2> HIDE DEF mine
  <2>1. QED
    BY <1>2, GreatestNat
<1>4. mine # {} => LastCopy(g, n, d, Max(mine))
  <2>1. SUFFICES ASSUME mine # {}, NEW k \in 1 .. n, Max(mine) < k, g.copies[k].slot = d
                 PROVE  FALSE
    BY <1>3 DEF LastCopy
  <2>2. k <= Max(mine)
    BY <1>3, <2>1
  <2>3. Max(mine) \in Nat
    BY <1>2, <1>3, <2>1
  <2>4. QED
    BY <2>1, <2>2, <2>3
<1>5. QED
  BY <1>1, <1>4 DEF After

\* The last copy for a slot is the one that counts.
LEMMA LastCounts ==
    ASSUME NEW g, NEW n \in Nat, NEW d, NEW j, LastCopy(g, n, d, j)
    PROVE  After(g, n, d) = g.host[g.copies[j].stage]
<1> DEFINE mine == {k \in 1 .. n : g.copies[k].slot = d}
<1>1. mine \in SUBSET Nat /\ \A x \in mine : x <= n
  OBVIOUS
<1>2. j \in mine
  BY DEF LastCopy
<1>3. Max(mine) \in mine /\ \A x \in mine : x <= Max(mine)
  <2> HIDE DEF mine
  <2>1. QED
    BY <1>1, <1>2, GreatestNat
<1>4. Max(mine) = j
  <2>1. ~(j < Max(mine))
    BY <1>3 DEF LastCopy
  <2>2. j <= Max(mine) /\ j \in Nat /\ Max(mine) \in Nat
    BY <1>1, <1>2, <1>3
  <2>3. QED
    BY <2>1, <2>2
<1>5. QED
  BY <1>2, <1>4 DEF After

-----------------------------------------------------------------------------
(* What each operation does to the parts of the cache *)

Parts == {"capacity", "configured", "slotOf", "inUse", "age", "slotPending", "nextStageSlot",
          "uploadPending", "eventOf", "host", "dev", "copies"}

\* Nothing but the parts P differs between g and h.
OnlyIn(P, g, h) == \A p \in Parts \ P : h[p] = g[p]

\* A cache of the right shape.
Shape(g) ==
    /\ g = [p \in Parts |-> g[p]]
    /\ g.capacity \in Nat
    /\ GpuType(g)

\* A queued copy is between a pinned buffer and a device slot.
LEMMA QueuedCopies ==
    ASSUME NEW g, Shape(g)
    PROVE  /\ Len(g.copies) \in Nat
           /\ \A j \in 1 .. Len(g.copies) :
                g.copies[j].stage \in StageSlots /\ g.copies[j].slot \in DeviceSlots(g)
<1>1. g.copies \in Seq([stage : StageSlots, slot : DeviceSlots(g)])
  BY DEF Shape, GpuType
<1>2. \A j \in 1 .. Len(g.copies) : g.copies[j] \in [stage : StageSlots, slot : DeviceSlots(g)]
  BY <1>1, ElementOfSeq
<1>3. QED
  BY <1>1, <1>2

\* What copies leave in a slot is the bytes of some key, or what a fresh buffer holds.
LEMMA AfterIsContents ==
    ASSUME NEW g, Shape(g), NEW n \in 0 .. Len(g.copies), NEW d \in DeviceSlots(g)
    PROVE  After(g, n, d) \in Contents
<1>1. /\ g.dev[d] \in Contents
      /\ \A s \in StageSlots : g.host[s] \in Contents
  BY DEF Shape, GpuType
<1>2. n \in Nat /\ \A j \in 1 .. n : g.copies[j].stage \in StageSlots
  BY QueuedCopies
<1>3. CASE NoCopy(g, n, d)
  BY <1>1, <1>2, <1>3, LastOrNone
<1>4. ASSUME NEW j, LastCopy(g, n, d, j)
      PROVE  After(g, n, d) \in Contents
  <2>1. After(g, n, d) = g.host[g.copies[j].stage]
    BY <1>2, <1>4, LastCounts
  <2>2. QED
    BY <1>1, <1>2, <1>4, <2>1 DEF LastCopy
<1>5. QED
  BY <1>2, <1>3, <1>4, LastOrNone

\* Copies that run move to the device what they bring there, in their order.
LEMMA CopiedParts ==
    ASSUME NEW g, Shape(g), NEW n \in 0 .. Len(g.copies)
    PROVE  /\ Shape(Copied(g, n))
           /\ OnlyIn({"dev", "copies"}, g, Copied(g, n))
           /\ \A d \in DeviceSlots(g) : Copied(g, n).dev[d] = After(g, n, d)
           /\ Len(Copied(g, n).copies) = Len(g.copies) - n
           /\ \A j \in 1 .. Len(g.copies) - n : Copied(g, n).copies[j] = g.copies[n + j]
<1> DEFINE h == Copied(g, n)
           dev == [d \in DeviceSlots(g) |-> After(g, n, d)]
           copies == SubSeq(g.copies, n + 1, Len(g.copies))
           Copy == [stage : StageSlots, slot : DeviceSlots(g)]
<1>1. g.dev \in [DeviceSlots(g) -> Contents] /\ g.copies \in Seq(Copy)
  BY DEF Shape, GpuType
<1>2. h = [g EXCEPT !.dev = dev, !.copies = copies]
  BY <1>1 DEF Copied
<1>3. dev \in [DeviceSlots(g) -> Contents]
  BY AfterIsContents
<1>4. /\ copies \in Seq(Copy)
      /\ Len(copies) = Len(g.copies) - n
      /\ \A j \in 1 .. Len(g.copies) - n : copies[j] = g.copies[n + j]
  <2> HIDE DEF Copy
  <2>1. \A j \in n + 1 .. Len(g.copies) : g.copies[j] \in Copy
    <3>1. \A j \in 1 .. Len(g.copies) : g.copies[j] \in Copy
      BY <1>1, ElementOfSeq
    <3>2. QED
      BY <1>1, <3>1
  <2>2. n + 1 \in Int /\ Len(g.copies) \in Int /\ Len(g.copies) \in Nat
    BY <1>1
  <2>3. /\ copies \in Seq(Copy)
        /\ Len(copies) = IF n + 1 <= Len(g.copies) THEN Len(g.copies) - (n + 1) + 1 ELSE 0
        /\ \A j \in 1 .. Len(g.copies) - (n + 1) + 1 : copies[j] = g.copies[n + 1 + j - 1]
    BY <2>1, <2>2, SubSeqProperties
  <2>4. QED
    BY <2>2, <2>3
<1> HIDE DEF dev, copies
<1>5. /\ h = [p \in Parts |-> h[p]]
      /\ OnlyIn({"dev", "copies"}, g, h)
      /\ h.dev = dev /\ h.copies = copies
  BY <1>2 DEF Shape, Parts, OnlyIn
<1>6. Shape(h)
  BY <1>5, <1>3, <1>4 DEF Shape, GpuType, OnlyIn, Parts, DeviceSlots
<1>7. QED
  BY <1>4, <1>5, <1>6 DEF dev

\* What a slot will hold does not depend on how many of the copies have run.
LEMMA CopiesArrive ==
    ASSUME NEW g, Shape(g), NEW n \in 0 .. Len(g.copies), NEW d \in DeviceSlots(g)
    PROVE  Arriving(Copied(g, n), d) = Arriving(g, d)
<1> DEFINE h == Copied(g, n)
           L == Len(g.copies)
           m == L - n
<1>1. /\ h.host = g.host
      /\ h.dev[d] = After(g, n, d)
      /\ Len(h.copies) = m
      /\ \A j \in 1 .. m : h.copies[j] = g.copies[n + j]
  BY CopiedParts DEF OnlyIn, Parts
<1>2. n \in Nat /\ L \in Nat /\ m \in Nat
  BY QueuedCopies
<1>7. m = L - n
  OBVIOUS
<1>3. Arriving(h, d) = After(h, m, d) /\ Arriving(g, d) = After(g, L, d)
  BY <1>1 DEF Arriving
<1> HIDE DEF h, L, m
<1>4. ASSUME NoCopy(h, m, d)
      PROVE  Arriving(h, d) = Arriving(g, d)
  <2>1. After(h, m, d) = After(g, n, d)
    BY <1>1, <1>2, <1>4, LastOrNone
  <2>2. \A k \in 1 .. L : n < k => g.copies[k].slot # d
    <3>1. ASSUME NEW k \in 1 .. L, n < k
          PROVE  g.copies[k].slot # d
      <4>1. k - n \in 1 .. m /\ k = n + (k - n)
        BY <1>2, <1>7, <3>1
      <4>2. QED
        BY <4>1, <1>1, <1>4 DEF NoCopy
    <3>2. QED
      BY <3>1
  <2>3. CASE NoCopy(g, n, d)
    <3>1. NoCopy(g, L, d)
      BY <1>2, <2>2, <2>3 DEF NoCopy
    <3>2. After(g, n, d) = g.dev[d] /\ After(g, L, d) = g.dev[d]
      BY <1>2, <2>3, <3>1, LastOrNone
    <3>3. QED
      BY <1>3, <2>1, <3>2
  <2>4. ASSUME NEW j, LastCopy(g, n, d, j)
        PROVE  After(g, L, d) = After(g, n, d)
    <3>1. LastCopy(g, L, d, j)
      BY <1>2, <1>7, <2>2, <2>4 DEF LastCopy
    <3>2. After(g, n, d) = g.host[g.copies[j].stage]
      <4>1. n \in Nat /\ LastCopy(g, n, d, j)
        BY <1>2, <2>4
      <4>2. QED
        BY <4>1, LastCounts
    <3>3. After(g, L, d) = g.host[g.copies[j].stage]
      <4>1. L \in Nat /\ LastCopy(g, L, d, j)
        BY <1>2, <3>1
      <4>2. QED
        BY <4>1, LastCounts
    <3>4. QED
      BY <3>2, <3>3
  <2>5. QED
    BY <1>2, <1>3, <2>1, <2>3, <2>4, LastOrNone
<1>5. ASSUME NEW j, LastCopy(h, m, d, j)
      PROVE  Arriving(h, d) = Arriving(g, d)
  <2>1. j \in 1 .. m /\ h.copies[j] = g.copies[n + j]
    BY <1>1, <1>5 DEF LastCopy
  <2>2. n + j \in 1 .. L /\ g.copies[n + j].slot = d
    BY <1>2, <1>5, <1>7, <2>1 DEF LastCopy
  <2>3. \A k \in 1 .. L : n + j < k => g.copies[k].slot # d
    <3>1. ASSUME NEW k \in 1 .. L, n + j < k
          PROVE  g.copies[k].slot # d
      <4>1. k - n \in 1 .. m /\ k = n + (k - n) /\ j < k - n
        BY <1>2, <1>7, <2>1, <3>1
      <4>2. QED
        BY <4>1, <1>1, <1>5 DEF LastCopy
    <3>2. QED
      BY <3>1
  <2>4. LastCopy(g, L, d, n + j)
    BY <2>2, <2>3 DEF LastCopy
  <2>5. After(h, m, d) = h.host[h.copies[j].stage]
    <3>1. m \in Nat /\ LastCopy(h, m, d, j)
      BY <1>2, <1>5
    <3>2. QED
      BY <3>1, LastCounts
  <2>6. After(g, L, d) = g.host[g.copies[n + j].stage]
    <3>1. L \in Nat /\ LastCopy(g, L, d, n + j)
      BY <1>2, <2>4
    <3>2. QED
      BY <3>1, LastCounts
  <2>7. QED
    BY <1>1, <1>3, <2>1, <2>5, <2>6
<1>6. Arriving(h, d) = Arriving(g, d)
  BY <1>2, <1>4, <1>5, LastOrNone
<1>8. QED
  BY <1>6 DEF h

\* The first use allocates: only the flag changes.
LEMMA AllocParts ==
    ASSUME NEW g, Shape(g)
    PROVE  Shape(Alloc(g)) /\ OnlyIn({"configured"}, g, Alloc(g))
<1> DEFINE h == Alloc(g)
<1>1. h = [p \in Parts |-> h[p]] /\ OnlyIn({"configured"}, g, h) /\ h.configured = TRUE
  BY DEF Alloc, Shape, Parts, OnlyIn
<1> HIDE DEF h
<1>2. Shape(h)
  BY <1>1 DEF Shape, GpuType, OnlyIn, Parts, DeviceSlots
<1>3. QED
  BY <1>1, <1>2 DEF h

\* The next pinned buffer in turn is one of them.
LEMMA AdvancedParts ==
    ASSUME NEW g, Shape(g)
    PROVE  Shape(Advanced(g)) /\ OnlyIn({"nextStageSlot"}, g, Advanced(g))
<1> DEFINE h == Advanced(g)
<1>1. /\ h = [p \in Parts |-> h[p]]
      /\ OnlyIn({"nextStageSlot"}, g, h)
      /\ h.nextStageSlot = (g.nextStageSlot + 1) % StagingDepth
  BY DEF Advanced, Shape, Parts, OnlyIn
<1>2. h.nextStageSlot \in StageSlots
  BY <1>1, StagingAssumption DEF Shape, GpuType, StageSlots
<1> HIDE DEF h
<1>3. Shape(h)
  BY <1>1, <1>2 DEF Shape, GpuType, OnlyIn, Parts, DeviceSlots
<1>4. QED
  BY <1>1, <1>3 DEF h

\* Filling a pinned buffer changes what that buffer holds.
LEMMA FilledParts ==
    ASSUME NEW g, Shape(g), NEW s \in StageSlots, NEW k \in ExpertKeys
    PROVE  /\ Shape(Filled(g, s, k))
           /\ OnlyIn({"host"}, g, Filled(g, s, k))
           /\ Filled(g, s, k).host = [g.host EXCEPT ![s] = k]
<1> DEFINE h == Filled(g, s, k)
<1>1. /\ h = [p \in Parts |-> h[p]]
      /\ OnlyIn({"host"}, g, h)
      /\ h.host = [g.host EXCEPT ![s] = k]
  BY DEF Filled, Shape, Parts, OnlyIn
<1>2. h.host \in [StageSlots -> Contents]
  BY <1>1 DEF Shape, GpuType, Contents
<1> HIDE DEF h
<1>3. Shape(h)
  BY <1>1, <1>2 DEF Shape, GpuType, OnlyIn, Parts, DeviceSlots
<1>4. QED
  BY <1>1, <1>3 DEF h

\* The upload records once k's upload goes through buffer s.
WithEvent(events, k, s) == [r \in DOMAIN events \cup {k} |-> IF r = k THEN s ELSE events[r]]

\* Queueing the upload of a resident key marks its buffer and the key.
LEMMA QueuedParts ==
    ASSUME NEW g, Shape(g), NEW s \in StageSlots, NEW k \in DOMAIN g.slotOf
    PROVE  /\ Shape(Queued(g, s, k))
           /\ OnlyIn({"copies", "slotPending", "uploadPending", "eventOf"}, g, Queued(g, s, k))
           /\ Queued(g, s, k).copies = Append(g.copies, [stage |-> s, slot |-> g.slotOf[k]])
           /\ Queued(g, s, k).slotPending = g.slotPending \cup {s}
           /\ Queued(g, s, k).uploadPending = g.uploadPending \cup {k}
           /\ Queued(g, s, k).eventOf = WithEvent(g.eventOf, k, s)
<1> DEFINE h == Queued(g, s, k)
           Copy == [stage : StageSlots, slot : DeviceSlots(g)]
<1>1. /\ h = [p \in Parts |-> h[p]]
      /\ OnlyIn({"copies", "slotPending", "uploadPending", "eventOf"}, g, h)
      /\ h.copies = Append(g.copies, [stage |-> s, slot |-> g.slotOf[k]])
      /\ h.slotPending = g.slotPending \cup {s}
      /\ h.uploadPending = g.uploadPending \cup {k}
      /\ h.eventOf = WithEvent(g.eventOf, k, s)
  BY DEF Queued, Shape, Parts, OnlyIn, WithEvent
<1>2. h.copies \in Seq(Copy)
  <2>1. [stage |-> s, slot |-> g.slotOf[k]] \in Copy /\ g.copies \in Seq(Copy)
    BY DEF Shape, GpuType
  <2>2. h.copies = Append(g.copies, [stage |-> s, slot |-> g.slotOf[k]])
    BY <1>1
  <2> HIDE DEF Copy, h
  <2>3. Append(g.copies, [stage |-> s, slot |-> g.slotOf[k]]) \in Seq(Copy)
    BY <2>1, AppendProperties
  <2>4. QED
    BY <2>2, <2>3
<1>3. k \in ExpertKeys
  BY DEF Shape, GpuType
<1> HIDE DEF h
<1>4. Shape(h)
  BY <1>1, <1>2, <1>3 DEF Shape, GpuType, OnlyIn, Parts, DeviceSlots, WithEvent
<1>5. QED
  BY <1>1, <1>4 DEF h

\* A computation takes its key's upload for done, and releases the buffer.
LEMMA ReleasedParts ==
    ASSUME NEW g, Shape(g), NEW k
    PROVE  /\ Shape(Released(g, k))
           /\ OnlyIn({"slotPending", "uploadPending"}, g, Released(g, k))
           /\ k \in g.uploadPending => Released(g, k).slotPending = g.slotPending \ {g.eventOf[k]}
           /\ k \notin g.uploadPending => Released(g, k).slotPending = g.slotPending
           /\ Released(g, k).uploadPending = g.uploadPending \ {k}
<1> DEFINE h == Released(g, k)
<1>1. CASE k \notin g.uploadPending
  <2>1. h = g
    BY <1>1 DEF Released
  <2>2. QED
    BY <1>1, <2>1 DEF OnlyIn
<1>2. CASE k \in g.uploadPending
  <2>1. /\ h = [p \in Parts |-> h[p]]
        /\ OnlyIn({"slotPending", "uploadPending"}, g, h)
        /\ h.slotPending = g.slotPending \ {g.eventOf[k]}
        /\ h.uploadPending = g.uploadPending \ {k}
    BY <1>2 DEF Released, Shape, Parts, OnlyIn
  <2> HIDE DEF h
  <2>2. Shape(h)
    BY <2>1 DEF Shape, GpuType, OnlyIn, Parts, DeviceSlots
  <2>3. QED
    BY <1>2, <2>1, <2>2 DEF h
<1>3. QED
  BY <1>1, <1>2

\* Claiming a buffer that is still to be read runs every copy first.
LEMMA DrainedParts ==
    ASSUME NEW g, Shape(g), NEW s
    PROVE  /\ Shape(Drained(g, s))
           /\ s \notin g.slotPending => Drained(g, s) = g
           /\ s \in g.slotPending =>
                /\ OnlyIn({"dev", "copies", "slotPending"}, g, Drained(g, s))
                /\ \A d \in DeviceSlots(g) : Drained(g, s).dev[d] = Arriving(g, d)
                /\ Len(Drained(g, s).copies) = 0
                /\ Drained(g, s).slotPending = {}
<1> DEFINE h == Drained(g, s)
           c == Copied(g, Len(g.copies))
<1>1. CASE s \notin g.slotPending
  BY <1>1 DEF Drained
<1>2. CASE s \in g.slotPending
  <2>1. Len(g.copies) \in 0 .. Len(g.copies) /\ Len(g.copies) - Len(g.copies) = 0
    BY QueuedCopies
  <2>2. /\ Shape(c)
        /\ OnlyIn({"dev", "copies"}, g, c)
        /\ \A d \in DeviceSlots(g) : c.dev[d] = After(g, Len(g.copies), d)
        /\ Len(c.copies) = 0
    BY <2>1, CopiedParts
  <2>3. h = [c EXCEPT !.slotPending = {}]
    BY <1>2 DEF Drained
  <2> HIDE DEF c, h
  <2>4. /\ h = [p \in Parts |-> h[p]]
        /\ OnlyIn({"slotPending"}, c, h)
        /\ h.slotPending = {}
    BY <2>2, <2>3 DEF Shape, Parts, OnlyIn
  <2>5. Shape(h)
    BY <2>2, <2>4 DEF Shape, GpuType, OnlyIn, Parts, DeviceSlots
  <2>6. /\ OnlyIn({"dev", "copies", "slotPending"}, g, h)
        /\ h.dev = c.dev /\ h.copies = c.copies
    BY <2>2, <2>4 DEF OnlyIn, Parts
  <2>7. QED
    BY <1>2, <2>2, <2>4, <2>5, <2>6 DEF h, Arriving
<1>3. QED
  BY <1>1, <1>2

-----------------------------------------------------------------------------
(* Admission *)

\* A slot that is used becomes the youngest, and the ranks stay a numbering of the slots.
LEMMA TouchedParts ==
    ASSUME NEW g, Shape(g), NEW d \in DeviceSlots(g)
    PROVE  Shape(Touched(g, d)) /\ OnlyIn({"age"}, g, Touched(g, d))
<1> DEFINE h == Touched(g, d)
           older(x) == IF x = d THEN g.capacity ELSE IF g.age[x] > g.age[d] THEN g.age[x] - 1 ELSE g.age[x]
           age == [x \in DeviceSlots(g) |-> older(x)]
<1>1. DOMAIN g.age = DeviceSlots(g) /\ Range(g.age) = 1 .. g.capacity /\ g.capacity \in Nat
  BY DEF Shape, GpuType
<1>2. \A x \in DeviceSlots(g) : g.age[x] \in 1 .. g.capacity
  BY <1>1 DEF Range
<1>3. /\ h = [p \in Parts |-> h[p]]
      /\ OnlyIn({"age"}, g, h)
      /\ h.age = age
  BY <1>1 DEF Touched, Shape, Parts, OnlyIn
<1>4. Range(age) = 1 .. g.capacity
  <2>1. \A x \in DeviceSlots(g) : older(x) \in 1 .. g.capacity
    BY <1>1, <1>2
  <2>2. ASSUME NEW r \in 1 .. g.capacity
        PROVE  \E x \in DeviceSlots(g) : older(x) = r
    <3>1. CASE r = g.capacity
      BY <3>1
    <3>2. CASE r < g.age[d]
      <4>1. PICK x \in DeviceSlots(g) : g.age[x] = r
        BY <1>1 DEF Range
      <4>2. x # d /\ ~(g.age[x] > g.age[d])
        BY <1>2, <3>2, <4>1
      <4>3. older(x) = r
        BY <4>1, <4>2
      <4>4. QED
        BY <4>3
    <3>3. CASE r # g.capacity /\ ~(r < g.age[d])
      <4>1. r + 1 \in 1 .. g.capacity
        BY <1>1, <3>3
      <4>2. PICK x \in DeviceSlots(g) : g.age[x] = r + 1
        BY <1>1, <4>1 DEF Range
      <4>3. x # d /\ g.age[x] > g.age[d]
        BY <1>2, <3>3, <4>2
      <4>4. older(x) = r
        BY <1>2, <4>2, <4>3
      <4>5. QED
        BY <4>4
    <3>4. QED
      BY <3>1, <3>2, <3>3
  <2> HIDE DEF older
  <2>3. Range(age) = {older(x) : x \in DeviceSlots(g)}
    BY DEF Range
  <2>4. QED
    BY <2>1, <2>2, <2>3
<1> HIDE DEF h, older
<1>5. DOMAIN h.age = DeviceSlots(g) /\ Range(h.age) = 1 .. g.capacity
  BY <1>3, <1>4
<1> HIDE DEF age
<1>6. Shape(h)
  BY <1>3, <1>5 DEF Shape, GpuType, OnlyIn, Parts, DeviceSlots
<1>7. QED
  BY <1>3, <1>6 DEF h

\* There is a slot to admit a key to.
LEMMA VictimIsSlot ==
    ASSUME NEW g, Shape(g), g.capacity # 0
    PROVE  Victim(g) \in DeviceSlots(g)
<1>1. /\ g.capacity \in Nat \ {0}
      /\ DOMAIN g.age = DeviceSlots(g) /\ Range(g.age) = 1 .. g.capacity
      /\ g.inUse \subseteq DeviceSlots(g)
  BY DEF Shape, GpuType
<1>2. CASE Cardinality(DOMAIN g.slotOf) >= g.capacity
  <2>1. \E d \in DeviceSlots(g) : g.age[d] = 1
    BY <1>1 DEF Range
  <2>2. (CHOOSE d \in DeviceSlots(g) : g.age[d] = 1) \in DeviceSlots(g)
    BY <2>1
  <2>3. QED
    BY <1>2, <2>2 DEF Victim
<1>3. CASE ~(Cardinality(DOMAIN g.slotOf) >= g.capacity)
  <2> DEFINE free == (DeviceSlots(g) \ g.inUse) \cup (IF g.inUse = DeviceSlots(g) THEN {0} ELSE {})
  <2>1. 0 \in DeviceSlots(g) /\ DeviceSlots(g) \subseteq Nat
    BY <1>1 DEF DeviceSlots
  <2>2. free \subseteq DeviceSlots(g) /\ free # {}
    BY <1>1, <2>1
  <2>3. Victim(g) = Min(free)
    BY <1>3 DEF Victim
  <2> HIDE DEF free
  <2>4. free \in SUBSET Nat
    BY <2>1, <2>2
  <2>5. Min(free) \in free
    BY <2>2, <2>4, SmallestNat
  <2>6. QED
    BY <2>2, <2>3, <2>5
<1>4. QED
  BY <1>2, <1>3

\* The keys that keep their slot when k is admitted.
Stay(g, k) == {r \in DOMAIN g.slotOf : g.slotOf[r] # Victim(g)} \cup {k}

\* An admission gives the key a slot and takes it from whoever had it; the
\* upload records of that key go, and those of no other as long as
\* the key that stands for "none" is not in use.
LEMMA AdmittedParts ==
    ASSUME NEW g, Shape(g), g.capacity # 0, NEW k \in ExpertKeys
    PROVE  LET h == Admitted(g, k)
           IN  /\ Shape(h)
               /\ OnlyIn({"slotOf", "inUse", "age", "uploadPending", "eventOf"}, g, h)
               /\ Victim(g) \in DeviceSlots(g)
               /\ h.slotOf = [r \in Stay(g, k) |-> IF r = k THEN Victim(g) ELSE g.slotOf[r]]
               /\ KeyZero \notin ExpertKeys => \A r \in Stay(g, k) \ {k} :
                    /\ r \in g.uploadPending => r \in h.uploadPending
                    /\ r \in DOMAIN g.eventOf => r \in DOMAIN h.eventOf /\ h.eventOf[r] = g.eventOf[r]
<1> DEFINE victim == Victim(g)
           gone == Forgotten(g, victim)
           slotOf == [r \in Stay(g, k) |-> IF r = k THEN victim ELSE g.slotOf[r]]
           inUse == g.inUse \cup {victim}
           uploadPending == g.uploadPending \ gone
           eventOf == [r \in DOMAIN g.eventOf \ gone |-> g.eventOf[r]]
           c == [g EXCEPT !.slotOf = slotOf, !.inUse = inUse, !.uploadPending = uploadPending,
                          !.eventOf = eventOf]
           h == Admitted(g, k)
<1>1. victim \in DeviceSlots(g)
  BY VictimIsSlot
<1>2. h = Touched(c, victim)
  BY DEF Admitted, Stay
<1>3. KeyZero \notin ExpertKeys => \A r \in Stay(g, k) \ {k} : r \notin gone
  <2>1. DOMAIN g.slotOf \subseteq ExpertKeys
    BY DEF Shape, GpuType
  <2>2. QED
    BY <2>1 DEF Stay, Forgotten
<1>4. /\ DOMAIN slotOf \subseteq ExpertKeys
      /\ \A r \in DOMAIN slotOf : slotOf[r] \in DeviceSlots(g)
      /\ DOMAIN slotOf = Stay(g, k)
  BY <1>1 DEF Shape, GpuType, Stay
<1>5. inUse \subseteq DeviceSlots(g)
  BY <1>1 DEF Shape, GpuType
<1>6. /\ uploadPending \subseteq DOMAIN eventOf
      /\ DOMAIN eventOf \subseteq ExpertKeys
      /\ \A r \in DOMAIN eventOf : eventOf[r] \in StageSlots
  BY DEF Shape, GpuType
<1>7. KeyZero \notin ExpertKeys => \A r \in Stay(g, k) \ {k} :
        /\ r \in g.uploadPending => r \in uploadPending
        /\ r \in DOMAIN g.eventOf => r \in DOMAIN eventOf /\ eventOf[r] = g.eventOf[r]
  BY <1>3
<1> HIDE DEF slotOf, inUse, uploadPending, eventOf
<1>8. /\ c = [p \in Parts |-> c[p]]
      /\ OnlyIn({"slotOf", "inUse", "uploadPending", "eventOf"}, g, c)
      /\ c.slotOf = slotOf /\ c.inUse = inUse
      /\ c.uploadPending = uploadPending /\ c.eventOf = eventOf
  BY DEF Shape, Parts, OnlyIn
<1> HIDE DEF c, victim, h
<1>9. Shape(c) /\ DeviceSlots(c) = DeviceSlots(g)
  BY <1>8, <1>4, <1>5, <1>6 DEF Shape, GpuType, OnlyIn, Parts, DeviceSlots
<1>10. Shape(h) /\ OnlyIn({"age"}, c, h)
  BY <1>1, <1>2, <1>9, TouchedParts
<1>11. /\ OnlyIn({"slotOf", "inUse", "age", "uploadPending", "eventOf"}, g, h)
       /\ h.slotOf = slotOf /\ h.uploadPending = uploadPending /\ h.eventOf = eventOf
  BY <1>8, <1>10 DEF OnlyIn, Parts
<1>12. QED
  BY <1>1, <1>7, <1>10, <1>11 DEF h, victim, slotOf

-----------------------------------------------------------------------------
(* The invariant of the cache *)

\* A resident key has a slot of its own, which will hold its bytes.
Own(g) ==
    /\ IsInjective(g.slotOf)
    /\ \A k \in DOMAIN g.slotOf : Arriving(g, g.slotOf[k]) = k

\* Every queued copy reads a buffer of its own, marked as pending.
Queue(g) ==
    /\ \A j \in 1 .. Len(g.copies) : g.copies[j].stage \in g.slotPending
    /\ \A j, m \in 1 .. Len(g.copies) : g.copies[j].stage = g.copies[m].stage => j = m

\* Whoever computes with a key waits for every copy queued for its slot.
Known(g) ==
    \A k \in DOMAIN g.slotOf : \A j \in 1 .. Len(g.copies) : g.copies[j].slot = g.slotOf[k] =>
        /\ k \in g.uploadPending
        /\ \E m \in 1 .. Len(g.copies) : j <= m /\ g.copies[m].stage = g.eventOf[k]

Sound(g) == Shape(g) /\ Own(g) /\ Queue(g) /\ Known(g)

\* Ranks, flags and turns do not matter to it.
LEMMA SoundKept ==
    ASSUME NEW g, Sound(g), NEW h, Shape(h), OnlyIn({"age", "configured", "nextStageSlot"}, g, h)
    PROVE  Sound(h)
<1>1. /\ h.slotOf = g.slotOf /\ h.copies = g.copies /\ h.dev = g.dev /\ h.host = g.host
      /\ h.slotPending = g.slotPending /\ h.uploadPending = g.uploadPending /\ h.eventOf = g.eventOf
  BY DEF OnlyIn, Parts
<1>2. Own(h)
  BY <1>1 DEF Sound, Own, Arriving, After
<1>3. Queue(h)
  BY <1>1 DEF Sound, Queue
<1>4. Known(h)
  BY <1>1 DEF Sound, Known
<1>5. QED
  BY <1>2, <1>3, <1>4 DEF Sound

\* The device may run its copies at any time.
LEMMA SoundCopied ==
    ASSUME NEW g, Sound(g), NEW n \in 0 .. Len(g.copies)
    PROVE  Sound(Copied(g, n))
<1> DEFINE h == Copied(g, n)
           L == Len(g.copies)
<1>1. /\ Shape(g) /\ Own(g) /\ Queue(g) /\ Known(g)
      /\ L \in Nat /\ n \in Nat /\ n <= L
  BY QueuedCopies DEF Sound
<1>2. Shape(h)
  BY <1>1, CopiedParts
<1>3. /\ h.slotOf = g.slotOf /\ h.slotPending = g.slotPending
      /\ h.uploadPending = g.uploadPending /\ h.eventOf = g.eventOf
  BY <1>1, CopiedParts DEF OnlyIn, Parts
<1>4. /\ Len(h.copies) = L - n
      /\ \A j \in 1 .. L - n : h.copies[j] = g.copies[n + j] /\ n + j \in 1 .. L
  <2>1. /\ Len(h.copies) = L - n
        /\ \A j \in 1 .. L - n : h.copies[j] = g.copies[n + j]
    BY <1>1, CopiedParts
  <2> HIDE DEF h, L
  <2>2. \A j \in 1 .. L - n : n + j \in 1 .. L
    BY <1>1
  <2>3. QED
    BY <2>1, <2>2
<1>5. \A k \in DOMAIN g.slotOf : Arriving(h, g.slotOf[k]) = Arriving(g, g.slotOf[k])
  <2>1. \A k \in DOMAIN g.slotOf : g.slotOf[k] \in DeviceSlots(g)
    BY <1>1 DEF Shape, GpuType
  <2>2. QED
    BY <1>1, <2>1, CopiesArrive
<1> HIDE DEF h, L
<1>6. Own(h)
  BY <1>1, <1>3, <1>5 DEF Own
<1>7. Queue(h)
  <2>1. \A j \in 1 .. L : g.copies[j].stage \in g.slotPending
    BY <1>1 DEF Queue, L
  <2>2. ASSUME NEW j \in 1 .. L - n, NEW m \in 1 .. L - n, h.copies[j].stage = h.copies[m].stage
        PROVE  j = m
    <3>1. n + j = n + m
      <4>1. n + j \in 1 .. L /\ n + m \in 1 .. L
        BY <1>4, <2>2
      <4>2. g.copies[n + j].stage = g.copies[n + m].stage
        BY <1>4, <2>2
      <4>3. QED
        BY <1>1, <4>1, <4>2 DEF Queue, L
    <3>2. QED
      BY <1>1, <3>1
  <2>3. QED
    BY <1>3, <1>4, <2>1, <2>2 DEF Queue
<1>8. Known(h)
  <2>1. SUFFICES ASSUME NEW k \in DOMAIN g.slotOf, NEW j \in 1 .. L - n, h.copies[j].slot = g.slotOf[k]
                 PROVE  /\ k \in g.uploadPending
                        /\ \E m \in 1 .. L - n : j <= m /\ h.copies[m].stage = g.eventOf[k]
    BY <1>3, <1>4 DEF Known
  <2>2. n + j \in 1 .. L /\ g.copies[n + j].slot = g.slotOf[k]
    BY <1>4, <2>1
  <2>3. /\ k \in g.uploadPending
        /\ \E m \in 1 .. L : n + j <= m /\ g.copies[m].stage = g.eventOf[k]
    BY <1>1, <2>2 DEF Known, L
  <2>4. PICK m \in 1 .. L : n + j <= m /\ g.copies[m].stage = g.eventOf[k]
    BY <2>3
  <2>5. m - n \in 1 .. L - n /\ j <= m - n /\ n + (m - n) = m
    BY <1>1, <2>4
  <2>6. h.copies[m - n] = g.copies[m]
    BY <1>4, <2>5
  <2>7. QED
    BY <2>3, <2>4, <2>5, <2>6
<1>9. QED
  BY <1>2, <1>6, <1>7, <1>8 DEF Sound, h

\* An upload leaves the cache sound: the buffer it fills is one that no queued
\* copy reads, and the copy it queues is the last for its slot.
LEMMA SoundUpload ==
    ASSUME NEW g, Sound(g), g.capacity # 0, KeyZero \notin ExpertKeys,
           NEW k \in ExpertKeys, k \notin DOMAIN g.slotOf,
           NEW h, h = Queued(Filled(Drained(Advanced(Admitted(g, k)), g.nextStageSlot),
                                    g.nextStageSlot, k),
                             g.nextStageSlot, k)
    PROVE  Sound(h)
<1> DEFINE s == g.nextStageSlot
           a == Admitted(g, k)
           v == Advanced(a)
           b == Drained(v, s)
           c == Filled(b, s, k)
           victim == Victim(g)
<1>1. Shape(g) /\ Own(g) /\ Queue(g) /\ Known(g) /\ Len(g.copies) \in Nat
  BY QueuedCopies DEF Sound
<1>2. s \in StageSlots
  BY <1>1 DEF Shape, GpuType
<1>3. /\ Shape(a)
      /\ OnlyIn({"slotOf", "inUse", "age", "uploadPending", "eventOf"}, g, a)
      /\ victim \in DeviceSlots(g)
      /\ a.slotOf = [r \in Stay(g, k) |-> IF r = k THEN victim ELSE g.slotOf[r]]
      /\ \A r \in Stay(g, k) \ {k} :
           /\ r \in g.uploadPending => r \in a.uploadPending
           /\ r \in DOMAIN g.eventOf => r \in DOMAIN a.eventOf /\ a.eventOf[r] = g.eventOf[r]
  BY <1>1, AdmittedParts
<1> HIDE DEF a, victim
<1>4. Shape(v) /\ OnlyIn({"nextStageSlot"}, a, v)
  BY <1>3, AdvancedParts
<1>5. /\ v.capacity = g.capacity /\ v.copies = g.copies /\ v.dev = g.dev /\ v.host = g.host
      /\ v.slotPending = g.slotPending
      /\ v.slotOf = a.slotOf /\ v.uploadPending = a.uploadPending /\ v.eventOf = a.eventOf
  BY <1>3, <1>4 DEF OnlyIn, Parts
<1> HIDE DEF v
<1>6. Shape(b)
  BY <1>4, DrainedParts
<1>7. /\ b.capacity = g.capacity /\ b.slotOf = a.slotOf
      /\ b.uploadPending = a.uploadPending /\ b.eventOf = a.eventOf /\ b.host = g.host
  <2>1. CASE s \in v.slotPending
    BY <1>4, <1>5, <2>1, DrainedParts DEF OnlyIn, Parts
  <2>2. CASE s \notin v.slotPending
    BY <1>4, <1>5, <2>2, DrainedParts
  <2>3. QED
    BY <2>1, <2>2
<1>8. s \in g.slotPending =>
        /\ \A d \in DeviceSlots(g) : b.dev[d] = Arriving(g, d)
        /\ Len(b.copies) = 0
        /\ b.slotPending = {}
  <2>1. DeviceSlots(v) = DeviceSlots(g) /\ \A d : Arriving(v, d) = Arriving(g, d)
    BY <1>5 DEF DeviceSlots, Arriving, After
  <2>2. QED
    BY <1>4, <1>5, <2>1, DrainedParts
<1>9. s \notin g.slotPending =>
        /\ b.dev = g.dev /\ b.copies = g.copies /\ b.slotPending = g.slotPending
  BY <1>4, <1>5, DrainedParts
<1> HIDE DEF b
<1>10. /\ Shape(c)
       /\ OnlyIn({"host"}, b, c)
       /\ c.host = [b.host EXCEPT ![s] = k]
  BY <1>2, <1>6, FilledParts
<1> HIDE DEF c
<1>11. k \in DOMAIN c.slotOf /\ c.slotOf[k] = victim /\ c.slotOf = a.slotOf
  BY <1>3, <1>7, <1>10 DEF OnlyIn, Parts, Stay
<1>12. h = Queued(c, s, k)
  BY DEF a, b, c, v
<1>13. /\ Shape(h)
       /\ OnlyIn({"copies", "slotPending", "uploadPending", "eventOf"}, c, h)
       /\ h.copies = Append(c.copies, [stage |-> s, slot |-> victim])
       /\ h.slotPending = c.slotPending \cup {s}
       /\ h.uploadPending = c.uploadPending \cup {k}
       /\ h.eventOf = WithEvent(c.eventOf, k, s)
  <2> DEFINE q == Queued(c, s, k)
  <2>1. s \in StageSlots /\ Shape(c) /\ k \in DOMAIN c.slotOf
    BY <1>2, <1>10, <1>11
  <2> HIDE DEF s
  <2>2. /\ Shape(q)
        /\ OnlyIn({"copies", "slotPending", "uploadPending", "eventOf"}, c, q)
        /\ q.copies = Append(c.copies, [stage |-> s, slot |-> c.slotOf[k]])
        /\ q.slotPending = c.slotPending \cup {s}
        /\ q.uploadPending = c.uploadPending \cup {k}
        /\ q.eventOf = WithEvent(c.eventOf, k, s)
    BY <2>1, QueuedParts
  <2>3. q = h /\ c.slotOf[k] = victim
    BY <1>11, <1>12
  <2> HIDE DEF q
  <2>4. QED
    BY <2>2, <2>3
<1> DEFINE L == Len(b.copies)
<1>14. /\ h.capacity = g.capacity
       /\ h.slotOf = [r \in Stay(g, k) |-> IF r = k THEN victim ELSE g.slotOf[r]]
       /\ h.dev = b.dev
       /\ h.host = [g.host EXCEPT ![s] = k]
       /\ h.slotPending = b.slotPending \cup {s}
       /\ h.uploadPending = a.uploadPending \cup {k}
       /\ h.eventOf = WithEvent(a.eventOf, k, s)
       /\ h.copies = Append(b.copies, [stage |-> s, slot |-> victim])
  BY <1>3, <1>7, <1>10, <1>13 DEF OnlyIn, Parts
<1>15. /\ L \in Nat
       /\ Len(h.copies) = L + 1
       /\ \A j \in 1 .. L : h.copies[j] = b.copies[j]
       /\ h.copies[L + 1].stage = s /\ h.copies[L + 1].slot = victim
  <2>1. b.copies \in Seq([stage : StageSlots, slot : DeviceSlots(b)])
    BY <1>6 DEF Shape, GpuType
  <2>2. L \in Nat
    BY <2>1
  <2>3. /\ Len(h.copies) = L + 1
        /\ \A j \in 1 .. L + 1 : h.copies[j] = IF j <= L THEN b.copies[j] ELSE [stage |-> s, slot |-> victim]
    BY <1>14, <2>1
  <2> HIDE DEF L
  <2>4. QED
    BY <2>2, <2>3
<1>16. /\ \A j \in 1 .. L : b.copies[j] = g.copies[j] /\ j \in 1 .. Len(g.copies)
       /\ \A j \in 1 .. L : b.copies[j].stage # s /\ b.copies[j].stage \in b.slotPending
       /\ \A j, m \in 1 .. L : b.copies[j].stage = b.copies[m].stage => j = m
  <2>1. CASE s \in g.slotPending
    BY <1>8, <2>1
  <2>2. CASE s \notin g.slotPending
    BY <1>1, <1>9, <2>2 DEF Queue
  <2>3. QED
    BY <2>1, <2>2
<1> HIDE DEF L
<1>17. Arriving(h, victim) = k
  <2>1. LastCopy(h, L + 1, victim, L + 1)
    BY <1>15 DEF LastCopy
  <2>2. L + 1 \in Nat
    BY <1>15
  <2>3. After(h, L + 1, victim) = h.host[h.copies[L + 1].stage]
    BY <2>1, <2>2, LastCounts
  <2>4. g.host \in [StageSlots -> Contents]
    BY <1>1 DEF Shape, GpuType
  <2>5. h.host[s] = k
    BY <1>2, <1>14, <2>4
  <2>6. QED
    BY <1>15, <2>3, <2>5 DEF Arriving
<1>18. ASSUME NEW d \in DeviceSlots(g), d # victim
       PROVE  Arriving(h, d) = Arriving(g, d)
  <2>1. L + 1 \in Nat /\ L \in Nat /\ \A j \in 1 .. L + 1 : j \in 1 .. L \/ j = L + 1
    BY <1>15
  <2>2. CASE s \in g.slotPending
    <3>1. L = 0
      BY <1>8, <2>2 DEF L
    <3>2. NoCopy(h, L + 1, d)
      BY <1>15, <1>18, <3>1 DEF NoCopy
    <3>3. After(h, L + 1, d) = h.dev[d]
      BY <2>1, <3>2, LastOrNone
    <3>4. QED
      BY <1>8, <1>14, <1>15, <1>18, <2>2, <3>3 DEF Arriving
  <2>3. CASE s \notin g.slotPending
    <3>1. L = Len(g.copies) /\ h.dev[d] = g.dev[d]
      BY <1>9, <1>14, <2>3 DEF L
    <3>2. Arriving(g, d) = After(g, L, d) /\ Arriving(h, d) = After(h, L + 1, d)
      BY <1>15, <3>1 DEF Arriving
    <3>3. CASE NoCopy(g, L, d)
      <4>1. NoCopy(h, L + 1, d)
        BY <1>15, <1>16, <1>18, <2>1, <3>3 DEF NoCopy
      <4>2. After(h, L + 1, d) = h.dev[d]
        BY <2>1, <4>1, LastOrNone
      <4>3. After(g, L, d) = g.dev[d]
        BY <2>1, <3>3, LastOrNone
      <4>4. QED
        BY <3>1, <3>2, <4>2, <4>3
    <3>4. ASSUME NEW j, LastCopy(g, L, d, j)
          PROVE  Arriving(h, d) = Arriving(g, d)
      <4>1. j \in 1 .. L
        BY <3>4 DEF LastCopy
      <4>2. LastCopy(h, L + 1, d, j)
        <5>1. \A m \in 1 .. L : h.copies[m].slot = g.copies[m].slot
          BY <1>15, <1>16
        <5>2. j \in 1 .. L + 1
          BY <1>15, <4>1
        <5>3. ASSUME NEW m \in 1 .. L + 1, j < m
              PROVE  h.copies[m].slot # d
          <6>1. CASE m \in 1 .. L
            BY <3>4, <5>1, <5>3, <6>1 DEF LastCopy
          <6>2. CASE m = L + 1
            BY <1>15, <1>18, <6>2
          <6>3. QED
            BY <2>1, <6>1, <6>2
        <5>4. h.copies[j].slot = d
          BY <3>4, <4>1, <5>1 DEF LastCopy
        <5>5. QED
          BY <5>2, <5>3, <5>4 DEF LastCopy
      <4>3. After(h, L + 1, d) = h.host[h.copies[j].stage]
        <5>1. L + 1 \in Nat
          BY <2>1
        <5>2. QED
          BY <5>1, <4>2, LastCounts
      <4>4. After(g, L, d) = g.host[g.copies[j].stage]
        <5>1. L \in Nat
          BY <2>1
        <5>2. QED
          BY <5>1, <3>4, LastCounts
      <4>5. h.copies[j].stage = g.copies[j].stage /\ g.copies[j].stage # s
        BY <1>15, <1>16, <4>1
      <4>6. h.host[g.copies[j].stage] = g.host[g.copies[j].stage]
        <5>1. g.host \in [StageSlots -> Contents]
          BY <1>1 DEF Shape, GpuType
        <5>2. g.copies[j].stage \in StageSlots
          BY <1>1, <1>16, <4>1, QueuedCopies
        <5>3. QED
          BY <1>14, <4>5, <5>1, <5>2
      <4>7. QED
        BY <3>2, <4>3, <4>4, <4>5, <4>6
    <3>5. QED
      BY <2>1, <3>3, <3>4, LastOrNone
  <2>4. QED
    BY <2>2, <2>3
<1>19. Own(h)
  <2>1. \A r \in Stay(g, k) : r # k => r \in DOMAIN g.slotOf /\ g.slotOf[r] # victim /\ g.slotOf[r] \in DeviceSlots(g)
    BY <1>1 DEF Stay, Shape, GpuType, victim
  <2>2. IsInjective(h.slotOf)
    BY <1>1, <1>14, <2>1 DEF IsInjective, Own
  <2>3. \A r \in Stay(g, k) : r # k => Arriving(h, g.slotOf[r]) = r
    BY <1>1, <1>18, <2>1 DEF Own
  <2>4. \A r \in DOMAIN h.slotOf : Arriving(h, h.slotOf[r]) = r
    BY <1>14, <1>17, <2>3
  <2>5. QED
    BY <2>2, <2>4 DEF Own
<1>20. Queue(h)
  <2>1. \A j \in 1 .. L + 1 : j \in 1 .. L \/ j = L + 1
    BY <1>15
  <2>2. \A j \in 1 .. L + 1 : h.copies[j].stage \in h.slotPending
    BY <1>14, <1>15, <1>16, <2>1
  <2>3. \A j, m \in 1 .. L + 1 : h.copies[j].stage = h.copies[m].stage => j = m
    BY <1>15, <1>16, <2>1
  <2>4. QED
    BY <1>15, <2>2, <2>3 DEF Queue
<1>21. Known(h)
  <2>1. SUFFICES ASSUME NEW r \in Stay(g, k), NEW j \in 1 .. L + 1, h.copies[j].slot = h.slotOf[r]
                 PROVE  /\ r \in h.uploadPending
                        /\ \E m \in 1 .. L + 1 : j <= m /\ h.copies[m].stage = h.eventOf[r]
    <3>1. DOMAIN h.slotOf = Stay(g, k) /\ Len(h.copies) = L + 1
      BY <1>14, <1>15
    <3>2. QED
      BY <3>1 DEF Known
  <2>2. CASE r = k
    <3>1. r \in h.uploadPending /\ h.eventOf[r] = s
      BY <1>14, <2>2 DEF WithEvent
    <3>2. L + 1 \in 1 .. L + 1 /\ j <= L + 1
      BY <1>15
    <3>3. QED
      BY <1>15, <3>1, <3>2
  <2>3. CASE r # k
    <3>1. r \in DOMAIN g.slotOf /\ h.slotOf[r] = g.slotOf[r] /\ g.slotOf[r] # victim
      BY <1>14, <2>3 DEF Stay, victim
    <3>2. j \in 1 .. L
      BY <1>15, <2>1, <3>1
    <3>3. j \in 1 .. Len(g.copies) /\ g.copies[j].slot = g.slotOf[r]
      BY <1>15, <1>16, <2>1, <3>1, <3>2
    <3>4. /\ r \in g.uploadPending
          /\ \E m \in 1 .. Len(g.copies) : j <= m /\ g.copies[m].stage = g.eventOf[r]
      BY <1>1, <3>1, <3>3 DEF Known
    <3>5. r \in DOMAIN g.eventOf
      BY <1>1, <3>4 DEF Shape, GpuType
    <3>6. r \in h.uploadPending /\ h.eventOf[r] = g.eventOf[r]
      BY <1>3, <1>14, <2>3, <3>4, <3>5 DEF WithEvent
    <3>7. s \notin g.slotPending
      BY <1>8, <1>15, <3>2 DEF L
    <3>8. L = Len(g.copies)
      BY <1>9, <3>7 DEF L
    <3>9. PICK m \in 1 .. L : j <= m /\ g.copies[m].stage = g.eventOf[r]
      BY <3>4, <3>8
    <3>10. m \in 1 .. L + 1 /\ h.copies[m].stage = h.eventOf[r]
      BY <1>15, <1>16, <3>6, <3>9
    <3>11. QED
      BY <3>6, <3>9, <3>10
  <2>4. QED
    BY <2>2, <2>3
<1>22. QED
  BY <1>13, <1>19, <1>20, <1>21 DEF Sound

\* A computation waits for the last copy that its key's event may stand for.
LEMMA AwaitedIs ==
    ASSUME NEW g, Shape(g), NEW k
    PROVE  /\ Awaited(g, k) \in 0 .. Len(g.copies)
           /\ k \in g.uploadPending =>
                \A j \in 1 .. Len(g.copies) : g.copies[j].stage = g.eventOf[k] => j <= Awaited(g, k)
<1>1. Len(g.copies) \in Nat /\ DOMAIN g.copies = 1 .. Len(g.copies)
  BY DEF Shape, GpuType
<1>2. CASE k \notin g.uploadPending
  BY <1>1, <1>2 DEF Awaited
<1>3. CASE k \in g.uploadPending
  <2> DEFINE S == {0} \cup {j \in 1 .. Len(g.copies) : g.copies[j].stage = g.eventOf[k]}
  <2>1. Awaited(g, k) = Max(S)
    BY <1>1, <1>3 DEF Awaited
  <2>2. S \in SUBSET Nat /\ S # {} /\ \A x \in S : x <= Len(g.copies)
    BY <1>1
  <2>3. \A j \in 1 .. Len(g.copies) : g.copies[j].stage = g.eventOf[k] => j \in S
    OBVIOUS
  <2>4. S \subseteq 0 .. Len(g.copies)
    BY <1>1
  <2> HIDE DEF S
  <2>5. Max(S) \in S /\ \A x \in S : x <= Max(S)
    BY <1>1, <2>2, GreatestNat
  <2>6. QED
    BY <2>1, <2>3, <2>4, <2>5
<1>4. QED
  BY <1>2, <1>3

\* A computation leaves the cache sound, and finds the bytes of its key.
LEMMA SoundAnswered ==
    ASSUME NEW g, Sound(g), NEW k \in DOMAIN g.slotOf,
           NEW h, h = Copied(Released(g, k), Awaited(g, k))
    PROVE  Sound(h) /\ h.slotOf = g.slotOf /\ h.dev[g.slotOf[k]] = k
<1> DEFINE r == Released(g, k)
           n == Awaited(g, k)
           L == Len(g.copies)
           d == g.slotOf[k]
<1>1. /\ Shape(g) /\ Own(g) /\ Queue(g) /\ Known(g) /\ L \in Nat
      /\ d \in DeviceSlots(g)
  BY QueuedCopies DEF Sound, Shape, GpuType
<1>2. /\ n \in 0 .. L
      /\ k \in g.uploadPending => \A j \in 1 .. L : g.copies[j].stage = g.eventOf[k] => j <= n
  BY <1>1, AwaitedIs
<1>3. /\ Shape(r)
      /\ OnlyIn({"slotPending", "uploadPending"}, g, r)
      /\ k \in g.uploadPending => r.slotPending = g.slotPending \ {g.eventOf[k]}
      /\ k \notin g.uploadPending => r.slotPending = g.slotPending
      /\ r.uploadPending = g.uploadPending \ {k}
  BY <1>1, ReleasedParts
<1>4. /\ r.capacity = g.capacity /\ r.copies = g.copies /\ r.dev = g.dev /\ r.host = g.host
      /\ r.slotOf = g.slotOf /\ r.eventOf = g.eventOf
  BY <1>3 DEF OnlyIn, Parts
<1> HIDE DEF r, n, L, d
<1>5. /\ h = Copied(r, n) /\ Len(r.copies) = L
      /\ DeviceSlots(r) = DeviceSlots(g)
      /\ \A m, e : After(r, m, e) = After(g, m, e)
  BY <1>4 DEF r, n, L, After, DeviceSlots
<1>6. /\ Shape(h)
      /\ OnlyIn({"dev", "copies"}, r, h)
      /\ h.dev[d] = After(r, n, d)
      /\ Len(h.copies) = L - n
      /\ \A j \in 1 .. L - n : h.copies[j] = r.copies[n + j]
  <2>1. n \in 0 .. Len(r.copies) /\ d \in DeviceSlots(r) /\ Shape(r)
    BY <1>1, <1>2, <1>3, <1>5
  <2>2. /\ Shape(Copied(r, n))
        /\ OnlyIn({"dev", "copies"}, r, Copied(r, n))
        /\ \A e \in DeviceSlots(r) : Copied(r, n).dev[e] = After(r, n, e)
        /\ Len(Copied(r, n).copies) = Len(r.copies) - n
        /\ \A j \in 1 .. Len(r.copies) - n : Copied(r, n).copies[j] = r.copies[n + j]
    BY <2>1, CopiedParts
  <2>3. QED
    BY <1>5, <2>1, <2>2
<1>7. \A e \in DeviceSlots(g) : Arriving(h, e) = Arriving(g, e)
  <2>1. \A e \in DeviceSlots(r) : Arriving(Copied(r, n), e) = Arriving(r, e)
    BY <1>2, <1>3, <1>5, CopiesArrive
  <2>2. \A e : Arriving(r, e) = Arriving(g, e)
    BY <1>4, <1>5 DEF Arriving
  <2>3. QED
    BY <1>5, <2>1, <2>2
<1>8. /\ h.slotOf = g.slotOf /\ h.eventOf = g.eventOf
      /\ h.slotPending = r.slotPending /\ h.uploadPending = r.uploadPending
      /\ \A j \in 1 .. L - n : h.copies[j] = g.copies[n + j]
  BY <1>4, <1>6 DEF OnlyIn, Parts
<1>9. n \in Nat /\ n <= L /\ \A j \in 1 .. L - n : n + j \in 1 .. L /\ ~(n + j <= n)
  BY <1>1, <1>2
<1>10. Own(h)
  <2>1. \A x \in DOMAIN g.slotOf : g.slotOf[x] \in DeviceSlots(g)
    BY <1>1 DEF Shape, GpuType
  <2>2. QED
    BY <1>1, <1>7, <1>8, <2>1 DEF Own
<1>11. Queue(h)
  <2>1. ASSUME NEW j \in 1 .. L - n
        PROVE  h.copies[j].stage \in h.slotPending
    <3>1. g.copies[n + j].stage \in g.slotPending
      BY <1>1, <1>9 DEF Queue, L
    <3>2. k \in g.uploadPending => g.copies[n + j].stage # g.eventOf[k]
      BY <1>2, <1>9
    <3>3. QED
      BY <1>3, <1>8, <3>1, <3>2
  <2>2. ASSUME NEW j \in 1 .. L - n, NEW m \in 1 .. L - n, h.copies[j].stage = h.copies[m].stage
        PROVE  j = m
    <3>1. n + j = n + m
      <4>1. n + j \in 1 .. L /\ n + m \in 1 .. L
        BY <1>9, <2>2
      <4>2. g.copies[n + j].stage = g.copies[n + m].stage
        BY <1>8, <1>9, <2>2
      <4>3. QED
        BY <1>1, <4>1, <4>2 DEF Queue, L
    <3>2. QED
      BY <1>9, <3>1
  <2>3. QED
    BY <1>6, <2>1, <2>2 DEF Queue
<1>12. Known(h)
  <2>1. SUFFICES ASSUME NEW x \in DOMAIN g.slotOf, NEW j \in 1 .. L - n, h.copies[j].slot = g.slotOf[x]
                 PROVE  /\ x \in h.uploadPending
                        /\ \E m \in 1 .. L - n : j <= m /\ h.copies[m].stage = g.eventOf[x]
    BY <1>6, <1>8 DEF Known
  <2>2. n + j \in 1 .. L /\ g.copies[n + j].slot = g.slotOf[x]
    BY <1>8, <1>9, <2>1
  <2>3. /\ x \in g.uploadPending
        /\ \E m \in 1 .. L : n + j <= m /\ g.copies[m].stage = g.eventOf[x]
    BY <1>1, <2>2 DEF Known, L
  <2>4. PICK m \in 1 .. L : n + j <= m /\ g.copies[m].stage = g.eventOf[x]
    BY <2>3
  <2>5. m - n \in 1 .. L - n /\ j <= m - n /\ n + (m - n) = m /\ ~(m <= n)
    BY <1>1, <1>9, <2>4
  <2>6. x # k
    BY <1>2, <2>3, <2>4, <2>5
  <2>7. h.copies[m - n] = g.copies[m]
    BY <1>8, <2>5
  <2>8. QED
    BY <1>3, <1>8, <2>3, <2>4, <2>5, <2>6, <2>7
<1>13. After(g, n, d) = k
  <2>1. Arriving(g, d) = k
    BY <1>1 DEF Own, d
  <2>2. Arriving(g, d) = After(g, L, d)
    BY DEF Arriving, L
  <2>3. \A j \in 1 .. L : g.copies[j].slot = d => j <= n
    <3>1. ASSUME NEW j \in 1 .. L, g.copies[j].slot = d
          PROVE  j <= n
      <4>1. /\ k \in g.uploadPending
            /\ \E m \in 1 .. L : j <= m /\ g.copies[m].stage = g.eventOf[k]
        BY <1>1, <3>1 DEF Known, L, d
      <4>2. PICK m \in 1 .. L : j <= m /\ g.copies[m].stage = g.eventOf[k]
        BY <4>1
      <4>3. m <= n
        BY <1>2, <4>1, <4>2
      <4>4. QED
        BY <1>1, <1>9, <4>2, <4>3
    <3>2. QED
      BY <3>1
  <2>4. \A j \in 1 .. L : g.copies[j].slot = d => j \in 1 .. n
    BY <1>1, <1>9, <2>3
  <2>5. CASE NoCopy(g, n, d)
    <3>1. NoCopy(g, L, d)
      BY <2>4, <2>5 DEF NoCopy
    <3>2. After(g, n, d) = g.dev[d]
      BY <1>9, <2>5, LastOrNone
    <3>3. After(g, L, d) = g.dev[d]
      BY <1>1, <3>1, LastOrNone
    <3>4. QED
      BY <2>1, <2>2, <3>2, <3>3
  <2>6. ASSUME NEW j, LastCopy(g, n, d, j)
        PROVE  After(g, n, d) = k
    <3>1. LastCopy(g, L, d, j)
      BY <1>1, <1>9, <2>4, <2>6 DEF LastCopy
    <3>2. After(g, n, d) = g.host[g.copies[j].stage]
      BY <1>9, <2>6, LastCounts
    <3>3. After(g, L, d) = g.host[g.copies[j].stage]
      BY <1>1, <3>1, LastCounts
    <3>4. QED
      BY <2>1, <2>2, <3>2, <3>3
  <2>7. QED
    BY <1>9, <2>5, <2>6, LastOrNone
<1>14. h.dev[d] = k
  BY <1>5, <1>6, <1>13
<1>15. QED
  BY <1>6, <1>8, <1>10, <1>11, <1>12, <1>14 DEF Sound, d

-----------------------------------------------------------------------------
(* The outcomes of the two calls *)

\* An outcome that leaves a cache of the same size and the right shape.
WellFormed(o, g) ==
    /\ Shape(o.gpu) /\ o.gpu.capacity = g.capacity
    /\ o.ok \in BOOLEAN /\ o.fault \in BOOLEAN

\* A failure leaves the cache it is given.
LEMMA FailsWellFormed ==
    ASSUME NEW g, NEW x, Shape(x), x.capacity = g.capacity, NEW f, NEW o, o \in Fails(x, f)
    PROVE  WellFormed(o, g)
<1>1. o = Outcome(x, FALSE, TRUE)
  BY DEF Fails
<1>2. QED
  BY <1>1 DEF WellFormed, Outcome

\* What the steps of an upload leave, by the step at which it ends.
LEMMA UploadShapes ==
    ASSUME NEW g, Shape(g), g.capacity # 0, NEW k \in ExpertKeys
    PROVE  LET s == g.nextStageSlot
               claimed == Advanced(Admitted(g, k))
               filled == Filled(Drained(claimed, s), s, k)
           IN  /\ Shape(claimed) /\ claimed.capacity = g.capacity
               /\ Shape(filled) /\ filled.capacity = g.capacity
               /\ Shape(Queued(filled, s, k)) /\ Queued(filled, s, k).capacity = g.capacity
<1> DEFINE s == g.nextStageSlot
           a == Admitted(g, k)
           claimed == Advanced(a)
           drained == Drained(claimed, s)
           filled == Filled(drained, s, k)
           queued == Queued(filled, s, k)
<1>1. s \in StageSlots
  BY DEF Shape, GpuType
<1>2. Shape(a) /\ a.capacity = g.capacity /\ k \in DOMAIN a.slotOf
  <2>1. /\ Shape(a)
        /\ OnlyIn({"slotOf", "inUse", "age", "uploadPending", "eventOf"}, g, a)
        /\ a.slotOf = [r \in Stay(g, k) |-> IF r = k THEN Victim(g) ELSE g.slotOf[r]]
    BY AdmittedParts
  <2>2. QED
    BY <2>1 DEF OnlyIn, Parts, Stay
<1> HIDE DEF a
<1>3. Shape(claimed) /\ claimed.capacity = g.capacity /\ claimed.slotOf = a.slotOf
  BY <1>2, AdvancedParts DEF OnlyIn, Parts
<1> HIDE DEF claimed
<1>4. Shape(drained) /\ drained.capacity = g.capacity /\ drained.slotOf = a.slotOf
  <2>1. CASE s \in claimed.slotPending
    BY <1>3, <2>1, DrainedParts DEF OnlyIn, Parts
  <2>2. CASE s \notin claimed.slotPending
    BY <1>3, <2>2, DrainedParts
  <2>3. QED
    BY <2>1, <2>2
<1> HIDE DEF drained
<1>5. Shape(filled) /\ filled.capacity = g.capacity /\ k \in DOMAIN filled.slotOf
  <2>1. Shape(filled) /\ OnlyIn({"host"}, drained, filled)
    BY <1>1, <1>4, FilledParts
  <2> HIDE DEF filled
  <2>2. QED
    BY <1>2, <1>4, <2>1 DEF OnlyIn, Parts
<1> HIDE DEF filled
<1>6. Shape(queued) /\ queued.capacity = g.capacity
  <2>1. Shape(queued) /\ OnlyIn({"copies", "slotPending", "uploadPending", "eventOf"}, filled, queued)
    BY <1>1, <1>5, QueuedParts
  <2> HIDE DEF queued
  <2>2. QED
    BY <1>5, <2>1 DEF OnlyIn, Parts
<1>7. QED
  BY <1>3, <1>5, <1>6 DEF a, claimed, drained, filled

\* Every outcome of gpuExpertStage has the right shape.
LEMMA StageWellFormed ==
    ASSUME NEW g, Shape(g), g.capacity # 0, NEW k \in ExpertKeys, NEW o \in Stage(g, k)
    PROVE  WellFormed(o, g)
<1> DEFINE ready == Alloc(g)
           s == ready.nextStageSlot
           claimed == Advanced(Admitted(ready, k))
           filled == Filled(Drained(claimed, s), s, k)
           queued == Queued(filled, s, k)
<1>1. /\ Shape(ready) /\ ready.capacity = g.capacity /\ ready.slotOf = g.slotOf
      /\ ready.slotPending = g.slotPending
  BY AllocParts DEF OnlyIn, Parts
<1> HIDE DEF ready
<1>2. /\ Shape(claimed) /\ claimed.capacity = g.capacity
      /\ Shape(filled) /\ filled.capacity = g.capacity
      /\ Shape(queued) /\ queued.capacity = g.capacity
  BY <1>1, UploadShapes
<1>3. CASE o \in Fails(g, "alloc")
  BY <1>3, FailsWellFormed
<1>4. CASE k \in DOMAIN g.slotOf /\ o = Outcome(Touched(ready, ready.slotOf[k]), TRUE, FALSE)
  <2>1. ready.slotOf[k] \in DeviceSlots(ready)
    BY <1>1, <1>4 DEF Shape, GpuType
  <2>2. Shape(Touched(ready, ready.slotOf[k])) /\ Touched(ready, ready.slotOf[k]).capacity = g.capacity
    BY <1>1, <2>1, TouchedParts DEF OnlyIn, Parts
  <2>3. QED
    BY <1>4, <2>2 DEF WellFormed, Outcome
<1>5. CASE o \in Upload(ready, k)
  <2>1. \/ o = Outcome(queued, TRUE, FALSE)
        \/ o \in Fails(claimed, "drain")
        \/ o \in Fails(filled, "upload")
    <3> HIDE DEF claimed, filled, queued
    <3>1. Upload(ready, k) = {Outcome(queued, TRUE, FALSE)}
                             \cup (IF s \in ready.slotPending THEN Fails(claimed, "drain") ELSE {})
                             \cup Fails(filled, "upload")
      BY DEF Upload, claimed, filled, queued
    <3>2. QED
      BY <1>5, <3>1
  <2> HIDE DEF claimed, filled, queued
  <2>2. CASE o = Outcome(queued, TRUE, FALSE)
    BY <1>2, <2>2 DEF WellFormed, Outcome
  <2>3. CASE o \in Fails(claimed, "drain")
    BY <1>2, <2>3, FailsWellFormed
  <2>4. CASE o \in Fails(filled, "upload")
    BY <1>2, <2>4, FailsWellFormed
  <2>5. QED
    BY <2>1, <2>2, <2>3, <2>4
<1>6. QED
  <2>1. \/ o \in Fails(g, "alloc")
        \/ k \in DOMAIN ready.slotOf /\ o = Outcome(Touched(ready, ready.slotOf[k]), TRUE, FALSE)
        \/ o \in Upload(ready, k)
    BY <1>1 DEF Stage, ready
  <2>2. QED
    BY <1>1, <1>3, <1>4, <1>5, <2>1

\* Every outcome of gpuExpertFFN has the right shape.
LEMMA FFNWellFormed ==
    ASSUME NEW g, Shape(g), NEW k, NEW o \in FFN(g, k)
    PROVE  WellFormed(o, g)
<1> DEFINE released == Released(g, k)
           n == Awaited(g, k)
           done == Copied(released, n)
           answer == [Outcome(done, TRUE, FALSE) EXCEPT !.bytes = done.dev[g.slotOf[k]]]
<1>1. Shape(released) /\ released.capacity = g.capacity /\ released.copies = g.copies
  BY ReleasedParts DEF OnlyIn, Parts
<1>2. n \in 0 .. Len(g.copies)
  BY AwaitedIs
<1> HIDE DEF released, n
<1>3. Shape(done) /\ done.capacity = g.capacity
  BY <1>1, <1>2, CopiedParts DEF OnlyIn, Parts
<1>4. \/ o = Outcome(g, FALSE, FALSE)
      \/ o = answer
      \/ o \in Fails(g, "wait")
      \/ o \in Fails(released, "input")
      \/ o \in Fails(released, "kernel")
      \/ o \in Fails(done, "output")
  BY DEF FFN, released, n
<1> HIDE DEF done
<1>5. CASE o = Outcome(g, FALSE, FALSE)
  BY <1>5 DEF WellFormed, Outcome
<1>6. CASE o = answer
  BY <1>3, <1>6 DEF WellFormed, Outcome
<1>7. CASE o \in Fails(g, "wait")
  BY <1>7, FailsWellFormed
<1>8. CASE o \in Fails(released, "input") \/ o \in Fails(released, "kernel")
  BY <1>1, <1>8, FailsWellFormed
<1>9. CASE o \in Fails(done, "output")
  BY <1>3, <1>9, FailsWellFormed
<1>10. QED
  BY <1>4, <1>5, <1>6, <1>7, <1>8, <1>9

\* The device calls whose failure leaves the cache as sound as it was.  An
\* upload that fails, or a drain, leaves its key resident without its bytes; a
\* failure between the release of the buffer and the kernel leaves the buffer
\* to be overwritten.
Recoverable == Faults \subseteq {"alloc", "wait", "output"}

\* A failed or successful staging leaves the cache sound.
LEMMA StageSound ==
    ASSUME NEW g, Sound(g), g.capacity # 0, NEW k \in ExpertKeys, NEW o \in Stage(g, k),
           Recoverable, KeyZero \notin ExpertKeys
    PROVE  Sound(o.gpu)
<1> DEFINE ready == Alloc(g)
           s == ready.nextStageSlot
           claimed == Advanced(Admitted(ready, k))
           filled == Filled(Drained(claimed, s), s, k)
           queued == Queued(filled, s, k)
<1>1. /\ Shape(ready) /\ OnlyIn({"configured"}, g, ready)
      /\ ready.capacity = g.capacity /\ ready.slotOf = g.slotOf
  BY AllocParts DEF OnlyIn, Parts, Sound
<1> HIDE DEF ready
<1>2. Sound(ready)
  BY <1>1, SoundKept DEF OnlyIn
<1>3. CASE o \in Fails(g, "alloc")
  BY <1>3 DEF Fails, Outcome
<1>4. CASE k \in DOMAIN ready.slotOf /\ o = Outcome(Touched(ready, ready.slotOf[k]), TRUE, FALSE)
  <2> DEFINE t == Touched(ready, ready.slotOf[k])
  <2>1. ready.slotOf[k] \in DeviceSlots(ready)
    BY <1>1, <1>4 DEF Shape, GpuType
  <2>2. Shape(t) /\ OnlyIn({"age"}, ready, t)
    BY <1>1, <2>1, TouchedParts
  <2> HIDE DEF t
  <2>3. Sound(t)
    BY <1>2, <2>2, SoundKept DEF OnlyIn
  <2>4. QED
    BY <1>4, <2>3 DEF Outcome, t
<1>5. CASE k \notin DOMAIN ready.slotOf /\ o \in Upload(ready, k)
  <2>1. \/ o = Outcome(queued, TRUE, FALSE)
        \/ o \in Fails(claimed, "drain")
        \/ o \in Fails(filled, "upload")
    <3> HIDE DEF claimed, filled, queued
    <3>1. Upload(ready, k) = {Outcome(queued, TRUE, FALSE)}
                             \cup (IF s \in ready.slotPending THEN Fails(claimed, "drain") ELSE {})
                             \cup Fails(filled, "upload")
      BY DEF Upload, claimed, filled, queued
    <3>2. QED
      BY <1>5, <3>1
  <2>2. Sound(queued)
    BY <1>1, <1>2, <1>5, SoundUpload
  <2> HIDE DEF claimed, filled, queued
  <2>3. ~(o \in Fails(claimed, "drain")) /\ ~(o \in Fails(filled, "upload"))
    BY DEF Recoverable, Fails
  <2>4. QED
    BY <2>1, <2>2, <2>3 DEF Outcome
<1>6. QED
  <2>1. \/ o \in Fails(g, "alloc")
        \/ k \in DOMAIN ready.slotOf /\ o = Outcome(Touched(ready, ready.slotOf[k]), TRUE, FALSE)
        \/ k \notin DOMAIN ready.slotOf /\ o \in Upload(ready, k)
    BY <1>1 DEF Stage, ready
  <2>2. QED
    BY <1>3, <1>4, <1>5, <2>1

\* A computation leaves the cache sound, and its result is that of its key's bytes.
LEMMA FFNSound ==
    ASSUME NEW g, Sound(g), NEW k, NEW o \in FFN(g, k), Recoverable
    PROVE  Sound(o.gpu) /\ (o.ok => o.bytes = k)
<1> DEFINE done == Copied(Released(g, k), Awaited(g, k))
           answer == [Outcome(done, TRUE, FALSE) EXCEPT !.bytes = done.dev[g.slotOf[k]]]
<1>1. \/ o = Outcome(g, FALSE, FALSE)
      \/ k \in DOMAIN g.slotOf /\ o = answer
      \/ o \in Fails(g, "wait")
      \/ o \in Fails(Released(g, k), "input")
      \/ o \in Fails(Released(g, k), "kernel")
      \/ k \in DOMAIN g.slotOf /\ o \in Fails(done, "output")
  BY DEF FFN
<1>2. k \in DOMAIN g.slotOf => Sound(done) /\ done.dev[g.slotOf[k]] = k
  BY SoundAnswered
<1> HIDE DEF done
<1>3. CASE o = Outcome(g, FALSE, FALSE)
  BY <1>3 DEF Outcome
<1>4. CASE k \in DOMAIN g.slotOf /\ o = answer
  BY <1>2, <1>4 DEF Outcome
<1>5. CASE o \in Fails(g, "wait")
  BY <1>5 DEF Fails, Outcome
<1>6. ~(o \in Fails(Released(g, k), "input")) /\ ~(o \in Fails(Released(g, k), "kernel"))
  BY DEF Recoverable, Fails
<1>7. CASE k \in DOMAIN g.slotOf /\ o \in Fails(done, "output")
  BY <1>2, <1>7 DEF Fails, Outcome
<1>8. QED
  BY <1>1, <1>3, <1>4, <1>5, <1>6, <1>7

-----------------------------------------------------------------------------
(* The scheduler's routing state *)

\* As many winners as the router picks.
RankLen == Min({TopK, NumExperts})

\* A ranking has at least one winner, and no more than TopK.
LEMMA RankingsAre ==
    /\ RankLen \in 1 .. TopK /\ RankLen \in 1 .. NumExperts /\ TopK \in Nat
    /\ \A w \in Rankings :
        /\ w \in Seq(Experts) /\ Len(w) = RankLen /\ DOMAIN w = 1 .. RankLen
        /\ w # <<>>
        /\ \A n \in 1 .. RankLen : w[n] \in Experts
        /\ ToSet(w) \subseteq Experts
    /\ \A p \in Probabilities : \A n \in 1 .. RankLen : p[n] \in Nat
    /\ \A p \in Probabilities : DOMAIN p = 1 .. RankLen
<1>1. TopK \in Nat \ {0} /\ NumExperts \in Nat \ {0}
  BY TopKAssumption, ExpertsAssumption
<1>2. RankLen \in {TopK, NumExperts} /\ \A x \in {TopK, NumExperts} : RankLen <= x
  <2> DEFINE S == {TopK, NumExperts}
  <2>1. S \in SUBSET Nat /\ S # {}
    BY <1>1
  <2> HIDE DEF S
  <2>2. Min(S) \in S /\ \A x \in S : Min(S) <= x
    BY <2>1, SmallestNat
  <2>3. QED
    BY <2>2 DEF S, RankLen
<1>3. RankLen \in 1 .. TopK /\ RankLen \in 1 .. NumExperts /\ TopK \in Nat
  BY <1>1, <1>2
<1>4. ASSUME NEW w \in Rankings
      PROVE  /\ w \in Seq(Experts) /\ Len(w) = RankLen /\ DOMAIN w = 1 .. RankLen
             /\ w # <<>>
             /\ \A n \in 1 .. RankLen : w[n] \in Experts
             /\ ToSet(w) \subseteq Experts
  <2>1. w \in [1 .. RankLen -> Experts]
    BY RankingsAssumption DEF RankLen
  <2>2. RankLen \in Nat
    BY <1>3
  <2>3. w \in Seq(Experts) /\ Len(w) = RankLen
    BY <2>1, <2>2
  <2>4. QED
    BY <1>3, <2>1, <2>3 DEF ToSet
<1>5. \A p \in Probabilities : p \in [1 .. RankLen -> Nat]
  BY ProbabilitiesAssumption DEF RankLen
<1>6. QED
  BY <1>3, <1>4, <1>5

\* A sequence has at most as many elements as places.
LEMMA ElementsOf ==
    ASSUME NEW S, NEW s \in Seq(S)
    PROVE  IsFiniteSet(ToSet(s)) /\ Cardinality(ToSet(s)) <= Len(s) /\ Cardinality(ToSet(s)) \in Nat
<1>1. Len(s) \in Nat /\ DOMAIN s = 1 .. Len(s)
  OBVIOUS
<1>2. IsFiniteSet(1 .. Len(s)) /\ Cardinality(1 .. Len(s)) = Len(s)
  BY <1>1, FS_Interval
<1>3. s \in Surjection(1 .. Len(s), ToSet(s))
  BY <1>1 DEF Surjection, ToSet
<1>4. IsFiniteSet(ToSet(s)) /\ Cardinality(ToSet(s)) <= Cardinality(1 .. Len(s))
  BY <1>2, <1>3, FS_Surjection
<1>5. QED
  BY <1>2, <1>4, FS_CardinalityType

\* A share of at most the whole.
LEMMA ShareOf ==
    ASSUME NEW one \in Nat, NEW c \in Nat, NEW m \in Nat \ {0}, c <= m
    PROVE  (one * c) \div m \in 0 .. one
<1> DEFINE q == (one * c) \div m
           k == m - c
<1>1. k \in Nat /\ one * k \in Nat /\ one * c \in Nat /\ one * m \in Nat
  OBVIOUS
<1>2. one * m = one * c + one * k
  OBVIOUS
<1>3. q \in Nat /\ q * m <= one * c
  BY <1>1
<1>4. q <= one
  <2> SUFFICES ASSUME ~(q <= one)
               PROVE  FALSE
    OBVIOUS
  <2> DEFINE e == q - one - 1
  <2>1. e \in Nat /\ q = one + 1 + e
    BY <1>3
  <2>2. q * m = one * m + m + e * m /\ e * m \in Nat
    BY <2>1
  <2> HIDE DEF q, k, e
  <2>3. QED
    BY <1>1, <1>2, <1>3, <2>2
<1>5. QED
  BY <1>3, <1>4

LookParts == {"options", "lastTopK", "overlap", "chosen", "maxProb"}

\* A routing state of the right shape.
LookShape(lk) ==
    /\ lk = [p \in LookParts |-> lk[p]]
    /\ LookType(lk)
    /\ lk.options \in [extra : Nat, prob : BOOLEAN, ema : BOOLEAN]

\* The overlap average stays between nothing and everything.
LEMMA OverlapBounded ==
    ASSUME NEW lk, LookShape(lk), NEW l \in MoeLayers, NEW w \in Rankings
    PROVE  /\ RolledOverlap(lk, l, w) \in 0 .. OverlapOne
           /\ lk.lastTopK[l] = <<>> => RolledOverlap(lk, l, w) = lk.overlap[l]
<1> DEFINE prev == lk.lastTopK[l]
           both == ToSet(prev) \cap ToSet(w)
           m == Max({Len(prev), Len(w)})
<1>1. /\ prev \in Seq(Experts) /\ lk.overlap[l] \in 0 .. OverlapOne
      /\ w \in Seq(Experts) /\ Len(w) \in Nat \ {0} /\ Len(prev) \in Nat
      /\ OverlapOne \in Nat \ {0}
  BY RankingsAre, OverlapAssumption DEF LookShape, LookType
<1>2. m \in Nat \ {0} /\ Len(w) <= m
  <2> DEFINE S == {Len(prev), Len(w)}
  <2>1. S \in SUBSET Nat /\ S # {} /\ \A x \in S : x <= Len(prev) + Len(w)
    BY <1>1
  <2>2. Len(prev) + Len(w) \in Nat
    BY <1>1
  <2> HIDE DEF S
  <2>3. Max(S) \in S /\ \A x \in S : x <= Max(S)
    BY <2>1, <2>2, GreatestNat
  <2>4. QED
    BY <1>1, <2>3 DEF S
<1>3. Cardinality(both) \in Nat /\ Cardinality(both) <= Len(w)
  <2>1. IsFiniteSet(ToSet(w)) /\ Cardinality(ToSet(w)) <= Len(w) /\ Cardinality(ToSet(w)) \in Nat
    BY <1>1, ElementsOf
  <2>2. both \in SUBSET ToSet(w)
    OBVIOUS
  <2>3. IsFiniteSet(both) /\ Cardinality(both) <= Cardinality(ToSet(w))
    BY <2>1, <2>2, FS_Subset
  <2>4. Cardinality(both) \in Nat
    BY <2>3, FS_CardinalityType
  <2>5. QED
    BY <1>1, <2>1, <2>3, <2>4
<1>4. Repeated(prev, w) = (OverlapOne * Cardinality(both)) \div m
  BY DEF Repeated
<1>5. RolledOverlap(lk, l, w) = IF prev = <<>> \/ w = <<>> THEN lk.overlap[l]
                                ELSE (Repeated(prev, w) + lk.overlap[l]) \div 2
  BY DEF RolledOverlap
<1> HIDE DEF prev, both, m
<1>6. Repeated(prev, w) \in 0 .. OverlapOne
  <2>1. Cardinality(both) <= m
    BY <1>1, <1>2, <1>3
  <2>2. QED
    BY <1>1, <1>2, <1>3, <1>4, <2>1, ShareOf
<1>7. (Repeated(prev, w) + lk.overlap[l]) \div 2 \in 0 .. OverlapOne
  BY <1>1, <1>6
<1>8. QED
  BY <1>1, <1>5, <1>7 DEF prev

\* The top probability of a layer stays one.
LEMMA TopProbability ==
    ASSUME NEW x \in Nat, NEW p \in Probabilities
    PROVE  Max({x} \cup ToSet(p)) \in Nat
<1> DEFINE S == {x} \cup ToSet(p)
<1>1. RankLen \in Nat /\ RankLen # 0 /\ \A n \in 1 .. RankLen : p[n] \in Nat
  BY RankingsAre
<1>2. PICK j \in 1 .. RankLen : \A n \in 1 .. RankLen : p[n] <= p[j]
  BY <1>1, GreatestPlace
<1>3. S = {x} \cup {p[n] : n \in 1 .. RankLen}
  BY RankingsAre DEF ToSet
<1>4. S \in SUBSET Nat /\ S # {} /\ \A y \in S : y <= x + p[j]
  <2>1. \A n \in 1 .. RankLen : p[n] <= x + p[j]
    BY <1>1, <1>2
  <2>2. QED
    BY <1>1, <1>3, <2>1
<1>5. x + p[j] \in Nat
  BY <1>1
<1> HIDE DEF S
<1>6. Max(S) \in S
  BY <1>4, <1>5, GreatestNat
<1>7. QED
  BY <1>4, <1>6 DEF S

\* What a choice leaves in the routing state.
LEMMA RolledParts ==
    ASSUME NEW lk, LookShape(lk), NEW l \in MoeLayers, NEW w \in Rankings, NEW p \in Probabilities
    PROVE  LET r == Rolled(lk, l, w, p)
           IN  /\ LookShape(r) /\ r.options = lk.options
               /\ r.lastTopK = [lk.lastTopK EXCEPT ![l] = w]
               /\ r.overlap = [lk.overlap EXCEPT ![l] = RolledOverlap(lk, l, w)]
<1> DEFINE r == Rolled(lk, l, w, p)
           more(k) == IF lk.options.ema /\ k \in {<<l, e>> : e \in ToSet(w)} THEN 1 ELSE 0
           chosen == [k \in MoeLayers \X Experts |-> lk.chosen[k] + more(k)]
           top == IF lk.options.prob THEN Max({lk.maxProb[l]} \cup ToSet(p)) ELSE lk.maxProb[l]
<1>1. /\ lk.lastTopK \in [MoeLayers -> Seq(Experts)]
      /\ lk.overlap \in [MoeLayers -> 0 .. OverlapOne]
      /\ lk.chosen \in [MoeLayers \X Experts -> Nat]
      /\ lk.maxProb \in [MoeLayers -> Nat]
  BY DEF LookShape, LookType
<1>2. chosen \in [MoeLayers \X Experts -> Nat]
  <2>1. \A k : more(k) \in Nat
    OBVIOUS
  <2> HIDE DEF more
  <2>2. QED
    BY <1>1, <2>1
<1>3. top \in Nat
  <2>1. lk.maxProb[l] \in Nat
    BY <1>1
  <2>2. Max({lk.maxProb[l]} \cup ToSet(p)) \in Nat
    BY <2>1, TopProbability
  <2>3. QED
    BY <2>1, <2>2
<1>4. r = [lk EXCEPT !.overlap = [lk.overlap EXCEPT ![l] = RolledOverlap(lk, l, w)],
                     !.lastTopK = [lk.lastTopK EXCEPT ![l] = w],
                     !.chosen = chosen,
                     !.maxProb = [lk.maxProb EXCEPT ![l] = top]]
  <2>1. DOMAIN lk.chosen = MoeLayers \X Experts
    BY <1>1
  <2>2. QED
    BY <2>1 DEF Rolled, LookShape, LookParts
<1>5. RolledOverlap(lk, l, w) \in 0 .. OverlapOne /\ w \in Seq(Experts)
  BY OverlapBounded, RankingsAre
<1> HIDE DEF chosen, top, r
<1>6. /\ r = [q \in LookParts |-> r[q]]
      /\ r.options = lk.options
      /\ r.lastTopK = [lk.lastTopK EXCEPT ![l] = w]
      /\ r.overlap = [lk.overlap EXCEPT ![l] = RolledOverlap(lk, l, w)]
      /\ r.chosen = chosen /\ r.maxProb = [lk.maxProb EXCEPT ![l] = top]
  BY <1>4 DEF LookShape, LookParts
<1>7. LookType(r)
  <2>1. r.lastTopK \in [MoeLayers -> Seq(Experts)]
    BY <1>1, <1>5, <1>6
  <2>2. r.overlap \in [MoeLayers -> 0 .. OverlapOne]
    BY <1>1, <1>5, <1>6
  <2>3. r.chosen \in [MoeLayers \X Experts -> Nat]
    BY <1>2, <1>6
  <2>4. r.maxProb \in [MoeLayers -> Nat]
    BY <1>1, <1>3, <1>6
  <2>5. QED
    BY <2>1, <2>2, <2>3, <2>4 DEF LookType
<1>8. QED
  BY <1>6, <1>7 DEF LookShape, r

-----------------------------------------------------------------------------
(* What a call asks for *)

AskParts == {"demand", "guesses", "pins", "boosts"}
AskShape(a) == a = [p \in AskParts |-> a[p]]

Mine(l, w) == {<<l, e>> : e \in ToSet(w)}
Guessed(a) == {k \in a.guesses : k[2] \in Experts}

\* What RequestsAreJustified says of requests a, made for the winners w of layer
\* l at token t, which left the routing state lk; device when the layer has
\* stayed on the device.
Justified(a, lk, w, l, t, device) ==
    /\ l + 1 < NumLayers => Mine(l, w) \cup Shared(l) \subseteq a.demand
    /\ device => a.demand \subseteq Mine(l, w) \cup Shared(l)
    /\ \A k \in a.guesses : k[1] = l + 1
    /\ lk.options.extra = 0 =>
        \A k \in Guessed(a) :
            /\ k[2] \in ToSet(lk.lastTopK[k[1]])
            /\ 2 * lk.overlap[k[1]] >= OverlapOne
            /\ t > 1
    /\ a.pins \cup a.boosts \subseteq Mine(l, w)
    /\ \A k \in a.pins : t > 0

\* The expert that is boosted is one of the winners.
LEMMA BoostedIsMine ==
    ASSUME NEW lk, LookShape(lk), NEW l \in MoeLayers, NEW w \in Rankings
    PROVE  Boosted(lk, l, w) \subseteq Mine(l, w)
<1> DEFINE hottest == {n \in DOMAIN w : \A j \in DOMAIN w : lk.chosen[<<l, w[j]>>] <= lk.chosen[<<l, w[n]>>]}
           heats == [n \in 1 .. RankLen |-> lk.chosen[<<l, w[n]>>]]
<1>1. /\ DOMAIN w = 1 .. RankLen /\ RankLen \in Nat /\ RankLen # 0
      /\ \A n \in 1 .. RankLen : w[n] \in Experts
  BY RankingsAre
<1>2. \A n \in 1 .. RankLen : heats[n] \in Nat
  <2>1. lk.chosen \in [MoeLayers \X Experts -> Nat]
    BY DEF LookShape, LookType
  <2>2. QED
    BY <1>1, <2>1
<1>3. PICK n \in 1 .. RankLen : \A j \in 1 .. RankLen : heats[j] <= heats[n]
  <2> HIDE DEF heats
  <2>1. QED
    BY <1>1, <1>2, GreatestPlace
<1>4. hottest \in SUBSET Nat /\ n \in hottest
  BY <1>1, <1>3
<1>5. hottest \subseteq DOMAIN w
  OBVIOUS
<1>6. Boosted(lk, l, w) \subseteq {<<l, w[Min(hottest)]>>}
  BY DEF Boosted
<1> HIDE DEF hottest
<1>7. Min(hottest) \in DOMAIN w
  BY <1>4, <1>5, SmallestNat
<1>8. QED
  BY <1>6, <1>7 DEF Mine, ToSet

\* Without the option there are no extra experts.
LEMMA NoExtras ==
    ASSUME NEW lk, lk.options.extra = 0, NEW w \in Rankings, NEW p, NEW guesses,
           NEW extra \in Extras(lk, w, p, guesses)
    PROVE  extra = {}
<1> DEFINE candidates == {n \in DOMAIN w : p[n] > 0 /\ w[n] \notin ToSet(guesses)}
           few == Min({lk.options.extra, Cardinality(candidates)})
<1>1. DOMAIN w = 1 .. RankLen /\ RankLen \in Nat
  BY RankingsAre
<1>2. PICK S \in kSubset(few, candidates) : extra = {w[n] : n \in S}
  BY DEF Extras
<1>3. S \subseteq candidates /\ Cardinality(S) = few
  BY <1>2 DEF kSubset
<1>4. candidates \in SUBSET (1 .. RankLen)
  BY <1>1
<1>5. IsFiniteSet(1 .. RankLen)
  BY <1>1, FS_Interval
<1>6. IsFiniteSet(candidates) /\ Cardinality(candidates) \in Nat
  <2> HIDE DEF candidates
  <2>1. QED
    BY <1>4, <1>5, FS_Subset, FS_CardinalityType
<1>7. few = 0
  <2> DEFINE R == {lk.options.extra, Cardinality(candidates)}
  <2>1. R \in SUBSET Nat /\ R # {} /\ 0 \in R
    BY <1>6
  <2>2. few = Min(R)
    OBVIOUS
  <2> HIDE DEF R, candidates, few
  <2>3. Min(R) \in Nat /\ \A x \in R : Min(R) <= x
    BY <2>1, SmallestNat
  <2>4. QED
    BY <2>1, <2>2, <2>3
<1> HIDE DEF candidates, few
<1>8. S = {}
  BY <1>3, <1>6, <1>7, FS_Subset, FS_EmptySet
<1>9. QED
  BY <1>2, <1>8

\* A pin is for a winner that was used before.
LEMMA PinnedIsMine ==
    ASSUME NEW lk, NEW us, NEW l, NEW w \in Rankings, NEW p
    PROVE  /\ Pinned(lk, us, l, w, p) \subseteq Mine(l, w)
           /\ \A k \in Pinned(lk, us, l, w, p) : us[k] >= 2
BY RankingsAre DEF Pinned, Mine, ToSet

\* Only a layer that the router has visited twice is guessed at, and by what it chose last.
LEMMA GuessesAreLast ==
    ASSUME NEW lk, LookShape(lk), NEW l \in MoeLayers, NEW w,
           lk.overlap[l] > 0 => lk.lastTopK[l] # <<>>,
           NEW e \in ToSet(Guesses(lk, l, w))
    PROVE  e \in ToSet(lk.lastTopK[l]) /\ 2 * lk.overlap[l] >= OverlapOne /\ lk.overlap[l] > 0
<1>1. lk.overlap[l] \in Nat /\ OverlapOne \in Nat \ {0}
  BY OverlapAssumption DEF LookShape, LookType
<1>2. ~(2 * lk.overlap[l] < OverlapOne)
  <2>1. SUFFICES ASSUME 2 * lk.overlap[l] < OverlapOne
                 PROVE  FALSE
    OBVIOUS
  <2>2. Guesses(lk, l, w) = <<>>
    BY <2>1 DEF Guesses
  <2>3. ToSet(Guesses(lk, l, w)) = {}
    BY <2>2 DEF ToSet
  <2>4. QED
    BY <2>3
<1>3. lk.overlap[l] > 0 /\ 2 * lk.overlap[l] >= OverlapOne
  BY <1>1, <1>2
<1>4. Guesses(lk, l, w) = lk.lastTopK[l]
  BY <1>2, <1>3 DEF Guesses, Predicted
<1>5. QED
  BY <1>3, <1>4

\* What a call of the scheduler asks for is justified by what it leaves.
LEMMA CallIsJustified ==
    ASSUME NEW lk, LookShape(lk), NEW us, NEW l \in MoeLayers, NEW w \in Rankings, NEW p \in Probabilities,
           NEW t, NEW device,
           \A m \in MoeLayers : lk.overlap[m] > 0 => lk.lastTopK[m] # <<>>,
           l + 1 \in MoeLayers /\ lk.overlap[l + 1] > 0 => t > 1,
           \A k \in Mine(l, w) : us[k] >= 2 => t > 0,
           NEW done \in RouterDone(lk, us, l, w, p)
    PROVE  /\ done.look = Rolled(lk, l, w, p)
           /\ AskShape(done.asks)
           /\ Justified(done.asks, done.look, w, l, t, device)
<1> DEFINE r == Rolled(lk, l, w, p)
           boosts == Boosted(r, l, w)
           next == l + 1
           guesses == Guesses(r, next, w)
<1>1. /\ LookShape(r) /\ r.options = lk.options
      /\ r.lastTopK = [lk.lastTopK EXCEPT ![l] = w]
      /\ r.overlap = [lk.overlap EXCEPT ![l] = RolledOverlap(lk, l, w)]
  BY RolledParts
<1>2. boosts \subseteq Mine(l, w)
  BY <1>1, BoostedIsMine
<1>3. next # l /\ l \in Int /\ next \in Int /\ NumLayers \in Int
  BY LayersAssumption DEF MoeLayers
<1> HIDE DEF r, boosts, guesses, next
<1>5. CASE next >= NumLayers
  <2>1. done = [look |-> r, asks |-> [NoRequests EXCEPT !.boosts = boosts]]
    BY <1>5 DEF RouterDone, r, boosts, next
  <2>2. /\ done.look = r
        /\ AskShape(done.asks)
        /\ done.asks.demand = {} /\ done.asks.guesses = {} /\ done.asks.pins = {}
        /\ done.asks.boosts = boosts
    BY <2>1 DEF NoRequests, AskShape, AskParts
  <2>3. Guessed(done.asks) = {}
    BY <2>2 DEF Guessed
  <2>4. ~(l + 1 < NumLayers)
    BY <1>3, <1>5 DEF next
  <2>5. Justified(done.asks, r, w, l, t, device)
    BY <1>2, <2>2, <2>3, <2>4 DEF Justified
  <2>6. QED
    BY <2>2, <2>5 DEF r
<1>6. CASE ~(next >= NumLayers)
  <2>1. PICK extra \in Extras(lk, w, p, guesses) :
            done = [look |-> r,
                    asks |-> [demand |-> Mine(l, w) \cup Shared(l),
                              guesses |-> {<<next, e>> : e \in ToSet(guesses) \cup extra} \cup Shared(next),
                              pins |-> Pinned(r, us, l, w, p),
                              boosts |-> boosts]]
    BY <1>6 DEF RouterDone, r, boosts, next, guesses, Mine
  <2>2. /\ done.look = r
        /\ AskShape(done.asks)
        /\ done.asks.demand = Mine(l, w) \cup Shared(l)
        /\ done.asks.guesses = {<<next, e>> : e \in ToSet(guesses) \cup extra} \cup Shared(next)
        /\ done.asks.pins = Pinned(r, us, l, w, p)
        /\ done.asks.boosts = boosts
    BY <2>1 DEF AskShape, AskParts
  <2>3. next \in MoeLayers
    BY <1>3, <1>6, LayersAssumption DEF MoeLayers, next
  <2>4. r.overlap[next] = lk.overlap[next] /\ r.lastTopK[next] = lk.lastTopK[next]
    BY <1>1, <1>3, <2>3 DEF LookShape, LookType
  <2>5. \A e \in ToSet(guesses) :
            e \in ToSet(r.lastTopK[next]) /\ 2 * r.overlap[next] >= OverlapOne /\ t > 1
    BY <1>1, <2>3, <2>4, GuessesAreLast DEF guesses, next
  <2>6. r.options.extra = 0 => extra = {}
    BY <1>1, <2>1, NoExtras
  <2>7. \A k \in Guessed(done.asks) :
            k[1] = next /\ \E e \in ToSet(guesses) \cup extra : k = <<next, e>>
    <3>1. \A k \in Shared(next) : k[2] \notin Experts
      BY ExpertsAssumption DEF Shared, SharedSlots, Experts
    <3>2. QED
      BY <2>2, <3>1 DEF Guessed
  <2>8. r.options.extra = 0 =>
            \A k \in Guessed(done.asks) :
                /\ k[2] \in ToSet(r.lastTopK[k[1]])
                /\ 2 * r.overlap[k[1]] >= OverlapOne
                /\ t > 1
    <3>1. SUFFICES ASSUME r.options.extra = 0, NEW k \in Guessed(done.asks)
                   PROVE  /\ k[2] \in ToSet(r.lastTopK[k[1]])
                          /\ 2 * r.overlap[k[1]] >= OverlapOne
                          /\ t > 1
      OBVIOUS
    <3>2. PICK e \in ToSet(guesses) : k = <<next, e>>
      BY <2>6, <2>7, <3>1
    <3>3. QED
      BY <2>5, <3>2
  <2>9. done.asks.pins \subseteq Mine(l, w) /\ \A k \in done.asks.pins : t > 0
    BY <2>2, PinnedIsMine
  <2>10. \A k \in done.asks.guesses : k[1] = l + 1
    BY <2>2 DEF Shared, next
  <2>11. Justified(done.asks, r, w, l, t, device)
    BY <1>2, <2>2, <2>8, <2>9, <2>10 DEF Justified
  <2>12. QED
    BY <2>2, <2>11 DEF r
<1>7. QED
  BY <1>5, <1>6

-----------------------------------------------------------------------------
(* The invariant of the layers *)

Pcs == {"route", "preload", "advance", "compute", "sum"}

\* Where the pass is, and the shape of what it keeps.
Control ==
    /\ Shape(gpu)
    /\ LookShape(look)
    /\ AskShape(asks)
    /\ uses \in [MoeLayers \X Experts -> 0 .. 2]
    /\ gpuExperts \in BOOLEAN /\ (gpuExperts => gpu.capacity # 0)
    /\ gpuOk \in BOOLEAN /\ (gpuOk => gpuExperts)
    /\ tokens \in Nat /\ token \in 0 .. tokens /\ layer \in MoeLayers
    /\ pc \in Pcs
    /\ winners \in Rankings \cup {<<>>}
    /\ pc # "route" => token < tokens /\ winners \in Rankings
    /\ i \in 0 .. K /\ stagedEnd \in 0 .. K
    /\ pc = "preload" => i = 0
    /\ pc = "compute" => i < K
    /\ pc = "sum" => i = K
    /\ errors \in 0 .. MaxErrors

\* Layer l has been routed, for this token or an earlier one.
Visited(l) == token > 0 \/ l < layer \/ (l = layer /\ pc # "route")

\* Layer l has been routed for two tokens.
VisitedTwice(l) == token > 1 \/ (token = 1 /\ (l < layer \/ (l = layer /\ pc # "route")))

\* What is remembered of a layer was learned there.
History ==
    /\ \A l \in MoeLayers : look.lastTopK[l] # <<>> => Visited(l)
    /\ \A l \in MoeLayers : look.overlap[l] > 0 => look.lastTopK[l] # <<>> /\ VisitedTwice(l)
    /\ \A l \in MoeLayers, e \in Experts : uses[<<l, e>>] > 0 => Visited(l)

\* The requests of the layer in progress are justified.
Asked == pc # "route" => Justified(asks, look, winners, layer, token, gpuOk)

\* The sum grows with the winners, and what was computed on the CPU asked for
\* the winner after it.
ReadAhead ==
    pc # "route" =>
        /\ \E S : moeOut \in Seq(S)
        /\ Len(moeOut) = i
        /\ \A m \in 1 .. i : m < K /\ moeOut[m].engine = "cpu" => Key(m + 1) \in asks.demand

\* Every contribution so far is that of its winner, computed with its weights.
Summed ==
    pc # "route" =>
        /\ moeOut \in Seq([winner : Nat, engine : {"gpu", "cpu"}, bytes : ExpertKeys])
        /\ Len(moeOut) = i
        /\ \A n \in 1 .. i : moeOut[n].winner = n /\ moeOut[n].bytes = Key(n)

\* The winners of a layer are experts the device may hold.
LEMMA KeysOfWinners ==
    Control => /\ pc # "route" => K = RankLen /\ \A n \in 1 .. K : Key(n) \in ExpertKeys
                                                    /\ Key(n) \in MoeLayers \X Experts
                                                    /\ Key(n) \in Mine(layer, winners)
               /\ K \in 0 .. TopK
<1> SUFFICES ASSUME Control
             PROVE  /\ pc # "route" => K = RankLen /\ \A n \in 1 .. K : Key(n) \in ExpertKeys
                                                    /\ Key(n) \in MoeLayers \X Experts
                                                    /\ Key(n) \in Mine(layer, winners)
                    /\ K \in 0 .. TopK
  OBVIOUS
<1>1. K \in 0 .. TopK
  <2>1. CASE winners \in Rankings
    BY <2>1, RankingsAre DEF K
  <2>2. CASE winners = <<>>
    BY <2>2, RankingsAre DEF K
  <2>3. QED
    BY <2>1, <2>2 DEF Control
<1>2. ASSUME pc # "route"
      PROVE  K = RankLen /\ \A n \in 1 .. K : Key(n) \in ExpertKeys
                                 /\ Key(n) \in MoeLayers \X Experts
                                 /\ Key(n) \in Mine(layer, winners)
  <2>1. winners \in Rankings /\ layer \in MoeLayers
    BY <1>2 DEF Control
  <2>2. K = RankLen /\ \A n \in 1 .. K : winners[n] \in Experts /\ winners[n] \in ToSet(winners)
    BY <2>1, RankingsAre DEF K, ToSet
  <2>3. QED
    BY <2>1, <2>2, KeysAssumption DEF Key, Mine
<1>3. QED
  BY <1>1, <1>2

\* The start: nothing is known, and the device holds nothing.
LEMMA UnallocatedIsSound ==
    ASSUME NEW n \in Nat
    PROVE  Sound(Unallocated(n)) /\ Unallocated(n).capacity = n
<1> DEFINE g == Unallocated(n)
<1>1. /\ g = [p \in Parts |-> g[p]]
      /\ g.capacity = n /\ g.configured = FALSE /\ g.slotOf = <<>> /\ g.inUse = {}
      /\ g.age = [d \in 0 .. n - 1 |-> d + 1]
      /\ g.slotPending = {} /\ g.nextStageSlot = 0 /\ g.uploadPending = {} /\ g.eventOf = <<>>
      /\ g.host = [s \in StageSlots |-> Garbage]
      /\ g.dev = [d \in 0 .. n - 1 |-> Garbage]
      /\ g.copies = <<>>
  BY DEF Unallocated, Parts
<1>2. Range([d \in 0 .. n - 1 |-> d + 1]) = 1 .. n
  <2>1. \A r \in 1 .. n : r - 1 \in 0 .. n - 1 /\ (r - 1) + 1 = r
    OBVIOUS
  <2>2. \A d \in 0 .. n - 1 : d + 1 \in 1 .. n
    OBVIOUS
  <2>3. QED
    BY <2>1, <2>2 DEF Range
<1>3. DeviceSlots(g) = 0 .. n - 1 /\ 0 \in StageSlots
  BY <1>1, StagingAssumption DEF DeviceSlots, StageSlots
<1> HIDE DEF g
<1>4. GpuType(g)
  <2>1. DOMAIN g.slotOf = {} /\ DOMAIN g.eventOf = {}
    <3>1. DOMAIN <<>> = {}
      OBVIOUS
    <3>2. g.slotOf = <<>> /\ g.eventOf = <<>>
      BY <1>1
    <3>3. QED
      BY <3>1, <3>2
  <2>2. g.copies \in Seq([stage : StageSlots, slot : DeviceSlots(g)])
    <3>1. \A S : <<>> \in Seq(S)
      OBVIOUS
    <3>2. g.copies = <<>>
      BY <1>1
    <3>3. QED
      BY <3>1, <3>2
  <2>3. DOMAIN g.age = DeviceSlots(g) /\ Range(g.age) = 1 .. g.capacity
    BY <1>1, <1>2, <1>3
  <2>4. g.host \in [StageSlots -> Contents] /\ g.dev \in [DeviceSlots(g) -> Contents]
    BY <1>1, <1>3 DEF Contents
  <2>5. /\ g.configured \in BOOLEAN /\ g.inUse = {} /\ g.slotPending = {}
        /\ g.nextStageSlot \in StageSlots /\ g.uploadPending = {}
    BY <1>1, <1>3
  <2>6. QED
    BY <2>1, <2>2, <2>3, <2>4, <2>5 DEF GpuType
<1>5. Len(g.copies) = 0
  BY <1>1
<1>6. Own(g) /\ Queue(g) /\ Known(g)
  BY <1>1, <1>5 DEF Own, Queue, Known, IsInjective
<1>7. QED
  BY <1>1, <1>4, <1>6 DEF Sound, Shape, g

\* Nothing is loaded, staged or remembered at first.
LEMMA ControlInit == Init => Control /\ Sound(gpu)
<1> SUFFICES ASSUME Init
             PROVE  Control /\ Sound(gpu)
  OBVIOUS
<1>1. PICK mode \in Modes : /\ gpuExperts = (mode.slots > 0)
                            /\ gpu = Unallocated(mode.slots)
                            /\ tokens = mode.tokens
                            /\ look = NoLookback(mode.options)
  BY DEF Init
<1>2. /\ mode.slots \in Nat /\ mode.tokens \in Nat
      /\ mode.options \in [extra : Nat, prob : BOOLEAN, ema : BOOLEAN]
  BY ModesAssumption
<1>3. Sound(gpu) /\ gpu.capacity = mode.slots
  BY <1>1, <1>2, UnallocatedIsSound
<1>4. LookShape(look)
  <2>1. /\ look = [p \in LookParts |-> look[p]]
        /\ look.options = mode.options
        /\ look.lastTopK = [l \in MoeLayers |-> <<>>]
        /\ look.overlap = [l \in MoeLayers |-> 0]
        /\ look.chosen = [k \in MoeLayers \X Experts |-> 0]
        /\ look.maxProb = [l \in MoeLayers |-> 0]
    BY <1>1 DEF NoLookback, LookParts
  <2>2. <<>> \in Seq(Experts) /\ 0 \in 0 .. OverlapOne
    BY OverlapAssumption
  <2>3. LookType(look)
    <3>1. look.lastTopK \in [MoeLayers -> Seq(Experts)]
      BY <2>1, <2>2
    <3>2. look.overlap \in [MoeLayers -> 0 .. OverlapOne]
      BY <2>1, <2>2
    <3>3. look.chosen \in [MoeLayers \X Experts -> Nat] /\ look.maxProb \in [MoeLayers -> Nat]
      BY <2>1
    <3>4. QED
      BY <3>1, <3>2, <3>3 DEF LookType
  <2>4. QED
    BY <1>2, <2>1, <2>3 DEF LookShape
<1>5. AskShape(asks)
  BY DEF Init, NoRequests, AskShape, AskParts
<1>6. /\ gpuExperts \in BOOLEAN /\ (gpuExperts => gpu.capacity # 0)
      /\ gpuOk = FALSE
      /\ tokens \in Nat /\ token \in 0 .. tokens /\ layer \in MoeLayers
      /\ pc = "route" /\ winners = <<>> /\ i = 0 /\ stagedEnd = 0
      /\ K = 0
      /\ errors \in 0 .. MaxErrors
  <2>1. /\ gpuOk = FALSE /\ token = 0 /\ layer = FirstMoe /\ errors = 0
        /\ pc = "route" /\ winners = <<>> /\ i = 0 /\ stagedEnd = 0
    BY DEF Init
  <2>2. gpuExperts \in BOOLEAN /\ (gpuExperts => gpu.capacity # 0)
    <3>1. gpuExperts = (mode.slots > 0) /\ mode.slots \in Nat /\ gpu.capacity = mode.slots
      BY <1>1, <1>2, <1>3
    <3>2. CASE mode.slots > 0
      <4>1. (mode.slots > 0) = TRUE
        BY <3>2, Zenon
      <4>2. gpuExperts = TRUE
        BY <3>1, <4>1, Zenon
      <4>3. gpu.capacity # 0
        BY <3>1, <3>2
      <4>4. QED
        BY <4>2, <4>3
    <3>3. CASE ~(mode.slots > 0)
      <4>1. (mode.slots > 0) = FALSE
        BY <3>1, <3>3, SMT
      <4>2. gpuExperts = FALSE
        BY <3>1, <4>1, Zenon
      <4>3. QED
        BY <4>2
    <3>4. QED
      BY <3>2, <3>3
  <2>3. tokens \in Nat /\ token \in 0 .. tokens
    BY <1>1, <1>2, <2>1
  <2>4. layer \in MoeLayers /\ errors \in 0 .. MaxErrors
    BY <2>1, LayersAssumption, MaxErrorsAssumption DEF MoeLayers
  <2>5. QED
    BY <2>1, <2>2, <2>3, <2>4 DEF K
<1>7. uses \in [MoeLayers \X Experts -> 0 .. 2]
  BY DEF Init
<1>8. i \in 0 .. K /\ stagedEnd \in 0 .. K /\ winners \in Rankings \cup {<<>>} /\ pc \in Pcs
  BY <1>6 DEF Pcs
<1>9. Shape(gpu)
  BY <1>3 DEF Sound
<1>10. QED
  BY <1>3, <1>4, <1>5, <1>6, <1>7, <1>8, <1>9 DEF Control

\* No layer has been routed at first.
LEMMA HistoryInit == Init => History
<1> SUFFICES ASSUME Init
             PROVE  History
  OBVIOUS
<1>1. PICK mode \in Modes : look = NoLookback(mode.options)
  BY DEF Init
<1>2. /\ \A l \in MoeLayers : look.lastTopK[l] = <<>>
      /\ \A l \in MoeLayers : look.overlap[l] = 0
  BY <1>1 DEF NoLookback
<1>3. \A l \in MoeLayers, e \in Experts : uses[<<l, e>>] = 0
  BY DEF Init
<1>4. QED
  BY <1>2, <1>3 DEF History

\* An access is counted up to two.
LEMMA UsedIsCount ==
    ASSUME uses \in [MoeLayers \X Experts -> 0 .. 2], NEW n, Key(n) \in MoeLayers \X Experts
    PROVE  /\ Used(n) \in [MoeLayers \X Experts -> 0 .. 2]
           /\ \A k \in MoeLayers \X Experts : k # Key(n) => Used(n)[k] = uses[k]
<1>1. uses[Key(n)] \in 0 .. 2
  OBVIOUS
<1> DEFINE S == {uses[Key(n)] + 1, 2}
<1>2. S \in SUBSET Nat /\ S # {} /\ 2 \in S
  BY <1>1
<1> HIDE DEF S
<1>3. Min(S) \in Nat /\ Min(S) <= 2
  BY <1>2, SmallestNat
<1>4. Min(S) \in 0 .. 2
  BY <1>3
<1>5. Used(n) = [uses EXCEPT ![Key(n)] = Min(S)]
  BY DEF Used, S
<1>6. QED
  BY <1>4, <1>5

\* A layer is left for the next one, or for the first of the next token.
LEMMA LeaveLayerStep ==
    ASSUME Control, token < tokens, tokens' = tokens, LeaveLayer
    PROVE  pc' = "route" /\ layer' \in MoeLayers /\ token' \in 0 .. tokens
<1>1. CASE layer + 1 < NumLayers
  BY <1>1, LayersAssumption DEF LeaveLayer, Control, MoeLayers
<1>2. CASE ~(layer + 1 < NumLayers)
  BY <1>2, LayersAssumption DEF LeaveLayer, Control, MoeLayers
<1>3. QED
  BY <1>1, <1>2

\* A device call of whatever outcome counts at most one failure, within the bound.
LEMMA FailuresCounted ==
    ASSUME errors \in 0 .. MaxErrors, NEW o, o.fault \in BOOLEAN, o.fault => MayFail
    PROVE  Count(errors, o.fault) \in 0 .. MaxErrors
BY MaxErrorsAssumption DEF Count, MayFail

\* Staging a winner keeps every shape.
LEMMA StageExpertStep ==
    ASSUME Control, NEW n \in 1 .. K, pc # "route", gpuOk, StageExpert(n)
    PROVE  /\ Shape(gpu') /\ gpu'.capacity = gpu.capacity
           /\ gpuOk' \in BOOLEAN
           /\ uses' \in [MoeLayers \X Experts -> 0 .. 2]
           /\ errors' \in 0 .. MaxErrors
<1>1. Key(n) \in ExpertKeys /\ Key(n) \in MoeLayers \X Experts
  BY KeysOfWinners
<1>2. /\ Shape(gpu) /\ gpu.capacity # 0
      /\ errors \in 0 .. MaxErrors /\ MaxErrors \in Nat
      /\ uses \in [MoeLayers \X Experts -> 0 .. 2]
  BY MaxErrorsAssumption DEF Control
<1>3. uses' \in [MoeLayers \X Experts -> 0 .. 2]
  BY <1>1, <1>2, UsedIsCount DEF StageExpert
<1>4. CASE MayFail /\ gpuOk' = FALSE /\ errors' = errors + 1 /\ UNCHANGED gpu
  <2>1. errors' \in 0 .. MaxErrors
    BY <1>2, <1>4 DEF MayFail
  <2>2. gpu' = gpu /\ gpuOk' \in BOOLEAN
    BY <1>4
  <2>3. QED
    BY <1>2, <1>3, <2>1, <2>2
<1>5. ASSUME NEW o \in Allowed(Stage(gpu, Key(n))),
             gpu' = o.gpu, gpuOk' = o.ok, errors' = Count(errors, o.fault)
      PROVE  /\ Shape(gpu') /\ gpu'.capacity = gpu.capacity
             /\ gpuOk' \in BOOLEAN
             /\ errors' \in 0 .. MaxErrors
  <2>1. o \in Stage(gpu, Key(n)) /\ (o.fault => MayFail)
    BY DEF Allowed
  <2>2. WellFormed(o, gpu)
    BY <1>1, <1>2, <2>1, StageWellFormed
  <2>3. errors' \in 0 .. MaxErrors
    BY <1>2, <1>5, <2>1, <2>2, FailuresCounted DEF WellFormed
  <2>4. QED
    BY <1>5, <2>2, <2>3 DEF WellFormed
<1>6. QED
  BY <1>3, <1>4, <1>5 DEF StageExpert

\* There is a copy to run when the stream is not empty.
LEMMA CopyWaits ==
    ASSUME NEW g, Shape(g), g.copies # <<>>
    PROVE  1 \in 0 .. Len(g.copies)
<1>1. g.copies \in Seq([stage : StageSlots, slot : DeviceSlots(g)])
  BY DEF Shape, GpuType
<1>2. Len(g.copies) \in Nat /\ Len(g.copies) # 0
  BY <1>1, EmptySeq
<1>3. QED
  BY <1>2

\* The routing state and the requests that a call leaves have their shapes.
LEMMA CallShape ==
    ASSUME NEW lk, NEW us, NEW l, NEW w, NEW p, NEW done \in RouterDone(lk, us, l, w, p)
    PROVE  done.look = Rolled(lk, l, w, p) /\ AskShape(done.asks)
<1> DEFINE r == Rolled(lk, l, w, p)
           boosts == Boosted(r, l, w)
           guesses == Guesses(r, l + 1, w)
<1> HIDE DEF r, boosts, guesses
<1>1. CASE l + 1 >= NumLayers
  <2>1. done = [look |-> r, asks |-> [NoRequests EXCEPT !.boosts = boosts]]
    BY <1>1 DEF RouterDone, r, boosts
  <2>2. QED
    BY <2>1 DEF NoRequests, AskShape, AskParts, r
<1>2. CASE ~(l + 1 >= NumLayers)
  <2>1. \E demand, asked, pins :
            done = [look |-> r,
                    asks |-> [demand |-> demand, guesses |-> asked, pins |-> pins, boosts |-> boosts]]
    BY <1>2 DEF RouterDone, r, boosts, guesses
  <2>2. QED
    BY <2>1 DEF AskShape, AskParts, r
<1>3. QED
  BY <1>1, <1>2

\* Every step keeps the shapes and the counts.
LEMMA ControlStep == Control /\ [Next]_vars => Control'
<1> SUFFICES ASSUME Control, [Next]_vars
             PROVE  Control'
  OBVIOUS
<1>1. /\ K \in Nat /\ K <= TopK
      /\ pc # "route" => K = RankLen
  BY KeysOfWinners, RankingsAre
<1>2. CASE Route
  <2>1. PICK done \in RouterDone(look, uses, layer, winners', probs') : look' = done.look /\ asks' = done.asks
    BY <1>2 DEF Route
  <2>2. /\ winners' \in Rankings /\ probs' \in Probabilities
        /\ i' = 0 /\ stagedEnd' = 0 /\ gpuOk' = gpuExperts /\ pc' \in {"preload", "advance"}
        /\ gpu' = gpu /\ uses' = uses /\ gpuExperts' = gpuExperts /\ tokens' = tokens
        /\ token' = token /\ layer' = layer /\ errors' = errors /\ token < tokens
    BY <1>2 DEF Route
  <2>3. LookShape(look) /\ layer \in MoeLayers
    BY DEF Control
  <2>4. look' = Rolled(look, layer, winners', probs') /\ AskShape(asks')
    BY <2>1, <2>2, <2>3, CallShape
  <2>5. LookShape(look')
    BY <2>2, <2>3, <2>4, RolledParts
  <2>6. K' \in Nat
    BY <2>2, RankingsAre DEF K
  <2>7. pc' \in Pcs /\ pc' # "compute" /\ pc' # "sum"
    BY <2>2 DEF Pcs
  <2>8. i' \in 0 .. K' /\ stagedEnd' \in 0 .. K'
    BY <2>2, <2>6
  <2>9. QED
    BY <2>2, <2>4, <2>5, <2>7, <2>8 DEF Control
<1>3. CASE BiasUnreadable
  <2>1. /\ errors' = errors + 1 /\ MayFail /\ token < tokens /\ LeaveLayer
        /\ gpu' = gpu /\ uses' = uses /\ look' = look /\ asks' = asks /\ gpuExperts' = gpuExperts
        /\ tokens' = tokens /\ winners' = winners /\ i' = i /\ gpuOk' = gpuOk /\ stagedEnd' = stagedEnd
    BY <1>3 DEF BiasUnreadable
  <2>2. pc' = "route" /\ layer' \in MoeLayers /\ token' \in 0 .. tokens
    BY <2>1, LeaveLayerStep
  <2>3. errors' \in 0 .. MaxErrors
    BY <2>1, MaxErrorsAssumption DEF Control, MayFail
  <2>4. K' = K
    BY <2>1 DEF K
  <2>5. QED
    BY <2>1, <2>2, <2>3, <2>4 DEF Control, Pcs
<1>4. CASE Preload
  <2>1. /\ pc = "preload" /\ gpuOk /\ stagedEnd < Min({K, StagingDepth})
        /\ StageExpert(stagedEnd + 1) /\ stagedEnd' = stagedEnd + 1
        /\ look' = look /\ asks' = asks /\ gpuExperts' = gpuExperts
        /\ tokens' = tokens /\ token' = token /\ layer' = layer /\ winners' = winners
        /\ pc' = pc /\ i' = i
    BY <1>4 DEF Preload, control
  <2>2. stagedEnd \in 0 .. K /\ stagedEnd < K
    <3> DEFINE S == {K, StagingDepth}
    <3>1. S \in SUBSET Nat /\ S # {} /\ K \in S
      BY <1>1, StagingAssumption
    <3> HIDE DEF S
    <3>2. Min(S) \in Nat /\ Min(S) <= K
      BY <3>1, SmallestNat
    <3>3. stagedEnd \in 0 .. K /\ stagedEnd < Min(S)
      BY <2>1 DEF Control, S
    <3>4. QED
      BY <1>1, <3>2, <3>3
  <2>3. stagedEnd + 1 \in 1 .. K /\ stagedEnd' \in 0 .. K
    BY <1>1, <2>1, <2>2
  <2>4. /\ Shape(gpu') /\ gpu'.capacity = gpu.capacity
        /\ gpuOk' \in BOOLEAN
        /\ uses' \in [MoeLayers \X Experts -> 0 .. 2]
        /\ errors' \in 0 .. MaxErrors
    BY <2>1, <2>3, StageExpertStep
  <2>5. K' = K
    BY <2>1 DEF K
  <2>6. QED
    BY <2>1, <2>3, <2>4, <2>5 DEF Control
<1>5. CASE PreloadDone
  <2>1. /\ pc = "preload" /\ pc' = "advance"
        /\ gpu' = gpu /\ uses' = uses /\ look' = look /\ asks' = asks /\ gpuExperts' = gpuExperts
        /\ tokens' = tokens /\ token' = token /\ layer' = layer /\ winners' = winners
        /\ i' = i /\ gpuOk' = gpuOk /\ stagedEnd' = stagedEnd /\ errors' = errors
    BY <1>5 DEF PreloadDone, control
  <2>2. K' = K
    BY <2>1 DEF K
  <2>3. QED
    BY <2>1, <2>2 DEF Control, Pcs
<1>6. CASE Advance
  <2>1. /\ pc = "advance" /\ pc' = IF i < K THEN "compute" ELSE "sum"
        /\ look' = look /\ asks' = asks /\ gpuExperts' = gpuExperts
        /\ tokens' = tokens /\ token' = token /\ layer' = layer /\ winners' = winners
        /\ i' = i
    BY <1>6 DEF Advance, control
  <2>2. K' = K
    BY <2>1 DEF K
  <2>3. pc' \in Pcs /\ pc' # "preload" /\ (pc' = "compute" => i < K) /\ (pc' = "sum" => i = K)
    BY <1>1, <2>1 DEF Control, Pcs
  <2>4. /\ Shape(gpu') /\ gpu'.capacity = gpu.capacity
        /\ gpuOk' \in BOOLEAN /\ (gpuOk' => gpuExperts)
        /\ uses' \in [MoeLayers \X Experts -> 0 .. 2]
        /\ errors' \in 0 .. MaxErrors
        /\ stagedEnd' \in 0 .. K
    <3>1. CASE i < K /\ gpuOk /\ stagedEnd < K
      <4>1. StageExpert(stagedEnd + 1) /\ stagedEnd' = stagedEnd + 1
        BY <1>6, <3>1 DEF Advance
      <4>2. stagedEnd + 1 \in 1 .. K /\ stagedEnd' \in 0 .. K
        BY <1>1, <3>1, <4>1 DEF Control
      <4>3. /\ Shape(gpu') /\ gpu'.capacity = gpu.capacity
            /\ gpuOk' \in BOOLEAN
            /\ uses' \in [MoeLayers \X Experts -> 0 .. 2]
            /\ errors' \in 0 .. MaxErrors
        BY <2>1, <3>1, <4>1, <4>2, StageExpertStep
      <4>4. gpuExperts
        BY <3>1 DEF Control
      <4>5. QED
        BY <4>2, <4>3, <4>4
    <3>2. CASE ~(i < K /\ gpuOk /\ stagedEnd < K)
      <4>1. UNCHANGED <<gpu, uses, gpuOk, stagedEnd, errors>>
        BY <1>6, <3>2 DEF Advance
      <4>2. QED
        BY <4>1 DEF Control
    <3>3. QED
      BY <3>1, <3>2
  <2>5. QED
    BY <2>1, <2>2, <2>3, <2>4 DEF Control
<1>7. CASE ComputeOnDevice
  <2>1. /\ pc = "compute" /\ gpuOk /\ pc' = "advance"
        /\ look' = look /\ asks' = asks /\ gpuExperts' = gpuExperts /\ uses' = uses
        /\ tokens' = tokens /\ token' = token /\ layer' = layer /\ winners' = winners
    BY <1>7 DEF ComputeOnDevice, control
  <2>2. PICK o \in Allowed(FFN(gpu, Key(i + 1))) :
            /\ gpu' = o.gpu /\ gpuOk' = o.ok /\ errors' = Count(errors, o.fault)
            /\ \/ i' = i + 1 /\ stagedEnd' = stagedEnd
               \/ i' = 0 /\ stagedEnd' = K
    BY <1>7 DEF ComputeOnDevice
  <2>3. o \in FFN(gpu, Key(i + 1)) /\ (o.fault => MayFail)
    BY DEF Allowed
  <2>4. Shape(gpu) /\ errors \in 0 .. MaxErrors /\ gpuExperts /\ gpu.capacity # 0
    BY <2>1 DEF Control
  <2>5. WellFormed(o, gpu)
    BY <2>3, <2>4, FFNWellFormed
  <2>6. errors' \in 0 .. MaxErrors
    BY <2>2, <2>3, <2>4, <2>5, FailuresCounted DEF WellFormed
  <2>7. K' = K
    BY <2>1 DEF K
  <2>8. i' \in 0 .. K /\ stagedEnd' \in 0 .. K
    <3>1. i \in 0 .. K /\ i < K /\ stagedEnd \in 0 .. K
      BY <2>1 DEF Control
    <3>2. QED
      BY <1>1, <2>2, <3>1
  <2>9. Shape(gpu') /\ gpu'.capacity # 0 /\ gpuOk' \in BOOLEAN
    BY <2>2, <2>4, <2>5 DEF WellFormed
  <2>10. QED
    BY <2>1, <2>4, <2>6, <2>7, <2>8, <2>9 DEF Control, Pcs
<1>8. CASE ComputeOnCpu
  <2>1. /\ pc = "compute" /\ pc' = "advance"
        /\ \E ahead \in LookAheads : asks' = [asks EXCEPT !.demand = @ \cup ahead]
        /\ uses' = Used(i + 1) /\ i' = i + 1
        /\ look' = look /\ gpuExperts' = gpuExperts
        /\ tokens' = tokens /\ token' = token /\ layer' = layer /\ winners' = winners
        /\ gpu' = gpu /\ gpuOk' = gpuOk /\ stagedEnd' = stagedEnd /\ errors' = errors
    BY <1>8 DEF ComputeOnCpu, control
  <2>2. K' = K
    BY <2>1 DEF K
  <2>3. i + 1 \in 1 .. K
    <3>1. i \in 0 .. K /\ i < K
      BY <2>1 DEF Control
    <3>2. QED
      BY <1>1, <3>1
  <2>4. uses' \in [MoeLayers \X Experts -> 0 .. 2]
    <3>1. Key(i + 1) \in MoeLayers \X Experts
      BY <2>1, <2>3, KeysOfWinners
    <3>2. QED
      BY <2>1, <3>1, UsedIsCount DEF Control
  <2>5. AskShape(asks')
    BY <2>1 DEF Control, AskShape, AskParts
  <2>6. i' \in 0 .. K
    BY <2>1, <2>3
  <2>7. QED
    BY <2>1, <2>2, <2>4, <2>5, <2>6 DEF Control, Pcs
<1>9. CASE AddShared
  <2>1. /\ pc = "sum" /\ LeaveLayer
        /\ gpu' = gpu /\ uses' = uses /\ look' = look /\ asks' = asks /\ gpuExperts' = gpuExperts
        /\ tokens' = tokens /\ winners' = winners /\ i' = i /\ gpuOk' = gpuOk /\ stagedEnd' = stagedEnd
        /\ errors' = errors
    BY <1>9 DEF AddShared
  <2>2. token < tokens
    BY <2>1 DEF Control
  <2>3. pc' = "route" /\ layer' \in MoeLayers /\ token' \in 0 .. tokens
    BY <2>1, <2>2, LeaveLayerStep
  <2>4. K' = K
    BY <2>1 DEF K
  <2>5. QED
    BY <2>1, <2>3, <2>4 DEF Control, Pcs
<1>10. CASE CopyRuns
  <2>1. /\ gpu.copies # <<>> /\ gpu' = Copied(gpu, 1)
        /\ uses' = uses /\ look' = look /\ asks' = asks /\ gpuExperts' = gpuExperts /\ pc' = pc
        /\ tokens' = tokens /\ token' = token /\ layer' = layer /\ winners' = winners
        /\ i' = i /\ gpuOk' = gpuOk /\ stagedEnd' = stagedEnd /\ errors' = errors
    BY <1>10 DEF CopyRuns, control
  <2>2. Shape(gpu)
    BY DEF Control
  <2>3. 1 \in 0 .. Len(gpu.copies)
    BY <2>1, <2>2, CopyWaits
  <2>4. Shape(gpu') /\ gpu'.capacity = gpu.capacity
    BY <2>1, <2>2, <2>3, CopiedParts DEF OnlyIn, Parts
  <2>5. K' = K
    BY <2>1 DEF K
  <2>6. QED
    BY <2>1, <2>4, <2>5 DEF Control
<1>11. CASE UNCHANGED vars
  <2>1. K' = K
    BY <1>11 DEF vars, control, K
  <2>2. QED
    BY <1>11, <2>1 DEF Control, vars, control
<1>12. QED
  BY <1>2, <1>3, <1>4, <1>5, <1>6, <1>7, <1>8, <1>9, <1>10, <1>11 DEF Next, AllTokensDone

-----------------------------------------------------------------------------
(* The steps and the cache *)

\* While the stager has room, there is a winner left to stage.
LEMMA RoomToStage ==
    ASSUME K \in Nat, NEW n \in Nat, n < Min({K, StagingDepth})
    PROVE  n < K
<1> DEFINE S == {K, StagingDepth}
<1>1. S \in SUBSET Nat /\ S # {} /\ K \in S
  BY StagingAssumption
<1>2. n < Min(S)
  OBVIOUS
<1> HIDE DEF S
<1>3. Min(S) \in Nat /\ Min(S) <= K
  BY <1>1, SmallestNat
<1>4. QED
  BY <1>2, <1>3

\* Staging leaves the cache sound, whether or not the bytes could be read.
LEMMA StageExpertSound ==
    ASSUME Control, Sound(gpu), Recoverable, KeyZero \notin ExpertKeys,
           NEW n \in 1 .. K, pc # "route", gpuOk, StageExpert(n)
    PROVE  Sound(gpu')
<1>1. Key(n) \in ExpertKeys
  BY KeysOfWinners
<1>2. gpu.capacity # 0
  BY DEF Control
<1>3. ASSUME NEW o \in Allowed(Stage(gpu, Key(n))), gpu' = o.gpu
      PROVE  Sound(gpu')
  <2>1. o \in Stage(gpu, Key(n))
    BY DEF Allowed
  <2>2. QED
    BY <1>1, <1>2, <1>3, <2>1, StageSound
<1>4. CASE gpu' = gpu
  BY <1>4
<1>5. QED
  BY <1>3, <1>4 DEF StageExpert

\* Every step keeps the cache sound.
LEMMA SoundStep ==
    ASSUME Control, Sound(gpu), Recoverable, KeyZero \notin ExpertKeys, [Next]_vars
    PROVE  Sound(gpu')
<1>1. K \in Nat /\ stagedEnd \in 0 .. K
  BY KeysOfWinners DEF Control
<1>2. CASE gpu' = gpu
  BY <1>2
<1>3. CASE Preload
  <2>1. /\ pc = "preload" /\ gpuOk /\ stagedEnd < Min({K, StagingDepth})
        /\ StageExpert(stagedEnd + 1)
    BY <1>3 DEF Preload
  <2>2. stagedEnd < K
    BY <1>1, <2>1, RoomToStage
  <2>3. stagedEnd + 1 \in 1 .. K
    BY <1>1, <2>2
  <2>4. QED
    BY <2>1, <2>3, StageExpertSound
<1>4. CASE Advance
  <2>1. CASE i < K /\ gpuOk /\ stagedEnd < K
    <3>1. StageExpert(stagedEnd + 1) /\ pc = "advance"
      BY <1>4, <2>1 DEF Advance
    <3>2. stagedEnd + 1 \in 1 .. K
      BY <1>1, <2>1
    <3>3. QED
      BY <2>1, <3>1, <3>2, StageExpertSound
  <2>2. CASE ~(i < K /\ gpuOk /\ stagedEnd < K)
    BY <1>4, <2>2 DEF Advance
  <2>3. QED
    BY <2>1, <2>2
<1>5. CASE ComputeOnDevice
  <2>1. PICK o \in Allowed(FFN(gpu, Key(i + 1))) : gpu' = o.gpu
    BY <1>5 DEF ComputeOnDevice
  <2>2. o \in FFN(gpu, Key(i + 1))
    BY DEF Allowed
  <2>3. QED
    BY <2>1, <2>2, FFNSound
<1>6. CASE CopyRuns
  <2>1. gpu.copies # <<>> /\ gpu' = Copied(gpu, 1)
    BY <1>6 DEF CopyRuns
  <2>2. 1 \in 0 .. Len(gpu.copies)
    BY <2>1, CopyWaits DEF Sound
  <2>3. QED
    BY <2>1, <2>2, SoundCopied
<1>7. CASE Route \/ BiasUnreadable \/ PreloadDone \/ ComputeOnCpu \/ AddShared \/ UNCHANGED vars
  <2>1. gpu' = gpu
    BY <1>7 DEF Route, BiasUnreadable, PreloadDone, ComputeOnCpu, AddShared, vars
  <2>2. QED
    BY <1>2, <2>1
<1>8. QED
  BY <1>3, <1>4, <1>5, <1>6, <1>7 DEF Next, AllTokensDone

\* Every step keeps the sum exact.
LEMMA SummedStep ==
    ASSUME Control, Sound(gpu), Summed, Recoverable, [Next]_vars
    PROVE  Summed'
<1> DEFINE Contributions == [winner : Nat, engine : {"gpu", "cpu"}, bytes : ExpertKeys]
<1>1. K \in Nat /\ i \in 0 .. K
  BY KeysOfWinners DEF Control
<1>2. CASE Route
  <2>1. moeOut' = <<>> /\ i' = 0
    BY <1>2 DEF Route
  <2>2. \A S : <<>> \in Seq(S) /\ Len(<<>>) = 0
    OBVIOUS
  <2>3. QED
    BY <2>1, <2>2 DEF Summed
<1>3. ASSUME i' = i, moeOut' = moeOut, winners' = winners, layer' = layer, pc # "route"
      PROVE  Summed'
  BY <1>3 DEF Summed, Key
<1>4. CASE BiasUnreadable \/ AddShared
  <2>1. pc' = "route"
    BY <1>4 DEF BiasUnreadable, AddShared, LeaveLayer
  <2>2. QED
    BY <2>1 DEF Summed
<1>5. CASE Preload \/ PreloadDone \/ Advance
  <2>1. i' = i /\ moeOut' = moeOut /\ winners' = winners /\ layer' = layer /\ pc # "route"
    BY <1>5 DEF Preload, PreloadDone, Advance, control
  <2>2. QED
    BY <1>3, <2>1
<1>6. ASSUME NEW engine \in {"gpu", "cpu"}, NEW bytes, bytes = Key(i + 1), pc = "compute",
             i' = i + 1, moeOut' = Append(moeOut, Contribution(i + 1, engine, bytes)),
             winners' = winners, layer' = layer
      PROVE  Summed'
  <2>1. /\ moeOut \in Seq(Contributions)
        /\ Len(moeOut) = i
        /\ \A n \in 1 .. i : moeOut[n].winner = n /\ moeOut[n].bytes = Key(n)
    BY <1>6 DEF Summed
  <2>2. i \in Nat /\ i + 1 \in 1 .. K /\ i < K
    BY <1>1, <1>6 DEF Control
  <2>3. Key(i + 1) \in ExpertKeys
    BY <1>6, <2>2, KeysOfWinners
  <2> DEFINE c == Contribution(i + 1, engine, bytes)
  <2>4. c \in Contributions /\ c.winner = i + 1 /\ c.bytes = Key(i + 1)
    BY <1>6, <2>2, <2>3 DEF Contribution
  <2> HIDE DEF c, Contributions
  <2>5. /\ moeOut' \in Seq(Contributions)
        /\ Len(moeOut') = i + 1
        /\ \A n \in 1 .. i : moeOut'[n] = moeOut[n]
        /\ moeOut'[i + 1] = c
    BY <1>6, <2>1, <2>2, <2>4, AppendProperties DEF c
  <2>6. \A n \in 1 .. i + 1 : moeOut'[n].winner = n /\ moeOut'[n].bytes = Key(n)
    <3>1. \A n \in 1 .. i + 1 : n \in 1 .. i \/ n = i + 1
      BY <2>2
    <3>2. QED
      BY <2>1, <2>4, <2>5, <3>1
  <2>7. \A n : Key(n)' = Key(n)
    BY <1>6 DEF Key
  <2>8. QED
    BY <1>6, <2>5, <2>6, <2>7 DEF Summed, Contributions
<1>7. CASE ComputeOnDevice
  <2>1. /\ pc = "compute" /\ winners' = winners /\ layer' = layer
    BY <1>7 DEF ComputeOnDevice, control
  <2>2. PICK o \in Allowed(FFN(gpu, Key(i + 1))) :
            IF o.ok
            THEN moeOut' = Append(moeOut, Contribution(i + 1, "gpu", o.bytes)) /\ i' = i + 1
            ELSE moeOut' = <<>> /\ i' = 0
    BY <1>7 DEF ComputeOnDevice, Restart
  <2>3. o \in FFN(gpu, Key(i + 1))
    BY DEF Allowed
  <2>4. CASE o.ok
    <3>1. o.bytes = Key(i + 1)
      BY <2>3, <2>4, FFNSound
    <3>2. QED
      BY <1>6, <2>1, <2>2, <2>4, <3>1
  <2>5. CASE ~o.ok
    <3>1. moeOut' = <<>> /\ i' = 0
      BY <2>2, <2>5
    <3>2. \A S : <<>> \in Seq(S) /\ Len(<<>>) = 0
      OBVIOUS
    <3>3. QED
      BY <3>1, <3>2 DEF Summed
  <2>6. QED
    BY <2>4, <2>5
<1>8. CASE ComputeOnCpu
  <2>1. /\ pc = "compute" /\ winners' = winners /\ layer' = layer
        /\ moeOut' = Append(moeOut, Contribution(i + 1, "cpu", Key(i + 1)))
        /\ i' = i + 1
    BY <1>8 DEF ComputeOnCpu, control
  <2>2. QED
    BY <1>6, <2>1
<1>9. CASE CopyRuns \/ UNCHANGED vars
  <2>1. i' = i /\ moeOut' = moeOut /\ winners' = winners /\ layer' = layer /\ pc' = pc
    BY <1>9 DEF CopyRuns, vars, control
  <2>2. QED
    BY <1>3, <2>1 DEF Summed
<1>10. QED
  BY <1>2, <1>4, <1>5, <1>7, <1>8, <1>9 DEF Next, AllTokensDone

-----------------------------------------------------------------------------
(* The steps and what is remembered *)

\* A step stays in its layer, or leaves it for the next.
LEMMA Progress ==
    ASSUME Control, [Next]_vars
    PROVE  \/ LeaveLayer
           \/ token' = token /\ layer' = layer /\ (pc # "route" => pc' # "route")
<1>1. CASE BiasUnreadable \/ AddShared
  BY <1>1 DEF BiasUnreadable, AddShared
<1>2. CASE Route \/ Preload \/ PreloadDone \/ Advance
  BY <1>2 DEF Route, Preload, PreloadDone, Advance, control
<1>3. CASE ComputeOnDevice \/ ComputeOnCpu
  BY <1>3 DEF ComputeOnDevice, ComputeOnCpu, control
<1>4. CASE CopyRuns \/ UNCHANGED vars
  BY <1>4 DEF CopyRuns, vars, control
<1>5. QED
  BY <1>1, <1>2, <1>3, <1>4 DEF Next, AllTokensDone

\* A layer once visited stays so.
LEMMA VisitsLast ==
    ASSUME Control, [Next]_vars, NEW l \in MoeLayers
    PROVE  /\ Visited(l) => Visited(l)'
           /\ VisitedTwice(l) => VisitedTwice(l)'
<1>1. token \in Nat /\ layer \in Nat /\ l \in Nat /\ layer < NumLayers /\ l < NumLayers /\ NumLayers \in Nat
  BY LayersAssumption DEF Control, MoeLayers
<1>2. CASE token' = token /\ layer' = layer /\ (pc # "route" => pc' # "route")
  BY <1>2 DEF Visited, VisitedTwice
<1>3. CASE LeaveLayer
  <2>1. CASE layer + 1 < NumLayers
    <3>1. layer' = layer + 1 /\ token' = token
      BY <1>3, <2>1 DEF LeaveLayer
    <3>2. QED
      BY <1>1, <3>1 DEF Visited, VisitedTwice
  <2>2. CASE ~(layer + 1 < NumLayers)
    <3>1. token' = token + 1
      BY <1>3, <2>2 DEF LeaveLayer
    <3>2. QED
      BY <1>1, <3>1 DEF Visited, VisitedTwice
  <2>3. QED
    BY <2>1, <2>2
<1>4. QED
  BY <1>2, <1>3, Progress

\* Every step remembers of a layer only what it learned there.
LEMMA HistoryStep == Control /\ History /\ [Next]_vars => History'
<1> SUFFICES ASSUME Control, History, [Next]_vars
             PROVE  History'
  OBVIOUS
<1>1. \A l \in MoeLayers : (Visited(l) => Visited(l)') /\ (VisitedTwice(l) => VisitedTwice(l)')
  BY VisitsLast
<1>2. /\ \A l \in MoeLayers : look.lastTopK[l] # <<>> => Visited(l)
      /\ \A l \in MoeLayers : look.overlap[l] > 0 => look.lastTopK[l] # <<>> /\ VisitedTwice(l)
      /\ \A l \in MoeLayers, e \in Experts : uses[<<l, e>>] > 0 => Visited(l)
  BY DEF History
<1>3. ASSUME look' = look
      PROVE  /\ \A l \in MoeLayers : look'.lastTopK[l] # <<>> => Visited(l)'
             /\ \A l \in MoeLayers : look'.overlap[l] > 0 => look'.lastTopK[l] # <<>> /\ VisitedTwice(l)'
  BY <1>1, <1>2, <1>3
<1>4. ASSUME uses' = uses
      PROVE  \A l \in MoeLayers, e \in Experts : uses'[<<l, e>>] > 0 => Visited(l)'
  BY <1>1, <1>2, <1>4
<1>5. ASSUME NEW n \in 1 .. K, uses' = Used(n), pc # "route", pc' # "route", layer' = layer
      PROVE  \A l \in MoeLayers, e \in Experts : uses'[<<l, e>>] > 0 => Visited(l)'
  <2>1. Key(n) \in MoeLayers \X Experts
    BY <1>5, KeysOfWinners
  <2>2. \A k \in MoeLayers \X Experts : k # Key(n) => uses'[k] = uses[k]
    BY <1>5, <2>1, UsedIsCount DEF Control
  <2>3. \A l \in MoeLayers, e \in Experts : <<l, e>> = Key(n) => l = layer
    BY DEF Key
  <2>4. Visited(layer)'
    BY <1>5 DEF Visited
  <2>5. SUFFICES ASSUME NEW l \in MoeLayers, NEW e \in Experts, uses'[<<l, e>>] > 0
                 PROVE  Visited(l)'
    OBVIOUS
  <2>6. CASE <<l, e>> = Key(n)
    <3>1. l = layer'
      BY <1>5, <2>3, <2>6
    <3>2. QED
      BY <1>5, <3>1 DEF Visited
  <2>7. CASE <<l, e>> # Key(n)
    BY <1>1, <1>2, <2>2, <2>5, <2>7
  <2>8. QED
    BY <2>6, <2>7
<1>6. K \in Nat /\ i \in 0 .. K /\ stagedEnd \in 0 .. K
  BY KeysOfWinners DEF Control
<1>7. CASE Route
  <2>1. /\ pc = "route" /\ uses' = uses /\ token' = token /\ layer' = layer /\ pc' # "route"
        /\ winners' \in Rankings /\ probs' \in Probabilities
        /\ \E done \in RouterDone(look, uses, layer, winners', probs') : look' = done.look
    BY <1>7 DEF Route
  <2>2. LookShape(look) /\ layer \in MoeLayers
    BY DEF Control
  <2>3. look' = Rolled(look, layer, winners', probs')
    BY <2>1, CallShape
  <2>4. /\ look'.lastTopK = [look.lastTopK EXCEPT ![layer] = winners']
        /\ look'.overlap = [look.overlap EXCEPT ![layer] = RolledOverlap(look, layer, winners')]
    BY <2>1, <2>2, <2>3, RolledParts
  <2>5. /\ look.lastTopK \in [MoeLayers -> Seq(Experts)]
        /\ look.overlap \in [MoeLayers -> 0 .. OverlapOne]
    BY <2>2 DEF LookShape, LookType
  <2>6. Visited(layer)' /\ winners' # <<>>
    BY <2>1, RankingsAre DEF Visited
  <2>7. look'.overlap[layer] > 0 => VisitedTwice(layer)'
    <3>1. SUFFICES ASSUME look'.overlap[layer] > 0
                   PROVE  VisitedTwice(layer)'
      OBVIOUS
    <3>2. CASE look.lastTopK[layer] = <<>>
      <4>1. look.overlap[layer] > 0
        BY <2>1, <2>2, <2>4, <2>5, <3>1, <3>2, OverlapBounded
      <4>2. VisitedTwice(layer)
        BY <1>2, <2>2, <4>1
      <4>3. QED
        BY <2>1, <4>2 DEF VisitedTwice
    <3>3. CASE look.lastTopK[layer] # <<>>
      <4>1. Visited(layer)
        BY <1>2, <2>2, <3>3
      <4>2. token > 0 /\ token \in Nat
        BY <2>1, <4>1, LayersAssumption DEF Visited, Control, MoeLayers
      <4>3. QED
        BY <2>1, <4>2 DEF VisitedTwice
    <3>4. QED
      BY <3>2, <3>3
  <2>8. \A l \in MoeLayers : look'.lastTopK[l] # <<>> => Visited(l)'
    <3>1. SUFFICES ASSUME NEW l \in MoeLayers, look'.lastTopK[l] # <<>>
                   PROVE  Visited(l)'
      OBVIOUS
    <3>2. CASE l = layer
      BY <2>1, <3>2 DEF Visited
    <3>3. CASE l # layer
      BY <1>1, <1>2, <2>4, <2>5, <3>1, <3>3
    <3>4. QED
      BY <3>2, <3>3
  <2>9. \A l \in MoeLayers : look'.overlap[l] > 0 => look'.lastTopK[l] # <<>> /\ VisitedTwice(l)'
    <3>1. SUFFICES ASSUME NEW l \in MoeLayers, look'.overlap[l] > 0
                   PROVE  look'.lastTopK[l] # <<>> /\ VisitedTwice(l)'
      OBVIOUS
    <3>2. CASE l = layer
      <4>1. VisitedTwice(layer)'
        BY <2>7, <3>1, <3>2
      <4>2. VisitedTwice(l)'
        BY <2>1, <3>2, <4>1 DEF VisitedTwice
      <4>3. look'.lastTopK[l] # <<>>
        BY <2>4, <2>5, <2>6, <3>2
      <4>4. QED
        BY <4>2, <4>3
    <3>3. CASE l # layer
      BY <1>1, <1>2, <2>4, <2>5, <3>1, <3>3
    <3>4. QED
      BY <3>2, <3>3
  <2>10. QED
    BY <1>4, <2>1, <2>8, <2>9 DEF History
<1>8. CASE Preload
  <2>1. /\ pc = "preload" /\ pc' = pc /\ layer' = layer /\ look' = look
        /\ stagedEnd < Min({K, StagingDepth}) /\ uses' = Used(stagedEnd + 1)
    BY <1>8 DEF Preload, StageExpert, control
  <2>2. stagedEnd < K
    BY <1>6, <2>1, RoomToStage
  <2>3. stagedEnd + 1 \in 1 .. K
    BY <1>6, <2>2
  <2>4. QED
    BY <1>3, <1>5, <2>1, <2>3 DEF History
<1>9. CASE Advance
  <2>1. pc = "advance" /\ pc' # "route" /\ layer' = layer /\ look' = look
    BY <1>9 DEF Advance, control
  <2>2. CASE i < K /\ gpuOk /\ stagedEnd < K
    <3>1. uses' = Used(stagedEnd + 1)
      BY <1>9, <2>2 DEF Advance, StageExpert
    <3>2. stagedEnd + 1 \in 1 .. K
      BY <1>6, <2>2
    <3>3. QED
      BY <1>3, <1>5, <2>1, <3>1, <3>2 DEF History
  <2>3. CASE ~(i < K /\ gpuOk /\ stagedEnd < K)
    <3>1. uses' = uses
      BY <1>9, <2>3 DEF Advance
    <3>2. QED
      BY <1>3, <1>4, <2>1, <3>1 DEF History
  <2>4. QED
    BY <2>2, <2>3
<1>10. CASE ComputeOnCpu
  <2>1. pc = "compute" /\ pc' = "advance" /\ layer' = layer /\ look' = look /\ uses' = Used(i + 1)
    BY <1>10 DEF ComputeOnCpu, control
  <2>2. i + 1 \in 1 .. K
    BY <1>6, <2>1 DEF Control
  <2>3. QED
    BY <1>3, <1>5, <2>1, <2>2 DEF History
<1>11. CASE BiasUnreadable \/ PreloadDone \/ ComputeOnDevice \/ AddShared \/ CopyRuns \/ UNCHANGED vars
  <2>1. look' = look /\ uses' = uses
    BY <1>11 DEF BiasUnreadable, PreloadDone, ComputeOnDevice, AddShared, CopyRuns, vars, control
  <2>2. QED
    BY <1>3, <1>4, <2>1 DEF History
<1>12. QED
  BY <1>7, <1>8, <1>9, <1>10, <1>11 DEF Next, AllTokensDone

\* A computation on the CPU asks for the winner after its own.
LEMMA NextIsAhead ==
    ASSUME Control, pc = "compute", i + 2 <= K, NEW ahead \in LookAheads
    PROVE  Key(i + 2) \in ahead
<1>1. K \in Nat /\ i \in Nat /\ K = RankLen
  BY KeysOfWinners DEF Control
<1>2. i + 2 <= NumExperts /\ i + 2 <= Places /\ NumExperts \in Nat /\ Places \in Nat
  BY <1>1, RankingsAre, TopKAssumption, ExpertsAssumption
<1>3. i + 2 \in Ahead
  <2> DEFINE R == {i + 3, NumExperts}
  <2>1. R \in SUBSET Nat /\ R # {} /\ \A x \in R : i + 2 <= x
    BY <1>1, <1>2
  <2>2. Ahead = i + 2 .. Min(R)
    BY DEF Ahead
  <2> HIDE DEF R
  <2>3. Min(R) \in R /\ Min(R) \in Nat
    BY <2>1, SmallestNat
  <2>4. QED
    BY <1>1, <2>1, <2>2, <2>3
<1>4. <<layer, IndexAt(i + 2)>> \in ahead
  BY <1>2, <1>3 DEF LookAheads
<1>5. QED
  BY <1>4 DEF IndexAt, Key

\* Every step leaves the requests of the layer justified.
LEMMA AskedStep ==
    ASSUME Control, History, Asked, [Next]_vars
    PROVE  Asked'
<1>1. CASE Route
  <2>1. /\ pc = "route" /\ token' = token /\ layer' = layer
        /\ winners' \in Rankings /\ probs' \in Probabilities
        /\ \E done \in RouterDone(look, uses, layer, winners', probs') :
              look' = done.look /\ asks' = done.asks
    BY <1>1 DEF Route
  <2>2. PICK done \in RouterDone(look, uses, layer, winners', probs') :
              look' = done.look /\ asks' = done.asks
    BY <2>1
  <2>3. LookShape(look) /\ layer \in MoeLayers /\ token \in Nat /\ layer \in Nat
    BY LayersAssumption DEF Control, MoeLayers
  <2>4. \A m \in MoeLayers : look.overlap[m] > 0 => look.lastTopK[m] # <<>>
    BY DEF History
  <2>5. layer + 1 \in MoeLayers /\ look.overlap[layer + 1] > 0 => token > 1
    <3>1. SUFFICES ASSUME layer + 1 \in MoeLayers, look.overlap[layer + 1] > 0
                   PROVE  token > 1
      OBVIOUS
    <3>2. VisitedTwice(layer + 1)
      BY <3>1 DEF History
    <3>3. ~(layer + 1 < layer) /\ layer + 1 # layer
      BY <2>3
    <3>4. QED
      BY <3>2, <3>3 DEF VisitedTwice
  <2>6. \A k \in Mine(layer, winners') : uses[k] >= 2 => token > 0
    <3>1. SUFFICES ASSUME NEW k \in Mine(layer, winners'), uses[k] >= 2
                   PROVE  token > 0
      OBVIOUS
    <3>2. PICK e \in Experts : k = <<layer, e>>
      BY <2>1, RankingsAre DEF Mine
    <3>3. uses[<<layer, e>>] \in 0 .. 2 /\ uses[<<layer, e>>] >= 2
      BY <2>3, <3>1, <3>2 DEF Control
    <3>4. uses[<<layer, e>>] > 0
      BY <3>3
    <3>5. Visited(layer)
      BY <2>3, <3>4 DEF History
    <3>6. QED
      BY <2>1, <2>3, <3>5 DEF Visited
  <2>7. Justified(done.asks, done.look, winners', layer, token, gpuOk')
    BY <2>1, <2>2, <2>3, <2>4, <2>5, <2>6, CallIsJustified
  <2>8. QED
    BY <2>1, <2>2, <2>7 DEF Asked
<1>2. CASE ComputeOnCpu
  <2>1. /\ pc = "compute" /\ ~gpuOk /\ gpuOk' = gpuOk
        /\ \E ahead \in LookAheads : asks' = [asks EXCEPT !.demand = @ \cup ahead]
        /\ look' = look /\ winners' = winners /\ layer' = layer /\ token' = token
    BY <1>2 DEF ComputeOnCpu, control
  <2>2. Justified(asks, look, winners, layer, token, gpuOk)
    BY <2>1 DEF Asked
  <2>3. /\ asks.demand \subseteq asks'.demand
        /\ asks'.guesses = asks.guesses /\ asks'.pins = asks.pins /\ asks'.boosts = asks.boosts
    BY <2>1 DEF Control, AskShape, AskParts
  <2>4. Justified(asks', look, winners, layer, token, gpuOk)
    <3>1. Guessed(asks') = Guessed(asks)
      BY <2>3 DEF Guessed
    <3>2. QED
      BY <2>1, <2>2, <2>3, <3>1 DEF Justified
  <2>5. QED
    BY <2>1, <2>4 DEF Asked
<1>3. CASE BiasUnreadable \/ AddShared
  <2>1. pc' = "route"
    BY <1>3 DEF BiasUnreadable, AddShared, LeaveLayer
  <2>2. QED
    BY <2>1 DEF Asked
<1>4. ASSUME /\ asks' = asks /\ look' = look /\ winners' = winners
             /\ layer' = layer /\ token' = token
             /\ pc' # "route" => pc # "route"
             /\ gpuOk' => gpuOk
      PROVE  Asked'
  BY <1>4 DEF Asked, Justified
<1>5. CASE Preload \/ PreloadDone \/ Advance \/ ComputeOnDevice
  <2>1. /\ asks' = asks /\ look' = look /\ winners' = winners
        /\ layer' = layer /\ token' = token /\ pc # "route" /\ (gpuOk' => gpuOk)
    BY <1>5 DEF Preload, PreloadDone, Advance, ComputeOnDevice, control
  <2>2. QED
    BY <1>4, <2>1
<1>6. CASE CopyRuns \/ UNCHANGED vars
  <2>1. /\ asks' = asks /\ look' = look /\ winners' = winners
        /\ layer' = layer /\ token' = token /\ pc' = pc /\ gpuOk' = gpuOk
    BY <1>6 DEF CopyRuns, vars, control
  <2>2. QED
    BY <1>4, <2>1
<1>7. QED
  BY <1>1, <1>2, <1>3, <1>5, <1>6 DEF Next, AllTokensDone

\* Every step leaves the winner after one computed on the CPU asked for.
LEMMA ReadAheadStep ==
    ASSUME Control, ReadAhead, [Next]_vars
    PROVE  ReadAhead'
<1>1. K \in Nat /\ i \in 0 .. K
  BY KeysOfWinners DEF Control
<1>2. ASSUME i' = 0, moeOut' = <<>>
      PROVE  ReadAhead'
  <2>1. <<>> \in Seq({}) /\ Len(<<>>) = 0
    OBVIOUS
  <2>2. QED
    BY <1>2, <2>1 DEF ReadAhead
<1>3. ASSUME i' = i, moeOut' = moeOut, winners' = winners, layer' = layer, asks' = asks, pc # "route"
      PROVE  ReadAhead'
  BY <1>3 DEF ReadAhead, Key, K
<1>4. CASE BiasUnreadable \/ AddShared
  <2>1. pc' = "route"
    BY <1>4 DEF BiasUnreadable, AddShared, LeaveLayer
  <2>2. QED
    BY <2>1 DEF ReadAhead
<1>5. CASE Preload \/ PreloadDone \/ Advance
  <2>1. /\ i' = i /\ moeOut' = moeOut /\ winners' = winners /\ layer' = layer /\ asks' = asks
        /\ pc # "route"
    BY <1>5 DEF Preload, PreloadDone, Advance, control
  <2>2. QED
    BY <1>3, <2>1
<1>6. ASSUME NEW c, pc = "compute", i' = i + 1, moeOut' = Append(moeOut, c),
             winners' = winners, layer' = layer, asks.demand \subseteq asks'.demand,
             c.engine = "cpu" /\ i + 2 <= K => Key(i + 2) \in asks'.demand
      PROVE  ReadAhead'
  <2>1. PICK S : moeOut \in Seq(S)
    BY <1>6 DEF ReadAhead
  <2>2. /\ Len(moeOut) = i
        /\ \A m \in 1 .. i : m < K /\ moeOut[m].engine = "cpu" => Key(m + 1) \in asks.demand
    BY <1>6 DEF ReadAhead
  <2>3. moeOut \in Seq(S \cup {c}) /\ c \in S \cup {c}
    BY <2>1
  <2>4. /\ moeOut' \in Seq(S \cup {c})
        /\ Len(moeOut') = i + 1
        /\ \A m \in 1 .. i : moeOut'[m] = moeOut[m]
        /\ moeOut'[i + 1] = c
    BY <1>6, <2>2, <2>3, AppendProperties
  <2>5. \A m \in 1 .. i + 1 : m < K /\ moeOut'[m].engine = "cpu" => Key(m + 1) \in asks'.demand
    <3>1. \A m \in 1 .. i + 1 : m \in 1 .. i \/ m = i + 1
      BY <1>1
    <3>2. i + 1 < K => i + 2 <= K
      BY <1>1
    <3>3. (i + 1) + 1 = i + 2
      BY <1>1
    <3>4. QED
      BY <1>6, <2>2, <2>4, <3>1, <3>2, <3>3
  <2>6. K' = K /\ \A n : Key(n)' = Key(n)
    BY <1>6 DEF Key, K
  <2>7. QED
    BY <1>6, <2>4, <2>5, <2>6 DEF ReadAhead
<1>7. CASE ComputeOnDevice
  <2>1. pc = "compute" /\ winners' = winners /\ layer' = layer /\ asks' = asks
    BY <1>7 DEF ComputeOnDevice, control
  <2>2. PICK o \in Allowed(FFN(gpu, Key(i + 1))) :
            IF o.ok
            THEN moeOut' = Append(moeOut, Contribution(i + 1, "gpu", o.bytes)) /\ i' = i + 1
            ELSE moeOut' = <<>> /\ i' = 0
    BY <1>7 DEF ComputeOnDevice, Restart
  <2>3. Contribution(i + 1, "gpu", o.bytes).engine # "cpu"
    BY DEF Contribution
  <2>4. QED
    BY <1>2, <1>6, <2>1, <2>2, <2>3
<1>8. CASE ComputeOnCpu
  <2>1. /\ pc = "compute" /\ winners' = winners /\ layer' = layer
        /\ moeOut' = Append(moeOut, Contribution(i + 1, "cpu", Key(i + 1)))
        /\ i' = i + 1
    BY <1>8 DEF ComputeOnCpu, control
  <2>2. PICK ahead \in LookAheads : asks' = [asks EXCEPT !.demand = @ \cup ahead]
    BY <1>8 DEF ComputeOnCpu
  <2>3. asks'.demand = asks.demand \cup ahead
    BY <2>2 DEF Control, AskShape, AskParts
  <2>4. i + 2 <= K => Key(i + 2) \in asks'.demand
    BY <2>1, <2>3, NextIsAhead
  <2>5. QED
    BY <1>6, <2>1, <2>3, <2>4
<1>9. CASE CopyRuns \/ UNCHANGED vars
  <2>1. /\ i' = i /\ moeOut' = moeOut /\ winners' = winners /\ layer' = layer /\ pc' = pc
        /\ asks' = asks
    BY <1>9 DEF CopyRuns, vars, control
  <2>2. QED
    BY <1>3, <2>1 DEF ReadAhead
<1>10. CASE Route
  BY <1>2, <1>10 DEF Route
<1>11. QED
  BY <1>4, <1>5, <1>7, <1>8, <1>9, <1>10 DEF Next, AllTokensDone

-----------------------------------------------------------------------------
(* The theorems *)

\* Every variable keeps its shape: the pass never leaves the layers and winners
\* it was given, and the device's records stay within its slots and its ring of
\* pinned buffers.
THEOREM TypeCorrect == Spec => []TypeOK
<1>1. Control => TypeOK
  <2>1. Control => winners \in Seq(Experts)
    <3>1. <<>> \in Seq(Experts)
      OBVIOUS
    <3>2. QED
      BY <3>1, RankingsAre DEF Control
  <2>2. Control => K \in 0 .. TopK /\ i \in 0 .. K /\ stagedEnd \in 0 .. K
    BY KeysOfWinners DEF Control
  <2>3. Control => i \in 0 .. TopK /\ stagedEnd \in 0 .. TopK
    <3>1. TopK \in Nat
      BY RankingsAre
    <3>2. QED
      BY <2>2, <3>1
  <2>4. QED
    BY <2>1, <2>3 DEF Control, TypeOK, Shape, LookShape, Pcs
<1>2. QED
  BY <1>1, ControlInit, ControlStep, PTL DEF Spec

\* What a layer asks of the host cache is justified (RequestsAreJustified):
\* nothing that it needs goes unasked and, on the device, nothing else is
\* demanded; without extras a guess comes from the history of the layer it is
\* for, through the gate on its overlap.
THEOREM RequestsKept == Spec => []RequestsAreJustified
<1> DEFINE Inv == Control /\ History /\ Asked /\ ReadAhead
<1>1. Init => Inv
  <2>1. Init => Asked /\ ReadAhead
    BY DEF Init, Asked, ReadAhead
  <2>2. QED
    BY <2>1, ControlInit, HistoryInit
<1>2. Inv /\ [Next]_vars => Inv'
  BY ControlStep, HistoryStep, AskedStep, ReadAheadStep
<1>3. Inv => RequestsAreJustified
  <2>1. SUFFICES ASSUME Inv, pc = "sum"
                 PROVE  RequestsAreJustified
    BY DEF RequestsAreJustified
  <2>2. Justified(asks, look, winners, layer, token, gpuOk)
    BY <2>1 DEF Asked
  <2>3. \A n \in 2 .. K : moeOut[n - 1].engine = "cpu" => Key(n) \in asks.demand
    <3>1. SUFFICES ASSUME NEW n \in 2 .. K, moeOut[n - 1].engine = "cpu"
                   PROVE  Key(n) \in asks.demand
      OBVIOUS
    <3>2. i = K /\ K \in Nat
      BY <2>1, KeysOfWinners DEF Control
    <3>3. n - 1 \in 1 .. i /\ n - 1 < K /\ (n - 1) + 1 = n
      BY <3>2
    <3>4. QED
      BY <2>1, <3>1, <3>3 DEF ReadAhead
  <2>4. QED
    BY <2>2, <2>3 DEF RequestsAreJustified, Justified, Mine, Guessed
<1> HIDE DEF Inv
<1>4. QED
  BY <1>1, <1>2, <1>3, PTL DEF Spec

\* With faults the layer can recover from, and no expert whose packed key is
\* zero, a resident key has a device slot of its own and the copies queued for
\* that slot end by bringing its bytes: gpuExpertStage overwrites no pinned
\* buffer before the copy that reads it.
THEOREM BytesOwn ==
    ASSUME Recoverable, KeyZero \notin ExpertKeys
    PROVE  Spec => []ResidentBytesAreOwn
<1> DEFINE Inv == Control /\ Sound(gpu)
<1>1. Init => Inv
  BY ControlInit
<1>2. Inv /\ [Next]_vars => Inv'
  BY ControlStep, SoundStep
<1>3. Inv => ResidentBytesAreOwn
  BY DEF Sound, Own, ResidentBytesAreOwn
<1> HIDE DEF Inv
<1>4. QED
  BY <1>1, <1>2, <1>3, PTL DEF Spec

\* Under the same hypotheses a layer that is summed sums every winner once, with
\* its own weights, through evictions, uploads that run ahead, drained waits and
\* the restart on the CPU.
THEOREM OutputExact ==
    ASSUME Recoverable, KeyZero \notin ExpertKeys
    PROVE  Spec => []OutputIsExact
<1> DEFINE Inv == Control /\ Sound(gpu) /\ Summed
<1>1. Init => Inv
  <2>1. Init => Summed
    BY DEF Init, Summed
  <2>2. QED
    BY <2>1, ControlInit
<1>2. Inv /\ [Next]_vars => Inv'
  BY ControlStep, SoundStep, SummedStep
<1>3. Inv => OutputIsExact
  BY DEF Summed, Control, OutputIsExact
<1> HIDE DEF Inv
<1>4. QED
  BY <1>1, <1>2, <1>3, PTL DEF Spec
=============================================================================
