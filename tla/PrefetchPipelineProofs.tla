----------------------- MODULE PrefetchPipelineProofs -----------------------
(***************************************************************************)
(* Proofs, for every set of experts, placement of their projections,       *)
(* budget and batch, of what the runs check of PrefetchPipeline on two     *)
(* experts: what the cache and the getters hold is what is on disk, a      *)
(* counter never passes zero, nothing is staged twice, the keys in flight  *)
(* are those whose bytes are still to come, and a wait is for a key that   *)
(* is.                                                                     *)
(*                                                                         *)
(* The argument follows a slice.  A slice is due from the moment its run   *)
(* is made until the callback has taken it off its expert's counter; no    *)
(* two due slices carry the same projection; and the counter of an expert  *)
(* in flight is the number of its projections that have not been counted,  *)
(* of which the due ones are a part, the rest lost with a failed read.     *)
(***************************************************************************)
EXTENDS PrefetchPipeline, ReadBatches, FoldLemmas

\* the bytes projection p brings into the buffer of k
PartBytes(k, p) ==
    {<<Dest(k, p) + i, Loc[k][p].shard, Loc[k][p].offset + i>> : i \in 0..(Loc[k][p].size - 1)}

Slices == [key : Keys, dest : Nat, size : Nat, from : Int]
Runs == [shard : 1..NumShards, start : Nat, end : Nat, slices : Seq(Slices)]

\* slice i of run r carries projection p of k
Carries(r, i, k, p) ==
    /\ r.slices[i].key = k
    /\ r.slices[i].dest = Dest(k, p)
    /\ r.slices[i].size = Loc[k][p].size
    /\ r.shard = Loc[k][p].shard
    /\ r.start + r.slices[i].from = Loc[k][p].offset

(***************************************************************************)
(* The runs of S carry each projection of its keys in one slice, and       *)
(* nothing else.                                                           *)
(***************************************************************************)
RunsCarry(S) ==
    LET rs == RunsOf[S] IN
    /\ rs \in Seq(Runs)
    /\ \A n \in DOMAIN rs : rs[n].slices # <<>>
    /\ \A n \in DOMAIN rs : \A i \in DOMAIN rs[n].slices :
        \E k \in S : \E p \in Parts(k) : Carries(rs[n], i, k, p)
    /\ \A k \in S : \A p \in Parts(k) :
        \E n \in DOMAIN rs : \E i \in DOMAIN rs[n].slices : Carries(rs[n], i, k, p)
    /\ \A k \in S : \A p \in Parts(k) : \A n, m \in DOMAIN rs :
        \A i \in DOMAIN rs[n].slices : \A j \in DOMAIN rs[m].slices :
            Carries(rs[n], i, k, p) /\ Carries(rs[m], j, k, p) => n = m /\ i = j


\* The projections of k are finitely many, each with a natural size.
LEMMA PartsAreFinite ==
    ASSUME NEW k \in Keys
    PROVE  /\ IsFiniteSet(DOMAIN Loc[k])
           /\ IsFiniteSet(Parts(k))
           /\ \A p \in DOMAIN Loc[k] : p \in Nat \ {0} /\ 1..(p - 1) \subseteq DOMAIN Loc[k]
           /\ \A p \in DOMAIN Loc[k] : Loc[k][p] \in [shard : 1..NumShards, offset : Nat, size : Nat]
           /\ \A p \in DOMAIN Loc[k] : Sizes(k)[p] = Loc[k][p].size /\ Sizes(k)[p] \in Nat
           /\ DOMAIN Sizes(k) = DOMAIN Loc[k]
<1>1. Loc[k] \in Seq([shard : 1..NumShards, offset : Nat, size : Nat])
  BY LocIsPlacement
<1>2. PICK n \in Nat : DOMAIN Loc[k] = 1..n
  BY <1>1
<1>3. IsFiniteSet(1..n)
  BY FS_Interval
<1>4. IsFiniteSet(DOMAIN Loc[k])
  BY <1>2, <1>3
<1>5. Parts(k) \in SUBSET DOMAIN Loc[k]
  BY DEF Parts
<1>6. IsFiniteSet(Parts(k))
  BY <1>4, <1>5, FS_Subset
<1>7. \A p \in DOMAIN Loc[k] : Loc[k][p] \in [shard : 1..NumShards, offset : Nat, size : Nat]
  <2> DEFINE Places == [shard : 1..NumShards, offset : Nat, size : Nat]
  <2>1. Loc[k] \in Seq(Places)
    BY <1>1
  <2> HIDE DEF Places
  <2>2. \A p \in DOMAIN Loc[k] : Loc[k][p] \in Places
    BY <2>1
  <2>3. QED
    BY <2>2 DEF Places
<1>8. \A p \in DOMAIN Loc[k] : p \in Nat \ {0} /\ 1..(p - 1) \subseteq DOMAIN Loc[k]
  BY <1>2
<1>9. /\ \A p \in DOMAIN Loc[k] : Sizes(k)[p] = Loc[k][p].size /\ Sizes(k)[p] \in Nat
      /\ DOMAIN Sizes(k) = DOMAIN Loc[k]
  BY <1>7 DEF Sizes
<1>10. QED
  BY <1>4, <1>6, <1>7, <1>8, <1>9

\* A projection starts at a natural offset of the buffer of its expert.
LEMMA DestIsNat ==
    ASSUME NEW k \in Keys, NEW p \in DOMAIN Loc[k]
    PROVE  Dest(k, p) \in Nat
<1>1. 1..(p - 1) \in SUBSET DOMAIN Loc[k]
  BY PartsAreFinite
<1>2. IsFiniteSet(DOMAIN Loc[k]) /\ \A q \in DOMAIN Loc[k] : Sizes(k)[q] \in Nat
  BY PartsAreFinite
<1>3. QED
  BY <1>1, <1>2, SumGrows DEF Dest

\* The projections that hold bytes start at different offsets of the buffer.
LEMMA DestsDiffer ==
    ASSUME NEW k \in Keys, NEW p \in Parts(k), NEW q \in Parts(k), Dest(k, p) = Dest(k, q)
    PROVE  p = q
<1>1. SUFFICES ASSUME NEW a \in Parts(k), NEW b \in Parts(k), a < b
               PROVE  Dest(k, a) # Dest(k, b)
  <2>1. p \in Nat /\ q \in Nat
    BY PartsAreFinite DEF Parts
  <2>2. QED
    BY <1>1, <2>1
<1>2. /\ IsFiniteSet(DOMAIN Loc[k]) /\ \A e \in DOMAIN Loc[k] : Sizes(k)[e] \in Nat
      /\ a \in Nat \ {0} /\ b \in Nat \ {0} /\ a \in DOMAIN Loc[k]
      /\ 1..(a - 1) \subseteq DOMAIN Loc[k] /\ 1..(b - 1) \subseteq DOMAIN Loc[k]
      /\ Sizes(k)[a] > 0
  BY PartsAreFinite DEF Parts
<1>3. /\ 1..a \in SUBSET (1..(b - 1)) /\ (1..a) \ {a} = 1..(a - 1) /\ a \in 1..a
      /\ 1..a \in SUBSET DOMAIN Loc[k]
  BY <1>1, <1>2
<1>4. IsFiniteSet(1..a) /\ IsFiniteSet(1..(b - 1))
  BY <1>2, FS_Subset
<1>5. SumFunctionOnSet(Sizes(k), 1..a) = Sizes(k)[a] + SumFunctionOnSet(Sizes(k), 1..(a - 1))
  <2>1. \A e \in 1..a : Sizes(k)[e] \in Int
    BY <1>2, <1>3
  <2>2. QED
    BY <2>1, <1>3, <1>4, SumTakes
<1>6. /\ SumFunctionOnSet(Sizes(k), 1..a) <= SumFunctionOnSet(Sizes(k), 1..(b - 1))
      /\ SumFunctionOnSet(Sizes(k), 1..a) \in Nat
      /\ SumFunctionOnSet(Sizes(k), 1..(b - 1)) \in Nat
  <2>1. \A e \in 1..(b - 1) : Sizes(k)[e] \in Nat
    BY <1>2
  <2>2. QED
    BY <2>1, <1>3, <1>4, SumGrows
<1>7. SumFunctionOnSet(Sizes(k), 1..(a - 1)) \in Nat /\ Sizes(k)[a] \in Nat
  BY <1>2, DestIsNat DEF Dest
<1>8. QED
  BY <1>2, <1>5, <1>6, <1>7 DEF Dest

\* The bytes of an expert are a natural number.
LEMMA TotalIsNat ==
    ASSUME NEW k \in Keys
    PROVE  Total(k) \in Nat
<1>1. /\ IsFiniteSet(DOMAIN Loc[k]) /\ DOMAIN Sizes(k) = DOMAIN Loc[k]
      /\ \A p \in DOMAIN Loc[k] : Sizes(k)[p] \in Nat
  BY PartsAreFinite
<1>2. Total(k) = SumFunctionOnSet(Sizes(k), DOMAIN Loc[k])
  BY <1>1 DEF Total, SumFunction
<1>3. QED
  BY <1>1, <1>2, SumGrows

\* An expert of some bytes has a projection that holds some.
LEMMA TotalNeedsParts ==
    ASSUME NEW k \in Keys, Total(k) > 0
    PROVE  Parts(k) # {}
<1>1. /\ IsFiniteSet(DOMAIN Loc[k]) /\ DOMAIN Sizes(k) = DOMAIN Loc[k]
      /\ \A p \in DOMAIN Loc[k] : Sizes(k)[p] = Loc[k][p].size /\ Sizes(k)[p] \in Nat
  BY PartsAreFinite
<1>2. Total(k) = SumFunctionOnSet(Sizes(k), DOMAIN Loc[k])
  BY <1>1 DEF Total, SumFunction
<1>3. PICK p \in DOMAIN Loc[k] : Sizes(k)[p] # 0
  BY <1>1, <1>2, SumNeedsTerms
<1>4. QED
  BY <1>1, <1>3 DEF Parts

-----------------------------------------------------------------------------
Reads == [key : Keys, dest : Nat, offset : Nat, size : Nat]

\* q lists each read of s once, by ascending offset
Lists(q, s) ==
    /\ q \in Seq(s)
    /\ \A io \in s : \E i \in DOMAIN q : q[i] = io
    /\ \A i, j \in DOMAIN q : q[i] = q[j] => i = j
    /\ \A i, j \in DOMAIN q : i < j => q[i].offset <= q[j].offset

\* the sort as a fold: what it takes first of each set of reads, and what it does with it
Lowest(ios) == [s \in SUBSET ios |-> CHOOSE io \in s : \A other \in s : io.offset <= other.offset]
Listing(ios) == [p \in ios \X Seq(ios) |-> <<p[1]>> \o p[2]]

\* A set of reads has one of the lowest offset.
LEMMA LowestIsIn ==
    ASSUME NEW ios \in SUBSET Reads, NEW s \in SUBSET ios, s # {}
    PROVE  /\ Lowest(ios)[s] \in s
           /\ \A other \in s : Lowest(ios)[s].offset <= other.offset
<1> DEFINE Offsets == {io.offset : io \in s}
<1>1. Offsets \in SUBSET Nat /\ Offsets # {}
  BY DEF Reads
<1>2. PICK o \in Offsets : \A n \in Offsets : o <= n
  <2> HIDE DEF Offsets
  <2>1. QED
    BY <1>1, LeastNat
<1>3. \E io \in s : \A other \in s : io.offset <= other.offset
  BY <1>2
<1>4. Lowest(ios)[s] = CHOOSE io \in s : \A other \in s : io.offset <= other.offset
  BY DEF Lowest
<1>5. QED
  BY <1>3, <1>4

\* The first read in front of a list of the others.
LEMMA ListKeeps ==
    ASSUME NEW s, NEW io \in s, NEW q, Lists(q, s \ {io}),
           \A other \in s : io.offset <= other.offset
    PROVE  Lists(<<io>> \o q, s)
<1> DEFINE r == <<io>> \o q
<1>1. /\ q \in Seq(s \ {io}) /\ Len(q) \in Nat /\ DOMAIN q = 1..Len(q)
      /\ \A i \in DOMAIN q : q[i] \in s /\ q[i] # io
  BY DEF Lists
<1>2. q \in Seq(s)
  BY <1>1
<1>3. /\ r \in Seq(s) /\ DOMAIN r = 1..(Len(q) + 1) /\ r[1] = io
      /\ \A i \in DOMAIN q : i + 1 \in DOMAIN r /\ r[i + 1] = q[i]
      /\ \A i \in DOMAIN r : i # 1 => i - 1 \in DOMAIN q /\ r[i] = q[i - 1]
  BY <1>1, <1>2
<1> HIDE DEF r
<1>4. 1 \in DOMAIN r
  BY <1>1, <1>3
<1>5. ASSUME NEW x \in s
      PROVE  \E i \in DOMAIN r : r[i] = x
  <2>1. CASE x = io
    BY <2>1, <1>3, <1>4
  <2>2. CASE x # io
    <3>1. PICK i \in DOMAIN q : q[i] = x
      BY <2>2 DEF Lists
    <3>2. QED
      BY <3>1, <1>3
  <2>3. QED
    BY <2>1, <2>2
<1>6. ASSUME NEW i \in DOMAIN r, NEW j \in DOMAIN r, r[i] = r[j]
      PROVE  i = j
  <2>1. i = 1 <=> r[i] = io
    BY <1>1, <1>3
  <2>2. j = 1 <=> r[j] = io
    BY <1>1, <1>3
  <2>3. CASE i # 1 /\ j # 1
    <3>1. i - 1 \in DOMAIN q /\ j - 1 \in DOMAIN q /\ q[i - 1] = q[j - 1]
      BY <2>3, <1>3, <1>6
    <3>2. i - 1 = j - 1
      BY <3>1 DEF Lists
    <3>3. i \in Int /\ j \in Int
      BY <1>1, <1>3
    <3>4. QED
      BY <3>2, <3>3
  <2>4. QED
    BY <2>1, <2>2, <2>3, <1>6
<1>7. ASSUME NEW i \in DOMAIN r, NEW j \in DOMAIN r, i < j
      PROVE  r[i].offset <= r[j].offset
  <2>1. j # 1 /\ j - 1 \in DOMAIN q /\ r[j] = q[j - 1] /\ r[j] \in s
    BY <1>1, <1>3, <1>7
  <2>2. CASE i = 1
    BY <1>3, <2>1, <2>2
  <2>3. CASE i # 1
    <3>1. i - 1 \in DOMAIN q /\ r[i] = q[i - 1] /\ i - 1 < j - 1
      BY <1>1, <1>3, <1>7, <2>3
    <3>2. QED
      BY <2>1, <3>1 DEF Lists
  <2>4. QED
    BY <2>2, <2>3
<1>8. QED
  BY <1>3, <1>5, <1>6, <1>7 DEF Lists, r

\* std::sort keeps each read, once.
LEMMA SortLists ==
    ASSUME NEW ios \in SUBSET Reads, IsFiniteSet(ios)
    PROVE  Lists(ByOffset(ios), ios)
<1> DEFINE low(s) == CHOOSE io \in s : \A other \in s : io.offset <= other.offset
           Eq(g) == g = [s \in SUBSET ios |->
                IF s = {} THEN <<>> ELSE <<low(s)>> \o g[s \ {low(s)}]]
<1>1. ByOffset(ios) = (CHOOSE g : Eq(g))[ios]
  BY DEF ByOffset, MapThenFoldSet
<1>2. \A s \in SUBSET ios : Lowest(ios)[s] = low(s)
  BY DEF Lowest
<1>3. \A s \in SUBSET ios : s # {} =>
          /\ Lowest(ios)[s] \in s /\ low(s) \in s
          /\ \A other \in s : low(s).offset <= other.offset
  BY <1>2, LowestIsIn
<1> HIDE DEF low
<1>4. PICK g \in [SUBSET ios -> Seq(ios)] : IsFold(g, ios, <<>>, Listing(ios), Lowest(ios))
  <2>1. Listing(ios) \in [ios \X Seq(ios) -> Seq(ios)]
    <3>1. ASSUME NEW p \in ios \X Seq(ios)
          PROVE  <<p[1]>> \o p[2] \in Seq(ios)
      <4>1. p[1] \in ios /\ p[2] \in Seq(ios)
        OBVIOUS
      <4>2. <<p[1]>> \in Seq(ios)
        BY <4>1
      <4>3. QED
        BY <4>1, <4>2
    <3>2. QED
      BY <3>1 DEF Listing
  <2>2. <<>> \in Seq(ios) /\ \A s \in SUBSET ios : s # {} => Lowest(ios)[s] \in s
    BY <1>3
  <2> DEFINE V == Seq(ios)
             op == Listing(ios)
             c == Lowest(ios)
  <2> HIDE DEF V, op, c
  <2>3. QED
    BY <2>1, <2>2, FoldExists DEF V, op, c
<1>5. \A s \in SUBSET ios : g[s] = IF s = {} THEN <<>> ELSE <<low(s)>> \o g[s \ {low(s)}]
  <2>1. SUFFICES ASSUME NEW s \in SUBSET ios
                 PROVE  g[s] = IF s = {} THEN <<>> ELSE <<low(s)>> \o g[s \ {low(s)}]
    OBVIOUS
  <2>2. CASE s = {}
    BY <1>4, <2>2 DEF IsFold
  <2>3. CASE s # {}
    <3> DEFINE x == low(s)
               rest == g[s \ {x}]
    <3>1. x \in ios /\ Lowest(ios)[s] = x
      BY <1>2, <1>3, <2>3
    <3>2. rest \in Seq(ios)
      BY <1>4
    <3>3. g[s] = Listing(ios)[<<x, rest>>]
      BY <1>4, <2>3, <3>1 DEF IsFold
    <3> HIDE DEF x, rest
    <3>4. Listing(ios)[<<x, rest>>] = <<x>> \o rest
      BY <3>1, <3>2 DEF Listing
    <3>5. QED
      BY <2>3, <3>3, <3>4 DEF x, rest
  <2>4. QED
    BY <2>2, <2>3
<1>6. Eq(g)
  BY <1>5
<1> DEFINE h == CHOOSE f : Eq(f)
<1>7. Eq(h)
  <2> HIDE DEF Eq
  <2>1. QED
    BY <1>6
<1>8. \A s \in SUBSET ios : h[s] = IF s = {} THEN <<>> ELSE <<low(s)>> \o h[s \ {low(s)}]
  BY <1>7
<1> HIDE DEF h
<1> DEFINE Bad == {s \in SUBSET ios : ~Lists(h[s], s)}
<1>9. Bad = {}
  <2>1. SUFFICES ASSUME Bad # {}
                 PROVE  FALSE
    OBVIOUS
  <2>2. PICK s \in Bad : \A t \in SUBSET s : t # s => t \notin Bad
    <3>1. Bad \in SUBSET SUBSET ios
      OBVIOUS
    <3> HIDE DEF Bad
    <3>2. QED
      BY <2>1, <3>1, LeastSubset
  <2>3. s \in SUBSET ios /\ ~Lists(h[s], s)
    BY <2>2
  <2>4. CASE s = {}
    <3>1. h[s] = <<>>
      BY <1>8, <2>3, <2>4
    <3>2. Lists(<<>>, {})
      BY DEF Lists
    <3>3. QED
      BY <2>3, <2>4, <3>1, <3>2
  <2>5. CASE s # {}
    <3>1. low(s) \in s /\ s \ {low(s)} \in SUBSET s /\ s \ {low(s)} # s /\ s \ {low(s)} \in SUBSET ios
      BY <1>3, <2>3, <2>5
    <3>2. Lists(h[s \ {low(s)}], s \ {low(s)})
      BY <2>2, <3>1
    <3>3. \A other \in s : low(s).offset <= other.offset
      BY <1>3, <2>3, <2>5
    <3>4. Lists(<<low(s)>> \o h[s \ {low(s)}], s)
      BY <3>1, <3>2, <3>3, ListKeeps
    <3>5. QED
      BY <1>8, <2>3, <2>5, <3>4
  <2>6. QED
    BY <2>4, <2>5
<1>10. ios \in SUBSET ios
  OBVIOUS
<1>11. Lists(h[ios], ios)
  BY <1>9, <1>10
<1>12. QED
  BY <1>1, <1>11 DEF h

-----------------------------------------------------------------------------
\* slice m of run r is read x
Holds(r, m, x) ==
    /\ r.slices[m].key = x.key
    /\ r.slices[m].dest = x.dest
    /\ r.slices[m].size = x.size
    /\ r.start + r.slices[m].from = x.offset

\* the runs rs of a shard hold each read of `seen` in one slice, and nothing else
Merged(rs, seen, shard) ==
    /\ rs \in Seq(Runs)
    /\ \A n \in DOMAIN rs : rs[n].slices # <<>> /\ rs[n].shard = shard
    /\ \A n \in DOMAIN rs : \A m \in DOMAIN rs[n].slices :
        \E x \in seen : Holds(rs[n], m, x)
    /\ \A x \in seen : \E n \in DOMAIN rs : \E m \in DOMAIN rs[n].slices : Holds(rs[n], m, x)
    /\ \A x \in seen : \A n, o \in DOMAIN rs :
        \A m \in DOMAIN rs[n].slices : \A p \in DOMAIN rs[o].slices :
            Holds(rs[n], m, x) /\ Holds(rs[o], p, x) => n = o /\ m = p

\* runs sq are the runs rs with one more slice, at <<n, m>>
OneMore(sq, rs, n, m) ==
    /\ n \in DOMAIN sq /\ m \in DOMAIN sq[n].slices
    /\ \A o \in DOMAIN rs :
        /\ o \in DOMAIN sq
        /\ sq[o].start = rs[o].start
        /\ \A p \in DOMAIN rs[o].slices :
            /\ p \in DOMAIN sq[o].slices
            /\ sq[o].slices[p] = rs[o].slices[p]
            /\ <<o, p>> # <<n, m>>
    /\ \A o \in DOMAIN sq : \A p \in DOMAIN sq[o].slices :
        <<o, p>> = <<n, m>> \/ (o \in DOMAIN rs /\ p \in DOMAIN rs[o].slices)

\* One more slice, of another read, keeps the runs exact.
LEMMA OneMoreKeeps ==
    ASSUME NEW rs, NEW sq, NEW seen \in SUBSET Reads, NEW shard, NEW io \in Reads,
           Merged(rs, seen, shard), NEW n, NEW m, OneMore(sq, rs, n, m),
           sq \in Seq(Runs),
           \A o \in DOMAIN sq : sq[o].slices # <<>> /\ sq[o].shard = shard,
           Holds(sq[n], m, io), io \notin seen
    PROVE  Merged(sq, seen \cup {io}, shard)
<1> DEFINE EndsAt(o, p) == o \in DOMAIN sq /\ p \in DOMAIN sq[o].slices
           Was(o, p) == o \in DOMAIN rs /\ p \in DOMAIN rs[o].slices
<1>1. \A o, p : EndsAt(o, p) => (o = n /\ p = m) \/ Was(o, p)
  BY DEF OneMore
<1>2. \A o, p : Was(o, p) => EndsAt(o, p) /\ ~(o = n /\ p = m)
  BY DEF OneMore
<1>3. \A o, p, x : Was(o, p) => (Holds(sq[o], p, x) <=> Holds(rs[o], p, x))
  BY DEF OneMore, Holds
<1>4. \A o, p : Was(o, p) => \E x \in seen : Holds(sq[o], p, x)
  BY <1>3 DEF Merged
<1>5. EndsAt(n, m) /\ Holds(sq[n], m, io)
  BY DEF OneMore
<1>6. io \in Reads /\ io \notin seen
  OBVIOUS
<1>7. \A o, p : \A x, y \in Reads : Holds(sq[o], p, x) /\ Holds(sq[o], p, y) => x = y
  <2>1. \A x, y \in Reads : x.key = y.key /\ x.dest = y.dest /\ x.offset = y.offset /\ x.size = y.size
                               => x = y
    BY DEF Reads
  <2>3. SUFFICES ASSUME NEW o, NEW p, NEW x \in Reads, NEW y \in Reads,
                        Holds(sq[o], p, x), Holds(sq[o], p, y)
                 PROVE  x = y
    OBVIOUS
  <2>4. x.key = y.key /\ x.dest = y.dest /\ x.offset = y.offset /\ x.size = y.size
    BY <2>3 DEF Holds
  <2>5. QED
    BY <2>1, <2>4
<1>8. \A o, p : Was(o, p) => ~Holds(sq[o], p, io)
  <2>1. SUFFICES ASSUME NEW o, NEW p, Was(o, p), Holds(sq[o], p, io)
                 PROVE  FALSE
    OBVIOUS
  <2>2. PICK x \in seen : Holds(sq[o], p, x)
    BY <2>1, <1>4
  <2>3. QED
    BY <2>1, <2>2, <1>6, <1>7
<1>9. \A x \in seen : ~Holds(sq[n], m, x)
  BY <1>5, <1>6, <1>7
<1>10. \A x \in seen : \E o, p : EndsAt(o, p) /\ Holds(sq[o], p, x)
  <2>1. SUFFICES ASSUME NEW x \in seen
                 PROVE  \E o, p : EndsAt(o, p) /\ Holds(sq[o], p, x)
    OBVIOUS
  <2>2. PICK o \in DOMAIN rs : \E p \in DOMAIN rs[o].slices : Holds(rs[o], p, x)
    BY DEF Merged
  <2>3. PICK p \in DOMAIN rs[o].slices : Holds(rs[o], p, x)
    BY <2>2
  <2>4. Was(o, p)
    OBVIOUS
  <2>5. QED
    BY <2>3, <2>4, <1>2, <1>3
<1>11. \A x \in seen : \A o, p, a, b :
           EndsAt(o, p) /\ EndsAt(a, b) /\ Holds(sq[o], p, x) /\ Holds(sq[a], b, x) => o = a /\ p = b
  <2>1. SUFFICES ASSUME NEW x \in seen, NEW o, NEW p, NEW a, NEW b,
                        EndsAt(o, p), EndsAt(a, b), Holds(sq[o], p, x), Holds(sq[a], b, x)
                 PROVE  o = a /\ p = b
    OBVIOUS
  <2>2. Was(o, p) /\ Was(a, b)
    BY <2>1, <1>1, <1>9
  <2>3. Holds(rs[o], p, x) /\ Holds(rs[a], b, x)
    BY <2>1, <2>2, <1>3
  <2>4. QED
    BY <2>2, <2>3 DEF Merged
<1> HIDE DEF EndsAt, Was
<1>12. \A o, p : EndsAt(o, p) => \E x \in seen \cup {io} : Holds(sq[o], p, x)
  BY <1>1, <1>4, <1>5
<1>13. \A x \in seen \cup {io} : \E o, p : EndsAt(o, p) /\ Holds(sq[o], p, x)
  BY <1>5, <1>10
<1>14. \A x \in seen \cup {io} : \A o, p, a, b :
           EndsAt(o, p) /\ EndsAt(a, b) /\ Holds(sq[o], p, x) /\ Holds(sq[a], b, x) => o = a /\ p = b
  <2>1. \A o, p : EndsAt(o, p) /\ Holds(sq[o], p, io) => o = n /\ p = m
    BY <1>1, <1>8
  <2>2. QED
    BY <2>1, <1>11
<1> DEFINE all == seen \cup {io}
<1>15. \A o \in DOMAIN sq : \A p \in DOMAIN sq[o].slices : \E x \in all : Holds(sq[o], p, x)
  BY <1>12 DEF EndsAt
<1>16. \A x \in all : \E o \in DOMAIN sq : \E p \in DOMAIN sq[o].slices : Holds(sq[o], p, x)
  BY <1>13 DEF EndsAt
<1>17. \A x \in all : \A o, a \in DOMAIN sq :
           \A p \in DOMAIN sq[o].slices : \A b \in DOMAIN sq[a].slices :
               Holds(sq[o], p, x) /\ Holds(sq[a], b, x) => o = a /\ p = b
  BY <1>14 DEF EndsAt
<1> HIDE DEF all
<1>18. Merged(sq, all, shard)
  BY <1>15, <1>16, <1>17 DEF Merged
<1>19. QED
  BY <1>18 DEF all

\* A run of a shard has a place, and its slices have theirs.
LEMMA RunsHavePlaces ==
    ASSUME NEW rs \in Seq(Runs), NEW n \in DOMAIN rs
    PROVE  /\ rs[n].start \in Nat /\ rs[n].end \in Nat
           /\ \A m \in DOMAIN rs[n].slices :
                rs[n].slices[m].from \in Int /\ rs[n].slices[m].size \in Nat
<1> DEFINE r == rs[n]
<1>1. r \in Runs
  OBVIOUS
<1> HIDE DEF r
<1>2. r.start \in Nat /\ r.end \in Nat /\ r.slices \in Seq(Slices)
  BY <1>1 DEF Runs
<1>3. ASSUME NEW m \in DOMAIN r.slices
      PROVE  r.slices[m].from \in Int /\ r.slices[m].size \in Nat
  <2>1. r.slices[m] \in Slices
    BY <1>2
  <2>2. QED
    BY <2>1 DEF Slices
<1>4. QED
  BY <1>2, <1>3 DEF r

\* sq is rs with read io at the end of its last run, run n, as slice m
Extended(sq, rs, io, n, m) ==
    /\ n \in Nat \ {0} /\ m \in Nat \ {0} /\ sq \in Seq(Runs)
    /\ DOMAIN rs = 1..n /\ DOMAIN sq = 1..n
    /\ \A o \in 1..(n - 1) : sq[o] = rs[o]
    /\ sq[n].shard = rs[n].shard /\ sq[n].start = rs[n].start
    /\ sq[n].end >= rs[n].end /\ sq[n].end >= io.offset + io.size
    /\ DOMAIN rs[n].slices = 1..(m - 1) /\ DOMAIN sq[n].slices = 1..m
    /\ \A p \in 1..(m - 1) : sq[n].slices[p] = rs[n].slices[p]
    /\ sq[n].slices[m] = SliceAt(io, io.offset - rs[n].start)

\* sq is rs and a new run n for read io, which is beyond the gap after the last
Begun(sq, rs, shard, io, n) ==
    /\ n \in Nat \ {0} /\ sq \in Seq(Runs)
    /\ DOMAIN rs = 1..(n - 1) /\ DOMAIN sq = 1..n
    /\ \A o \in 1..(n - 1) : sq[o] = rs[o]
    /\ n # 1 => io.offset > rs[n - 1].end + Gap
    /\ sq[n] = NewRun(shard, io)

\* One more read extends the last run or begins one.
LEMMA AddIOCases ==
    ASSUME NEW shard \in 1..NumShards, NEW rs \in Seq(Runs), NEW io \in Reads
    PROVE  \/ \E n, m : Extended(AddIO(shard, rs, io), rs, io, n, m)
           \/ \E n : Begun(AddIO(shard, rs, io), rs, shard, io, n)
<1> DEFINE sq == AddIO(shard, rs, io)
<1>1. /\ io.key \in Keys /\ io.dest \in Nat /\ io.offset \in Nat /\ io.size \in Nat
  BY DEF Reads
<1>2. CASE rs # <<>> /\ io.offset <= Last(rs).end + Gap
  <2> DEFINE n == Len(rs)
             old == rs[n]
             m == Len(old.slices) + 1
             top == Max({old.end, io.offset + io.size})
             sl == SliceAt(io, io.offset - old.start)
             more == Append(old.slices, sl)
             new == Grown(old, io)
             fr == Front(rs)
  <2>1. n \in Nat \ {0} /\ DOMAIN rs = 1..n /\ old \in Runs /\ Last(rs) = old
    BY <1>2 DEF Last
  <2>2. sq = fr \o <<new>>
    BY <1>2, <2>1 DEF AddIO
  <2>3. /\ old.shard \in 1..NumShards /\ old.start \in Nat /\ old.end \in Nat /\ old.slices \in Seq(Slices)
        /\ old = [shard |-> old.shard, start |-> old.start, end |-> old.end, slices |-> old.slices]
    BY <2>1 DEF Runs
  <2>4. top \in Nat /\ top >= old.end /\ top >= io.offset + io.size
    <3>1. \E x \in {old.end, io.offset + io.size} :
            \A y \in {old.end, io.offset + io.size} : x >= y
      BY <2>3, <1>1
    <3>2. QED
      BY <3>1, <2>3, <1>1 DEF Max
  <2>5. sl \in Slices
    BY <2>3, <1>1 DEF SliceAt, Slices
  <2>6. /\ fr \in Seq(Runs) /\ Len(fr) = n - 1
        /\ \A o \in 1..(n - 1) : fr[o] = rs[o]
    BY <2>1 DEF Front
  <2> HIDE DEF old, fr, n
  <2>7. new = [shard |-> old.shard, start |-> old.start, end |-> top, slices |-> more]
    <3> HIDE DEF top, more
    <3>1. new = [[old EXCEPT !.end = top] EXCEPT !.slices = more]
      BY DEF Grown, top, more, sl
    <3>2. QED
      BY <3>1, <2>3
  <2> HIDE DEF sl, top
  <2>8. /\ more \in Seq(Slices) /\ m \in Nat \ {0}
        /\ DOMAIN old.slices = 1..(m - 1) /\ DOMAIN more = 1..m
        /\ \A p \in 1..(m - 1) : more[p] = old.slices[p]
        /\ more[m] = sl
    BY <2>3, <2>5
  <2> HIDE DEF more, m, new
  <2>9. new \in Runs
    BY <2>3, <2>4, <2>7, <2>8 DEF Runs
  <2>10. /\ sq \in Seq(Runs) /\ DOMAIN sq = 1..n /\ sq[n] = new
         /\ \A o \in 1..(n - 1) : sq[o] = rs[o]
    <3>1. <<new>> \in Seq(Runs) /\ Len(fr) = n - 1 /\ n \in Nat \ {0}
      BY <2>1, <2>6, <2>9
    <3> HIDE DEF sq
    <3>2. /\ sq \in Seq(Runs) /\ Len(sq) = n /\ sq[n] = new
          /\ \A o \in 1..(n - 1) : sq[o] = fr[o]
      BY <2>2, <2>6, <3>1
    <3>3. QED
      BY <2>1, <2>6, <3>2
  <2>11. rs[n] = old
    BY DEF old
  <2> HIDE DEF sq
  <2>12. Extended(sq, rs, io, n, m)
    BY <2>1, <2>4, <2>7, <2>8, <2>10, <2>11 DEF Extended, sl
  <2>13. QED
    BY <2>12 DEF sq
<1>3. CASE ~(rs # <<>> /\ io.offset <= Last(rs).end + Gap)
  <2> DEFINE new == NewRun(shard, io)
             n == Len(rs) + 1
  <2>1. sq = Append(rs, new)
    BY <1>3 DEF AddIO
  <2>2. SliceAt(io, 0) \in Slices
    BY <1>1 DEF SliceAt, Slices
  <2>3. new \in Runs
    BY <2>2, <1>1 DEF NewRun, Runs
  <2> HIDE DEF new, sq
  <2>4. /\ n \in Nat \ {0} /\ DOMAIN rs = 1..(n - 1)
        /\ sq \in Seq(Runs) /\ DOMAIN sq = 1..n /\ sq[n] = new
        /\ \A o \in 1..(n - 1) : sq[o] = rs[o]
    BY <2>1, <2>3
  <2>5. n # 1 => io.offset > rs[n - 1].end + Gap
    <3>1. SUFFICES ASSUME n # 1
                   PROVE  io.offset > rs[n - 1].end + Gap
      OBVIOUS
    <3>2. rs # <<>> /\ Last(rs) = rs[n - 1] /\ rs[n - 1] \in Runs
      BY <3>1, <2>4 DEF Last
    <3>3. rs[n - 1].end \in Nat /\ Gap \in Nat
      BY <3>2, GapIsNat DEF Runs
    <3>4. QED
      BY <1>1, <1>3, <3>2, <3>3
  <2> HIDE DEF n
  <2>6. Begun(sq, rs, shard, io, n)
    BY <2>4, <2>5 DEF Begun, new
  <2>7. QED
    BY <2>6 DEF sq
<1>4. QED
  BY <1>2, <1>3

\* One more read keeps the runs exact.
LEMMA AddIOKeeps ==
    ASSUME NEW rs, NEW seen \in SUBSET Reads, NEW shard \in 1..NumShards, NEW io \in Reads,
           Merged(rs, seen, shard), io \notin seen
    PROVE  Merged(AddIO(shard, rs, io), seen \cup {io}, shard)
<1> DEFINE sq == AddIO(shard, rs, io)
<1>1. rs \in Seq(Runs) /\ \A o \in DOMAIN rs : rs[o].slices # <<>> /\ rs[o].shard = shard
  BY DEF Merged
<1>2. /\ io.key \in Keys /\ io.dest \in Nat /\ io.offset \in Nat /\ io.size \in Nat
  BY DEF Reads
<1>3. ASSUME NEW n, NEW m, Extended(sq, rs, io, n, m)
      PROVE  Merged(sq, seen \cup {io}, shard)
  <2> HIDE DEF sq
  <2>1. n \in DOMAIN sq /\ n \in DOMAIN rs /\ m \in DOMAIN sq[n].slices /\ sq \in Seq(Runs)
    BY <1>3 DEF Extended
  <2>2. \A o \in DOMAIN sq : sq[o].slices # <<>> /\ sq[o].shard = shard
    <3>1. ASSUME NEW o \in DOMAIN sq
          PROVE  sq[o].slices # <<>> /\ sq[o].shard = shard
      <4>1. o = n \/ (o \in DOMAIN rs /\ sq[o] = rs[o])
        BY <1>3 DEF Extended
      <4>2. sq[n].slices # <<>> /\ sq[n].shard = shard
        BY <1>1, <1>3, <2>1 DEF Extended
      <4>3. QED
        BY <1>1, <4>1, <4>2
    <3>2. QED
      BY <3>1
  <2>3. Holds(sq[n], m, io)
    <3>1. rs[n].start \in Nat
      BY <1>1, <2>1, RunsHavePlaces
    <3>2. QED
      BY <1>2, <1>3, <3>1 DEF Extended, Holds, SliceAt
  <2>4. OneMore(sq, rs, n, m)
    <3>1. ASSUME NEW o \in DOMAIN rs
          PROVE  /\ o \in DOMAIN sq /\ sq[o].start = rs[o].start
                 /\ \A p \in DOMAIN rs[o].slices :
                     /\ p \in DOMAIN sq[o].slices
                     /\ sq[o].slices[p] = rs[o].slices[p]
                     /\ <<o, p>> # <<n, m>>
      BY <1>3, <3>1 DEF Extended
    <3>2. ASSUME NEW o \in DOMAIN sq, NEW p \in DOMAIN sq[o].slices
          PROVE  <<o, p>> = <<n, m>> \/ (o \in DOMAIN rs /\ p \in DOMAIN rs[o].slices)
      BY <1>3, <3>2 DEF Extended
    <3>3. QED
      BY <2>1, <3>1, <3>2 DEF OneMore
  <2>5. QED
    BY <2>1, <2>2, <2>3, <2>4, OneMoreKeeps
<1>4. ASSUME NEW n, Begun(sq, rs, shard, io, n)
      PROVE  Merged(sq, seen \cup {io}, shard)
  <2> HIDE DEF sq
  <2>1. /\ n \in DOMAIN sq /\ sq \in Seq(Runs)
        /\ sq[n].slices = <<SliceAt(io, 0)>> /\ sq[n].shard = shard /\ sq[n].start = io.offset
    BY <1>4 DEF Begun, NewRun
  <2>2. DOMAIN sq[n].slices = {1} /\ sq[n].slices # <<>> /\ sq[n].slices[1] = SliceAt(io, 0)
    BY <2>1
  <2>3. \A o \in DOMAIN sq : o = n \/ (o \in DOMAIN rs /\ sq[o] = rs[o])
    BY <1>4 DEF Begun
  <2>4. \A o \in DOMAIN rs : o \in DOMAIN sq /\ sq[o] = rs[o] /\ o # n
    BY <1>4 DEF Begun
  <2>5. \A o \in DOMAIN sq : sq[o].slices # <<>> /\ sq[o].shard = shard
    BY <1>1, <2>1, <2>2, <2>3
  <2>6. Holds(sq[n], 1, io)
    BY <1>2, <2>1, <2>2 DEF Holds, SliceAt
  <2>7. OneMore(sq, rs, n, 1)
    BY <2>1, <2>2, <2>3, <2>4 DEF OneMore
  <2>8. QED
    BY <2>1, <2>5, <2>6, <2>7, OneMoreKeeps
<1>5. QED
  BY <1>1, <1>3, <1>4, AddIOCases

\* The runs rs of a shard, the last read of which is at `at`, sweep upwards beyond each other's
\* gaps, and their slices lie inside them.
Swept(rs, at) ==
    /\ rs \in Seq(Runs)
    /\ \A n \in DOMAIN rs : rs[n].start <= rs[n].end /\ rs[n].start <= at
    /\ \A n, o \in DOMAIN rs : n < o => rs[o].start > rs[n].end + Gap
    /\ \A n \in DOMAIN rs : \A m \in DOMAIN rs[n].slices :
        /\ rs[n].slices[m].from >= 0
        /\ rs[n].slices[m].from + rs[n].slices[m].size <= rs[n].end - rs[n].start

\* One more read, of a later place, keeps the sweep.
LEMMA AddIOSweeps ==
    ASSUME NEW shard \in 1..NumShards, NEW rs, NEW at \in Nat, NEW io \in Reads,
           Swept(rs, at), at <= io.offset
    PROVE  Swept(AddIO(shard, rs, io), io.offset)
<1> DEFINE sq == AddIO(shard, rs, io)
<1>1. rs \in Seq(Runs) /\ Gap \in Nat
  BY GapIsNat DEF Swept
<1>2. io.offset \in Nat /\ io.size \in Nat
  BY DEF Reads
<1>3. \A o \in DOMAIN rs : rs[o].start \in Nat /\ rs[o].end \in Nat
  BY <1>1, RunsHavePlaces
<1>4. ASSUME NEW n, NEW m, Extended(sq, rs, io, n, m)
      PROVE  Swept(sq, io.offset)
  <2> HIDE DEF sq
  <2>1. sq \in Seq(Runs) /\ n \in Nat \ {0} /\ DOMAIN sq = 1..n /\ DOMAIN rs = 1..n
    BY <1>4 DEF Extended
  <2>2. \A o \in 1..n :
            /\ sq[o].start \in Nat /\ sq[o].end \in Nat
            /\ sq[o].start = rs[o].start /\ sq[o].end >= rs[o].end
            /\ o # n => sq[o].end = rs[o].end /\ sq[o] = rs[o]
    <3>1. \A o \in 1..n : o = n \/ o \in 1..(n - 1)
      BY <2>1
    <3>2. \A o \in 1..n : sq[o].start \in Nat /\ sq[o].end \in Nat
      BY <2>1, RunsHavePlaces
    <3>3. QED
      BY <1>3, <1>4, <2>1, <3>1, <3>2 DEF Extended
  <2>3. ASSUME NEW o \in 1..n
        PROVE  sq[o].start <= sq[o].end /\ sq[o].start <= io.offset
    <3>1. rs[o].start <= rs[o].end /\ rs[o].start <= at /\ rs[o].start \in Nat /\ rs[o].end \in Nat
      BY <1>3, <2>1 DEF Swept
    <3>2. QED
      BY <1>2, <2>2, <3>1
  <2>4. ASSUME NEW o \in 1..n, NEW q \in 1..n, o < q
        PROVE  sq[q].start > sq[o].end + Gap
    <3>1. rs[q].start > rs[o].end + Gap
      BY <2>1, <2>4 DEF Swept
    <3>2. o # n
      BY <2>1, <2>4
    <3>3. QED
      BY <2>2, <3>1, <3>2
  <2>5. ASSUME NEW p \in DOMAIN sq[n].slices
        PROVE  /\ sq[n].slices[p].from >= 0
               /\ sq[n].slices[p].from + sq[n].slices[p].size <= sq[n].end - sq[n].start
    <3>1. n \in DOMAIN rs /\ rs[n].start <= io.offset /\ sq[n].end >= io.offset + io.size
      BY <1>4, <2>1, <2>2, <2>3 DEF Extended
    <3>2. CASE p = m
      <4>1. /\ sq[n].slices[p].from = io.offset - rs[n].start
            /\ sq[n].slices[p].size = io.size
        BY <1>4, <3>2 DEF Extended, SliceAt
      <4>2. QED
        BY <1>2, <1>3, <2>1, <2>2, <3>1, <4>1
    <3>3. CASE p # m
      <4>1. p \in DOMAIN rs[n].slices /\ sq[n].slices[p] = rs[n].slices[p]
        BY <1>4, <3>3 DEF Extended
      <4>2. rs[n].slices[p].from \in Int /\ rs[n].slices[p].size \in Nat
        BY <1>1, <3>1, <4>1, RunsHavePlaces
      <4>3. /\ rs[n].slices[p].from >= 0
            /\ rs[n].slices[p].from + rs[n].slices[p].size <= rs[n].end - rs[n].start
        BY <3>1, <4>1 DEF Swept
      <4>4. QED
        BY <1>3, <2>1, <2>2, <3>1, <4>1, <4>2, <4>3
    <3>4. QED
      BY <3>2, <3>3
  <2>6. \A o \in 1..n : \A p \in DOMAIN sq[o].slices :
            /\ sq[o].slices[p].from >= 0
            /\ sq[o].slices[p].from + sq[o].slices[p].size <= sq[o].end - sq[o].start
    BY <2>1, <2>2, <2>5 DEF Swept
  <2>7. QED
    BY <2>1, <2>3, <2>4, <2>6 DEF Swept
<1>5. ASSUME NEW n, Begun(sq, rs, shard, io, n)
      PROVE  Swept(sq, io.offset)
  <2> HIDE DEF sq
  <2>1. /\ sq \in Seq(Runs) /\ n \in Nat \ {0} /\ DOMAIN sq = 1..n /\ DOMAIN rs = 1..(n - 1)
        /\ \A o \in 1..(n - 1) : sq[o] = rs[o]
        /\ n # 1 => io.offset > rs[n - 1].end + Gap
    BY <1>5 DEF Begun
  <2>2. /\ sq[n].start = io.offset /\ sq[n].end = io.offset + io.size
        /\ sq[n].slices = <<SliceAt(io, 0)>>
    BY <1>5 DEF Begun, NewRun
  <2>3. \A o \in 1..n : sq[o].start <= sq[o].end /\ sq[o].start <= io.offset
    BY <1>2, <1>3, <2>1, <2>2 DEF Swept
  <2>4. \A o \in 1..(n - 1) : io.offset > rs[o].end + Gap
    <3>1. ASSUME NEW o \in 1..(n - 1), o # n - 1
          PROVE  io.offset > rs[o].end + Gap
      <4>1. o \in DOMAIN rs /\ n - 1 \in DOMAIN rs /\ o < n - 1 /\ n # 1
        BY <2>1, <3>1
      <4>2. rs[n - 1].start > rs[o].end + Gap /\ rs[n - 1].start <= rs[n - 1].end
        BY <4>1 DEF Swept
      <4>3. QED
        BY <1>1, <1>2, <1>3, <2>1, <4>1, <4>2
    <3>2. QED
      BY <2>1, <3>1
  <2>5. ASSUME NEW o \in 1..n, NEW q \in 1..n, o < q
        PROVE  sq[q].start > sq[o].end + Gap
    <3>1. o \in 1..(n - 1) /\ sq[o] = rs[o] /\ o \in DOMAIN rs
      BY <2>1, <2>5
    <3>2. CASE q = n
      BY <2>2, <2>4, <3>1, <3>2
    <3>3. CASE q # n
      BY <2>1, <2>5, <3>1, <3>3 DEF Swept
    <3>4. QED
      BY <3>2, <3>3
  <2>6. ASSUME NEW p \in DOMAIN sq[n].slices
        PROVE  /\ sq[n].slices[p].from >= 0
               /\ sq[n].slices[p].from + sq[n].slices[p].size <= sq[n].end - sq[n].start
    BY <1>2, <2>2 DEF SliceAt
  <2>7. \A o \in 1..n : \A p \in DOMAIN sq[o].slices :
            /\ sq[o].slices[p].from >= 0
            /\ sq[o].slices[p].from + sq[o].slices[p].size <= sq[o].end - sq[o].start
    BY <2>1, <2>6 DEF Swept
  <2>8. QED
    BY <2>1, <2>3, <2>5, <2>7 DEF Swept
<1>6. QED
  BY <1>1, <1>4, <1>5, AddIOCases

-----------------------------------------------------------------------------
\* the fold of ShardRuns, as a function of what it has merged and of what comes next
Merging(shard, q, n) == [p \in (1..n) \X Seq(Runs) |-> AddIO(shard, p[2], q[p[1]])]

\* One more read makes runs of runs.
LEMMA AddIOIsRuns ==
    ASSUME NEW shard \in 1..NumShards, NEW rs \in Seq(Runs), NEW io \in Reads
    PROVE  AddIO(shard, rs, io) \in Seq(Runs)
BY AddIOCases DEF Extended, Begun

\* g follows the merge of the reads of a shard, which q lists in order
Steps(q, g, shard, ios) ==
    /\ Lists(q, ios)
    /\ g[0] = <<>>
    /\ \A i \in 1..Len(q) : g[i] = AddIO(shard, g[i - 1], q[i])

\* The runs of a shard are made a read at a time, in the order of the sort.
LEMMA ShardRunsStepwise ==
    ASSUME NEW S \in SUBSET Keys, NEW shard \in 1..NumShards,
           NEW ios, ios = ProjectionIOs(S, shard), ios \in SUBSET Reads, IsFiniteSet(ios)
    PROVE  \E q, g : Steps(q, g, shard, ios) /\ ShardRuns(S, shard) = g[Len(q)]
<1> DEFINE q == ByOffset(ios)
           n == Len(q)
<1>0. Lists(q, ios)
  BY SortLists
<1>1. n \in Nat /\ q \in [1..n -> ios]
  <2> HIDE DEF q
  <2>1. QED
    BY <1>0 DEF Lists
<1> HIDE DEF q, n
<1> DEFINE Eq(g) == g = [s \in SUBSET DOMAIN q |->
                IF s = {} THEN <<>> ELSE AddIO(shard, g[s \ {Max(s)}], q[Max(s)])]
<1>2. ShardRuns(S, shard) = (CHOOSE g : Eq(g))[DOMAIN q]
  BY DEF ShardRuns, FoldLeft, MapThenFoldSet, q
<1>3. DOMAIN q = 1..n /\ IsFiniteSet(1..n)
  BY <1>1, FS_Interval
<1>4. PICK g \in [SUBSET (1..n) -> Seq(Runs)] :
          IsFold(g, 1..n, <<>>, Merging(shard, q, n), Latest(n))
  <2>1. Merging(shard, q, n) \in [(1..n) \X Seq(Runs) -> Seq(Runs)]
    <3>1. ASSUME NEW p \in (1..n) \X Seq(Runs)
          PROVE  AddIO(shard, p[2], q[p[1]]) \in Seq(Runs)
      <4>1. p[2] \in Seq(Runs) /\ q[p[1]] \in Reads
        BY <1>1
      <4>2. QED
        BY <4>1, AddIOIsRuns
    <3>2. QED
      BY <3>1 DEF Merging
  <2>2. <<>> \in Seq(Runs) /\ \A s \in SUBSET (1..n) : s # {} => Latest(n)[s] \in s
    BY <1>1, LatestIsMax
  <2> DEFINE rs == Seq(Runs)
             op == Merging(shard, q, n)
             c == Latest(n)
             all == 1..n
  <2> HIDE DEF rs, op, c, all
  <2>3. QED
    BY <2>1, <2>2, <1>3, FoldExists DEF rs, op, c, all
<1>5. \A s \in SUBSET (1..n) :
          g[s] = IF s = {} THEN <<>> ELSE AddIO(shard, g[s \ {Max(s)}], q[Max(s)])
  <2>1. SUFFICES ASSUME NEW s \in SUBSET (1..n)
                 PROVE  g[s] = IF s = {} THEN <<>>
                               ELSE AddIO(shard, g[s \ {Max(s)}], q[Max(s)])
    OBVIOUS
  <2>2. CASE s = {}
    BY <1>4, <2>2 DEF IsFold
  <2>3. CASE s # {}
    <3> DEFINE last == Max(s)
               rest == g[s \ {Max(s)}]
    <3>1. last \in s /\ Latest(n)[s] = last
      BY <1>1, <2>3, LatestIsMax
    <3>2. rest \in Seq(Runs)
      BY <1>4
    <3>3. g[s] = Merging(shard, q, n)[<<last, rest>>]
      BY <1>4, <2>3, <3>1 DEF IsFold
    <3>4. <<last, rest>> \in (1..n) \X Seq(Runs)
      BY <3>1, <3>2
    <3> HIDE DEF last, rest
    <3>5. Merging(shard, q, n)[<<last, rest>>] = AddIO(shard, rest, q[last])
      BY <3>4 DEF Merging
    <3>6. QED
      BY <2>3, <3>3, <3>5 DEF last, rest
  <2>4. QED
    BY <2>2, <2>3
<1>6. Eq(g)
  BY <1>3, <1>5
<1> DEFINE h == CHOOSE f : Eq(f)
<1>7. Eq(h)
  <2> HIDE DEF Eq
  <2>1. QED
    BY <1>6
<1>8. \A s \in SUBSET (1..n) :
          h[s] = IF s = {} THEN <<>> ELSE AddIO(shard, h[s \ {Max(s)}], q[Max(s)])
  BY <1>3, <1>7
<1> HIDE DEF h
<1> DEFINE made == [i \in 0..n |-> h[1..i]]
<1>9. ASSUME NEW i \in 1..n
      PROVE  made[i] = AddIO(shard, made[i - 1], q[i])
  <2>1. i - 1 \in 0..n /\ i \in 0..n
    BY <1>1
  <2>2. /\ 1..i \in SUBSET (1..n) /\ 1..i # {} /\ Max(1..i) = i
        /\ (1..i) \ {i} = 1..(i - 1)
    BY <1>1, UpTo
  <2>3. h[1..i] = AddIO(shard, h[1..(i - 1)], q[i])
    BY <1>8, <2>2
  <2>4. QED
    BY <2>1, <2>3
<1>10. made[0] = <<>>
  <2>1. 1..0 = {} /\ {} \in SUBSET (1..n) /\ 0 \in 0..n
    BY <1>1
  <2>2. QED
    BY <1>8, <2>1
<1>11. ShardRuns(S, shard) = made[n]
  BY <1>1, <1>2, <1>3 DEF h
<1> HIDE DEF made
<1>12. Steps(q, made, shard, ios) /\ ShardRuns(S, shard) = made[Len(q)]
  BY <1>0, <1>9, <1>10, <1>11 DEF Steps, n
<1>13. QED
  BY <1>12

\* The runs of a shard hold each of its reads in one slice, and nothing else.
LEMMA ShardRunsMerged ==
    ASSUME NEW S \in SUBSET Keys, NEW shard \in 1..NumShards,
           NEW ios, ios = ProjectionIOs(S, shard), ios \in SUBSET Reads, IsFiniteSet(ios)
    PROVE  Merged(ShardRuns(S, shard), ios, shard)
<1>1. PICK q, g : Steps(q, g, shard, ios) /\ ShardRuns(S, shard) = g[Len(q)]
  BY ShardRunsStepwise
<1> DEFINE n == Len(q)
           seen(i) == {q[j] : j \in 1..i}
           Good == {i \in 0..n : Merged(g[i], seen(i), shard)}
<1>2. /\ n \in Nat /\ DOMAIN q = 1..n
      /\ \A i \in 1..n : q[i] \in ios
      /\ \A io \in ios : \E i \in 1..n : q[i] = io
      /\ \A i, j \in 1..n : q[i] = q[j] => i = j
  BY <1>1 DEF Steps, Lists
<1>3. 0 \in Good
  <2>1. g[0] = <<>> /\ seen(0) = {}
    BY <1>1 DEF Steps
  <2>2. Merged(<<>>, {}, shard)
    BY DEF Merged
  <2>3. 0 \in 0..n
    BY <1>2
  <2> HIDE DEF seen, n
  <2>4. QED
    BY <2>1, <2>2, <2>3
<1>4. ASSUME NEW i \in Good, i < n
      PROVE  i + 1 \in Good
  <2> DEFINE io == q[i + 1]
  <2>1. /\ i + 1 \in 1..n /\ i \in Nat /\ (i + 1) - 1 = i /\ i + 1 \in 0..n
        /\ 1..(i + 1) = (1..i) \cup {i + 1}
    BY <1>2, <1>4
  <2>2. io \in Reads /\ seen(i) \in SUBSET Reads
    BY <1>2, <2>1
  <2>3. io \notin seen(i)
    BY <1>2, <2>1
  <2>4. seen(i + 1) = seen(i) \cup {io}
    BY <2>1
  <2>5. Merged(g[i], seen(i), shard)
    BY <1>4
  <2>6. g[i + 1] = AddIO(shard, g[i], io)
    BY <1>1, <2>1 DEF Steps
  <2> HIDE DEF seen, io
  <2>7. Merged(AddIO(shard, g[i], io), seen(i) \cup {io}, shard)
    BY <2>2, <2>3, <2>5, AddIOKeeps
  <2>8. QED
    BY <2>1, <2>4, <2>6, <2>7
<1>5. n \in Good
  <2> HIDE DEF Good, n
  <2>1. QED
    BY <1>2, <1>3, <1>4, CountUp
<1>6. seen(n) = ios
  BY <1>2
<1>7. QED
  BY <1>1, <1>5, <1>6

\* They sweep the shard upwards.
LEMMA ShardRunsSwept ==
    ASSUME NEW S \in SUBSET Keys, NEW shard \in 1..NumShards,
           NEW ios, ios = ProjectionIOs(S, shard), ios \in SUBSET Reads, IsFiniteSet(ios)
    PROVE  \E at : Swept(ShardRuns(S, shard), at)
<1>1. PICK q, g : Steps(q, g, shard, ios) /\ ShardRuns(S, shard) = g[Len(q)]
  BY ShardRunsStepwise
<1> DEFINE n == Len(q)
           at(i) == IF i = 0 THEN 0 ELSE q[i].offset
           Good == {i \in 0..n : Swept(g[i], at(i))}
<1>2. /\ n \in Nat
      /\ \A i \in 1..n : q[i] \in Reads /\ q[i].offset \in Nat
      /\ \A i, j \in 1..n : i < j => q[i].offset <= q[j].offset
  <2>1. q \in Seq(ios) /\ \A i, j \in DOMAIN q : i < j => q[i].offset <= q[j].offset
    BY <1>1 DEF Steps, Lists
  <2>2. n \in Nat /\ DOMAIN q = 1..n /\ \A i \in 1..n : q[i] \in Reads
    BY <2>1
  <2>3. QED
    BY <2>1, <2>2 DEF Reads
<1>3. 0 \in Good
  <2>1. Swept(<<>>, 0)
    BY DEF Swept
  <2>2. QED
    BY <1>1, <1>2, <2>1 DEF Steps
<1>4. ASSUME NEW i \in Good, i < n
      PROVE  i + 1 \in Good
  <2> DEFINE io == q[i + 1]
  <2>1. i + 1 \in 1..n /\ i \in Nat /\ (i + 1) - 1 = i /\ i + 1 \in 0..n /\ i + 1 # 0
    BY <1>2, <1>4
  <2>2. Swept(g[i], at(i)) /\ at(i) \in Nat /\ at(i) <= io.offset /\ io \in Reads
    BY <1>2, <1>4, <2>1
  <2>3. at(i + 1) = io.offset
    BY <2>1
  <2>4. g[i + 1] = AddIO(shard, g[i], io)
    BY <1>1, <2>1 DEF Steps
  <2> HIDE DEF at, io
  <2>5. Swept(AddIO(shard, g[i], io), io.offset)
    BY <2>2, AddIOSweeps
  <2>6. QED
    BY <2>1, <2>3, <2>4, <2>5
<1>5. n \in Good
  <2> HIDE DEF Good, n
  <2>1. QED
    BY <1>2, <1>3, <1>4, CountUp
<1>6. QED
  BY <1>1, <1>5

-----------------------------------------------------------------------------
\* The reads of one shard are finitely many.
LEMMA ReadsOfShard ==
    ASSUME NEW S \in SUBSET Keys, NEW shard \in 1..NumShards
    PROVE  /\ ProjectionIOs(S, shard) \in SUBSET Reads
           /\ IsFiniteSet(ProjectionIOs(S, shard))
<1> DEFINE Mine(k) == {q \in Parts(k) : Loc[k][q].shard = shard}
           Read(k, p) == [key |-> k, dest |-> Dest(k, p), offset |-> Loc[k][p].offset, size |-> Loc[k][p].size]
           Of(k) == {Read(k, p) : p \in Mine(k)}
<1>1. ProjectionIOs(S, shard) = UNION {Of(k) : k \in S}
  BY DEF ProjectionIOs
<1>2. ASSUME NEW x \in ProjectionIOs(S, shard)
      PROVE  \E k \in S : \E p \in Mine(k) : x = Read(k, p)
  BY DEF ProjectionIOs
<1>3. ASSUME NEW k \in S, NEW p \in Mine(k)
      PROVE  Read(k, p) \in Reads
  <2>1. p \in DOMAIN Loc[k] /\ k \in Keys
    BY DEF Parts
  <2>2. Loc[k][p].offset \in Nat /\ Loc[k][p].size \in Nat
    BY <2>1, PartsAreFinite
  <2>3. QED
    BY <2>1, <2>2, DestIsNat DEF Reads
<1>5. \A k \in S : IsFiniteSet(Of(k))
  <2>1. SUFFICES ASSUME NEW k \in S
                 PROVE  IsFiniteSet(Of(k))
    OBVIOUS
  <2>2. IsFiniteSet(Mine(k))
    <3>1. Mine(k) \in SUBSET Parts(k) /\ IsFiniteSet(Parts(k))
      BY PartsAreFinite
    <3>2. QED
      BY <3>1, FS_Subset
  <2> DEFINE f == [p \in Mine(k) |-> Read(k, p)]
  <2>3. f \in Surjection(Mine(k), Of(k))
    BY DEF Surjection
  <2> HIDE DEF f, Of, Mine
  <2>4. QED
    BY <2>2, <2>3, FS_Surjection
<1>6. IsFiniteSet({Of(k) : k \in S})
  <2>1. IsFiniteSet(S)
    BY KeysAreFinite, FS_Subset
  <2> DEFINE f == [k \in S |-> Of(k)]
             T == {Of(k) : k \in S}
  <2> HIDE DEF Of
  <2>2. f \in Surjection(S, T)
    BY DEF Surjection
  <2> HIDE DEF f, T
  <2>3. IsFiniteSet(T)
    BY <2>1, <2>2, FS_Surjection
  <2>4. QED
    BY <2>3 DEF T
<1> HIDE DEF Of
<1>7. IsFiniteSet(UNION {Of(k) : k \in S})
  BY <1>5, <1>6, FS_UNION
<1>8. \A x \in ProjectionIOs(S, shard) : x \in Reads
  BY <1>2, <1>3
<1>9. QED
  BY <1>1, <1>7, <1>8

\* Slice i of run r carries the projection p of k when it holds its read.
LEMMA HoldsIsCarries ==
    ASSUME NEW r, NEW i, NEW k, NEW p
    PROVE  Holds(r, i, [key |-> k, dest |-> Dest(k, p), offset |-> Loc[k][p].offset,
                        size |-> Loc[k][p].size])
           /\ r.shard = Loc[k][p].shard <=> Carries(r, i, k, p)
BY DEF Holds, Carries

(***************************************************************************)
(* prefetchAsync() asks for every projection of its keys exactly once,     *)
(* whatever the keys, their placement and the gap: the merged runs of any  *)
(* set of keys carry each projection that holds bytes in one slice, and    *)
(* carry nothing else.                                                     *)
(***************************************************************************)
THEOREM RunsExact == \A S \in SUBSET Keys : RunsCarry(S)
<1>1. SUFFICES ASSUME NEW S \in SUBSET Keys
               PROVE  RunsCarry(S)
  OBVIOUS
<1> DEFINE Read(k, p) == [key |-> k, dest |-> Dest(k, p), offset |-> Loc[k][p].offset, size |-> Loc[k][p].size]
           ios(shard) == ProjectionIOs(S, shard)
           seqs == [shard \in 1..NumShards |-> ShardRuns(S, shard)]
           rs == FlattenSeq(seqs)
<1>2. NumShards \in Nat
  BY GapIsNat
<1>3. \A shard \in 1..NumShards : Merged(seqs[shard], ios(shard), shard)
  BY ReadsOfShard, ShardRunsMerged
<1>4. seqs \in [1..NumShards -> Seq(Runs)]
  BY <1>3 DEF Merged
<1> HIDE DEF seqs
<1>5. rs \in Seq(Runs) /\ \E w : Flat(rs, seqs, NumShards, w)
  BY <1>2, <1>4, FlattenSeqIsFlat
<1>6. PICK w : Flat(rs, seqs, NumShards, w)
  BY <1>5
<1>7. RunsOf[S] = rs
  BY DEF RunsOf, seqs
<1> HIDE DEF rs
<1>8. ASSUME NEW n \in DOMAIN rs
      PROVE  /\ w[n][1] \in 1..NumShards /\ w[n][2] \in DOMAIN seqs[w[n][1]]
             /\ rs[n] = seqs[w[n][1]][w[n][2]]
             /\ rs[n].slices # <<>> /\ rs[n].shard = w[n][1]
  <2>1. /\ w[n][1] \in 1..NumShards /\ w[n][2] \in DOMAIN seqs[w[n][1]]
        /\ rs[n] = seqs[w[n][1]][w[n][2]]
    BY <1>6 DEF Flat
  <2>2. QED
    BY <2>1, <1>3 DEF Merged
<1>9. \A shard : \A x \in ios(shard) :
          \E k \in S : \E p \in Parts(k) : x = Read(k, p) /\ Loc[k][p].shard = shard
  BY DEF ProjectionIOs
<1>10. \A k \in S : \A p \in Parts(k) :
          Loc[k][p].shard \in 1..NumShards /\ Read(k, p) \in ios(Loc[k][p].shard)
  <2>1. SUFFICES ASSUME NEW k \in S, NEW p \in Parts(k)
                 PROVE  Loc[k][p].shard \in 1..NumShards /\ Read(k, p) \in ios(Loc[k][p].shard)
    OBVIOUS
  <2>2. Loc[k][p].shard \in 1..NumShards
    BY PartsAreFinite DEF Parts
  <2>3. QED
    BY <2>2 DEF ProjectionIOs
<1>11. \A r, i, k, p : Carries(r, i, k, p) <=> Holds(r, i, Read(k, p)) /\ r.shard = Loc[k][p].shard
  BY HoldsIsCarries
<1> HIDE DEF ios, Read
<1>12. ASSUME NEW n \in DOMAIN rs, NEW i \in DOMAIN rs[n].slices
       PROVE  \E k \in S : \E p \in Parts(k) : Carries(rs[n], i, k, p)
  <2>1. PICK x \in ios(w[n][1]) : Holds(rs[n], i, x)
    BY <1>3, <1>8 DEF Merged
  <2>2. PICK k \in S : \E p \in Parts(k) : x = Read(k, p) /\ Loc[k][p].shard = w[n][1]
    BY <1>9
  <2>3. QED
    BY <2>1, <2>2, <1>8, <1>11
<1>13. ASSUME NEW k \in S, NEW p \in Parts(k)
       PROVE  \E n \in DOMAIN rs : \E i \in DOMAIN rs[n].slices : Carries(rs[n], i, k, p)
  <2> DEFINE shard == Loc[k][p].shard
  <2>1. shard \in 1..NumShards /\ Read(k, p) \in ios(shard)
    BY <1>10
  <2>2. PICK y \in DOMAIN seqs[shard] :
            \E i \in DOMAIN seqs[shard][y].slices : Holds(seqs[shard][y], i, Read(k, p))
    BY <2>1, <1>3 DEF Merged
  <2>3. PICK n \in DOMAIN rs : w[n][1] = shard /\ w[n][2] = y
    BY <2>1, <2>2, <1>6 DEF Flat
  <2>4. QED
    BY <2>2, <2>3, <1>8, <1>11
<1>14. ASSUME NEW k \in S, NEW p \in Parts(k), NEW n \in DOMAIN rs, NEW m \in DOMAIN rs,
              NEW i \in DOMAIN rs[n].slices, NEW j \in DOMAIN rs[m].slices,
              Carries(rs[n], i, k, p), Carries(rs[m], j, k, p)
       PROVE  n = m /\ i = j
  <2> DEFINE shard == Loc[k][p].shard
             a == w[n][2]
             b == w[m][2]
  <2>1. shard \in 1..NumShards /\ Read(k, p) \in ios(shard)
    BY <1>10
  <2>2. w[n][1] = shard /\ w[m][1] = shard
    BY <1>8, <1>11, <1>14
  <2>3. /\ a \in DOMAIN seqs[shard] /\ b \in DOMAIN seqs[shard]
        /\ rs[n] = seqs[shard][a] /\ rs[m] = seqs[shard][b]
    BY <1>8, <2>2
  <2>4. Holds(seqs[shard][a], i, Read(k, p)) /\ Holds(seqs[shard][b], j, Read(k, p))
    BY <2>3, <1>11, <1>14
  <2>5. a = b /\ i = j
    <3> DEFINE all == seqs[shard]
    <3>1. Merged(all, ios(shard), shard)
      BY <2>1, <1>3
    <3>2. i \in DOMAIN all[a].slices /\ j \in DOMAIN all[b].slices
      BY <2>3
    <3> HIDE DEF all, a, b, shard
    <3>3. QED
      BY <2>1, <2>3, <2>4, <3>1, <3>2 DEF Merged, all
  <2>6. QED
    BY <2>2, <2>5, <1>6 DEF Flat
<1>15. QED
  BY <1>5, <1>7, <1>8, <1>12, <1>13, <1>14 DEF RunsCarry

\* The reads of all shards sweep each of them upwards, and their slices lie inside them.
LEMMA RunsSweep ==
    ASSUME NEW S \in SUBSET Keys
    PROVE  SlicesFitTheirRun(RunsOf[S]) /\ RunsSweepUpwards(RunsOf[S])
<1> DEFINE ios(shard) == ProjectionIOs(S, shard)
           seqs == [shard \in 1..NumShards |-> ShardRuns(S, shard)]
           rs == FlattenSeq(seqs)
<1>1. NumShards \in Nat /\ Gap \in Nat
  BY GapIsNat
<1>2. \A shard \in 1..NumShards :
          Merged(seqs[shard], ios(shard), shard) /\ \E at : Swept(seqs[shard], at)
  BY ReadsOfShard, ShardRunsMerged, ShardRunsSwept
<1>3. seqs \in [1..NumShards -> Seq(Runs)]
  BY <1>2 DEF Merged
<1> HIDE DEF seqs
<1>4. rs \in Seq(Runs) /\ \E w : Flat(rs, seqs, NumShards, w)
  BY <1>1, <1>3, FlattenSeqIsFlat
<1>5. PICK w : Flat(rs, seqs, NumShards, w)
  BY <1>4
<1>6. RunsOf[S] = rs
  BY DEF RunsOf, seqs
<1> HIDE DEF rs
<1>7. ASSUME NEW n \in DOMAIN rs
      PROVE  /\ w[n][1] \in 1..NumShards /\ w[n][2] \in DOMAIN seqs[w[n][1]]
             /\ rs[n] = seqs[w[n][1]][w[n][2]]
             /\ rs[n].shard = w[n][1]
  <2>1. /\ w[n][1] \in 1..NumShards /\ w[n][2] \in DOMAIN seqs[w[n][1]]
        /\ rs[n] = seqs[w[n][1]][w[n][2]]
    BY <1>5 DEF Flat
  <2>2. QED
    BY <2>1, <1>2 DEF Merged
<1>8. SlicesFitTheirRun(rs)
  <2>1. ASSUME NEW n \in DOMAIN rs, NEW i \in DOMAIN rs[n].slices
        PROVE  /\ rs[n].slices[i].from >= 0
               /\ rs[n].slices[i].from + rs[n].slices[i].size <= rs[n].end - rs[n].start
    <3> DEFINE one == seqs[w[n][1]]
    <3>1. PICK at : Swept(one, at)
      BY <1>2, <1>7
    <3>2. w[n][2] \in DOMAIN one /\ rs[n] = one[w[n][2]]
      BY <1>7
    <3> HIDE DEF one
    <3>3. QED
      BY <2>1, <3>1, <3>2 DEF Swept
  <2>2. QED
    BY <2>1 DEF SlicesFitTheirRun
<1>9. RunsSweepUpwards(rs)
  <2>1. ASSUME NEW n \in DOMAIN rs, NEW m \in DOMAIN rs, n < m
        PROVE  \/ rs[n].shard < rs[m].shard
               \/ rs[n].shard = rs[m].shard /\ rs[m].start > rs[n].end + Gap
    <3>1. CASE w[n][1] < w[m][1]
      BY <1>7, <3>1
    <3>2. CASE w[n][1] = w[m][1] /\ w[n][2] < w[m][2]
      <4> DEFINE one == seqs[w[n][1]]
      <4>1. PICK at : Swept(one, at)
        BY <1>2, <1>7
      <4>2. /\ w[n][2] \in DOMAIN one /\ rs[n] = one[w[n][2]]
            /\ w[m][2] \in DOMAIN one /\ rs[m] = one[w[m][2]]
        BY <1>7, <3>2
      <4> HIDE DEF one
      <4>3. rs[m].start > rs[n].end + Gap
        BY <3>2, <4>1, <4>2 DEF Swept
      <4>4. QED
        BY <1>7, <3>2, <4>3
    <3>3. QED
      BY <1>5, <2>1, <3>1, <3>2 DEF Flat
  <2>2. QED
    BY <2>1 DEF RunsSweepUpwards
<1>10. QED
  BY <1>6, <1>8, <1>9

\* The bytes of k are those of its projections.
LEMMA ImageOfParts ==
    ASSUME NEW k \in Keys
    PROVE  DiskImage[k] = UNION {PartBytes(k, p) : p \in Parts(k)}
BY DEF DiskImage, PartBytes

\* Runs that carry each projection once bring each expert its bytes, in as many slices.
LEMMA RunsBring ==
    ASSUME NEW S \in SUBSET Keys
    PROVE  RunsCarryTheBytes(S, RunsOf[S])
<1> DEFINE rs == RunsOf[S]
<1>1. RunsCarry(S)
  BY RunsExact
<1>2. rs \in Seq(Runs)
  BY <1>1 DEF RunsCarry
<1> HIDE DEF rs
<1>3. ASSUME NEW k \in S
      PROVE  /\ Cardinality(SlicesFor(k, rs)) = Cardinality(Parts(k))
             /\ UNION {SliceBytes(rs[ri[1]], rs[ri[1]].slices[ri[2]]) : ri \in SlicesFor(k, rs)}
                = DiskImage[k]
  <2> DEFINE EndsAt(ri, p) == Carries(rs[ri[1]], ri[2], k, p)
             f == [p \in Parts(k) |-> CHOOSE ri \in SlicesFor(k, rs) : EndsAt(ri, p)]
  <2>1. \A ri : ri \in SlicesFor(k, rs) <=>
            \E r \in DOMAIN rs : \E i \in DOMAIN rs[r].slices :
                ri = <<r, i>> /\ rs[r].slices[i].key = k
    BY DEF SlicesFor
  <2>2. \A ri \in SlicesFor(k, rs) : \E p \in Parts(k) : EndsAt(ri, p)
    <3>1. ASSUME NEW ri \in SlicesFor(k, rs)
          PROVE  \E p \in Parts(k) : EndsAt(ri, p)
      <4>1. PICK r \in DOMAIN rs : \E i \in DOMAIN rs[r].slices :
                ri = <<r, i>> /\ rs[r].slices[i].key = k
        BY <2>1, <3>1
      <4> PICK i \in DOMAIN rs[r].slices : ri = <<r, i>> /\ rs[r].slices[i].key = k
        BY <4>1
      <4>2. PICK l \in S : \E p \in Parts(l) : Carries(rs[r], i, l, p)
        BY <1>1 DEF RunsCarry, rs
      <4>3. l = k
        BY <4>2 DEF Carries
      <4>4. QED
        BY <4>2, <4>3
    <3>2. QED
      BY <3>1
  <2>3. \A p \in Parts(k) : \E ri \in SlicesFor(k, rs) : EndsAt(ri, p)
    <3>1. ASSUME NEW p \in Parts(k)
          PROVE  \E ri \in SlicesFor(k, rs) : EndsAt(ri, p)
      <4>1. PICK r \in DOMAIN rs : \E i \in DOMAIN rs[r].slices : Carries(rs[r], i, k, p)
        BY <1>1, <3>1 DEF RunsCarry, rs
      <4>2. PICK i \in DOMAIN rs[r].slices : Carries(rs[r], i, k, p)
        BY <4>1
      <4>3. rs[r].slices[i].key = k
        BY <4>2 DEF Carries
      <4>4. <<r, i>> \in SlicesFor(k, rs)
        BY <2>1, <4>3
      <4>5. QED
        BY <4>2, <4>4
    <3>2. QED
      BY <3>1
  <2>4. \A ri, rj \in SlicesFor(k, rs) : \A p \in Parts(k) : EndsAt(ri, p) /\ EndsAt(rj, p) => ri = rj
    <3>1. ASSUME NEW ri \in SlicesFor(k, rs), NEW rj \in SlicesFor(k, rs), NEW p \in Parts(k),
                 EndsAt(ri, p), EndsAt(rj, p)
          PROVE  ri = rj
      <4>1. PICK r \in DOMAIN rs : \E i \in DOMAIN rs[r].slices : ri = <<r, i>>
        BY <2>1
      <4> PICK i \in DOMAIN rs[r].slices : ri = <<r, i>>
        BY <4>1
      <4>2. PICK t \in DOMAIN rs : \E j \in DOMAIN rs[t].slices : rj = <<t, j>>
        BY <2>1
      <4> PICK j \in DOMAIN rs[t].slices : rj = <<t, j>>
        BY <4>2
      <4>3. Carries(rs[r], i, k, p) /\ Carries(rs[t], j, k, p)
        BY <3>1
      <4>4. r = t /\ i = j
        BY <1>1, <4>3 DEF RunsCarry, rs
      <4>5. QED
        BY <4>4
    <3>2. QED
      BY <3>1
  <2>5. \A ri : \A p, q \in Parts(k) : EndsAt(ri, p) /\ EndsAt(ri, q) => p = q
    <3>1. ASSUME NEW ri, NEW p \in Parts(k), NEW q \in Parts(k), EndsAt(ri, p), EndsAt(ri, q)
          PROVE  p = q
      <4>1. Dest(k, p) = Dest(k, q)
        BY <3>1 DEF Carries
      <4>2. QED
        BY <4>1, DestsDiffer
    <3>2. QED
      BY <3>1
  <2>6. ASSUME NEW ri \in SlicesFor(k, rs), NEW p \in Parts(k), EndsAt(ri, p)
        PROVE  SliceBytes(rs[ri[1]], rs[ri[1]].slices[ri[2]]) = PartBytes(k, p)
    BY <2>6 DEF SliceBytes, PartBytes, Carries
  <2> HIDE DEF EndsAt
  <2>7. \A p \in Parts(k) : f[p] \in SlicesFor(k, rs) /\ EndsAt(f[p], p)
    BY <2>3
  <2>8. ExistsBijection(Parts(k), SlicesFor(k, rs))
    <3>1. f \in [Parts(k) -> SlicesFor(k, rs)]
      BY <2>7
    <3>2. \A p, q \in Parts(k) : f[p] = f[q] => p = q
      BY <2>5, <2>7
    <3>3. \A ri \in SlicesFor(k, rs) : \E p \in Parts(k) : f[p] = ri
      BY <2>2, <2>4, <2>7
    <3>4. QED
      BY <3>1, <3>2, <3>3 DEF ExistsBijection, Bijection, Injection, Surjection, IsInjective
  <2> HIDE DEF f
  <2>9. Cardinality(SlicesFor(k, rs)) = Cardinality(Parts(k))
    <3>1. IsFiniteSet(Parts(k))
      BY PartsAreFinite
    <3>2. QED
      BY <2>8, <3>1, FS_Bijection
  <2>10. UNION {SliceBytes(rs[ri[1]], rs[ri[1]].slices[ri[2]]) : ri \in SlicesFor(k, rs)}
         = UNION {PartBytes(k, p) : p \in Parts(k)}
    BY <2>2, <2>3, <2>6
  <2>11. QED
    BY <2>9, <2>10, ImageOfParts
<1>4. QED
  BY <1>3 DEF RunsCarryTheBytes, rs

\* Whatever experts are in it, the reads of a batch are exact.
LEMMA EveryBatchIsExact ==
    ASSUME NEW S \in SUBSET Keys
    PROVE  BatchIsExact(S)
BY RunsBring, RunsSweep DEF BatchIsExact

(***************************************************************************)
(* For any experts, wherever their projections are, the merged reads bring *)
(* each of them the bytes the synchronous copy brings, in as many slices   *)
(* as the callback counts down; no slice is copied from outside its read;  *)
(* and each shard is read in one upward sweep, in reads too far apart to   *)
(* have been one.                                                          *)
(***************************************************************************)
THEOREM ReadsExact == BatchSpec => []ReadsAreExact
<1> DEFINE IsBatch == batch \in SUBSET Keys
<1>1. NoBatch => IsBatch
  BY DEF NoBatch
<1>2. IsBatch /\ [\E k \in Keys : AddToBatch(k)]_batch => IsBatch'
  BY DEF AddToBatch
<1>3. IsBatch => ReadsAreExact
  BY EveryBatchIsExact DEF ReadsAreExact
<1>4. QED
  BY <1>1, <1>2, <1>3, PTL DEF BatchSpec

-----------------------------------------------------------------------------
\* the runs whose slices are all due
Pending == Range(runs) \cup reads

\* the first slice of a callback that is not counted yet
Uncounted(c) == IF c.at \in {"copy", "count"} THEN c.slice ELSE c.slice + 1

\* slices not counted yet, each with its run: of pending runs, and in callbacks
Waiting == UNION {{r} \X DOMAIN r.slices : r \in Pending}
InHand == UNION {{c.run} \X (Uncounted(c)..Len(c.run.slices)) : c \in calls}
Due == Waiting \cup InHand

\* the projections of k copied by a callback that has not counted them
Copied(k) ==
    {p \in Parts(k) : \E c \in calls : c.at = "count" /\ Carries(c.run, c.slice, k, p)}

DueParts(k) == {p \in Parts(k) : \E d \in Due : Carries(d[1], d[2], k, p)}

\* a callback is putting k in the cache
Lands(k) == \E c \in calls : c.at \in {"insert", "erase"} /\ KeyOf(c) = k

\* `counted` are the projections the counter of k has seen
Assembles(k, counted) ==
    /\ counted # Parts(k)
    /\ counted \cap DueParts(k) = {}
    /\ remaining[k] = Cardinality(Parts(k) \ counted)
    /\ filled[k] = UNION {PartBytes(k, p) : p \in counted \cup Copied(k)}
    /\ ~faulty => Parts(k) \subseteq counted \cup DueParts(k)

CacheTypes ==
    /\ capacity \in Capacities
    /\ pinned \subseteq resident /\ resident \subseteq Keys

FlightTypes ==
    /\ inFlight \subseteq Keys
    /\ filled \in [Keys -> SUBSET (Int \X Int \X Int)]
    /\ remaining \in [Keys -> Nat]
    /\ runs \in Seq(Runs)
    /\ reads \subseteq Runs
    /\ calls \subseteq [run : Runs, slice : Nat, at : {"copy", "count", "insert", "erase"}]
    /\ \A c \in calls : c.slice \in DOMAIN c.run.slices
    /\ faulty \in BOOLEAN

ThreadTypes ==
    /\ pc \in {"idle", "ahead", "look", "lookFlight", "lookAgain", "submit", "probe",
               "probeFlight", "reprobe", "reprobeFlight", "wait", "sync", "put", "pin", "served"}
    /\ want \in Keys \cup {NoKey}
    /\ todo \in Seq(Keys)
    /\ chosen \subseteq Keys

\* where the generation thread is, and what it holds there
Control ==
    /\ pc \in {"probe", "probeFlight", "reprobe", "reprobeFlight", "wait", "sync", "put", "pin",
               "served"} => want \in Keys
    /\ pc \in {"ahead", "lookFlight", "lookAgain"} => todo # <<>>
    /\ pc \notin {"look", "lookFlight", "lookAgain", "submit"} => chosen = {}
    /\ pc # "submit" => runs = <<>>
    /\ pc \in {"look", "lookFlight", "lookAgain"} => chosen \cap (resident \cup inFlight) = {}
    /\ pc = "lookAgain" => Head(todo) \notin inFlight
    /\ pc \in {"put", "pin", "served"} => scratch = DiskImage[want]

\* a run is in one place
RunsApart ==
    /\ \A n, m \in DOMAIN runs : runs[n] = runs[m] => n = m
    /\ Range(runs) \cap reads = {}
    /\ \A c \in calls : c.run \notin Pending
    /\ \A c, d \in calls : c.run = d.run => c = d

\* due slices
DueSlices ==
    /\ \A r \in Pending : r.slices # <<>>
    /\ \A d \in Due : d[1].slices[d[2]].key \in inFlight
    /\ \A d \in Due : \E k \in Keys : \E p \in Parts(k) : Carries(d[1], d[2], k, p)
    /\ \A d, e \in Due : \A k \in Keys : \A p \in Parts(k) :
        Carries(d[1], d[2], k, p) /\ Carries(e[1], e[2], k, p) => d = e

Landings ==
    /\ \A c \in calls : KeyOf(c) \in inFlight
    /\ \A c, d \in calls :
        /\ c.at \in {"insert", "erase"} /\ d.at \in {"insert", "erase"} /\ KeyOf(c) = KeyOf(d)
        => c = d
    /\ \A c \in calls : c.at \in {"insert", "erase"} =>
        \A d \in Due : d[1].slices[d[2]].key # KeyOf(c)
    /\ \A c \in calls : c.at = "insert" => filled[KeyOf(c)] = DiskImage[KeyOf(c)]
    /\ \A c \in calls : c.at = "erase" /\ Ample => KeyOf(c) \in resident

Assembly ==
    /\ \A k \in Keys : k \notin inFlight \/ Lands(k) => remaining[k] = 0
    /\ \A k \in inFlight : Lands(k) \/ \E counted \in SUBSET Parts(k) : Assembles(k, counted)

CacheHoldsDisk == \A k \in resident : content[k] = DiskImage[k]

IInv ==
    /\ CacheTypes
    /\ FlightTypes
    /\ ThreadTypes
    /\ Control
    /\ RunsApart
    /\ DueSlices
    /\ Landings
    /\ Assembly
    /\ CacheHoldsDisk
    /\ AwaitedIsComing

-----------------------------------------------------------------------------
\* Copying a slice writes triples of buffer position, shard and file position.
LEMMA SliceBytesType ==
    ASSUME NEW r \in Runs, NEW i \in DOMAIN r.slices
    PROVE  SliceBytes(r, r.slices[i]) \in SUBSET (Int \X Int \X Int)
  <1> DEFINE s == r.slices[i]
  <1>1. r.slices \in Seq(Slices) /\ r.shard \in Int /\ r.start \in Int
    BY DEF Runs
  <1>2. s \in Slices
    BY <1>1
  <1>3. s.dest \in Int /\ s.from \in Int
    BY <1>2 DEF Slices
  <1> HIDE DEF s
  <1>4. \A n \in 0..(s.size - 1) :
            <<s.dest + n, r.shard, r.start + s.from + n>> \in Int \X Int \X Int
    BY <1>1, <1>3
  <1>5. SliceBytes(r, s) \in SUBSET (Int \X Int \X Int)
    BY <1>4 DEF SliceBytes
  <1>6. QED
    BY <1>5 DEF s

\* A slice carries the bytes of the projection it stands for.
LEMMA SliceIsPart ==
    ASSUME NEW r, NEW i, NEW k, NEW p, Carries(r, i, k, p)
    PROVE  SliceBytes(r, r.slices[i]) = PartBytes(k, p)
  BY DEF Carries, SliceBytes, PartBytes

DueView ==
    /\ \A r, i : <<r, i>> \in Due <=>
        \/ r \in Pending /\ i \in DOMAIN r.slices
        \/ \E c \in calls : c.run = r /\ i \in Uncounted(c)..Len(r.slices)
    /\ \A d \in Due : d = <<d[1], d[2]>>

\* The pairs of Due are the slices of pending runs, and those a callback has not counted.
LEMMA DueIs == DueView
  <1>1. ASSUME NEW r, NEW i
        PROVE  <<r, i>> \in Waiting <=> r \in Pending /\ i \in DOMAIN r.slices
    BY DEF Waiting
  <1>2. ASSUME NEW r, NEW i
        PROVE  <<r, i>> \in InHand <=>
                 \E c \in calls : c.run = r /\ i \in Uncounted(c)..Len(r.slices)
    BY DEF InHand
  <1>3. \A d \in Waiting : d = <<d[1], d[2]>>
    BY DEF Waiting
  <1>4. \A d \in InHand : d = <<d[1], d[2]>>
    BY DEF InHand
  <1>5. QED
    BY <1>1, <1>2, <1>3, <1>4 DEF Due, DueView

\* The same of the next state.
LEMMA DueIsNext == DueView'
  BY DueIs, PTL

\* A step that moves no run leaves the same slices due.
LEMMA DueStays ==
    ASSUME calls' = calls, Pending' = Pending
    PROVE  Due' = Due
  BY DEF Due, Waiting, InHand, Uncounted

\* A callback that goes on within its slice, or from the end of one to the next.
LEMMA DueMoves ==
    ASSUME NEW c \in calls, NEW d, d.run = c.run, Uncounted(d) = Uncounted(c),
           calls' = (calls \ {c}) \cup {d}, Pending' = Pending
    PROVE  Due' = Due
  <1>1. Waiting' = Waiting
    BY DEF Waiting
  <1>2. \A x : (\E b \in calls' : x \in {b.run} \X (Uncounted(b)..Len(b.run.slices)))
             <=> \E b \in calls : x \in {b.run} \X (Uncounted(b)..Len(b.run.slices))
    <2> DEFINE W(b) == {b.run} \X (Uncounted(b)..Len(b.run.slices))
    <2>1. W(d) = W(c)
      OBVIOUS
    <2> HIDE DEF W
    <2>2. \A x : (\E b \in calls' : x \in W(b)) <=> \E b \in calls : x \in W(b)
      BY <2>1
    <2>3. QED
      BY <2>2 DEF W
  <1>3. InHand' = InHand
    BY <1>2 DEF InHand, Uncounted
  <1>4. QED
    BY <1>1, <1>3 DEF Due

\* The buffer the synchronous copy fills is made of the bytes of the parts.
LEMMA ImageIsParts ==
    \A k \in Keys : DiskImage[k] = UNION {PartBytes(k, p) : p \in Parts(k)}
  BY DEF DiskImage, PartBytes

\* The initial states satisfy the invariant.
LEMMA InitEstablishes == Init => IInv
  <1> SUFFICES ASSUME Init PROVE IInv
    OBVIOUS
  <1> USE DEF Init, Cache!Init
  <1>1. CacheTypes /\ FlightTypes /\ ThreadTypes
    BY FaultsAreBoolean DEF CacheTypes, FlightTypes, ThreadTypes
  <1>2. Control
    BY DEF Control
  <1>3. RunsApart
    BY DEF RunsApart, Range
  <1>4. Due = {}
    BY DEF Due, Waiting, InHand, Pending, Range
  <1>5. DueSlices
    BY <1>4 DEF DueSlices, Pending, Range
  <1>6. Landings
    BY DEF Landings
  <1>7. Assembly
    BY DEF Assembly
  <1>8. CacheHoldsDisk /\ AwaitedIsComing
    BY DEF CacheHoldsDisk, AwaitedIsComing
  <1>9. QED
    BY <1>1, <1>2, <1>3, <1>5, <1>6, <1>7, <1>8 DEF IInv

-----------------------------------------------------------------------------
flightVars == <<capacity, inFlight, filled, remaining, reads, calls, runs, faulty>>

\* A step that touches neither the reads, the callbacks nor the assembly buffers keeps
\* what the invariant says of them.
LEMMA FlightKept ==
    ASSUME IInv, UNCHANGED flightVars, Ample => resident \subseteq resident'
    PROVE  FlightTypes' /\ RunsApart' /\ DueSlices' /\ Landings' /\ Assembly'
  <1> USE DEF flightVars
  <1>1. Pending' = Pending
    BY DEF Pending
  <1>2. Due' = Due
    BY <1>1, DueStays
  <1>3. FlightTypes'
    BY DEF FlightTypes, IInv
  <1>4. RunsApart'
    BY <1>1 DEF RunsApart, IInv
  <1>5. DueSlices'
    BY <1>1, <1>2 DEF DueSlices, IInv
  <1>6. Landings'
    <2>1. Ample' => Ample
      BY DEF Ample
    <2>2. QED
      BY <1>2, <2>1 DEF Landings, IInv, KeyOf, SliceOf
  <1>7. Assembly'
    <2>1. \A k : Lands(k)' <=> Lands(k)
      BY DEF Lands, KeyOf, SliceOf
    <2>2. \A k : DueParts(k)' = DueParts(k)
      BY <1>2 DEF DueParts
    <2>3. \A k : Copied(k)' = Copied(k)
      BY DEF Copied
    <2>4. \A k, counted : Assembles(k, counted) => Assembles(k, counted)'
      BY <2>2, <2>3 DEF Assembles
    <2>5. QED
      BY <2>1, <2>4 DEF Assembly, IInv
  <1>8. QED
    BY <1>3, <1>4, <1>5, <1>6, <1>7

\* a step of the generation thread alone
Quiet == UNCHANGED <<cacheVars, content, flightVars>>

\* A step of the compute thread alone has only its own part of the invariant to keep.
LEMMA QuietKeeps ==
    ASSUME IInv, Quiet, ThreadTypes', Control', AwaitedIsComing'
    PROVE  IInv'
  <1>1. UNCHANGED <<capacity, resident, pinned, content>> /\ UNCHANGED flightVars
    BY DEF Quiet, cacheVars
  <1>2. FlightTypes' /\ RunsApart' /\ DueSlices' /\ Landings' /\ Assembly'
    BY <1>1, FlightKept
  <1>3. CacheTypes' /\ CacheHoldsDisk'
    BY <1>1 DEF CacheTypes, CacheHoldsDisk, IInv
  <1>4. QED
    BY <1>2, <1>3 DEF IInv
\* onLayerRouterDone() staging a batch.
LEMMA StageKeeps ==
    ASSUME IInv, NEW b \in Batches, NEW demand \in BOOLEAN, Stage(b, demand)
    PROVE  IInv'
  <1> USE DEF Stage
  <1>1. Quiet
    BY DEF Quiet, cacheVars, flightVars, asmVars, ioVars
  <1>2. UNCHANGED <<capacity, resident, content, inFlight, runs>>
    BY <1>1 DEF Quiet, cacheVars, flightVars
  <1>3. ThreadTypes'
    BY BatchesAreKeys DEF ThreadTypes, Control, IInv
  <1>4. Control'
    BY <1>2 DEF Control, ThreadTypes, CacheTypes, CacheHoldsDisk, IInv
  <1>5. AwaitedIsComing'
    BY <1>2 DEF AwaitedIsComing, Ample, IInv
  <1>6. QED
    BY <1>1, <1>3, <1>4, <1>5, QuietKeeps

\* prefetchExpert() asking whether the expert is in flight.
LEMMA PrefetchExpertKeeps ==
    ASSUME IInv, NEW k \in Keys, PrefetchExpert(k)
    PROVE  IInv'
  <1> USE DEF PrefetchExpert
  <1>1. Quiet
    BY DEF Quiet, cacheVars, flightVars, asmVars, ioVars
  <1>2. UNCHANGED <<capacity, resident, content, inFlight, runs>>
    BY <1>1 DEF Quiet, cacheVars, flightVars
  <1>3. ThreadTypes'
    BY DEF ThreadTypes, Control, IInv
  <1>4. Control'
    BY <1>2 DEF Control, ThreadTypes, CacheTypes, CacheHoldsDisk, IInv
  <1>5. AwaitedIsComing'
    BY <1>2 DEF AwaitedIsComing, Ample, IInv
  <1>6. QED
    BY <1>1, <1>3, <1>4, <1>5, QuietKeeps

\* prefetchExpert() asking whether it is resident.
LEMMA PrefetchExpertStagesKeeps ==
    ASSUME IInv, PrefetchExpertStages
    PROVE  IInv'
  <1> USE DEF PrefetchExpertStages
  <1>1. Quiet
    BY DEF Quiet, cacheVars, flightVars, asmVars, ioVars
  <1>2. UNCHANGED <<capacity, resident, content, inFlight, runs>>
    BY <1>1 DEF Quiet, cacheVars, flightVars
  <1>3. AwaitedIsComing'
    BY <1>2 DEF AwaitedIsComing, Ample, IInv
  <1>4. CASE Head(todo) \in resident
    <2>1. ThreadTypes'
      BY <1>4 DEF ThreadTypes, Control, IInv
    <2>2. Control'
      BY <1>2, <1>4 DEF Control, ThreadTypes, CacheTypes, CacheHoldsDisk, IInv
    <2>3. QED
      BY <1>1, <1>3, <2>1, <2>2, QuietKeeps
  <1>5. CASE Head(todo) \notin resident
    <2>1. ThreadTypes'
      BY <1>5 DEF ThreadTypes, Control, IInv
    <2>2. Control'
      BY <1>2, <1>5 DEF Control, ThreadTypes, CacheTypes, CacheHoldsDisk, IInv
    <2>3. QED
      BY <1>1, <1>3, <2>1, <2>2, QuietKeeps
  <1>6. QED
    BY <1>4, <1>5

\* prefetchAsync() asking the cache for the next key of the batch.
LEMMA LookKeeps ==
    ASSUME IInv, Look
    PROVE  IInv'
  <1> USE DEF Look
  <1>1. Quiet
    BY DEF Quiet, cacheVars, flightVars, asmVars, ioVars
  <1>2. UNCHANGED <<capacity, resident, content, inFlight, runs>>
    BY <1>1 DEF Quiet, cacheVars, flightVars
  <1>3. AwaitedIsComing'
    BY <1>2 DEF AwaitedIsComing, Ample, IInv
  <1>4. CASE Head(todo) \in resident
    <2>1. ThreadTypes'
      BY <1>4 DEF ThreadTypes, Control, IInv
    <2>2. Control'
      BY <1>2, <1>4 DEF Control, ThreadTypes, CacheTypes, CacheHoldsDisk, IInv
    <2>3. QED
      BY <1>1, <1>3, <2>1, <2>2, QuietKeeps
  <1>5. CASE Head(todo) \notin resident
    <2>1. ThreadTypes'
      BY <1>5 DEF ThreadTypes, Control, IInv
    <2>2. Control'
      BY <1>2, <1>5 DEF Control, ThreadTypes, CacheTypes, CacheHoldsDisk, IInv
    <2>3. QED
      BY <1>1, <1>3, <2>1, <2>2, QuietKeeps
  <1>6. QED
    BY <1>4, <1>5

\* prefetchAsync() asking the in-flight set for it.
LEMMA LookFlightKeeps ==
    ASSUME IInv, LookFlight
    PROVE  IInv'
  <1> USE DEF LookFlight
  <1>1. Quiet
    BY DEF Quiet, cacheVars, flightVars, asmVars, ioVars
  <1>2. UNCHANGED <<capacity, resident, content, inFlight, runs>>
    BY <1>1 DEF Quiet, cacheVars, flightVars
  <1>3. AwaitedIsComing'
    BY <1>2 DEF AwaitedIsComing, Ample, IInv
  <1>4. CASE Head(todo) \in inFlight
    <2>1. ThreadTypes'
      BY <1>4 DEF ThreadTypes, Control, IInv
    <2>2. Control'
      BY <1>2, <1>4 DEF Control, ThreadTypes, CacheTypes, CacheHoldsDisk, IInv
    <2>3. QED
      BY <1>1, <1>3, <2>1, <2>2, QuietKeeps
  <1>5. CASE Head(todo) \notin inFlight
    <2>1. ThreadTypes'
      BY <1>5 DEF ThreadTypes, Control, IInv
    <2>2. Control'
      BY <1>2, <1>5 DEF Control, ThreadTypes, CacheTypes, CacheHoldsDisk, IInv
    <2>3. QED
      BY <1>1, <1>3, <2>1, <2>2, QuietKeeps
  <1>6. QED
    BY <1>4, <1>5

\* prefetchAsync() asking the cache once more.
LEMMA LookAgainKeeps ==
    ASSUME IInv, LookAgain
    PROVE  IInv'
  <1> USE DEF LookAgain
  <1>1. Quiet
    BY DEF Quiet, cacheVars, flightVars, asmVars, ioVars
  <1>2. UNCHANGED <<capacity, resident, content, inFlight, runs>>
    BY <1>1 DEF Quiet, cacheVars, flightVars
  <1>3. ThreadTypes'
    BY DEF ThreadTypes, Control, IInv
  <1>4. Control'
    BY <1>2 DEF Control, ThreadTypes, CacheTypes, CacheHoldsDisk, IInv
  <1>5. AwaitedIsComing'
    BY <1>2 DEF AwaitedIsComing, Ample, IInv
  <1>6. QED
    BY <1>1, <1>3, <1>4, <1>5, QuietKeeps

\* prefetchAsync() returning.
LEMMA StageReturnsKeeps ==
    ASSUME IInv, StageReturns
    PROVE  IInv'
  <1> USE DEF StageReturns, Return
  <1>1. Quiet
    BY DEF Quiet, cacheVars, flightVars, asmVars, ioVars
  <1>2. UNCHANGED <<capacity, resident, content, inFlight, runs>>
    BY <1>1 DEF Quiet, cacheVars, flightVars
  <1>3. ThreadTypes'
    BY DEF ThreadTypes, Control, IInv
  <1>4. Control'
    BY <1>2 DEF Control, ThreadTypes, CacheTypes, CacheHoldsDisk, IInv
  <1>5. AwaitedIsComing'
    BY <1>2 DEF AwaitedIsComing, Ample, IInv
  <1>6. QED
    BY <1>1, <1>3, <1>4, <1>5, QuietKeeps

\* A getter hitting or missing the cache.
LEMMA GetKeeps ==
    ASSUME IInv, NEW k \in Keys, Get(k)
    PROVE  IInv'
  <1> USE DEF Get, Serve
  <1>1. Quiet
    BY DEF Quiet, cacheVars, flightVars, asmVars, ioVars
  <1>2. UNCHANGED <<capacity, resident, content, inFlight, runs>>
    BY <1>1 DEF Quiet, cacheVars, flightVars
  <1>3. AwaitedIsComing'
    BY <1>2 DEF AwaitedIsComing, Ample, IInv
  <1>4. CASE k \in resident
    <2>1. ThreadTypes'
      BY <1>4 DEF ThreadTypes, Control, IInv
    <2>2. Control'
      BY <1>2, <1>4 DEF Control, ThreadTypes, CacheTypes, CacheHoldsDisk, IInv
    <2>3. QED
      BY <1>1, <1>3, <2>1, <2>2, QuietKeeps
  <1>5. CASE k \notin resident
    <2>1. ThreadTypes'
      BY <1>5 DEF ThreadTypes, Control, IInv
    <2>2. Control'
      BY <1>2, <1>5 DEF Control, ThreadTypes, CacheTypes, CacheHoldsDisk, IInv
    <2>3. QED
      BY <1>1, <1>3, <2>1, <2>2, QuietKeeps
  <1>6. QED
    BY <1>4, <1>5

\* probe() asking the cache.
LEMMA ProbeKeeps ==
    ASSUME IInv, Probe
    PROVE  IInv'
  <1> USE DEF Probe, genVars
  <1>1. Quiet
    BY DEF Quiet, cacheVars, flightVars, asmVars, ioVars
  <1>2. UNCHANGED <<capacity, resident, content, inFlight, runs>>
    BY <1>1 DEF Quiet, cacheVars, flightVars
  <1>3. ThreadTypes'
    BY DEF ThreadTypes, Control, IInv
  <1>4. Control'
    BY <1>2 DEF Control, ThreadTypes, CacheTypes, CacheHoldsDisk, IInv
  <1>5. AwaitedIsComing'
    BY <1>2 DEF AwaitedIsComing, Ample, IInv
  <1>6. QED
    BY <1>1, <1>3, <1>4, <1>5, QuietKeeps

\* probe() asking the in-flight set.
LEMMA ProbeFlightKeeps ==
    ASSUME IInv, ProbeFlight
    PROVE  IInv'
  <1> USE DEF ProbeFlight
  <1>1. Quiet
    BY DEF Quiet, cacheVars, flightVars, asmVars, ioVars
  <1>2. UNCHANGED <<capacity, resident, content, inFlight, runs>>
    BY <1>1 DEF Quiet, cacheVars, flightVars
  <1>3. AwaitedIsComing'
    BY <1>2 DEF AwaitedIsComing, Ample, IInv
  <1>4. CASE want \in inFlight
    <2>1. ThreadTypes'
      BY <1>4 DEF ThreadTypes, Control, IInv
    <2>2. Control'
      BY <1>2, <1>4 DEF Control, ThreadTypes, CacheTypes, CacheHoldsDisk, IInv
    <2>3. QED
      BY <1>1, <1>3, <2>1, <2>2, QuietKeeps
  <1>5. CASE want \notin inFlight
    <2>1. ThreadTypes'
      <3>1. want \in Keys
        BY DEF Control, IInv
      <3>2. <<want>> \in Seq(Keys)
        BY <3>1
      <3>3. QED
        BY <1>5, <3>2 DEF ThreadTypes, IInv
    <2>2. Control'
      BY <1>2, <1>5 DEF Control, ThreadTypes, CacheTypes, CacheHoldsDisk, IInv
    <2>3. QED
      BY <1>1, <1>3, <2>1, <2>2, QuietKeeps
  <1>6. QED
    BY <1>4, <1>5

\* The second probe() asking the cache.
LEMMA ReprobeKeeps ==
    ASSUME IInv, Reprobe
    PROVE  IInv'
  <1> USE DEF Reprobe, genVars
  <1>1. Quiet
    BY DEF Quiet, cacheVars, flightVars, asmVars, ioVars
  <1>2. UNCHANGED <<capacity, resident, content, inFlight, runs>>
    BY <1>1 DEF Quiet, cacheVars, flightVars
  <1>3. ThreadTypes'
    BY DEF ThreadTypes, Control, IInv
  <1>4. Control'
    BY <1>2 DEF Control, ThreadTypes, CacheTypes, CacheHoldsDisk, IInv
  <1>5. AwaitedIsComing'
    BY <1>2 DEF AwaitedIsComing, Ample, IInv
  <1>6. QED
    BY <1>1, <1>3, <1>4, <1>5, QuietKeeps

\* The second probe() asking the in-flight set.
LEMMA ReprobeFlightKeeps ==
    ASSUME IInv, ReprobeFlight
    PROVE  IInv'
  <1> USE DEF ReprobeFlight, genVars
  <1>1. Quiet
    BY DEF Quiet, cacheVars, flightVars, asmVars, ioVars
  <1>2. UNCHANGED <<capacity, resident, content, inFlight, runs>>
    BY <1>1 DEF Quiet, cacheVars, flightVars
  <1>3. ThreadTypes'
    BY DEF ThreadTypes, Control, IInv
  <1>4. Control'
    BY <1>2 DEF Control, ThreadTypes, CacheTypes, CacheHoldsDisk, IInv
  <1>5. AwaitedIsComing'
    BY <1>2 DEF AwaitedIsComing, Ample, IInv
  <1>6. QED
    BY <1>1, <1>3, <1>4, <1>5, QuietKeeps

\* A getter finding what it waited for.
LEMMA PollKeeps ==
    ASSUME IInv, Poll
    PROVE  IInv'
  <1> USE DEF Poll, Serve
  <1>1. Quiet
    BY DEF Quiet, cacheVars, flightVars, asmVars, ioVars
  <1>2. UNCHANGED <<capacity, resident, content, inFlight, runs>>
    BY <1>1 DEF Quiet, cacheVars, flightVars
  <1>3. ThreadTypes'
    BY DEF ThreadTypes, Control, IInv
  <1>4. Control'
    BY <1>2 DEF Control, ThreadTypes, CacheTypes, CacheHoldsDisk, IInv
  <1>5. AwaitedIsComing'
    BY <1>2 DEF AwaitedIsComing, Ample, IInv
  <1>6. QED
    BY <1>1, <1>3, <1>4, <1>5, QuietKeeps

\* A getter giving up its wait.
LEMMA DeadlineKeeps ==
    ASSUME IInv, Deadline
    PROVE  IInv'
  <1> USE DEF Deadline, genVars
  <1>1. Quiet
    BY DEF Quiet, cacheVars, flightVars, asmVars, ioVars
  <1>2. UNCHANGED <<capacity, resident, content, inFlight, runs>>
    BY <1>1 DEF Quiet, cacheVars, flightVars
  <1>3. ThreadTypes'
    BY DEF ThreadTypes, Control, IInv
  <1>4. Control'
    BY <1>2 DEF Control, ThreadTypes, CacheTypes, CacheHoldsDisk, IInv
  <1>5. AwaitedIsComing'
    BY <1>2 DEF AwaitedIsComing, Ample, IInv
  <1>6. QED
    BY <1>1, <1>3, <1>4, <1>5, QuietKeeps

\* The synchronous read of the whole expert.
LEMMA SyncLoadKeeps ==
    ASSUME IInv, SyncLoad
    PROVE  IInv'
  <1> USE DEF SyncLoad
  <1>1. Quiet
    BY DEF Quiet, cacheVars, flightVars, asmVars, ioVars
  <1>2. UNCHANGED <<capacity, resident, content, inFlight, runs>>
    BY <1>1 DEF Quiet, cacheVars, flightVars
  <1>3. ThreadTypes'
    BY DEF ThreadTypes, Control, IInv
  <1>4. Control'
    BY <1>2 DEF Control, ThreadTypes, CacheTypes, CacheHoldsDisk, IInv
  <1>5. AwaitedIsComing'
    BY <1>2 DEF AwaitedIsComing, Ample, IInv
  <1>6. QED
    BY <1>1, <1>3, <1>4, <1>5, QuietKeeps

\* The synchronous read failing.
LEMMA SyncFailsKeeps ==
    ASSUME IInv, SyncFails
    PROVE  IInv'
  <1> USE DEF SyncFails
  <1>1. Quiet
    BY DEF Quiet, cacheVars, flightVars, asmVars, ioVars
  <1>2. UNCHANGED <<capacity, resident, content, inFlight, runs>>
    BY <1>1 DEF Quiet, cacheVars, flightVars
  <1>3. ThreadTypes'
    BY DEF ThreadTypes, Control, IInv
  <1>4. Control'
    BY <1>2 DEF Control, ThreadTypes, CacheTypes, CacheHoldsDisk, IInv
  <1>5. AwaitedIsComing'
    BY <1>2 DEF AwaitedIsComing, Ample, IInv
  <1>6. QED
    BY <1>1, <1>3, <1>4, <1>5, QuietKeeps

\* The forward pass having used the bytes.
LEMMA ConsumeKeeps ==
    ASSUME IInv, Consume
    PROVE  IInv'
  <1> USE DEF Consume
  <1>1. Quiet
    BY DEF Quiet, cacheVars, flightVars, asmVars, ioVars
  <1>2. UNCHANGED <<capacity, resident, content, inFlight, runs>>
    BY <1>1 DEF Quiet, cacheVars, flightVars
  <1>3. ThreadTypes'
    BY DEF ThreadTypes, Control, IInv
  <1>4. Control'
    BY <1>2 DEF Control, ThreadTypes, CacheTypes, CacheHoldsDisk, IInv
  <1>5. AwaitedIsComing'
    BY <1>2 DEF AwaitedIsComing, Ample, IInv
  <1>6. QED
    BY <1>1, <1>3, <1>4, <1>5, QuietKeeps

-----------------------------------------------------------------------------
\* Fewer experts take fewer bytes.
LEMMA BytesWithin ==
    ASSUME NEW S \in SUBSET Keys
    PROVE  /\ Cache!Bytes(S) \in Nat /\ Cache!Bytes(Keys) \in Nat
           /\ Cache!Bytes(S) <= Cache!Bytes(Keys)
<1>1. \A k \in Keys : SizeOf[k] \in Nat
  BY TotalIsNat DEF SizeOf
<1>2. /\ SumFunctionOnSet(SizeOf, S) \in Nat /\ SumFunctionOnSet(SizeOf, Keys) \in Nat
      /\ SumFunctionOnSet(SizeOf, S) <= SumFunctionOnSet(SizeOf, Keys)
  BY <1>1, KeysAreFinite, SumGrows
<1>3. Cache!Bytes(S) = SumFunctionOnSet(SizeOf, S) /\ Cache!Bytes(Keys) = SumFunctionOnSet(SizeOf, Keys)
  BY DEF Cache!Bytes, Cache!SumFunctionOnSet, Cache!FoldFunctionOnSet, Cache!MapThenFoldSet,
         SumFunctionOnSet, FoldFunctionOnSet, MapThenFoldSet
<1>4. QED
  BY <1>2, <1>3

\* Storing the bytes of the disk keeps the cache a copy of it, and evicts nothing while the
\* capacity is ample.
LEMMA StoreKeeps ==
    ASSUME CacheTypes, CacheHoldsDisk, NEW k \in Keys, NEW E \in Cache!Victims(k),
           Stored(k, DiskImage[k], E) \/ Rejected(k, E)
    PROVE  /\ CacheTypes' /\ CacheHoldsDisk' /\ capacity' = capacity
           /\ resident' \subseteq resident \cup {k}
           /\ Ample => resident \cup {k} \subseteq resident'
  <1>0. E \subseteq resident \ (pinned \cup {k})
    BY DEF Cache!Victims
  <1>1. ASSUME Ample
        PROVE  E = {} /\ ~Cache!PutRejected(k, E)
    <2>1. resident \cup {k} \subseteq Keys /\ capacity \in Nat
      BY CapacitiesAreNat DEF CacheTypes
    <2>2. Cache!Bytes(resident \cup {k}) <= capacity
      BY <1>1, <2>1, BytesWithin DEF Ample
    <2>3. E = {}
      BY <2>2 DEF Cache!Victims
    <2>4. (resident \ E) \cup {k} = resident \cup {k}
      BY <2>3
    <2>5. ~(Cache!Bytes(resident \cup {k}) > capacity)
      BY <2>1, <2>2, BytesWithin
    <2>6. QED
      BY <2>3, <2>4, <2>5 DEF Cache!PutRejected
  <1>2. CASE Stored(k, DiskImage[k], E)
    <2>1. Cache!Put(k, E)
      BY <1>2 DEF Stored
    <2>2. /\ resident' = (resident \ E) \cup {k} /\ pinned' = pinned \ {k} /\ capacity' = capacity
      BY <2>1 DEF Cache!Put
    <2>3. CacheTypes'
      BY <1>0, <2>2 DEF CacheTypes
    <2>4. CacheHoldsDisk'
      BY <1>2, <2>2 DEF CacheHoldsDisk, CacheTypes, Stored
    <2>5. QED
      BY <1>1, <2>2, <2>3, <2>4
  <1>3. CASE Rejected(k, E)
    <2>1. Cache!PutRejected(k, E)
      BY <1>3 DEF Rejected
    <2>2. /\ resident' = resident \ E /\ pinned' = pinned /\ capacity' = capacity
      BY <2>1 DEF Cache!PutRejected
    <2>3. CacheTypes'
      BY <1>0, <2>2 DEF CacheTypes
    <2>4. CacheHoldsDisk'
      BY <1>3, <2>2 DEF CacheHoldsDisk, CacheTypes, Rejected
    <2>5. QED
      BY <1>1, <2>1, <2>2, <2>3, <2>4
  <1>4. QED
    BY <1>2, <1>3

\* The synchronously read expert going into the cache.
LEMMA SyncInsertKeeps ==
    ASSUME IInv, SyncInsert
    PROVE  IInv'
  <1> USE DEF SyncInsert
  <1>1. want \in Keys /\ scratch = DiskImage[want]
    BY DEF Control, IInv
  <1>2. PICK E \in Cache!Victims(want) :
            \/ Stored(want, DiskImage[want], E) /\ pc' = "pin"
            \/ Rejected(want, E) /\ pc' = "served"
    BY <1>1
  <1>3. /\ CacheTypes' /\ CacheHoldsDisk' /\ capacity' = capacity
        /\ resident' \subseteq resident \cup {want}
        /\ Ample => resident \cup {want} \subseteq resident'
    BY <1>1, <1>2, StoreKeeps DEF IInv
  <1>4. UNCHANGED flightVars
    BY <1>3 DEF flightVars, asmVars, ioVars, genVars
  <1>5. FlightTypes' /\ RunsApart' /\ DueSlices' /\ Landings' /\ Assembly'
    BY <1>3, <1>4, FlightKept
  <1>6. pc' \in {"pin", "served"} /\ UNCHANGED <<want, todo, chosen, runs, scratch>>
    BY <1>2 DEF genVars
  <1>7. ThreadTypes' /\ Control'
    BY <1>1, <1>6 DEF ThreadTypes, Control, IInv
  <1>8. AwaitedIsComing'
    BY <1>6 DEF AwaitedIsComing
  <1>9. QED
    BY <1>3, <1>5, <1>7, <1>8 DEF IInv

\* A pin changes what eviction spares, and nothing else.
LEMMA PinStep ==
    ASSUME IInv, NEW k, Cache!Pin(k) \/ UNCHANGED cacheVars, UNCHANGED <<content, flightVars>>
    PROVE  /\ CacheTypes' /\ CacheHoldsDisk' /\ UNCHANGED <<capacity, resident>>
           /\ FlightTypes' /\ RunsApart' /\ DueSlices' /\ Landings' /\ Assembly'
  <1>1. UNCHANGED <<capacity, resident, content>> /\ UNCHANGED flightVars
    BY DEF Cache!Pin, cacheVars
  <1>2. CacheTypes'
    BY <1>1 DEF Cache!Pin, cacheVars, CacheTypes, IInv
  <1>3. CacheHoldsDisk'
    BY <1>1 DEF CacheHoldsDisk, IInv
  <1>4. QED
    BY <1>1, <1>2, <1>3, FlightKept

\* A getter pinning a popular expert or a shared projection.
LEMMA PinWantedKeeps ==
    ASSUME IInv, PinWanted
    PROVE  IInv'
  <1> USE DEF PinWanted, asmVars, ioVars, genVars
  <1>1. UNCHANGED <<content, flightVars>>
    BY DEF flightVars, cacheVars, Cache!Pin
  <1>2. /\ CacheTypes' /\ CacheHoldsDisk' /\ UNCHANGED <<capacity, resident>>
        /\ FlightTypes' /\ RunsApart' /\ DueSlices' /\ Landings' /\ Assembly'
    BY <1>1, PinStep
  <1>3. ThreadTypes' /\ Control'
    BY <1>2 DEF ThreadTypes, Control, IInv
  <1>4. AwaitedIsComing'
    BY DEF AwaitedIsComing
  <1>5. QED
    BY <1>2, <1>3, <1>4 DEF IInv

\* onLayerRouterDone() pinning a resident expert.
LEMMA ResidencyPinKeeps ==
    ASSUME IInv, NEW k \in Keys, ResidencyPin(k)
    PROVE  IInv'
  <1> USE DEF ResidencyPin, asmVars, ioVars, genVars
  <1>1. UNCHANGED <<content, flightVars>>
    BY DEF flightVars, Cache!Pin
  <1>2. /\ CacheTypes' /\ CacheHoldsDisk' /\ UNCHANGED <<capacity, resident>>
        /\ FlightTypes' /\ RunsApart' /\ DueSlices' /\ Landings' /\ Assembly'
    BY <1>1, PinStep
  <1>3. ThreadTypes' /\ Control'
    BY <1>2 DEF ThreadTypes, Control, IInv
  <1>4. AwaitedIsComing'
    BY <1>2 DEF AwaitedIsComing, IInv
  <1>5. QED
    BY <1>2, <1>3, <1>4 DEF IInv

-----------------------------------------------------------------------------
\* A queue without repetitions is its head and the others.
LEMMA HeadAndTail ==
    ASSUME NEW S, NEW q \in Seq(S), q # <<>>, \A n, m \in DOMAIN q : q[n] = q[m] => n = m
    PROVE  /\ Tail(q) \in Seq(S) /\ Head(q) \in S
           /\ Range(q) = Range(Tail(q)) \cup {Head(q)}
           /\ Head(q) \notin Range(Tail(q))
           /\ \A n, m \in DOMAIN Tail(q) : Tail(q)[n] = Tail(q)[m] => n = m
  <1>1. /\ Len(q) \in Nat \ {0} /\ DOMAIN q = 1..Len(q) /\ Head(q) = q[1]
        /\ Tail(q) \in Seq(S) /\ Len(Tail(q)) = Len(q) - 1
        /\ \A n \in 1..(Len(q) - 1) : Tail(q)[n] = q[n + 1]
    OBVIOUS
  <1>2. DOMAIN Tail(q) = 1..(Len(q) - 1)
    BY <1>1
  <1> DEFINE t == Tail(q)
  <1>3. \A n \in DOMAIN t : t[n] = q[n + 1] /\ n + 1 \in DOMAIN q /\ n + 1 # 1
    BY <1>1, <1>2
  <1>4. \A n \in DOMAIN q : n = 1 \/ (n - 1 \in DOMAIN t /\ t[n - 1] = q[n])
    BY <1>1, <1>2
  <1>5. 1 \in DOMAIN q /\ \A n \in DOMAIN t : n \in Nat
    BY <1>1, <1>2
  <1> HIDE DEF t
  <1>6. Range(q) = Range(t) \cup {q[1]}
    <2>1. ASSUME NEW n \in DOMAIN q PROVE q[n] \in Range(t) \cup {q[1]}
      BY <1>4 DEF Range
    <2>2. ASSUME NEW n \in DOMAIN t PROVE t[n] \in Range(q)
      BY <1>3 DEF Range
    <2>3. q[1] \in Range(q)
      BY <1>5 DEF Range
    <2>4. QED
      BY <2>1, <2>2, <2>3 DEF Range
  <1>7. q[1] \notin Range(t)
    BY <1>3, <1>5 DEF Range
  <1>8. \A n, m \in DOMAIN t : t[n] = t[m] => n = m
    BY <1>3, <1>5
  <1>9. QED
    BY <1>1, <1>6, <1>7, <1>8 DEF t

\* What depends on due slices stays when the same are due.
LEMMA SameDue ==
    ASSUME IInv, Due' = Due, \A r \in Pending' : r.slices # <<>>,
           UNCHANGED <<inFlight, filled, remaining, faulty>>,
           \A k : Lands(k)' <=> Lands(k), \A k : Copied(k)' = Copied(k)
    PROVE  DueSlices' /\ Assembly'
  <1>1. DueSlices'
    BY DEF DueSlices, IInv
  <1>2. \A k : DueParts(k)' = DueParts(k)
    BY DEF DueParts
  <1>3. \A k, counted : Assembles(k, counted) => Assembles(k, counted)'
    BY <1>2 DEF Assembles
  <1>4. QED
    BY <1>1, <1>3 DEF Assembly, IInv

\* The thread's own state, and the cache, under a step of the reader's.
LEMMA ReaderLeaves ==
    ASSUME IInv, UNCHANGED <<capacity, resident, pinned, content, inFlight, pc, want, todo,
                             chosen, scratch>>, pc # "submit" => runs' = <<>>
    PROVE  CacheTypes' /\ CacheHoldsDisk' /\ ThreadTypes' /\ Control' /\ AwaitedIsComing'
  <1>1. CacheTypes' /\ CacheHoldsDisk' /\ ThreadTypes'
    BY DEF CacheTypes, CacheHoldsDisk, ThreadTypes, IInv
  <1>2. Control'
    BY DEF Control, IInv
  <1>3. AwaitedIsComing'
    BY DEF AwaitedIsComing, Ample, IInv
  <1>4. QED
    BY <1>1, <1>2, <1>3

\* Submitting the next merged read.
LEMMA SubmitRunKeeps ==
    ASSUME IInv, SubmitRun
    PROVE  IInv'
  <1> USE DEF SubmitRun, asmVars, cacheVars
  <1> DEFINE h == Head(runs)
             t == Tail(runs)
  <1>0. runs \in Seq(Runs) /\ runs # <<>> /\ \A n, m \in DOMAIN runs : runs[n] = runs[m] => n = m
    BY DEF FlightTypes, RunsApart, IInv
  <1>1. /\ t \in Seq(Runs) /\ h \in Runs
        /\ Range(runs) = Range(t) \cup {h} /\ h \notin Range(t)
        /\ \A n, m \in DOMAIN t : t[n] = t[m] => n = m
    BY <1>0, HeadAndTail
  <1>2. runs' = t /\ reads' = reads \cup {h} /\ calls' = calls
    OBVIOUS
  <1> HIDE DEF h, t
  <1>3. Pending' = Pending
    BY <1>1, <1>2 DEF Pending
  <1>4. Due' = Due
    BY <1>2, <1>3, DueStays
  <1>5. FlightTypes'
    BY <1>1, <1>2 DEF FlightTypes, IInv
  <1>6. RunsApart'
    BY <1>1, <1>2, <1>3 DEF RunsApart, IInv
  <1>7. DueSlices' /\ Assembly'
    <2>1. \A k : (Lands(k)' <=> Lands(k)) /\ Copied(k)' = Copied(k)
      BY <1>2 DEF Lands, Copied, KeyOf, SliceOf
    <2>2. \A r \in Pending' : r.slices # <<>>
      BY <1>3 DEF DueSlices, IInv
    <2>3. QED
      BY <1>4, <2>1, <2>2, SameDue
  <1>8. Landings'
    BY <1>2, <1>4 DEF Landings, IInv, KeyOf, SliceOf, Ample
  <1>9. CacheTypes' /\ CacheHoldsDisk' /\ ThreadTypes' /\ Control' /\ AwaitedIsComing'
    BY ReaderLeaves
  <1>10. QED
    BY <1>5, <1>6, <1>7, <1>8, <1>9 DEF IInv

\* A read answering: its callback starts at the first slice.
LEMMA AnswerKeeps ==
    ASSUME IInv, NEW r \in reads, Answer(r)
    PROVE  IInv'
  <1> USE DEF Answer, asmVars, cacheVars, genVars
  <1> DEFINE d == [run |-> r, slice |-> 1, at |-> "copy"]
  <1>1. /\ reads' = reads \ {r} /\ calls' = calls \cup {d} /\ runs' = runs
        /\ d.run = r /\ d.slice = 1 /\ d.at = "copy" /\ d \in [run : {r}, slice : {1}, at : {"copy"}]
    OBVIOUS
  <1>2. /\ r \in Runs /\ r \in Pending /\ r \notin Range(runs) /\ 1 \in DOMAIN r.slices
    <2>1. r \in Runs /\ r \in Pending /\ r \notin Range(runs) /\ r.slices # <<>>
      BY DEF FlightTypes, RunsApart, DueSlices, Pending, IInv
    <2>2. r.slices \in Seq(Slices)
      BY <2>1 DEF Runs
    <2>3. QED
      BY <2>1, <2>2
  <1> HIDE DEF d
  <1>3. Pending' = Pending \ {r}
    BY <1>1, <1>2 DEF Pending
  <1>4. Due' = Due
    <2>1. DueView' /\ DueView
      BY DueIs, DueIsNext
    <2>2. Uncounted(d) = 1
      BY <1>1 DEF Uncounted
    <2>3. Len(r.slices) \in Nat /\ DOMAIN r.slices = 1..Len(r.slices)
      BY <1>2 DEF Runs
    <2>4. ASSUME NEW x, NEW i
          PROVE  <<x, i>> \in Due' <=> <<x, i>> \in Due
      <3>1. <<x, i>> \in Due' <=>
              \/ x \in Pending \ {r} /\ i \in DOMAIN x.slices
              \/ \E c \in calls : c.run = x /\ i \in Uncounted(c)..Len(x.slices)
              \/ d.run = x /\ i \in Uncounted(d)..Len(x.slices)
        BY <2>1, <1>1, <1>3 DEF DueView, Uncounted
      <3>2. d.run = x /\ i \in Uncounted(d)..Len(x.slices) <=> x = r /\ i \in DOMAIN x.slices
        BY <1>1, <2>2, <2>3
      <3>3. QED
        BY <3>1, <3>2, <2>1, <1>2 DEF DueView
    <2>5. \A e \in Due' : e \in Due
      BY <2>1, <2>4 DEF DueView
    <2>6. \A e \in Due : e \in Due'
      BY <2>1, <2>4 DEF DueView
    <2>7. QED
      BY <2>5, <2>6
  <1>5. FlightTypes'
    BY <1>1, <1>2 DEF FlightTypes, IInv
  <1>6. RunsApart'
    BY <1>1, <1>2, <1>3 DEF RunsApart, IInv
  <1>7. DueSlices' /\ Assembly'
    <2>1. \A k : (Lands(k)' <=> Lands(k)) /\ Copied(k)' = Copied(k)
      BY <1>1 DEF Lands, Copied, KeyOf, SliceOf
    <2>2. \A x \in Pending' : x.slices # <<>>
      BY <1>3 DEF DueSlices, IInv
    <2>3. QED
      BY <1>4, <2>1, <2>2, SameDue
  <1>8. Landings'
    <2>1. KeyOf(d) \in inFlight
      <3>1. <<r, 1>> \in Due
        BY <1>2, DueIs DEF DueView
      <3>2. r.slices[1].key \in inFlight
        BY <3>1 DEF DueSlices, IInv
      <3>3. QED
        BY <3>2, <1>1 DEF KeyOf, SliceOf
    <2>2. QED
      BY <1>1, <1>4, <2>1 DEF Landings, IInv, KeyOf, SliceOf, Ample
  <1>9. CacheTypes' /\ CacheHoldsDisk' /\ ThreadTypes' /\ Control' /\ AwaitedIsComing'
    BY ReaderLeaves DEF Control, IInv
  <1>10. QED
    BY <1>5, <1>6, <1>7, <1>8, <1>9 DEF IInv

\* A read failing: its callback drops the run.
LEMMA AnswerFailsKeeps ==
    ASSUME IInv, NEW r \in reads, AnswerFails(r)
    PROVE  IInv'
  <1> USE DEF AnswerFails, asmVars, cacheVars, genVars
  <1>1. reads' = reads \ {r} /\ calls' = calls /\ runs' = runs /\ faulty
    OBVIOUS
  <1>2. Pending' \subseteq Pending
    BY <1>1 DEF Pending
  <1>3. Due' \subseteq Due
    BY <1>1, <1>2 DEF Due, Waiting, InHand, Uncounted
  <1>4. FlightTypes'
    BY <1>1 DEF FlightTypes, IInv
  <1>5. RunsApart'
    BY <1>1, <1>2 DEF RunsApart, IInv
  <1>6. DueSlices'
    BY <1>2, <1>3 DEF DueSlices, IInv
  <1>7. Landings'
    BY <1>1, <1>3 DEF Landings, IInv, KeyOf, SliceOf, Ample
  <1>8. Assembly'
    <2>1. \A k : (Lands(k)' <=> Lands(k)) /\ Copied(k)' = Copied(k)
      BY <1>1 DEF Lands, Copied, KeyOf, SliceOf
    <2>2. \A k : DueParts(k)' \subseteq DueParts(k)
      BY <1>3 DEF DueParts
    <2>3. \A k, counted : Assembles(k, counted) => Assembles(k, counted)'
      BY <1>1, <2>1, <2>2 DEF Assembles
    <2>4. QED
      BY <2>1, <2>3 DEF Assembly, IInv
  <1>9. CacheTypes' /\ CacheHoldsDisk' /\ ThreadTypes' /\ Control' /\ AwaitedIsComing'
    BY ReaderLeaves DEF Control, IInv
  <1>10. QED
    BY <1>4, <1>5, <1>6, <1>7, <1>8, <1>9 DEF IInv

-----------------------------------------------------------------------------
\* A slice carries one part of one expert.
LEMMA OnePart ==
    ASSUME NEW r, NEW i, NEW k \in Keys, NEW p \in Parts(k), NEW j \in Keys, NEW q \in Parts(j),
           Carries(r, i, k, p), Carries(r, i, j, q)
    PROVE  k = j /\ p = q
  <1>1. k = j /\ Dest(k, p) = Dest(j, q)
    BY DEF Carries
  <1>2. QED
    BY <1>1, DestsDiffer

\* What a callback has in hand.
LEMMA CallFacts ==
    ASSUME IInv, NEW c \in calls
    PROVE  /\ c.run \in Runs /\ c.slice \in 1..Len(c.run.slices) /\ Len(c.run.slices) \in Nat
           /\ c.at \in {"copy", "count", "insert", "erase"}
           /\ KeyOf(c) \in inFlight /\ KeyOf(c) \in Keys
           /\ c.run \notin Pending
           /\ \A d : d = [run |-> c.run, slice |-> c.slice, at |-> c.at] <=> d = c
  <1>1. c \in [run : Runs, slice : Nat, at : {"copy", "count", "insert", "erase"}]
        /\ c.slice \in DOMAIN c.run.slices
    BY DEF FlightTypes, IInv
  <1>2. c.run.slices \in Seq(Slices)
    BY <1>1 DEF Runs
  <1>3. KeyOf(c) \in inFlight /\ inFlight \subseteq Keys /\ c.run \notin Pending
    BY DEF FlightTypes, RunsApart, Landings, IInv
  <1>4. QED
    BY <1>1, <1>2, <1>3

\* The slice a callback has in hand is due, and its expert has not landed.
LEMMA SliceInHand ==
    ASSUME IInv, NEW c \in calls, c.at \in {"copy", "count"}
    PROVE  /\ <<c.run, c.slice>> \in Due
           /\ ~Lands(KeyOf(c))
           /\ \E p \in Parts(KeyOf(c)) : Carries(c.run, c.slice, KeyOf(c), p)
  <1>1. <<c.run, c.slice>> \in Due
    BY CallFacts, DueIs DEF DueView, Uncounted
  <1>2. ~Lands(KeyOf(c))
    <2>1. \A b \in calls : b.at \in {"insert", "erase"} => c.run.slices[c.slice].key # KeyOf(b)
      BY <1>1 DEF Landings, IInv
    <2>2. QED
      BY <2>1 DEF Lands, KeyOf, SliceOf
  <1>3. PICK k \in Keys : \E p \in Parts(k) : Carries(c.run, c.slice, k, p)
    BY <1>1 DEF DueSlices, IInv
  <1>4. k = KeyOf(c)
    BY <1>3 DEF Carries, KeyOf, SliceOf
  <1>5. QED
    BY <1>1, <1>2, <1>3, <1>4

\* A callback copying the bytes of its slice into the assembly buffer.
LEMMA CopySliceKeeps ==
    ASSUME IInv, NEW c \in calls, CopySlice(c)
    PROVE  IInv'
  <1> USE DEF CopySlice, cacheVars, genVars
  <1> DEFINE k == KeyOf(c)
             d == [c EXCEPT !.at = "count"]
  <1>1. /\ c.run \in Runs /\ c.slice \in 1..Len(c.run.slices) /\ k \in inFlight /\ k \in Keys
        /\ c.at = "copy" /\ c.slice \in DOMAIN c.run.slices
        /\ c \in [run : Runs, slice : Nat, at : {"copy", "count", "insert", "erase"}]
    BY CallFacts DEF FlightTypes, IInv
  <1>2. PICK p \in Parts(k) : Carries(c.run, c.slice, k, p)
    BY <1>1, SliceInHand
  <1>3. /\ d.run = c.run /\ d.slice = c.slice /\ d.at = "count"
        /\ d \in [run : Runs, slice : Nat, at : {"copy", "count", "insert", "erase"}]
    BY <1>1
  <1>4. calls' = (calls \ {c}) \cup {d} /\ UNCHANGED <<inFlight, remaining, reads, runs, faulty>>
    BY DEF At
  <1>5. /\ SliceBytes(c.run, SliceOf(c)) = PartBytes(k, p)
        /\ PartBytes(k, p) \in SUBSET (Int \X Int \X Int)
    BY <1>1, <1>2, SliceIsPart, SliceBytesType DEF SliceOf
  <1>6. /\ filled' \in [Keys -> SUBSET (Int \X Int \X Int)]
        /\ filled'[k] = filled[k] \cup PartBytes(k, p)
        /\ \A j \in Keys : j # k => filled'[j] = filled[j]
    BY <1>1, <1>5 DEF FlightTypes, IInv
  <1>7. KeyOf(d) = k
    BY <1>3 DEF KeyOf, SliceOf
  <1>8. ~Lands(k)
    BY <1>1, SliceInHand
  <1> HIDE DEF d, k
  <1>9. Pending' = Pending
    BY <1>4 DEF Pending
  <1>10. Due' = Due
    BY <1>1, <1>3, <1>4, <1>9, DueMoves DEF Uncounted
  <1>11. FlightTypes'
    BY <1>1, <1>3, <1>4, <1>6 DEF FlightTypes, IInv
  <1>12. RunsApart'
    BY <1>3, <1>4, <1>9 DEF RunsApart, IInv
  <1>13. DueSlices'
    BY <1>4, <1>9, <1>10 DEF DueSlices, IInv
  <1>14. Landings'
    <2>1. \A b \in calls' : b.at \in {"insert", "erase"} => b \in calls /\ KeyOf(b) # k
      BY <1>3, <1>4, <1>8 DEF Lands
    <2>2. \A b \in calls' : KeyOf(b) \in inFlight
      BY <1>1, <1>4, <1>7 DEF Landings, IInv
    <2>3. inFlight \subseteq Keys
      BY DEF FlightTypes, IInv
    <2>4. \A b : KeyOf(b)' = KeyOf(b)
      BY DEF KeyOf, SliceOf
    <2>5. QED
      BY <2>1, <2>2, <2>3, <2>4, <1>4, <1>6, <1>10 DEF Landings, IInv, Ample
  <1>15. Assembly'
    <2>1. \A j : Lands(j)' <=> Lands(j)
      BY <1>1, <1>3, <1>4 DEF Lands, KeyOf, SliceOf
    <2>2. \A j : DueParts(j)' = DueParts(j)
      BY <1>10 DEF DueParts
    <2>3. \A j \in Keys : Copied(j)' = Copied(j) \cup {q \in Parts(j) : Carries(c.run, c.slice, j, q)}
      BY <1>1, <1>3, <1>4 DEF Copied
    <2>4. ASSUME NEW j \in Keys, NEW q \in Parts(j), Carries(c.run, c.slice, j, q)
          PROVE  j = k /\ q = p
      BY <2>4, <1>1, <1>2, OnePart
    <2>5. \A j \in Keys : j # k => Copied(j)' = Copied(j)
      BY <2>3, <2>4
    <2>6. Copied(k)' = Copied(k) \cup {p}
      BY <2>3, <2>4, <1>1, <1>2
    <2>7. \A counted : \A j \in Keys \ {k} : Assembles(j, counted) => Assembles(j, counted)'
      BY <2>2, <2>5, <1>4, <1>6 DEF Assembles
    <2>8. \A counted : Assembles(k, counted) => Assembles(k, counted)'
      BY <2>2, <2>6, <1>4, <1>6 DEF Assembles
    <2>9. QED
      BY <2>1, <2>7, <2>8, <1>4 DEF Assembly, FlightTypes, IInv
  <1>16. CacheTypes' /\ CacheHoldsDisk' /\ ThreadTypes' /\ Control' /\ AwaitedIsComing'
    BY ReaderLeaves DEF Control, IInv
  <1>17. QED
    BY <1>11, <1>12, <1>13, <1>14, <1>15, <1>16 DEF IInv

\* A callback is done with slice i of its run; `next` is where it goes on.
LEMMA DueCounted ==
    ASSUME IInv, NEW c \in calls, Uncounted(c) = c.slice, NEW next,
           calls' = (calls \ {c}) \cup next, Pending' = Pending,
           \A x, i : (\E d \in next : d.run = x /\ i \in Uncounted(d)..Len(x.slices))
                       <=> x = c.run /\ i \in (c.slice + 1)..Len(x.slices)
    PROVE  Due' = Due \ {<<c.run, c.slice>>}
  <1>1. DueView' /\ DueView
    BY DueIs, DueIsNext
  <1>2. c.run \notin Pending /\ \A b \in calls \ {c} : b.run # c.run
    BY DEF RunsApart, IInv
  <1>3. c.slice \in 1..Len(c.run.slices) /\ Len(c.run.slices) \in Nat
    BY CallFacts
  <1>4. ASSUME NEW x, NEW i
        PROVE  <<x, i>> \in Due' <=> <<x, i>> \in Due /\ <<x, i>> # <<c.run, c.slice>>
    <2>1. <<x, i>> \in Due' <=>
            \/ x \in Pending /\ i \in DOMAIN x.slices
            \/ \E b \in calls \ {c} : b.run = x /\ i \in Uncounted(b)..Len(x.slices)
            \/ x = c.run /\ i \in (c.slice + 1)..Len(x.slices)
      BY <1>1 DEF DueView, Uncounted
    <2>2. <<x, i>> \in Due <=>
            \/ x \in Pending /\ i \in DOMAIN x.slices
            \/ \E b \in calls \ {c} : b.run = x /\ i \in Uncounted(b)..Len(x.slices)
            \/ x = c.run /\ i \in c.slice..Len(x.slices)
      BY <1>1 DEF DueView
    <2>3. i \in c.slice..Len(c.run.slices) <=>
            i = c.slice \/ i \in (c.slice + 1)..Len(c.run.slices)
      BY <1>3
    <2>4. c.slice \notin (c.slice + 1)..Len(c.run.slices)
      BY <1>3
    <2>5. CASE x = c.run
      BY <2>1, <2>2, <2>3, <2>4, <2>5, <1>2
    <2>6. CASE x # c.run
      BY <2>1, <2>2, <2>6
    <2>7. QED
      BY <2>5, <2>6
  <1>5. \A e \in Due' : e \in Due \ {<<c.run, c.slice>>}
    BY <1>1, <1>4 DEF DueView
  <1>6. \A e \in Due \ {<<c.run, c.slice>>} : e \in Due'
    BY <1>1, <1>4 DEF DueView
  <1>7. QED
    BY <1>5, <1>6

\* Where a callback goes on from its slice.
Successor(c) ==
    IF c.slice < Len(c.run.slices) THEN {[c EXCEPT !.slice = @ + 1, !.at = "copy"]} ELSE {}

\* After a slice, a callback goes on with the next one of its run or ends.
LEMMA SuccessorIs ==
    ASSUME IInv, NEW c \in calls
    PROVE  /\ NextSlice(c) <=> calls' = (calls \ {c}) \cup Successor(c)
           /\ \A d \in Successor(c) :
                /\ d.run = c.run /\ d.slice = c.slice + 1 /\ d.at = "copy"
                /\ d.slice \in DOMAIN d.run.slices
                /\ d \in [run : Runs, slice : Nat, at : {"copy", "count", "insert", "erase"}]
           /\ \A d, e \in Successor(c) : d = e
           /\ \A x, i : (\E d \in Successor(c) : d.run = x /\ i \in Uncounted(d)..Len(x.slices))
                          <=> x = c.run /\ i \in (c.slice + 1)..Len(x.slices)
  <1>1. /\ c \in [run : Runs, slice : Nat, at : {"copy", "count", "insert", "erase"}]
        /\ c.slice \in 1..Len(c.run.slices) /\ Len(c.run.slices) \in Nat
    BY CallFacts DEF FlightTypes, IInv
  <1>2. DOMAIN c.run.slices = 1..Len(c.run.slices)
    BY <1>1 DEF Runs
  <1> DEFINE n == [c EXCEPT !.slice = @ + 1, !.at = "copy"]
  <1>3. /\ n.run = c.run /\ n.slice = c.slice + 1 /\ n.at = "copy"
        /\ n \in [run : Runs, slice : Nat, at : {"copy", "count", "insert", "erase"}]
    <2> DEFINE m == [c EXCEPT !.slice = c.slice + 1]
    <2>1. /\ m.run = c.run /\ m.slice = c.slice + 1
          /\ m \in [run : Runs, slice : Nat, at : {"copy", "count", "insert", "erase"}]
      BY <1>1
    <2>2. n = [m EXCEPT !.at = "copy"]
      BY <1>1
    <2> HIDE DEF m
    <2>3. QED
      BY <2>1, <2>2
  <1>4. NextSlice(c) <=> calls' = (calls \ {c}) \cup Successor(c)
    BY DEF NextSlice, Successor
  <1> HIDE DEF n
  <1>5. CASE c.slice < Len(c.run.slices)
    <2>1. Successor(c) = {n}
      BY <1>5 DEF Successor, n
    <2>2. n.slice \in DOMAIN n.run.slices
      BY <1>1, <1>2, <1>3, <1>5
    <2>3. Uncounted(n) = c.slice + 1
      BY <1>3 DEF Uncounted
    <2>4. QED
      BY <2>1, <2>2, <2>3, <1>3, <1>4
  <1>6. CASE ~(c.slice < Len(c.run.slices))
    <2>1. Successor(c) = {}
      BY <1>6 DEF Successor
    <2>2. (c.slice + 1)..Len(c.run.slices) = {}
      BY <1>1, <1>6
    <2>3. QED
      BY <2>1, <2>2, <1>4
  <1>7. QED
    BY <1>5, <1>6

\* A callback taking a finished expert out of the in-flight set.
LEMMA UnmarkKeeps ==
    ASSUME IInv, NEW c \in calls, Unmark(c)
    PROVE  IInv'
  <1> USE DEF Unmark, cacheVars, genVars, asmVars
  <1> DEFINE k == KeyOf(c)
             N == Successor(c)
  <1>1. /\ c.at = "erase" /\ k \in Keys /\ k \in inFlight /\ inFlight' = inFlight \ {k}
        /\ UNCHANGED <<filled, remaining, reads, runs, faulty>>
    BY CallFacts
  <1>2. /\ calls' = (calls \ {c}) \cup N
        /\ \A d \in N :
            /\ d.run = c.run /\ d.slice = c.slice + 1 /\ d.at = "copy"
            /\ d.slice \in DOMAIN d.run.slices
            /\ d \in [run : Runs, slice : Nat, at : {"copy", "count", "insert", "erase"}]
        /\ \A d, e \in N : d = e
        /\ \A x, i : (\E d \in N : d.run = x /\ i \in Uncounted(d)..Len(x.slices))
                       <=> x = c.run /\ i \in (c.slice + 1)..Len(x.slices)
    BY SuccessorIs
  <1> HIDE DEF N, k
  <1>3. Pending' = Pending
    BY <1>1 DEF Pending
  <1>4. Due' = Due
    <2>1. Uncounted(c) = c.slice + 1
      BY <1>1 DEF Uncounted
    <2>2. DueView' /\ DueView
      BY DueIs, DueIsNext
    <2>3. ASSUME NEW x, NEW i
          PROVE  <<x, i>> \in Due' <=> <<x, i>> \in Due
      <3>1. <<x, i>> \in Due' <=>
              \/ x \in Pending /\ i \in DOMAIN x.slices
              \/ \E b \in calls \ {c} : b.run = x /\ i \in Uncounted(b)..Len(x.slices)
              \/ x = c.run /\ i \in (c.slice + 1)..Len(x.slices)
        BY <2>2, <1>2, <1>3 DEF DueView, Uncounted
      <3>2. <<x, i>> \in Due <=>
              \/ x \in Pending /\ i \in DOMAIN x.slices
              \/ \E b \in calls \ {c} : b.run = x /\ i \in Uncounted(b)..Len(x.slices)
              \/ x = c.run /\ i \in (c.slice + 1)..Len(x.slices)
        BY <2>1, <2>2 DEF DueView
      <3>3. QED
        BY <3>1, <3>2
    <2>4. (\A e \in Due' : e \in Due) /\ (\A e \in Due : e \in Due')
      BY <2>2, <2>3 DEF DueView
    <2>5. QED
      BY <2>4
  <1>5. \A e \in Due : e[1].slices[e[2]].key # k
    BY <1>1 DEF Landings, IInv, k
  <1>6. FlightTypes'
    BY <1>1, <1>2 DEF FlightTypes, IInv
  <1>7. RunsApart'
    BY <1>1, <1>2, <1>3 DEF RunsApart, IInv
  <1>8. DueSlices'
    BY <1>1, <1>3, <1>4, <1>5 DEF DueSlices, IInv
  <1>9. \A b : KeyOf(b)' = KeyOf(b)
    BY DEF KeyOf, SliceOf
  <1>10. \A b \in calls' : b.at \in {"insert", "erase"} => b \in calls \ {c}
    BY <1>2
  <1>11. \A b \in calls : b # c /\ b.at \in {"insert", "erase"} => KeyOf(b) # k
    BY <1>1 DEF Landings, IInv, k
  <1>12. Landings'
    <2>1. ASSUME NEW b \in calls'
          PROVE  KeyOf(b) \in inFlight'
      <3>1. CASE b \in calls /\ b # c /\ b.at \in {"insert", "erase"}
        BY <3>1, <1>1, <1>11 DEF Landings, IInv
      <3>2. CASE b \in calls /\ b # c /\ b.at \in {"copy", "count"}
        <4>1. <<b.run, b.slice>> \in Due
          BY <3>2, SliceInHand
        <4>2. KeyOf(b) # k
          BY <4>1, <1>5 DEF KeyOf, SliceOf
        <4>3. QED
          BY <4>2, <3>2, <1>1 DEF Landings, IInv
      <3>3. CASE b \in N
        <4>1. b.run = c.run /\ b.slice = c.slice + 1 /\ b.slice \in DOMAIN b.run.slices
              /\ b.run \in Runs
          BY <3>3, <1>2
        <4>2. b.slice \in b.slice..Len(b.run.slices)
          BY <4>1 DEF Runs
        <4>3. <<b.run, b.slice>> \in Due
          BY <4>1, <4>2, <1>1, DueIs DEF DueView, Uncounted
        <4>4. KeyOf(b) # k /\ KeyOf(b) \in inFlight
          BY <4>3, <1>5 DEF KeyOf, SliceOf, DueSlices, IInv
        <4>5. QED
          BY <4>4, <1>1
      <3>4. QED
        BY <3>1, <3>2, <3>3, <1>2, CallFacts
    <2>2. QED
      BY <2>1, <1>1, <1>4, <1>9, <1>10 DEF Landings, IInv, Ample
  <1>13. Assembly'
    <2>1. \A j : j # k => (Lands(j)' <=> Lands(j))
      BY <1>2, <1>9, <1>10 DEF Lands, k
    <2>2. remaining[k] = 0
      BY <1>1 DEF Assembly, Lands, IInv, k
    <2>3. \A j : DueParts(j)' = DueParts(j)
      BY <1>4 DEF DueParts
    <2>4. \A j : Copied(j)' = Copied(j)
      BY <1>1, <1>2 DEF Copied
    <2>5. \A j, counted : Assembles(j, counted) => Assembles(j, counted)'
      BY <2>3, <2>4, <1>1 DEF Assembles
    <2>6. QED
      BY <2>1, <2>2, <2>5, <1>1 DEF Assembly, IInv
  <1>14. CacheTypes' /\ CacheHoldsDisk' /\ ThreadTypes'
    BY DEF CacheTypes, CacheHoldsDisk, ThreadTypes, IInv
  <1>15. Control'
    BY <1>1 DEF Control, IInv
  <1>16. AwaitedIsComing'
    BY <1>1 DEF AwaitedIsComing, Landings, Ample, IInv, k
  <1>17. QED
    BY <1>6, <1>7, <1>8, <1>12, <1>13, <1>14, <1>15, <1>16 DEF IInv

\* A callback putting a finished expert into the cache.
LEMMA LandKeeps ==
    ASSUME IInv, NEW c \in calls, Land(c)
    PROVE  IInv'
  <1> USE DEF Land, genVars
  <1> DEFINE k == KeyOf(c)
             d == [c EXCEPT !.at = "erase"]
  <1>1. /\ c.at = "insert" /\ k \in Keys /\ k \in inFlight
        /\ c.slice \in DOMAIN c.run.slices
        /\ c \in [run : Runs, slice : Nat, at : {"copy", "count", "insert", "erase"}]
        /\ UNCHANGED <<inFlight, remaining, reads, runs, faulty>>
    BY CallFacts DEF FlightTypes, IInv
  <1>2. /\ d.run = c.run /\ d.slice = c.slice /\ d.at = "erase"
        /\ d \in [run : Runs, slice : Nat, at : {"copy", "count", "insert", "erase"}]
        /\ calls' = (calls \ {c}) \cup {d}
    BY <1>1 DEF At
  <1>3. filled[k] = DiskImage[k]
    BY <1>1 DEF Landings, IInv
  <1>4. PICK E \in Cache!Victims(k) : Stored(k, DiskImage[k], E) \/ Rejected(k, E)
    BY <1>3
  <1>5. /\ CacheTypes' /\ CacheHoldsDisk' /\ capacity' = capacity
        /\ resident' \subseteq resident \cup {k}
        /\ Ample => resident \cup {k} \subseteq resident'
    BY <1>1, <1>4, StoreKeeps DEF IInv
  <1>6. /\ filled' \in [Keys -> SUBSET (Int \X Int \X Int)]
        /\ \A j \in Keys : j # k => filled'[j] = filled[j]
    BY <1>1 DEF FlightTypes, IInv
  <1>7. KeyOf(d) = k
    BY <1>2 DEF KeyOf, SliceOf
  <1>8. \A b \in calls \ {c} : b.at \in {"insert", "erase"} => KeyOf(b) # k
    BY <1>1 DEF Landings, IInv
  <1>9. Lands(k)
    BY <1>1 DEF Lands
  <1>10. \A e \in Due : e[1].slices[e[2]].key # k
    BY <1>1 DEF Landings, IInv
  <1> HIDE DEF d, k
  <1>11. Pending' = Pending
    BY <1>1 DEF Pending
  <1>12. Due' = Due
    BY <1>1, <1>2, <1>11, DueMoves DEF Uncounted
  <1>13. FlightTypes'
    BY <1>1, <1>2, <1>6 DEF FlightTypes, IInv
  <1>14. RunsApart'
    BY <1>1, <1>2, <1>11 DEF RunsApart, IInv
  <1>15. DueSlices'
    BY <1>1, <1>11, <1>12 DEF DueSlices, IInv
  <1>16. \A b : KeyOf(b)' = KeyOf(b)
    BY DEF KeyOf, SliceOf
  <1>17. Ample' => Ample
    BY <1>5 DEF Ample
  <1>18. \A b \in calls : KeyOf(b) \in Keys
    BY CallFacts
  <1>19. Landings'
    <2>1. \A b \in calls' : KeyOf(b) \in inFlight
      BY <1>1, <1>2, <1>7 DEF Landings, IInv
    <2>2. \A a, b \in calls' :
            /\ a.at \in {"insert", "erase"} /\ b.at \in {"insert", "erase"} /\ KeyOf(a) = KeyOf(b)
            => a = b
      BY <1>2, <1>7, <1>8 DEF Landings, IInv
    <2>3. \A b \in calls' : b.at \in {"insert", "erase"} =>
            \A e \in Due : e[1].slices[e[2]].key # KeyOf(b)
      BY <1>2, <1>7, <1>10 DEF Landings, IInv
    <2>4. \A b \in calls' : b.at = "insert" => filled'[KeyOf(b)] = DiskImage[KeyOf(b)]
      BY <1>2, <1>6, <1>8, <1>18 DEF Landings, IInv
    <2>5. \A b \in calls' : b.at = "erase" /\ Ample => KeyOf(b) \in resident'
      BY <1>2, <1>5, <1>7 DEF Landings, IInv
    <2>6. QED
      BY <2>1, <2>2, <2>3, <2>4, <2>5, <1>1, <1>12, <1>16, <1>17 DEF Landings
  <1>20. Assembly'
    <2>1. \A j : Lands(j)' <=> Lands(j)
      BY <1>1, <1>2, <1>7, <1>16 DEF Lands, k
    <2>2. \A j : DueParts(j)' = DueParts(j)
      BY <1>12 DEF DueParts
    <2>3. \A j : Copied(j)' = Copied(j)
      BY <1>1, <1>2 DEF Copied
    <2>4. \A counted : \A j \in Keys \ {k} : Assembles(j, counted) => Assembles(j, counted)'
      BY <2>2, <2>3, <1>1, <1>6 DEF Assembles
    <2>5. QED
      BY <2>1, <2>4, <1>1, <1>9 DEF Assembly, FlightTypes, IInv
  <1>21. ThreadTypes'
    BY DEF ThreadTypes, IInv
  <1>22. Control'
    BY <1>1, <1>5 DEF Control, IInv
  <1>23. AwaitedIsComing'
    BY <1>1, <1>5, <1>17 DEF AwaitedIsComing, IInv
  <1>24. QED
    BY <1>5, <1>13, <1>14, <1>15, <1>19, <1>20, <1>21, <1>22, <1>23 DEF IInv

-----------------------------------------------------------------------------
\* The slice a callback counts, and what its expert still lacks afterwards.
LEMMA CountedSlice ==
    ASSUME IInv, NEW c \in calls, c.at = "count", NEW p \in Parts(KeyOf(c)),
           Carries(c.run, c.slice, KeyOf(c), p), Due' = Due \ {<<c.run, c.slice>>}
    PROVE  /\ DueParts(KeyOf(c))' = DueParts(KeyOf(c)) \ {p}
           /\ p \in DueParts(KeyOf(c))
           /\ \A j \in Keys : j # KeyOf(c) => DueParts(j)' = DueParts(j)
  <1> DEFINE k == KeyOf(c)
             e == <<c.run, c.slice>>
  <1>1. k \in Keys /\ e \in Due
    BY CallFacts, SliceInHand
  <1>2. e[1] = c.run /\ e[2] = c.slice
    OBVIOUS
  <1>3. ASSUME NEW j \in Keys, NEW q \in Parts(j), Carries(e[1], e[2], j, q)
        PROVE  j = k /\ q = p
    BY <1>1, <1>2, <1>3, OnePart
  <1>4. \A f \in Due : \A j \in Keys : \A q \in Parts(j) :
            Carries(e[1], e[2], j, q) /\ Carries(f[1], f[2], j, q) => f = e
    BY <1>1 DEF DueSlices, IInv
  <1> HIDE DEF e, k
  <1>5. Due' = Due \ {e} /\ Carries(e[1], e[2], k, p) /\ p \in Parts(k)
    BY <1>2 DEF e, k
  <1>6. p \in DueParts(k) /\ p \notin DueParts(k)'
    BY <1>1, <1>4, <1>5 DEF DueParts
  <1>7. ASSUME NEW j \in Keys, NEW q \in DueParts(j), j # k \/ q # p
        PROVE  q \in DueParts(j)'
    <2>1. PICK f \in Due : Carries(f[1], f[2], j, q)
      BY <1>7 DEF DueParts
    <2>2. f # e
      BY <2>1, <1>3, <1>7 DEF DueParts
    <2>3. QED
      BY <2>1, <2>2, <1>5 DEF DueParts
  <1>8. \A j : DueParts(j)' \subseteq DueParts(j)
    BY <1>5 DEF DueParts
  <1>9. QED
    BY <1>1, <1>6, <1>7, <1>8 DEF k

\* A counter and the projections it has not seen, one slice later.
LEMMA OneFewer ==
    ASSUME NEW k \in Keys, NEW counted \in SUBSET Parts(k), NEW p \in Parts(k) \ counted
    PROVE  /\ Cardinality(Parts(k) \ (counted \cup {p})) = Cardinality(Parts(k) \ counted) - 1
           /\ Cardinality(Parts(k) \ counted) \in Nat
           /\ Cardinality(Parts(k) \ counted) = 1 <=> counted \cup {p} = Parts(k)
  <1> DEFINE L == Parts(k) \ counted
  <1>1. IsFiniteSet(L)
    BY PartsAreFinite, FS_Difference
  <1>2. Parts(k) \ (counted \cup {p}) = L \ {p} /\ p \in L
    OBVIOUS
  <1> HIDE DEF L
  <1>3. IsFiniteSet(L \ {p}) /\ Cardinality(L \ {p}) = Cardinality(L) - 1
    BY <1>1, <1>2, FS_RemoveElement
  <1>4. Cardinality(L) \in Nat
    BY <1>1, FS_CardinalityType
  <1>5. Cardinality(L \ {p}) = 0 <=> L \ {p} = {}
    BY <1>3, FS_EmptySet
  <1>6. L \ {p} = {} <=> counted \cup {p} = Parts(k)
    BY DEF L
  <1>7. Cardinality(L) - 1 = 0 <=> Cardinality(L) = 1
    BY <1>4
  <1>8. QED
    BY <1>2, <1>3, <1>4, <1>5, <1>6, <1>7 DEF L

\* A callback counting its slice off; the last one of an expert finds all its bytes.
LEMMA CountSliceKeeps ==
    ASSUME IInv, NEW c \in calls, CountSlice(c)
    PROVE  IInv'
  <1> USE DEF CountSlice, cacheVars, genVars
  <1> DEFINE k == KeyOf(c)
             d == [c EXCEPT !.at = "insert"]
             N == IF remaining[k] - 1 = 0 THEN {d} ELSE Successor(c)
  <1>1. /\ c.at = "count" /\ k \in Keys /\ k \in inFlight
        /\ c.slice \in DOMAIN c.run.slices
        /\ c \in [run : Runs, slice : Nat, at : {"copy", "count", "insert", "erase"}]
        /\ UNCHANGED <<inFlight, filled, reads, runs, faulty>>
    BY CallFacts DEF FlightTypes, IInv
  <1>2. PICK p \in Parts(k) : Carries(c.run, c.slice, k, p)
    BY <1>1, SliceInHand
  <1>3. PICK counted \in SUBSET Parts(k) : Assembles(k, counted)
    BY <1>1, SliceInHand DEF Assembly, IInv
  <1>4. /\ remaining'[k] = remaining[k] - 1
        /\ \A j \in Keys : j # k => remaining'[j] = remaining[j]
        /\ DOMAIN remaining' = Keys /\ remaining[k] \in Nat
        /\ remaining' = [remaining EXCEPT ![k] = @ - 1]
    BY <1>1 DEF FlightTypes, IInv
  <1>5. /\ d.run = c.run /\ d.slice = c.slice /\ d.at = "insert"
        /\ d \in [run : Runs, slice : Nat, at : {"copy", "count", "insert", "erase"}]
    BY <1>1
  <1>6. calls' = (calls \ {c}) \cup N
    BY <1>4, SuccessorIs DEF At
  <1>7. /\ \A b \in N :
            /\ b.run = c.run /\ b.slice \in DOMAIN b.run.slices
            /\ b.at = (IF remaining[k] - 1 = 0 THEN "insert" ELSE "copy")
            /\ remaining[k] - 1 = 0 => b = d
            /\ b \in [run : Runs, slice : Nat, at : {"copy", "count", "insert", "erase"}]
        /\ \A a, b \in N : a = b
        /\ \A x, i : (\E b \in N : b.run = x /\ i \in Uncounted(b)..Len(x.slices))
                       <=> x = c.run /\ i \in (c.slice + 1)..Len(x.slices)
    <2>1. CASE remaining[k] - 1 = 0
      <3>1. N = {d} /\ Uncounted(d) = c.slice + 1
        BY <2>1, <1>5 DEF Uncounted
      <3>2. QED
        BY <2>1, <3>1, <1>1, <1>5
    <2>2. CASE remaining[k] - 1 # 0
      <3>1. N = Successor(c)
        BY <2>2
      <3>2. QED
        BY <2>2, <3>1, SuccessorIs
    <2>3. QED
      BY <2>1, <2>2
  <1>8. ~Lands(k)
    BY <1>1, SliceInHand
  <1>9. KeyOf(d) = k
    BY <1>5 DEF KeyOf, SliceOf
  <1>10. remaining[k] - 1 = 0 => N = {d}
    OBVIOUS
  <1> HIDE DEF d, N, k
  <1>11. Pending' = Pending
    BY <1>1 DEF Pending
  <1>12. Due' = Due \ {<<c.run, c.slice>>}
    BY <1>1, <1>6, <1>7, <1>11, DueCounted DEF Uncounted
  <1>13. /\ DueParts(k)' = DueParts(k) \ {p} /\ p \in DueParts(k)
         /\ \A j \in Keys : j # k => DueParts(j)' = DueParts(j)
    BY <1>1, <1>2, <1>12, CountedSlice DEF k
  <1>14. p \notin counted
    BY <1>3, <1>13 DEF Assembles
  <1>15. /\ Cardinality(Parts(k) \ (counted \cup {p})) = remaining[k] - 1
         /\ remaining[k] = 1 <=> counted \cup {p} = Parts(k)
         /\ remaining[k] # 0
    <2>1. remaining[k] = Cardinality(Parts(k) \ counted)
      BY <1>3 DEF Assembles
    <2>2. /\ Cardinality(Parts(k) \ (counted \cup {p})) = Cardinality(Parts(k) \ counted) - 1
          /\ Cardinality(Parts(k) \ counted) = 1 <=> counted \cup {p} = Parts(k)
      BY <1>1, <1>2, <1>14, OneFewer
    <2>3. remaining[k] # 0
      <3>1. IsFiniteSet(Parts(k) \ counted)
        BY <1>1, PartsAreFinite, FS_Difference
      <3>2. Cardinality(Parts(k) \ counted) # 0
        BY <3>1, <1>2, <1>14, FS_EmptySet
      <3>3. QED
        BY <3>2, <2>1
    <2>4. QED
      BY <2>1, <2>2, <2>3
  <1>16. FlightTypes'
    <2>1. remaining' \in [Keys -> Nat]
      BY <1>4, <1>15 DEF FlightTypes, IInv
    <2>2. calls' \subseteq [run : Runs, slice : Nat, at : {"copy", "count", "insert", "erase"}]
          /\ \A b \in calls' : b.slice \in DOMAIN b.run.slices
      BY <1>6, <1>7 DEF FlightTypes, IInv
    <2>3. QED
      BY <2>1, <2>2, <1>1 DEF FlightTypes, IInv
  <1>17. RunsApart'
    BY <1>1, <1>6, <1>7, <1>11 DEF RunsApart, IInv
  <1>18. DueSlices'
    BY <1>1, <1>11, <1>12 DEF DueSlices, IInv
  <1>19. \A b : KeyOf(b)' = KeyOf(b)
    BY DEF KeyOf, SliceOf
  <1>20. \A j \in Keys : Copied(j)' \subseteq Copied(j)
    BY <1>6, <1>7 DEF Copied
  <1>21. Copied(k) \subseteq Copied(k)' \cup {p}
    <2>1. ASSUME NEW q \in Copied(k), q \notin Copied(k)'
          PROVE  q = p
      <3>1. q \in Parts(k)
        BY DEF Copied
      <3>2. PICK b \in calls : b.at = "count" /\ Carries(b.run, b.slice, k, q)
        BY DEF Copied
      <3>3. b \notin calls'
        BY <2>1, <3>1, <3>2 DEF Copied
      <3>4. b = c
        BY <3>3, <1>6
      <3>5. QED
        BY <3>1, <3>2, <3>4, <1>1, <1>2, OnePart
    <2>2. QED
      BY <2>1
  <1>22. \A j \in Keys : j # k => Copied(j)' = Copied(j)
    <2>1. ASSUME NEW j \in Keys, j # k, NEW q \in Copied(j)
          PROVE  q \in Copied(j)'
      <3>1. q \in Parts(j)
        BY DEF Copied
      <3>2. PICK b \in calls : b.at = "count" /\ Carries(b.run, b.slice, j, q)
        BY DEF Copied
      <3>3. b # c
        BY <2>1, <3>1, <3>2, <1>1, <1>2, OnePart
      <3>4. QED
        BY <3>1, <3>2, <3>3, <1>6 DEF Copied
    <2>2. QED
      BY <2>1, <1>20
  <1>23. filled[k] = UNION {PartBytes(k, q) : q \in (counted \cup {p}) \cup Copied(k)'}
    <2>1. p \in Copied(k)
      BY <1>1, <1>2 DEF Copied
    <2>2. (counted \cup {p}) \cup Copied(k)' = counted \cup Copied(k)
      BY <2>1, <1>1, <1>20, <1>21
    <2>3. QED
      BY <2>2, <1>3 DEF Assembles
  <1>24. \A b \in N : KeyOf(b) \in inFlight /\ (b.at = "insert" => KeyOf(b) = k)
    <2>1. CASE remaining[k] - 1 = 0
      BY <2>1, <1>1, <1>9, <1>10
    <2>2. CASE remaining[k] - 1 # 0
      <3>1. ASSUME NEW b \in N
            PROVE  b.run = c.run /\ b.slice \in DOMAIN b.run.slices /\ b.at = "copy" /\ b.run \in Runs
        BY <2>2, <1>7
      <3>2. ASSUME NEW b \in N
            PROVE  <<b.run, b.slice>> \in Due'
        <4>1. b.slice \in b.slice..Len(b.run.slices)
          BY <3>1 DEF Runs
        <4>2. b \in calls'
          BY <1>6
        <4>3. QED
          BY <3>1, <4>1, <4>2, DueIsNext DEF DueView, Uncounted
      <3>3. \A b \in N : KeyOf(b) \in inFlight
        <4>1. \A x, i : <<x, i>> \in Due' => x.slices[i].key \in inFlight'
          BY <1>18 DEF DueSlices
        <4>2. \A b \in N : b.run.slices[b.slice].key \in inFlight'
          BY <3>2, <4>1
        <4>3. QED
          BY <4>2, <1>1 DEF KeyOf, SliceOf
      <3>4. QED
        BY <3>1, <3>3
    <2>3. QED
      BY <2>1, <2>2
  <1>25. \A b \in calls' : b.at \in {"insert", "erase"} =>
            \/ b \in calls /\ KeyOf(b) # k
            \/ b \in N /\ b.at = "insert" /\ KeyOf(b) = k /\ remaining[k] = 1
    <2>1. \A b \in calls : b.at \in {"insert", "erase"} => KeyOf(b) # k
      BY <1>8 DEF Lands
    <2>2. \A b \in N : b.at \in {"insert", "erase"} => b.at = "insert" /\ remaining[k] = 1
      BY <1>4, <1>7
    <2>3. QED
      BY <2>1, <2>2, <1>6, <1>24
  <1>26. remaining[k] = 1 =>
            /\ \A e \in Due' : e[1].slices[e[2]].key # k
            /\ filled[k] = DiskImage[k]
    <2>1. ASSUME remaining[k] = 1, NEW e \in Due', e[1].slices[e[2]].key = k
          PROVE  FALSE
      <3>1. PICK j \in Keys : \E q \in Parts(j) : Carries(e[1], e[2], j, q)
        BY <2>1, <1>18 DEF DueSlices
      <3>2. j = k
        BY <2>1, <3>1 DEF Carries
      <3>3. PICK q \in Parts(k) : Carries(e[1], e[2], k, q)
        BY <3>1, <3>2
      <3>4. q \in DueParts(k)'
        BY <2>1, <3>3 DEF DueParts
      <3>5. q \in DueParts(k) /\ q # p /\ q \in counted
        BY <3>3, <3>4, <2>1, <1>13, <1>15
      <3>6. QED
        BY <3>5, <1>3 DEF Assembles
    <2>2. ASSUME remaining[k] = 1
          PROVE  filled[k] = DiskImage[k]
      <3>1. (counted \cup {p}) \cup Copied(k)' = Parts(k)
        BY <2>2, <1>15 DEF Copied
      <3>2. QED
        BY <3>1, <1>1, <1>23, ImageIsParts
    <2>3. QED
      BY <2>1, <2>2
  <1>27. Landings'
    <2>1. \A b \in calls' : KeyOf(b) \in inFlight
      BY <1>6, <1>24 DEF Landings, IInv
    <2>2. \A a, b \in calls' :
            /\ a.at \in {"insert", "erase"} /\ b.at \in {"insert", "erase"} /\ KeyOf(a) = KeyOf(b)
            => a = b
      BY <1>7, <1>25 DEF Landings, IInv
    <2>3. \A b \in calls' : b.at \in {"insert", "erase"} =>
            \A e \in Due' : e[1].slices[e[2]].key # KeyOf(b)
      BY <1>12, <1>25, <1>26 DEF Landings, IInv
    <2>4. \A b \in calls' : b.at = "insert" => filled[KeyOf(b)] = DiskImage[KeyOf(b)]
      BY <1>25, <1>26 DEF Landings, IInv
    <2>5. \A b \in calls' : b.at = "erase" /\ Ample => KeyOf(b) \in resident
      BY <1>25 DEF Landings, IInv
    <2>6. QED
      BY <2>1, <2>2, <2>3, <2>4, <2>5, <1>1, <1>19 DEF Landings, Ample
  <1>28. Assembly'
    <2>1. \A j : j # k => (Lands(j)' <=> Lands(j))
      BY <1>6, <1>19, <1>25, <1>1 DEF Lands
    <2>2. Lands(k)' => remaining[k] = 1
      BY <1>19, <1>25 DEF Lands
    <2>3. remaining[k] = 1 => Lands(k)'
      BY <1>4, <1>5, <1>6, <1>9, <1>10, <1>19 DEF Lands
    <2>4. ASSUME remaining[k] # 1
          PROVE  Assembles(k, counted \cup {p})'
      <3>1. counted \cup {p} # Parts(k)
        BY <2>4, <1>15
      <3>2. (counted \cup {p}) \cap DueParts(k)' = {}
        BY <1>3, <1>13 DEF Assembles
      <3>3. remaining'[k] = Cardinality(Parts(k) \ (counted \cup {p}))
        BY <1>4, <1>15
      <3>4. ~faulty' => Parts(k) \subseteq (counted \cup {p}) \cup DueParts(k)'
        BY <1>1, <1>3, <1>13 DEF Assembles
      <3>5. QED
        BY <3>1, <3>2, <3>3, <3>4, <1>1, <1>23 DEF Assembles
    <2>5. \A j \in Keys : j # k => \A x : Assembles(j, x) => Assembles(j, x)'
      BY <1>1, <1>4, <1>13, <1>22 DEF Assembles
    <2>6. counted \cup {p} \in SUBSET Parts(k)
      BY <1>2
    <2>7. \A j \in Keys : j \notin inFlight' \/ Lands(j)' => remaining'[j] = 0
      BY <2>1, <2>2, <1>1, <1>4 DEF Assembly, IInv
    <2>8. \A j \in inFlight' : Lands(j)' \/ \E x \in SUBSET Parts(j) : Assembles(j, x)'
      <3>1. TAKE j \in inFlight'
      <3>2. CASE j = k
        BY <3>2, <2>3, <2>4, <2>6
      <3>3. CASE j # k
        <4>1. j \in inFlight /\ j \in Keys
          BY <1>1 DEF FlightTypes, IInv
        <4>2. QED
          BY <4>1, <3>3, <2>1, <2>5 DEF Assembly, IInv
      <3>4. QED
        BY <3>2, <3>3
    <2>9. QED
      BY <2>7, <2>8 DEF Assembly
  <1>29. CacheTypes' /\ CacheHoldsDisk' /\ ThreadTypes' /\ Control' /\ AwaitedIsComing'
    BY ReaderLeaves DEF Control, IInv
  <1>30. QED
    BY <1>16, <1>17, <1>18, <1>27, <1>28, <1>29 DEF IInv

-----------------------------------------------------------------------------
\* prefetchAsync() marking its experts in flight and planning their merged reads.
LEMMA MarkInFlightKeeps ==
    ASSUME IInv, MarkInFlight
    PROVE  IInv'
  <1> USE DEF MarkInFlight, cacheVars, ioVars
  <1> DEFINE S == chosen
             rs == RunsOf[S]
  <1>1. /\ S \in SUBSET Keys /\ S \cap (resident \cup inFlight) = {} /\ inFlight' = inFlight \cup S
        /\ runs = <<>> /\ runs' = rs
        /\ UNCHANGED <<capacity, resident, pinned, content, reads, calls, faulty>>
    BY DEF ThreadTypes, Control, IInv
  <1>2. /\ DOMAIN filled' = Keys /\ DOMAIN remaining' = Keys
        /\ \A j \in S : filled'[j] = {} /\ remaining'[j] = Cardinality(Parts(j))
        /\ \A j \in Keys \ S : filled'[j] = filled[j] /\ remaining'[j] = remaining[j]
        /\ filled' \in [Keys -> SUBSET (Int \X Int \X Int)]
    BY <1>1 DEF FlightTypes, IInv
  <1>3. RunsCarry(S)
    BY <1>1, RunsExact
  <1>4. /\ rs \in Seq(Runs)
        /\ \A n \in DOMAIN rs : rs[n] \in Runs /\ 1 \in DOMAIN rs[n].slices /\ rs[n].slices # <<>>
    <2>1. rs \in Seq(Runs) /\ \A n \in DOMAIN rs : rs[n].slices # <<>>
      BY <1>3 DEF RunsCarry
    <2>2. ASSUME NEW n \in DOMAIN rs
          PROVE  rs[n] \in Runs /\ 1 \in DOMAIN rs[n].slices
      <3>1. rs[n] \in Runs
        BY <2>1
      <3>2. rs[n].slices \in Seq(Slices) /\ rs[n].slices # <<>>
        BY <2>1, <3>1 DEF Runs
      <3>3. QED
        BY <3>1, <3>2
    <2>3. QED
      BY <2>1, <2>2
  <1>5. \A n \in DOMAIN rs : \A i \in DOMAIN rs[n].slices :
            \E k \in S : \E p \in Parts(k) : Carries(rs[n], i, k, p)
    BY <1>3 DEF RunsCarry
  <1>6. \A k \in S : \A p \in Parts(k) :
            \E n \in DOMAIN rs : \E i \in DOMAIN rs[n].slices : Carries(rs[n], i, k, p)
    BY <1>3 DEF RunsCarry
  <1>7. \A k \in S : \A p \in Parts(k) : \A n, m \in DOMAIN rs :
            \A i \in DOMAIN rs[n].slices : \A j \in DOMAIN rs[m].slices :
                Carries(rs[n], i, k, p) /\ Carries(rs[m], j, k, p) => n = m /\ i = j
    BY <1>3 DEF RunsCarry
  <1> HIDE DEF rs, S
  <1>8. \A n \in DOMAIN rs : \A i \in DOMAIN rs[n].slices : rs[n].slices[i].key \in S
    BY <1>5 DEF Carries
  <1>9. \A r \in Pending : r \notin Range(rs)
    <2>1. ASSUME NEW r \in Pending
          PROVE  1 \in DOMAIN r.slices /\ r.slices[1].key \in inFlight
      <3>1. r \in Runs /\ r.slices # <<>>
        BY <1>1 DEF Pending, Range, FlightTypes, DueSlices, IInv
      <3>2. r.slices \in Seq(Slices)
        BY <3>1 DEF Runs
      <3>3. 1 \in DOMAIN r.slices
        BY <3>1, <3>2
      <3>4. <<r, 1>> \in Due
        BY <3>3, DueIs DEF DueView
      <3>5. \A x, i : <<x, i>> \in Due => x.slices[i].key \in inFlight
        BY DEF DueSlices, IInv
      <3>6. QED
        BY <3>3, <3>4, <3>5
    <2>2. QED
      BY <2>1, <1>1, <1>8 DEF Range
  <1>10. \A c \in calls : c.run \notin Range(rs)
    <2>1. \A c \in calls : c.slice \in DOMAIN c.run.slices /\ c.run.slices[c.slice].key \in inFlight
      BY DEF FlightTypes, Landings, KeyOf, SliceOf, IInv
    <2>2. QED
      BY <2>1, <1>1, <1>8 DEF Range
  <1>11. Pending' = Pending \cup Range(rs)
    BY <1>1 DEF Pending, Range
  <1>12. \A n, m \in DOMAIN rs : rs[n] = rs[m] => n = m
    <2>1. ASSUME NEW n \in DOMAIN rs, NEW m \in DOMAIN rs, rs[n] = rs[m]
          PROVE  n = m
      <3>1. 1 \in DOMAIN rs[n].slices /\ 1 \in DOMAIN rs[m].slices
        BY <1>4
      <3>2. PICK k \in S : \E p \in Parts(k) : Carries(rs[n], 1, k, p)
        BY <3>1, <1>5
      <3>3. PICK p \in Parts(k) : Carries(rs[n], 1, k, p)
        BY <3>2
      <3>4. Carries(rs[m], 1, k, p)
        BY <2>1, <3>3
      <3>5. QED
        BY <3>1, <3>3, <3>4, <1>7
    <2>2. QED
      BY <2>1
  <1>13. \A x, i : <<x, i>> \in Due' <=>
            <<x, i>> \in Due \/ (x \in Range(rs) /\ i \in DOMAIN x.slices)
    <2>1. DueView' /\ DueView
      BY DueIs, DueIsNext
    <2>2. QED
      BY <2>1, <1>1, <1>11 DEF DueView, Uncounted
  <1>14. \A e \in Due' :
            \/ e \in Due
            \/ \E n \in DOMAIN rs : \E i \in DOMAIN rs[n].slices : e = <<rs[n], i>>
    <2>1. \A e \in Due' : e = <<e[1], e[2]>>
      BY DueIsNext DEF DueView
    <2>2. QED
      BY <2>1, <1>13 DEF Range
  <1>15. Due \subseteq Due'
    BY <1>13, DueIs DEF DueView
  <1>16. \A e \in Due : e[1].slices[e[2]].key \in inFlight
    BY DEF DueSlices, IInv
  <1>17. FlightTypes'
    <2>1. remaining' \in [Keys -> Nat]
      <3>1. \A j \in Keys : Cardinality(Parts(j)) \in Nat
        BY PartsAreFinite, FS_CardinalityType
      <3>2. QED
        BY <3>1, <1>1, <1>2 DEF FlightTypes, IInv
    <2>2. QED
      BY <2>1, <1>1, <1>2, <1>4 DEF FlightTypes, IInv
  <1>18. RunsApart'
    BY <1>1, <1>9, <1>10, <1>11, <1>12 DEF RunsApart, IInv, Pending
  <1>19. DueSlices'
    <2>1. \A r \in Pending' : r.slices # <<>>
      BY <1>4, <1>11 DEF DueSlices, IInv, Range
    <2>2. \A e \in Due' : e[1].slices[e[2]].key \in inFlight'
      BY <1>1, <1>8, <1>14, <1>16
    <2>3. \A e \in Due' : \E k \in Keys : \E p \in Parts(k) : Carries(e[1], e[2], k, p)
      BY <1>1, <1>5, <1>14 DEF DueSlices, IInv
    <2>4. ASSUME NEW e \in Due', NEW f \in Due', NEW k \in Keys, NEW p \in Parts(k),
                 Carries(e[1], e[2], k, p), Carries(f[1], f[2], k, p)
          PROVE  e = f
      <3>1. e[1].slices[e[2]].key = k /\ f[1].slices[f[2]].key = k
        BY <2>4 DEF Carries
      <3>2. CASE k \in inFlight
        <4>1. e \in Due /\ f \in Due
          BY <3>1, <3>2, <1>1, <1>8, <1>14
        <4>2. QED
          BY <2>4, <4>1 DEF DueSlices, IInv
      <3>3. CASE k \notin inFlight
        <4>1. PICK n \in DOMAIN rs : \E i \in DOMAIN rs[n].slices : e = <<rs[n], i>>
          BY <3>1, <3>3, <1>14, <1>16
        <4>2. PICK i \in DOMAIN rs[n].slices : e = <<rs[n], i>>
          BY <4>1
        <4>3. PICK m \in DOMAIN rs : \E j \in DOMAIN rs[m].slices : f = <<rs[m], j>>
          BY <3>1, <3>3, <1>14, <1>16
        <4>4. PICK j \in DOMAIN rs[m].slices : f = <<rs[m], j>>
          BY <4>3
        <4>5. Carries(rs[n], i, k, p) /\ Carries(rs[m], j, k, p)
          BY <2>4, <4>2, <4>4
        <4>6. k \in S
          BY <3>1, <4>2, <1>8
        <4>7. n = m /\ i = j
          BY <4>5, <4>6, <1>7
        <4>8. QED
          BY <4>2, <4>4, <4>7
      <3>4. QED
        BY <3>2, <3>3
    <2>5. QED
      BY <2>1, <2>2, <2>3, <2>4 DEF DueSlices
  <1>20. \A b : KeyOf(b)' = KeyOf(b)
    BY DEF KeyOf, SliceOf
  <1>21. \A b \in calls : KeyOf(b) \in inFlight /\ KeyOf(b) \in Keys \ S
    BY <1>1, CallFacts
  <1>22. Landings'
    <2>1. \A b \in calls' : b.at \in {"insert", "erase"} =>
            \A e \in Due' : e[1].slices[e[2]].key # KeyOf(b)
      <3>1. TAKE b \in calls'
      <3>2. HAVE b.at \in {"insert", "erase"}
      <3>3. TAKE e \in Due'
      <3>4. CASE e \in Due
        BY <3>2, <3>4, <1>1 DEF Landings, IInv
      <3>5. CASE e \notin Due
        BY <3>5, <1>1, <1>8, <1>14, <1>21
      <3>6. QED
        BY <3>4, <3>5
    <2>2. \A b \in calls' : b.at = "insert" => filled'[KeyOf(b)] = DiskImage[KeyOf(b)]
      BY <1>1, <1>2, <1>21 DEF Landings, IInv
    <2>3. \A b \in calls' : KeyOf(b) \in inFlight'
      BY <1>1, <1>21
    <2>4. QED
      BY <2>1, <2>2, <2>3, <1>1, <1>20 DEF Landings, IInv, Ample
  <1>23. Assembly'
    <2>1. \A j : Lands(j)' <=> Lands(j)
      BY <1>1, <1>20 DEF Lands
    <2>2. \A j \in S : ~Lands(j)
      BY <1>21 DEF Lands
    <2>3. \A j : Copied(j)' = Copied(j)
      BY <1>1 DEF Copied
    <2>4. \A j \in S : Copied(j) = {}
      <3>1. \A b \in calls : \A j, q : Carries(b.run, b.slice, j, q) => KeyOf(b) = j
        BY DEF Carries, KeyOf, SliceOf
      <3>2. QED
        BY <3>1, <1>21 DEF Copied
    <2>5. \A j \in Keys \ S : DueParts(j)' = DueParts(j)
      <3>1. ASSUME NEW j \in Keys \ S, NEW q \in DueParts(j)'
            PROVE  q \in DueParts(j)
        <4>1. PICK e \in Due' : Carries(e[1], e[2], j, q)
          BY DEF DueParts
        <4>2. e[1].slices[e[2]].key = j
          BY <4>1 DEF Carries
        <4>3. e \in Due
          BY <4>2, <1>8, <1>14
        <4>4. QED
          BY <4>1, <4>3 DEF DueParts
      <3>2. \A j : DueParts(j) \subseteq DueParts(j)'
        BY <1>15 DEF DueParts
      <3>3. QED
        BY <3>1, <3>2
    <2>6. \A j \in S : Parts(j) \subseteq DueParts(j)'
      <3>1. TAKE j \in S
      <3>2. ASSUME NEW q \in Parts(j)
            PROVE  q \in DueParts(j)'
        <4>1. PICK n \in DOMAIN rs : \E i \in DOMAIN rs[n].slices : Carries(rs[n], i, j, q)
          BY <1>6
        <4>2. PICK i \in DOMAIN rs[n].slices : Carries(rs[n], i, j, q)
          BY <4>1
        <4>3. <<rs[n], i>> \in Due'
          BY <1>13 DEF Range
        <4>4. QED
          BY <4>2, <4>3 DEF DueParts
      <3>3. QED
        BY <3>2
    <2>7. ASSUME NEW j \in S
          PROVE  Assembles(j, {})'
      <3>1. j \in Keys /\ Parts(j) # {}
        BY <1>1, TotalNeedsParts, NothingIsEmpty
      <3>2. Parts(j) \ {} = Parts(j) /\ {} \cup Copied(j)' = {}
        BY <2>3, <2>4
      <3>3. UNION {PartBytes(j, q) : q \in {} \cup Copied(j)'} = {}
        BY <3>2
      <3>4. QED
        BY <3>1, <3>2, <3>3, <2>6, <1>2 DEF Assembles
    <2>8. \A x : \A j \in Keys \ S : Assembles(j, x) => Assembles(j, x)'
      BY <2>3, <2>5, <1>1, <1>2 DEF Assembles
    <2>9. \A j \in Keys : j \notin inFlight' \/ Lands(j)' => remaining'[j] = 0
      BY <2>1, <2>2, <1>1, <1>2 DEF Assembly, IInv
    <2>10. \A j \in inFlight' : Lands(j)' \/ \E x \in SUBSET Parts(j) : Assembles(j, x)'
      <3>1. TAKE j \in inFlight'
      <3>2. CASE j \in S
        BY <3>2, <2>7
      <3>3. CASE j \notin S
        <4>1. j \in inFlight /\ j \in Keys
          BY <1>1, <3>3 DEF FlightTypes, IInv
        <4>2. QED
          BY <4>1, <3>3, <2>1, <2>8 DEF Assembly, IInv
      <3>4. QED
        BY <3>2, <3>3
    <2>11. QED
      BY <2>9, <2>10 DEF Assembly
  <1>24. CacheTypes' /\ CacheHoldsDisk' /\ ThreadTypes'
    BY <1>1 DEF CacheTypes, CacheHoldsDisk, ThreadTypes, IInv
  <1>25. Control' /\ AwaitedIsComing'
    BY DEF Control, AwaitedIsComing
  <1>26. QED
    BY <1>17, <1>18, <1>19, <1>22, <1>23, <1>24, <1>25 DEF IInv

-----------------------------------------------------------------------------
\* Every step keeps the invariant.
LEMMA NextKeeps == IInv /\ [Next]_vars => IInv'
  <1> SUFFICES ASSUME IInv, [Next]_vars PROVE IInv'
    OBVIOUS
  <1>1. ASSUME NEW b \in Batches, NEW demand \in BOOLEAN, Stage(b, demand) PROVE IInv'
    BY <1>1, StageKeeps
  <1>2. ASSUME NEW k \in Keys, PrefetchExpert(k) PROVE IInv'
    BY <1>2, PrefetchExpertKeeps
  <1>3. ASSUME NEW k \in Keys, Get(k) PROVE IInv'
    BY <1>3, GetKeeps
  <1>4. ASSUME NEW k \in Keys, ResidencyPin(k) PROVE IInv'
    BY <1>4, ResidencyPinKeeps
  <1>5. ASSUME NEW k \in Keys, Worker(k) PROVE IInv'
    <2>1. ASSUME NEW r \in reads, Answer(r) PROVE IInv'
      BY <2>1, AnswerKeeps
    <2>2. ASSUME NEW r \in reads, AnswerFails(r) PROVE IInv'
      BY <2>2, AnswerFailsKeeps
    <2>3. ASSUME NEW c \in calls, CopySlice(c) PROVE IInv'
      BY <2>3, CopySliceKeeps
    <2>4. ASSUME NEW c \in calls, CountSlice(c) PROVE IInv'
      BY <2>4, CountSliceKeeps
    <2>5. ASSUME NEW c \in calls, Land(c) PROVE IInv'
      BY <2>5, LandKeeps
    <2>6. ASSUME NEW c \in calls, Unmark(c) PROVE IInv'
      BY <2>6, UnmarkKeeps
    <2>7. QED
      BY <1>5, <2>1, <2>2, <2>3, <2>4, <2>5, <2>6 DEF Worker
  <1>6. ASSUME Generation PROVE IInv'
    BY <1>6, PrefetchExpertStagesKeeps, LookKeeps, LookFlightKeeps, LookAgainKeeps,
       MarkInFlightKeeps, SubmitRunKeeps, StageReturnsKeeps, ProbeKeeps, ProbeFlightKeeps,
       ReprobeKeeps, ReprobeFlightKeeps, PollKeeps, DeadlineKeeps, SyncLoadKeeps, SyncFailsKeeps,
       SyncInsertKeeps, PinWantedKeeps, ConsumeKeeps
    DEF Generation
  <1>7. ASSUME UNCHANGED vars PROVE IInv'
    <2>1. Quiet /\ UNCHANGED <<pc, want, todo, chosen, scratch>>
      BY <1>7 DEF vars, Quiet, flightVars, cacheVars, asmVars, ioVars, genVars
    <2>2. UNCHANGED <<capacity, resident, content, inFlight, runs>>
      BY <2>1 DEF Quiet, cacheVars, flightVars
    <2>3. ThreadTypes' /\ Control' /\ AwaitedIsComing'
      BY <2>1, <2>2 DEF ThreadTypes, Control, AwaitedIsComing, Ample, IInv
    <2>4. QED
      BY <2>1, <2>3, QuietKeeps
  <1>8. QED
    BY <1>1, <1>2, <1>3, <1>4, <1>5, <1>6, <1>7 DEF Next

\* The conjunction of all of the above holds in every state of the pipeline.
THEOREM Invariance == Spec => []IInv
  BY InitEstablishes, NextKeeps, PTL DEF Spec

-----------------------------------------------------------------------------
(***************************************************************************)
(* The state of the pipeline is always well typed; in particular an        *)
(* Assembly's `remaining` never passes zero, which would publish an expert *)
(* twice.                                                                  *)
(***************************************************************************)
THEOREM TypeCorrect == Spec => []TypeOK
  <1>1. IInv => TypeOK
    <2> SUFFICES ASSUME IInv PROVE TypeOK
      OBVIOUS
    <2>1. \A k \in Keys : remaining[k] \in 0..Cardinality(Parts(k))
      <3>1. TAKE k \in Keys
      <3>2. IsFiniteSet(Parts(k)) /\ Cardinality(Parts(k)) \in Nat
        BY PartsAreFinite, FS_CardinalityType
      <3>3. CASE k \notin inFlight \/ Lands(k)
        BY <3>2, <3>3 DEF Assembly, IInv
      <3>4. CASE k \in inFlight /\ ~Lands(k)
        <4>1. PICK counted \in SUBSET Parts(k) : Assembles(k, counted)
          BY <3>4 DEF Assembly, IInv
        <4>2. Parts(k) \ counted \in SUBSET Parts(k)
          OBVIOUS
        <4>3. /\ Cardinality(Parts(k) \ counted) \in Nat
              /\ Cardinality(Parts(k) \ counted) <= Cardinality(Parts(k))
          BY <3>2, <4>2, FS_Subset, FS_CardinalityType
        <4>4. QED
          BY <3>2, <4>1, <4>3 DEF Assembles
      <3>5. QED
        BY <3>3, <3>4
    <2>2. QED
      BY <2>1 DEF TypeOK, IInv, CacheTypes, FlightTypes, ThreadTypes
  <1>2. QED
    BY <1>1, Invariance, PTL

(***************************************************************************)
(* What the cache holds, and what a getter hands to the forward pass, are  *)
(* the bytes of the shard files, however the reads were merged and         *)
(* whichever threads copied their slices in whichever order.               *)
(***************************************************************************)
THEOREM BytesAreExact == Spec => []BytesMatchDisk
  <1>1. IInv => BytesMatchDisk
    BY DEF IInv, CacheHoldsDisk, Control, BytesMatchDisk
  <1>2. QED
    BY <1>1, Invariance, PTL

(***************************************************************************)
(* While no read fails, prefetchedInFlight_ holds exactly the keys whose   *)
(* bytes are still to come.                                                *)
(***************************************************************************)
THEOREM FlightNamesStreaming == Spec => []FlightIsStreamingUnlessFaulty
  <1>1. IInv => FlightIsStreamingUnlessFaulty
    <2> SUFFICES ASSUME IInv, ~faulty
                 PROVE  inFlight = {k \in Keys : Streaming(k)}
      BY DEF FlightIsStreamingUnlessFaulty
    <2>1. inFlight \subseteq Keys
      BY DEF FlightTypes, IInv
    <2>2. ASSUME NEW k \in inFlight
          PROVE  Streaming(k)
      <3>1. CASE Lands(k)
        <4>1. PICK c \in calls : KeyOf(c) = k
          BY <3>1 DEF Lands
        <4>2. c.slice \in c.slice..Len(c.run.slices)
          BY CallFacts
        <4>3. QED
          BY <4>1, <4>2 DEF Streaming, KeyOf, SliceOf
      <3>2. CASE ~Lands(k)
        <4>1. PICK counted \in SUBSET Parts(k) : Assembles(k, counted)
          BY <3>2 DEF Assembly, IInv
        <4>2. PICK q \in DueParts(k) : TRUE
          BY <4>1 DEF Assembles
        <4>3. PICK e \in Due : Carries(e[1], e[2], k, q)
          BY <4>2 DEF DueParts
        <4>4. e[1].slices[e[2]].key = k /\ <<e[1], e[2]>> \in Due
          BY <4>3, DueIs DEF Carries, DueView
        <4>5. CASE e[1] \in Pending /\ e[2] \in DOMAIN e[1].slices
          BY <4>4, <4>5 DEF Pending, Streaming
        <4>6. CASE \E c \in calls : c.run = e[1] /\ e[2] \in Uncounted(c)..Len(e[1].slices)
          <5>1. PICK c \in calls : c.run = e[1] /\ e[2] \in Uncounted(c)..Len(e[1].slices)
            BY <4>6
          <5>2. e[2] \in c.slice..Len(c.run.slices)
            BY <5>1, CallFacts DEF Uncounted
          <5>3. QED
            BY <5>1, <5>2, <4>4 DEF Streaming
        <4>7. QED
          BY <4>4, <4>5, <4>6, DueIs DEF DueView
      <3>3. QED
        BY <3>1, <3>2
    <2>3. ASSUME NEW k \in Keys, Streaming(k)
          PROVE  k \in inFlight
      <3>0. \A x, i : <<x, i>> \in Due => x.slices[i].key \in inFlight
        BY DEF DueSlices, IInv
      <3>1. CASE \E r \in Pending : \E i \in DOMAIN r.slices : r.slices[i].key = k
        <4>1. PICK r \in Pending : \E i \in DOMAIN r.slices : r.slices[i].key = k
          BY <3>1
        <4>2. PICK i \in DOMAIN r.slices : r.slices[i].key = k
          BY <4>1
        <4>3. <<r, i>> \in Due
          BY DueIs DEF DueView
        <4>4. QED
          BY <3>0, <4>2, <4>3
      <3>2. CASE \E c \in calls : \E i \in c.slice..Len(c.run.slices) : c.run.slices[i].key = k
        <4>1. PICK c \in calls :
                \E i \in c.slice..Len(c.run.slices) : c.run.slices[i].key = k
          BY <3>2
        <4>2. PICK i \in c.slice..Len(c.run.slices) : c.run.slices[i].key = k
          BY <4>1
        <4>3. CASE i = c.slice
          BY <4>2, <4>3 DEF Landings, KeyOf, SliceOf, IInv
        <4>4. CASE i # c.slice
          <5>1. i \in Uncounted(c)..Len(c.run.slices)
            BY <4>4, CallFacts DEF Uncounted
          <5>2. <<c.run, i>> \in Due
            BY <5>1, DueIs DEF DueView
          <5>3. QED
            BY <5>2, <4>2, <3>0
        <4>5. QED
          BY <4>3, <4>4
      <3>3. QED
        BY <2>3, <3>1, <3>2 DEF Streaming, Pending
    <2>4. QED
      BY <2>1, <2>2, <2>3
  <1>2. QED
    BY <1>1, Invariance, PTL

(***************************************************************************)
(* prefetchAsync never chooses a key that is resident or in flight.        *)
(***************************************************************************)
THEOREM StagedOnce == Spec => []NothingStagedTwice
  <1>1. IInv => NothingStagedTwice
    BY DEF IInv, Control, NothingStagedTwice
  <1>2. QED
    BY <1>1, Invariance, PTL

(***************************************************************************)
(* With room for every expert, a getter polls only for a key that is       *)
(* resident or in flight.                                                  *)
(***************************************************************************)
THEOREM WaitsAreAnswered == Spec => []AwaitedIsComing
  <1>1. IInv => AwaitedIsComing
    BY DEF IInv
  <1>2. QED
    BY <1>1, Invariance, PTL
=============================================================================
