--------------------------- MODULE ForwardProofs ---------------------------
(***************************************************************************)
(* Proofs about the decoding loop and its key/value cache.                 *)
(***************************************************************************)
EXTENDS Forward, FoldLemmas, TLAPS

USE DEF Offsets

\* The sizes of the model are positive.
LEMMA Dimensions ==
    /\ NumLayers \in Nat \ {0} /\ NumHeads \in Nat \ {0}
    /\ QkDim \in Nat \ {0} /\ VDim \in Nat \ {0} /\ IndexDim \in Nat \ {0}
  BY DimensionsAssumption

\* Division undoes multiplication.
LEMMA DivMod ==
    ASSUME NEW n \in Nat \ {0}, NEW q \in Nat, NEW r \in 0 .. n - 1
    PROVE  (q * n + r) \div n = q /\ (q * n + r) % n = r
  OBVIOUS

\* The r-th float of the q-th of m blocks of n lies within them.
LEMMA InBlock ==
    ASSUME NEW n \in Nat \ {0}, NEW m \in Nat, NEW q \in 0 .. m - 1, NEW r \in 0 .. n - 1
    PROVE  q * n + r \in 0 .. m * n - 1
  OBVIOUS

\* A float of m blocks of n lies in one of them.
LEMMA BlockOf ==
    ASSUME NEW n \in Nat \ {0}, NEW m \in Nat, NEW x \in 0 .. m * n - 1
    PROVE  /\ x \div n \in 0 .. m - 1
           /\ x % n \in 0 .. n - 1
           /\ x = (x \div n) * n + (x % n)
<1>1. x \in Nat
  OBVIOUS
<1>2. x \div n \in Int /\ x % n \in 0 .. n - 1
  BY <1>1
<1>3. x = n * (x \div n) + (x % n)
  BY <1>1
<1>4. x \div n \in Nat
  BY <1>1
<1>5. (x \div n) * n <= x /\ x < m * n
  BY <1>2, <1>3, <1>4
<1>6. x \div n < m
  BY <1>4, <1>5
<1>7. QED
  BY <1>2, <1>3, <1>4, <1>6

\* Where the d-th float of position t of head h is, and what the index tells of it.
LEMMA Place ==
    ASSUME NEW nh \in Nat, NEW cap \in Nat \ {0}, NEW dim \in Nat \ {0},
           NEW stride, stride = cap * dim,
           NEW h \in 0 .. nh - 1, NEW t \in 0 .. cap - 1, NEW d \in 0 .. dim - 1
    PROVE  /\ stride \in Nat \ {0}
           /\ h * stride + t * dim + d \in 0 .. nh * stride - 1
           /\ (h * stride + t * dim + d) \div stride = h
           /\ (h * stride + t * dim + d) % stride = t * dim + d
           /\ ((h * stride + t * dim + d) % stride) \div dim = t
           /\ ((h * stride + t * dim + d) % stride) % dim = d
<1> DEFINE r == t * dim + d
<1>1. stride \in Nat \ {0}
  OBVIOUS
<1>2. r \in 0 .. stride - 1
  BY InBlock
<1>3. r \div dim = t /\ r % dim = d
  BY DivMod
<1>4. r \in Nat /\ h * stride \in Nat /\ t * dim \in Nat
  BY <1>1, <1>2
<1>5. h * stride + t * dim + d = h * stride + r
  BY <1>4
<1> HIDE DEF r
<1>6. h * stride + r \in 0 .. nh * stride - 1
  BY <1>1, <1>2, InBlock
<1>7. (h * stride + r) \div stride = h /\ (h * stride + r) % stride = r
  <2>1. ASSUME NEW n \in Nat \ {0}, NEW q \in Nat, NEW x \in 0 .. n - 1
        PROVE  (q * n + x) \div n = q /\ (q * n + x) % n = x
    BY DivMod
  <2>2. h \in Nat
    OBVIOUS
  <2>3. QED
    BY ONLY <1>1, <1>2, <2>1, <2>2
<1>8. QED
  BY <1>1, <1>3, <1>5, <1>6, <1>7 DEF r

-----------------------------------------------------------------------------
\* What a buffer of `cap` positions of `dim` floats per head holds of position t of head h.
Block(buf, cap, dim, h, t) == [d \in Offsets(dim) |-> buf[h * (cap * dim) + t * dim + d]]

\* The buffer has room for `cap` positions of every head.
HasRoom(buf, heads, cap, dim) == DOMAIN buf = Offsets(heads * (cap * dim))

\* The buffer after a row is copied to its place, and after it has grown.
Appended(buf, cap, dim, pos, row) == Written(buf, cap * dim, dim, pos, row)
Grown(buf, cap, new, dim) == Rebased(buf, cap * dim, new * dim)
Lengthened(buf, new, dim) == Resized(buf, new * dim)

\* The copy of a row into its place changes the blocks of its position only.
LEMMA AppendedBlocks ==
    ASSUME NEW nh \in Nat, NEW cap \in Nat \ {0}, NEW dim \in Nat \ {0},
           NEW buf, HasRoom(buf, nh, cap, dim),
           NEW row, NEW pos \in 0 .. cap - 1,
           NEW h \in 0 .. nh - 1, NEW t \in 0 .. cap - 1
    PROVE  Block(Appended(buf, cap, dim, pos, row), cap, dim, h, t)
             = IF t = pos THEN Part(row, h, dim) ELSE Block(buf, cap, dim, h, t)
<1> DEFINE stride == cap * dim
           w == Written(buf, stride, dim, pos, row)
<1> HIDE DEF w
<1>1. ASSUME NEW d \in Offsets(dim)
      PROVE  w[h * stride + t * dim + d] = IF t = pos THEN row[h * dim + d] ELSE buf[h * stride + t * dim + d]
  <2> DEFINE i == h * stride + t * dim + d
  <2>1. /\ i \in 0 .. nh * stride - 1
        /\ i \div stride = h
        /\ (i % stride) \div dim = t
        /\ (i % stride) % dim = d
    <3>1. stride = cap * dim /\ d \in 0 .. dim - 1
      OBVIOUS
    <3> HIDE DEF stride
    <3>2. /\ i \in 0 .. nh * stride - 1
          /\ i \div stride = h
          /\ i % stride = t * dim + d
      BY <3>1, Place
    <3>5. (t * dim + d) \div dim = t /\ (t * dim + d) % dim = d
      <4>1. t \in Nat
        OBVIOUS
      <4>2. QED
        BY <3>1, <4>1, DivMod
    <3>6. QED
      BY <3>2, <3>5
  <2>2. i \in DOMAIN buf
    BY <2>1 DEF HasRoom
  <2> HIDE DEF i
  <2>3. w[i] = IF (i % stride) \div dim = pos
               THEN row[(i \div stride) * dim + ((i % stride) % dim)]
               ELSE buf[i]
    BY <2>2 DEF Written, w
  <2>4. QED
    BY <2>1, <2>3 DEF i
<1> HIDE DEF stride
<1>2. QED
  BY <1>1 DEF Block, Appended, Part, w, stride

\* A head-major buffer that grows keeps the blocks it had, and has blank ones behind them.
LEMMA GrownBlocks ==
    ASSUME NEW cap \in Nat \ {0}, NEW new \in Nat, cap <= new, NEW dim \in Nat \ {0},
           NEW buf, NEW h \in Heads, NEW t \in 0 .. new - 1
    PROVE  Block(Grown(buf, cap, new, dim), new, dim, h, t)
             = IF t < cap THEN Block(buf, cap, dim, h, t) ELSE Buffer(dim)
<1> DEFINE old == cap * dim
           stride == new * dim
           w == Rebased(buf, old, stride)
<1>0. new \in Nat \ {0} /\ NumHeads \in Nat
  BY Dimensions
<1>1. ASSUME NEW d \in Offsets(dim)
      PROVE  w[h * stride + t * dim + d] = IF t < cap THEN buf[h * old + t * dim + d] ELSE Zero
  <2> DEFINE i == h * stride + t * dim + d
  <2>1. /\ i \in 0 .. NumHeads * stride - 1
        /\ i \div stride = h
        /\ i % stride = t * dim + d
    <3>1. stride = new * dim /\ h \in 0 .. NumHeads - 1 /\ d \in 0 .. dim - 1
      BY DEF Heads
    <3> HIDE DEF stride
    <3>2. QED
      BY <1>0, <3>1, Place
  <2>2. t * dim + d < old <=> t < cap
    <3>1. CASE t < cap
      <4>1. t \in 0 .. cap - 1 /\ d \in 0 .. dim - 1
        BY <3>1
      <4>2. t * dim + d \in 0 .. cap * dim - 1
        BY <4>1, InBlock
      <4>3. QED
        BY <3>1, <4>2
    <3>2. CASE t >= cap
      <4>1. t * dim >= cap * dim
        BY <3>2
      <4>2. QED
        BY <3>2, <4>1
    <3>3. QED
      BY <3>1, <3>2
  <2>3. w[i] = IF i % stride < old THEN buf[(i \div stride) * old + (i % stride)] ELSE Zero
    BY <2>1 DEF Rebased
  <2>4. t * dim + d \in Int /\ h * old \in Int /\ h * old + (t * dim + d) = h * old + t * dim + d
    BY DEF Heads
  <2> HIDE DEF i, old, stride, w
  <2>5. QED
    BY <2>1, <2>2, <2>3, <2>4 DEF i
<1> HIDE DEF w, old, stride
<1>2. CASE t < cap
  BY <1>1, <1>2 DEF Block, Grown, w, stride, old
<1>3. CASE ~(t < cap)
  BY <1>1, <1>3 DEF Block, Grown, Buffer, w, stride, old
<1>4. QED
  BY <1>2, <1>3

\* A token-major buffer that grows keeps its rows, and has blank ones behind them.
LEMMA LengthenedBlocks ==
    ASSUME NEW cap \in Nat \ {0}, NEW new \in Nat, cap <= new, NEW dim \in Nat \ {0},
           NEW buf, DOMAIN buf = Offsets(cap * dim), NEW t \in 0 .. new - 1
    PROVE  Block(Lengthened(buf, new, dim), new, dim, 0, t)
             = IF t < cap THEN Block(buf, cap, dim, 0, t) ELSE Buffer(dim)
<1>1. ASSUME NEW d \in Offsets(dim)
      PROVE  Resized(buf, new * dim)[t * dim + d] = IF t < cap THEN buf[t * dim + d] ELSE Zero
  <2>1. t * dim + d \in Offsets(new * dim)
    BY InBlock
  <2>2. t * dim + d \in Offsets(cap * dim) <=> t < cap
    <3>1. CASE t < cap
      <4>1. t \in 0 .. cap - 1 /\ d \in 0 .. dim - 1
        BY <3>1
      <4>2. t * dim + d \in 0 .. cap * dim - 1
        BY <4>1, InBlock
      <4>3. QED
        BY <3>1, <4>2
    <3>2. CASE t >= cap
      <4>1. t * dim >= cap * dim
        BY <3>2
      <4>2. QED
        BY <3>2, <4>1
    <3>3. QED
      BY <3>1, <3>2
  <2>3. QED
    BY <2>1, <2>2 DEF Resized
<1>2. \A d \in Offsets(dim) : /\ 0 * (new * dim) + t * dim + d = t * dim + d
                              /\ 0 * (cap * dim) + t * dim + d = t * dim + d
  OBVIOUS
<1>3. CASE t < cap
  BY <1>1, <1>2, <1>3 DEF Block, Lengthened
<1>4. CASE ~(t < cap)
  BY <1>1, <1>2, <1>4 DEF Block, Lengthened, Buffer
<1>5. QED
  BY <1>3, <1>4

-----------------------------------------------------------------------------
\* The loop of growTo ends with a capacity that is large enough, and it only grows.
LEMMA NewCapSuffices ==
    ASSUME NEW c, c.cap \in Nat \ {0}, NEW need \in Nat
    PROVE  /\ NewCap(c, need) \in Nat \ {0}
           /\ NewCap(c, need) >= need
           /\ NewCap(c, need) >= c.cap
<1> DEFINE V == [cap : Nat, floor : Nat]
           base == [cap |-> c.cap, floor |-> FirstStep]
           step == [x \in V |-> [cap |-> Larger(x.cap * 2, x.floor), floor |-> x.floor * 2]]
           Eq(f) == f = [i \in Nat |->
                          IF i = 0 THEN [cap |-> c.cap, floor |-> FirstStep]
                          ELSE [cap |-> Larger(f[i - 1].cap * 2, f[i - 1].floor),
                                floor |-> f[i - 1].floor * 2]]
           turns == Turns(c.cap)
<1>1. FirstStep \in Nat
  BY DimensionsAssumption
<1>2. base \in V /\ step \in [V -> V]
  BY <1>1 DEF Larger
<1>3. PICK g \in [Nat -> V] : g[0] = base /\ \A i \in Nat : g[i + 1] = step[g[i]]
  <2> HIDE DEF V, base, step
  <2>1. QED
    BY <1>2, IterationExists
<1>4. Eq(g)
  <2>1. ASSUME NEW i \in Nat
        PROVE  g[i] = IF i = 0 THEN [cap |-> c.cap, floor |-> FirstStep]
                      ELSE [cap |-> Larger(g[i - 1].cap * 2, g[i - 1].floor),
                            floor |-> g[i - 1].floor * 2]
    <3>1. CASE i = 0
      BY <1>3, <3>1
    <3>2. CASE i # 0
      <4>1. i - 1 \in Nat /\ (i - 1) + 1 = i
        BY <3>2
      <4>2. g[i] = step[g[i - 1]] /\ g[i - 1] \in V
        BY <1>3, <4>1
      <4>3. QED
        BY <3>2, <4>2
    <3>3. QED
      BY <3>1, <3>2
  <2>2. QED
    BY <2>1
<1>5. turns = CHOOSE f : Eq(f)
  BY DEF Turns
<1>6. Eq(turns)
  <2> HIDE DEF Eq, turns
  <2>1. QED
    BY <1>4, <1>5
<1> HIDE DEF turns, V, base, step
<1>7. /\ turns[0].cap = c.cap /\ turns[0].floor = FirstStep
      /\ \A i \in Nat : /\ turns[i + 1].cap = Larger(turns[i].cap * 2, turns[i].floor)
                        /\ turns[i + 1].floor = turns[i].floor * 2
  <2>1. turns[0] = [cap |-> c.cap, floor |-> FirstStep]
    BY <1>6
  <2>2. ASSUME NEW i \in Nat
        PROVE  turns[i + 1] = [cap |-> Larger(turns[i].cap * 2, turns[i].floor),
                               floor |-> turns[i].floor * 2]
    <3>1. i + 1 \in Nat /\ i + 1 # 0 /\ (i + 1) - 1 = i
      OBVIOUS
    <3>2. QED
      BY <1>6, <3>1
  <2>3. ASSUME NEW i \in Nat
        PROVE  /\ turns[i + 1].cap = Larger(turns[i].cap * 2, turns[i].floor)
               /\ turns[i + 1].floor = turns[i].floor * 2
    <3> DEFINE a == Larger(turns[i].cap * 2, turns[i].floor)
               b == turns[i].floor * 2
    <3>1. turns[i + 1] = [cap |-> a, floor |-> b]
      BY <2>2
    <3> HIDE DEF a, b, Eq
    <3>2. turns[i + 1].cap = a /\ turns[i + 1].floor = b
      BY <3>1
    <3>3. QED
      BY <3>2 DEF a, b
  <2>4. QED
    BY <2>1, <2>3
<1> HIDE DEF Eq
<1> DEFINE Good(i) == /\ turns[i].cap \in Nat /\ turns[i].floor \in Nat
                      /\ turns[i].cap >= c.cap + i
           Bad == {i \in Nat : ~Good(i)}
<1>8. \A i \in Nat : Good(i)
  <2>1. SUFFICES ASSUME Bad # {}
                 PROVE  FALSE
    OBVIOUS
  <2>2. PICK i \in Bad : \A j \in Bad : i <= j
    <3>1. Bad \in SUBSET Nat
      OBVIOUS
    <3> HIDE DEF Bad
    <3>2. QED
      BY <2>1, <3>1, LeastNat
  <2>3. i \in Nat /\ ~Good(i)
    BY <2>2
  <2>4. i # 0
    BY <1>1, <1>7, <2>3
  <2>5. i - 1 \in Nat /\ (i - 1) + 1 = i /\ Good(i - 1)
    BY <2>2, <2>3, <2>4
  <2>6. turns[i].cap = Larger(turns[i - 1].cap * 2, turns[i - 1].floor)
        /\ turns[i].floor = turns[i - 1].floor * 2
    BY <1>7, <2>5
  <2>7. Good(i)
    BY <2>3, <2>4, <2>5, <2>6 DEF Larger
  <2>8. QED
    BY <2>3, <2>7
<1> DEFINE Enough == {i \in 0 .. need : turns[i].cap >= need}
<1>9. need \in Enough
  BY <1>8
<1>10. Min(Enough) \in Enough
  <2>1. Enough \in SUBSET Nat /\ Enough # {}
    BY <1>9
  <2>2. \E x \in Enough : \A y \in Enough : x <= y
    <3> HIDE DEF Enough
    <3>1. QED
      BY <2>1, LeastNat
  <2> HIDE DEF Enough
  <2>3. QED
    BY <2>2 DEF Min
<1>11. NewCap(c, need) = turns[Min(Enough)].cap
  BY DEF NewCap, turns
<1> DEFINE m == Min(Enough)
<1>12. m \in Nat /\ turns[m].cap >= need
  BY <1>10
<1> HIDE DEF m, Enough, Bad
<1>13. turns[m].cap \in Nat /\ turns[m].cap >= c.cap + m
  BY <1>8, <1>12
<1>14. QED
  BY <1>11, <1>12, <1>13 DEF m

-----------------------------------------------------------------------------
\* A cache of the right shape: every buffer has room for `cap` positions of every head.
IsCache(c) ==
    /\ c = [cap |-> c.cap, len |-> c.len, stride |-> c.stride,
            key |-> c.key, value |-> c.value, indexKey |-> c.indexKey]
    /\ c.cap \in Nat \ {0}
    /\ c.stride = c.cap * QkDim
    /\ DOMAIN c.key = Layers /\ DOMAIN c.value = Layers /\ DOMAIN c.indexKey = Layers
    /\ \A l \in Layers :
        /\ HasRoom(c.key[l], NumHeads, c.cap, QkDim)
        /\ HasRoom(c.value[l], NumHeads, c.cap, VDim)
        /\ HasRoom(c.indexKey[l], 1, c.cap, IndexDim)

\* What it holds of position t of head h.
KeyAt(c, l, h, t) == Block(c.key[l], c.cap, QkDim, h, t)
ValueAt(c, l, h, t) == Block(c.value[l], c.cap, VDim, h, t)
IndexKeyAt(c, l, t) == Block(c.indexKey[l], c.cap, IndexDim, 0, t)

\* Growing keeps the shape and every row, and the rows behind them are blank.
LEMMA GrowToKeeps ==
    ASSUME NEW c, IsCache(c), NEW pos \in Nat
    PROVE  LET g == GrowTo(c, pos)
           IN  /\ IsCache(g)
               /\ g.len = c.len
               /\ g.cap >= c.cap /\ g.cap > pos
               /\ \A l \in Layers, t \in 0 .. g.cap - 1 :
                   /\ \A h \in Heads :
                       /\ KeyAt(g, l, h, t)
                            = IF t < c.cap THEN KeyAt(c, l, h, t) ELSE Buffer(QkDim)
                       /\ ValueAt(g, l, h, t)
                            = IF t < c.cap THEN ValueAt(c, l, h, t) ELSE Buffer(VDim)
                   /\ IndexKeyAt(g, l, t)
                        = IF t < c.cap THEN IndexKeyAt(c, l, t) ELSE Buffer(IndexDim)
<1> DEFINE g == GrowTo(c, pos)
<1>1. CASE pos < c.cap
  <2>1. g = c
    BY <1>1 DEF GrowTo
  <2>2. \A t \in 0 .. c.cap - 1 : t < c.cap
    BY DEF IsCache
  <2>3. c.cap \in Nat
    BY DEF IsCache
  <2> HIDE DEF g
  <2>4. QED
    BY <1>1, <2>1, <2>2, <2>3 DEF g
<1>2. CASE ~(pos < c.cap)
  <2> DEFINE cap == NewCap(c, pos + 1)
             key == [l \in Layers |-> Rebased(c.key[l], c.stride, cap * QkDim)]
             value == [l \in Layers |-> Rebased(c.value[l], c.cap * VDim, cap * VDim)]
             indexKey == [l \in Layers |-> Resized(c.indexKey[l], cap * IndexDim)]
  <2>1. c.cap \in Nat \ {0} /\ pos + 1 \in Nat
    BY DEF IsCache
  <2>2. cap \in Nat \ {0} /\ cap >= pos + 1 /\ cap >= c.cap
    BY <2>1, NewCapSuffices
  <2> HIDE DEF cap
  <2>3. g = [c EXCEPT !.cap = cap, !.stride = cap * QkDim, !.key = key,
                      !.value = value, !.indexKey = indexKey]
    BY <1>2 DEF GrowTo, cap
  <2> HIDE DEF g, key, value, indexKey
  <2>4. /\ g.cap = cap /\ g.len = c.len /\ g.stride = cap * QkDim
        /\ g.key = key /\ g.value = value /\ g.indexKey = indexKey
        /\ g = [cap |-> g.cap, len |-> g.len, stride |-> g.stride,
                key |-> g.key, value |-> g.value, indexKey |-> g.indexKey]
    BY <2>3 DEF IsCache
  <2>5. IsCache(g)
    <3>1. /\ DOMAIN key = Layers /\ DOMAIN value = Layers /\ DOMAIN indexKey = Layers
      BY DEF key, value, indexKey
    <3>2. ASSUME NEW l \in Layers
          PROVE  /\ HasRoom(key[l], NumHeads, cap, QkDim)
                 /\ HasRoom(value[l], NumHeads, cap, VDim)
                 /\ HasRoom(indexKey[l], 1, cap, IndexDim)
      <4>1. 1 * (cap * IndexDim) = cap * IndexDim
        BY <2>2, Dimensions
      <4>2. QED
        BY <4>1 DEF key, value, indexKey, HasRoom, Rebased, Resized
    <3>3. QED
      BY <2>2, <2>4, <3>1, <3>2 DEF IsCache
  <2>6. ASSUME NEW l \in Layers, NEW t \in 0 .. cap - 1
        PROVE  /\ \A h \in Heads :
                   /\ Block(key[l], cap, QkDim, h, t)
                        = IF t < c.cap THEN KeyAt(c, l, h, t) ELSE Buffer(QkDim)
                   /\ Block(value[l], cap, VDim, h, t)
                        = IF t < c.cap THEN ValueAt(c, l, h, t) ELSE Buffer(VDim)
               /\ Block(indexKey[l], cap, IndexDim, 0, t)
                    = IF t < c.cap THEN IndexKeyAt(c, l, t) ELSE Buffer(IndexDim)
    <3>1. /\ key[l] = Grown(c.key[l], c.cap, cap, QkDim)
          /\ value[l] = Grown(c.value[l], c.cap, cap, VDim)
          /\ indexKey[l] = Lengthened(c.indexKey[l], cap, IndexDim)
      BY DEF key, value, indexKey, IsCache, Grown, Lengthened
    <3>2. DOMAIN c.indexKey[l] = Offsets(c.cap * IndexDim)
      <4>1. 1 * (c.cap * IndexDim) = c.cap * IndexDim
        BY <2>1, Dimensions
      <4>2. QED
        BY <4>1 DEF IsCache, HasRoom
    <3>3. ASSUME NEW h \in Heads
          PROVE  /\ Block(key[l], cap, QkDim, h, t)
                      = IF t < c.cap THEN KeyAt(c, l, h, t) ELSE Buffer(QkDim)
                 /\ Block(value[l], cap, VDim, h, t)
                      = IF t < c.cap THEN ValueAt(c, l, h, t) ELSE Buffer(VDim)
      BY <2>1, <2>2, <3>1, Dimensions, GrownBlocks DEF KeyAt, ValueAt
    <3>4. Block(indexKey[l], cap, IndexDim, 0, t)
            = IF t < c.cap THEN IndexKeyAt(c, l, t) ELSE Buffer(IndexDim)
      BY <2>1, <2>2, <3>1, <3>2, Dimensions, LengthenedBlocks DEF IndexKeyAt
    <3>5. QED
      BY <3>3, <3>4
  <2>7. g.cap >= c.cap /\ g.cap > pos
    BY <2>1, <2>2, <2>4
  <2>8. QED
    BY <2>4, <2>5, <2>6, <2>7 DEF g, KeyAt, ValueAt, IndexKeyAt
<1>3. QED
  BY <1>1, <1>2

\* Appending a key within the capacity puts it in its place and moves nothing else.
LEMMA AppendKeyKeeps ==
    ASSUME NEW c, IsCache(c), NEW l \in Layers, NEW pos \in 0 .. c.cap - 1, NEW row
    PROVE  LET a == AppendKey(c, l, pos, row)
           IN  /\ IsCache(a)
               /\ a.cap = c.cap /\ a.len = c.len
               /\ a.value = c.value /\ a.indexKey = c.indexKey
               /\ \A k \in Layers, t \in 0 .. c.cap - 1, h \in Heads :
                   KeyAt(a, k, h, t)
                     = IF k = l /\ t = pos THEN Part(row, h, QkDim) ELSE KeyAt(c, k, h, t)
<1> DEFINE a == AppendKey(c, l, pos, row)
           new == [c.key EXCEPT ![l] = Appended(c.key[l], c.cap, QkDim, pos, row)]
<1>1. c.cap \in Nat \ {0} /\ c.stride = c.cap * QkDim
  BY DEF IsCache
<1>2. GrowTo(c, pos) = c
  BY <1>1 DEF GrowTo
<1>3. a = [c EXCEPT !.key = new]
  BY <1>1, <1>2 DEF AppendKey, Appended
<1>4. /\ DOMAIN new = Layers
      /\ \A k \in Layers : DOMAIN new[k] = DOMAIN c.key[k]
  BY DEF IsCache, Appended, Written
<1>5. \A k \in Layers : new[k] = IF k = l THEN Appended(c.key[l], c.cap, QkDim, pos, row) ELSE c.key[k]
  BY DEF IsCache
<1> HIDE DEF a, new
<1>6. /\ a.cap = c.cap /\ a.len = c.len /\ a.stride = c.stride
      /\ a.key = new /\ a.value = c.value /\ a.indexKey = c.indexKey
      /\ a = [cap |-> a.cap, len |-> a.len, stride |-> a.stride,
              key |-> a.key, value |-> a.value, indexKey |-> a.indexKey]
  BY <1>3 DEF IsCache
<1>7. IsCache(a)
  BY <1>4, <1>6 DEF IsCache, HasRoom
<1>8. ASSUME NEW k \in Layers, NEW t \in 0 .. c.cap - 1, NEW h \in Heads
      PROVE  KeyAt(a, k, h, t)
               = IF k = l /\ t = pos THEN Part(row, h, QkDim) ELSE KeyAt(c, k, h, t)
  <2>1. CASE k = l
    <3> DEFINE buf == c.key[l]
    <3>1. HasRoom(buf, NumHeads, c.cap, QkDim) /\ h \in 0 .. NumHeads - 1 /\ NumHeads \in Nat
      BY Dimensions DEF IsCache, Heads
    <3>2. c.cap \in Nat \ {0} /\ t \in 0 .. c.cap - 1 /\ pos \in 0 .. c.cap - 1 /\ QkDim \in Nat \ {0}
      BY <1>1, Dimensions
    <3> DEFINE cap == c.cap
    <3>3. /\ HasRoom(buf, NumHeads, cap, QkDim) /\ cap \in Nat \ {0}
          /\ t \in 0 .. cap - 1 /\ pos \in 0 .. cap - 1
      BY <3>1, <3>2
    <3> HIDE DEF buf, cap
    <3>4. Block(Appended(buf, cap, QkDim, pos, row), cap, QkDim, h, t)
            = IF t = pos THEN Part(row, h, QkDim) ELSE Block(buf, cap, QkDim, h, t)
      BY ONLY <3>1, <3>2, <3>3, AppendedBlocks
    <3>5. QED
      BY <1>5, <1>6, <2>1, <3>4 DEF KeyAt, buf, cap
  <2>2. CASE k # l
    BY <1>5, <1>6, <2>2 DEF KeyAt
  <2>3. QED
    BY <2>1, <2>2
<1>9. QED
  BY <1>6, <1>7, <1>8 DEF a

\* Appending a value within the capacity puts it in its place and moves nothing else.
LEMMA AppendValueKeeps ==
    ASSUME NEW c, IsCache(c), NEW l \in Layers, NEW pos \in 0 .. c.cap - 1, NEW row
    PROVE  LET a == AppendValue(c, l, pos, row)
           IN  /\ IsCache(a)
               /\ a.cap = c.cap /\ a.len = c.len
               /\ a.key = c.key /\ a.indexKey = c.indexKey
               /\ \A k \in Layers, t \in 0 .. c.cap - 1, h \in Heads :
                   ValueAt(a, k, h, t)
                     = IF k = l /\ t = pos THEN Part(row, h, VDim) ELSE ValueAt(c, k, h, t)
<1> DEFINE a == AppendValue(c, l, pos, row)
           new == [c.value EXCEPT ![l] = Appended(c.value[l], c.cap, VDim, pos, row)]
<1>1. c.cap \in Nat \ {0} /\ c.stride = c.cap * QkDim
  BY DEF IsCache
<1>2. GrowTo(c, pos) = c
  BY <1>1 DEF GrowTo
<1>3. a = [c EXCEPT !.value = new]
  BY <1>1, <1>2 DEF AppendValue, Appended
<1>4. /\ DOMAIN new = Layers
      /\ \A k \in Layers : DOMAIN new[k] = DOMAIN c.value[k]
  BY DEF IsCache, Appended, Written
<1>5. \A k \in Layers : new[k] = IF k = l THEN Appended(c.value[l], c.cap, VDim, pos, row) ELSE c.value[k]
  BY DEF IsCache
<1> HIDE DEF a, new
<1>6. /\ a.cap = c.cap /\ a.len = c.len /\ a.stride = c.stride
      /\ a.value = new /\ a.key = c.key /\ a.indexKey = c.indexKey
      /\ a = [cap |-> a.cap, len |-> a.len, stride |-> a.stride,
              key |-> a.key, value |-> a.value, indexKey |-> a.indexKey]
  BY <1>3 DEF IsCache
<1>7. IsCache(a)
  BY <1>4, <1>6 DEF IsCache, HasRoom
<1>8. ASSUME NEW k \in Layers, NEW t \in 0 .. c.cap - 1, NEW h \in Heads
      PROVE  ValueAt(a, k, h, t)
               = IF k = l /\ t = pos THEN Part(row, h, VDim) ELSE ValueAt(c, k, h, t)
  <2>1. CASE k = l
    <3> DEFINE buf == c.value[l]
    <3>1. HasRoom(buf, NumHeads, c.cap, VDim) /\ h \in 0 .. NumHeads - 1 /\ NumHeads \in Nat
      BY Dimensions DEF IsCache, Heads
    <3>2. c.cap \in Nat \ {0} /\ t \in 0 .. c.cap - 1 /\ pos \in 0 .. c.cap - 1 /\ VDim \in Nat \ {0}
      BY <1>1, Dimensions
    <3> DEFINE cap == c.cap
    <3>3. /\ HasRoom(buf, NumHeads, cap, VDim) /\ cap \in Nat \ {0}
          /\ t \in 0 .. cap - 1 /\ pos \in 0 .. cap - 1
      BY <3>1, <3>2
    <3> HIDE DEF buf, cap
    <3>4. Block(Appended(buf, cap, VDim, pos, row), cap, VDim, h, t)
            = IF t = pos THEN Part(row, h, VDim) ELSE Block(buf, cap, VDim, h, t)
      BY ONLY <3>1, <3>2, <3>3, AppendedBlocks
    <3>5. QED
      BY <1>5, <1>6, <2>1, <3>4 DEF ValueAt, buf, cap
  <2>2. CASE k # l
    BY <1>5, <1>6, <2>2 DEF ValueAt
  <2>3. QED
    BY <2>1, <2>2
<1>9. QED
  BY <1>6, <1>7, <1>8 DEF a

\* Appending an index key within the capacity puts it in its place and moves nothing else.
LEMMA AppendIndexKeyKeeps ==
    ASSUME NEW c, IsCache(c), NEW l \in Layers, NEW pos \in 0 .. c.cap - 1, NEW row
    PROVE  LET a == AppendIndexKey(c, l, pos, row)
           IN  /\ IsCache(a)
               /\ a.cap = c.cap /\ a.len = c.len
               /\ a.key = c.key /\ a.value = c.value
               /\ \A k \in Layers, t \in 0 .. c.cap - 1 :
                   IndexKeyAt(a, k, t)
                     = IF k = l /\ t = pos THEN Part(row, 0, IndexDim) ELSE IndexKeyAt(c, k, t)
<1> DEFINE a == AppendIndexKey(c, l, pos, row)
           new == [c.indexKey EXCEPT ![l] = Appended(c.indexKey[l], c.cap, IndexDim, pos, row)]
<1>1. c.cap \in Nat \ {0} /\ c.stride = c.cap * QkDim
  BY DEF IsCache
<1>2. GrowTo(c, pos) = c
  BY <1>1 DEF GrowTo
<1>3. a = [c EXCEPT !.indexKey = new]
  BY <1>1, <1>2 DEF AppendIndexKey, Appended
<1>4. /\ DOMAIN new = Layers
      /\ \A k \in Layers : DOMAIN new[k] = DOMAIN c.indexKey[k]
  BY DEF IsCache, Appended, Written
<1>5. \A k \in Layers : new[k] = IF k = l THEN Appended(c.indexKey[l], c.cap, IndexDim, pos, row) ELSE c.indexKey[k]
  BY DEF IsCache
<1> HIDE DEF a, new
<1>6. /\ a.cap = c.cap /\ a.len = c.len /\ a.stride = c.stride
      /\ a.indexKey = new /\ a.key = c.key /\ a.value = c.value
      /\ a = [cap |-> a.cap, len |-> a.len, stride |-> a.stride,
              key |-> a.key, value |-> a.value, indexKey |-> a.indexKey]
  BY <1>3 DEF IsCache
<1>7. IsCache(a)
  BY <1>4, <1>6 DEF IsCache, HasRoom
<1>8. ASSUME NEW k \in Layers, NEW t \in 0 .. c.cap - 1
      PROVE  IndexKeyAt(a, k, t)
               = IF k = l /\ t = pos THEN Part(row, 0, IndexDim) ELSE IndexKeyAt(c, k, t)
  <2>1. CASE k = l
    <3> DEFINE buf == c.indexKey[l]
    <3>1. HasRoom(buf, 1, c.cap, IndexDim) /\ 0 \in 0 .. 1 - 1 /\ 1 \in Nat
      BY Dimensions DEF IsCache, Heads
    <3>2. c.cap \in Nat \ {0} /\ t \in 0 .. c.cap - 1 /\ pos \in 0 .. c.cap - 1 /\ IndexDim \in Nat \ {0}
      BY <1>1, Dimensions
    <3> DEFINE cap == c.cap
    <3>3. /\ HasRoom(buf, 1, cap, IndexDim) /\ cap \in Nat \ {0}
          /\ t \in 0 .. cap - 1 /\ pos \in 0 .. cap - 1
      BY <3>1, <3>2
    <3> HIDE DEF buf, cap
    <3>4. Block(Appended(buf, cap, IndexDim, pos, row), cap, IndexDim, 0, t)
            = IF t = pos THEN Part(row, 0, IndexDim) ELSE Block(buf, cap, IndexDim, 0, t)
      BY ONLY <3>1, <3>2, <3>3, AppendedBlocks
    <3>5. QED
      BY <1>5, <1>6, <2>1, <3>4 DEF IndexKeyAt, buf, cap
  <2>2. CASE k # l
    BY <1>5, <1>6, <2>2 DEF IndexKeyAt
  <2>3. QED
    BY <2>1, <2>2
<1>9. QED
  BY <1>6, <1>7, <1>8 DEF a

\* Making room keeps the shape and every row, and the rows behind them are blank.
LEMMA ReserveKeeps ==
    ASSUME NEW c, IsCache(c), NEW n \in Nat
    PROVE  LET g == Reserve(c, n)
           IN  /\ IsCache(g)
               /\ g.len = c.len
               /\ g.cap >= c.cap /\ g.cap >= n
               /\ \A l \in Layers, t \in 0 .. g.cap - 1 :
                   /\ \A h \in Heads :
                       /\ KeyAt(g, l, h, t)
                            = IF t < c.cap THEN KeyAt(c, l, h, t) ELSE Buffer(QkDim)
                       /\ ValueAt(g, l, h, t)
                            = IF t < c.cap THEN ValueAt(c, l, h, t) ELSE Buffer(VDim)
                   /\ IndexKeyAt(g, l, t)
                        = IF t < c.cap THEN IndexKeyAt(c, l, t) ELSE Buffer(IndexDim)
<1> DEFINE g == Reserve(c, n)
<1>1. c.cap \in Nat \ {0}
  BY DEF IsCache
<1>2. CASE n <= c.cap
  <2>1. g = c
    BY <1>2 DEF Reserve
  <2> HIDE DEF g
  <2>2. QED
    BY <1>1, <1>2, <2>1 DEF g
<1>3. CASE ~(n <= c.cap)
  <2>1. g = GrowTo(c, n - 1) /\ n - 1 \in Nat
    BY <1>1, <1>3 DEF Reserve
  <2> HIDE DEF g
  <2>2. /\ IsCache(g) /\ g.len = c.len
        /\ g.cap >= c.cap /\ g.cap > n - 1
        /\ \A l \in Layers, t \in 0 .. g.cap - 1 :
                   /\ \A h \in Heads :
                       /\ KeyAt(g, l, h, t)
                            = IF t < c.cap THEN KeyAt(c, l, h, t) ELSE Buffer(QkDim)
                       /\ ValueAt(g, l, h, t)
                            = IF t < c.cap THEN ValueAt(c, l, h, t) ELSE Buffer(VDim)
                   /\ IndexKeyAt(g, l, t)
                        = IF t < c.cap THEN IndexKeyAt(c, l, t) ELSE Buffer(IndexDim)
    BY <2>1, GrowToKeeps
  <2>3. g.cap \in Nat
    BY <2>2 DEF IsCache
  <2>4. QED
    BY <2>2, <2>3 DEF g
<1>4. QED
  BY <1>2, <1>3

-----------------------------------------------------------------------------
\* The cache has its shape and counts the tokens processed, and a token in
\* progress has room.
Counts ==
    /\ IsCache(kv)
    /\ kv.len = seqLen /\ kv.len <= kv.cap
    /\ dsaEnabled \in BOOLEAN
    /\ fullLayers \in Schedules
    /\ seqLen \in 0 .. MaxTokens
    /\ conversation \in 0 .. MaxConversations
    /\ pc \in {"idle", "store", "select", "attend"}
    /\ endTok \in 0 .. MaxTokens
    /\ layer \in Layers
    /\ selSet \subseteq 0 .. MaxTokens
    /\ lastTopk \in [Layers -> SUBSET (0 .. MaxTokens)]
    /\ pc # "idle" => seqLen < endTok /\ endTok <= kv.cap

\* The positions whose rows a layer has stored, and those it has indexed.
Kept(l) ==
    IF pc # "idle" /\ (l < layer \/ (l = layer /\ pc # "store"))
    THEN 0 .. seqLen ELSE 0 .. seqLen - 1

IndexKept(l) ==
    IF pc # "idle" /\ (l < layer \/ (l = layer /\ pc = "attend"))
    THEN 0 .. seqLen ELSE 0 .. seqLen - 1

\* All of them are this conversation's.
RowsHeld ==
    \A l \in Layers : \A t \in Kept(l) : \A h \in Heads :
        /\ KeyAt(kv, l, h, t) = Part(KeyRow(t), h, QkDim)
        /\ ValueAt(kv, l, h, t) = Part(ValueRow(t), h, VDim)

IndexHeld ==
    dsaEnabled => \A l \in fullLayers : \A t \in IndexKept(l) :
        IndexKeyAt(kv, l, t) = Part(IndexRow(t), 0, IndexDim)

\* The layers before the n-th whose indexer runs.
FullBefore(n) == {f \in fullLayers : dsaEnabled /\ f < n}

\* The selection is the one of the last of them for the current token.
Chosen(n) ==
    /\ Cardinality(selSet) = Min({IndexTopk, seqLen + 1})
    /\ selSet \subseteq 0 .. seqLen
    /\ selSet = lastTopk[Max(FullBefore(n))]

\* What a layer finds as the selection.
SelectionHeld ==
    pc \in {"store", "select"} =>
        /\ FullBefore(layer) = {} => selSet = IF layer = 0 THEN {} ELSE 0 .. seqLen
        /\ FullBefore(layer) # {} => Chosen(layer)

\* What it attends to.
AttendedHeld ==
    pc = "attend" =>
        /\ selSet \subseteq 0 .. seqLen
        /\ FullBefore(layer + 1) = {} => selSet = 0 .. seqLen
        /\ FullBefore(layer + 1) # {} =>
            /\ Cardinality(selSet) = Min({IndexTopk, seqLen + 1})
            /\ Max(FullBefore(layer + 1)) < layer => selSet = lastTopk[Max(FullBefore(layer + 1))]

IInv == Counts /\ RowsHeld /\ IndexHeld /\ SelectionHeld /\ AttendedHeld

-----------------------------------------------------------------------------
\* A token in progress is below the capacity and the bound.
LEMMA TokenFits ==
    ASSUME Counts, pc # "idle"
    PROVE  /\ kv.cap \in Nat \ {0} /\ seqLen \in Nat
           /\ seqLen \in 0 .. kv.cap - 1
           /\ seqLen + 1 \in 0 .. MaxTokens /\ seqLen + 1 <= endTok
  BY BoundsAssumption DEF Counts, IsCache

\* Storing a token's rows puts both in their place and moves nothing else.
LEMMA StoreKeyValueStep ==
    ASSUME Counts, StoreKeyValue
    PROVE  /\ IsCache(kv')
           /\ kv'.cap = kv.cap /\ kv'.len = kv.len
           /\ \A k \in Layers, t \in 0 .. kv.cap - 1 :
               /\ \A h \in Heads :
                   /\ KeyAt(kv', k, h, t)
                        = IF k = layer /\ t = seqLen THEN Part(KeyRow(seqLen), h, QkDim)
                          ELSE KeyAt(kv, k, h, t)
                   /\ ValueAt(kv', k, h, t)
                        = IF k = layer /\ t = seqLen THEN Part(ValueRow(seqLen), h, VDim)
                          ELSE ValueAt(kv, k, h, t)
               /\ IndexKeyAt(kv', k, t) = IndexKeyAt(kv, k, t)
<1> DEFINE mid == AppendKey(kv, layer, seqLen, KeyRow(seqLen))
<1>1. IsCache(kv) /\ layer \in Layers /\ seqLen \in 0 .. kv.cap - 1
  BY TokenFits DEF Counts, StoreKeyValue
<1>2. /\ IsCache(mid)
      /\ mid.cap = kv.cap /\ mid.len = kv.len
      /\ mid.value = kv.value /\ mid.indexKey = kv.indexKey
      /\ \A k \in Layers, t \in 0 .. kv.cap - 1, h \in Heads :
           KeyAt(mid, k, h, t)
             = IF k = layer /\ t = seqLen THEN Part(KeyRow(seqLen), h, QkDim) ELSE KeyAt(kv, k, h, t)
  BY <1>1, AppendKeyKeeps
<1>3. kv' = AppendValue(mid, layer, seqLen, ValueRow(seqLen))
  BY DEF StoreKeyValue
<1> HIDE DEF mid
<1>4. seqLen \in 0 .. mid.cap - 1
  BY <1>1, <1>2
<1>5. /\ IsCache(kv')
      /\ kv'.cap = mid.cap /\ kv'.len = mid.len
      /\ kv'.key = mid.key /\ kv'.indexKey = mid.indexKey
      /\ \A k \in Layers, t \in 0 .. mid.cap - 1, h \in Heads :
           ValueAt(kv', k, h, t)
             = IF k = layer /\ t = seqLen THEN Part(ValueRow(seqLen), h, VDim) ELSE ValueAt(mid, k, h, t)
  BY <1>1, <1>2, <1>3, <1>4, AppendValueKeeps
<1>6. /\ \A k, h, t : KeyAt(kv', k, h, t) = KeyAt(mid, k, h, t)
      /\ \A k, h, t : ValueAt(mid, k, h, t) = ValueAt(kv, k, h, t)
      /\ \A k, t : IndexKeyAt(kv', k, t) = IndexKeyAt(kv, k, t)
  BY <1>2, <1>5 DEF KeyAt, ValueAt, IndexKeyAt
<1>7. QED
  BY <1>2, <1>5, <1>6

\* Indexing a token puts its index key in its place and moves nothing else.
LEMMA RunIndexerStep ==
    ASSUME Counts, RunIndexer
    PROVE  /\ IsCache(kv')
           /\ kv'.cap = kv.cap /\ kv'.len = kv.len
           /\ \A k \in Layers, t \in 0 .. kv.cap - 1 :
               /\ \A h \in Heads :
                   /\ KeyAt(kv', k, h, t) = KeyAt(kv, k, h, t)
                   /\ ValueAt(kv', k, h, t) = ValueAt(kv, k, h, t)
               /\ IndexKeyAt(kv', k, t)
                    = IF k = layer /\ t = seqLen THEN Part(IndexRow(seqLen), 0, IndexDim)
                      ELSE IndexKeyAt(kv, k, t)
<1>1. IsCache(kv) /\ layer \in Layers /\ seqLen \in 0 .. kv.cap - 1
  BY TokenFits DEF Counts, RunIndexer
<1>2. kv' = AppendIndexKey(kv, layer, seqLen, IndexRow(seqLen))
  BY DEF RunIndexer
<1>3. /\ IsCache(kv')
      /\ kv'.cap = kv.cap /\ kv'.len = kv.len
      /\ kv'.key = kv.key /\ kv'.value = kv.value
      /\ \A k \in Layers, t \in 0 .. kv.cap - 1 :
           IndexKeyAt(kv', k, t)
             = IF k = layer /\ t = seqLen THEN Part(IndexRow(seqLen), 0, IndexDim) ELSE IndexKeyAt(kv, k, t)
  BY <1>1, <1>2, AppendIndexKeyKeeps
<1>4. /\ \A k, h, t : KeyAt(kv', k, h, t) = KeyAt(kv, k, h, t)
      /\ \A k, h, t : ValueAt(kv', k, h, t) = ValueAt(kv, k, h, t)
  BY <1>3 DEF KeyAt, ValueAt
<1>5. QED
  BY <1>3, <1>4

\* Advancing counts the token and leaves the rows alone.
LEMMA EndTokenStep ==
    ASSUME Counts, pc # "idle", EndToken
    PROVE  /\ IsCache(kv')
           /\ kv'.cap = kv.cap /\ kv'.len = kv.len + 1
           /\ \A k, h, t : /\ KeyAt(kv', k, h, t) = KeyAt(kv, k, h, t)
                           /\ ValueAt(kv', k, h, t) = ValueAt(kv, k, h, t)
                           /\ IndexKeyAt(kv', k, t) = IndexKeyAt(kv, k, t)
<1>1. kv.len < kv.cap
  BY TokenFits DEF Counts
<1>2. kv' = [kv EXCEPT !.len = @ + 1]
  BY <1>1 DEF EndToken, Advance
<1>3. /\ kv'.cap = kv.cap /\ kv'.len = kv.len + 1 /\ kv'.stride = kv.stride
      /\ kv'.key = kv.key /\ kv'.value = kv.value /\ kv'.indexKey = kv.indexKey
      /\ kv' = [cap |-> kv'.cap, len |-> kv'.len, stride |-> kv'.stride,
               key |-> kv'.key, value |-> kv'.value, indexKey |-> kv'.indexKey]
  BY <1>2 DEF Counts, IsCache
<1>4. QED
  BY <1>3 DEF Counts, IsCache, KeyAt, ValueAt, IndexKeyAt

\* So does forgetting a conversation.
LEMMA ResetStep ==
    ASSUME Counts, Reset
    PROVE  /\ IsCache(kv')
           /\ kv'.cap = kv.cap /\ kv'.len = 0
           /\ \A k, h, t : /\ KeyAt(kv', k, h, t) = KeyAt(kv, k, h, t)
                           /\ ValueAt(kv', k, h, t) = ValueAt(kv, k, h, t)
                           /\ IndexKeyAt(kv', k, t) = IndexKeyAt(kv, k, t)
<1>1. kv' = [kv EXCEPT !.len = 0]
  BY DEF Reset, Clear
<1>2. /\ kv'.cap = kv.cap /\ kv'.len = 0 /\ kv'.stride = kv.stride
      /\ kv'.key = kv.key /\ kv'.value = kv.value /\ kv'.indexKey = kv.indexKey
      /\ kv' = [cap |-> kv'.cap, len |-> kv'.len, stride |-> kv'.stride,
               key |-> kv'.key, value |-> kv'.value, indexKey |-> kv'.indexKey]
  BY <1>1 DEF Counts, IsCache
<1>3. QED
  BY <1>2 DEF Counts, IsCache, KeyAt, ValueAt, IndexKeyAt

\* The reserve of a call keeps every row of the conversation.
LEMMA ForwardCallStep ==
    ASSUME Counts, NEW n \in 0 .. MaxTokens, ForwardCall(n)
    PROVE  /\ IsCache(kv')
           /\ kv'.len = kv.len /\ kv'.cap >= kv.cap /\ kv'.cap >= n
           /\ \A l \in Layers, t \in 0 .. kv'.cap - 1 :
               /\ \A h \in Heads :
                   /\ KeyAt(kv', l, h, t)
                        = IF t < kv.cap THEN KeyAt(kv, l, h, t) ELSE Buffer(QkDim)
                   /\ ValueAt(kv', l, h, t)
                        = IF t < kv.cap THEN ValueAt(kv, l, h, t) ELSE Buffer(VDim)
               /\ IndexKeyAt(kv', l, t)
                    = IF t < kv.cap THEN IndexKeyAt(kv, l, t) ELSE Buffer(IndexDim)
<1>1. IsCache(kv) /\ n + Slack \in Nat /\ n \in Nat /\ n <= n + Slack
  BY SlackAssumption, BoundsAssumption DEF Counts
<1>2. kv' = Reserve(kv, n + Slack)
  BY DEF ForwardCall, Horizon
<1> DEFINE room == n + Slack
<1> HIDE DEF room
<1>3. kv' = Reserve(kv, room) /\ room \in Nat /\ n <= room
  BY <1>1, <1>2 DEF room
<1>4. /\ IsCache(kv')
      /\ kv'.len = kv.len /\ kv'.cap >= kv.cap /\ kv'.cap >= room
      /\ \A l \in Layers, t \in 0 .. kv'.cap - 1 :
          /\ \A h \in Heads :
              /\ KeyAt(kv', l, h, t)
                   = IF t < kv.cap THEN KeyAt(kv, l, h, t) ELSE Buffer(QkDim)
              /\ ValueAt(kv', l, h, t)
                   = IF t < kv.cap THEN ValueAt(kv, l, h, t) ELSE Buffer(VDim)
          /\ IndexKeyAt(kv', l, t)
               = IF t < kv.cap THEN IndexKeyAt(kv, l, t) ELSE Buffer(IndexDim)
  BY <1>1, <1>3, ReserveKeeps
<1>5. kv'.cap \in Nat
  BY <1>4 DEF IsCache
<1>6. QED
  BY <1>1, <1>3, <1>4, <1>5

-----------------------------------------------------------------------------
\* The empty cache has its shape.
LEMMA EmptyIsCache ==
    ASSUME NEW cap \in Nat \ {0}
    PROVE  IsCache(Empty(cap)) /\ Empty(cap).len = 0 /\ Empty(cap).cap = cap
<1>1. /\ NumHeads * cap * QkDim = NumHeads * (cap * QkDim)
      /\ NumHeads * cap * VDim = NumHeads * (cap * VDim)
      /\ cap * IndexDim = 1 * (cap * IndexDim)
  BY Dimensions
<1>2. QED
  BY <1>1 DEF IsCache, Empty, HasRoom, Buffer

\* Init establishes the counts.
LEMMA CountsInit == Init => Counts
<1> SUFFICES ASSUME Init PROVE Counts
  OBVIOUS
<1>1. IsCache(kv) /\ kv.len = 0 /\ kv.cap = InitialCap
  BY InitialCapAssumption, EmptyIsCache DEF Init
<1>2. 0 \in Layers
  BY Dimensions DEF Layers
<1>3. QED
  BY <1>1, <1>2, InitialCapAssumption, BoundsAssumption DEF Init, Counts

\* Every step keeps the counts.
LEMMA CountsStep == Counts /\ [Next]_vars => Counts'
<1> SUFFICES ASSUME Counts, [Next]_vars
             PROVE  Counts'
  OBVIOUS
<1> USE BoundsAssumption
<1>0. 0 \in Layers /\ kv.cap \in Nat /\ (IsCache(kv') => kv'.cap \in Nat)
  BY Dimensions DEF Layers, Counts, IsCache
<1>1. ASSUME NEW n \in 0 .. MaxTokens, ForwardCall(n)
      PROVE  Counts'
  <2>1. IsCache(kv') /\ kv'.len = kv.len /\ kv'.cap >= kv.cap /\ kv'.cap >= n
    BY <1>1, ForwardCallStep
  <2>2. pc' # "idle" => seqLen' < endTok' /\ endTok' <= kv'.cap
    BY <1>0, <1>1, <2>1 DEF Counts, ForwardCall
  <2>3. /\ pc' \in {"idle", "store", "select", "attend"} /\ layer' \in Layers
        /\ selSet' \subseteq 0 .. MaxTokens
    BY <1>0, <1>1 DEF Counts, ForwardCall, BeginToken, NewSelection
  <2>4. kv'.len <= kv'.cap
    BY <1>0, <2>1 DEF Counts
  <2>5. UNCHANGED <<dsaEnabled, fullLayers, seqLen, conversation, lastTopk>> /\ endTok' = n
    BY <1>1 DEF ForwardCall, control
  <2>6. QED
    BY <2>1, <2>2, <2>3, <2>4, <2>5 DEF Counts
<1>2. CASE StoreKeyValue
  BY <1>0, <1>2, StoreKeyValueStep DEF Counts, StoreKeyValue, control
<1>3. CASE RunIndexer
  <2>1. selSet' \subseteq 0 .. MaxTokens
    <3>1. selSet' \subseteq 0 .. seqLen
      BY <1>3 DEF RunIndexer, kSubset
    <3>2. QED
      BY <3>1 DEF Counts
  <2>2. QED
    BY <1>0, <1>3, <2>1, RunIndexerStep DEF Counts, RunIndexer, control
<1>4. CASE ReuseSelection
  BY <1>0, <1>4 DEF Counts, ReuseSelection, control
<1>5. CASE FinishLayer
  <2>1. lastTopk' \in [Layers -> SUBSET (0 .. MaxTokens)]
    BY <1>5 DEF Counts, FinishLayer
  <2>2. CASE NextLayer
    <3>1. layer' \in Layers
      <4>1. layer < NumLayers - 1
        BY <1>5, <2>2, TokenFits DEF FinishLayer, NextLayer, EndToken, Counts
      <4>2. QED
        BY <2>2, <4>1, Dimensions DEF Layers, NextLayer, Counts
    <3>2. QED
      BY <1>0, <1>5, <2>1, <2>2, <3>1 DEF Counts, FinishLayer, NextLayer, control
  <2>3. CASE EndToken
    <3>1. pc # "idle"
      BY <1>5 DEF FinishLayer
    <3>2. IsCache(kv') /\ kv'.cap = kv.cap /\ kv'.len = kv.len + 1
      BY <2>3, <3>1, EndTokenStep
    <3>3. seqLen \in 0 .. kv.cap - 1 /\ seqLen + 1 \in 0 .. MaxTokens
      BY <3>1, TokenFits
    <3>4. /\ pc' \in {"idle", "store", "select", "attend"} /\ layer' \in Layers
          /\ selSet' \subseteq 0 .. MaxTokens
      BY <1>0, <1>5, <2>3 DEF Counts, FinishLayer, EndToken, BeginToken, NewSelection
    <3>5. /\ UNCHANGED <<dsaEnabled, fullLayers, conversation, endTok>>
          /\ seqLen' = seqLen + 1
      BY <1>5, <2>3 DEF FinishLayer, EndToken, control
    <3>6. kv'.len = seqLen' /\ kv'.len <= kv'.cap
      BY <1>0, <3>2, <3>3, <3>5 DEF Counts
    <3>7. pc' # "idle" => seqLen' < endTok' /\ endTok' <= kv'.cap
      <4>1. pc' # "idle" => seqLen < endTok - 1
        BY <2>3 DEF EndToken
      <4>2. endTok <= kv.cap /\ endTok \in Nat /\ seqLen \in Nat
        BY <3>1 DEF Counts
      <4>3. QED
        BY <3>2, <3>5, <4>1, <4>2
    <3>8. QED
      BY <2>1, <3>2, <3>3, <3>4, <3>5, <3>6, <3>7 DEF Counts
  <2>4. QED
    BY <1>5, <2>2, <2>3 DEF FinishLayer
<1>6. CASE Reset
  BY <1>0, <1>6, ResetStep DEF Counts, Reset, control
<1>7. CASE UNCHANGED vars
  BY <1>7 DEF Counts, vars
<1>8. QED
  BY <1>1, <1>2, <1>3, <1>4, <1>5, <1>6, <1>7 DEF Next

-----------------------------------------------------------------------------
\* The positions a layer keeps are below the capacity.
LEMMA KeptFits ==
    ASSUME Counts, NEW l
    PROVE  /\ Kept(l) \subseteq 0 .. kv.cap - 1 /\ Kept(l) \subseteq 0 .. seqLen
           /\ IndexKept(l) \subseteq 0 .. kv.cap - 1 /\ IndexKept(l) \subseteq 0 .. seqLen
<1>1. kv.cap \in Nat /\ seqLen \in Nat /\ seqLen <= kv.cap
  BY BoundsAssumption DEF Counts, IsCache
<1>2. pc # "idle" => seqLen <= kv.cap - 1
  BY <1>1, TokenFits
<1>3. QED
  BY <1>1, <1>2 DEF Kept, IndexKept

\* Every step keeps the rows of the conversation.
LEMMA RowsHeldStep == Counts /\ RowsHeld /\ [Next]_vars => RowsHeld'
<1> SUFFICES ASSUME Counts, RowsHeld, [Next]_vars
             PROVE  RowsHeld'
  OBVIOUS
<1> DEFINE Same(l, t, h) == /\ KeyAt(kv', l, h, t) = KeyAt(kv, l, h, t)
                            /\ ValueAt(kv', l, h, t) = ValueAt(kv, l, h, t)
<1>a. ASSUME conversation' = conversation,
             NEW l \in Layers, NEW t, NEW h \in Heads, t \in Kept(l), Same(l, t, h)
      PROVE  /\ KeyAt(kv', l, h, t) = Part(KeyRow(t), h, QkDim)'
             /\ ValueAt(kv', l, h, t) = Part(ValueRow(t), h, VDim)'
  <2>1. /\ Part(KeyRow(t), h, QkDim)' = Part(KeyRow(t), h, QkDim)
        /\ Part(ValueRow(t), h, VDim)' = Part(ValueRow(t), h, VDim)
    BY <1>a DEF KeyRow, ValueRow, Row, Part
  <2>2. QED
    BY <1>a, <2>1 DEF RowsHeld
<1> HIDE DEF Same
<1>b. ASSUME conversation' = conversation,
             \A l \in Layers : \A t \in Kept(l)' : \A h \in Heads : t \in Kept(l) /\ Same(l, t, h)
      PROVE  RowsHeld'
  BY <1>a, <1>b DEF RowsHeld
<1>0. kv.cap \in Nat /\ seqLen \in Nat /\ layer \in Layers
  BY BoundsAssumption DEF Counts, IsCache
<1>1. ASSUME NEW n \in 0 .. MaxTokens, ForwardCall(n)
      PROVE  RowsHeld'
  <2>1. \A l \in Layers : Kept(l)' = Kept(l)
    BY <1>1 DEF ForwardCall, BeginToken, Kept, Layers
  <2>2. \A l \in Layers : \A t \in Kept(l) : t \in 0 .. kv'.cap - 1 /\ t < kv.cap
    <3>1. kv'.cap \in Nat /\ kv'.cap >= kv.cap
      BY <1>1, ForwardCallStep DEF IsCache
    <3>2. QED
      BY <1>0, <3>1, KeptFits
  <2>3. \A l \in Layers : \A t \in Kept(l) : \A h \in Heads : Same(l, t, h)
    BY <1>1, <2>2, ForwardCallStep DEF Same
  <2>4. QED
    BY <1>1, <1>b, <2>1, <2>3 DEF ForwardCall
<1>2. CASE StoreKeyValue
  <2>1. conversation' = conversation
    BY <1>2 DEF StoreKeyValue
  <2>2. ASSUME NEW l \in Layers, NEW t \in Kept(l)', NEW h \in Heads
        PROVE  /\ KeyAt(kv', l, h, t) = Part(KeyRow(t), h, QkDim)'
               /\ ValueAt(kv', l, h, t) = Part(ValueRow(t), h, VDim)'
    <3>1. CASE l = layer /\ t = seqLen
      <4>1. /\ Part(KeyRow(t), h, QkDim)' = Part(KeyRow(t), h, QkDim)
            /\ Part(ValueRow(t), h, VDim)' = Part(ValueRow(t), h, VDim)
        BY <2>1 DEF KeyRow, ValueRow, Row, Part
      <4>2. t \in 0 .. kv.cap - 1
        BY <1>2, <3>1, TokenFits DEF StoreKeyValue
      <4>3. QED
        BY <1>2, <3>1, <4>1, <4>2, StoreKeyValueStep
    <3>2. CASE ~(l = layer /\ t = seqLen)
      <4>1. t \in Kept(l)
        BY <1>0, <1>2, <3>2 DEF StoreKeyValue, Kept, Layers
      <4>2. t \in 0 .. kv.cap - 1
        BY <4>1, KeptFits
      <4>3. Same(l, t, h)
        BY <1>2, <3>2, <4>2, StoreKeyValueStep DEF Same
      <4>4. QED
        BY <1>a, <2>1, <4>1, <4>3
    <3>3. QED
      BY <3>1, <3>2
  <2>3. QED
    BY <2>2 DEF RowsHeld
<1>3. CASE RunIndexer
  <2>1. \A l \in Layers : Kept(l)' = Kept(l)
    BY <1>3 DEF RunIndexer, Kept
  <2>2. \A l \in Layers : \A t \in Kept(l) : \A h \in Heads : Same(l, t, h)
    BY <1>3, KeptFits, RunIndexerStep DEF Same
  <2>3. QED
    BY <1>3, <1>b, <2>1, <2>2 DEF RunIndexer
<1>4. CASE ReuseSelection
  <2>1. \A l \in Layers : Kept(l)' = Kept(l)
    BY <1>4 DEF ReuseSelection, Kept
  <2>2. QED
    BY <1>4, <1>b, <2>1 DEF ReuseSelection, Same
<1>5. CASE FinishLayer
  <2>1. pc # "idle"
    BY <1>5 DEF FinishLayer
  <2>2. CASE layer < NumLayers - 1 /\ NextLayer
    <3>1. \A l \in Layers : Kept(l)' = Kept(l)
      BY <1>0, <1>5, <2>2 DEF FinishLayer, NextLayer, Kept, Layers
    <3>2. QED
      BY <1>5, <1>b, <2>2, <3>1 DEF FinishLayer, NextLayer, Same
  <2>3. CASE ~(layer < NumLayers - 1) /\ EndToken
    <3>1. \A l \in Layers : Kept(l)' = Kept(l)
      <4>1. layer = NumLayers - 1
        BY <2>3, Dimensions DEF Counts, Layers
      <4>2. \A l \in Layers : Kept(l) = 0 .. seqLen
        BY <1>5, <2>1, <4>1, Dimensions DEF FinishLayer, Kept, Layers
      <4>3. seqLen' - 1 = seqLen
        BY <1>0, <2>3 DEF EndToken
      <4>4. \A l \in Layers : Kept(l)' = 0 .. seqLen' - 1
        BY <2>3 DEF EndToken, BeginToken, Kept, Layers
      <4>5. QED
        BY <4>2, <4>3, <4>4
    <3>2. \A l \in Layers : \A t \in Kept(l) : \A h \in Heads : Same(l, t, h)
      BY <2>1, <2>3, EndTokenStep DEF Same
    <3>3. QED
      BY <1>5, <1>b, <3>1, <3>2 DEF FinishLayer
  <2>4. QED
    BY <1>5, <2>2, <2>3 DEF FinishLayer
<1>6. CASE Reset
  <2>1. \A l : Kept(l)' = {}
    BY <1>6 DEF Reset, Kept
  <2>2. QED
    BY <2>1 DEF RowsHeld
<1>7. CASE UNCHANGED vars
  BY <1>7 DEF vars, RowsHeld, Kept, KeyRow, ValueRow, KeyAt, ValueAt
<1>8. QED
  BY <1>1, <1>2, <1>3, <1>4, <1>5, <1>6, <1>7 DEF Next

\* Every step keeps the index keys of the conversation.
LEMMA IndexHeldStep == Counts /\ IndexHeld /\ [Next]_vars => IndexHeld'
<1> SUFFICES ASSUME Counts, IndexHeld, [Next]_vars
             PROVE  IndexHeld'
  OBVIOUS
<1>c. dsaEnabled' = dsaEnabled
  BY DEF Next, ForwardCall, StoreKeyValue, RunIndexer, ReuseSelection, FinishLayer, Reset, vars, control
<1> SUFFICES ASSUME dsaEnabled
             PROVE  IndexHeld'
  BY <1>c DEF IndexHeld
<1> DEFINE Same(l, t) == IndexKeyAt(kv', l, t) = IndexKeyAt(kv, l, t)
<1>a. ASSUME conversation' = conversation,
             NEW l \in fullLayers, NEW t, t \in IndexKept(l), Same(l, t)
      PROVE  IndexKeyAt(kv', l, t) = Part(IndexRow(t), 0, IndexDim)'
  <2>1. Part(IndexRow(t), 0, IndexDim)' = Part(IndexRow(t), 0, IndexDim)
    BY <1>a DEF IndexRow, Row, Part
  <2>2. QED
    BY <1>a, <2>1 DEF IndexHeld
<1> HIDE DEF Same
<1>b. ASSUME conversation' = conversation, fullLayers' = fullLayers,
             \A l \in fullLayers : \A t \in IndexKept(l)' : t \in IndexKept(l) /\ Same(l, t)
      PROVE  IndexHeld'
  BY <1>a, <1>b DEF IndexHeld
<1>0. /\ kv.cap \in Nat /\ seqLen \in Nat /\ layer \in Layers
      /\ \A l \in fullLayers : l \in Layers
  BY BoundsAssumption, SchedulesAssumption DEF Counts, IsCache
<1>1. ASSUME NEW n \in 0 .. MaxTokens, ForwardCall(n)
      PROVE  IndexHeld'
  <2>1. \A l \in fullLayers : IndexKept(l)' = IndexKept(l)
    BY <1>0, <1>1 DEF ForwardCall, BeginToken, IndexKept, Layers
  <2>2. \A l \in fullLayers : \A t \in IndexKept(l) : t \in 0 .. kv'.cap - 1 /\ t < kv.cap
    <3>1. kv'.cap \in Nat /\ kv'.cap >= kv.cap
      BY <1>1, ForwardCallStep DEF IsCache
    <3>2. QED
      BY <1>0, <3>1, KeptFits
  <2>3. \A l \in fullLayers : \A t \in IndexKept(l) : Same(l, t)
    BY <1>0, <1>1, <2>2, ForwardCallStep DEF Same
  <2>4. QED
    BY <1>1, <1>b, <2>1, <2>3 DEF ForwardCall, control
<1>2. CASE StoreKeyValue
  <2>1. \A l \in fullLayers : IndexKept(l)' = IndexKept(l)
    BY <1>2 DEF StoreKeyValue, IndexKept
  <2>2. \A l \in fullLayers : \A t \in IndexKept(l) : Same(l, t)
    BY <1>0, <1>2, KeptFits, StoreKeyValueStep DEF Same
  <2>3. QED
    BY <1>2, <1>b, <2>1, <2>2 DEF StoreKeyValue, control
<1>3. CASE RunIndexer
  <2>1. conversation' = conversation /\ fullLayers' = fullLayers
    BY <1>3 DEF RunIndexer, control
  <2>2. ASSUME NEW l \in fullLayers, NEW t \in IndexKept(l)'
        PROVE  IndexKeyAt(kv', l, t) = Part(IndexRow(t), 0, IndexDim)'
    <3>1. CASE l = layer /\ t = seqLen
      <4>1. Part(IndexRow(t), 0, IndexDim)' = Part(IndexRow(t), 0, IndexDim)
        BY <2>1 DEF IndexRow, Row, Part
      <4>2. t \in 0 .. kv.cap - 1
        BY <1>3, <3>1, TokenFits DEF RunIndexer
      <4>3. QED
        BY <1>0, <1>3, <3>1, <4>1, <4>2, RunIndexerStep
    <3>2. CASE ~(l = layer /\ t = seqLen)
      <4>1. t \in IndexKept(l)
        BY <1>0, <1>3, <3>2 DEF RunIndexer, IndexKept, Layers
      <4>2. t \in 0 .. kv.cap - 1
        BY <4>1, KeptFits
      <4>3. Same(l, t)
        BY <1>0, <1>3, <3>2, <4>2, RunIndexerStep DEF Same
      <4>4. QED
        BY <1>a, <2>1, <4>1, <4>3
    <3>3. QED
      BY <3>1, <3>2
  <2>3. QED
    BY <2>1, <2>2 DEF IndexHeld
<1>4. CASE ReuseSelection
  <2>1. \A l \in fullLayers : l # layer
    BY <1>4 DEF ReuseSelection, Indexes
  <2>2. \A l \in fullLayers : IndexKept(l)' = IndexKept(l)
    BY <1>0, <1>4, <2>1 DEF ReuseSelection, IndexKept
  <2>3. QED
    BY <1>4, <1>b, <2>2 DEF ReuseSelection, Same, control
<1>5. CASE FinishLayer
  <2>1. pc # "idle"
    BY <1>5 DEF FinishLayer
  <2>2. CASE layer < NumLayers - 1 /\ NextLayer
    <3>1. \A l \in fullLayers : IndexKept(l)' = IndexKept(l)
      BY <1>0, <1>5, <2>2 DEF FinishLayer, NextLayer, IndexKept, Layers
    <3>2. QED
      BY <1>5, <1>b, <2>2, <3>1 DEF FinishLayer, NextLayer, Same, control
  <2>3. CASE ~(layer < NumLayers - 1) /\ EndToken
    <3>1. \A l \in fullLayers : IndexKept(l)' = IndexKept(l)
      <4>1. layer = NumLayers - 1
        BY <2>3, Dimensions DEF Counts, Layers
      <4>2. \A l \in fullLayers : IndexKept(l) = 0 .. seqLen
        BY <1>0, <1>5, <2>1, <4>1, Dimensions DEF FinishLayer, IndexKept, Layers
      <4>3. seqLen' - 1 = seqLen
        BY <1>0, <2>3 DEF EndToken
      <4>4. \A l \in fullLayers : IndexKept(l)' = 0 .. seqLen' - 1
        BY <1>0, <2>3 DEF EndToken, BeginToken, IndexKept, Layers
      <4>5. QED
        BY <4>2, <4>3, <4>4
    <3>2. \A l \in fullLayers : \A t \in IndexKept(l) : Same(l, t)
      BY <2>1, <2>3, EndTokenStep DEF Same
    <3>3. QED
      BY <1>5, <1>b, <3>1, <3>2 DEF FinishLayer, control
  <2>4. QED
    BY <1>5, <2>2, <2>3 DEF FinishLayer
<1>6. CASE Reset
  <2>1. \A l : IndexKept(l)' = {}
    BY <1>6 DEF Reset, IndexKept
  <2>2. QED
    BY <2>1 DEF IndexHeld
<1>7. CASE UNCHANGED vars
  BY <1>7 DEF vars, IndexHeld, IndexKept, IndexRow, IndexKeyAt
<1>8. QED
  BY <1>1, <1>2, <1>3, <1>4, <1>5, <1>6, <1>7 DEF Next

-----------------------------------------------------------------------------
\* The last of a non-empty set of layers is one of them.
LEMMA LastLayer ==
    ASSUME NEW S \in SUBSET Layers, S # {}
    PROVE  Max(S) \in S /\ \A f \in S : f <= Max(S)
<1> DEFINE T == {NumLayers - f : f \in S}
<1>1. T \in SUBSET Nat /\ T # {}
  <2>1. \A f \in S : NumLayers - f \in Nat
    BY Dimensions DEF Layers
  <2>2. QED
    BY <2>1
<1>2. PICK x \in T : \A y \in T : x <= y
  <2> HIDE DEF T
  <2>1. QED
    BY <1>1, LeastNat
<1>3. PICK f \in S : x = NumLayers - f
  BY <1>2
<1>4. \A e \in S : f >= e
  <2>1. ASSUME NEW e \in S
        PROVE  f >= e
    <3>1. NumLayers - f <= NumLayers - e
      BY <1>2, <1>3
    <3>2. QED
      BY <3>1, Dimensions DEF Layers
  <2>2. QED
    BY <2>1
<1>5. /\ Max(S) \in S
      /\ \A e \in S : Max(S) >= e
  BY <1>3, <1>4 DEF Max
<1>6. QED
  BY <1>5 DEF Layers

\* The full layers before one are layers; the last of them is before it.
LEMMA LastFullBefore ==
    ASSUME Counts, NEW n \in Int
    PROVE  /\ FullBefore(n) \in SUBSET Layers
           /\ FullBefore(n) # {} => /\ Max(FullBefore(n)) \in FullBefore(n)
                                    /\ Max(FullBefore(n)) < n
                                    /\ \A f \in FullBefore(n) : f <= Max(FullBefore(n))
<1>1. FullBefore(n) \in SUBSET Layers
  BY SchedulesAssumption DEF FullBefore, Counts
<1>2. \A f \in FullBefore(n) : f < n
  BY DEF FullBefore
<1>3. QED
  BY <1>1, <1>2, LastLayer

\* At least one position is selected.
LEMMA SelectionNotEmpty ==
    ASSUME NEW n \in Nat
    PROVE  /\ Min({IndexTopk, n + 1}) \in Nat \ {0}
           /\ \A S : Cardinality(S) = Min({IndexTopk, n + 1}) => S # {}
<1> DEFINE m == Min({IndexTopk, n + 1})
<1>1. \E x \in {IndexTopk, n + 1} : \A y \in {IndexTopk, n + 1} : x <= y
  BY IndexTopkAssumption
<1>2. m \in {IndexTopk, n + 1}
  BY <1>1 DEF Min
<1>3. m \in Nat \ {0}
  BY <1>2, IndexTopkAssumption
<1> HIDE DEF m
<1>4. \A S : Cardinality(S) = m => S # {}
  BY <1>3, FS_EmptySet
<1>5. QED
  BY <1>3, <1>4 DEF m

\* Every step keeps what the layers find as the selection and what they attend to.
LEMMA SelectionStep ==
    Counts /\ SelectionHeld /\ AttendedHeld /\ [Next]_vars => SelectionHeld' /\ AttendedHeld'
<1> SUFFICES ASSUME Counts, SelectionHeld, AttendedHeld, [Next]_vars
             PROVE  SelectionHeld' /\ AttendedHeld'
  OBVIOUS
<1>0. seqLen \in Nat /\ layer \in Nat /\ layer \in Layers /\ \A f \in fullLayers : f \in Nat
  BY BoundsAssumption, SchedulesAssumption DEF Counts, Layers
<1>a. dsaEnabled' = dsaEnabled /\ fullLayers' = fullLayers
  BY DEF Next, ForwardCall, StoreKeyValue, RunIndexer, ReuseSelection, FinishLayer,
         Reset, vars, control
<1>b. FullBefore(0) = {}
  BY <1>0 DEF FullBefore
<1>c. ASSUME BeginToken
      PROVE  SelectionHeld' /\ AttendedHeld'
  <2>1. pc' = "store" /\ layer' = 0 /\ selSet' = {}
    BY <1>c DEF BeginToken, NewSelection
  <2>2. FullBefore(layer)' = {}
    BY <1>a, <1>b, <2>1 DEF FullBefore
  <2>3. QED
    BY <2>1, <2>2 DEF SelectionHeld, AttendedHeld
<1>d. ASSUME pc' = "idle"
      PROVE  SelectionHeld' /\ AttendedHeld'
  BY <1>d DEF SelectionHeld, AttendedHeld
<1>1. ASSUME NEW n \in 0 .. MaxTokens, ForwardCall(n)
      PROVE  SelectionHeld' /\ AttendedHeld'
  BY <1>1, <1>c, <1>d DEF ForwardCall
<1>2. CASE StoreKeyValue
  BY <1>2, <1>a DEF StoreKeyValue, SelectionHeld, AttendedHeld, Chosen, FullBefore
<1>3. CASE RunIndexer
  <2>1. /\ selSet' \subseteq 0 .. seqLen
        /\ Cardinality(selSet') = Min({IndexTopk, seqLen + 1})
    BY <1>3 DEF RunIndexer, kSubset
  <2>2. layer \in FullBefore(layer + 1)
    BY <1>0, <1>3 DEF RunIndexer, Indexes, FullBefore
  <2>3. ~(Max(FullBefore(layer + 1)) < layer)
    <3>1. layer <= Max(FullBefore(layer + 1)) /\ Max(FullBefore(layer + 1)) \in Layers
      BY <1>0, <2>2, LastFullBefore
    <3>2. QED
      BY <1>0, <3>1 DEF Layers
  <2>4. /\ pc' = "attend" /\ layer' = layer /\ seqLen' = seqLen
        /\ FullBefore(layer + 1)' = FullBefore(layer + 1)
    BY <1>3, <1>a DEF RunIndexer, FullBefore
  <2>5. QED
    BY <2>1, <2>2, <2>3, <2>4 DEF SelectionHeld, AttendedHeld
<1>4. CASE ReuseSelection
  <2>1. FullBefore(layer + 1) = FullBefore(layer)
    BY <1>0, <1>4 DEF ReuseSelection, Indexes, FullBefore
  <2>2. /\ pc' = "attend" /\ layer' = layer /\ seqLen' = seqLen /\ lastTopk' = lastTopk
        /\ FullBefore(layer + 1)' = FullBefore(layer)
        /\ selSet' = IF selSet = {} THEN 0 .. seqLen ELSE selSet
        /\ pc = "select"
    BY <1>4, <1>a, <2>1 DEF ReuseSelection, FullBefore
  <2>3. CASE FullBefore(layer) = {}
    <3>1. selSet' = 0 .. seqLen
      BY <2>2, <2>3 DEF SelectionHeld
    <3>2. QED
      BY <2>2, <2>3, <3>1 DEF SelectionHeld, AttendedHeld
  <2>4. CASE FullBefore(layer) # {}
    <3>1. Chosen(layer)
      BY <2>2, <2>4 DEF SelectionHeld
    <3>2. selSet' = selSet
      BY <1>0, <2>2, <3>1, SelectionNotEmpty DEF Chosen
    <3>3. QED
      BY <2>2, <2>4, <3>1, <3>2 DEF SelectionHeld, AttendedHeld, Chosen
  <2>5. QED
    BY <2>3, <2>4
<1>5. CASE FinishLayer
  <2>1. pc = "attend" /\ lastTopk' = [lastTopk EXCEPT ![layer] = selSet]
    BY <1>5 DEF FinishLayer
  <2>2. CASE NextLayer
    <3>1. /\ pc' = "store" /\ layer' = layer + 1 /\ seqLen' = seqLen /\ selSet' = selSet
          /\ FullBefore(layer)' = FullBefore(layer + 1)
      BY <1>a, <2>2 DEF NextLayer, FullBefore
    <3>2. CASE FullBefore(layer + 1) = {}
      <4>1. selSet = 0 .. seqLen /\ layer + 1 # 0
        BY <1>0, <2>1, <3>2 DEF AttendedHeld
      <4>2. QED
        BY <3>1, <3>2, <4>1 DEF SelectionHeld, AttendedHeld
    <3>3. CASE FullBefore(layer + 1) # {}
      <4> DEFINE last == Max(FullBefore(layer + 1))
      <4>1. last \in Layers /\ last < layer + 1
        BY <1>0, <3>3, LastFullBefore
      <4>2. /\ selSet \subseteq 0 .. seqLen
            /\ Cardinality(selSet) = Min({IndexTopk, seqLen + 1})
            /\ last < layer => selSet = lastTopk[last]
        BY <2>1, <3>3 DEF AttendedHeld
      <4> HIDE DEF last
      <4>3. lastTopk'[last] = selSet
        <5>1. DOMAIN lastTopk = Layers
          BY DEF Counts
        <5>2. CASE last = layer
          BY <1>0, <2>1, <5>1, <5>2
        <5>3. CASE last # layer
          <6>1. last < layer
            BY <1>0, <4>1, <5>3 DEF Layers
          <6>2. QED
            BY <2>1, <4>1, <4>2, <5>1, <5>3, <6>1
        <5>4. QED
          BY <5>2, <5>3
      <4>4. Max(FullBefore(layer)') = last
        BY <3>1 DEF last
      <4>5. QED
        BY <3>1, <3>3, <4>2, <4>3, <4>4 DEF SelectionHeld, AttendedHeld, Chosen
    <3>4. QED
      BY <3>2, <3>3
  <2>3. CASE EndToken
    BY <2>3, <1>c, <1>d DEF EndToken
  <2>4. QED
    BY <1>5, <2>2, <2>3 DEF FinishLayer
<1>6. CASE Reset
  BY <1>6, <1>d DEF Reset
<1>7. CASE UNCHANGED vars
  BY <1>7, <1>a DEF vars, SelectionHeld, AttendedHeld, Chosen, FullBefore
<1>8. QED
  BY <1>1, <1>2, <1>3, <1>4, <1>5, <1>6, <1>7 DEF Next

-----------------------------------------------------------------------------
\* Init establishes the invariant.
LEMMA IInvInit == Init => IInv
<1> SUFFICES ASSUME Init PROVE IInv
  OBVIOUS
<1>1. Counts
  BY CountsInit
<1>2. RowsHeld /\ IndexHeld
  <2>1. \A l : Kept(l) = {} /\ IndexKept(l) = {}
    BY DEF Init, Kept, IndexKept
  <2>2. QED
    BY <2>1 DEF RowsHeld, IndexHeld
<1>3. SelectionHeld /\ AttendedHeld
  BY DEF Init, SelectionHeld, AttendedHeld
<1>4. QED
  BY <1>1, <1>2, <1>3 DEF IInv

\* Every step keeps it.
LEMMA IInvStep == IInv /\ [Next]_vars => IInv'
  BY CountsStep, RowsHeldStep, IndexHeldStep, SelectionStep DEF IInv

\* The loop keeps its counts, its rows, its index keys and its selection.
THEOREM Invariance == Spec => []IInv
<1>1. Init => IInv
  BY IInvInit
<1>2. IInv /\ [Next]_vars => IInv'
  BY IInvStep
<1>3. QED
  BY <1>1, <1>2, PTL DEF Spec

\* What the getters return are the views of the invariant.
LEMMA GettersAreViews ==
    ASSUME Counts, NEW l \in Layers, NEW t \in 0 .. kv.cap - 1
    PROVE  /\ \A h \in Heads : GetKey(l, h, t) = KeyAt(kv, l, h, t)
           /\ \A h \in Heads : GetValue(l, h, t) = ValueAt(kv, l, h, t)
           /\ GetIndexKey(l, t) = IndexKeyAt(kv, l, t)
<1>1. kv.stride = kv.cap * QkDim /\ kv.cap \in Nat
  BY DEF Counts, IsCache
<1>2. \A h \in Heads : GetKey(l, h, t) = KeyAt(kv, l, h, t)
  BY <1>1 DEF GetKey, KeyAt, Block
<1>3. \A h \in Heads : GetValue(l, h, t) = ValueAt(kv, l, h, t)
  BY DEF GetValue, ValueAt, Block
<1>4. \A d \in Offsets(IndexDim) : 0 * (kv.cap * IndexDim) + t * IndexDim + d = t * IndexDim + d
  BY <1>1, Dimensions
<1>5. GetIndexKey(l, t) = IndexKeyAt(kv, l, t)
  BY <1>4 DEF GetIndexKey, IndexKeyAt, Block
<1>6. QED
  BY <1>2, <1>3, <1>5

\* The variables keep their shape, and every buffer has exactly the room of the
\* capacity: TypeOK of the token loop.
THEOREM TypeCorrect == Spec => []TypeOK
<1>1. IInv => TypeOK
  <2> SUFFICES ASSUME Counts PROVE TypeOK
    BY DEF IInv
  <2>1. IsCache(kv)
    BY DEF Counts
  <2>2. kv.cap \in Nat \ {0} /\ kv.stride = kv.cap * QkDim
    BY <2>1 DEF IsCache
  <2>3. kv.len \in 0 .. kv.cap
    BY <2>2, BoundsAssumption DEF Counts
  <2>4. /\ NumHeads * kv.stride = NumHeads * (kv.cap * QkDim)
        /\ NumHeads * kv.cap * VDim = NumHeads * (kv.cap * VDim)
        /\ kv.cap * IndexDim = 1 * (kv.cap * IndexDim)
    BY <2>2, Dimensions
  <2>5. ASSUME NEW l \in Layers
        PROVE  /\ DOMAIN kv.key[l] = Offsets(NumHeads * kv.stride)
               /\ DOMAIN kv.value[l] = Offsets(NumHeads * kv.cap * VDim)
               /\ DOMAIN kv.indexKey[l] = Offsets(kv.cap * IndexDim)
    BY <2>1, <2>4 DEF IsCache, HasRoom
  <2>6. QED
    BY <2>2, <2>3, <2>5 DEF TypeOK, Counts
<1>2. QED
  BY Invariance, <1>1, PTL

\* Attention reads rows of this conversation and of the positions it asks for,
\* however often the buffers were moved and whatever reset() left in them:
\* HistoryIsCurrent.
THEOREM HistoryKept == Spec => []HistoryIsCurrent
<1>1. IInv => HistoryIsCurrent
  <2> SUFFICES ASSUME IInv, pc = "attend"
               PROVE  /\ \A t \in selSet, h \in Heads :
                         /\ GetKey(layer, h, t) = Part(KeyRow(t), h, QkDim)
                         /\ GetValue(layer, h, t) = Part(ValueRow(t), h, VDim)
                      /\ Indexes =>
                          \A t \in 0 .. seqLen : GetIndexKey(layer, t) = IndexRow(t)
    BY DEF HistoryIsCurrent, IInv, Counts
  <2>1. Counts /\ layer \in Layers /\ selSet \subseteq 0 .. seqLen
    BY DEF IInv, Counts, AttendedHeld
  <2>2. Kept(layer) = 0 .. seqLen /\ IndexKept(layer) = 0 .. seqLen
    BY DEF Kept, IndexKept
  <2>3. 0 .. seqLen \subseteq 0 .. kv.cap - 1
    BY <2>1, <2>2, KeptFits
  <2>4. ASSUME NEW t \in selSet, NEW h \in Heads
        PROVE  /\ GetKey(layer, h, t) = Part(KeyRow(t), h, QkDim)
               /\ GetValue(layer, h, t) = Part(ValueRow(t), h, VDim)
    <3>1. t \in Kept(layer) /\ t \in 0 .. kv.cap - 1
      BY <2>1, <2>2, <2>3
    <3>2. QED
      BY <2>1, <3>1, GettersAreViews DEF IInv, RowsHeld
  <2>5. ASSUME Indexes, NEW t \in 0 .. seqLen
        PROVE  GetIndexKey(layer, t) = IndexRow(t)
    <3>1. t \in IndexKept(layer) /\ t \in 0 .. kv.cap - 1
      BY <2>2, <2>3
    <3>2. GetIndexKey(layer, t) = Part(IndexRow(t), 0, IndexDim)
      BY <2>1, <2>5, <3>1, GettersAreViews DEF IInv, IndexHeld, Indexes
    <3>3. Part(IndexRow(t), 0, IndexDim) = IndexRow(t)
      BY Dimensions DEF Part, IndexRow, Row
    <3>4. QED
      BY <3>2, <3>3
  <2>6. QED
    BY <2>4, <2>5
<1>2. QED
  BY Invariance, <1>1, PTL

\* A layer attends to the selection of the nearest full layer at or before it,
\* made for this token: SelectionOfThisToken.
THEOREM SelectionsAreOwn == Spec => []SelectionOfThisToken
<1>1. IInv => SelectionOfThisToken
  <2> SUFFICES ASSUME Counts, AttendedHeld PROVE SelectionOfThisToken
    BY DEF IInv
  <2>1. {f \in fullLayers : dsaEnabled /\ f <= layer} = FullBefore(layer + 1)
    <3>1. layer \in Int /\ \A f \in fullLayers : f \in Int
      BY SchedulesAssumption DEF Counts, Layers
    <3>2. QED
      BY <3>1 DEF FullBefore
  <2>2. QED
    BY <2>1 DEF SelectionOfThisToken, AttendedHeld
<1>2. QED
  BY Invariance, <1>1, PTL

\* While a token is in progress the buffers stay where they are: AppendsStayInPlace.
THEOREM AppendsInPlace == Spec => AppendsStayInPlace
<1>1. IInv /\ [Next]_vars => [pc # "idle" => kv'.cap = kv.cap]_vars
  <2> SUFFICES ASSUME Counts, Next, pc # "idle"
               PROVE  kv'.cap = kv.cap
    BY DEF IInv
  <2>1. CASE StoreKeyValue
    BY <2>1, StoreKeyValueStep
  <2>2. CASE RunIndexer
    BY <2>2, RunIndexerStep
  <2>3. CASE ReuseSelection
    BY <2>3 DEF ReuseSelection
  <2>4. CASE FinishLayer
    <3>1. NextLayer \/ EndToken
      BY <2>4 DEF FinishLayer
    <3>2. CASE NextLayer
      BY <3>2 DEF NextLayer
    <3>3. CASE EndToken
      BY <3>3, EndTokenStep
    <3>4. QED
      BY <3>1, <3>2, <3>3
  <2>5. QED
    BY <2>1, <2>2, <2>3, <2>4 DEF Next, ForwardCall, Reset
<1>2. QED
  BY Invariance, <1>1, PTL DEF Spec, AppendsStayInPlace

-----------------------------------------------------------------------------
\* The store of KVStore that a cache stands for: the rows joined from the
\* blocks of the heads.
KeyBlock(c, l, h, t) == IF t < c.cap THEN KeyAt(c, l, h, t) ELSE Buffer(QkDim)
ValueBlock(c, l, h, t) == IF t < c.cap THEN ValueAt(c, l, h, t) ELSE Buffer(VDim)
IndexBlock(c, l, t) == IF t < c.cap THEN IndexKeyAt(c, l, t) ELSE Buffer(IndexDim)

Joined(blocks, dim) == [i \in Offsets(NumHeads * dim) |-> blocks[i \div dim][i % dim]]

KeyView(c, l, t) == Joined([h \in Heads |-> KeyBlock(c, l, h, t)], QkDim)
ValueView(c, l, t) == Joined([h \in Heads |-> ValueBlock(c, l, h, t)], VDim)

KeysOf(c) == [l \in Layers |-> [t \in Positions |-> KeyView(c, l, t)]]
ValuesOf(c) == [l \in Layers |-> [t \in Positions |-> ValueView(c, l, t)]]
IndexKeysOf(c) == [l \in Layers |-> [t \in Positions |-> IndexBlock(c, l, t)]]

\* The offset of a float in a row names its head and its place there.
LEMMA OffsetInRow ==
    ASSUME NEW dim \in Nat \ {0}, NEW i \in Offsets(NumHeads * dim)
    PROVE  i \div dim \in Heads /\ i % dim \in Offsets(dim) /\ (i \div dim) * dim + (i % dim) = i
  BY BlockOf, Dimensions DEF Heads

\* Joining the parts of a row gives the row.
LEMMA JoinedParts ==
    ASSUME NEW dim \in Nat \ {0}, NEW c, NEW t
    PROVE  Joined([h \in Heads |-> Part(Row(NumHeads * dim, c, t), h, dim)], dim)
             = Row(NumHeads * dim, c, t)
<1> DEFINE row == Row(NumHeads * dim, c, t)
           blocks == [h \in Heads |-> Part(row, h, dim)]
<1>1. row = [i \in Offsets(NumHeads * dim) |-> row[i]]
  BY DEF Row
<1> HIDE DEF row
<1>2. ASSUME NEW i \in Offsets(NumHeads * dim)
      PROVE  blocks[i \div dim][i % dim] = row[i]
  <2>1. i \div dim \in Heads /\ i % dim \in Offsets(dim) /\ (i \div dim) * dim + (i % dim) = i
    BY OffsetInRow
  <2>2. Part(row, i \div dim, dim)[i % dim] = row[(i \div dim) * dim + (i % dim)]
    BY <2>1 DEF Part
  <2>3. QED
    BY <2>1, <2>2
<1> HIDE DEF blocks
<1>3. Joined(blocks, dim) = row
  BY <1>1, <1>2 DEF Joined
<1>4. QED
  BY <1>3 DEF blocks, row

\* Joining blank blocks gives a blank row.
LEMMA JoinedBlanks ==
    ASSUME NEW dim \in Nat \ {0}
    PROVE  Joined([h \in Heads |-> Buffer(dim)], dim) = Buffer(NumHeads * dim)
<1>1. ASSUME NEW i \in Offsets(NumHeads * dim)
      PROVE  [h \in Heads |-> Buffer(dim)][i \div dim][i % dim] = Zero
  <2>1. i \div dim \in Heads /\ i % dim \in Offsets(dim)
    BY OffsetInRow
  <2>2. Buffer(dim)[i % dim] = Zero
    BY <2>1 DEF Buffer
  <2>3. QED
    BY <2>1, <2>2
<1> DEFINE blocks == [h \in Heads |-> Buffer(dim)]
<1>2. \A i \in Offsets(NumHeads * dim) : blocks[i \div dim][i % dim] = Zero
  BY <1>1
<1> HIDE DEF blocks
<1>3. Joined(blocks, dim) = Buffer(NumHeads * dim)
  BY <1>2 DEF Joined, Buffer
<1>4. QED
  BY <1>3 DEF blocks

\* The refinement mapping gathers exactly these rows.
LEMMA MappingIsView ==
    Counts =>
        /\ [l \in Layers |-> [t \in Positions |->
               Gathered(LAMBDA h, p : GetKey(l, h, p), QkDim, t)]] = KeysOf(kv)
        /\ [l \in Layers |-> [t \in Positions |->
               Gathered(LAMBDA h, p : GetValue(l, h, p), VDim, t)]] = ValuesOf(kv)
        /\ [l \in Layers |-> [t \in Positions |->
               IF t < kv.cap THEN GetIndexKey(l, t) ELSE Buffer(IndexDim)]] = IndexKeysOf(kv)
<1> SUFFICES ASSUME Counts, NEW l \in Layers, NEW t \in Positions
             PROVE  /\ Gathered(LAMBDA h, p : GetKey(l, h, p), QkDim, t) = KeyView(kv, l, t)
                    /\ Gathered(LAMBDA h, p : GetValue(l, h, p), VDim, t) = ValueView(kv, l, t)
                    /\ (IF t < kv.cap THEN GetIndexKey(l, t) ELSE Buffer(IndexDim)) = IndexBlock(kv, l, t)
  BY DEF KeysOf, ValuesOf, IndexKeysOf
<1>0. kv.cap \in Nat /\ t \in Nat
  BY BoundsAssumption DEF Counts, IsCache, Positions
<1>1. t < kv.cap => /\ \A h \in Heads : GetKey(l, h, t) = KeyAt(kv, l, h, t)
                    /\ \A h \in Heads : GetValue(l, h, t) = ValueAt(kv, l, h, t)
                    /\ GetIndexKey(l, t) = IndexKeyAt(kv, l, t)
  BY <1>0, GettersAreViews
<1>2. Gathered(LAMBDA h, p : GetKey(l, h, p), QkDim, t) = KeyView(kv, l, t)
  <2>1. ASSUME NEW i \in Offsets(NumHeads * QkDim)
        PROVE  (IF t < kv.cap THEN GetKey(l, i \div QkDim, t)[i % QkDim] ELSE Zero)
                 = KeyBlock(kv, l, i \div QkDim, t)[i % QkDim]
    <3>1. i \div QkDim \in Heads /\ i % QkDim \in Offsets(QkDim)
      BY OffsetInRow, Dimensions
    <3>2. Buffer(QkDim)[i % QkDim] = Zero
      BY <3>1 DEF Buffer
    <3>3. QED
      BY <1>1, <3>1, <3>2 DEF KeyBlock
  <2>2. \A i \in Offsets(NumHeads * QkDim) : i \div QkDim \in Heads
    BY OffsetInRow, Dimensions
  <2>3. QED
    BY <2>1, <2>2 DEF Gathered, KeyView, Joined
<1>3. Gathered(LAMBDA h, p : GetValue(l, h, p), VDim, t) = ValueView(kv, l, t)
  <2>1. ASSUME NEW i \in Offsets(NumHeads * VDim)
        PROVE  (IF t < kv.cap THEN GetValue(l, i \div VDim, t)[i % VDim] ELSE Zero)
                 = ValueBlock(kv, l, i \div VDim, t)[i % VDim]
    <3>1. i \div VDim \in Heads /\ i % VDim \in Offsets(VDim)
      BY OffsetInRow, Dimensions
    <3>2. Buffer(VDim)[i % VDim] = Zero
      BY <3>1 DEF Buffer
    <3>3. QED
      BY <1>1, <3>1, <3>2 DEF ValueBlock
  <2>2. \A i \in Offsets(NumHeads * VDim) : i \div VDim \in Heads
    BY OffsetInRow, Dimensions
  <2>3. QED
    BY <2>1, <2>2 DEF Gathered, ValueView, Joined
<1>4. QED
  BY <1>1, <1>2, <1>3 DEF IndexBlock

\* A new buffer with room for `cap` positions of every head.
Zeroed(heads, cap, dim) == Buffer(heads * (cap * dim))

\* It holds blank blocks.
LEMMA BlankBlock ==
    ASSUME NEW nh \in Nat, NEW cap \in Nat \ {0}, NEW dim \in Nat \ {0},
           NEW h \in 0 .. nh - 1, NEW t \in 0 .. cap - 1
    PROVE  Block(Zeroed(nh, cap, dim), cap, dim, h, t) = Buffer(dim)
<1>1. ASSUME NEW d \in Offsets(dim)
      PROVE  Buffer(nh * (cap * dim))[h * (cap * dim) + t * dim + d] = Zero
  <2> DEFINE stride == cap * dim
  <2>1. stride = cap * dim /\ d \in 0 .. dim - 1
    OBVIOUS
  <2> HIDE DEF stride
  <2>2. h * stride + t * dim + d \in 0 .. nh * stride - 1
    BY <2>1, Place
  <2>3. QED
    BY <2>2 DEF Buffer, stride
<1>2. QED
  BY <1>1 DEF Block, Buffer, Zeroed

\* The empty cache is the blank store.
LEMMA EmptyIsBlank ==
    ASSUME NEW cap \in Nat \ {0}
    PROVE  /\ KeysOf(Empty(cap)) = [l \in Layers |-> [t \in Positions |-> Buffer(NumHeads * QkDim)]]
           /\ ValuesOf(Empty(cap)) = [l \in Layers |-> [t \in Positions |-> Buffer(NumHeads * VDim)]]
           /\ IndexKeysOf(Empty(cap)) = [l \in Layers |-> [t \in Positions |-> Buffer(IndexDim)]]
<1> DEFINE c == Empty(cap)
<1>1. /\ NumHeads * cap * QkDim = NumHeads * (cap * QkDim)
      /\ NumHeads * cap * VDim = NumHeads * (cap * VDim)
      /\ cap * IndexDim = 1 * (cap * IndexDim)
  BY Dimensions
<1>2. /\ c.cap = cap
      /\ \A l \in Layers : /\ c.key[l] = Zeroed(NumHeads, cap, QkDim)
                           /\ c.value[l] = Zeroed(NumHeads, cap, VDim)
                           /\ c.indexKey[l] = Zeroed(1, cap, IndexDim)
  BY <1>1 DEF Empty, Zeroed
<1> HIDE DEF c
<1>3. ASSUME NEW l \in Layers, NEW t \in Positions
      PROVE  /\ KeyView(c, l, t) = Buffer(NumHeads * QkDim)
             /\ ValueView(c, l, t) = Buffer(NumHeads * VDim)
             /\ IndexBlock(c, l, t) = Buffer(IndexDim)
  <2>0. t \in Nat /\ 0 \in 0 .. 1 - 1 /\ 1 \in Nat
    BY BoundsAssumption DEF Positions
  <2>1. ASSUME NEW h \in Heads
        PROVE  KeyBlock(c, l, h, t) = Buffer(QkDim) /\ ValueBlock(c, l, h, t) = Buffer(VDim)
    <3>1. h \in 0 .. NumHeads - 1 /\ (t < cap => t \in 0 .. cap - 1)
      BY <2>0 DEF Heads
    <3>2. t < cap => /\ Block(Zeroed(NumHeads, cap, QkDim), cap, QkDim, h, t) = Buffer(QkDim)
                     /\ Block(Zeroed(NumHeads, cap, VDim), cap, VDim, h, t) = Buffer(VDim)
      BY <3>1, Dimensions, BlankBlock
    <3>3. QED
      BY <1>2, <3>2 DEF KeyBlock, ValueBlock, KeyAt, ValueAt
  <2>2. t < cap => Block(Zeroed(1, cap, IndexDim), cap, IndexDim, 0, t) = Buffer(IndexDim)
    <3>1. t < cap => t \in 0 .. cap - 1
      BY <2>0
    <3>2. QED
      BY <2>0, <3>1, Dimensions, BlankBlock
  <2>3. IndexBlock(c, l, t) = Buffer(IndexDim)
    BY <1>2, <2>2 DEF IndexBlock, IndexKeyAt
  <2>4. /\ KeyView(c, l, t) = Joined([h \in Heads |-> Buffer(QkDim)], QkDim)
        /\ ValueView(c, l, t) = Joined([h \in Heads |-> Buffer(VDim)], VDim)
    BY <2>1 DEF KeyView, ValueView
  <2>5. QED
    BY <2>3, <2>4, Dimensions, JoinedBlanks
<1>4. QED
  BY <1>3 DEF KeysOf, ValuesOf, IndexKeysOf, c

\* A cache whose blocks are the same stands for the same store.
LEMMA SameBlocks ==
    ASSUME NEW c, NEW e
    PROVE  /\ (\A l \in Layers, t \in Positions, h \in Heads :
                   KeyBlock(c, l, h, t) = KeyBlock(e, l, h, t)) => KeysOf(c) = KeysOf(e)
           /\ (\A l \in Layers, t \in Positions, h \in Heads :
                   ValueBlock(c, l, h, t) = ValueBlock(e, l, h, t)) => ValuesOf(c) = ValuesOf(e)
           /\ (\A l \in Layers, t \in Positions :
                   IndexBlock(c, l, t) = IndexBlock(e, l, t)) => IndexKeysOf(c) = IndexKeysOf(e)
<1>1. ASSUME \A l \in Layers, t \in Positions, h \in Heads :
                 KeyBlock(c, l, h, t) = KeyBlock(e, l, h, t)
      PROVE  KeysOf(c) = KeysOf(e)
  <2>1. \A l \in Layers, t \in Positions : KeyView(c, l, t) = KeyView(e, l, t)
    BY <1>1 DEF KeyView
  <2>2. QED
    BY <2>1 DEF KeysOf
<1>2. ASSUME \A l \in Layers, t \in Positions, h \in Heads :
                 ValueBlock(c, l, h, t) = ValueBlock(e, l, h, t)
      PROVE  ValuesOf(c) = ValuesOf(e)
  <2>1. \A l \in Layers, t \in Positions : ValueView(c, l, t) = ValueView(e, l, t)
    BY <1>2 DEF ValueView
  <2>2. QED
    BY <2>1 DEF ValuesOf
<1>3. QED
  BY <1>1, <1>2 DEF IndexKeysOf

\* Initially the mapping yields the blank store.
LEMMA StoreInit == Init => Store!Init
<1> SUFFICES ASSUME Init PROVE Store!Init
  OBVIOUS
<1>1. Counts /\ kv = Empty(InitialCap) /\ kv.len = 0
  BY CountsInit, InitialCapAssumption, EmptyIsCache DEF Init
<1>2. /\ KeysOf(kv) = [l \in Layers |-> [t \in Positions |-> Buffer(NumHeads * QkDim)]]
      /\ ValuesOf(kv) = [l \in Layers |-> [t \in Positions |-> Buffer(NumHeads * VDim)]]
      /\ IndexKeysOf(kv) = [l \in Layers |-> [t \in Positions |-> Buffer(IndexDim)]]
  BY <1>1, InitialCapAssumption, EmptyIsBlank
<1>3. QED
  BY <1>1, <1>2, MappingIsView DEF Store!Init, Store!Blank

\* What each step does to the store a cache stands for.
LEMMA StoreOfStep ==
    ASSUME Counts, [Next]_vars
    PROVE  \/ /\ KeysOf(kv') = KeysOf(kv) /\ ValuesOf(kv') = ValuesOf(kv)
              /\ IndexKeysOf(kv') = IndexKeysOf(kv)
              /\ kv'.len \in {kv.len, kv.len + 1, 0}
           \/ /\ layer \in Layers /\ seqLen \in Positions
              /\ KeysOf(kv') = [KeysOf(kv) EXCEPT ![layer][seqLen] = KeyRow(seqLen)]
              /\ ValuesOf(kv') = [ValuesOf(kv) EXCEPT ![layer][seqLen] = ValueRow(seqLen)]
              /\ IndexKeysOf(kv') = IndexKeysOf(kv) /\ kv'.len = kv.len
           \/ /\ layer \in Layers /\ seqLen \in Positions
              /\ IndexKeysOf(kv') = [IndexKeysOf(kv) EXCEPT ![layer][seqLen] = IndexRow(seqLen)]
              /\ KeysOf(kv') = KeysOf(kv) /\ ValuesOf(kv') = ValuesOf(kv) /\ kv'.len = kv.len
<1> DEFINE Still == /\ KeysOf(kv') = KeysOf(kv) /\ ValuesOf(kv') = ValuesOf(kv)
                    /\ IndexKeysOf(kv') = IndexKeysOf(kv)
<1>0. /\ kv.cap \in Nat /\ layer \in Layers /\ seqLen \in Positions
      /\ \A t \in Positions : t \in Nat /\ (t < kv.cap => t \in 0 .. kv.cap - 1)
  BY BoundsAssumption DEF Counts, IsCache, Positions
<1>a. ASSUME kv'.cap = kv.cap,
             \A k, h, t : /\ KeyAt(kv', k, h, t) = KeyAt(kv, k, h, t)
                          /\ ValueAt(kv', k, h, t) = ValueAt(kv, k, h, t)
                          /\ IndexKeyAt(kv', k, t) = IndexKeyAt(kv, k, t)
      PROVE  Still
  <2>1. /\ \A l \in Layers, t \in Positions, h \in Heads :
               /\ KeyBlock(kv', l, h, t) = KeyBlock(kv, l, h, t)
               /\ ValueBlock(kv', l, h, t) = ValueBlock(kv, l, h, t)
        /\ \A l \in Layers, t \in Positions : IndexBlock(kv', l, t) = IndexBlock(kv, l, t)
    BY <1>a DEF KeyBlock, ValueBlock, IndexBlock
  <2>2. QED
    BY <2>1, SameBlocks
<1>1. ASSUME NEW n \in 0 .. MaxTokens, ForwardCall(n)
      PROVE  Still /\ kv'.len = kv.len
  <2>1. kv'.cap \in Nat /\ kv'.cap >= kv.cap /\ kv'.len = kv.len
    BY <1>1, ForwardCallStep DEF IsCache
  <2>2. ASSUME NEW l \in Layers, NEW t \in Positions
        PROVE  /\ \A h \in Heads : /\ KeyBlock(kv', l, h, t) = KeyBlock(kv, l, h, t)
                                   /\ ValueBlock(kv', l, h, t) = ValueBlock(kv, l, h, t)
               /\ IndexBlock(kv', l, t) = IndexBlock(kv, l, t)
    <3>1. CASE t < kv'.cap
      <4>1. t \in 0 .. kv'.cap - 1
        BY <1>0, <2>1, <3>1
      <4>2. QED
        BY <1>1, <3>1, <4>1, ForwardCallStep DEF KeyBlock, ValueBlock, IndexBlock
    <3>2. CASE ~(t < kv'.cap)
      <4>1. ~(t < kv.cap)
        BY <1>0, <2>1, <3>2
      <4>2. QED
        BY <3>2, <4>1 DEF KeyBlock, ValueBlock, IndexBlock
    <3>3. QED
      BY <3>1, <3>2
  <2>3. QED
    BY <2>1, <2>2, SameBlocks
<1>2. CASE StoreKeyValue
  <2>1. kv'.cap = kv.cap /\ kv'.len = kv.len /\ seqLen < kv.cap
    BY <1>2, TokenFits, StoreKeyValueStep DEF StoreKeyValue
  <2>2. ASSUME NEW k \in Layers, NEW t \in Positions
        PROVE  /\ \A h \in Heads :
                    /\ KeyBlock(kv', k, h, t)
                         = IF k = layer /\ t = seqLen THEN Part(KeyRow(seqLen), h, QkDim)
                           ELSE KeyBlock(kv, k, h, t)
                    /\ ValueBlock(kv', k, h, t)
                         = IF k = layer /\ t = seqLen THEN Part(ValueRow(seqLen), h, VDim)
                           ELSE ValueBlock(kv, k, h, t)
               /\ IndexBlock(kv', k, t) = IndexBlock(kv, k, t)
    BY <1>0, <1>2, <2>1, StoreKeyValueStep DEF KeyBlock, ValueBlock, IndexBlock
  <2>3. /\ KeysOf(kv') = [KeysOf(kv) EXCEPT ![layer][seqLen] = KeyRow(seqLen)]
        /\ ValuesOf(kv') = [ValuesOf(kv) EXCEPT ![layer][seqLen] = ValueRow(seqLen)]
    <3>1. KeyView(kv', layer, seqLen) = KeyRow(seqLen) /\ ValueView(kv', layer, seqLen) = ValueRow(seqLen)
      <4>1. /\ KeyView(kv', layer, seqLen) = Joined([h \in Heads |-> Part(KeyRow(seqLen), h, QkDim)], QkDim)
            /\ ValueView(kv', layer, seqLen) = Joined([h \in Heads |-> Part(ValueRow(seqLen), h, VDim)], VDim)
        BY <1>0, <2>2 DEF KeyView, ValueView
      <4>2. QED
        BY <4>1, Dimensions, JoinedParts DEF KeyRow, ValueRow
    <3>2. \A k \in Layers, t \in Positions : ~(k = layer /\ t = seqLen) =>
              KeyView(kv', k, t) = KeyView(kv, k, t) /\ ValueView(kv', k, t) = ValueView(kv, k, t)
      BY <2>2 DEF KeyView, ValueView
    <3>3. QED
      BY <1>0, <3>1, <3>2 DEF KeysOf, ValuesOf
  <2>4. IndexKeysOf(kv') = IndexKeysOf(kv)
    BY <2>2, SameBlocks
  <2>5. QED
    BY <1>0, <2>1, <2>3, <2>4
<1>3. CASE RunIndexer
  <2>1. kv'.cap = kv.cap /\ kv'.len = kv.len /\ seqLen < kv.cap
    BY <1>3, TokenFits, RunIndexerStep DEF RunIndexer
  <2>2. ASSUME NEW k \in Layers, NEW t \in Positions
        PROVE  /\ \A h \in Heads : /\ KeyBlock(kv', k, h, t) = KeyBlock(kv, k, h, t)
                                   /\ ValueBlock(kv', k, h, t) = ValueBlock(kv, k, h, t)
               /\ IndexBlock(kv', k, t)
                    = IF k = layer /\ t = seqLen THEN Part(IndexRow(seqLen), 0, IndexDim)
                      ELSE IndexBlock(kv, k, t)
    BY <1>0, <1>3, <2>1, RunIndexerStep DEF KeyBlock, ValueBlock, IndexBlock
  <2>3. Part(IndexRow(seqLen), 0, IndexDim) = IndexRow(seqLen)
    BY Dimensions DEF Part, IndexRow, Row
  <2>4. IndexKeysOf(kv') = [IndexKeysOf(kv) EXCEPT ![layer][seqLen] = IndexRow(seqLen)]
    BY <1>0, <2>2, <2>3 DEF IndexKeysOf
  <2>5. KeysOf(kv') = KeysOf(kv) /\ ValuesOf(kv') = ValuesOf(kv)
    BY <2>2, SameBlocks
  <2>6. QED
    BY <1>0, <2>1, <2>4, <2>5
<1>4. CASE FinishLayer
  <2>1. pc # "idle" /\ (NextLayer \/ EndToken)
    BY <1>4 DEF FinishLayer
  <2>2. CASE NextLayer
    BY <2>2 DEF NextLayer
  <2>3. CASE EndToken
    BY <1>a, <2>1, <2>3, EndTokenStep
  <2>4. QED
    BY <2>1, <2>2, <2>3
<1>5. CASE Reset
  BY <1>5, <1>a, ResetStep
<1>6. CASE ReuseSelection \/ UNCHANGED vars
  BY <1>6 DEF ReuseSelection, vars
<1>7. QED
  BY <1>1, <1>2, <1>3, <1>4, <1>5, <1>6 DEF Next

\* Every step of the loop is a step of the store or leaves it alone.
LEMMA StoreStep == Counts /\ Counts' /\ [Next]_vars => [Store!Next]_(Store!storeVars)
<1> SUFFICES ASSUME Counts, Counts', [Next]_vars
             PROVE  [Store!Next]_(Store!storeVars)
  OBVIOUS
<1> DEFINE keys == [l \in Layers |-> [t \in Positions |->
                       Gathered(LAMBDA h, p : GetKey(l, h, p), QkDim, t)]]
           values == [l \in Layers |-> [t \in Positions |->
                       Gathered(LAMBDA h, p : GetValue(l, h, p), VDim, t)]]
           indexKeys == [l \in Layers |-> [t \in Positions |->
                       IF t < kv.cap THEN GetIndexKey(l, t) ELSE Buffer(IndexDim)]]
<1>1. keys = KeysOf(kv) /\ values = ValuesOf(kv) /\ indexKeys = IndexKeysOf(kv)
  BY MappingIsView
<1>2. Counts' => (keys = KeysOf(kv) /\ values = ValuesOf(kv) /\ indexKeys = IndexKeysOf(kv))'
  BY MappingIsView, PTL
<1>3. keys' = KeysOf(kv') /\ values' = ValuesOf(kv') /\ indexKeys' = IndexKeysOf(kv')
  <2>1. KeysOf(kv)' = KeysOf(kv') /\ ValuesOf(kv)' = ValuesOf(kv') /\ IndexKeysOf(kv)' = IndexKeysOf(kv')
    OBVIOUS
  <2>2. QED
    BY <1>2, <2>1
<1>4. \A t \in Positions : /\ KeyRow(t) \in Rows(NumHeads * QkDim)
                           /\ ValueRow(t) \in Rows(NumHeads * VDim)
                           /\ IndexRow(t) \in Rows(IndexDim)
  BY DEF KeyRow, ValueRow, IndexRow, Rows, Counts
<1>5. ASSUME KeysOf(kv') = KeysOf(kv), ValuesOf(kv') = ValuesOf(kv), IndexKeysOf(kv') = IndexKeysOf(kv)
      PROVE  keys' = keys /\ values' = values /\ indexKeys' = indexKeys
  BY <1>1, <1>3, <1>5
<1>6. CASE /\ KeysOf(kv') = KeysOf(kv) /\ ValuesOf(kv') = ValuesOf(kv)
           /\ IndexKeysOf(kv') = IndexKeysOf(kv)
           /\ kv'.len \in {kv.len, kv.len + 1, 0}
  <2>1. CASE kv'.len = kv.len
    BY <1>5, <1>6, <2>1 DEF Store!storeVars
  <2>2. CASE kv'.len = kv.len + 1
    <3>1. Store!Advance
      BY <1>5, <1>6, <2>2 DEF Store!Advance
    <3>2. QED
      BY <3>1 DEF Store!Next
  <2>3. CASE kv'.len = 0
    <3>1. Store!Clear
      BY <1>5, <1>6, <2>3 DEF Store!Clear
    <3>2. QED
      BY <3>1 DEF Store!Next
  <2>4. QED
    BY <1>6, <2>1, <2>2, <2>3
<1>7. CASE /\ layer \in Layers /\ seqLen \in Positions
           /\ KeysOf(kv') = [KeysOf(kv) EXCEPT ![layer][seqLen] = KeyRow(seqLen)]
           /\ ValuesOf(kv') = [ValuesOf(kv) EXCEPT ![layer][seqLen] = ValueRow(seqLen)]
           /\ IndexKeysOf(kv') = IndexKeysOf(kv) /\ kv'.len = kv.len
  <2>1. PICK l \in Layers, t \in Positions : l = layer /\ t = seqLen
    BY <1>7
  <2>2. /\ keys' = [keys EXCEPT ![l][t] = KeyRow(t)]
        /\ values' = [values EXCEPT ![l][t] = ValueRow(t)]
        /\ indexKeys' = indexKeys
    <3> HIDE DEF keys, values, indexKeys
    <3>1. QED
      BY <1>1, <1>3, <1>7, <2>1
  <2>3. Store!AppendKeyValue(l, t)
    <3>1. \E k \in Rows(NumHeads * QkDim) : keys' = [keys EXCEPT ![l][t] = k]
      BY <1>4, <2>2
    <3>2. \E v \in Rows(NumHeads * VDim) : values' = [values EXCEPT ![l][t] = v]
      BY <1>4, <2>2
    <3>3. QED
      BY <1>7, <2>2, <3>1, <3>2 DEF Store!AppendKeyValue
  <2>4. QED
    BY <2>3 DEF Store!Next
<1>8. CASE /\ layer \in Layers /\ seqLen \in Positions
           /\ IndexKeysOf(kv') = [IndexKeysOf(kv) EXCEPT ![layer][seqLen] = IndexRow(seqLen)]
           /\ KeysOf(kv') = KeysOf(kv) /\ ValuesOf(kv') = ValuesOf(kv) /\ kv'.len = kv.len
  <2>1. PICK l \in Layers, t \in Positions : l = layer /\ t = seqLen
    BY <1>8
  <2>2. /\ indexKeys' = [indexKeys EXCEPT ![l][t] = IndexRow(t)]
        /\ keys' = keys /\ values' = values
    <3> HIDE DEF keys, values, indexKeys
    <3>1. QED
      BY <1>1, <1>3, <1>8, <2>1
  <2>3. Store!AppendIndexKey(l, t)
    <3>1. \E x \in Rows(IndexDim) : indexKeys' = [indexKeys EXCEPT ![l][t] = x]
      BY <1>4, <2>2
    <3>2. QED
      BY <1>8, <2>2, <3>1 DEF Store!AppendIndexKey
  <2>4. QED
    BY <2>3 DEF Store!Next
<1>9. QED
  BY <1>6, <1>7, <1>8, StoreOfStep

\* The decoding loop's cache implements the store that attention relies on:
\* "a pure memory-layout change". ImplementsKVStore.
THEOREM StoreRefinement == Spec => ImplementsKVStore
<1>1. Init => Store!Init
  BY StoreInit
<1>2. IInv /\ IInv' /\ [Next]_vars => [Store!Next]_(Store!storeVars)
  BY StoreStep DEF IInv
<1>3. QED
  BY <1>1, <1>2, Invariance, PTL DEF Spec, ImplementsKVStore, Store!Spec
=============================================================================
