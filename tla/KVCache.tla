------------------------------ MODULE KVCache ------------------------------
(***************************************************************************)
(* The key/value cache of src/src/engine/kv_cache.cpp: per layer one flat  *)
(* head-major buffer of keys, one of values and a token-major buffer of    *)
(* indexer keys, all of them moved to larger ones when a position beyond   *)
(* the capacity is asked for.                                              *)
(*                                                                         *)
(* The class has a single caller and no lock.  Its operations are written  *)
(* as functions from one cache to the next, so that a caller's step can    *)
(* make several of them; Forward drives them.  A buffer is a function from *)
(* float offsets to cells, and a row handed to append is one from offsets  *)
(* in the caller's array.  size_t and int do not overflow for the token    *)
(* counts of a run and are unbounded here.                                 *)
(***************************************************************************)
EXTENDS Integers, FiniteSetsExt

CONSTANTS
    NumLayers, NumHeads,
    QkDim, VDim, IndexDim,   \* floats per head of a key, of a value, of an index key
    EmptyCap,                \* what growTo doubles from when the capacity is 0: 64
    FirstStep,               \* smallest first growth: 1024
    Zero                     \* the cell of a value-initialised float

ASSUME DimensionsAssumption ==
    {NumLayers, NumHeads, QkDim, VDim, IndexDim, EmptyCap, FirstStep} \subseteq Nat \ {0}

VARIABLE kv   \* the object's fields

Layers == 0 .. NumLayers - 1
Heads == 0 .. NumHeads - 1

Offsets(n) == 0 .. n - 1

Buffer(n) == [i \in Offsets(n) |-> Zero]

Empty(cap) ==
    [cap |-> cap,                   \* maxSeqLen_
     len |-> 0,                     \* seqLen_
     stride |-> cap * QkDim,        \* headStride_
     key |-> [l \in Layers |-> Buffer(NumHeads * cap * QkDim)],
     value |-> [l \in Layers |-> Buffer(NumHeads * cap * VDim)],
     indexKey |-> [l \in Layers |-> Buffer(cap * IndexDim)]]

-----------------------------------------------------------------------------

Larger(a, b) == IF a >= b THEN a ELSE b

\* The capacity and the least step after each number of turns of growTo's loop.
Turns(cap) ==
    LET after[i \in Nat] ==
            IF i = 0 THEN [cap |-> cap, floor |-> FirstStep]
            ELSE [cap |-> Larger(after[i - 1].cap * 2, after[i - 1].floor),
                  floor |-> after[i - 1].floor * 2]
    IN  after

\* The capacity growTo settles on for `need` positions.
NewCap(c, need) ==
    LET turns == Turns(IF c.cap = 0 THEN EmptyCap ELSE c.cap)
    IN  turns[Min({i \in 0 .. need : turns[i].cap >= need})].cap

\* Each head's block moves from h * old to h * new; the rest is zero.
Rebased_Verbatim(buf, old, new) ==
    [i \in Offsets(NumHeads * new) |-> IF i \in DOMAIN buf THEN buf[i] ELSE Zero]

Rebased(buf, old, new) ==
    [i \in Offsets(NumHeads * new) |->
        IF i % new < old THEN buf[(i \div new) * old + (i % new)] ELSE Zero]

\* vector::resize to n floats
Resized_Forgotten(buf, n) == buf

Resized(buf, n) ==
    [i \in Offsets(n) |-> IF i \in DOMAIN buf THEN buf[i] ELSE Zero]

GrowTo(c, tokenPos) ==
    IF tokenPos < c.cap THEN c
    ELSE LET cap == NewCap(c, tokenPos + 1)
         IN  [c EXCEPT
                !.cap = cap,
                !.stride = cap * QkDim,
                !.key = [l \in Layers |-> Rebased(@[l], c.stride, cap * QkDim)],
                !.value = [l \in Layers |-> Rebased(@[l], c.cap * VDim, cap * VDim)],
                !.indexKey = [l \in Layers |-> Resized(@[l], cap * IndexDim)]]

Reserve(c, tokenCount) ==
    IF tokenCount <= c.cap THEN c ELSE GrowTo(c, tokenCount - 1)

-----------------------------------------------------------------------------

\* The copy of each head's part of the row to h * stride + tokenPos * dim.
Written(buf, stride, dim, tokenPos, row) ==
    [i \in DOMAIN buf |->
        IF (i % stride) \div dim = tokenPos
        THEN row[(i \div stride) * dim + ((i % stride) % dim)]
        ELSE buf[i]]

AppendKey(c, l, tokenPos, row) ==
    LET g == GrowTo(c, tokenPos)
    IN  [g EXCEPT !.key[l] = Written(@, g.stride, QkDim, tokenPos, row)]

AppendValue_KeyStride(c, l, tokenPos, row) ==
    LET g == GrowTo(c, tokenPos)
    IN  [g EXCEPT !.value[l] = Written(@, g.stride, VDim, tokenPos, row)]

AppendValue(c, l, tokenPos, row) ==
    LET g == GrowTo(c, tokenPos)
    IN  [g EXCEPT !.value[l] = Written(@, g.cap * VDim, VDim, tokenPos, row)]

AppendIndexKey(c, l, tokenPos, row) ==
    LET g == GrowTo(c, tokenPos)
    IN  [g EXCEPT !.indexKey[l] = Written(@, g.cap * IndexDim, IndexDim, tokenPos, row)]

Advance(c) == IF c.len < c.cap THEN [c EXCEPT !.len = @ + 1] ELSE c

Clear(c) == [c EXCEPT !.len = 0]

-----------------------------------------------------------------------------

\* What the caller reads behind the pointer each getter returns, for a
\* position below the capacity.
GetKey(l, h, t) ==
    [d \in Offsets(QkDim) |-> kv.key[l][h * kv.stride + t * QkDim + d]]

GetValue(l, h, t) ==
    [d \in Offsets(VDim) |-> kv.value[l][h * (kv.cap * VDim) + t * VDim + d]]

GetIndexKey(l, t) ==
    [d \in Offsets(IndexDim) |-> kv.indexKey[l][t * IndexDim + d]]
=============================================================================
