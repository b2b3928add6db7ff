------------------------------ MODULE WarmPass ------------------------------
(***************************************************************************)
(* Scheduler::warmDenseWeights (src/src/engine/scheduler.cpp): the tensors *)
(* every token reads are read once at start-up, merged into runs, cut into *)
(* chunks, through a reader of its own and a ring of buffers that is       *)
(* reused after a drain.  The reader is the Windows one.                   *)
(***************************************************************************)
EXTENDS WinReader, SequencesExt

CONSTANTS
    Dense,           \* the tensors: [shard, offset, size]
    Gap,             \* kRunMergeGap
    Pool,            \* kWarmPool, the buffers of the ring: 16
    Chunk            \* kWarmChunk, the size of one: 8 MiB

ASSUME PoolAssumption == Pool \in Nat \ {0} /\ Chunk \in Nat \ {0}
ASSUME DenseAssumption ==
    IsFiniteSet(Dense) /\ \A t \in Dense : t.offset \in Nat /\ t.size \in Nat

VARIABLES
    plan,            \* the reads of the pass, in order
    submitted,       \* how many have been submitted
    warm             \* "idle", "submitting", "flushing", "last", "stopping", "over"

warmVars == <<plan, submitted, warm>>

Earlier(a, b) == a.offset < b.offset \/ (a.offset = b.offset /\ a.size < b.size)

\* std::sort of the ranges of one shard
InOrder(ranges) ==
    MapThenFoldSet(LAMBDA t, later : <<t>> \o later, <<>>, LAMBDA t : t,
                   LAMBDA s : CHOOSE t \in s : \A u \in s : ~Earlier(u, t),
                   ranges)

AddRange(runs, t) ==
    IF runs # <<>> /\ t.offset <= Last(runs).end + Gap
    THEN Front(runs) \o <<[Last(runs) EXCEPT !.end =
                              IF t.offset + t.size > @ THEN t.offset + t.size ELSE @]>>
    ELSE Append(runs, [shard |-> t.shard, start |-> t.offset, end |-> t.offset + t.size])

\* the runs of one shard
WarmRuns(shard) ==
    FoldLeft(AddRange, <<>>, InOrder({t \in Dense : t.shard = shard /\ t.size > 0}))

ChunksOf(run) ==
    [i \in 1 .. (run.end - run.start + Chunk - 1) \div Chunk |->
        LET pos == run.start + (i - 1) * Chunk
            left == run.end - pos
        IN  [shard |-> run.shard, offset |-> pos, size |-> IF left < Chunk THEN left ELSE Chunk]]

\* The shards are visited in the order of a hash table.
Plans ==
    {FlattenSeq([n \in DOMAIN order |-> FlattenSeq([r \in DOMAIN WarmRuns(order[n]) |->
                                            ChunksOf(WarmRuns(order[n])[r])])]) :
        order \in SetToSeqs({t.shard : t \in Dense})}

\* bound: the reads of the reader are at least those of the pass
ASSUME ReqsAssumption == \A p \in Plans : DOMAIN p \subseteq Reqs

WarmInit ==
    /\ ReaderInit
    /\ plan = <<>>
    /\ submitted = 0
    /\ warm = "idle"

-----------------------------------------------------------------------------

WarmBegin ==
    /\ warm = "idle"
    /\ \E p \in Plans :
        /\ p # <<>>
        /\ plan' = p
    /\ Start
    /\ warm' = "submitting"
    /\ UNCHANGED submitted

\* There is nothing to read, or no completion port.
WarmDeclines ==
    /\ warm = "idle"
    /\ warm' = "over"
    /\ UNCHANGED <<readerVars, plan, submitted>>

\* mutation: the ring turns without a drain
Flushes_Never(n) == FALSE

Flushes(n) == n % Pool = 0

WarmSubmit ==
    /\ warm = "submitting"
    /\ submitted < Len(plan)
    /\ submitted' = submitted + 1
    /\ Submit(submitted') \/ SubmitUnstarted(submitted')
    /\ warm' = IF Flushes(submitted') THEN "flushing" ELSE "submitting"
    /\ UNCHANGED plan

\* A drain at every turn of the ring, and one at the end.
WarmFlush ==
    /\ \/ warm = "flushing" /\ warm' = "submitting"
       \/ warm = "submitting" /\ submitted = Len(plan) /\ warm' = "last"
    /\ DrainBegin(FALSE)
    /\ UNCHANGED <<plan, submitted>>

WarmStop ==
    /\ warm = "last"
    /\ DrainBegin(TRUE)
    /\ warm' = "stopping"
    /\ UNCHANGED <<plan, submitted>>

WarmEnd ==
    /\ warm = "stopping"
    /\ caller = "closed"
    /\ warm' = "over"
    /\ UNCHANGED <<readerVars, plan, submitted>>

WarmStep ==
    \/ WarmBegin \/ WarmDeclines \/ WarmSubmit \/ WarmFlush \/ WarmStop \/ WarmEnd
    \/ ReaderStep /\ UNCHANGED warmVars

-----------------------------------------------------------------------------

Buffer(r) == r % Pool

Bytes(t) == {<<t.shard, t.offset + i>> : i \in 0 .. t.size - 1}

(***************************************************************************)
(* No two reads that the system may still be writing share a buffer of the *)
(* ring, no chunk is larger than a buffer, and a pass that came to its end *)
(* has asked for every byte of every dense tensor.                         *)
(***************************************************************************)
WarmRingSafe ==
    /\ \A r, s \in reading \cup completed \cup failed :
        r # s => Buffer(r) # Buffer(s)
    /\ \A r \in DOMAIN plan : plan[r].size \in 1 .. Chunk
    /\ warm = "stopping" =>
        UNION {Bytes(t) : t \in Dense} \subseteq UNION {Bytes(plan[r]) : r \in 1 .. submitted}
=============================================================================
