------------------------------ MODULE RunMerge ------------------------------
(***************************************************************************)
(* How prefetchAsync() (src/src/engine/scheduler.cpp) turns the            *)
(* projections of a batch of experts into merged sequential reads, and     *)
(* which file bytes each slice of a read brings into the assembly buffer.  *)
(*                                                                         *)
(* A file byte is <<shard, position>>.  A buffer is the set of triples     *)
(* <<buffer position, shard, file position>> written into it so far.       *)
(***************************************************************************)
EXTENDS Integers, SequencesExt, FiniteSetsExt

CONSTANTS
    Keys,        \* the (layer, expert id) pairs, shared projections included
    NumShards,   \* shard files, numbered in the order of their names
    Loc,         \* Loc[k] = the projections of k, each [shard, offset, size]
    Gap          \* kRunMergeGap

ASSUME GapIsNat == Gap \in Nat /\ NumShards \in Nat

ASSUME KeysAreFinite == IsFiniteSet(Keys)

ASSUME LocIsPlacement ==
    Loc \in [Keys -> Seq([shard : 1..NumShards, offset : Nat, size : Nat])]

\* the projections of k that hold bytes
Parts(k) == {p \in DOMAIN Loc[k] : Loc[k][p].size > 0}

\* byteSize of each projection of k
Sizes(k) == [p \in DOMAIN Loc[k] |-> Loc[k][p].size]

\* expertOffset: where projection p starts in the buffer [gate|up|down] of k
Dest(k, p) == SumFunctionOnSet(Sizes(k), 1..(p - 1))

Total(k) == SumFunction(Sizes(k))

(***************************************************************************)
(* The buffer of k as the synchronous copy fills it: the projections one   *)
(* after the other, each from its own place in the file.                   *)
(***************************************************************************)
DiskImage == [k \in Keys |->
    UNION {{<<Dest(k, p) + i, Loc[k][p].shard, Loc[k][p].offset + i>> :
                i \in 0..(Loc[k][p].size - 1)} : p \in Parts(k)}]

\* ProjectionIO: the reads the keys of S ask of one shard
ProjectionIOs(S, shard) ==
    UNION {{[key |-> k, dest |-> Dest(k, p), offset |-> Loc[k][p].offset, size |-> Loc[k][p].size] :
                p \in {q \in Parts(k) : Loc[k][q].shard = shard}} : k \in S}

\* std::sort by offset
ByOffset(ios) ==
    MapThenFoldSet(LAMBDA io, later : <<io>> \o later, <<>>, LAMBDA io : io,
                   LAMBDA s : CHOOSE io \in s : \A other \in s : io.offset <= other.offset,
                   ios)

SliceAt(io, from) == [key |-> io.key, dest |-> io.dest, size |-> io.size, from |-> from]

NewRun(shard, io) ==
    [shard |-> shard, start |-> io.offset, end |-> io.offset + io.size,
     slices |-> <<SliceAt(io, 0)>>]

\* mutation: the slice keeps the offset it has in the file's first run
Grown_AtStart(run, io) ==
    [run EXCEPT !.end = Max({@, io.offset + io.size}),
                !.slices = Append(@, SliceAt(io, 0))]

Grown(run, io) ==
    [run EXCEPT !.end = Max({@, io.offset + io.size}),
                !.slices = Append(@, SliceAt(io, io.offset - run.start))]

\* one projection either extends the last run or starts a new one
AddIO(shard, runs, io) ==
    IF runs # <<>> /\ io.offset <= Last(runs).end + Gap
    THEN Front(runs) \o <<Grown(Last(runs), io)>>
    ELSE Append(runs, NewRun(shard, io))

ShardRuns(S, shard) ==
    FoldLeft(LAMBDA runs, io : AddIO(shard, runs, io), <<>>, ByOffset(ProjectionIOs(S, shard)))

\* the reads for S, in (shard, offset) order
RunsOf == [S \in SUBSET Keys |->
    FlattenSeq([shard \in 1..NumShards |-> ShardRuns(S, shard)])]

\* what copying slice s out of run r's buffer writes into the assembly
SliceBytes(r, s) ==
    {<<s.dest + i, r.shard, r.start + s.from + i>> : i \in 0..(s.size - 1)}

-----------------------------------------------------------------------------
\* the slices of the reads that are for k
SlicesFor(k, reads) ==
    {ri \in UNION {{<<r, i>> : i \in DOMAIN reads[r].slices} : r \in DOMAIN reads} :
        reads[ri[1]].slices[ri[2]].key = k}

\* the bytes of each expert are those of the synchronous copy, one slice for
\* each of its projections (Assembly::remaining)
RunsCarryTheBytes(S, reads) ==
    \A k \in S :
        /\ Cardinality(SlicesFor(k, reads)) = Cardinality(Parts(k))
        /\ UNION {SliceBytes(reads[ri[1]], reads[ri[1]].slices[ri[2]]) : ri \in SlicesFor(k, reads)}
           = DiskImage[k]

\* a slice lies inside its run's buffer
SlicesFitTheirRun(reads) ==
    \A r \in DOMAIN reads : \A i \in DOMAIN reads[r].slices :
        LET slice == reads[r].slices[i]
        IN slice.from >= 0 /\ slice.from + slice.size <= reads[r].end - reads[r].start

\* the reads sweep each shard upwards, and no two are close enough to have
\* been one
RunsSweepUpwards(reads) ==
    \A r1, r2 \in DOMAIN reads : r1 < r2 =>
        \/ reads[r1].shard < reads[r2].shard
        \/ reads[r1].shard = reads[r2].shard /\ reads[r2].start > reads[r1].end + Gap

BatchIsExact(S) ==
    LET reads == RunsOf[S]
    IN RunsCarryTheBytes(S, reads) /\ SlicesFitTheirRun(reads) /\ RunsSweepUpwards(reads)
=============================================================================
