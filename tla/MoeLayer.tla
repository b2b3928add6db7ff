------------------------------ MODULE MoeLayer ------------------------------
(***************************************************************************)
(* GLMForward::moeLayer (src/src/model/glm_forward.cpp): the router's      *)
(* winners are computed one after the other on the device, with uploads    *)
(* running ahead, or on the CPU, to which a failed computation falls back. *)
(* The device executes its copy stream whenever it likes.                  *)
(*                                                                         *)
(* The sum of a layer is the sequence of its contributions: which winner,  *)
(* on which engine, with whose weights.  What the requests do to the host  *)
(* cache is PrefetchPipeline's; `asks` collects them for one layer.        *)
(***************************************************************************)
EXTENDS GpuExpertCache, RouterLookahead

CONSTANTS
    TopK,              \* config.numExpertsPerTok
    Places,            \* elements of TopKResult::indices: 8 in the code
    Rankings,          \* bound: the winners a router may choose, best first
    Probabilities,     \* bound: the weights it may give them
    Modes,             \* the command lines considered: [slots, options, and the
                       \* bound on the tokens taken through the layers], slots
                       \* being the capacity of --gpu-experts, 0 without it
    MaxErrors          \* bound: failing calls

ASSUME TopKAssumption == Places \in Nat /\ TopK \in 1 .. Places
ASSUME KeysAssumption == MoeLayers \X Experts \subseteq ExpertKeys
ASSUME RankingsAssumption ==
    \A r \in Rankings : r \in [1 .. Min({TopK, NumExperts}) -> Experts] /\ IsInjective(r)
ASSUME ProbabilitiesAssumption ==
    \A p \in Probabilities : p \in [1 .. Min({TopK, NumExperts}) -> Nat]
ASSUME ModesAssumption ==
    \A mode \in Modes :
        /\ mode.slots \in Nat /\ mode.tokens \in Nat
        /\ mode.options \in [extra : Nat, prob : BOOLEAN, ema : BOOLEAN]
ASSUME MaxErrorsAssumption == MaxErrors \in Nat

VARIABLES
    gpu,               \* the expert cache and the device
    look,              \* the scheduler's routing state
    uses,              \* placement_: accesses per expert, counted up to 2
    gpuExperts,        \* gpuExperts_
    tokens,            \* how many tokens there are to process
    token, layer,      \* where the forward pass is
    pc,                \* "route", "preload", "advance", "compute" or "sum"
    winners, probs,    \* TopKResult: indices and weights
    i,                 \* contributions so far; the next winner is i + 1
    gpuOk,             \* the layer still computes on the device
    stagedEnd,         \* winners handed to the stager
    moeOut,            \* the contributions summed
    asks,              \* the reads, pins and boosts this layer asked for
    errors             \* calls that have failed

control == <<look, gpuExperts, tokens, token, layer, winners, probs>>
vars == <<gpu, uses, control, pc, i, gpuOk, stagedEnd, moeOut, asks, errors>>

K == Len(winners)
Key(n) == <<layer, winners[n]>>

Init ==
    /\ \E mode \in Modes :
        /\ gpuExperts = (mode.slots > 0)
        /\ gpu = Unallocated(mode.slots)
        /\ tokens = mode.tokens
        /\ look = NoLookback(mode.options)
    /\ uses = [k \in MoeLayers \X Experts |-> 0]
    /\ token = 0
    /\ layer = FirstMoe
    /\ pc = "route"
    /\ winners = <<>>
    /\ probs = <<>>
    /\ i = 0
    /\ gpuOk = FALSE
    /\ stagedEnd = 0
    /\ moeOut = <<>>
    /\ asks = NoRequests
    /\ errors = 0

MayFail == errors < MaxErrors

\* The outcomes of a device call within the error bound.
Allowed(outcomes) == {o \in outcomes : o.fault => MayFail}

Count(n, failed) == n + (IF failed THEN 1 ELSE 0)

-----------------------------------------------------------------------------

\* The layer is over: the next one, or the first of the next token.
LeaveLayer ==
    /\ pc' = "route"
    /\ IF layer + 1 < NumLayers
       THEN layer' = layer + 1 /\ UNCHANGED token
       ELSE layer' = FirstMoe /\ token' = token + 1

\* The scores, their top k, and the report to the scheduler.
Route ==
    /\ pc = "route"
    /\ token < tokens
    /\ winners' \in Rankings
    /\ probs' \in Probabilities
    /\ \E done \in RouterDone(look, uses, layer, winners', probs') :
        /\ look' = done.look
        /\ asks' = done.asks
    /\ i' = 0
    /\ gpuOk' = gpuExperts
    /\ stagedEnd' = 0
    /\ moeOut' = <<>>
    /\ pc' = IF gpuExperts THEN "preload" ELSE "advance"
    /\ UNCHANGED <<gpu, uses, gpuExperts, tokens, token, layer, errors>>

\* The correction bias cannot be read: the layer returns, adding nothing.
BiasUnreadable ==
    /\ pc = "route"
    /\ token < tokens
    /\ MayFail
    /\ errors' = errors + 1
    /\ LeaveLayer
    /\ UNCHANGED <<gpu, uses, look, gpuExperts, tokens, winners, probs, i, gpuOk, stagedEnd, moeOut, asks>>

\* getExpertPtr counts the access before it looks for the bytes.
Used(n) == [uses EXCEPT ![Key(n)] = Min({@ + 1, 2})]

(***************************************************************************)
(* stageExpertAt: fetch winner n's bytes (a failure when they cannot be    *)
(* read) and stage them.                                                   *)
(***************************************************************************)
StageExpert(n) ==
    /\ uses' = Used(n)
    /\ \/ /\ MayFail
          /\ gpuOk' = FALSE
          /\ errors' = errors + 1
          /\ UNCHANGED gpu
       \/ \E o \in Allowed(Stage(gpu, Key(n))) :
          /\ gpu' = o.gpu
          /\ gpuOk' = o.ok
          /\ errors' = Count(errors, o.fault)

\* The first stagingDepth winners go up before anything is computed.
Preload ==
    /\ pc = "preload"
    /\ gpuOk
    /\ stagedEnd < Min({K, StagingDepth})
    /\ StageExpert(stagedEnd + 1)
    /\ stagedEnd' = stagedEnd + 1
    /\ UNCHANGED <<control, pc, i, moeOut, asks>>

PreloadDone ==
    /\ pc = "preload"
    /\ ~gpuOk \/ stagedEnd = Min({K, StagingDepth})
    /\ pc' = "advance"
    /\ UNCHANGED <<gpu, uses, control, i, gpuOk, stagedEnd, moeOut, asks, errors>>

\* The head of the loop: one more winner is staged while there is one.
Advance ==
    /\ pc = "advance"
    /\ pc' = IF i < K THEN "compute" ELSE "sum"
    /\ IF i < K /\ gpuOk /\ stagedEnd < K
       THEN StageExpert(stagedEnd + 1) /\ stagedEnd' = stagedEnd + 1
       ELSE UNCHANGED <<gpu, uses, gpuOk, stagedEnd, errors>>
    /\ UNCHANGED <<control, i, moeOut, asks>>

Contribution(n, engine, bytes) == [winner |-> n, engine |-> engine, bytes |-> bytes]

\* mutation: the sum keeps what the device contributed before it failed
Restart_Kept == UNCHANGED moeOut

\* The sum starts over.
Restart == moeOut' = <<>>

\* A device computation; when it fails the whole layer starts over on the CPU.
ComputeOnDevice ==
    /\ pc = "compute"
    /\ gpuOk
    /\ \E o \in Allowed(FFN(gpu, Key(i + 1))) :
        /\ gpu' = o.gpu
        /\ gpuOk' = o.ok
        /\ errors' = Count(errors, o.fault)
        /\ IF o.ok
           THEN /\ moeOut' = Append(moeOut, Contribution(i + 1, "gpu", o.bytes))
                /\ i' = i + 1
                /\ UNCHANGED stagedEnd
           ELSE /\ Restart
                /\ i' = 0
                /\ stagedEnd' = K
    /\ pc' = "advance"
    /\ UNCHANGED <<uses, control, asks>>

\* The indices read ahead are the two after the current one, as long as they
\* are within the number of experts, which says nothing of the winners.
Ahead == i + 2 .. Min({i + 3, NumExperts})

\* TopKResult::indices holds zeros behind the winners.
IndexAt(n) == IF n <= K THEN winners[n] ELSE 0

\* prefetchExpert for the indices ahead.  Behind the last place of the array
\* there is whatever the memory holds: any expert, or no expert's id, which is
\* not read.
LookAheads ==
    LET inside == {n \in Ahead : n <= Places}
    IN  {{<<layer, IndexAt(n)>> : n \in inside} \cup stray :
            stray \in {s \in SUBSET ({layer} \X Experts) : Cardinality(s) <= Cardinality(Ahead \ inside)}}

\* A computation on the CPU, from the host cache or the mapped file.
ComputeOnCpu ==
    /\ pc = "compute"
    /\ ~gpuOk
    /\ \E ahead \in LookAheads : asks' = [asks EXCEPT !.demand = @ \cup ahead]
    /\ uses' = Used(i + 1)
    /\ moeOut' = Append(moeOut, Contribution(i + 1, "cpu", Key(i + 1)))
    /\ i' = i + 1
    /\ pc' = "advance"
    /\ UNCHANGED <<gpu, control, gpuOk, stagedEnd, errors>>

\* The shared experts are added and the layer is done.
AddShared ==
    /\ pc = "sum"
    /\ LeaveLayer
    /\ UNCHANGED <<gpu, uses, look, gpuExperts, tokens, winners, probs, i, gpuOk, stagedEnd, moeOut,
                   asks, errors>>

\* The copy stream executes its oldest copy.
CopyRuns ==
    /\ gpu.copies # <<>>
    /\ gpu' = Copied(gpu, 1)
    /\ UNCHANGED <<uses, control, pc, i, gpuOk, stagedEnd, moeOut, asks, errors>>

\* The caller has no more tokens.
AllTokensDone ==
    /\ token = tokens
    /\ UNCHANGED vars

Next ==
    \/ Route
    \/ BiasUnreadable
    \/ Preload
    \/ PreloadDone
    \/ Advance
    \/ ComputeOnDevice
    \/ ComputeOnCpu
    \/ AddShared
    \/ CopyRuns
    \/ AllTokensDone

Spec == Init /\ [][Next]_vars

-----------------------------------------------------------------------------

\* The shape of every variable.
TypeOK ==
    /\ GpuType(gpu)
    /\ LookType(look)
    /\ uses \in [MoeLayers \X Experts -> 0 .. 2]
    /\ gpuExperts \in BOOLEAN
    /\ token \in 0 .. tokens
    /\ layer \in MoeLayers
    /\ pc \in {"route", "preload", "advance", "compute", "sum"}
    /\ winners \in Seq(Experts)
    /\ i \in 0 .. TopK
    /\ gpuOk \in BOOLEAN
    /\ stagedEnd \in 0 .. TopK
    /\ errors \in 0 .. MaxErrors

(***************************************************************************)
(* When a layer is summed, every winner contributed exactly once, computed *)
(* with its own weights, whatever was evicted, staged, drained or          *)
(* recomputed in between.                                                  *)
(***************************************************************************)
OutputIsExact ==
    pc = "sum" =>
        /\ Len(moeOut) = K
        /\ \A n \in 1 .. K : moeOut[n].winner = n /\ moeOut[n].bytes = Key(n)

(***************************************************************************)
(* A resident key has a device slot of its own, and the last copy queued   *)
(* for that slot brings that key's bytes: a pinned buffer is not           *)
(* overwritten while a copy has yet to read it.                            *)
(***************************************************************************)
ResidentBytesAreOwn ==
    /\ IsInjective(gpu.slotOf)
    /\ \A k \in DOMAIN gpu.slotOf : Arriving(gpu, gpu.slotOf[k]) = k

(***************************************************************************)
(* What a layer asks of the host cache.  Before the last layer every       *)
(* winner and shared projection is demanded, and a layer that stayed on    *)
(* the device demands nothing else; a winner computed after another on the *)
(* CPU was asked for before that one, in the last layer too.  Guesses are  *)
(* for the next layer, and without extras they are what its router chose   *)
(* last, a choice that tends to repeat, never a carry-over of this         *)
(* layer's.  Only winners are pinned or boosted, and a pin needs an        *)
(* earlier token.                                                          *)
(*                                                                         *)
(* Nothing is said of what the CPU's look-ahead reads behind the winners,  *)
(* nor of the extras, which are this layer's winners under the next        *)
(* layer's keys: neither is a read that the layers need.                   *)
(***************************************************************************)
RequestsAreJustified ==
    pc = "sum" =>
        LET mine == {<<layer, e>> : e \in ToSet(winners)}
            guessed == {k \in asks.guesses : k[2] \in Experts}
        IN  /\ layer + 1 < NumLayers => mine \cup Shared(layer) \subseteq asks.demand
            /\ gpuOk => asks.demand \subseteq mine \cup Shared(layer)
            /\ \A n \in 2 .. K : moeOut[n - 1].engine = "cpu" => Key(n) \in asks.demand
            /\ \A k \in asks.guesses : k[1] = layer + 1
            /\ look.options.extra = 0 =>
                \A k \in guessed :
                    /\ k[2] \in ToSet(look.lastTopK[k[1]])
                    /\ 2 * look.overlap[k[1]] >= OverlapOne
                    /\ token > 1
            /\ asks.pins \cup asks.boosts \subseteq mine
            /\ \A k \in asks.pins : token > 0
=============================================================================
