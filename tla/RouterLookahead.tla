-------------------------- MODULE RouterLookahead --------------------------
(***************************************************************************)
(* What the scheduler does when a layer's router has chosen its experts    *)
(* (onLayerRouterDone, src/src/engine/scheduler.cpp): it demands the reads *)
(* of this layer, guesses those of the next, and tells the host cache what *)
(* to hold on to.  `look` is the state it keeps between calls; RouterDone  *)
(* gives the new state and the requests of one call.                       *)
(*                                                                         *)
(* A winner's heat only grows, by the same formula at every choice, so the *)
(* number of choices stands for it; the overlap average is in units of     *)
(* 1/OverlapOne.  The probabilities of the last call are local to a call.  *)
(***************************************************************************)
EXTENDS Integers, SequencesExt, FiniteSetsExt

CONSTANTS
    FirstMoe,          \* first layer with routed experts
    NumLayers,
    NumExperts,        \* config.numLocalExperts
    OverlapOne         \* the average 1.0, a multiple of what the blends divide by

ASSUME LayersAssumption == FirstMoe \in Nat /\ NumLayers \in Nat /\ FirstMoe < NumLayers
ASSUME ExpertsAssumption == NumExperts \in Nat \ {0}
ASSUME OverlapAssumption == OverlapOne \in Nat \ {0}

MoeLayers == FirstMoe .. NumLayers - 1
Experts == 0 .. NumExperts - 1
\* kSharedGateProjSlot and its two companions: ids beyond every expert
SharedSlots == NumExperts .. NumExperts + 2
Shared(l) == {<<l, s>> : s \in SharedSlots}

\* init() with the options set before the first token: prefetchExtraDepth_,
\* probPriority_ and emaPredictor_.
NoLookback(options) ==
    [options |-> options,
     lastTopK |-> [l \in MoeLayers |-> <<>>],
     overlap |-> [l \in MoeLayers |-> 0],
     chosen |-> [k \in MoeLayers \X Experts |-> 0],
     maxProb |-> [l \in MoeLayers |-> 0]]

\* How much of this layer's choice repeats the previous token's.
Repeated(previous, winners) ==
    (OverlapOne * Cardinality(ToSet(previous) \cap ToSet(winners)))
        \div Max({Len(previous), Len(winners)})

\* kSpecOverlapAlpha = 1/2
RolledOverlap(look, l, winners) ==
    IF look.lastTopK[l] = <<>> \/ winners = <<>>
    THEN look.overlap[l]
    ELSE (Repeated(look.lastTopK[l], winners) + look.overlap[l]) \div 2

\* The bookkeeping of a choice: overlap, winners, popularity, top probability.
Rolled(look, l, winners, probs) ==
    [look EXCEPT
        !.overlap[l] = RolledOverlap(look, l, winners),
        !.lastTopK[l] = winners,
        !.chosen = [k \in DOMAIN @ |->
            @[k] + (IF look.options.ema /\ k \in {<<l, e>> : e \in ToSet(winners)} THEN 1 ELSE 0)],
        !.maxProb[l] = IF look.options.prob THEN Max({@} \cup ToSet(probs)) ELSE @]

\* lru_.boost: the hottest winner, the first of them in router order.
Boosted(look, l, winners) ==
    IF look.options.ema /\ winners # <<>>
    THEN LET heat(i) == look.chosen[<<l, winners[i]>>]
             hottest == {i \in DOMAIN winners : \A j \in DOMAIN winners : heat(j) <= heat(i)}
         IN  {<<l, winners[Min(hottest)]>>}
    ELSE {}

\* predictNextLayerExperts: the winners of the previous token at that layer,
\* else this layer's.  The popularity fill asks for as many experts as it
\* already has, so it adds none.
Predicted(look, next, winners) ==
    IF look.lastTopK[next] # <<>> THEN look.lastTopK[next] ELSE winners

\* mutation: guesses are kept however unstable the layer's routing is
Guesses_Ungated(look, next, winners) == Predicted(look, next, winners)

\* kSpecOverlapFloor = 1/2: only a layer that repeats itself is guessed at.
Guesses(look, next, winners) ==
    IF 2 * look.overlap[next] < OverlapOne THEN <<>> ELSE Predicted(look, next, winners)

\* The most probable winners of this layer that are not among the guesses
\* for the next; equal probabilities may sort either way.
Extras(look, winners, probs, guesses) ==
    LET candidates == {i \in DOMAIN winners : probs[i] > 0 /\ winners[i] \notin ToSet(guesses)}
        best(S) == \A i \in S : \A j \in candidates \ S : probs[i] >= probs[j]
    IN  {{winners[i] : i \in S} :
            S \in {T \in kSubset(Min({look.options.extra, Cardinality(candidates)}), candidates) : best(T)}}

\* Experts within a tenth of the layer's top probability, used twice before,
\* are pinned in the host cache.
Pinned(look, uses, l, winners, probs) ==
    IF look.options.prob /\ look.maxProb[l] > 0
    THEN {<<l, winners[i]>> : i \in {j \in DOMAIN winners :
            /\ 10 * probs[j] >= 9 * look.maxProb[l]
            /\ uses[<<l, winners[j]>>] >= 2}}
    ELSE {}

NoRequests == [demand |-> {}, guesses |-> {}, pins |-> {}, boosts |-> {}]

(***************************************************************************)
(* onLayerRouterDone: the outcomes of one call.  After the last layer it   *)
(* returns before it demands anything.                                     *)
(***************************************************************************)
RouterDone(look, uses, l, winners, probs) ==
    LET rolled == Rolled(look, l, winners, probs)
        boosts == Boosted(rolled, l, winners)
        next == l + 1
    IN  IF next >= NumLayers
        THEN {[look |-> rolled, asks |-> [NoRequests EXCEPT !.boosts = boosts]]}
        ELSE LET guesses == Guesses(rolled, next, winners) IN
             {[look |-> rolled,
               asks |-> [demand |-> {<<l, e>> : e \in ToSet(winners)} \cup Shared(l),
                         guesses |-> {<<next, e>> : e \in ToSet(guesses) \cup extra}
                                     \cup Shared(next),
                         pins |-> Pinned(rolled, uses, l, winners, probs),
                         boosts |-> boosts]] :
                extra \in Extras(look, winners, probs, guesses)}

LookType(look) ==
    /\ look.lastTopK \in [MoeLayers -> Seq(Experts)]
    /\ look.overlap \in [MoeLayers -> 0 .. OverlapOne]
    /\ look.chosen \in [MoeLayers \X Experts -> Nat]
    /\ look.maxProb \in [MoeLayers -> Nat]
=============================================================================
