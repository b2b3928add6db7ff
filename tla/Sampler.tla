------------------------------- MODULE Sampler -------------------------------
(***************************************************************************)
(* sampleFromLogits(), src/src/compute/sampler.h: the chain of filters     *)
(* over a vector of logits and the draw at its end.                        *)
(*                                                                         *)
(* Logits are whole, and so are the values of exp(), all by the same       *)
(* factor, so that every probability is a ratio of integers.  A token that *)
(* a filter masks gets the logit Masked, so far below the others that its  *)
(* exponential is zero unless all of them are.                             *)
(* An option is a record                                                   *)
(*   [halves, topK, penalty, window, frequency, presence, minP, typicalP,  *)
(*    topP]: the temperature in halves; minP stands for 2^-minP, 0 for     *)
(* off; penalty, the repetition penalty, typicalP and topP in quarters.    *)
(* The order of equal elements after std::sort is any order, so the        *)
(* filters that sort have several results.                                 *)
(***************************************************************************)
EXTENDS Integers, SequencesExt, FiniteSetsExt

CONSTANTS
    Vocab,     \* the number of tokens; token i of the code is i + 1 here
    Masked,    \* -1e30f
    Reach,     \* how far below the highest logit exp() is not yet zero
    Exp        \* exp(-d) for a distance d within reach

Tokens == 1..Vocab

ASSUME VocabIsPositive == Vocab \in Nat \ {0}
ASSUME ExpIsPositive == Reach \in Nat /\ Exp \in [0..Reach -> Nat \ {0}]
ASSUME MaskedIsFarBelow == Masked \in Int /\ Masked < -Reach

Highest(logits) == Max({logits[t] : t \in Tokens})

\* exp(logits[t] - max): zero once the difference is out of the float range
Weights(logits) ==
    LET high == Highest(logits)
    IN [t \in Tokens |-> IF high - logits[t] > Reach THEN 0 ELSE Exp[high - logits[t]]]

SumOver(S, w) == SumFunctionOnSet(w, S)

Orders == [S \in SUBSET Tokens |-> SetToSeqs(S)]

\* the orders std::sort may leave the tokens of S in, by ascending key
Sorted(S, key) ==
    {order \in Orders[S] :
        \A i, j \in DOMAIN order : i < j => key[order[i]] <= key[order[j]]}

Descending(f) == [t \in DOMAIN f |-> -f[t]]

-----------------------------------------------------------------------------

ApplyTemperature(logits, halves) ==
    IF halves <= 0 \/ halves = 2 THEN logits
    ELSE [t \in Tokens |-> (logits[t] * 2) \div halves]

\* mutation: the threshold is the (k+1)-th largest logit
ApplyTopK_OneMore(logits, k) ==
    IF k <= 0 \/ k >= Vocab THEN logits
    ELSE LET order == CHOOSE o \in Sorted(Tokens, Descending(logits)) : TRUE
         IN [t \in Tokens |-> IF logits[t] < logits[order[k + 1]] THEN Masked ELSE logits[t]]

\* the tokens below the k-th largest logit are masked; ties with it are kept
ApplyTopK(logits, k) ==
    IF k <= 0 \/ k >= Vocab THEN logits
    ELSE LET order == CHOOSE o \in Sorted(Tokens, Descending(logits)) : TRUE
         IN [t \in Tokens |-> IF logits[t] < logits[order[k]] THEN Masked ELSE logits[t]]

\* a penalty below 1 lifts the logit
Depressed(logit, quarters) ==
    IF logit < 0 THEN (logit * quarters) \div 4 ELSE (logit * 4) \div quarters

\* once for each place the token has in the window
ApplyRepetitionPenalty(logits, penalty, window) ==
    IF penalty <= 0 \/ penalty = 4 THEN logits
    ELSE FoldLeft(LAMBDA work, t :
            IF t \notin Tokens THEN work
            ELSE [work EXCEPT ![t] = Depressed(@, penalty)],
            logits, window)

Count(t, window) == Cardinality({i \in DOMAIN window : window[i] = t})

ApplyFrequencyPenalty(logits, penalty, window) ==
    IF penalty <= 0 THEN logits
    ELSE [t \in Tokens |-> logits[t] - penalty * Count(t, window)]

ApplyPresencePenalty(logits, penalty, window) ==
    IF penalty <= 0 THEN logits
    ELSE [t \in Tokens |-> IF Count(t, window) > 0 THEN logits[t] - penalty ELSE logits[t]]

ApplyMinP(logits, minP) ==
    IF minP <= 0 THEN logits
    ELSE [t \in Tokens |-> IF logits[t] < Highest(logits) - minP THEN Masked ELSE logits[t]]

\* The distance of -log p(t) from the entropy, which is that of the logit
\* from the mean logit, times the sum of the weights.
Typicality(logits, w) ==
    LET sum  == SumOver(Tokens, w)
        mean == SumOver(Tokens, [t \in Tokens |-> w[t] * (IF w[t] = 0 THEN 0 ELSE logits[t])])
    IN [t \in Tokens |-> Max({mean - sum * logits[t], sum * logits[t] - mean})]

\* the places of the order at which the running sum is above quarters/4
Beyond(order, w, quarters) ==
    LET most == quarters * SumOver(Tokens, w)
    IN {i \in DOMAIN order : 4 * SumOver({order[j] : j \in 1..i}, w) > most}

MaskAll(logits, S) == [t \in Tokens |-> IF t \in S THEN Masked ELSE logits[t]]

\* the token that crosses p is kept, the less typical ones are masked
ApplyTypicalP(logits, quarters) ==
    IF quarters <= 0 \/ quarters >= 4 THEN {logits}
    ELSE LET w        == Weights(logits)
             distance == Typicality(logits, w)
             cut(order) == LET beyond == Beyond(order, w, quarters)
                           IN {order[i] : i \in {j \in DOMAIN order : \E b \in beyond : b < j}}
         IN {MaskAll(logits, cut(order)) : order \in
                Sorted({t \in Tokens : w[t] > 0}, distance)}

\* the token that crosses p is masked as well, be it the first
ApplyTopP(logits, quarters) ==
    IF quarters >= 4 THEN {logits}
    ELSE IF quarters <= 0
    THEN LET best == Min({t \in Tokens : logits[t] = Highest(logits)})
         IN {[t \in Tokens |-> IF t = best THEN 0 ELSE Masked]}
    ELSE LET w == Weights(logits)
         IN {MaskAll(logits, {order[i] : i \in Beyond(order, w, quarters)}) :
                order \in Sorted(Tokens, Descending(w))}

-----------------------------------------------------------------------------

\* the penalties for the tokens of the window
Discouraged(logits, o) ==
    LET fresh == ApplyRepetitionPenalty(logits, o.penalty, o.window)
        rare  == ApplyFrequencyPenalty(fresh, o.frequency, o.window)
    IN ApplyPresencePenalty(rare, o.presence, o.window)

\* the filters before those that go by the probabilities
Penalised(logits, o) ==
    LET best == ApplyTopK(ApplyTemperature(logits, o.halves), o.topK)
    IN ApplyMinP(Discouraged(best, o), o.minP)

\* the logits the draw may be made from
Filtered(logits, o) ==
    UNION {ApplyTopP(work, o.topP) : work \in ApplyTypicalP(Penalised(logits, o), o.typicalP)}

\* The tokens a draw may give: the first whose running sum reaches r, the
\* last if none does.  Every r of [0, 1) is tried, and one beyond the sum, for
\* a sum of floats that rounding left short of it.
Draws(work) ==
    LET w  == Weights(work)
        upTo == [t \in Tokens |-> SumOver(1..t, w)]
        reached(r) == {t \in Tokens : upTo[t] >= r}
    IN {IF reached(r) = {} THEN Vocab ELSE Min(reached(r)) : r \in {0, upTo[Vocab] + 1} \cup Range(upTo)}
=============================================================================
