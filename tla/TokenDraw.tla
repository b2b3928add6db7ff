----------------------------- MODULE TokenDraw -----------------------------
(***************************************************************************)
(* The calls of sampleFromLogits() (src/src/compute/sampler.h): any logits *)
(* of a model with any options set, one after the other from all of them   *)
(* off.  The tokens generated last are the window, and matter once one of  *)
(* the three penalties is on.                                              *)
(***************************************************************************)
EXTENDS Sampler

CONSTANTS
    Logits,      \* the values a model's logits may have
    Settings,    \* for each option, the values it may be set to
    Window,      \* lastTokens, one that is no token included
    Lowest,      \* no logit is lower after the temperature
    Strongest,   \* no repetition penalty is stronger, in quarters
    MaxSet       \* bound: options set together

VARIABLE call    \* its logits and its options

\* every filter off
Plain == [halves |-> 2, topK |-> 0, penalty |-> 0, window |-> <<>>, frequency |-> 0,
          presence |-> 0, minP |-> 0, typicalP |-> 0, topP |-> 4]

\* the options for which the window matters
Penalties == {"penalty", "frequency", "presence"}

\* what an option may be
May(name) == Settings[name] \cup {Plain[name]}

ASSUME LogitsAreWhole == Logits \subseteq Int
ASSUME SettingsAreWhole ==
    /\ DOMAIN Settings = DOMAIN Plain \ {"window"}
    /\ \A name \in DOMAIN Settings : Settings[name] \subseteq Int
ASSUME WindowIsASequence == Window \in Seq(Int)
ASSUME MaxSetIsABound == MaxSet \in Nat

\* Two logits apart stay apart when they are scaled: a temperature is not so
\* high that it takes them together.
ASSUME TemperatureKeepsOrder ==
    \A h \in Settings.halves : \A l, m \in Logits :
        h > 0 /\ l < m => (l * 2) \div h < (m * 2) \div h

\* how far down the repetition penalty brings a logit, and one it meets i times
Sunk(low) == (low * Strongest) \div 4
Floor[i \in Nat] == IF i = 0 THEN Lowest ELSE Sunk(Floor[i - 1])

\* No penalty takes a logit down to the mask, -1e30.
ASSUME PenaltiesStandClearOfTheMask ==
    /\ Lowest \in Int /\ Lowest <= 0
    /\ \A l \in Logits : Lowest <= l /\ \A h \in Settings.halves : h > 0 => Lowest <= (l * 2) \div h
    /\ Strongest \in Nat /\ Strongest >= 4 /\ \A p \in Settings.penalty : p <= Strongest
    /\ \A f \in May("frequency"), p \in May("presence") :
        Floor[Len(Window)] - f * Len(Window) - p > Masked + Reach

-----------------------------------------------------------------------------

PlainCall == \E logits \in [Tokens -> Logits] : call = [logits |-> logits, options |-> Plain]

ChooseOption(name, value) ==
    /\ call.options[name] = Plain[name]
    /\ Cardinality({f \in DOMAIN Settings : call.options[f] # Plain[f]}) < MaxSet
    /\ LET window == IF name \in Penalties THEN Window ELSE call.options.window
       IN call' = [call EXCEPT !.options = [@ EXCEPT ![name] = value, !.window = window]]

CallSpec ==
    PlainCall /\ [][\E name \in DOMAIN Settings : \E value \in Settings[name] : ChooseOption(name, value)]_call

-----------------------------------------------------------------------------

\* the logits of the tokens top-k keeps, and those tied with the last of them
AmongTheBest(logits, k, t) ==
    k <= 0 \/ Cardinality({u \in Tokens : logits[u] > logits[t]}) < k

\* What r = 0 and a sum that rounding left short of r give: the first token
\* and the last, masked or not.
AtTheEdge(work) == {t \in {1, Vocab} : Weights(work)[t] = 0}

\* top-p has masked every token (see NucleusIsDrawn)
AllMasked(work) == \A t \in Tokens : work[t] <= Masked

-----------------------------------------------------------------------------
\* The boost of sampler.h:98: a repetition penalty below 1 divides a logit that
\* top-k has masked, once for each place of its token in the window, and may
\* bring it back among the others.
LiftsTheMask(o) == o.topK > 0 /\ o.penalty \in 1..3

\* A token that a filter has cut off is not drawn: only tokens among the k
\* best of the raw logits are, and of those only what min-p and typical-p
\* left, although the penalties that come in between may take every logit down.
\* Excepted are a boost after top-k, a draw at the edge, and any draw once
\* top-p has masked all.
DrawIsSupported ==
    LET o == call.options
        penalised == Penalised(call.logits, o)
    IN ~LiftsTheMask(o) => \A work \in Filtered(call.logits, o) :
        AllMasked(work) \/ \A t \in Draws(work) \ AtTheEdge(work) :
            AmongTheBest(call.logits, o.topK, t) /\ penalised[t] > Masked

\* the tokens of the smallest prefixes that hold quarters/4 of the mass
Nucleus(logits, quarters) ==
    LET w == Weights(logits)
        enough(order) == {i \in DOMAIN order :
            4 * SumOver({order[j] : j \in 1..i}, w) >= quarters * SumOver(Tokens, w)}
    IN UNION {{order[j] : j \in 1..Min(enough(order))} :
        order \in Sorted(Tokens, Descending(logits))}

\* Top-p drops the tokens below the smallest prefix that holds p of the mass:
\* what is drawn is a token of such a prefix.
NucleusIsDrawn ==
    LET o == call.options IN
    o = [Plain EXCEPT !.topP = o.topP] /\ o.topP \in 1..3 =>
        \A work \in Filtered(call.logits, o) : \A t \in Draws(work) \ AtTheEdge(work) :
            t \in Nucleus(call.logits, o.topP)
=============================================================================
