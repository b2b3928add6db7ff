----------------------------- MODULE MCMoeLayer -----------------------------
(***************************************************************************)
(* Two layers of four experts, three of which win.  A device of three      *)
(* slots holds a layer's winners, so a layer evicts what the other left,   *)
(* and its two pinned buffers are reused within a layer; one of two slots  *)
(* evicts a winner that is staged and not yet computed.                    *)
(***************************************************************************)
EXTENDS MoeLayer

MCKeys == (FirstMoe .. NumLayers - 1) \X (0 .. NumExperts - 1)

MCRankings == {<<1, 2, 3>>, <<3, 1, 0>>, <<0, 2, 1>>}

MCProbabilities == {<<10, 9, 5>>, <<6, 8, 0>>}

Mode(slots, n, extra, prob, ema) ==
    [slots |-> slots, tokens |-> n, options |-> [extra |-> extra, prob |-> prob, ema |-> ema]]

MCModes == {Mode(3, 2, 0, FALSE, FALSE), Mode(2, 1, 0, FALSE, FALSE),
            Mode(0, 3, 0, FALSE, TRUE), Mode(0, 3, 1, TRUE, TRUE)}
=============================================================================
