------------------------------ MODULE KVStore ------------------------------
(***************************************************************************)
(* What attention may rely on from the key/value cache, whatever its       *)
(* memory layout: per layer, a row per token position for the keys, the    *)
(* values and the indexer keys, which stays as it was written until the    *)
(* same position is written again.  Growing the memory is invisible.       *)
(*                                                                         *)
(* KVCache implements it with head-major buffers that are moved when they  *)
(* grow.                                                                   *)
(***************************************************************************)
EXTENDS Naturals

CONSTANTS
    Layers,      \* layer numbers
    Positions,   \* token positions
    KeyRows, ValueRows, IndexRows,         \* what may be appended
    NoKeyRow, NoValueRow, NoIndexRow       \* what an unwritten position holds

VARIABLES
    keys, values, indexKeys,   \* [Layers -> [Positions -> a row]]
    len                        \* number of tokens held

storeVars == <<keys, values, indexKeys, len>>

Blank(row) == [l \in Layers |-> [t \in Positions |-> row]]

Init ==
    /\ keys = Blank(NoKeyRow)
    /\ values = Blank(NoValueRow)
    /\ indexKeys = Blank(NoIndexRow)
    /\ len = 0

\* The caller always stores the two rows of a position together.
AppendKeyValue(l, t) ==
    /\ \E k \in KeyRows : keys' = [keys EXCEPT ![l][t] = k]
    /\ \E v \in ValueRows : values' = [values EXCEPT ![l][t] = v]
    /\ UNCHANGED <<indexKeys, len>>

AppendIndexKey(l, t) ==
    /\ \E x \in IndexRows : indexKeys' = [indexKeys EXCEPT ![l][t] = x]
    /\ UNCHANGED <<keys, values, len>>

Advance ==
    /\ len' = len + 1
    /\ UNCHANGED <<keys, values, indexKeys>>

Clear ==
    /\ len' = 0
    /\ UNCHANGED <<keys, values, indexKeys>>

Next ==
    \/ \E l \in Layers, t \in Positions : AppendKeyValue(l, t) \/ AppendIndexKey(l, t)
    \/ Advance
    \/ Clear

Spec == Init /\ [][Next]_storeVars
=============================================================================
