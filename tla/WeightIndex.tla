----------------------------- MODULE WeightIndex -----------------------------
(***************************************************************************)
(* WeightIndex::build() (src/src/model/weight_index.cpp): which tensor of  *)
(* which shard each weight of the model is read from.                      *)
(*                                                                         *)
(* A checkpoint is [config, shards, listed]: whether config.json is read,  *)
(* the files by the number of their place in the order of names, and the   *)
(* "weight_map" of index.json, a function from names to shards (empty if   *)
(* the file is missing or malformed; a shard that is no file of the        *)
(* directory may be named).  A weight is found at a slot: a tuple of the   *)
(* field's name and the layer and expert it belongs to.                    *)
(***************************************************************************)
EXTENDS SafeTensors

CONSTANTS
    NumLayers,        \* config.numLayers
    FirstKDense,      \* config.firstKDenseReplace: the MoE layers start here
    NumExperts,       \* config.numLocalExperts
    Digits            \* the segments that are numbers, with their values

ASSUME LayersAreCounted == NumLayers \in Nat /\ FirstKDense \in Nat /\ NumExperts \in Nat

ASSUME DigitsAreNumbers == \A d \in DOMAIN Digits : Digits[d] \in Nat

IsMoe(layer) == layer >= FirstKDense

Has(name, part) ==
    \E i \in 1..(Len(name) - Len(part) + 1) : SubSeq(name, i, i + Len(part) - 1) = part

\* std::stoi of what follows the first segment of S, -1 if it is no number
NumberAfter(name, S) ==
    LET at == {i \in DOMAIN name : name[i] \in S}
        i  == Min(at) + 1
    IN IF at = {} THEN -1
       ELSE IF i \in DOMAIN name /\ name[i] \in DOMAIN Digits THEN Digits[name[i]] ELSE -1

\* "layers." is part of the MTP prefixes too
ExtractLayerNum(name) == NumberAfter(name, {"layers", "nextn_predict_layers", "mtp_layers"})

ExtractMtpLayerNum(name) ==
    IF \E i \in DOMAIN name : name[i] = "nextn_predict_layers"
    THEN NumberAfter(name, {"nextn_predict_layers"})
    ELSE NumberAfter(name, {"mtp_layers"})

ExtractExpertNum(name) == NumberAfter(name, {"experts", "shared_experts"})

IsMtpHead(name) == Has(name, <<"nextn_predict_head">>) \/ Has(name, <<"mtp_head">>)

\* mutation: an MTP tensor is told by its head only
IsMtp_HeadOnly(name) == IsMtpHead(name)

IsMtp(name) == ExtractMtpLayerNum(name) >= 0 \/ IsMtpHead(name)

\* the tensors outside the layers
ModelSlots == {
    <<"embedTokens", <<"model", "embed_tokens", "weight">>>>,
    <<"lmHead", <<"lm_head", "weight">>>>,
    <<"finalNorm", <<"model", "norm", "weight">>>> }

\* the fields of LayerWeights, with the part of a name that stands for each,
\* in the order the names are tried
CommonSlots == <<
    <<"inputLayernorm", <<"input_layernorm", "weight">>>>,
    <<"postAttentionLayernorm", <<"post_attention_layernorm", "weight">>>>,
    <<"qAProj", <<"self_attn", "q_a_proj", "weight">>>>,
    <<"qALayernorm", <<"self_attn", "q_a_layernorm", "weight">>>>,
    <<"qBProj", <<"self_attn", "q_b_proj", "weight">>>>,
    <<"kvAProjWithMqa", <<"self_attn", "kv_a_proj_with_mqa", "weight">>>>,
    <<"kvALayernorm", <<"self_attn", "kv_a_layernorm", "weight">>>>,
    <<"kvBProj", <<"self_attn", "kv_b_proj", "weight">>>>,
    <<"oProj", <<"self_attn", "o_proj", "weight">>>>,
    <<"indexWqB", <<"self_attn", "indexer", "wq_b", "weight">>>>,
    <<"indexWk", <<"self_attn", "indexer", "wk", "weight">>>>,
    <<"indexWeightsProj", <<"self_attn", "indexer", "weights_proj", "weight">>>>,
    <<"indexKNormW", <<"self_attn", "indexer", "k_norm", "weight">>>>,
    <<"indexKNormB", <<"self_attn", "indexer", "k_norm", "bias">>>> >>

DenseSlots == <<
    <<"mlpGate", <<"mlp", "gate_proj", "weight">>>>,
    <<"mlpUp", <<"mlp", "up_proj", "weight">>>>,
    <<"mlpDown", <<"mlp", "down_proj", "weight">>>> >>

MoeSlots == <<
    <<"mlpGate", <<"mlp", "gate", "weight">>>>,
    <<"gateBias", <<"mlp", "gate", "e_score_correction_bias">>>>,
    <<"sharedGateProj", <<"mlp", "shared_experts", "gate_proj", "weight">>>>,
    <<"sharedUpProj", <<"mlp", "shared_experts", "up_proj", "weight">>>>,
    <<"sharedDownProj", <<"mlp", "shared_experts", "down_proj", "weight">>>> >>

ExpertSlots == <<
    <<"gateProj", <<"gate_proj", "weight">>>>,
    <<"upProj", <<"up_proj", "weight">>>>,
    <<"downProj", <<"down_proj", "weight">>>> >>

\* the first of the rows whose part the name holds, "" if there is none
FieldIn(rows, name) ==
    LET hits == {n \in DOMAIN rows : Has(name, rows[n][2])}
    IN IF hits = {} THEN "" ELSE rows[Min(hits)][1]

LayerSlot(name, layer) ==
    LET field  == FieldIn(CommonSlots \o (IF IsMoe(layer) THEN MoeSlots ELSE DenseSlots), name)
        expert == ExtractExpertNum(name)
    IN IF field # "" THEN <<field, layer>>
       ELSE IF IsMoe(layer) /\ Has(name, <<"mlp", "experts">>) /\ expert \in 0..(NumExperts - 1)
               /\ FieldIn(ExpertSlots, name) # ""
       THEN <<FieldIn(ExpertSlots, name), layer, expert>>
       ELSE <<>>

\* the slot a tensor of this name is put at, <<>> if nowhere
SlotOf(name) ==
    LET model == {row \in ModelSlots : row[2] = name}
        layer == ExtractLayerNum(name)
    IN IF model # {} THEN <<(CHOOSE row \in model : TRUE)[1]>>
       ELSE IF IsMtp(name) \/ layer \notin 0..(NumLayers - 1) THEN <<>>
       ELSE LayerSlot(name, layer)

-----------------------------------------------------------------------------

NoIndex == [at |-> <<>>, mtpLayers |-> {}, hasMtp |-> FALSE, mtpHead |-> FALSE, maxBase |-> 0]

Location(shards, s, name) ==
    LET entry == shards[s].entries[name] IN
    [shard |-> s, offset |-> ByteOffset(shards[s], entry), size |-> ByteSize(entry),
     shape |-> entry.shape, dtype |-> entry.dtype]

\* one tensor found in the header of shard s: a later one of the same slot
\* takes its place
Dispatched(index, shards, s, name) ==
    LET slot == SlotOf(name)
        mtp  == IsMtp(name) /\ name \notin {row[2] : row \in ModelSlots}
    IN [index EXCEPT
            !.at = IF slot = <<>> THEN @
                   ELSE [x \in DOMAIN @ \cup {slot} |->
                            IF x = slot THEN Location(shards, s, name) ELSE @[x]],
            !.hasMtp = @ \/ mtp,
            !.mtpLayers = @ \cup (IF mtp /\ ExtractMtpLayerNum(name) >= 0
                                  THEN {ExtractMtpLayerNum(name)} ELSE {}),
            !.mtpHead = @ \/ (mtp /\ (IsMtpHead(name) \/ Has(name, <<"mtp", "dense_with_embedding">>))),
            !.maxBase = IF IsPrefix(<<"model", "layers">>, name)
                        THEN Max({@, ExtractLayerNum(name)}) ELSE @]

\* the tensors found, each as <<shard, name>>, one after the other
Collected(c, found) ==
    FoldLeft(LAMBDA index, t : Dispatched(index, c.shards, t[1], t[2]), NoIndex, found)

\* the names index.json lists under a shard that is there and holds them
Present(c) == {name \in DOMAIN c.listed :
    /\ c.listed[name] \in DOMAIN c.shards
    /\ name \in TensorNames(c.shards[c.listed[name]])}

\* index.json names the shard of each tensor.  Shards that are not there or
\* cannot be opened are passed over, and so is a tensor its shard does not
\* hold.  The tables have no order; no two names listed are for one slot.
FromList(c) == Collected(c, SetToSeq({<<c.listed[name], name>> : name \in Present(c)}))

HeldBy(c, s) == {<<s, name>> : name \in TensorNames(c.shards[s])}

\* every tensor of every shard, the shards in the order of their names
FromHeaders(c) == Collected(c, FlattenSeq([s \in DOMAIN c.shards |-> SetToSeq(HeldBy(c, s))]))

Builds(c) == c.config /\ c.shards # <<>>

BuiltIndex(c) == IF c.listed = <<>> THEN FromHeaders(c) ELSE FromList(c)

-----------------------------------------------------------------------------
Uint64 == 0 .. TwoTo64 - 1

\* what is taken for a checkpoint: files of any content
IsCheckpoint(c) ==
    /\ Len(c.shards) \in Nat /\ DOMAIN c.shards = 1..Len(c.shards)
    /\ IsFiniteSet(DOMAIN c.listed)
    /\ \A s \in DOMAIN c.shards :
        /\ c.shards[s].hsize \in Uint64 /\ c.shards[s].size \in Uint64
        /\ IsFiniteSet(DOMAIN c.shards[s].entries)
        /\ \A name \in DOMAIN c.shards[s].entries :
            c.shards[s].entries[name].begin \in Uint64 /\ c.shards[s].entries[name].end \in Uint64

\* the tensors build() comes upon
Found(c) ==
    IF c.listed = <<>> THEN UNION {HeldBy(c, s) : s \in DOMAIN c.shards}
    ELSE {<<c.listed[name], name>> : name \in Present(c)}

SlotsOf(T) == {SlotOf(t[2]) : t \in T} \ {<<>>}

\* the vectors layers and routedExperts have a place for the slot
HasPlace(slot) ==
    /\ Len(slot) > 1 => slot[2] \in 0..(NumLayers - 1)
    /\ Len(slot) > 2 => IsMoe(slot[2]) /\ slot[3] \in 0..(NumExperts - 1)

\* the end of the tensor is a number of 64 bits
SumsFit(file, entry) == file.hsize + 8 + entry.end < TwoTo64

\* an aligned place, not empty, and inside the file unless a sum has wrapped
InShard(file, entry, at) ==
    /\ at.offset % 8 = 0
    /\ at.size > 0
    /\ SumsFit(file, entry) => at.offset + at.size <= file.size

(***************************************************************************)
(* Every weight that a tensor was found for is there, and has the bytes of *)
(* such a tensor; without index.json it is a tensor of the last shard that *)
(* has one.  Nothing else is there.  The bytes lie in the tensor's file if *)
(* its offsets do not leave 64 bits when the header's length is added: the *)
(* check of safetensors.cpp:192 adds them without asking.                  *)
(***************************************************************************)
IndexIsExact(c) ==
    LET index == BuiltIndex(c)
    IN /\ DOMAIN index.at = SlotsOf(Found(c))
       /\ \A slot \in DOMAIN index.at : HasPlace(slot) /\ \E t \in Found(c) :
            /\ SlotOf(t[2]) = slot
            /\ index.at[slot] = Location(c.shards, t[1], t[2])
            /\ InShard(c.shards[t[1]], c.shards[t[1]].entries[t[2]], index.at[slot])
            /\ c.listed = <<>> => \A u \in Found(c) : SlotOf(u[2]) = slot => u[1] <= t[1]
=============================================================================
