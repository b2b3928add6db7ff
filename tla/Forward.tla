------------------------------ MODULE Forward ------------------------------
(***************************************************************************)
(* GLMForward's decoding loop (src/src/model/glm_forward.cpp) around the   *)
(* key/value cache: forward() reserves room for the prompt, then takes     *)
(* each new token through the layers.  Every layer stores the token's rows *)
(* and attends to a selection of the positions so far, which a "full"      *)
(* layer's indexer makes and the "shared" layers after it reuse.           *)
(*                                                                         *)
(* Numbers are abstracted to where they come from: the floats of a row are *)
(* the conversation and position they were computed for, and the scores    *)
(* that rank positions are a choice.  The feed-forward half of a layer     *)
(* does not touch this state (see PrefetchPipeline for what it streams).   *)
(***************************************************************************)
EXTENDS KVCache

CONSTANTS
    InitialCap,          \* capacity init() asks for: 64
    Slack,               \* positions reserved beyond the prompt: 16
    IndexTopk,           \* positions an indexer selects at most
    Schedules,           \* the sets of "full" layers a checkpoint may have
    MaxTokens,           \* bound: longest conversation
    MaxConversations     \* bound: conversations, reset() in between

ASSUME InitialCapAssumption == InitialCap \in Nat \ {0}
ASSUME SlackAssumption == Slack \in Nat
ASSUME IndexTopkAssumption == IndexTopk \in Nat \ {0}
ASSUME SchedulesAssumption == Schedules \subseteq SUBSET Layers
ASSUME BoundsAssumption == MaxTokens \in Nat /\ MaxConversations \in Nat

VARIABLES
    dsaEnabled,      \* dsaEnabled_: the indexer weights are there
    fullLayers,      \* layers for which isIndexerFull holds
    seqLen,          \* seqLen_: tokens processed so far
    conversation,    \* how many times reset() has been called
    pc,              \* "idle", or what the current layer does next
    endTok,          \* length of the ids given to forward()
    layer,           \* the layer the current token is in
    selSet,          \* positions selected for the current token
    lastTopk         \* lastTopkByLayer_

control == <<dsaEnabled, fullLayers>>
vars == <<kv, dsaEnabled, fullLayers, seqLen, conversation, pc, endTok, layer,
          selSet, lastTopk>>

\* The rows of a position of a conversation, n floats long.
Row(n, c, t) == [i \in Offsets(n) |-> <<c, t, i>>]

KeyRow(t) == Row(NumHeads * QkDim, conversation, t)
ValueRow(t) == Row(NumHeads * VDim, conversation, t)
IndexRow(t) == Row(IndexDim, conversation, t)

Init ==
    /\ kv = Empty(InitialCap)
    /\ dsaEnabled \in BOOLEAN
    /\ fullLayers \in Schedules
    /\ seqLen = 0
    /\ conversation = 0
    /\ pc = "idle"
    /\ endTok = 0
    /\ layer = 0
    /\ selSet = {}
    /\ lastTopk = [l \in Layers |-> {}]

-----------------------------------------------------------------------------

Horizon_Cached(n) == seqLen + Slack

\* How many positions a forward() of n ids reserves.
Horizon(n) == n + Slack

NewSelection_Kept == selSet

\* selSet is declared inside the loop over tokens.
NewSelection == {}

BeginToken ==
    /\ pc' = "store"
    /\ layer' = 0
    /\ selSet' = NewSelection

\* forward() up to the loop over tokens, which may have none to process.
ForwardCall(n) ==
    /\ pc = "idle"
    /\ kv' = Reserve(kv, Horizon(n))
    /\ endTok' = n
    /\ IF seqLen < n THEN BeginToken ELSE UNCHANGED <<pc, layer, selSet>>
    /\ UNCHANGED <<control, seqLen, conversation, lastTopk>>

\* attentionLayer up to the indexer: the token's key and value are cached.
StoreKeyValue ==
    /\ pc = "store"
    /\ kv' = AppendValue(AppendKey(kv, layer, seqLen, KeyRow(seqLen)),
                         layer, seqLen, ValueRow(seqLen))
    /\ pc' = "select"
    /\ UNCHANGED <<control, seqLen, conversation, endTok, layer, selSet, lastTopk>>

Indexes == dsaEnabled /\ layer \in fullLayers

\* dsaIndexer: caches the token's index key and ranks every position so far.
RunIndexer ==
    /\ pc = "select"
    /\ Indexes
    /\ kv' = AppendIndexKey(kv, layer, seqLen, IndexRow(seqLen))
    /\ selSet' \in kSubset(Min({IndexTopk, seqLen + 1}), 0 .. seqLen)
    /\ pc' = "attend"
    /\ UNCHANGED <<control, seqLen, conversation, endTok, layer, lastTopk>>

\* A layer without an indexer takes the selection it finds, or everything.
ReuseSelection ==
    /\ pc = "select"
    /\ ~Indexes
    /\ selSet' = IF selSet = {} THEN 0 .. seqLen ELSE selSet
    /\ pc' = "attend"
    /\ UNCHANGED <<control, kv, seqLen, conversation, endTok, layer, lastTopk>>

EndToken ==
    /\ kv' = Advance(kv)
    /\ seqLen' = seqLen + 1
    /\ IF seqLen < endTok - 1
       THEN BeginToken
       ELSE pc' = "idle" /\ UNCHANGED <<layer, selSet>>

NextLayer ==
    /\ layer' = layer + 1
    /\ pc' = "store"
    /\ UNCHANGED <<kv, seqLen, selSet>>

\* The sparse attention over selSet and the rest of the layer.
FinishLayer ==
    /\ pc = "attend"
    /\ lastTopk' = [lastTopk EXCEPT ![layer] = selSet]
    /\ IF layer < NumLayers - 1 THEN NextLayer ELSE EndToken
    /\ UNCHANGED <<control, conversation, endTok>>

\* reset(): a new conversation.
Reset ==
    /\ pc = "idle"
    /\ conversation < MaxConversations
    /\ conversation' = conversation + 1
    /\ kv' = Clear(kv)
    /\ seqLen' = 0
    /\ UNCHANGED <<control, pc, endTok, layer, selSet, lastTopk>>

Next ==
    \/ \E n \in 0 .. MaxTokens : ForwardCall(n)
    \/ StoreKeyValue
    \/ RunIndexer
    \/ ReuseSelection
    \/ FinishLayer
    \/ Reset

Spec == Init /\ [][Next]_vars

-----------------------------------------------------------------------------

\* The shape of every variable; each buffer has room for exactly `cap`
\* positions of every head.
TypeOK ==
    /\ kv.cap \in Nat \ {0}
    /\ kv.len \in 0 .. kv.cap
    /\ kv.stride = kv.cap * QkDim
    /\ \A l \in Layers :
        /\ DOMAIN kv.key[l] = Offsets(NumHeads * kv.stride)
        /\ DOMAIN kv.value[l] = Offsets(NumHeads * kv.cap * VDim)
        /\ DOMAIN kv.indexKey[l] = Offsets(kv.cap * IndexDim)
    /\ seqLen \in 0 .. MaxTokens
    /\ conversation \in 0 .. MaxConversations
    /\ pc \in {"idle", "store", "select", "attend"}
    /\ endTok \in 0 .. MaxTokens
    /\ layer \in Layers
    /\ selSet \subseteq 0 .. MaxTokens
    /\ lastTopk \in [Layers -> SUBSET (0 .. MaxTokens)]

Part(row, h, dim) == [d \in Offsets(dim) |-> row[h * dim + d]]

(***************************************************************************)
(* What a layer attends to was computed in this conversation, for the      *)
(* positions it asks for: neither a growth, nor a reset, nor the head-     *)
(* major layout makes a stale or foreign row readable.  The indexer of a   *)
(* full layer scores all positions so far, so all its index keys count.    *)
(***************************************************************************)
HistoryIsCurrent ==
    /\ kv.len = seqLen
    /\ pc = "attend" =>
        /\ \A t \in selSet, h \in Heads :
            /\ GetKey(layer, h, t) = Part(KeyRow(t), h, QkDim)
            /\ GetValue(layer, h, t) = Part(ValueRow(t), h, VDim)
        /\ Indexes =>
            \A t \in 0 .. seqLen : GetIndexKey(layer, t) = IndexRow(t)

(***************************************************************************)
(* A layer attends to the selection of the nearest full layer at or before *)
(* it, made for this very token; to every position so far when no indexer  *)
(* ran.  Selections never reach past the current token.                    *)
(***************************************************************************)
SelectionOfThisToken ==
    pc = "attend" =>
        LET full == {f \in fullLayers : dsaEnabled /\ f <= layer}
        IN  /\ selSet \subseteq 0 .. seqLen
            /\ full = {} => selSet = 0 .. seqLen
            /\ full # {} =>
                /\ Cardinality(selSet) = Min({IndexTopk, seqLen + 1})
                /\ Max(full) < layer => selSet = lastTopk[Max(full)]

(***************************************************************************)
(* The per-token append path never reallocates: only the reserve at the    *)
(* start of a call moves the buffers.                                      *)
(***************************************************************************)
AppendsStayInPlace == [][pc # "idle" => kv'.cap = kv.cap]_vars

-----------------------------------------------------------------------------

Positions == 0 .. MaxTokens

\* The whole row of a position, gathered from the heads; an unwritten position
\* and one beyond the capacity hold nothing.
Gathered(Get(_, _), dim, t) ==
    [i \in Offsets(NumHeads * dim) |->
        IF t < kv.cap THEN Get(i \div dim, t)[i % dim] ELSE Zero]

Rows(n) == {Row(n, c, t) : c \in 0 .. MaxConversations, t \in Positions}

Store == INSTANCE KVStore WITH
    KeyRows <- Rows(NumHeads * QkDim),
    ValueRows <- Rows(NumHeads * VDim),
    IndexRows <- Rows(IndexDim),
    NoKeyRow <- Buffer(NumHeads * QkDim),
    NoValueRow <- Buffer(NumHeads * VDim),
    NoIndexRow <- Buffer(IndexDim),
    keys <- [l \in Layers |-> [t \in Positions |->
                Gathered(LAMBDA h, p : GetKey(l, h, p), QkDim, t)]],
    values <- [l \in Layers |-> [t \in Positions |->
                Gathered(LAMBDA h, p : GetValue(l, h, p), VDim, t)]],
    indexKeys <- [l \in Layers |-> [t \in Positions |->
                IF t < kv.cap THEN GetIndexKey(l, t) ELSE Buffer(IndexDim)]],
    len <- kv.len

\* The head-major buffers and their growth implement the store attention
\* expects: "a pure memory-layout change" (kv_cache.h).
ImplementsKVStore == Store!Spec
=============================================================================
