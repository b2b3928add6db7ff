---------------------------- MODULE MCAlgorithms ----------------------------
(***************************************************************************)
(* The program's pure algorithms over bounded inputs, each grown a step at *)
(* a time.  The input of the merged reads is the batch of ReadBatches: any *)
(* subset of eight experts, laid out over two shards with every distance   *)
(* that matters, adjacent, within the gap, beyond it, and stored in an     *)
(* order that is not that of the buffer.  A subject is the input of        *)
(* another algorithm:                                                      *)
(*   text        a text of up to MaxText characters, lone bytes of a       *)
(*               broken one included (BpeTokenizer)                        *)
(*   checkpoint  shards with whole and damaged tensors, and an index.json  *)
(*               that may leave some out or misplace them (WeightIndex)    *)
(*   draw        the logits of Vocab tokens and the sampling options       *)
(*               (Sampler)                                                 *)
(***************************************************************************)
EXTENDS ReadBatches, BpeTokenizer, WeightIndex, TokenDraw

CONSTANTS Kinds, MaxText, MaxTensors

VARIABLES kind, subject

vars == <<kind, subject, batch, call>>

-----------------------------------------------------------------------------
\* RunMerge

Place(shard, offset, size) == [shard |-> shard, offset |-> offset, size |-> size]

MCLoc == <<
    <<Place(1, 0, 2), Place(1, 2, 2), Place(1, 4, 1)>>,     \* three in a row
    <<Place(1, 11, 1), Place(1, 9, 2), Place(1, 7, 1)>>,    \* stored backwards
    <<Place(1, 15, 2), Place(2, 0, 2), Place(2, 20, 1)>>,   \* over two shards
    <<Place(2, 4, 1), Place(2, 8, 1), Place(2, 11, 3)>>,    \* beyond the gap, and within
    <<Place(2, 2, 2)>>,                                     \* a shared projection
    <<Place(1, 12, 3)>>,                                    \* closes the gap between others
    <<Place(2, 17, 3), Place(2, 5, 0), Place(1, 19, 1)>>,   \* with an empty tensor
    <<Place(1, 22, 2), Place(2, 23, 2), Place(1, 26, 2)>> >>

-----------------------------------------------------------------------------
\* BpeTokenizer: l, s, S, e-acute, an apostrophe, a digit, a space, a newline,
\* two marks, and the first byte of a three-byte character with nothing to
\* follow it

Lone == <<226>>

Characters == {<<108>>, <<115>>, <<83>>, <<195, 169>>, <<39>>, <<49>>, <<32>>, <<10>>, <<33>>, <<60>>, Lone}

\* an excerpt of unicode_ranges.h that tells the characters above apart
MCLetterRuns == <<<<65, 90>>, <<97, 122>>, <<170, 170>>, <<181, 181>>, <<186, 186>>,
                  <<192, 214>>, <<216, 246>>, <<248, 705>>>>
MCNumberRuns == <<<<48, 57>>, <<178, 179>>, <<185, 185>>, <<188, 190>>>>
MCSpaceRuns == <<<<9, 13>>, <<32, 32>>, <<133, 133>>, <<160, 160>>>>

\* a space and a newline in the ByteLevel map
Sp == ByteToCp[32]
Nl == ByteToCp[10]

MCMerges == <<
    <<<<108>>, <<115>>>>,           \* l s before
    <<<<108>>, <<108>>>>,           \* l l
    <<<<Sp>>, <<108>>>>,
    <<<<108, 108>>, <<108, 115>>>>, \* ll ls
    <<<<33>>, <<33>>>>,
    <<<<195>>, <<169>>>>,           \* a merge with no token of its own
    <<<<39>>, <<115>>>> >>

\* a token for each byte, and for what merges make
MCTokens == [b \in 1..256 |-> <<ByteToCp[b - 1]>>] \o <<
    <<108, 115>>, <<108, 108>>, <<Sp, 108>>, <<108, 108, 108, 115>>, <<33, 33>>, <<39, 115>> >>
\* (TLC evaluates Vocabulary once, and what a .cfg puts for a constant every
\* time; @@ has it tabulate the function)
Vocabulary ==
    LET tokens == MCTokens
    IN <<>> @@ [t \in ToSet(tokens) |-> (CHOOSE n \in DOMAIN tokens : tokens[n] = t) - 1]
MCVocab == Vocabulary

\* one added token starts with another that has the smaller id
MCAdded == {[content |-> <<60>>, id |-> 300], [content |-> <<60, 108>>, id |-> 301],
            [content |-> <<60, 33, 62>>, id |-> 302]}
MCEos == [id |-> -1, content |-> <<>>]
MCEndOfText == <<60, 33, 62>>

\* what the theorems about the tokenizer ask of a tokenizer.json
ASSUME TheVocabularyServes == VocabularyServes

Extend(c) ==
    /\ kind = "text"
    /\ Len(subject) < MaxText
    /\ subject' = Append(subject, c)
    /\ UNCHANGED <<kind, batch, call>>

Bytes(text) == FlattenSeq(text)

\* what a reader of the decoded text sees of a character
Shown(c) == IF c = Lone THEN Replacement ELSE c

AsciiLower(cp) == IF cp \in 65..90 THEN cp + 32 ELSE cp

\* The numbers of characters that the a-th alternative of the pattern matches
\* from i on.  The pattern is that of the split the code implements
\* (native_tokenizer.h:13 and 43, design.md:189):
\*   (?i:'s|'t|'re|'ve|'m|'ll|'d) | [^\r\n\p{L}\p{N}]?\p{L}+ | \p{N}{1,3}
\*   |  ?[^\s\p{L}\p{N}]+[\r\n]* | \s*[\r\n]+ | \s+(?!\S) | \s+
\* where the question mark of the fourth is after a blank.
Matches(cps, a, i) ==
    LET all(S, from, to) == from..to \subseteq S
        here     == DOMAIN cps
        letters  == {k \in here : IsLetter(cps[k].v)}
        numbers  == {k \in here : IsNumber(cps[k].v)}
        spaces   == {k \in here : IsSpace(cps[k].v)}
        newlines == {k \in here : IsNewline(cps[k].v)}
        marks    == here \ (letters \cup numbers \cup spaces)
        ends     == i..Len(cps)
    IN {e - i + 1 : e \in
        CASE a = 1 -> {e \in ends : cps[i].v = 39 /\
                        [k \in 1..(e - i) |-> AsciiLower(cps[i + k].v)] \in {<<c>> : c \in Suffixes1} \cup Suffixes2}
          [] a = 2 -> {e \in ends : i \notin newlines \cup numbers /\ e \in letters /\ all(letters, i + 1, e)}
          [] a = 3 -> {e \in ends : e - i < 3 /\ all(numbers, i, e)}
          [] a = 4 -> {e \in ends : \E from, to \in i..e :
                        /\ from = i \/ (from = i + 1 /\ cps[i].v = 32)
                        /\ from <= to /\ all(marks, from, to) /\ all(newlines, to + 1, e)}
          [] a = 5 -> {e \in ends : all(spaces, i, e) /\ e \in newlines}
          [] a = 6 -> {e \in ends : all(spaces, i, e) /\ (e = Len(cps) \/ e + 1 \in spaces)}
          [] a = 7 -> {e \in ends : all(spaces, i, e)}}

\* Where the code leaves the pattern: asciiCaseEq() compares a capital with no
\* letter, so that 'S is no contraction, and the fourth alternative lets any
\* white space stand before marks.
CapitalContraction(cps, i) ==
    /\ cps[i].v = 39
    /\ \E k \in {i + 1, i + 2} \cap DOMAIN cps : cps[k].v \in 65..90
    /\ Matches(cps, 1, i) # {}
SpacedMarks(cps, i) ==
    /\ IsSpace(cps[i].v) /\ cps[i].v # 32
    /\ i < Len(cps) /\ IsC(cps[i + 1].v)

\* a chunk is the longest match of the first alternative that matches
ChunksFollowThePattern(text) ==
    LET cps == DecodeCps(text)
    IN \A i \in DOMAIN cps : CapitalContraction(cps, i) \/ SpacedMarks(cps, i) \/
        LET first == Min({a \in 1..7 : Matches(cps, a, i) # {}})
        IN ChunkEnd(cps, i) - i = Max(Matches(cps, first, i))

\* one merge after the other, each wherever it applies
MergedBy(word, pair) ==
    LET from[i \in 1..(Len(word) + 1)] ==
            CASE i > Len(word) -> <<>>
              [] i < Len(word) /\ pair = <<word[i], word[i + 1]>> ->
                    <<word[i] \o word[i + 1]>> \o from[i + 2]
              [] OTHER -> <<word[i]>> \o from[i + 1]
    IN from[1]

MergesApplyInRankOrder(chunk) ==
    LET word == Symbols(chunk)
    IN BpeMerge(word) = FoldLeft(MergedBy, word, MergesFile)

\* Whatever the text, its chunks cover it; each is what the pattern takes at
\* its place, except at a contraction in capitals and at white space other
\* than a blank before marks, where the code has a chunk of its own; the
\* merges are applied in the order of their ranks, and decoding the tokens
\* gives the text back, with U+FFFD for the bytes that are no character, even
\* where a merged piece is no token and is spelt byte by byte.  An added token
\* is taken whole even if it begins with another.
TokensSpellTheText ==
    kind = "text" =>
        \A text \in {Bytes(subject)} :
            LET shown == FlattenSeq([n \in DOMAIN subject |-> Shown(subject[n])])
            IN /\ \A chunks \in {PreTokenize(text)} :
                    /\ FlattenSeq(chunks) = text
                    /\ \A n \in DOMAIN chunks : MergesApplyInRankOrder(chunks[n])
               /\ ChunksFollowThePattern(text)
               /\ \A special \in BOOLEAN : \A ids \in {Encode(text, special)} :
                    /\ \A t \in AddedFile : t.content = text /\ ~special => ids = <<t.id>>
                    /\ Decode(ids, FALSE) = IF special THEN shown \o EndOfText ELSE shown

-----------------------------------------------------------------------------
\* WeightIndex

Layer(l, part) == <<"model", "layers", l>> \o part

\* two layers, the second with two experts
Wanted == {
    <<"model", "embed_tokens", "weight">>,
    Layer("0", <<"input_layernorm", "weight">>),
    Layer("0", <<"mlp", "gate_proj", "weight">>),
    Layer("1", <<"mlp", "gate", "e_score_correction_bias">>),
    Layer("1", <<"mlp", "shared_experts", "up_proj", "weight">>),
    Layer("1", <<"mlp", "experts", "1", "up_proj", "weight">>) }

\* the slots of these names
MCSlot == [name \in Wanted |->
    CASE name[2] = "embed_tokens" -> <<"embedTokens">>
      [] name[2] = "layers" /\ name[3] = "0" /\ name[4] = "input_layernorm" -> <<"inputLayernorm", 0>>
      [] name[2] = "layers" /\ name[3] = "0" /\ name[4] = "mlp" -> <<"mlpGate", 0>>
      [] name[2] = "layers" /\ name[3] = "1" /\ name[5] = "gate" -> <<"gateBias", 1>>
      [] name[2] = "layers" /\ name[3] = "1" /\ name[5] = "shared_experts" -> <<"sharedUpProj", 1>>
      [] OTHER -> <<"upProj", 1, 1>>]

\* tensors the engine must leave alone: those of MTP layers and heads, of
\* layers and experts beyond the model's, of the wrong kind of layer, and names
\* that begin with '_'
Unwanted == {
    <<"__metadata__">>,
    <<"_old">> \o Layer("0", <<"input_layernorm", "weight">>),
    <<"model", "nextn_predict_layers", "0", "input_layernorm", "weight">>,
    <<"model", "mtp_layers", "1", "mlp", "experts", "1", "up_proj", "weight">>,
    <<"model", "mtp_head", "weight">>,
    Layer("2", <<"input_layernorm", "weight">>),
    Layer("1", <<"mlp", "gate_proj", "weight">>),
    Layer("1", <<"mlp", "experts", "2", "up_proj", "weight">>) }

MCDigits == [d \in {"0", "1", "2"} |-> CASE d = "0" -> 0 [] d = "1" -> 1 [] d = "2" -> 2]

\* the tensors that may be damaged: one that may be F32 and one that may not
Spoilt == {Layer("0", <<"input_layernorm", "weight">>), Layer("1", <<"mlp", "gate", "e_score_correction_bias">>)}

Damages == {"none", "f32", "f16", "noShape", "pastEnd", "misaligned", "wrongSize", "empty",
            "farEnd", "hugeShape"}

\* 8 bytes at the n-th place of the data, in a file with room for two; the
\* offsets of "farEnd" and the product of "hugeShape" wrap
EntryOf(damage, n) ==
    LET begin == CASE damage = "misaligned" -> 8 * n - 4
                   [] damage = "pastEnd" -> 16
                   [] damage = "farEnd" -> TwoTo64 - 16
                   [] OTHER -> 8 * (n - 1)
    IN [object |-> TRUE,
        dtype  |-> CASE damage = "f32" -> "F32" [] damage = "f16" -> "F16" [] OTHER -> "BF16",
        shape  |-> CASE damage = "noShape" -> <<>> [] damage = "f32" -> <<2>>
                     [] damage = "wrongSize" -> <<2, 3>>
                     [] damage = "hugeShape" -> <<4, TwoTo64 \div 4 + 1>>
                     [] OTHER -> <<2, 2>>,
        begin  |-> begin,
        end    |-> IF damage = "empty" THEN begin ELSE begin + 8]

Header == 16

NewShard == [opens |-> TRUE, size |-> Header + 8 + 16, hsize |-> Header, reads |-> TRUE,
             json |-> "object", entries |-> <<>>]

Held(s) == Cardinality(DOMAIN subject.shards[s].entries)

AddTensor(s, name, damage) ==
    LET shard == subject.shards[s] IN
    /\ kind = "checkpoint"
    /\ subject.listed = <<>>
    /\ Held(1) + Held(2) < MaxTensors
    /\ name \notin DOMAIN shard.entries
    /\ damage # "none" => name \in Spoilt /\ subject.shards = <<NewShard, NewShard>>
    /\ LET n == Cardinality(DOMAIN shard.entries) + 1 IN
       subject' = [subject EXCEPT !.shards[s].entries =
            [x \in DOMAIN @ \cup {name} |-> IF x = name THEN EntryOf(damage, n) ELSE @[x]]]
    /\ UNCHANGED <<kind, batch, call>>

DamageShard(s, how) ==
    /\ kind = "checkpoint"
    /\ subject.listed = <<>>
    /\ subject.shards[s] = NewShard
    /\ subject' = [subject EXCEPT !.shards[s] = [@ EXCEPT
            !.opens = how # "closed",
            !.hsize = IF how = "odd" THEN @ - 4 ELSE @,
            !.size  = IF how = "short" THEN Header ELSE @,
            !.reads = how # "short",
            !.json  = IF how = "text" THEN "text" ELSE @]]
    /\ UNCHANGED <<kind, batch, call>>

\* index.json gets an entry for a name: under the shard that holds it, under
\* another, or under one that is not in the directory
ListTensor(name, s) ==
    /\ kind = "checkpoint"
    /\ name \notin DOMAIN subject.listed
    /\ \E holder \in DOMAIN subject.shards : name \in DOMAIN subject.shards[holder].entries
    /\ subject' = [subject EXCEPT !.listed = [x \in DOMAIN @ \cup {name} |-> IF x = name THEN s ELSE @[x]]]
    /\ UNCHANGED <<kind, batch, call>>

ProductOf(shape) == FoldLeft(LAMBDA n, d : n * d, 1, shape)

\* the tensors whose sums or products leave 64 bits
Wrapping(c) == UNION {
    {name \in DOMAIN c.shards[s].entries :
        LET entry == c.shards[s].entries[name]
        IN ~SumsFit(c.shards[s], entry) \/ 8 * ProductOf(entry.shape) >= TwoTo64} : s \in DOMAIN c.shards}

\* a tensor that can be trusted: the strict rules of safetensors.h
Sound(file, name) ==
    LET entry == file.entries[name]
        bytes == CASE entry.dtype = "BF16" -> 2 [] entry.dtype = "F32" -> 4 [] OTHER -> 0
    IN /\ file.opens /\ file.json = "object" /\ file.hsize % 8 = 0
       /\ entry.end > entry.begin
       /\ file.hsize + 8 + entry.end <= file.size
       /\ entry.begin % 8 = 0
       /\ entry.shape # <<>> /\ bytes * ProductOf(entry.shape) = entry.end - entry.begin
       /\ entry.dtype = "F32" => name[Len(name)] = "e_score_correction_bias"

\* where each tensor may be read from: the shard index.json names, or without
\* one the last shard that holds it
SourceOf(c, name) ==
    LET holders == {s \in DOMAIN c.shards :
            name \in DOMAIN c.shards[s].entries /\ Sound(c.shards[s], name)}
    IN IF c.listed = <<>> THEN (IF holders = {} THEN {} ELSE {Max(holders)})
       ELSE {s \in holders : name \in DOMAIN c.listed /\ c.listed[name] = s}

\* The index is exact for what was found (IndexIsExact), and that is right: it
\* holds exactly the wanted tensors that a sound shard can supply, each at its
\* own slot and at its own bytes; no tensor of an MTP layer or of
\* a layer or expert beyond the model's is taken for a weight; and index.json,
\* when it lists every tensor under its shard, gives what the headers give.
\* A tensor whose offsets or shape leave 64 bits may be taken, sound or not:
\* of it the property only says what IndexIsExact does.
WeightsAreFound ==
    kind = "checkpoint" =>
        LET index == BuiltIndex(subject)
            found == {name \in Wanted : SourceOf(subject, name) # {}}
            taken == {MCSlot[name] : name \in Wrapping(subject)}
            named == UNION {DOMAIN subject.shards[s].entries : s \in DOMAIN subject.shards}
        IN /\ Builds(subject)
           /\ IsCheckpoint(subject) /\ IndexIsExact(subject)
           /\ DOMAIN index.at \ taken = {MCSlot[name] : name \in found} \ taken
           /\ \A name \in found \ Wrapping(subject) : \A s \in SourceOf(subject, name) :
                LET at == index.at[MCSlot[name]] IN
                /\ at.shard = s
                /\ at.offset = Header + 8 + subject.shards[s].entries[name].begin
                /\ at.offset + at.size <= subject.shards[s].size
           /\ index.hasMtp => \E name \in named \cap Unwanted : IsMtp(name)
           /\ (/\ DOMAIN subject.listed = named
               /\ \A name \in named : \A s \in DOMAIN subject.shards :
                    (name \in DOMAIN subject.shards[s].entries) <=> subject.listed[name] = s)
              => index = FromHeaders(subject)

-----------------------------------------------------------------------------
\* Sampler

MCMasked == -1000

\* powers of two
MCExp == [d \in 0..Reach |-> IF d <= 24 THEN 2^(24 - d) ELSE 1]

MCLogits == {-2, 0, 2}

MCSettings == [
    halves |-> {1, 4}, topK |-> {1, 2}, penalty |-> {1, 8}, frequency |-> {2}, presence |-> {2},
    minP |-> {1, 4}, typicalP |-> {2}, topP |-> {0, 1, 2, 3}]

MCWindow == <<1, 0, 1>>

MCLowest == -4

\* the call while another algorithm is given its input
ACall == [logits |-> [t \in Tokens |-> 0], options |-> Plain]

SetOption(name, value) ==
    /\ kind = "draw"
    /\ ChooseOption(name, value)
    /\ UNCHANGED <<kind, subject, batch>>

-----------------------------------------------------------------------------

Init ==
  /\ NoBatch
  /\ \/ kind \in {"batch", "text"} \cap Kinds /\ subject = <<>> /\ call = ACall
     \/ /\ "checkpoint" \in Kinds
        /\ kind = "checkpoint"
        /\ subject = [config |-> TRUE, shards |-> <<NewShard, NewShard>>, listed |-> <<>>]
        /\ call = ACall
     \/ "draw" \in Kinds /\ kind = "draw" /\ subject = <<>> /\ PlainCall

GrowBatch(k) ==
    /\ kind = "batch"
    /\ AddToBatch(k)
    /\ UNCHANGED <<kind, subject, call>>

Next ==
    \/ \E k \in Keys : GrowBatch(k)
    \/ \E c \in Characters : Extend(c)
    \/ \E s \in {1, 2}, name \in Wanted \cup Unwanted, damage \in Damages : AddTensor(s, name, damage)
    \/ \E s \in {1, 2}, how \in {"closed", "odd", "short", "text"} : DamageShard(s, how)
    \/ \E name \in Wanted \cup Unwanted, s \in {1, 2, 3} : ListTensor(name, s)
    \/ \E name \in DOMAIN Settings : \E value \in Settings[name] : SetOption(name, value)

Spec == Init /\ [][Next]_vars
=============================================================================
