---------------------------- MODULE BpeTokenizer ----------------------------
(***************************************************************************)
(* The in-process tokenizer, src/src/tokenizer/native_tokenizer.cpp.       *)
(*                                                                         *)
(* A text is a sequence of bytes.  A token of the vocabulary is a sequence *)
(* of code points, each standing for one byte (the ByteLevel map): its     *)
(* UTF-8 form, which is how the code stores it, says no more.              *)
(***************************************************************************)
EXTENDS Integers, SequencesExt, FiniteSetsExt

CONSTANTS
    LetterRuns, NumberRuns, SpaceRuns,  \* the Unicode tables: <<first, last>>, ascending
    VocabFile,     \* tokenizer.json, "vocab": the id of each token
    MergesFile,    \* "merges": the sequence of pairs of tokens
    AddedFile,     \* "added_tokens": the set of [content, id], content in bytes
    EosEntry,      \* tokenizer_config.json, "eos_token": [id, content], -1 and <<>> if not there
    EndOfText      \* the bytes of "<|endoftext|>"

ASSUME AddedTokensAreNotEmpty == \A t \in AddedFile : t.content # <<>>
ASSUME MergesAreAList == MergesFile \in Seq(Seq(Nat) \X Seq(Nat))

-----------------------------------------------------------------------------
\* Bytes, code points and their classes

IsPrinted(b) == b \in 33..126 \cup 161..172 \cup 174..255

\* ByteMap: a printed byte is itself, the others are numbered from 256
ByteToCp == [b \in 0..255 |->
    IF IsPrinted(b) THEN b ELSE 256 + Cardinality({c \in 0..(b - 1) : ~IsPrinted(c)})]

\* binary search for a run that holds cp
InRuns(cp, runs) ==
    LET search[lo \in 0..Len(runs), hi \in 0..Len(runs)] ==
            LET mid == (lo + hi) \div 2 IN
            CASE lo >= hi -> FALSE
              [] lo < hi /\ cp < runs[mid + 1][1] -> search[lo, mid]
              [] lo < hi /\ cp > runs[mid + 1][2] -> search[mid + 1, hi]
              [] OTHER -> TRUE
    IN search[0, Len(runs)]

IsLetter(cp) == InRuns(cp, LetterRuns)
IsNumber(cp) == InRuns(cp, NumberRuns)
IsSpace(cp) == InRuns(cp, SpaceRuns)
IsNewline(cp) == cp \in {10, 13}
IsC(cp) == ~IsSpace(cp) /\ ~IsLetter(cp) /\ ~IsNumber(cp)

Tail6(b) == b % 64

Utf8(cp) ==
    IF cp < 128 THEN <<cp>>
    ELSE IF cp < 2048 THEN <<192 + cp \div 64, 128 + Tail6(cp)>>
    ELSE IF cp < 65536 THEN <<224 + cp \div 4096, 128 + Tail6(cp \div 64), 128 + Tail6(cp)>>
    ELSE <<240 + cp \div 262144, 128 + Tail6(cp \div 4096), 128 + Tail6(cp \div 64), 128 + Tail6(cp)>>

\* How many bytes decodeCps() takes at byte i, and the code point it reads.
\* The lead byte alone decides; what follows is not looked at.
CpLen(s, i) ==
    LET b == s[i] IN
    IF b >= 240 /\ i + 3 <= Len(s) THEN 4
    ELSE IF b >= 224 /\ i + 2 <= Len(s) THEN 3
    ELSE IF b >= 192 /\ i + 1 <= Len(s) THEN 2
    ELSE 1

CpValue(s, i) ==
    LET b == s[i]
        n == CpLen(s, i)
    IN CASE n = 4 -> (b % 8) * 262144 + Tail6(s[i+1]) * 4096 + Tail6(s[i+2]) * 64 + Tail6(s[i+3])
         [] n = 3 -> (b % 16) * 4096 + Tail6(s[i+1]) * 64 + Tail6(s[i+2])
         [] n = 2 -> (b % 32) * 64 + Tail6(s[i+1])
         [] n = 1 -> b

\* the code points of s, each with the byte it starts at
DecodeCps(s) ==
    LET from[i \in 1..(Len(s) + 1)] ==
            IF i > Len(s) THEN <<>>
            ELSE <<[v |-> CpValue(s, i), off |-> i]>> \o from[i + CpLen(s, i)]
    IN from[1]

-----------------------------------------------------------------------------
\* preTokenize: the seven alternatives, tried in order.  Each gives the
\* position after its match at i, or 0.

\* the first position from k on that Is does not hold of
RunEnd(cps, k, Is(_)) ==
    Min({j \in k..Len(cps) : ~Is(cps[j].v)} \cup {Len(cps) + 1})

AsciiCaseEq(cp, c) ==
    CASE cp \in 65..90 -> cp \in {c, c - 65 + 97}
      [] cp \in 97..122 -> cp \in {c, c - 97 + 65}
      [] OTHER -> cp = c

\* 's 't 're 've 'm 'll 'd
Suffixes1 == {115, 116, 109, 100}
Suffixes2 == {<<114, 101>>, <<118, 101>>, <<108, 108>>}

Contraction(cps, i) ==
    LET is(j, c) == j <= Len(cps) /\ AsciiCaseEq(cps[j].v, c) IN
    IF cps[i].v # 39 THEN 0
    ELSE IF \E c \in Suffixes1 : is(i + 1, c) THEN i + 2
    ELSE IF \E c \in Suffixes2 : is(i + 1, c[1]) /\ is(i + 2, c[2]) THEN i + 3
    ELSE 0

Word(cps, i) ==
    LET first == cps[i].v IN
    IF \/ IsLetter(first)
       \/ /\ ~IsNewline(first) /\ ~IsNumber(first)
          /\ i < Len(cps) /\ IsLetter(cps[i + 1].v)
    THEN RunEnd(cps, i + 1, IsLetter)
    ELSE 0

Number(cps, i) ==
    IF IsNumber(cps[i].v) THEN Min({RunEnd(cps, i + 1, IsNumber), i + 3}) ELSE 0

Punctuation(cps, i) ==
    LET k == IF IsSpace(cps[i].v) THEN i + 1 ELSE i IN
    IF k <= Len(cps) /\ IsC(cps[k].v)
    THEN RunEnd(cps, RunEnd(cps, k, IsC), IsNewline)
    ELSE 0

LineBreaks(cps, i) ==
    LET breaks == {k \in i..(RunEnd(cps, i, IsSpace) - 1) : IsNewline(cps[k].v)} IN
    IF breaks = {} THEN 0 ELSE Max(breaks) + 1

\* \s+(?!\S): the last space before a word is left for the word
SpacesApart(cps, i) ==
    LET end  == RunEnd(cps, i, IsSpace)
        take == IF end > Len(cps) THEN end - i ELSE end - i - 1
    IN IF take > 0 THEN i + take ELSE 0

Spaces(cps, i) ==
    LET end == RunEnd(cps, i, IsSpace) IN IF end > i THEN end ELSE 0

ChunkEnd(cps, i) ==
    LET tries == <<Contraction(cps, i), Word(cps, i), Number(cps, i), Punctuation(cps, i),
                   LineBreaks(cps, i), SpacesApart(cps, i), Spaces(cps, i), i + 1>>
    IN tries[Min({n \in DOMAIN tries : tries[n] > 0})]

PreTokenize(text) ==
    LET cps == DecodeCps(text)
        byte(j) == IF j <= Len(cps) THEN cps[j].off ELSE Len(text) + 1
        from[i \in 1..(Len(cps) + 1)] ==
            IF i > Len(cps) THEN <<>>
            ELSE LET j == ChunkEnd(cps, i)
                 IN <<SubSeq(text, byte(i), byte(j) - 1)>> \o from[j]
    IN from[1]

-----------------------------------------------------------------------------
\* load

VocabSize == Cardinality(DOMAIN VocabFile)

\* vocabById_: ids beyond the size of the vocabulary have no entry
VocabById ==
    LET vocab == VocabFile IN
    [id \in 0..(VocabSize - 1) |->
        IF \E t \in DOMAIN vocab : vocab[t] = id THEN CHOOSE t \in DOMAIN vocab : vocab[t] = id
        ELSE <<>>]

IsMerge(l, r) == \E n \in DOMAIN MergesFile : MergesFile[n] = <<l, r>>
Rank(l, r) == Max({n \in DOMAIN MergesFile : MergesFile[n] = <<l, r>>})

\* addedTokens_ is sorted: the longest first, then by id
Precedes(a, b) ==
    \/ Len(a.content) > Len(b.content)
    \/ Len(a.content) = Len(b.content) /\ a.id < b.id

\* the one of these added tokens that a walk over addedTokens_ meets first
FirstAdded(tokens) == CHOOSE t \in tokens : \A other \in tokens : ~Precedes(other, t)

AddedId(content) ==
    LET same == {t \in AddedFile : t.content = content}
    IN IF same = {} THEN -1 ELSE FirstAdded(same).id

\* eos_token of tokenizer_config.json, else the added token <|endoftext|>
EosId ==
    LET given == CASE EosEntry.id >= 0 -> EosEntry.id
                   [] EosEntry.id < 0 /\ EosEntry.content \in DOMAIN VocabFile -> VocabFile[EosEntry.content]
                   [] OTHER -> AddedId(EosEntry.content)
    IN IF given >= 0 THEN given ELSE AddedId(EndOfText)

\* A tokenizer.json that serves all texts.  The file is not checked when it is
\* loaded.  Every byte has a token; the ids are below the size of the
\* vocabulary and each names one token, in the vocabulary or added; and what a
\* merge makes is a token or can be spelt (see Spelt).
VocabularyServes ==
    LET vocab == VocabFile IN
    /\ \A b \in 0..255 : <<ByteToCp[b]>> \in DOMAIN vocab
    /\ \A token \in DOMAIN vocab :
        /\ vocab[token] \in 0..(VocabSize - 1)
        /\ \A other \in DOMAIN vocab : vocab[other] = vocab[token] => other = token
        /\ \A t \in AddedFile : t.id # vocab[token]
    /\ \A t \in AddedFile :
        /\ t.id \in Nat /\ t.content \in Seq(0..255)
        /\ \A u \in AddedFile : u.id = t.id \/ u.content = t.content => u = t
    /\ \A n \in DOMAIN MergesFile :
        LET made == MergesFile[n][1] \o MergesFile[n][2]
        IN made \in DOMAIN vocab \/ Last(made) >= 128

-----------------------------------------------------------------------------
\* encode

\* mutation: the leftmost pair that is a merge, whatever its rank
BestPair_Leftmost(word) ==
    LET pairs == {k \in 1..(Len(word) - 1) : IsMerge(word[k], word[k + 1])} IN
    IF pairs = {} THEN 0 ELSE Min(pairs)

\* the leftmost pair of the lowest rank; 0 if no pair is a merge
BestPair(word) ==
    LET pairs == {k \in 1..(Len(word) - 1) : IsMerge(word[k], word[k + 1])}
        rank(k) == Rank(word[k], word[k + 1])
    IN IF pairs = {} THEN 0
       ELSE Min({k \in pairs : \A other \in pairs : rank(k) <= rank(other)})

MergedOnce(word) ==
    LET k == BestPair(word) IN
    IF k = 0 THEN word
    ELSE SubSeq(word, 1, k - 1) \o <<word[k] \o word[k + 1]>> \o SubSeq(word, k + 2, Len(word))

\* a merge shortens the word: after Len(word) of them no pair is left
BpeMerge(word) ==
    LET after[n \in 0..Len(word)] == IF n = 0 THEN word ELSE MergedOnce(after[n - 1])
    IN after[Len(word)]

\* A piece that is no token is spelt byte by byte.  The loop stops one short
\* of the end of the UTF-8 form, which loses a last code point of one byte.
Spelt(piece) ==
    LET all  == IF Last(piece) < 128 THEN Front(piece) ELSE piece
    IN FlattenSeq([c \in DOMAIN all |->
            IF <<all[c]>> \in DOMAIN VocabFile THEN <<VocabFile[<<all[c]>>]>> ELSE <<>>])

PieceIds(piece) ==
    IF piece \in DOMAIN VocabFile THEN <<VocabFile[piece]>> ELSE Spelt(piece)

\* the bytes of a chunk, each as the code point that stands for it
Symbols(chunk) == [b \in DOMAIN chunk |-> <<ByteToCp[chunk[b]]>>]

EncodeChunk(chunk) ==
    LET pieces == BpeMerge(Symbols(chunk))
    IN FlattenSeq([n \in DOMAIN pieces |-> PieceIds(pieces[n])])

EncodePlain(text) ==
    LET chunks == PreTokenize(text)
    IN FlattenSeq([n \in DOMAIN chunks |-> EncodeChunk(chunks[n])])

\* the added tokens that text holds at pos
AddedAt(text, pos) == {t \in AddedFile : IsPrefix(t.content, SubSeq(text, pos, Len(text)))}

EncodeSpans(text) ==
    LET from[pos \in 1..(Len(text) + 1)] ==
            LET here  == AddedAt(text, pos)
                token == FirstAdded(here)
                stop  == Min({x \in pos..Len(text) : AddedAt(text, x) # {}} \cup {Len(text) + 1})
            IN CASE pos > Len(text) -> <<>>
                 [] pos <= Len(text) /\ here # {} -> <<token.id>> \o from[pos + Len(token.content)]
                 [] OTHER -> EncodePlain(SubSeq(text, pos, stop - 1)) \o from[stop]
    IN from[1]

\* the EOS token after the last span, unless it is there already
Closed(ids, addSpecial) ==
    IF addSpecial /\ EosId >= 0 /\ (ids = <<>> \/ Last(ids) # EosId)
    THEN Append(ids, EosId)
    ELSE ids

Encode(text, addSpecial) == Closed(EncodeSpans(text), addSpecial)

-----------------------------------------------------------------------------
\* decode

\* the byte a code point stands for; one that stands for none is dropped
CpBytes(cp) == IF cp \in Range(ByteToCp) THEN <<CHOOSE b \in 0..255 : ByteToCp[b] = cp>> ELSE <<>>

TokenBytes(token) == FlattenSeq([c \in DOMAIN token |-> CpBytes(token[c])])

\* the bytes of one id: an added token before a token of the vocabulary
IdBytes(id, skipSpecial) ==
    LET specials == {t \in AddedFile : t.id = id} IN
    IF specials # {}
    THEN IF skipSpecial THEN <<>> ELSE (CHOOSE t \in specials : TRUE).content
    ELSE IF id \in DOMAIN VocabById THEN TokenBytes(VocabById[id]) ELSE <<>>

IsTail(s, i) == i <= Len(s) /\ s[i] \in 128..191

\* the length of the well-formed UTF-8 sequence at byte i, 0 if there is none
ValidLen(s, i) ==
    LET b == s[i]
        v == CpValue(s, i)
    IN CASE b < 128 -> 1
         [] b \in 192..223 /\ IsTail(s, i + 1) -> IF v >= 128 THEN 2 ELSE 0
         [] b \in 224..239 /\ IsTail(s, i + 1) /\ IsTail(s, i + 2) ->
                IF v >= 2048 /\ (v < 55296 \/ 57343 < v) THEN 3 ELSE 0
         [] b \in 240..247 /\ IsTail(s, i + 1) /\ IsTail(s, i + 2) /\ IsTail(s, i + 3) ->
                IF 65536 <= v /\ v <= 1114111 THEN 4 ELSE 0
         [] OTHER -> 0

Replacement == Utf8(65533)

\* a byte that starts no well-formed sequence becomes U+FFFD
Repaired(s) ==
    LET from[i \in 1..(Len(s) + 1)] ==
            CASE i > Len(s) -> <<>>
              [] i <= Len(s) /\ ValidLen(s, i) > 0 ->
                    SubSeq(s, i, i + ValidLen(s, i) - 1) \o from[i + ValidLen(s, i)]
              [] OTHER -> Replacement \o from[i + 1]
    IN from[1]

Decode(ids, skipSpecial) ==
    Repaired(FlattenSeq([n \in DOMAIN ids |-> IdBytes(ids[n], skipSpecial)]))
=============================================================================
