---------------------------- MODULE TokenProofs ----------------------------
(***************************************************************************)
(* Proofs about the two ends of a generation: the tokenizer, which turns a *)
(* text into ids and the ids into a text, and the sampler, which draws an  *)
(* id from the logits.                                                     *)
(*                                                                         *)
(* The tokenizer is followed through its loops, each a recursion over the  *)
(* positions of a sequence: the code points, the chunks, the merges, the   *)
(* spans between added tokens, the repair of the decoded bytes.  What is   *)
(* kept all along is the bytes: those of the pieces one after the other    *)
(* are those of the text.                                                  *)
(***************************************************************************)
EXTENDS BpeTokenizer, TokenDraw, FoldLemmas

Byte == 0..255

\* A code point takes one to four bytes, and none beyond the text (decodeCps).
LEMMA CpTakes ==
    ASSUME NEW s \in Seq(Byte), NEW i \in 1..Len(s)
    PROVE  CpLen(s, i) \in 1..4 /\ i + CpLen(s, i) <= Len(s) + 1
<1>1. Len(s) \in Nat /\ s[i] \in Byte
  OBVIOUS
<1>2. QED
  BY <1>1 DEF CpLen, Byte

CpOf(s, i) == [v |-> CpValue(s, i), off |-> i]
CpsOf(s) == {CpOf(s, i) : i \in 1..Len(s)}

\* the code points from byte i on: each starts where the one before it ends
Decoded(d, s, i) ==
    /\ d \in Seq(CpsOf(s))
    /\ \A j \in 1..Len(d) : d[j].off \in i..Len(s)
    /\ \A j, k \in 1..Len(d) : j < k => d[j].off < d[k].off
    /\ i > Len(s) => d = <<>>
    /\ i <= Len(s) => d # <<>> /\ d[1].off = i

\* Putting the code point at i before those of the bytes after it.
LEMMA DecodedGrows ==
    ASSUME NEW s \in Seq(Byte), NEW i \in 1..Len(s), NEW n \in (i + 1)..(Len(s) + 1),
           NEW d, Decoded(d, s, n)
    PROVE  Decoded(<<CpOf(s, i)>> \o d, s, i)
<1> DEFINE c == CpOf(s, i)
           e == <<c>> \o d
<1>1. Len(s) \in Nat /\ c \in CpsOf(s) /\ c.off = i
  BY DEF CpsOf, CpOf
<1>2. d \in Seq(CpsOf(s)) /\ Len(d) \in Nat
  BY DEF Decoded
<1> HIDE DEF c
<1>3. /\ e \in Seq(CpsOf(s)) /\ Len(e) = Len(d) + 1 /\ e[1] = c /\ e # <<>>
      /\ \A j \in 1..Len(d) : e[j + 1] = d[j]
  <2> DEFINE S == CpsOf(s)
  <2>1. c \in S /\ d \in Seq(S)
    BY <1>1, <1>2
  <2> HIDE DEF S
  <2>2. /\ e \in Seq(S) /\ Len(e) = Len(d) + 1 /\ e # <<>> /\ e[1] = c
        /\ \A j \in 1..Len(d) : e[j + 1] = d[j]
    BY <2>1, ConsGives DEF e
  <2>3. QED
    BY <2>2 DEF S
<1> HIDE DEF e
<1>4. \A j \in 1..Len(e) : j = 1 \/ (j - 1 \in 1..Len(d) /\ e[j] = d[j - 1])
  <2>1. SUFFICES ASSUME NEW j \in 1..Len(e), j # 1
                 PROVE  j - 1 \in 1..Len(d) /\ e[j] = d[j - 1]
    OBVIOUS
  <2>2. j - 1 \in 1..Len(d) /\ (j - 1) + 1 = j
    BY <1>2, <1>3, <2>1
  <2>3. QED
    BY <1>3, <2>2
<1>5. \A j \in 1..Len(d) : d[j].off \in n..Len(s)
  BY DEF Decoded
<1>6. \A j \in 1..Len(e) : e[j].off \in i..Len(s)
  <2>1. SUFFICES ASSUME NEW j \in 1..Len(e)
                 PROVE  e[j].off \in i..Len(s)
    OBVIOUS
  <2>2. CASE j = 1
    BY <1>1, <1>3, <2>2
  <2>3. CASE j # 1
    <3>1. j - 1 \in 1..Len(d) /\ e[j].off = d[j - 1].off
      BY <1>4, <2>3
    <3>2. d[j - 1].off \in n..Len(s)
      BY <1>5, <3>1
    <3>3. QED
      BY <1>1, <3>1, <3>2
  <2>4. QED
    BY <2>2, <2>3
<1>7. ASSUME NEW j \in 1..Len(e), NEW k \in 1..Len(e), j < k
      PROVE  e[j].off < e[k].off
  <2>1. k # 1 /\ k - 1 \in 1..Len(d) /\ e[k].off = d[k - 1].off
    <3>1. k # 1
      BY <1>2, <1>3, <1>7
    <3>2. QED
      BY <1>4, <3>1
  <2>2. CASE j = 1
    <3>1. e[j].off = i /\ d[k - 1].off \in n..Len(s)
      BY <1>1, <1>3, <1>5, <2>1, <2>2
    <3>2. QED
      BY <1>1, <2>1, <3>1
  <2>3. CASE j # 1
    <3>1. j - 1 \in 1..Len(d) /\ e[j].off = d[j - 1].off /\ j - 1 < k - 1
      BY <1>2, <1>3, <1>4, <1>7, <2>3
    <3>2. d[j - 1].off < d[k - 1].off
      BY <2>1, <3>1 DEF Decoded
    <3>3. QED
      BY <2>1, <3>1, <3>2
  <2>4. QED
    BY <2>2, <2>3
<1>8. QED
  BY <1>1, <1>3, <1>6, <1>7 DEF Decoded, e, c

\* decodeCps walks the whole text, from its first byte to its last.
LEMMA DecodeCpsWalks ==
    ASSUME NEW s \in Seq(Byte)
    PROVE  Decoded(DecodeCps(s), s, 1)
<1> DEFINE N == Len(s)
           Step(f) == [i \in 1..(Len(s) + 1) |->
                            IF i > Len(s) THEN <<>>
                            ELSE <<[v |-> CpValue(s, i), off |-> i]>> \o f[i + CpLen(s, i)]]
           from == CHOOSE f : f = Step(f)
           head == [i \in 1..N |-> <<CpOf(s, i)>>]
           next == [i \in 1..N |-> i + CpLen(s, i)]
<1>0. N \in Nat
  OBVIOUS
<1>1. \A i \in 1..N : next[i] \in (i + 1)..(N + 1) /\ i + CpLen(s, i) \in (i + 1)..(N + 1)
  BY CpTakes
<1>2. next \in [1..N -> 1..(N + 1)] /\ \A i \in 1..N : i < next[i]
  <2>1. \A i \in 1..N : i + CpLen(s, i) \in 1..(N + 1) /\ i < i + CpLen(s, i)
    <3> HIDE DEF next
    <3>1. QED
      BY <1>0, <1>1
  <2>2. QED
    BY <2>1
<1>3. head \in [1..N -> Seq(CpsOf(s))]
  <2>1. \A i \in 1..N : <<CpOf(s, i)>> \in Seq(CpsOf(s))
    BY DEF CpsOf
  <2>2. QED
    BY <2>1
<1>4. \E f : f = Step(f)
  <2>1. PICK f \in [1..(N + 1) -> Seq(CpsOf(s))] : IsJoin(f, 1, N, head, next)
    <3> HIDE DEF N, head, next
    <3>1. QED
      BY <1>0, <1>2, <1>3, JoinExists
  <2>2. \A i \in 1..(N + 1) : f[i] = Step(f)[i]
    <3>1. SUFFICES ASSUME NEW i \in 1..(N + 1)
                   PROVE  f[i] = Step(f)[i]
      OBVIOUS
    <3>2. f[i] = IF i > N THEN <<>> ELSE head[i] \o f[next[i]]
      BY <2>1 DEF IsJoin
    <3>3. CASE i > N
      BY <3>2, <3>3
    <3>4. CASE ~(i > N)
      <4>1. i \in 1..N
        BY <1>0, <3>4
      <4>2. head[i] = <<CpOf(s, i)>> /\ next[i] = i + CpLen(s, i)
        BY <4>1
      <4> HIDE DEF head, next
      <4>3. QED
        BY <3>2, <3>4, <4>2 DEF CpOf
    <3>5. QED
      BY <3>3, <3>4
  <2>3. f = Step(f)
    BY <2>2
  <2> HIDE DEF Step
  <2>4. QED
    BY <2>3
<1>5. from = Step(from)
  <2> HIDE DEF Step
  <2>1. QED
    BY <1>4
<1>6. \A i \in 1..(N + 1) : from[i] = IF i > N THEN <<>> ELSE <<CpOf(s, i)>> \o from[i + CpLen(s, i)]
  <2> HIDE DEF from
  <2>1. QED
    BY <1>5 DEF CpOf
<1>7. DecodeCps(s) = from[1]
  BY DEF DecodeCps
<1> HIDE DEF from, Step
<1> DEFINE Good == {i \in 1..(N + 1) : Decoded(from[i], s, i)}
<1>8. N + 1 \in Good
  <2>1. N + 1 \in 1..(N + 1) /\ N + 1 > N /\ ~(N + 1 <= N)
    BY <1>0
  <2>2. from[N + 1] = <<>>
    BY <1>6, <2>1
  <2>3. Len(<<>>) = 0 /\ <<>> \in Seq(CpsOf(s))
    OBVIOUS
  <2>4. Decoded(<<>>, s, N + 1)
    BY <1>0, <2>1, <2>3 DEF Decoded
  <2>5. QED
    BY <2>1, <2>2, <2>4
<1>9. ASSUME NEW i \in 1..N, \A j \in (i + 1)..(N + 1) : j \in Good
      PROVE  i \in Good
  <2> DEFINE n == i + CpLen(s, i)
  <2>1. n \in (i + 1)..(N + 1)
    BY <1>1
  <2>2. Decoded(from[n], s, n)
    <3> HIDE DEF n
    <3>1. QED
      BY <1>9, <2>1
  <2>3. i \in 1..(N + 1) /\ ~(i > N)
    BY <1>0
  <2>4. from[i] = <<CpOf(s, i)>> \o from[n]
    BY <1>6, <2>3
  <2> HIDE DEF n
  <2>5. Decoded(<<CpOf(s, i)>> \o from[n], s, i)
    BY <2>1, <2>2, DecodedGrows
  <2>6. QED
    BY <2>3, <2>4, <2>5
<1>10. 1 \in Good
  <2>1. 1 \in 1..(N + 1)
    BY <1>0
  <2> HIDE DEF Good, N
  <2>2. QED
    BY <1>0, <1>8, <1>9, <2>1, FromTheEnd
<1>11. QED
  BY <1>7, <1>10

-----------------------------------------------------------------------------
\* The first position from k on that is not in the set is where its run ends.
LEMMA RunStops ==
    ASSUME NEW n \in Nat, NEW k \in 1..(n + 1), NEW run,
           NEW e, e = Min({j \in k..n : j \notin run} \cup {n + 1})
    PROVE  /\ e \in k..(n + 1)
           /\ \A j \in k..(e - 1) : j \in run
           /\ e <= n => e \notin run
<1> DEFINE T == {j \in k..n : j \notin run} \cup {n + 1}
<1>1. T \in SUBSET Nat /\ T # {} /\ \A j \in T : j \in k..(n + 1)
  OBVIOUS
<1>2. e \in T /\ \A x \in T : e <= x
  <2> HIDE DEF T
  <2>1. Min(T) \in T /\ \A x \in T : Min(T) <= x
    BY <1>1, MinOfNats
  <2>2. QED
    BY <2>1 DEF T
<1>3. e \in k..(n + 1)
  BY <1>1, <1>2
<1>4. ASSUME NEW j \in k..(e - 1), j \notin run
      PROVE  FALSE
  <2>1. j \in T /\ ~(e <= j)
    BY <1>3, <1>4
  <2>2. QED
    BY <1>2, <2>1
<1>5. QED
  BY <1>2, <1>3, <1>4

\* where a run of the class ends that begins at k
EndsAt(n, k, run, e) ==
    /\ e \in k..(n + 1)
    /\ \A j \in k..(e - 1) : j \in run
    /\ e <= n => e \notin run

Letters(cps) == {j \in 1..Len(cps) : IsLetter(cps[j].v)}
Numbers(cps) == {j \in 1..Len(cps) : IsNumber(cps[j].v)}
Blanks(cps) == {j \in 1..Len(cps) : IsSpace(cps[j].v)}
Newlines(cps) == {j \in 1..Len(cps) : IsNewline(cps[j].v)}
Marks(cps) == {j \in 1..Len(cps) : IsC(cps[j].v)}

\* The runs of each class end where RunEnd says.
LEMMA RunEnds ==
    ASSUME NEW cps, Len(cps) \in Nat, NEW k \in 1..(Len(cps) + 1)
    PROVE  /\ EndsAt(Len(cps), k, Letters(cps), RunEnd(cps, k, IsLetter))
           /\ EndsAt(Len(cps), k, Numbers(cps), RunEnd(cps, k, IsNumber))
           /\ EndsAt(Len(cps), k, Blanks(cps), RunEnd(cps, k, IsSpace))
           /\ EndsAt(Len(cps), k, Newlines(cps), RunEnd(cps, k, IsNewline))
           /\ EndsAt(Len(cps), k, Marks(cps), RunEnd(cps, k, IsC))
<1> DEFINE n == Len(cps)
<1>1. \A j \in k..n : j \in 1..n
  OBVIOUS
<1>2. EndsAt(n, k, Letters(cps), RunEnd(cps, k, IsLetter))
  <2>1. {j \in k..n : ~IsLetter(cps[j].v)} = {j \in k..n : j \notin Letters(cps)}
    BY <1>1 DEF Letters
  <2>2. RunEnd(cps, k, IsLetter) = Min({j \in k..n : j \notin Letters(cps)} \cup {n + 1})
    BY <2>1, Zenon DEF RunEnd
  <2>3. QED
    BY <2>2, RunStops DEF EndsAt
<1>3. EndsAt(n, k, Numbers(cps), RunEnd(cps, k, IsNumber))
  <2>1. {j \in k..n : ~IsNumber(cps[j].v)} = {j \in k..n : j \notin Numbers(cps)}
    BY <1>1 DEF Numbers
  <2>2. RunEnd(cps, k, IsNumber) = Min({j \in k..n : j \notin Numbers(cps)} \cup {n + 1})
    BY <2>1, Zenon DEF RunEnd
  <2>3. QED
    BY <2>2, RunStops DEF EndsAt
<1>4. EndsAt(n, k, Blanks(cps), RunEnd(cps, k, IsSpace))
  <2>1. {j \in k..n : ~IsSpace(cps[j].v)} = {j \in k..n : j \notin Blanks(cps)}
    BY <1>1 DEF Blanks
  <2>2. RunEnd(cps, k, IsSpace) = Min({j \in k..n : j \notin Blanks(cps)} \cup {n + 1})
    BY <2>1, Zenon DEF RunEnd
  <2>3. QED
    BY <2>2, RunStops DEF EndsAt
<1>5. EndsAt(n, k, Newlines(cps), RunEnd(cps, k, IsNewline))
  <2>1. {j \in k..n : ~IsNewline(cps[j].v)} = {j \in k..n : j \notin Newlines(cps)}
    BY <1>1 DEF Newlines
  <2>2. RunEnd(cps, k, IsNewline) = Min({j \in k..n : j \notin Newlines(cps)} \cup {n + 1})
    BY <2>1, Zenon DEF RunEnd
  <2>3. QED
    BY <2>2, RunStops DEF EndsAt
<1>6. EndsAt(n, k, Marks(cps), RunEnd(cps, k, IsC))
  <2>1. {j \in k..n : ~IsC(cps[j].v)} = {j \in k..n : j \notin Marks(cps)}
    BY <1>1 DEF Marks
  <2>2. RunEnd(cps, k, IsC) = Min({j \in k..n : j \notin Marks(cps)} \cup {n + 1})
    BY <2>1, Zenon DEF RunEnd
  <2>3. QED
    BY <2>2, RunStops DEF EndsAt
<1>7. QED
  BY <1>2, <1>3, <1>4, <1>5, <1>6

\* Every alternative fails or matches at least one code point, and none beyond the last.
Tried(n, i, e) == e = 0 \/ e \in (i + 1)..(n + 1)

\* Each of the seven alternatives fails, or matches at least one code point and
\* none beyond the last.
LEMMA AlternativesStay ==
    ASSUME NEW cps, Len(cps) \in Nat, NEW i \in 1..Len(cps)
    PROVE  /\ Tried(Len(cps), i, Contraction(cps, i))
           /\ Tried(Len(cps), i, Word(cps, i))
           /\ Tried(Len(cps), i, Number(cps, i))
           /\ Tried(Len(cps), i, Punctuation(cps, i))
           /\ Tried(Len(cps), i, LineBreaks(cps, i))
           /\ Tried(Len(cps), i, SpacesApart(cps, i))
           /\ Tried(Len(cps), i, Spaces(cps, i))
<1> DEFINE n == Len(cps)
<1>0. n \in Nat /\ i \in 1..n /\ i \in 1..(n + 1) /\ i + 1 \in 1..(n + 1)
  OBVIOUS
<1>1. Tried(n, i, Contraction(cps, i))
  <2> DEFINE is(j, c) == j <= n /\ AsciiCaseEq(cps[j].v, c)
  <2>1. CASE \E c \in Suffixes1 : is(i + 1, c)
    <3>1. i + 1 <= n /\ Contraction(cps, i) \in {0, i + 2}
      BY <2>1 DEF Contraction
    <3>2. QED
      BY <1>0, <3>1 DEF Tried
  <2>2. CASE ~(\E c \in Suffixes1 : is(i + 1, c))
    <3>1. CASE \E c \in Suffixes2 : is(i + 1, c[1]) /\ is(i + 2, c[2])
      <4>1. i + 2 <= n /\ Contraction(cps, i) \in {0, i + 3}
        BY <2>2, <3>1 DEF Contraction
      <4>2. QED
        BY <1>0, <4>1 DEF Tried
    <3>2. CASE ~(\E c \in Suffixes2 : is(i + 1, c[1]) /\ is(i + 2, c[2]))
      <4>1. Contraction(cps, i) = 0
        BY <2>2, <3>2 DEF Contraction
      <4>2. QED
        BY <4>1 DEF Tried
    <3>3. QED
      BY <3>1, <3>2
  <2>3. QED
    BY <2>1, <2>2
<1>2. Tried(n, i, Word(cps, i))
  <2>1. RunEnd(cps, i + 1, IsLetter) \in (i + 1)..(n + 1)
    BY <1>0, RunEnds DEF EndsAt
  <2>2. QED
    BY <2>1 DEF Tried, Word
<1>3. Tried(n, i, Number(cps, i))
  <2> DEFINE e == RunEnd(cps, i + 1, IsNumber)
  <2>1. e \in (i + 1)..(n + 1)
    BY <1>0, RunEnds DEF EndsAt
  <2> HIDE DEF e
  <2>2. Min({e, i + 3}) \in {e, i + 3} /\ Min({e, i + 3}) <= e
    <3>1. {e, i + 3} \in SUBSET Nat /\ {e, i + 3} # {} /\ e \in {e, i + 3}
      BY <1>0, <2>1
    <3>2. QED
      BY <3>1, MinOfNats
  <2>3. Min({e, i + 3}) \in (i + 1)..(n + 1)
    BY <1>0, <2>1, <2>2
  <2>4. QED
    BY <2>3 DEF Tried, Number, e
<1>4. Tried(n, i, Punctuation(cps, i))
  <2> DEFINE k == IF IsSpace(cps[i].v) THEN i + 1 ELSE i
             m == RunEnd(cps, k, IsC)
             e == RunEnd(cps, m, IsNewline)
  <2>1. k \in i..(i + 1) /\ k \in 1..(n + 1)
    BY <1>0
  <2> HIDE DEF k
  <2>2. CASE k <= n /\ IsC(cps[k].v)
    <3>1. k \in Marks(cps)
      BY <2>1, <2>2 DEF Marks
    <3>2. EndsAt(n, k, Marks(cps), m)
      BY <2>1, RunEnds
    <3>3. m \in (k + 1)..(n + 1)
      BY <1>0, <2>1, <2>2, <3>1, <3>2 DEF EndsAt
    <3> HIDE DEF m
    <3>4. m \in 1..(n + 1)
      BY <2>1, <3>3
    <3>5. e \in m..(n + 1)
      BY <3>4, RunEnds DEF EndsAt
    <3>6. e \in (i + 1)..(n + 1)
      BY <1>0, <2>1, <3>3, <3>5
    <3>7. Punctuation(cps, i) = e
      BY <2>2 DEF Punctuation, k, m
    <3>8. QED
      BY <3>6, <3>7 DEF Tried
  <2>3. CASE ~(k <= n /\ IsC(cps[k].v))
    <3>1. Punctuation(cps, i) = 0
      BY <2>3 DEF Punctuation, k
    <3>2. QED
      BY <3>1 DEF Tried
  <2>4. QED
    BY <2>2, <2>3
<1>5. RunEnd(cps, i, IsSpace) \in i..(n + 1)
  BY <1>0, RunEnds DEF EndsAt
<1>6. Tried(n, i, LineBreaks(cps, i))
  <2> DEFINE end == RunEnd(cps, i, IsSpace)
             breaks == {k \in i..(end - 1) : IsNewline(cps[k].v)}
  <2>1. LineBreaks(cps, i) = IF breaks = {} THEN 0 ELSE Max(breaks) + 1
    BY DEF LineBreaks
  <2>2. breaks \in SUBSET (1..n)
    BY <1>0, <1>5
  <2>3. \A x \in breaks : x \in i..n
    BY <1>0, <1>5
  <2> HIDE DEF breaks
  <2>4. CASE breaks = {}
    BY <2>1, <2>4 DEF Tried
  <2>5. CASE breaks # {}
    <3>1. Max(breaks) \in breaks
      BY <1>0, <2>2, <2>5, LatestIsMax
    <3>2. QED
      BY <1>0, <2>1, <2>3, <2>5, <3>1 DEF Tried
  <2>6. QED
    BY <2>4, <2>5
<1>7. Tried(n, i, SpacesApart(cps, i))
  BY <1>0, <1>5 DEF Tried, SpacesApart
<1>8. Tried(n, i, Spaces(cps, i))
  BY <1>0, <1>5 DEF Tried, Spaces
<1>9. QED
  BY <1>1, <1>2, <1>3, <1>4, <1>6, <1>7, <1>8

\* The tries of a chunk: the alternatives in their order, and one code point if they all fail.
Tries(cps, i) ==
    <<Contraction(cps, i), Word(cps, i), Number(cps, i), Punctuation(cps, i),
      LineBreaks(cps, i), SpacesApart(cps, i), Spaces(cps, i), i + 1>>

\* A chunk is that of the first try that matches.
LEMMA FirstTry ==
    ASSUME NEW cps, Len(cps) \in Nat, NEW i \in 1..Len(cps)
    PROVE  \E a \in 1..8 : /\ ChunkEnd(cps, i) = Tries(cps, i)[a]
                           /\ Tries(cps, i)[a] > 0
                           /\ \A b \in 1..8 : b < a => Tries(cps, i)[b] = 0
<1> DEFINE n == Len(cps)
           t == Tries(cps, i)
           T == {a \in DOMAIN t : t[a] > 0}
<1>1. \A a \in 1..7 : Tried(n, i, t[a])
  BY AlternativesStay DEF Tries
<1>2. DOMAIN t = 1..8 /\ t[8] = i + 1
  BY DEF Tries
<1>3. ChunkEnd(cps, i) = t[Min(T)]
  BY Zenon DEF ChunkEnd, Tries
<1> HIDE DEF t
<1>4. \A a \in 1..8 : t[a] = 0 \/ t[a] \in (i + 1)..(n + 1)
  <2>1. \A a \in 1..8 : a = 8 \/ a \in 1..7
    OBVIOUS
  <2>2. i + 1 \in (i + 1)..(n + 1)
    OBVIOUS
  <2>3. QED
    BY <1>1, <1>2, <2>1, <2>2 DEF Tried
<1>5. T \in SUBSET Nat /\ T # {} /\ T \subseteq 1..8
  <2>1. 8 \in T
    BY <1>2
  <2>2. QED
    BY <1>2, <2>1
<1>6. Min(T) \in T /\ \A x \in T : Min(T) <= x
  <2> HIDE DEF T
  <2>1. QED
    BY <1>5, MinOfNats
<1>7. ASSUME NEW b \in 1..8, b < Min(T)
      PROVE  t[b] = 0
  <2>1. b \notin T
    <3> HIDE DEF T
    <3>0. \A x \in T : x \in Int
      BY <1>5
    <3>1. Min(T) \in Int
      BY <1>6, <3>0, Zenon
    <3>2. QED
      BY <1>6, <1>7, <3>1
  <2>2. ~(t[b] > 0)
    BY <1>2, <2>1
  <2>3. QED
    BY <1>4, <2>2
<1>8. Min(T) \in 1..8 /\ t[Min(T)] > 0
  BY <1>2, <1>6
<1> HIDE DEF T
<1>9. QED
  BY <1>3, <1>7, <1>8 DEF t

\* A chunk takes at least one code point and none beyond the last: preTokenize ends.
LEMMA ChunkAdvances ==
    ASSUME NEW cps, Len(cps) \in Nat, NEW i \in 1..Len(cps)
    PROVE  ChunkEnd(cps, i) \in (i + 1)..(Len(cps) + 1)
<1>1. PICK a \in 1..8 : ChunkEnd(cps, i) = Tries(cps, i)[a] /\ Tries(cps, i)[a] > 0
  BY FirstTry
<1>2. \A b \in 1..7 : Tried(Len(cps), i, Tries(cps, i)[b])
  BY AlternativesStay DEF Tries
<1>3. Tries(cps, i)[8] = i + 1
  BY DEF Tries
<1>4. a = 8 \/ a \in 1..7
  OBVIOUS
<1>5. CASE a = 8
  BY <1>1, <1>3, <1>5
<1>6. CASE a \in 1..7
  BY <1>1, <1>2, <1>6 DEF Tried
<1>7. QED
  BY <1>4, <1>5, <1>6

-----------------------------------------------------------------------------
\* the byte that code point j of text starts at, one past the end for the one after the last
ByteOf(text, cps, j) == IF j <= Len(cps) THEN cps[j].off ELSE Len(text) + 1

\* The code points start at ascending bytes, the first at the first byte of the text.
LEMMA BytesAscend ==
    ASSUME NEW text \in Seq(Byte), NEW cps, cps = DecodeCps(text)
    PROVE  /\ Len(cps) \in Nat
           /\ \A j \in 1..(Len(cps) + 1) : ByteOf(text, cps, j) \in 1..(Len(text) + 1)
           /\ \A j, k \in 1..(Len(cps) + 1) : j < k => ByteOf(text, cps, j) < ByteOf(text, cps, k)
           /\ ByteOf(text, cps, 1) = 1
           /\ ByteOf(text, cps, Len(cps) + 1) = Len(text) + 1
<1>1. Decoded(cps, text, 1)
  BY DecodeCpsWalks
<1>2. Len(cps) \in Nat /\ Len(text) \in Nat
  BY <1>1 DEF Decoded
<1>3. \A j \in 1..Len(cps) : cps[j].off \in 1..Len(text)
  BY <1>1 DEF Decoded
<1>4. \A j, k \in 1..Len(cps) : j < k => cps[j].off < cps[k].off
  BY <1>1 DEF Decoded
<1>5. ASSUME NEW j \in 1..(Len(cps) + 1)
      PROVE  ByteOf(text, cps, j) \in 1..(Len(text) + 1)
  <2>1. CASE j <= Len(cps)
    <3>1. j \in 1..Len(cps)
      BY <1>2, <2>1
    <3>2. cps[j].off \in 1..Len(text)
      BY <1>3, <3>1
    <3>3. QED
      BY <1>2, <2>1, <3>2 DEF ByteOf
  <2>2. CASE ~(j <= Len(cps))
    BY <1>2, <2>2 DEF ByteOf
  <2>3. QED
    BY <2>1, <2>2
<1>6. ASSUME NEW j \in 1..(Len(cps) + 1), NEW k \in 1..(Len(cps) + 1), j < k
      PROVE  ByteOf(text, cps, j) < ByteOf(text, cps, k)
  <2>1. j \in 1..Len(cps) /\ j <= Len(cps)
    BY <1>2, <1>6
  <2>2. CASE k <= Len(cps)
    <3>1. k \in 1..Len(cps)
      BY <1>2, <2>2
    <3>2. cps[j].off < cps[k].off
      BY <1>4, <1>6, <2>1, <3>1
    <3>3. QED
      BY <2>1, <2>2, <3>2 DEF ByteOf
  <2>3. CASE ~(k <= Len(cps))
    <3>1. cps[j].off \in 1..Len(text)
      BY <1>3, <2>1
    <3>2. QED
      BY <1>2, <2>1, <2>3, <3>1 DEF ByteOf
  <2>4. QED
    BY <2>2, <2>3
<1>7. ByteOf(text, cps, 1) = 1
  <2>1. CASE 1 > Len(text)
    <3>1. cps = <<>> /\ Len(cps) = 0
      BY <1>1, <2>1 DEF Decoded
    <3>2. Len(text) = 0
      BY <1>2, <2>1
    <3>3. QED
      BY <3>1, <3>2 DEF ByteOf
  <2>2. CASE ~(1 > Len(text))
    <3>1. cps # <<>> /\ cps[1].off = 1 /\ cps \in Seq(CpsOf(text))
      BY <1>1, <1>2, <2>2 DEF Decoded
    <3>2. 1 <= Len(cps)
      BY <3>1
    <3>3. QED
      BY <3>1, <3>2 DEF ByteOf
  <2>3. QED
    BY <2>1, <2>2
<1>8. ByteOf(text, cps, Len(cps) + 1) = Len(text) + 1
  BY <1>2 DEF ByteOf
<1>9. QED
  BY <1>2, <1>5, <1>6, <1>7, <1>8

\* The chunks of a text are stretches of it that follow one another from its
\* first byte to its last: each byte is in one chunk, and none is empty.
LEMMA ChunksCover ==
    ASSUME NEW text \in Seq(Byte)
    PROVE  /\ PreTokenize(text) \in Seq(Seq(Byte))
           /\ FlattenSeq(PreTokenize(text)) = text
           /\ \A n \in 1..Len(PreTokenize(text)) : PreTokenize(text)[n] # <<>>
<1> DEFINE cps == DecodeCps(text)
           N == Len(cps)
           byte(j) == ByteOf(text, cps, j)
           Chunk(i) == SubSeq(text, byte(i), byte(ChunkEnd(cps, i)) - 1)
           Step(f) == [i \in 1..(Len(cps) + 1) |->
                          IF i > Len(cps) THEN <<>>
                          ELSE LET j == ChunkEnd(cps, i)
                               IN <<SubSeq(text, ByteOf(text, cps, i), ByteOf(text, cps, j) - 1)>> \o f[j]]
           from == CHOOSE f : f = Step(f)
           head == [i \in 1..N |-> <<Chunk(i)>>]
           next == [i \in 1..N |-> ChunkEnd(cps, i)]
           S == Seq(Byte) \ {<<>>}
<1>0. PreTokenize(text) = from[1]
  BY Zenon DEF PreTokenize, ByteOf
<1>1. /\ N \in Nat
      /\ \A j \in 1..(N + 1) : byte(j) \in 1..(Len(text) + 1)
      /\ \A j, k \in 1..(N + 1) : j < k => byte(j) < byte(k)
      /\ byte(1) = 1
      /\ byte(N + 1) = Len(text) + 1
  <2> HIDE DEF cps
  <2>1. cps = DecodeCps(text)
    BY DEF cps
  <2>2. QED
    BY <2>1, BytesAscend
<1> HIDE DEF cps, N, byte
<1>2. \A i \in 1..N : ChunkEnd(cps, i) \in (i + 1)..(N + 1)
  BY <1>1, ChunkAdvances DEF N
<1>3. ASSUME NEW i \in 1..N
      PROVE  /\ byte(i) \in 1..(Len(text) + 1)
             /\ byte(ChunkEnd(cps, i)) \in (byte(i) + 1)..(Len(text) + 1)
             /\ Chunk(i) \in S
  <2> DEFINE j == ChunkEnd(cps, i)
  <2>1. i \in 1..(N + 1) /\ j \in 1..(N + 1) /\ i < j
    BY <1>1, <1>2
  <2> HIDE DEF j
  <2>2. byte(i) \in 1..(Len(text) + 1) /\ byte(j) \in 1..(Len(text) + 1) /\ byte(i) < byte(j)
    BY <1>1, <2>1
  <2>3. byte(j) \in (byte(i) + 1)..(Len(text) + 1)
    BY <2>2
  <2>4. SubSeq(text, byte(i), byte(j) - 1) \in Seq(Byte) /\ Len(SubSeq(text, byte(i), byte(j) - 1)) > 0
    <3> DEFINE a == byte(i)
               b == byte(j) - 1
    <3>1. a \in 1..Len(text) /\ b \in a..Len(text) /\ Len(text) \in Nat
      BY <2>2, <2>3
    <3> HIDE DEF a, b
    <3>2. \A x \in a..b : text[x] \in Byte
      BY <3>1
    <3>3. a \in Int /\ b \in Int
      BY <3>1
    <3>4. SubSeq(text, a, b) \in Seq(Byte) /\ Len(SubSeq(text, a, b)) = b - a + 1
      BY <3>1, <3>2, <3>3, SubSeqProperties
    <3>5. QED
      BY <3>1, <3>4 DEF a, b
  <2> DEFINE c == SubSeq(text, byte(i), byte(j) - 1)
  <2>5. c \in S
    <3>1. Len(<<>>) = 0
      OBVIOUS
    <3> HIDE DEF c
    <3>2. c \in Seq(Byte) /\ Len(c) > 0
      BY <2>4 DEF c
    <3>3. QED
      BY <3>1, <3>2
  <2>6. Chunk(i) = c
    BY DEF j
  <2> HIDE DEF c, S, Chunk
  <2>7. QED
    BY <2>2, <2>3, <2>5, <2>6 DEF j
<1>4. next \in [1..N -> 1..(N + 1)] /\ \A i \in 1..N : i < next[i]
  <2>1. \A i \in 1..N : ChunkEnd(cps, i) \in 1..(N + 1) /\ i < ChunkEnd(cps, i)
    BY <1>1, <1>2
  <2>2. QED
    BY <2>1
<1>5. head \in [1..N -> Seq(S)]
  <2> HIDE DEF S, Chunk
  <2>1. \A i \in 1..N : <<Chunk(i)>> \in Seq(S)
    BY <1>3
  <2>2. QED
    BY <2>1
<1>6. \E f : f = Step(f)
  <2>1. PICK f \in [1..(N + 1) -> Seq(S)] : IsJoin(f, 1, N, head, next)
    <3> HIDE DEF head, next, S
    <3>1. QED
      BY <1>1, <1>4, <1>5, JoinExists
  <2>2. \A i \in 1..(N + 1) : f[i] = Step(f)[i]
    <3>1. SUFFICES ASSUME NEW i \in 1..(N + 1)
                   PROVE  f[i] = Step(f)[i]
      OBVIOUS
    <3>2. f[i] = IF i > N THEN <<>> ELSE head[i] \o f[next[i]]
      BY <2>1 DEF IsJoin
    <3>3. Step(f)[i] = IF i > N THEN <<>> ELSE <<Chunk(i)>> \o f[ChunkEnd(cps, i)]
      BY DEF N, byte
    <3>4. CASE i > N
      BY <3>2, <3>3, <3>4
    <3>5. CASE ~(i > N)
      <4>1. i \in 1..N
        BY <1>1, <3>5
      <4>2. head[i] = <<Chunk(i)>> /\ next[i] = ChunkEnd(cps, i)
        BY <4>1
      <4> HIDE DEF head, next, Step
      <4>3. QED
        BY <3>2, <3>3, <3>5, <4>2
    <3>6. QED
      BY <3>4, <3>5
  <2>3. f = Step(f)
    BY <2>2 DEF N
  <2> HIDE DEF Step
  <2>4. QED
    BY <2>3
<1>7. from = Step(from)
  <2> HIDE DEF Step
  <2>1. QED
    BY <1>6
<1>8. \A i \in 1..(N + 1) : from[i] = IF i > N THEN <<>> ELSE <<Chunk(i)>> \o from[ChunkEnd(cps, i)]
  <2> HIDE DEF from
  <2>1. QED
    BY <1>7 DEF N, byte
<1> HIDE DEF from, Step, Chunk, S
<1> DEFINE Rest(i) == SubSeq(text, byte(i), Len(text))
           Good == {i \in 1..(N + 1) : from[i] \in Seq(S) /\ FlattenSeq(from[i]) = Rest(i)}
<1>s. \A q \in Seq(S) : q \in Seq(Seq(Byte)) /\ \A n \in 1..Len(q) : q[n] # <<>>
  <2>1. SUFFICES ASSUME NEW q \in Seq(S)
                 PROVE  q \in Seq(Seq(Byte)) /\ \A n \in 1..Len(q) : q[n] # <<>>
    OBVIOUS
  <2>2. S \subseteq Seq(Byte)
    BY DEF S
  <2>3. q \in Seq(Seq(Byte))
    BY <2>2, SeqMonotonic
  <2>4. \A n \in 1..Len(q) : q[n] \in S
    OBVIOUS
  <2>5. QED
    BY <2>3, <2>4 DEF S
<1>9. N + 1 \in Good
  <2>1. N + 1 \in 1..(N + 1) /\ N + 1 > N
    BY <1>1
  <2>2. from[N + 1] = <<>>
    BY <1>8, <2>1
  <2>3. <<>> \in Seq(S)
    OBVIOUS
  <2>4. Rest(N + 1) = <<>>
    <3>1. Len(text) < Len(text) + 1 /\ Len(text) \in Int /\ Len(text) + 1 \in Int
      OBVIOUS
    <3>2. QED
      BY <1>1, <3>1, SubSeqEmpty
  <2> HIDE DEF Rest
  <2>5. QED
    BY <2>1, <2>2, <2>3, <2>4, FlattenNone
<1>10. ASSUME NEW i \in 1..N, \A j \in (i + 1)..(N + 1) : j \in Good
       PROVE  i \in Good
  <2> DEFINE j == ChunkEnd(cps, i)
  <2>1. j \in (i + 1)..(N + 1)
    BY <1>2
  <2>2. i \in 1..(N + 1) /\ ~(i > N)
    BY <1>1
  <2>3. from[i] = <<Chunk(i)>> \o from[j]
    BY <1>8, <2>2
  <2>4. Chunk(i) = SubSeq(text, byte(i), byte(j) - 1)
    BY DEF Chunk
  <2>5. byte(i) \in 1..(Len(text) + 1) /\ byte(j) \in byte(i)..(Len(text) + 1)
    <3>1. byte(i) \in 1..(Len(text) + 1) /\ byte(j) \in (byte(i) + 1)..(Len(text) + 1)
      BY <1>3
    <3> HIDE DEF j
    <3>2. QED
      BY <3>1
  <2> HIDE DEF j
  <2>6. from[j] \in Seq(S) /\ FlattenSeq(from[j]) = Rest(j)
    BY <1>10, <2>1
  <2>7. from[i] \in Seq(S)
    <3>1. Chunk(i) \in S
      BY <1>3
    <3>2. QED
      BY <2>3, <2>6, <3>1
  <2>8. Chunk(i) \o Rest(j) = Rest(i)
    <3> DEFINE a == byte(i)
               b == byte(j)
    <3>1. a \in 1..(Len(text) + 1) /\ b \in a..(Len(text) + 1)
      BY <2>5
    <3> HIDE DEF a, b
    <3>2. SubSeq(text, a, b - 1) \o SubSeq(text, b, Len(text)) = SubSeq(text, a, Len(text))
      BY <3>1, Stretches
    <3>3. QED
      BY <2>4, <3>2 DEF a, b
  <2>9. FlattenSeq(<<Chunk(i)>> \o from[j]) = Chunk(i) \o FlattenSeq(from[j])
    <3>1. Chunk(i) \in Seq(Byte) /\ from[j] \in Seq(Seq(Byte))
      BY <1>3, <1>s, <2>6 DEF S
    <3>2. QED
      BY <3>1, FlattenCons
  <2> HIDE DEF Rest
  <2>10. FlattenSeq(from[i]) = Rest(i)
    BY <2>3, <2>6, <2>8, <2>9
  <2>11. QED
    BY <2>2, <2>7, <2>10
<1>11. 1 \in Good
  <2>1. 1 \in 1..(N + 1)
    BY <1>1
  <2> HIDE DEF Good
  <2>2. QED
    BY <1>1, <1>9, <1>10, <2>1, FromTheEnd
<1>12. Rest(1) = text
  BY <1>1
<1>13. QED
  BY <1>0, <1>s, <1>11, <1>12

-----------------------------------------------------------------------------
ByteCps == Range(ByteToCp)

\* a byte, or what a merge makes
Pieces == {p \in Seq(ByteCps) \ {<<>>} :
    Len(p) = 1 \/ \E n \in DOMAIN MergesFile : p = MergesFile[n][1] \o MergesFile[n][2]}

\* merging the pair at k
MergedAt(word, k) ==
    SubSeq(word, 1, k - 1) \o <<word[k] \o word[k + 1]>> \o SubSeq(word, k + 2, Len(word))

\* The rank of a merge is a place of the list that holds it, and the last of them.
LEMMA RankIs ==
    ASSUME NEW l, NEW r, IsMerge(l, r)
    PROVE  Rank(l, r) \in 1..Len(MergesFile) /\ MergesFile[Rank(l, r)] = <<l, r>>
           /\ \A n \in 1..Len(MergesFile) : MergesFile[n] = <<l, r>> => n <= Rank(l, r)
<1> DEFINE T == {n \in DOMAIN MergesFile : MergesFile[n] = <<l, r>>}
<1>1. DOMAIN MergesFile = 1..Len(MergesFile) /\ Len(MergesFile) \in Nat
  BY MergesAreAList
<1>2. T \in SUBSET (1..Len(MergesFile)) /\ T # {}
  BY <1>1 DEF IsMerge
<1>3. Rank(l, r) = Max(T)
  BY DEF Rank
<1>4. Max(T) \in T /\ \A n \in T : n <= Max(T)
  <2> HIDE DEF T
  <2>1. QED
    BY <1>1, <1>2, LatestIsMax
<1>5. QED
  BY <1>1, <1>2, <1>3, <1>4

PairsOf(word) == {k \in 1..(Len(word) - 1) : IsMerge(word[k], word[k + 1])}

\* The pair merged next is a merge, has the lowest rank and is the leftmost of that rank.
LEMMA BestPairIs ==
    ASSUME NEW word, Len(word) \in Nat
    PROVE  /\ PairsOf(word) = {} => BestPair(word) = 0
           /\ PairsOf(word) # {} =>
                /\ BestPair(word) \in PairsOf(word)
                /\ \A k \in PairsOf(word) :
                    LET rank(j) == Rank(word[j], word[j + 1])
                    IN rank(BestPair(word)) < rank(k)
                       \/ (rank(BestPair(word)) = rank(k) /\ BestPair(word) <= k)
<1> DEFINE pairs == PairsOf(word)
           rank(j) == Rank(word[j], word[j + 1])
           low == {k \in pairs : \A other \in pairs : rank(k) <= rank(other)}
<1>1. BestPair(word) = IF pairs = {} THEN 0 ELSE Min(low)
  BY DEF BestPair, PairsOf
<1>2. \A k \in pairs : k \in 1..(Len(word) - 1) /\ rank(k) \in Nat
  <2>1. SUFFICES ASSUME NEW k \in pairs
                 PROVE  k \in 1..(Len(word) - 1) /\ rank(k) \in Nat
    OBVIOUS
  <2>2. k \in 1..(Len(word) - 1) /\ IsMerge(word[k], word[k + 1])
    BY DEF PairsOf
  <2>3. rank(k) \in 1..Len(MergesFile)
    BY <2>2, RankIs
  <2>4. QED
    BY <2>2, <2>3
<1> HIDE DEF rank, pairs
<1>3. CASE pairs # {}
  <2> DEFINE R == {rank(k) : k \in pairs}
  <2>1. PICK r \in R : \A s \in R : r <= s
    <3>1. R \in SUBSET Nat /\ R # {}
      BY <1>2, <1>3
    <3> HIDE DEF R
    <3>2. QED
      BY <3>1, LeastNat
  <2>2. PICK k \in pairs : rank(k) = r
    BY <2>1
  <2>3. k \in low
    BY <2>1, <2>2
  <2>4. low \in SUBSET Nat /\ low # {}
    BY <1>2, <2>3
  <2>5. Min(low) \in low /\ \A x \in low : Min(low) <= x
    <3> HIDE DEF low
    <3>1. QED
      BY <2>4, MinOfNats
  <2> DEFINE m == Min(low)
  <2>6. m \in pairs /\ \A other \in pairs : rank(m) <= rank(other)
    BY <2>5
  <2>7. m = BestPair(word)
    BY <1>1, <1>3
  <2>8. ASSUME NEW j \in pairs
        PROVE  rank(m) < rank(j) \/ (rank(m) = rank(j) /\ m <= j)
    <3> HIDE DEF m
    <3>1. rank(m) <= rank(j) /\ rank(m) \in Nat /\ rank(j) \in Nat
      BY <1>2, <2>6, <2>8
    <3>2. CASE rank(m) = rank(j)
      <4>1. j \in low
        BY <2>6, <2>8, <3>2
      <4>2. QED
        BY <2>5, <3>2, <4>1 DEF m
    <3>3. QED
      BY <3>1, <3>2
  <2> HIDE DEF m, low
  <2>9. QED
    BY <1>3, <2>6, <2>7, <2>8 DEF pairs, rank
<1>4. QED
  BY <1>1, <1>3 DEF pairs

\* Two elements appended one by one or together.
LEMMA TwoMore ==
    ASSUME NEW S, NEW a \in Seq(S), NEW x \in S, NEW y \in S
    PROVE  (a \o <<x>>) \o <<y>> = a \o <<x, y>>
<1>1. a \o <<x, y>> = Append(Append(a, x), y)
  OBVIOUS
<1>2. Append(a, x) = a \o <<x>> /\ Append(a, x) \in Seq(S)
  BY AppendIsConcat, AppendProperties
<1>3. Append(Append(a, x), y) = Append(a, x) \o <<y>>
  BY <1>2, AppendIsConcat
<1>4. QED
  BY <1>1, <1>2, <1>3

\* A merge shortens the word by one and leaves its code points in order.
LEMMA MergeKeeps ==
    ASSUME NEW word \in Seq(Pieces), NEW k \in PairsOf(word)
    PROVE  /\ MergedAt(word, k) \in Seq(Pieces)
           /\ Len(MergedAt(word, k)) = Len(word) - 1
           /\ FlattenSeq(MergedAt(word, k)) = FlattenSeq(word)
<1> DEFINE a == SubSeq(word, 1, k - 1)
           p == word[k] \o word[k + 1]
           z == SubSeq(word, k + 2, Len(word))
           V == Seq(ByteCps)
<1>1. /\ Len(word) \in Nat /\ k \in 1..(Len(word) - 1) /\ k + 1 \in 1..Len(word) /\ k \in 1..Len(word)
      /\ IsMerge(word[k], word[k + 1])
      /\ word[k] \in Pieces /\ word[k + 1] \in Pieces
  BY DEF PairsOf
<1>2. Pieces \subseteq V /\ word \in Seq(V)
  <2>1. Pieces \subseteq V
    BY DEF Pieces
  <2> HIDE DEF V
  <2>2. QED
    BY <2>1, SeqMonotonic
<1>3. word[k] \in V /\ word[k + 1] \in V /\ word[k] # <<>>
  BY <1>1, <1>2 DEF Pieces
<1>4. p \in Pieces
  <2>1. \E n \in DOMAIN MergesFile : MergesFile[n] = <<word[k], word[k + 1]>>
    BY <1>1 DEF IsMerge
  <2>2. \E n \in DOMAIN MergesFile : p = MergesFile[n][1] \o MergesFile[n][2]
    <3>1. PICK n \in DOMAIN MergesFile : MergesFile[n] = <<word[k], word[k + 1]>>
      BY <2>1
    <3>2. MergesFile[n][1] = word[k] /\ MergesFile[n][2] = word[k + 1]
      BY <3>1
    <3>3. QED
      BY <3>2
  <2>3. p \in Seq(ByteCps) /\ p # <<>>
    <3> DEFINE x == word[k]
               y == word[k + 1]
    <3>1. x \in Seq(ByteCps) /\ y \in Seq(ByteCps) /\ x # <<>>
      BY <1>3
    <3> HIDE DEF x, y
    <3>2. x \o y \in Seq(ByteCps) /\ x \o y # <<>>
      BY <3>1
    <3>3. QED
      BY <3>2 DEF x, y
  <2> HIDE DEF p
  <2>4. QED
    BY <2>2, <2>3 DEF Pieces
<1>5. /\ a \in Seq(Pieces) /\ Len(a) = k - 1
      /\ z \in Seq(Pieces) /\ Len(z) = Len(word) - k - 1
  <2>1. \A i \in 1..(k - 1) : word[i] \in Pieces
    BY <1>1
  <2>2. \A i \in (k + 2)..Len(word) : word[i] \in Pieces
    BY <1>1
  <2>3. k - 1 \in Int /\ k + 2 \in Int /\ Len(word) \in Int
    BY <1>1
  <2>4. a \in Seq(Pieces) /\ Len(a) = IF 1 <= k - 1 THEN k - 1 ELSE 0
    BY <2>1, <2>3, SubSeqProperties
  <2>5. z \in Seq(Pieces) /\ Len(z) = IF k + 2 <= Len(word) THEN Len(word) - (k + 2) + 1 ELSE 0
    BY <2>2, <2>3, SubSeqProperties
  <2>6. QED
    BY <1>1, <2>4, <2>5
<1>6. MergedAt(word, k) = a \o <<p>> \o z
  BY DEF MergedAt
<1> DEFINE x == word[k]
           y == word[k + 1]
<1>w. word = (a \o <<x, y>>) \o z
  <2>1. SubSeq(word, 1, k + 1) \o z = word
    <3>1. k + 1 \in (1 - 1)..Len(word) /\ 1 \in 1..(Len(word) + 1) /\ Len(word) \in (k + 1)..Len(word) /\ (k + 1) + 1 = k + 2
      BY <1>1
    <3>2. SubSeq(word, 1, k + 1) \o SubSeq(word, (k + 1) + 1, Len(word)) = SubSeq(word, 1, Len(word))
      BY <3>1, ConcatAdjacentSubSeq
    <3>3. SubSeq(word, 1, Len(word)) = word
      BY SubSeqFull
    <3>4. QED
      BY <3>1, <3>2, <3>3
  <2>2. SubSeq(word, 1, k + 1) = a \o <<x, y>>
    <3>1. SubSeq(word, 1, k) = a \o <<x>>
      <4>1. k \in 1..Len(word) /\ 1 \in 1..Len(word) /\ k \in 1..Len(word)
        BY <1>1
      <4>2. QED
        BY <4>1, SubSeqRecursiveSecond
    <3>2. SubSeq(word, 1, k + 1) = SubSeq(word, 1, k) \o <<y>>
      <4>1. k + 1 \in 1..Len(word) /\ 1 \in 1..Len(word) /\ (k + 1) - 1 = k
        BY <1>1
      <4>2. SubSeq(word, 1, k + 1) = SubSeq(word, 1, (k + 1) - 1) \o <<word[k + 1]>>
        BY <4>1, SubSeqRecursiveSecond
      <4>3. QED
        BY <4>1, <4>2
    <3>3. (a \o <<x>>) \o <<y>> = a \o <<x, y>>
      <4>1. x \in Pieces /\ y \in Pieces
        BY <1>1
      <4>2. a \in Seq(Pieces)
        BY <1>5
      <4> HIDE DEF a, x, y
      <4>3. QED
        BY <4>1, <4>2, TwoMore
    <3>4. QED
      BY <3>1, <3>2, <3>3
  <2>3. QED
    BY <2>1, <2>2
<1>v. x \in V /\ y \in V /\ x \in Pieces /\ y \in Pieces
  BY <1>1, <1>3
<1> HIDE DEF a, p, z, x, y
<1>7. a \o <<p>> \o z \in Seq(Pieces) /\ Len(a \o <<p>> \o z) = Len(word) - 1
  BY <1>1, <1>4, <1>5
<1>8. FlattenSeq(a \o <<p>> \o z) = FlattenSeq((a \o <<x, y>>) \o z)
  <2>1. a \in Seq(V) /\ z \in Seq(V) /\ p \in V
    <3> HIDE DEF V
    <3>1. QED
      BY <1>2, <1>4, <1>5, SeqMonotonic
  <2>2. /\ <<p>> \in Seq(V) /\ <<x, y>> \in Seq(V) /\ <<x>> \in Seq(V)
        /\ a \o <<p>> \in Seq(V) /\ a \o <<x, y>> \in Seq(V) /\ a \o <<x>> \in Seq(V)
        /\ a \o <<p>> = Append(a, p) /\ a \o <<x, y>> = Append(Append(a, x), y)
        /\ Append(a, x) \in Seq(V)
    <3> HIDE DEF V
    <3>1. QED
      BY <1>v, <2>1
  <2>3. /\ FlattenSeq(a \o <<p>>) = FlattenSeq(a) \o p
        /\ FlattenSeq(a \o <<x, y>>) = (FlattenSeq(a) \o x) \o y
        /\ FlattenSeq(a) \in Seq(ByteCps)
    BY <1>v, <2>1, <2>2, FlattenAppends
  <2>4. FlattenSeq(a) \o p = (FlattenSeq(a) \o x) \o y
    <3>1. FlattenSeq(a) \in Seq(ByteCps) /\ x \in Seq(ByteCps) /\ y \in Seq(ByteCps)
      BY <1>v, <2>3
    <3>2. (FlattenSeq(a) \o x) \o y = FlattenSeq(a) \o (x \o y)
      BY <3>1, ConcatAssociative
    <3>3. QED
      BY <3>2 DEF p, x, y
  <2>5. FlattenSeq(a \o <<p>>) = FlattenSeq(a \o <<x, y>>)
    BY <2>3, <2>4
  <2>6. /\ FlattenSeq((a \o <<p>>) \o z) = FlattenSeq(a \o <<p>>) \o FlattenSeq(z)
        /\ FlattenSeq((a \o <<x, y>>) \o z) = FlattenSeq(a \o <<x, y>>) \o FlattenSeq(z)
    BY <2>1, <2>2, FlattenJoins
  <2>7. QED
    BY <2>5, <2>6
<1>9. QED
  BY <1>6, <1>7, <1>8, <1>w

\* the n-th word of the loop
Merging(after, word) ==
    /\ after[0] = word
    /\ \A n \in 1..Len(word) : after[n] = MergedOnce(after[n - 1])

Iterates(g, V, base, step) ==
    g \in [Nat -> V] /\ g[0] = base /\ \A i \in Nat : g[i + 1] = step[g[i]]

\* A step can be repeated any number of times.
LEMMA IterateExists ==
    ASSUME NEW V, NEW base \in V, NEW step \in [V -> V]
    PROVE  \E g : Iterates(g, V, base, step)
  BY IterationExists DEF Iterates

\* bpeMerge repeats the merge of the best pair.
LEMMA BpeMergeIterates ==
    ASSUME NEW word \in Seq(Pieces)
    PROVE  \E after : Merging(after, word) /\ BpeMerge(word) = after[Len(word)]
<1> DEFINE N == Len(word)
           Step(f) == [n \in 0..Len(word) |-> IF n = 0 THEN word ELSE MergedOnce(f[n - 1])]
           after == CHOOSE f : f = Step(f)
           V == Seq(Pieces)
           once == [w \in V |-> MergedOnce(w)]
<1>0. N \in Nat
  OBVIOUS
<1>1. once \in [V -> V]
  <2>1. SUFFICES ASSUME NEW w \in V
                 PROVE  MergedOnce(w) \in V
    OBVIOUS
  <2>2. Len(w) \in Nat
    OBVIOUS
  <2>3. CASE PairsOf(w) = {}
    <3>1. BestPair(w) = 0
      BY <2>2, <2>3, BestPairIs
    <3>2. QED
      BY <3>1 DEF MergedOnce
  <2>4. CASE PairsOf(w) # {}
    <3>1. BestPair(w) \in PairsOf(w)
      BY <2>2, <2>4, BestPairIs
    <3>2. BestPair(w) # 0
      BY <2>2, <3>1 DEF PairsOf
    <3>3. MergedOnce(w) = MergedAt(w, BestPair(w))
      BY <3>2 DEF MergedOnce, MergedAt
    <3>4. QED
      BY <3>1, <3>3, MergeKeeps
  <2>5. QED
    BY <2>3, <2>4
<1>2. \E f : f = Step(f)
  <2>1. PICK g \in [Nat -> V] : g[0] = word /\ \A i \in Nat : g[i + 1] = once[g[i]]
    <3> DEFINE base == word
    <3>1. base \in V
      OBVIOUS
    <3> HIDE DEF V, once, base
    <3>2. \E g : Iterates(g, V, base, once)
      BY <1>1, <3>1, IterateExists, Zenon
    <3>3. PICK g : Iterates(g, V, base, once)
      BY <3>2
    <3>4. g \in [Nat -> V] /\ g[0] = base /\ \A i \in Nat : g[i + 1] = once[g[i]]
      BY <3>3 DEF Iterates
    <3>5. QED
      BY <3>4, Zenon DEF base
  <2> DEFINE f == [n \in 0..N |-> g[n]]
  <2>2. \A n \in 0..N : f[n] = IF n = 0 THEN word ELSE MergedOnce(f[n - 1])
    <3>1. SUFFICES ASSUME NEW n \in 0..N, n # 0
                   PROVE  f[n] = MergedOnce(f[n - 1])
      BY <2>1
    <3>2. n - 1 \in Nat /\ n - 1 \in 0..N /\ (n - 1) + 1 = n
      BY <1>0, <3>1
    <3>3. g[n] = once[g[n - 1]] /\ g[n - 1] \in V
      BY <2>1, <3>2
    <3>4. once[g[n - 1]] = MergedOnce(g[n - 1])
      BY <3>3
    <3> HIDE DEF once
    <3>5. QED
      BY <3>1, <3>2, <3>3, <3>4
  <2>3. f = Step(f)
    <3> HIDE DEF N
    <3>1. f = [n \in 0..N |-> f[n]]
      OBVIOUS
    <3> HIDE DEF f
    <3>2. QED
      BY <2>2, <3>1 DEF N
  <2> HIDE DEF Step, f
  <2>4. QED
    BY <2>3
<1>3. after = Step(after)
  <2> HIDE DEF Step
  <2>1. QED
    BY <1>2
<1>4. BpeMerge(word) = after[Len(word)]
  BY DEF BpeMerge
<1>5. Merging(after, word)
  <2> HIDE DEF after
  <2>1. \A n \in 0..N : after[n] = IF n = 0 THEN word ELSE MergedOnce(after[n - 1])
    BY <1>3
  <2>2. QED
    BY <1>0, <2>1 DEF Merging
<1>6. QED
  BY <1>4, <1>5

\* Whatever the merges, the loop ends with a word that has no pair left, and
\* no merge adds or drops a code point.
LEMMA MergesKeepTheBytes ==
    ASSUME NEW word \in Seq(Pieces)
    PROVE  /\ BpeMerge(word) \in Seq(Pieces)
           /\ FlattenSeq(BpeMerge(word)) = FlattenSeq(word)
           /\ PairsOf(BpeMerge(word)) = {}
<1>1. PICK after : Merging(after, word) /\ BpeMerge(word) = after[Len(word)]
  BY BpeMergeIterates
<1> DEFINE N == Len(word)
           Fine(n) == /\ after[n] \in Seq(Pieces)
                      /\ FlattenSeq(after[n]) = FlattenSeq(word)
                      /\ PairsOf(after[n]) = {} \/ Len(after[n]) = N - n
           Good == {n \in 0..N : Fine(n)}
<1>2. N \in Nat
  OBVIOUS
<1>3. 0 \in Good
  BY <1>1, <1>2 DEF Merging
<1>4. ASSUME NEW n \in Good, n < N
      PROVE  n + 1 \in Good
  <2>1. n \in 0..N /\ Fine(n)
    <3> HIDE DEF Fine
    <3>1. QED
      OBVIOUS
  <2>2. n + 1 \in 1..N /\ n + 1 \in 0..N /\ (n + 1) - 1 = n
    BY <1>2, <1>4, <2>1
  <2>3. after[n + 1] = MergedOnce(after[n])
    BY <1>1, <2>2 DEF Merging
  <2> DEFINE w == after[n]
  <2>4. w \in Seq(Pieces) /\ Len(w) \in Nat
    BY <2>1
  <2>5. CASE PairsOf(w) = {}
    <3>1. BestPair(w) = 0
      BY <2>4, <2>5, BestPairIs
    <3>2. after[n + 1] = w
      BY <2>3, <3>1 DEF MergedOnce
    <3>3. Fine(n + 1)
      BY <2>1, <2>5, <3>2
    <3> HIDE DEF Fine
    <3>4. QED
      BY <2>2, <3>3
  <2>6. CASE PairsOf(w) # {}
    <3>1. BestPair(w) \in PairsOf(w)
      BY <2>4, <2>6, BestPairIs
    <3>2. BestPair(w) # 0
      BY <2>4, <3>1 DEF PairsOf
    <3>3. after[n + 1] = MergedAt(w, BestPair(w))
      BY <2>3, <3>2 DEF MergedOnce, MergedAt
    <3>4. /\ after[n + 1] \in Seq(Pieces)
          /\ Len(after[n + 1]) = Len(w) - 1
          /\ FlattenSeq(after[n + 1]) = FlattenSeq(w)
      BY <2>4, <3>1, <3>3, MergeKeeps
    <3>5. Len(w) = N - n
      BY <2>1, <2>6
    <3>6. Fine(n + 1)
      BY <1>2, <2>1, <2>2, <3>4, <3>5
    <3> HIDE DEF Fine
    <3>7. QED
      BY <2>2, <3>6
  <2>7. QED
    BY <2>5, <2>6
<1>5. N \in Good
  <2> HIDE DEF Good
  <2>1. QED
    BY <1>2, <1>3, <1>4, CountUp
<1>6. Fine(N)
  <2> HIDE DEF Fine
  <2>1. QED
    BY <1>5
<1>7. Len(after[N]) = 0 => PairsOf(after[N]) = {}
  BY DEF PairsOf
<1>8. QED
  BY <1>1, <1>2, <1>6, <1>7

-----------------------------------------------------------------------------
\* No two bytes share a code point.
LEMMA ByteCpsDiffer ==
    ASSUME NEW a \in Byte, NEW b \in Byte, a < b
    PROVE  ByteToCp[a] # ByteToCp[b]
<1> DEFINE U(x) == {c \in 0..(x - 1) : ~IsPrinted(c)}
<1>1. \A x \in Byte : ByteToCp[x] = IF IsPrinted(x) THEN x ELSE 256 + Cardinality(U(x))
  BY DEF ByteToCp, Byte
<1>2. \A x \in Byte : IsFiniteSet(U(x)) /\ Cardinality(U(x)) \in Nat
  <2>1. SUFFICES ASSUME NEW x \in Byte
                 PROVE  IsFiniteSet(U(x)) /\ Cardinality(U(x)) \in Nat
    OBVIOUS
  <2>2. IsFiniteSet(0..(x - 1)) /\ U(x) \subseteq 0..(x - 1)
    BY FS_Interval DEF Byte
  <2>3. IsFiniteSet(U(x))
    BY <2>2, FS_Subset
  <2>4. QED
    BY <2>3, FS_CardinalityType
<1>3. CASE ~IsPrinted(a) /\ ~IsPrinted(b)
  <2>1. U(a) \cup {a} \subseteq U(b) /\ a \notin U(a)
    BY <1>3 DEF Byte
  <2> HIDE DEF U
  <2>2. IsFiniteSet(U(a) \cup {a}) /\ Cardinality(U(a) \cup {a}) = Cardinality(U(a)) + 1
    BY <1>2, <2>1, FS_AddElement
  <2>3. Cardinality(U(a) \cup {a}) <= Cardinality(U(b))
    BY <1>2, <2>1, FS_Subset
  <2>4. QED
    BY <1>1, <1>2, <1>3, <2>2, <2>3
<1>4. CASE IsPrinted(a) \/ IsPrinted(b)
  <2> HIDE DEF U
  <2>1. a \in 0..255 /\ b \in 0..255
    BY DEF Byte
  <2>2. /\ ByteToCp[a] = IF IsPrinted(a) THEN a ELSE 256 + Cardinality(U(a))
        /\ ByteToCp[b] = IF IsPrinted(b) THEN b ELSE 256 + Cardinality(U(b))
        /\ Cardinality(U(a)) \in Nat /\ Cardinality(U(b)) \in Nat
    BY <1>1, <1>2
  <2>3. CASE IsPrinted(a) /\ IsPrinted(b)
    BY <2>1, <2>2, <2>3
  <2>4. CASE IsPrinted(a) /\ ~IsPrinted(b)
    BY <2>1, <2>2, <2>4
  <2>5. CASE ~IsPrinted(a) /\ IsPrinted(b)
    BY <2>1, <2>2, <2>5
  <2>6. QED
    BY <1>4, <2>3, <2>4, <2>5
<1>5. QED
  BY <1>3, <1>4

\* The code point of a byte is a number.
LEMMA ByteCpIsNat == \A b \in Byte : ByteToCp[b] \in Nat
<1>1. SUFFICES ASSUME NEW b \in Byte
               PROVE  ByteToCp[b] \in Nat
  OBVIOUS
<1> DEFINE U == {c \in 0..(b - 1) : ~IsPrinted(c)}
<1>2. ByteToCp[b] = IF IsPrinted(b) THEN b ELSE 256 + Cardinality(U)
  BY DEF ByteToCp, Byte
<1>3. IsFiniteSet(U)
  <2>1. IsFiniteSet(0..(b - 1)) /\ U \subseteq 0..(b - 1)
    BY FS_Interval DEF Byte
  <2>2. QED
    BY <2>1, FS_Subset
<1>4. Cardinality(U) \in Nat
  BY <1>3, FS_CardinalityType
<1> HIDE DEF U
<1>5. QED
  BY <1>2, <1>4 DEF Byte

\* The code point of a byte is read as that byte.
LEMMA CpBytesAre ==
    ASSUME NEW b \in Byte
    PROVE  CpBytes(ByteToCp[b]) = <<b>> /\ ByteToCp[b] \in ByteCps
<1>1. ByteToCp[b] \in Range(ByteToCp)
  BY DEF ByteToCp, Range, Byte
<1>2. \A a \in Byte : ByteToCp[a] = ByteToCp[b] => a = b
  <2>1. SUFFICES ASSUME NEW a \in Byte, ByteToCp[a] = ByteToCp[b], a # b
                 PROVE  FALSE
    OBVIOUS
  <2>2. a < b \/ b < a
    BY <2>1 DEF Byte
  <2>3. QED
    BY <2>1, <2>2, ByteCpsDiffer
<1>3. (CHOOSE a \in 0..255 : ByteToCp[a] = ByteToCp[b]) = b
  BY <1>2 DEF Byte
<1>4. QED
  BY <1>1, <1>3 DEF CpBytes, ByteCps

\* A code point of the map stands for a byte.
LEMMA ByteCpsAre ==
    ASSUME NEW cp \in ByteCps
    PROVE  \E b \in Byte : cp = ByteToCp[b]
  BY DEF ByteCps, Range, ByteToCp, Byte

-----------------------------------------------------------------------------
\* the ids a text can be given
Ids == {VocabFile[p] : p \in Pieces \cap DOMAIN VocabFile} \cup {t.id : t \in AddedFile}

bytesOf == [cp \in ByteCps |-> CpBytes(cp)]
read == [id \in Ids |-> IdBytes(id, FALSE)]

\* A code point of the map is read as bytes.
LEMMA BytesOfType == bytesOf \in [ByteCps -> Seq(Byte)]
<1>1. SUFFICES ASSUME NEW cp \in ByteCps
               PROVE  CpBytes(cp) \in Seq(Byte)
  BY DEF bytesOf
<1>2. PICK b \in Byte : cp = ByteToCp[b]
  BY ByteCpsAre
<1>3. QED
  <2>1. CpBytes(ByteToCp[b]) = <<b>>
    BY CpBytesAre
  <2>2. <<b>> \in Seq(Byte)
    OBVIOUS
  <2>3. QED
    BY <1>2, <2>1, <2>2, Zenon

\* A token is read code point by code point.
LEMMA TokenBytesAre ==
    ASSUME NEW p \in Seq(ByteCps)
    PROVE  TokenBytes(p) = Spread(bytesOf, p)
<1>1. \A c \in DOMAIN p : p[c] \in ByteCps
  OBVIOUS
<1>2. [c \in DOMAIN p |-> CpBytes(p[c])] = [c \in DOMAIN p |-> bytesOf[p[c]]]
  BY <1>1 DEF bytesOf
<1>3. QED
  BY <1>2, Zenon DEF TokenBytes, Spread

\* An id of the vocabulary is read as its token.
LEMMA VocabularyIsRead ==
    ASSUME VocabularyServes, NEW p \in DOMAIN VocabFile
    PROVE  IdBytes(VocabFile[p], FALSE) = TokenBytes(p)
<1> DEFINE id == VocabFile[p]
<1>1. /\ id \in 0..(VocabSize - 1)
      /\ \A other \in DOMAIN VocabFile : VocabFile[other] = id => other = p
      /\ \A t \in AddedFile : t.id # id
  BY DEF VocabularyServes
<1>2. {t \in AddedFile : t.id = id} = {}
  BY <1>1
<1>3. VocabById[id] = p /\ id \in DOMAIN VocabById
  <2>1. (CHOOSE t \in DOMAIN VocabFile : VocabFile[t] = id) = p
    BY <1>1
  <2>2. VocabById[id] = IF \E t \in DOMAIN VocabFile : VocabFile[t] = id
                        THEN CHOOSE t \in DOMAIN VocabFile : VocabFile[t] = id ELSE <<>>
    BY <1>1 DEF VocabById
  <2>3. \E t \in DOMAIN VocabFile : VocabFile[t] = id
    OBVIOUS
  <2>4. id \in DOMAIN VocabById
    BY <1>1 DEF VocabById
  <2>5. QED
    BY <2>1, <2>2, <2>3, <2>4
<1> HIDE DEF id
<1>4. IdBytes(id, FALSE) = TokenBytes(p)
  BY <1>2, <1>3, Zenon DEF IdBytes
<1>5. QED
  BY <1>4 DEF id

\* An added token is read as its content.
LEMMA AddedIsRead ==
    ASSUME VocabularyServes, NEW t \in AddedFile
    PROVE  IdBytes(t.id, FALSE) = t.content /\ t.id \in Ids
<1>1. \A u \in AddedFile : u.id = t.id => u = t
  BY DEF VocabularyServes
<1> DEFINE S == {u \in AddedFile : u.id = t.id}
<1>2. S # {} /\ (CHOOSE u \in S : TRUE) = t
  <2>1. S = {t}
    BY <1>1
  <2> HIDE DEF S
  <2>2. QED
    BY <2>1
<1>3. IdBytes(t.id, FALSE) = (CHOOSE u \in S : TRUE).content
  BY <1>2 DEF IdBytes
<1>4. QED
  BY <1>2, <1>3 DEF Ids

\* An id is read as bytes.
LEMMA ReadType ==
    ASSUME VocabularyServes
    PROVE  read \in [Ids -> Seq(Byte)]
<1>1. SUFFICES ASSUME NEW id \in Ids
               PROVE  IdBytes(id, FALSE) \in Seq(Byte)
  BY DEF read
<1>2. CASE \E p \in Pieces \cap DOMAIN VocabFile : id = VocabFile[p]
  <2>1. PICK p \in Pieces \cap DOMAIN VocabFile : id = VocabFile[p]
    BY <1>2
  <2>2. p \in Seq(ByteCps)
    BY DEF Pieces
  <2>3. IdBytes(id, FALSE) = Spread(bytesOf, p)
    BY <2>1, <2>2, VocabularyIsRead, TokenBytesAre
  <2>4. bytesOf \in [ByteCps -> Seq(Byte)]
    BY BytesOfType
  <2> HIDE DEF bytesOf
  <2>5. Spread(bytesOf, p) \in Seq(Byte)
    BY <2>2, <2>4, SpreadType
  <2>6. QED
    BY <2>3, <2>5
<1>3. CASE \E t \in AddedFile : id = t.id
  <2>1. PICK t \in AddedFile : id = t.id
    BY <1>3
  <2>2. IdBytes(id, FALSE) = t.content
    BY <2>1, AddedIsRead
  <2>3. t.content \in Seq(Byte)
    BY DEF VocabularyServes, Byte
  <2>4. QED
    BY <2>2, <2>3
<1>4. QED
  BY <1>2, <1>3 DEF Ids

\* The ids of a piece are read as its bytes, whether it is a token or is spelt.
LEMMA PieceIsRead ==
    ASSUME VocabularyServes, NEW p \in Pieces
    PROVE  /\ PieceIds(p) \in Seq(Ids)
           /\ Spread(read, PieceIds(p)) = Spread(bytesOf, p)
<1>1. p \in Seq(ByteCps) /\ p # <<>>
  BY DEF Pieces
<1>2. ASSUME NEW q \in Pieces \cap DOMAIN VocabFile
      PROVE  /\ VocabFile[q] \in Ids /\ <<VocabFile[q]>> \in Seq(Ids)
             /\ Spread(read, <<VocabFile[q]>>) = Spread(bytesOf, q)
  <2>1. VocabFile[q] \in Ids
    BY DEF Ids
  <2>2. q \in Seq(ByteCps)
    BY DEF Pieces
  <2>3. Spread(read, <<VocabFile[q]>>) = read[VocabFile[q]]
    BY <2>1, ReadType, SpreadOne
  <2>4. read[VocabFile[q]] = IdBytes(VocabFile[q], FALSE)
    BY <2>1 DEF read
  <2>5. IdBytes(VocabFile[q], FALSE) = Spread(bytesOf, q)
    BY <2>2, VocabularyIsRead, TokenBytesAre
  <2>6. <<VocabFile[q]>> \in Seq(Ids)
    BY <2>1
  <2>7. QED
    BY <2>1, <2>3, <2>4, <2>5, <2>6
<1>3. CASE p \in DOMAIN VocabFile
  <2>1. PieceIds(p) = <<VocabFile[p]>>
    BY <1>3 DEF PieceIds
  <2>2. QED
    BY <1>2, <1>3, <2>1
<1>4. ASSUME NEW cp \in ByteCps
      PROVE  <<cp>> \in Pieces \cap DOMAIN VocabFile
  <2>1. PICK b \in Byte : cp = ByteToCp[b]
    BY ByteCpsAre
  <2>2. <<cp>> \in DOMAIN VocabFile
    BY <2>1 DEF VocabularyServes, Byte
  <2>3. <<cp>> \in Seq(ByteCps) /\ <<cp>> # <<>> /\ Len(<<cp>>) = 1
    OBVIOUS
  <2>4. QED
    BY <2>2, <2>3 DEF Pieces
<1>5. CASE p \notin DOMAIN VocabFile
  <2>1. Len(p) # 1
    <3>1. SUFFICES ASSUME Len(p) = 1
                   PROVE  FALSE
      OBVIOUS
    <3>2. p[1] \in ByteCps /\ p = <<p[1]>>
      BY <1>1, <3>1
    <3>3. QED
      BY <1>4, <1>5, <3>2
  <2>2. ~(Last(p) < 128)
    <3>1. PICK n \in DOMAIN MergesFile : p = MergesFile[n][1] \o MergesFile[n][2]
      BY <2>1 DEF Pieces
    <3>2. Last(p) >= 128
      BY <1>5, <3>1 DEF VocabularyServes
    <3>3. Last(p) \in Int
      <4>1. Len(p) \in 1..Len(p) /\ Last(p) = p[Len(p)]
        BY <1>1 DEF Last
      <4>2. Last(p) \in ByteCps
        BY <1>1, <4>1
      <4>3. PICK b \in Byte : Last(p) = ByteToCp[b]
        BY <4>2, ByteCpsAre
      <4>4. QED
        BY <4>3, ByteCpIsNat
    <3>4. QED
      BY <3>2, <3>3
  <2> DEFINE n == Len(p)
             idOf == [c \in 1..n |-> <<VocabFile[<<p[c]>>]>>]
             w == [c \in 1..n |-> bytesOf[p[c]]]
  <2>3. n \in Nat /\ DOMAIN p = 1..n /\ \A c \in 1..n : p[c] \in ByteCps /\ <<p[c]>> \in Pieces \cap DOMAIN VocabFile
    BY <1>1, <1>4
  <2>4. PieceIds(p) = FlattenSeq(idOf)
    <3>1. PieceIds(p) = Spelt(p)
      BY <1>5 DEF PieceIds
    <3>2. Spelt(p) = FlattenSeq([c \in DOMAIN p |->
            IF <<p[c]>> \in DOMAIN VocabFile THEN <<VocabFile[<<p[c]>>]>> ELSE <<>>])
      BY <2>2, Zenon DEF Spelt
    <3>3. [c \in DOMAIN p |-> IF <<p[c]>> \in DOMAIN VocabFile THEN <<VocabFile[<<p[c]>>]>> ELSE <<>>] = idOf
      BY <2>3
    <3>4. QED
      BY <3>1, <3>2, <3>3, Zenon
  <2>5. idOf \in [1..n -> Seq(Ids)]
    BY <1>2, <2>3
  <2>6. w \in [1..n -> Seq(Byte)]
    BY <2>3, BytesOfType
  <2>7. \A c \in 1..n : Spread(read, idOf[c]) = w[c]
    <3>1. SUFFICES ASSUME NEW c \in 1..n
                   PROVE  Spread(read, idOf[c]) = w[c]
      OBVIOUS
    <3>2. Spread(read, <<VocabFile[<<p[c]>>]>>) = Spread(bytesOf, <<p[c]>>)
      BY <1>2, <2>3
    <3>3. Spread(bytesOf, <<p[c]>>) = bytesOf[p[c]]
      BY <2>3, BytesOfType, SpreadOne
    <3>4. QED
      BY <3>2, <3>3
  <2>8. FlattenSeq(w) = Spread(bytesOf, p)
    BY <2>3, Zenon DEF Spread
  <2> HIDE DEF idOf, w, n
  <2>9. Spread(read, FlattenSeq(idOf)) = FlattenSeq(w) /\ FlattenSeq(idOf) \in Seq(Ids)
    <3>1. n \in Nat /\ read \in [Ids -> Seq(Byte)]
      BY <2>3, ReadType
    <3> HIDE DEF read
    <3>2. Spread(read, FlattenSeq(idOf)) = FlattenSeq(w)
      <4>1. SpreadsTo(read, Ids, Byte, idOf, w, n)
        BY <2>5, <2>6, <2>7, <3>1 DEF SpreadsTo
      <4>2. QED
        BY <4>1, SpreadOfParts, Zenon
    <3>3. FlattenSeq(idOf) \in Seq(Ids)
      BY <2>5, <3>1, FlattenType
    <3>4. QED
      BY <3>2, <3>3
  <2>10. QED
    BY <2>4, <2>8, <2>9
<1>6. QED
  BY <1>3, <1>5

\* The ids of a chunk are read as the chunk.
LEMMA ChunkIsRead ==
    ASSUME VocabularyServes, NEW chunk \in Seq(Byte)
    PROVE  /\ EncodeChunk(chunk) \in Seq(Ids)
           /\ Spread(read, EncodeChunk(chunk)) = chunk
<1> DEFINE word == Symbols(chunk)
           pieces == BpeMerge(word)
           n == Len(pieces)
           m == [i \in 1..n |-> PieceIds(pieces[i])]
           w == [i \in 1..n |-> Spread(bytesOf, pieces[i])]
<1>1. Len(chunk) \in Nat /\ DOMAIN chunk = 1..Len(chunk) /\ \A b \in 1..Len(chunk) : chunk[b] \in Byte
  OBVIOUS
<1>2. word \in [1..Len(chunk) -> Pieces] /\ \A b \in 1..Len(chunk) : word[b] = <<ByteToCp[chunk[b]]>>
  <2>1. word = [b \in 1..Len(chunk) |-> <<ByteToCp[chunk[b]]>>]
    BY <1>1 DEF Symbols
  <2> HIDE DEF word
  <2>2. \A b \in 1..Len(chunk) : <<ByteToCp[chunk[b]]>> \in Pieces
    <3>1. SUFFICES ASSUME NEW b \in 1..Len(chunk)
                   PROVE  <<ByteToCp[chunk[b]]>> \in Pieces
      OBVIOUS
    <3> DEFINE cp == ByteToCp[chunk[b]]
    <3>2. cp \in ByteCps
      BY <1>1, CpBytesAre
    <3> HIDE DEF cp
    <3>3. <<cp>> \in Seq(ByteCps) /\ <<cp>> # <<>> /\ Len(<<cp>>) = 1
      BY <3>2
    <3>4. QED
      BY <3>3 DEF Pieces, cp
  <2>3. QED
    BY <2>1, <2>2
<1>3. word \in Seq(Pieces) /\ Len(word) = Len(chunk)
  <2> HIDE DEF word
  <2>1. QED
    BY <1>1, <1>2
<1>4. pieces \in Seq(Pieces) /\ FlattenSeq(pieces) = FlattenSeq(word)
  <2> HIDE DEF word
  <2>1. QED
    BY <1>3, MergesKeepTheBytes
<1> HIDE DEF word, pieces
<1>5. n \in Nat /\ DOMAIN pieces = 1..n /\ \A i \in 1..n : pieces[i] \in Pieces /\ pieces[i] \in Seq(ByteCps)
  <2>1. n \in Nat /\ DOMAIN pieces = 1..n /\ \A i \in 1..n : pieces[i] \in Pieces
    BY <1>4
  <2>2. Pieces \subseteq Seq(ByteCps)
    BY DEF Pieces
  <2>3. QED
    BY <2>1, <2>2
<1>6. EncodeChunk(chunk) = FlattenSeq(m)
  BY <1>5, Zenon DEF EncodeChunk, pieces, word
<1>7. m \in [1..n -> Seq(Ids)] /\ \A i \in 1..n : Spread(read, m[i]) = w[i]
  BY <1>5, PieceIsRead
<1>8. w \in [1..n -> Seq(Byte)]
  BY <1>5, BytesOfType, SpreadType
<1>9. FlattenSeq(w) = Spread(bytesOf, FlattenSeq(pieces))
  <2>1. pieces \in Seq(Seq(ByteCps))
    <3>1. Pieces \subseteq Seq(ByteCps)
      BY DEF Pieces
    <3>2. QED
      BY <1>4, <3>1, SeqMonotonic
  <2>2. Spread(bytesOf, FlattenSeq(pieces)) = FlattenSeq([i \in DOMAIN pieces |-> Spread(bytesOf, pieces[i])])
    BY <2>1, BytesOfType, SpreadFlattens
  <2>3. QED
    BY <1>5, <2>2, Zenon
<1>10. Spread(bytesOf, FlattenSeq(word)) = chunk
  <2> DEFINE k == Len(chunk)
             s == [b \in 1..k |-> <<chunk[b]>>]
  <2>1. word \in [1..k -> Seq(ByteCps)]
    <3>1. Pieces \subseteq Seq(ByteCps)
      BY DEF Pieces
    <3>2. QED
      BY <1>2, <3>1
  <2>2. s \in [1..k -> Seq(Byte)]
    BY <1>1
  <2>3. \A b \in 1..k : Spread(bytesOf, word[b]) = s[b]
    <3>1. SUFFICES ASSUME NEW b \in 1..k
                   PROVE  Spread(bytesOf, word[b]) = s[b]
      OBVIOUS
    <3> DEFINE cp == ByteToCp[chunk[b]]
    <3>2. cp \in ByteCps /\ CpBytes(cp) = <<chunk[b]>>
      BY <1>1, CpBytesAre
    <3>3. word[b] = <<cp>>
      BY <1>2
    <3> HIDE DEF cp
    <3>4. Spread(bytesOf, <<cp>>) = bytesOf[cp]
      BY <3>2, BytesOfType, SpreadOne
    <3>5. QED
      BY <3>2, <3>3, <3>4 DEF bytesOf
  <2>4. FlattenSeq(s) = chunk
    BY <1>1, FlattenSingles
  <2> HIDE DEF s, k
  <2>5. Spread(bytesOf, FlattenSeq(word)) = FlattenSeq(s)
    <3>1. k \in Nat
      BY <1>1 DEF k
    <3>2. bytesOf \in [ByteCps -> Seq(Byte)]
      BY BytesOfType
    <3> HIDE DEF bytesOf
    <3>3. QED
      <4>1. SpreadsTo(bytesOf, ByteCps, Byte, word, s, k)
        BY <2>1, <2>2, <2>3, <3>1, <3>2 DEF SpreadsTo
      <4>2. QED
        BY <4>1, SpreadOfParts, Zenon
  <2>6. QED
    BY <2>4, <2>5
<1> HIDE DEF m, w, n
<1>11. Spread(read, FlattenSeq(m)) = FlattenSeq(w) /\ FlattenSeq(m) \in Seq(Ids)
  <2>1. n \in Nat /\ read \in [Ids -> Seq(Byte)]
    BY <1>5, ReadType
  <2> HIDE DEF read
  <2>2. Spread(read, FlattenSeq(m)) = FlattenSeq(w)
    <3>1. SpreadsTo(read, Ids, Byte, m, w, n)
      BY <1>7, <1>8, <2>1 DEF SpreadsTo
    <3>2. QED
      BY <3>1, SpreadOfParts, Zenon
  <2>3. FlattenSeq(m) \in Seq(Ids)
    BY <1>7, <2>1, FlattenType
  <2>4. QED
    BY <2>2, <2>3
<1>12. QED
  BY <1>4, <1>6, <1>9, <1>10, <1>11

\* The ids of a text without added tokens are read as that text.
LEMMA PlainIsRead ==
    ASSUME VocabularyServes, NEW text \in Seq(Byte)
    PROVE  /\ EncodePlain(text) \in Seq(Ids)
           /\ Spread(read, EncodePlain(text)) = text
<1> DEFINE chunks == PreTokenize(text)
           n == Len(chunks)
           m == [i \in 1..n |-> EncodeChunk(chunks[i])]
<1>1. chunks \in Seq(Seq(Byte)) /\ FlattenSeq(chunks) = text
  BY ChunksCover
<1>2. EncodePlain(text) = FlattenSeq([i \in DOMAIN chunks |-> EncodeChunk(chunks[i])])
  BY DEF EncodePlain
<1> HIDE DEF chunks
<1>3. n \in Nat /\ DOMAIN chunks = 1..n /\ chunks \in [1..n -> Seq(Byte)]
  <2> DEFINE V == Seq(Byte)
  <2>1. chunks \in Seq(V)
    BY <1>1
  <2> HIDE DEF V
  <2>2. n \in Nat /\ DOMAIN chunks = 1..n /\ chunks \in [1..n -> V]
    BY <2>1
  <2>3. QED
    BY <2>2 DEF V
<1>4. m \in [1..n -> Seq(Ids)] /\ \A i \in 1..n : Spread(read, m[i]) = chunks[i]
  BY <1>3, ChunkIsRead
<1>5. EncodePlain(text) = FlattenSeq(m)
  BY <1>2, <1>3, Zenon
<1> HIDE DEF m, n
<1>6. Spread(read, FlattenSeq(m)) = FlattenSeq(chunks) /\ FlattenSeq(m) \in Seq(Ids)
  <2>1. n \in Nat /\ read \in [Ids -> Seq(Byte)]
    BY <1>3, ReadType
  <2> HIDE DEF read
  <2>2. Spread(read, FlattenSeq(m)) = FlattenSeq(chunks)
    <3>1. SpreadsTo(read, Ids, Byte, m, chunks, n)
      BY <1>3, <1>4, <2>1 DEF SpreadsTo
    <3>2. QED
      BY <3>1, SpreadOfParts, Zenon
  <2>3. FlattenSeq(m) \in Seq(Ids)
    BY <1>4, <2>1, FlattenType
  <2>4. QED
    BY <2>2, <2>3
<1>7. QED
  BY <1>1, <1>5, <1>6

-----------------------------------------------------------------------------
\* An added token that walks first is one of those there.
LEMMA FirstAddedIsThere ==
    ASSUME VocabularyServes, NEW here \in SUBSET AddedFile, here # {}, NEW N \in Nat,
           \A t \in here : Len(t.content) <= N
    PROVE  FirstAdded(here) \in here
<1>1. \A t \in here : t.id \in Nat /\ Len(t.content) \in Nat
  <2>1. SUFFICES ASSUME NEW t \in here
                 PROVE  t.id \in Nat /\ Len(t.content) \in Nat
    OBVIOUS
  <2>2. t.id \in Nat /\ t.content \in Seq(0..255)
    BY DEF VocabularyServes
  <2>3. QED
    BY <2>2
<1> DEFINE Gaps == {N - Len(t.content) : t \in here}
<1>2. PICK g \in Gaps : \A h \in Gaps : g <= h
  <2>1. Gaps \in SUBSET Nat /\ Gaps # {}
    BY <1>1
  <2> HIDE DEF Gaps
  <2>2. QED
    BY <2>1, LeastNat
<1> DEFINE longest == {t \in here : g = N - Len(t.content)}
           ids == {t.id : t \in longest}
<1>3. PICK i \in ids : \A j \in ids : i <= j
  <2>1. ids \in SUBSET Nat /\ ids # {}
    BY <1>1, <1>2
  <2> HIDE DEF ids
  <2>2. QED
    BY <2>1, LeastNat
<1>4. PICK t \in longest : i = t.id
  BY <1>3
<1>5. \A other \in here : ~Precedes(other, t)
  <2>1. SUFFICES ASSUME NEW other \in here, Precedes(other, t)
                 PROVE  FALSE
    OBVIOUS
  <2>2. g = N - Len(t.content) /\ g <= N - Len(other.content)
    BY <1>2, <1>4
  <2>3. Len(other.content) = Len(t.content) /\ other.id < t.id
    BY <1>1, <1>4, <2>1, <2>2 DEF Precedes
  <2>4. other.id \in ids
    BY <2>2, <2>3
  <2> HIDE DEF ids
  <2>5. t.id <= other.id /\ t.id \in Nat /\ other.id \in Nat
    BY <1>1, <1>3, <1>4, <2>4
  <2>6. QED
    BY <2>3, <2>5
<1>6. QED
  BY <1>4, <1>5 DEF FirstAdded

\* where the text before the next added token ends
Stop(text, pos) == Min({x \in pos..Len(text) : AddedAt(text, x) # {}} \cup {Len(text) + 1})

\* the ids of the span at pos, and the byte after it
SpanIds(text, pos) ==
    IF AddedAt(text, pos) # {} THEN <<FirstAdded(AddedAt(text, pos)).id>>
    ELSE EncodePlain(SubSeq(text, pos, Stop(text, pos) - 1))
SpanEnd(text, pos) ==
    IF AddedAt(text, pos) # {} THEN pos + Len(FirstAdded(AddedAt(text, pos)).content)
    ELSE Stop(text, pos)

\* A span moves on, and its ids are read as its bytes.
LEMMA SpanIsRead ==
    ASSUME VocabularyServes, NEW text \in Seq(Byte), NEW pos \in 1..Len(text)
    PROVE  /\ SpanIds(text, pos) \in Seq(Ids)
           /\ SpanEnd(text, pos) \in (pos + 1)..(Len(text) + 1)
           /\ Spread(read, SpanIds(text, pos)) = SubSeq(text, pos, SpanEnd(text, pos) - 1)
<1> DEFINE N == Len(text)
           here == AddedAt(text, pos)
           rest == SubSeq(text, pos, N)
<1>0. N \in Nat /\ pos \in 1..N
  OBVIOUS
<1>1. rest \in Seq(Byte) /\ Len(rest) = N - pos + 1 /\ \A x \in 1..Len(rest) : rest[x] = text[pos + x - 1]
  BY <1>0
<1>2. CASE here # {}
  <2> DEFINE t == FirstAdded(here)
  <2>1. here \subseteq AddedFile /\ \A u \in here : Len(u.content) <= Len(rest) /\ SubSeq(u.content, 1, Len(u.content)) = SubSeq(rest, 1, Len(u.content))
    BY DEF AddedAt, IsPrefix
  <2>2. t \in here
    <3> HIDE DEF here, rest
    <3>1. Len(rest) \in Nat
      BY <1>1
    <3>2. QED
      BY <1>2, <2>1, <3>1, FirstAddedIsThere
  <2>3. SpanIds(text, pos) = <<t.id>> /\ SpanEnd(text, pos) = pos + Len(t.content)
    BY <1>2 DEF SpanIds, SpanEnd
  <2> HIDE DEF t, here
  <2> DEFINE c == t.content
  <2>4. c \in Seq(Byte) /\ c # <<>>
    BY <2>1, <2>2, AddedTokensAreNotEmpty DEF VocabularyServes, Byte
  <2>5. SubSeq(c, 1, Len(c)) = SubSeq(rest, 1, Len(c)) /\ Len(c) <= Len(rest)
    <3> HIDE DEF rest
    <3>1. QED
      BY <2>1, <2>2
  <2>6. <<t.id>> \in Seq(Ids) /\ Spread(read, <<t.id>>) = c
    <3>1. t \in AddedFile
      BY <2>1, <2>2
    <3>2. t.id \in Ids /\ IdBytes(t.id, FALSE) = c
      BY <3>1, AddedIsRead
    <3>3. read[t.id] = c
      BY <3>2 DEF read
    <3>4. read \in [Ids -> Seq(Byte)]
      BY ReadType
    <3> HIDE DEF read, c
    <3>5. Spread(read, <<t.id>>) = read[t.id]
      BY <3>2, <3>4, SpreadOne
    <3>6. QED
      BY <3>2, <3>3, <3>5
  <2> HIDE DEF c
  <2>7. Len(c) \in 1..(N - pos + 1)
    BY <1>0, <1>1, <2>4, <2>5
  <2>8. SubSeq(rest, 1, Len(c)) = SubSeq(text, pos, pos + Len(c) - 1)
    BY <1>0, <2>7
  <2>9. SubSeq(c, 1, Len(c)) = c
    BY <2>4
  <2> HIDE DEF rest
  <2>10. pos + Len(c) \in (pos + 1)..(N + 1)
    BY <1>0, <2>7
  <2>11. QED
    BY <2>3, <2>5, <2>6, <2>8, <2>9, <2>10 DEF c
<1>3. CASE here = {}
  <2> DEFINE Stops == {x \in pos..N : AddedAt(text, x) # {}} \cup {N + 1}
             stop == Stop(text, pos)
  <2>1. stop \in Stops
    <3>1. Stops \in SUBSET Nat /\ Stops # {}
      BY <1>0
    <3>2. stop = Min(Stops)
      BY DEF Stop
    <3> HIDE DEF Stops, stop
    <3>3. QED
      BY <3>1, <3>2, MinOfNats
  <2> HIDE DEF stop
  <2>2. stop \in (pos + 1)..(N + 1)
    <3>1. pos \notin Stops
      BY <1>0, <1>3
    <3>2. stop \in pos..(N + 1)
      BY <1>0, <2>1
    <3>3. stop # pos
      BY <2>1, <3>1
    <3>4. QED
      BY <1>0, <3>2, <3>3
  <2> DEFINE part == SubSeq(text, pos, stop - 1)
  <2>3. part \in Seq(Byte)
    BY <1>0, <2>2
  <2>4. SpanIds(text, pos) = EncodePlain(part) /\ SpanEnd(text, pos) = stop
    BY <1>3 DEF SpanIds, SpanEnd, stop
  <2> HIDE DEF part
  <2>5. EncodePlain(part) \in Seq(Ids) /\ Spread(read, EncodePlain(part)) = part
    <3> HIDE DEF read
    <3>1. QED
      BY <2>3, PlainIsRead
  <2>6. QED
    BY <2>2, <2>4, <2>5 DEF part
<1>4. QED
  BY <1>2, <1>3

\* Ids one after the other are read one after the other.
LEMMA ReadJoins ==
    ASSUME VocabularyServes
    PROVE  \A x, y \in Seq(Ids) : Spread(read, x \o y) = Spread(read, x) \o Spread(read, y)
<1>1. read \in [Ids -> Seq(Byte)]
  BY ReadType
<1> HIDE DEF read
<1>2. QED
  BY <1>1, SpreadJoins

\* The ids of a text are read as the text, byte for byte.
LEMMA SpansAreRead ==
    ASSUME VocabularyServes, NEW text \in Seq(Byte)
    PROVE  /\ EncodeSpans(text) \in Seq(Ids)
           /\ Spread(read, EncodeSpans(text)) = text
<1> DEFINE N == Len(text)
           Step(f) == [pos \in 1..(Len(text) + 1) |->
                LET here  == AddedAt(text, pos)
                    token == FirstAdded(here)
                    stop  == Min({x \in pos..Len(text) : AddedAt(text, x) # {}} \cup {Len(text) + 1})
                IN CASE pos > Len(text) -> <<>>
                     [] pos <= Len(text) /\ here # {} -> <<token.id>> \o f[pos + Len(token.content)]
                     [] OTHER -> EncodePlain(SubSeq(text, pos, stop - 1)) \o f[stop]]
           from == CHOOSE f : f = Step(f)
           head == [i \in 1..N |-> SpanIds(text, i)]
           next == [i \in 1..N |-> SpanEnd(text, i)]
<1>0. N \in Nat
  OBVIOUS
<1>1. EncodeSpans(text) = from[1]
  BY Zenon DEF EncodeSpans
<1>2. \A i \in 1..N : /\ SpanIds(text, i) \in Seq(Ids)
                      /\ SpanEnd(text, i) \in (i + 1)..(N + 1)
                      /\ Spread(read, SpanIds(text, i)) = SubSeq(text, i, SpanEnd(text, i) - 1)
  <2> HIDE DEF read
  <2>1. QED
    BY SpanIsRead
<1>3. next \in [1..N -> 1..(N + 1)] /\ \A i \in 1..N : i < next[i]
  <2>1. \A i \in 1..N : SpanEnd(text, i) \in 1..(N + 1) /\ i < SpanEnd(text, i)
    BY <1>0, <1>2
  <2>2. QED
    BY <2>1
<1>4. head \in [1..N -> Seq(Ids)]
  BY <1>2
<1>5. \A f : \A i \in 1..(N + 1) :
        Step(f)[i] = IF i > N THEN <<>> ELSE SpanIds(text, i) \o f[SpanEnd(text, i)]
  <2>1. SUFFICES ASSUME NEW f, NEW i \in 1..(N + 1)
                 PROVE  Step(f)[i] = IF i > N THEN <<>> ELSE SpanIds(text, i) \o f[SpanEnd(text, i)]
    OBVIOUS
  <2>2. CASE i > N
    BY <2>2
  <2>3. CASE ~(i > N) /\ AddedAt(text, i) # {}
    <3>1. SpanIds(text, i) = <<FirstAdded(AddedAt(text, i)).id>>
          /\ SpanEnd(text, i) = i + Len(FirstAdded(AddedAt(text, i)).content)
      BY <2>3 DEF SpanIds, SpanEnd
    <3>2. i <= N
      BY <1>0, <2>3
    <3>3. QED
      BY <2>3, <3>1, <3>2
  <2>4. CASE ~(i > N) /\ AddedAt(text, i) = {}
    <3>1. SpanIds(text, i) = EncodePlain(SubSeq(text, i, Stop(text, i) - 1)) /\ SpanEnd(text, i) = Stop(text, i)
      BY <2>4 DEF SpanIds, SpanEnd
    <3>2. QED
      BY <2>4, <3>1 DEF Stop
  <2>5. QED
    BY <2>2, <2>3, <2>4
<1>6. \E f : f = Step(f)
  <2>1. PICK f \in [1..(N + 1) -> Seq(Ids)] : IsJoin(f, 1, N, head, next)
    <3> HIDE DEF head, next, N
    <3>1. QED
      BY <1>0, <1>3, <1>4, JoinExists
  <2>2. \A i \in 1..(N + 1) : f[i] = Step(f)[i]
    <3>1. SUFFICES ASSUME NEW i \in 1..(N + 1)
                   PROVE  f[i] = Step(f)[i]
      OBVIOUS
    <3>2. f[i] = IF i > N THEN <<>> ELSE head[i] \o f[next[i]]
      BY <2>1 DEF IsJoin
    <3>3. Step(f)[i] = IF i > N THEN <<>> ELSE SpanIds(text, i) \o f[SpanEnd(text, i)]
      BY <1>5
    <3>4. CASE i > N
      <4> HIDE DEF Step
      <4>1. QED
        BY <3>2, <3>3, <3>4
    <3>5. CASE ~(i > N)
      <4>1. i \in 1..N
        BY <1>0, <3>5
      <4>2. head[i] = SpanIds(text, i) /\ next[i] = SpanEnd(text, i)
        BY <4>1
      <4> HIDE DEF head, next, Step
      <4>3. QED
        BY <3>2, <3>3, <3>5, <4>2
    <3>6. QED
      BY <3>4, <3>5
  <2>3. f = Step(f)
    BY <2>2
  <2> HIDE DEF Step
  <2>4. QED
    BY <2>3
<1>7. from = Step(from)
  <2> HIDE DEF Step
  <2>1. QED
    BY <1>6
<1>8. \A i \in 1..(N + 1) : from[i] = IF i > N THEN <<>> ELSE SpanIds(text, i) \o from[SpanEnd(text, i)]
  <2> HIDE DEF from, Step
  <2>1. QED
    BY <1>5, <1>7
<1> HIDE DEF from, Step, head, next, read
<1> DEFINE Rest(i) == SubSeq(text, i, Len(text))
           Good == {i \in 1..(N + 1) : from[i] \in Seq(Ids) /\ Spread(read, from[i]) = Rest(i)}
<1>j. \A x, y \in Seq(Ids) : Spread(read, x \o y) = Spread(read, x) \o Spread(read, y)
  BY ReadJoins DEF read
<1>9. N + 1 \in Good
  <2>1. N + 1 \in 1..(N + 1) /\ N + 1 > N
    BY <1>0
  <2>2. from[N + 1] = <<>>
    BY <1>8, <2>1
  <2>3. <<>> \in Seq(Ids)
    OBVIOUS
  <2>4. Rest(N + 1) = <<>>
    BY <1>0
  <2>5. Spread(read, <<>>) = <<>>
    <3>1. [c \in DOMAIN <<>> |-> read[<<>>[c]]] = <<>>
      OBVIOUS
    <3>2. QED
      BY <3>1, FlattenNone DEF Spread
  <2> HIDE DEF Rest
  <2>6. QED
    BY <2>1, <2>2, <2>3, <2>4, <2>5
<1>10. ASSUME NEW i \in 1..N, \A j \in (i + 1)..(N + 1) : j \in Good
       PROVE  i \in Good
  <2> DEFINE j == SpanEnd(text, i)
             ids == SpanIds(text, i)
  <2>1. j \in (i + 1)..(N + 1) /\ ids \in Seq(Ids) /\ Spread(read, ids) = SubSeq(text, i, j - 1)
    BY <1>2
  <2>2. i \in 1..(N + 1) /\ ~(i > N)
    BY <1>0
  <2>3. from[i] = ids \o from[j]
    BY <1>8, <2>2
  <2> HIDE DEF j, ids
  <2>4. from[j] \in Seq(Ids) /\ Spread(read, from[j]) = Rest(j)
    BY <1>10, <2>1
  <2>5. ids \o from[j] \in Seq(Ids)
    <3>1. from[j] \in Seq(Ids)
      BY <2>4
    <3>2. QED
      BY <2>1, <3>1
  <2>6. SubSeq(text, i, j - 1) \o Rest(j) = Rest(i)
    <3>1. i \in 1..(Len(text) + 1) /\ j \in i..(Len(text) + 1)
      BY <1>0, <2>1, <2>2
    <3>2. QED
      BY <3>1, Stretches
  <2>7. Spread(read, ids \o from[j]) = Spread(read, ids) \o Spread(read, from[j])
    <3>1. \A x, y \in Seq(Ids) : Spread(read, x \o y) = Spread(read, x) \o Spread(read, y)
      BY <1>j, Zenon
    <3>2. QED
      BY <2>1, <2>4, <3>1, Zenon
  <2> HIDE DEF Rest
  <2>8. Spread(read, from[i]) = Rest(i)
    BY <2>1, <2>3, <2>4, <2>6, <2>7
  <2>9. QED
    BY <2>2, <2>3, <2>5, <2>8
<1>11. 1 \in Good
  <2>1. 1 \in 1..(N + 1)
    BY <1>0
  <2> HIDE DEF Good, N
  <2>2. QED
    BY <1>0, <1>9, <1>10, <2>1, FromTheEnd
<1>12. Rest(1) = text
  OBVIOUS
<1>13. QED
  BY <1>1, <1>11, <1>12

-----------------------------------------------------------------------------
\* the characters of Unicode, as UTF-8 writes them
Scalars == {cp \in Nat : cp <= 1114111 /\ (cp < 55296 \/ 57343 < cp)}
Characters == {Utf8(cp) : cp \in Scalars}

\* the bytes of a character
LEMMA CharacterIs ==
    ASSUME NEW cp \in Scalars
    PROVE  /\ Utf8(cp) \in Seq(Byte) /\ Utf8(cp) # <<>>
           /\ cp < 128 => Utf8(cp) = <<cp>>
           /\ 128 <= cp /\ cp < 2048 => Utf8(cp) = <<192 + cp \div 64, 128 + (cp % 64)>>
           /\ 2048 <= cp /\ cp < 65536 =>
                Utf8(cp) = <<224 + cp \div 4096, 128 + ((cp \div 64) % 64), 128 + (cp % 64)>>
           /\ 65536 <= cp =>
                Utf8(cp) = <<240 + cp \div 262144, 128 + ((cp \div 4096) % 64),
                             128 + ((cp \div 64) % 64), 128 + (cp % 64)>>
<1>0. cp \in Nat /\ cp <= 1114111
  BY SMTT(20) DEF Scalars
<1>1. CASE cp < 128
  <2>1. Utf8(cp) = <<cp>> /\ cp \in Byte
    BY <1>0, <1>1, SMTT(20) DEF Utf8, Byte
  <2>2. <<cp>> \in Seq(Byte) /\ <<cp>> # <<>>
    BY <2>1, SMTT(20)
  <2>3. QED
    BY <1>0, <1>1, <2>1, <2>2, SMTT(20)
<1>2. CASE 128 <= cp /\ cp < 2048
  <2> DEFINE a == 192 + cp \div 64
             b == 128 + (cp % 64)
  <2>1. a \in Byte /\ b \in Byte
    BY <1>0, <1>2, SMTT(20) DEF Byte
  <2>2. Utf8(cp) = <<a, b>>
    BY <1>0, <1>2, SMTT(20) DEF Utf8, Tail6
  <2> HIDE DEF a, b
  <2>3. <<a, b>> \in Seq(Byte) /\ <<a, b>> # <<>>
    BY <2>1, SMTT(20)
  <2>4. QED
    BY <1>0, <1>2, <2>2, <2>3, SMTT(20) DEF a, b
<1>3. CASE 2048 <= cp /\ cp < 65536
  <2> DEFINE a == 224 + cp \div 4096
             b == 128 + ((cp \div 64) % 64)
             c == 128 + (cp % 64)
  <2>1. a \in Byte /\ b \in Byte /\ c \in Byte
    BY <1>0, <1>3, SMTT(20) DEF Byte
  <2>2. Utf8(cp) = <<a, b, c>>
    BY <1>0, <1>3, SMTT(20) DEF Utf8, Tail6
  <2> HIDE DEF a, b, c
  <2>3. <<a, b, c>> \in Seq(Byte) /\ <<a, b, c>> # <<>>
    BY <2>1, SMTT(20)
  <2>4. QED
    BY <1>0, <1>3, <2>2, <2>3, SMTT(20) DEF a, b, c
<1>4. CASE 65536 <= cp
  <2> DEFINE a == 240 + cp \div 262144
             b == 128 + ((cp \div 4096) % 64)
             c == 128 + ((cp \div 64) % 64)
             d == 128 + (cp % 64)
  <2>1. a \in Byte /\ b \in Byte /\ c \in Byte /\ d \in Byte
    BY <1>0, <1>4, SMTT(20) DEF Byte
  <2>2. Utf8(cp) = <<a, b, c, d>>
    BY <1>0, <1>4, SMTT(20) DEF Utf8, Tail6
  <2> HIDE DEF a, b, c, d
  <2>3. <<a, b, c, d>> \in Seq(Byte) /\ <<a, b, c, d>> # <<>>
    BY <2>1, SMTT(20)
  <2>4. QED
    BY <1>0, <1>4, <2>2, <2>3, SMTT(20) DEF a, b, c, d
<1>5. QED
  BY <1>0, <1>1, <1>2, <1>3, <1>4, SMTT(20)

\* The decoder takes a character whole.
LEMMA CharacterIsValid ==
    ASSUME NEW s \in Seq(Byte), NEW i \in 1..Len(s), NEW cp \in Scalars,
           i + Len(Utf8(cp)) - 1 <= Len(s),
           \A x \in 1..Len(Utf8(cp)) : s[i + x - 1] = Utf8(cp)[x]
    PROVE  ValidLen(s, i) = Len(Utf8(cp))
<1>0. cp \in Nat /\ cp <= 1114111 /\ (cp < 55296 \/ 57343 < cp) /\ Len(s) \in Nat
  BY SMTT(20) DEF Scalars
<1>1. CASE cp < 128
  <2>1. Utf8(cp) = <<cp>>
    BY <1>1, <1>0, CharacterIs, SMTT(20)
  <2>2. s[i + 1 - 1] = cp /\ Len(Utf8(cp)) = 1
    BY <2>1, SMTT(20)
  <2>3. s[i] = cp
    BY <2>2, SMTT(20)
  <2>4. s[i] < 128 /\ s[i] \notin 192..223 /\ s[i] \notin 224..239 /\ s[i] \notin 240..247
    BY <1>0, <1>1, <2>3, SMTT(20)
  <2>5. ValidLen(s, i) = 1
    BY <2>4, SMTT(20) DEF ValidLen
  <2>6. QED
    BY <2>2, <2>5, SMTT(20)
<1>2. CASE 128 <= cp /\ cp < 2048
  <2> DEFINE a == 192 + cp \div 64
             b == 128 + (cp % 64)
  <2>1. Utf8(cp) = <<a, b>>
    BY <1>2, <1>0, CharacterIs, SMTT(20)
  <2> HIDE DEF a, b
  <2>2. Len(Utf8(cp)) = 2 /\ s[i + 1 - 1] = a /\ s[i + 2 - 1] = b
    BY <2>1, SMTT(20)
  <2>3. s[i] = a /\ s[i + 1] = b /\ i + 1 <= Len(s)
    <3>1. i + 1 - 1 = i /\ i + 2 - 1 = i + 1
      BY SMTT(20)
    <3>2. QED
      BY <2>2, <3>1, SMTT(20)
  <2>4. a \in 194..223 /\ b \in 128..191 /\ (a % 32) * 64 + (b % 64) = cp
    BY <1>0, <1>2, SMTT(20) DEF a, b
  <2>5. CpLen(s, i) = 2
    BY <2>3, <2>4, SMTT(20) DEF CpLen
  <2>6. CpValue(s, i) = cp
    BY <2>3, <2>4, <2>5, SMTT(20) DEF CpValue, Tail6
  <2>7. IsTail(s, i + 1)
    BY <2>3, <2>4, SMTT(20) DEF IsTail
  <2>8. ~(s[i] < 128) /\ s[i] \in 192..223 /\ s[i] \notin 224..239 /\ s[i] \notin 240..247 /\ CpValue(s, i) >= 128
    BY <1>0, <1>2, <2>3, <2>4, <2>6, SMTT(20)
  <2>9. ValidLen(s, i) = 2
    BY <2>7, <2>8, SMTT(20) DEF ValidLen
  <2>10. QED
    BY <2>2, <2>9, SMTT(20)
<1>3. CASE 2048 <= cp /\ cp < 65536
  <2> DEFINE a == 224 + cp \div 4096
             b == 128 + ((cp \div 64) % 64)
             c == 128 + (cp % 64)
  <2>1. Utf8(cp) = <<a, b, c>>
    BY <1>3, <1>0, CharacterIs, SMTT(20)
  <2> HIDE DEF a, b, c
  <2>2. Len(Utf8(cp)) = 3 /\ s[i + 1 - 1] = a /\ s[i + 2 - 1] = b /\ s[i + 3 - 1] = c
    BY <2>1, SMTT(20)
  <2>3. s[i] = a /\ s[i + 1] = b /\ s[i + 2] = c /\ i + 2 <= Len(s)
    <3>1. i + 1 - 1 = i /\ i + 2 - 1 = i + 1 /\ i + 3 - 1 = i + 2
      BY SMTT(20)
    <3>2. QED
      BY <2>2, <3>1, SMTT(20)
  <2>4. a \in 224..239 /\ b \in 128..191 /\ c \in 128..191
    BY <1>0, <1>3, SMTT(20) DEF a, b, c
  <2>40. (a % 16) * 4096 + (b % 64) * 64 + (c % 64) = cp
    <3>1. a % 16 = cp \div 4096 /\ b % 64 = (cp \div 64) % 64 /\ c % 64 = cp % 64
      BY <1>0, <1>3, SMTT(20) DEF a, b, c
    <3>2. (cp \div 4096) * 4096 + ((cp \div 64) % 64) * 64 + (cp % 64) = cp
      BY <1>0, <1>3, SMTT(20)
    <3>3. QED
      BY <3>1, <3>2, SMTT(20)
  <2>5. CpLen(s, i) = 3
    BY <2>3, <2>4, SMTT(20) DEF CpLen
  <2>6. CpValue(s, i) = cp
    BY <2>3, <2>40, <2>5, SMTT(20) DEF CpValue, Tail6
  <2>7. IsTail(s, i + 1) /\ IsTail(s, i + 2)
    BY <2>3, <2>4, SMTT(20) DEF IsTail
  <2>8. ~(s[i] < 128) /\ s[i] \notin 192..223 /\ s[i] \in 224..239 /\ s[i] \notin 240..247
        /\ CpValue(s, i) >= 2048 /\ (CpValue(s, i) < 55296 \/ 57343 < CpValue(s, i))
    BY <1>0, <1>3, <2>3, <2>4, <2>6, SMTT(20)
  <2>9. ValidLen(s, i) = 3
    BY <2>7, <2>8, SMTT(20) DEF ValidLen
  <2>10. QED
    BY <2>2, <2>9, SMTT(20)
<1>4. CASE 65536 <= cp
  <2> DEFINE a == 240 + cp \div 262144
             b == 128 + ((cp \div 4096) % 64)
             c == 128 + ((cp \div 64) % 64)
             d == 128 + (cp % 64)
  <2>1. Utf8(cp) = <<a, b, c, d>>
    BY <1>4, <1>0, CharacterIs, SMTT(20)
  <2> HIDE DEF a, b, c, d
  <2>2. Len(Utf8(cp)) = 4 /\ s[i + 1 - 1] = a /\ s[i + 2 - 1] = b /\ s[i + 3 - 1] = c /\ s[i + 4 - 1] = d
    BY <2>1, SMTT(20)
  <2>3. s[i] = a /\ s[i + 1] = b /\ s[i + 2] = c /\ s[i + 3] = d /\ i + 3 <= Len(s)
    <3>1. i + 1 - 1 = i /\ i + 2 - 1 = i + 1 /\ i + 3 - 1 = i + 2 /\ i + 4 - 1 = i + 3
      BY SMTT(20)
    <3>2. QED
      BY <2>2, <3>1, SMTT(20)
  <2>4. a \in 240..244 /\ b \in 128..191 /\ c \in 128..191 /\ d \in 128..191
    BY <1>0, <1>4, SMTT(20) DEF a, b, c, d
  <2>40. (a % 8) * 262144 + (b % 64) * 4096 + (c % 64) * 64 + (d % 64) = cp
    <3>1. a % 8 = cp \div 262144 /\ b % 64 = (cp \div 4096) % 64
          /\ c % 64 = (cp \div 64) % 64 /\ d % 64 = cp % 64
      BY <1>0, <1>4, SMTT(20) DEF a, b, c, d
    <3>2. (cp \div 262144) * 262144 + ((cp \div 4096) % 64) * 4096 + ((cp \div 64) % 64) * 64 + (cp % 64) = cp
      BY <1>0, <1>4, SMTT(20)
    <3>3. QED
      BY <3>1, <3>2, SMTT(20)
  <2>5. CpLen(s, i) = 4
    BY <2>3, <2>4, SMTT(20) DEF CpLen
  <2>6. CpValue(s, i) = cp
    BY <2>3, <2>40, <2>5, SMTT(20) DEF CpValue, Tail6
  <2>7. IsTail(s, i + 1) /\ IsTail(s, i + 2) /\ IsTail(s, i + 3)
    BY <2>3, <2>4, SMTT(20) DEF IsTail
  <2>8. QED
    BY <1>0, <1>4, <2>2, <2>3, <2>4, <2>6, <2>7, SMTT(20) DEF ValidLen
<1>5. QED
  BY <1>0, <1>1, <1>2, <1>3, <1>4, SMTT(20)

\* A well-formed sequence takes at most four bytes, and none beyond the text.
LEMMA ValidTakes ==
    ASSUME NEW s \in Seq(Byte), NEW i \in 1..Len(s)
    PROVE  ValidLen(s, i) \in 0..4 /\ i + ValidLen(s, i) <= Len(s) + 1
<1>1. Len(s) \in Nat /\ s[i] \in Byte
  BY SMTT(20)
<1>2. QED
  BY <1>1, SMTT(20) DEF ValidLen, IsTail, Byte

\* The replacement character is written in bytes.
LEMMA ReplacementIs == Replacement \in Seq(Byte)
<1>1. 65533 \in Scalars
  BY SMTT(20) DEF Scalars
<1>2. QED
  BY <1>1, CharacterIs, SMTT(20) DEF Replacement

\* what the decoder makes of the bytes from i on, when the rest of the text becomes rest
RepairAt(s, i) == IF ValidLen(s, i) > 0 THEN SubSeq(s, i, i + ValidLen(s, i) - 1) ELSE Replacement
RepairEnd(s, i) == IF ValidLen(s, i) > 0 THEN i + ValidLen(s, i) ELSE i + 1

\* The repair of the decoded bytes moves on at each byte, and never past the last.
LEMMA RepairMoves ==
    ASSUME NEW s \in Seq(Byte), NEW i \in 1..Len(s)
    PROVE  RepairAt(s, i) \in Seq(Byte) /\ RepairEnd(s, i) \in (i + 1)..(Len(s) + 1)
<1> DEFINE n == ValidLen(s, i)
<1>1. n \in 0..4 /\ i + n <= Len(s) + 1 /\ Len(s) \in Nat
  BY ValidTakes
<1>2. RepairAt(s, i) = (IF n > 0 THEN SubSeq(s, i, i + n - 1) ELSE Replacement)
      /\ RepairEnd(s, i) = (IF n > 0 THEN i + n ELSE i + 1)
  BY DEF RepairAt, RepairEnd
<1> HIDE DEF n
<1>3. n > 0 => SubSeq(s, i, i + n - 1) \in Seq(Byte)
  BY <1>1
<1>4. QED
  BY <1>1, <1>2, <1>3, ReplacementIs

\* The repair walks all the decoded bytes.
LEMMA RepairedWalks ==
    ASSUME NEW s \in Seq(Byte)
    PROVE  \E from : /\ Repaired(s) = from[1]
                     /\ \A i \in 1..(Len(s) + 1) :
                        from[i] = IF i > Len(s) THEN <<>> ELSE RepairAt(s, i) \o from[RepairEnd(s, i)]
<1> DEFINE N == Len(s)
           Step(f) == [i \in 1..(Len(s) + 1) |->
                CASE i > Len(s) -> <<>>
                  [] i <= Len(s) /\ ValidLen(s, i) > 0 ->
                        SubSeq(s, i, i + ValidLen(s, i) - 1) \o f[i + ValidLen(s, i)]
                  [] OTHER -> Replacement \o f[i + 1]]
           from == CHOOSE f : f = Step(f)
           head == [i \in 1..N |-> RepairAt(s, i)]
           next == [i \in 1..N |-> RepairEnd(s, i)]
<1>0. N \in Nat
  OBVIOUS
<1>1. Repaired(s) = from[1]
  BY Zenon DEF Repaired
<1>2. \A i \in 1..N : RepairAt(s, i) \in Seq(Byte) /\ RepairEnd(s, i) \in (i + 1)..(N + 1)
  BY RepairMoves
<1>3. next \in [1..N -> 1..(N + 1)] /\ \A i \in 1..N : i < next[i]
  <2>1. \A i \in 1..N : RepairEnd(s, i) \in 1..(N + 1) /\ i < RepairEnd(s, i)
    BY <1>0, <1>2
  <2>2. QED
    BY <2>1
<1>4. head \in [1..N -> Seq(Byte)]
  BY <1>2
<1>5. \A f : \A i \in 1..(N + 1) :
        Step(f)[i] = IF i > N THEN <<>> ELSE RepairAt(s, i) \o f[RepairEnd(s, i)]
  <2>1. SUFFICES ASSUME NEW f, NEW i \in 1..(N + 1)
                 PROVE  Step(f)[i] = IF i > N THEN <<>> ELSE RepairAt(s, i) \o f[RepairEnd(s, i)]
    OBVIOUS
  <2>2. CASE i > N
    BY <2>2
  <2>3. CASE ~(i > N) /\ ValidLen(s, i) > 0
    <3>1. RepairAt(s, i) = SubSeq(s, i, i + ValidLen(s, i) - 1) /\ RepairEnd(s, i) = i + ValidLen(s, i)
      BY <2>3 DEF RepairAt, RepairEnd
    <3>2. i <= N
      BY <1>0, <2>3
    <3>3. QED
      BY <2>3, <3>1, <3>2
  <2>4. CASE ~(i > N) /\ ~(ValidLen(s, i) > 0)
    <3>1. RepairAt(s, i) = Replacement /\ RepairEnd(s, i) = i + 1
      BY <2>4 DEF RepairAt, RepairEnd
    <3>2. QED
      BY <2>4, <3>1
  <2>5. QED
    BY <2>2, <2>3, <2>4
<1>6. \E f : f = Step(f)
  <2>1. PICK f \in [1..(N + 1) -> Seq(Byte)] : IsJoin(f, 1, N, head, next)
    <3> HIDE DEF head, next, N
    <3>1. QED
      BY <1>0, <1>3, <1>4, JoinExists
  <2>2. \A i \in 1..(N + 1) : f[i] = Step(f)[i]
    <3>1. SUFFICES ASSUME NEW i \in 1..(N + 1)
                   PROVE  f[i] = Step(f)[i]
      OBVIOUS
    <3>2. f[i] = IF i > N THEN <<>> ELSE head[i] \o f[next[i]]
      BY <2>1 DEF IsJoin
    <3>3. Step(f)[i] = IF i > N THEN <<>> ELSE RepairAt(s, i) \o f[RepairEnd(s, i)]
      BY <1>5
    <3>4. CASE i > N
      <4> HIDE DEF Step
      <4>1. QED
        BY <3>2, <3>3, <3>4
    <3>5. CASE ~(i > N)
      <4>1. i \in 1..N
        BY <1>0, <3>5
      <4>2. head[i] = RepairAt(s, i) /\ next[i] = RepairEnd(s, i)
        BY <4>1
      <4> HIDE DEF head, next, Step
      <4>3. QED
        BY <3>2, <3>3, <3>5, <4>2
    <3>6. QED
      BY <3>4, <3>5
  <2>3. f = Step(f)
    BY <2>2
  <2> HIDE DEF Step
  <2>4. QED
    BY <2>3
<1>7. from = Step(from)
  <2> HIDE DEF Step
  <2>1. QED
    BY <1>6
<1>8. \A i \in 1..(N + 1) : from[i] = IF i > N THEN <<>> ELSE RepairAt(s, i) \o from[RepairEnd(s, i)]
  <2> HIDE DEF from, Step
  <2>1. QED
    BY <1>5, <1>7
<1> HIDE DEF from, Step
<1>9. QED
  BY <1>1, <1>8

\* The decoder keeps every text made of characters.
LEMMA CharactersStay ==
    ASSUME NEW chars \in Seq(Characters)
    PROVE  Repaired(FlattenSeq(chars)) = FlattenSeq(chars)
<1> DEFINE s == FlattenSeq(chars)
           N == Len(s)
           Rest(i) == SubSeq(s, i, N)
           Whole(i) == \E q \in Seq(Characters) : Rest(i) = FlattenSeq(q)
<1>c. \A c \in Characters : c \in Seq(Byte) /\ c # <<>>
  BY CharacterIs DEF Characters
<1>d. \A q \in Seq(Characters) : q \in Seq(Seq(Byte)) /\ FlattenSeq(q) \in Seq(Byte)
  <2>1. SUFFICES ASSUME NEW q \in Seq(Characters)
                 PROVE  q \in Seq(Seq(Byte)) /\ FlattenSeq(q) \in Seq(Byte)
    OBVIOUS
  <2>2. Characters \subseteq Seq(Byte)
    BY <1>c
  <2>3. q \in Seq(Seq(Byte))
    BY <2>2, SeqMonotonic
  <2>4. FlattenSeq(q) \in Seq(Byte)
    BY <2>3, FlattenAppends
  <2>5. QED
    BY <2>3, <2>4
<1>1. s \in Seq(Byte) /\ N \in Nat
  <2>1. s \in Seq(Byte)
    BY <1>d
  <2>2. QED
    BY <2>1
<1>2. Whole(1)
  <2> HIDE DEF s
  <2>1. Rest(1) = s
    BY <1>1
  <2>2. QED
    BY <2>1 DEF s
<1>3. PICK from : /\ Repaired(s) = from[1]
                  /\ \A i \in 1..(N + 1) : from[i] = IF i > N THEN <<>> ELSE RepairAt(s, i) \o from[RepairEnd(s, i)]
  <2> HIDE DEF s
  <2>1. QED
    BY <1>1, RepairedWalks
<1> HIDE DEF s
<1> DEFINE Good == {i \in 1..(N + 1) : Whole(i) => from[i] = Rest(i)}
<1>4. N + 1 \in Good
  <2>1. N + 1 \in 1..(N + 1) /\ N + 1 > N
    BY <1>1
  <2>2. from[N + 1] = <<>>
    BY <1>3, <2>1
  <2>3. Rest(N + 1) = <<>>
    BY <1>1
  <2> HIDE DEF Rest, Whole
  <2>4. QED
    BY <2>1, <2>2, <2>3
<1>5. ASSUME NEW i \in 1..N, \A j \in (i + 1)..(N + 1) : j \in Good
      PROVE  i \in Good
  <2>1. i \in 1..(N + 1) /\ ~(i > N)
    BY <1>1
  <2>2. SUFFICES ASSUME Whole(i)
                 PROVE  from[i] = Rest(i)
    BY <2>1
  <2>3. PICK q \in Seq(Characters) : Rest(i) = FlattenSeq(q)
    BY <2>2
  <2>4. Rest(i) \in Seq(Byte) /\ Len(Rest(i)) = N - i + 1
        /\ \A x \in 1..(N - i + 1) : Rest(i)[x] = s[i + x - 1]
    BY <1>1
  <2>5. q # <<>>
    <3>1. Len(Rest(i)) > 0
      BY <1>1, <2>4
    <3> HIDE DEF Rest
    <3>2. QED
      BY <2>3, <3>1, FlattenNone
  <2>6. PICK c \in Characters : \E r \in Seq(Characters) : q = <<c>> \o r
    <3> HIDE DEF Rest
    <3>1. QED
      BY <2>5, FirstAndRest
  <2>7. PICK r \in Seq(Characters) : q = <<c>> \o r
    BY <2>6
  <2> DEFINE l == FlattenSeq(r)
             n == Len(c)
  <2>8. c \in Seq(Byte) /\ c # <<>> /\ l \in Seq(Byte) /\ r \in Seq(Seq(Byte))
    BY <1>c, <1>d
  <2>9. Rest(i) = c \o l
    <3>1. FlattenSeq(<<c>> \o r) = c \o FlattenSeq(r)
      BY <2>8, FlattenCons
    <3> HIDE DEF Rest
    <3>2. QED
      BY <2>3, <2>7, <3>1
  <2> HIDE DEF l
  <2>10. n \in 1..(N - i + 1) /\ \A x \in 1..n : s[i + x - 1] = c[x]
    <3>1. Len(c \o l) = n + Len(l) /\ n \in Nat \ {0} /\ Len(l) \in Nat /\ \A x \in 1..n : (c \o l)[x] = c[x]
      BY <2>8
    <3> HIDE DEF Rest, n
    <3>2. n \in 1..(N - i + 1)
      BY <1>1, <2>4, <2>9, <3>1
    <3>3. ASSUME NEW x \in 1..n
          PROVE  s[i + x - 1] = c[x]
      <4>1. x \in 1..(N - i + 1)
        BY <1>1, <3>2
      <4>2. QED
        BY <2>4, <2>9, <3>1, <4>1
    <3>4. QED
      BY <3>2, <3>3
  <2>11. ValidLen(s, i) = n
    <3>1. PICK cp \in Scalars : c = Utf8(cp)
      BY DEF Characters
    <3>2. i + n - 1 <= N
      BY <1>1, <2>10
    <3>3. QED
      BY <1>1, <2>10, <3>1, <3>2, CharacterIsValid
  <2>12. SubSeq(s, i, i + n - 1) = c /\ SubSeq(s, i + n, N) = l /\ i + n \in (i + 1)..(N + 1)
    <3>1. i + n \in (i + 1)..(N + 1)
      BY <1>1, <2>10
    <3>2. SubSeq(s, i, i + n - 1) = SubSeq(Rest(i), 1, n)
      BY <1>1, <2>10
    <3>3. SubSeq(s, i + n, N) = SubSeq(Rest(i), n + 1, N - i + 1)
      BY <1>1, <2>10
    <3>4. SubSeq(c \o l, 1, n) = c
      BY <2>8
    <3>5. SubSeq(c \o l, n + 1, Len(c \o l)) = l
      BY <2>8
    <3> HIDE DEF Rest
    <3>6. QED
      BY <2>4, <2>9, <3>1, <3>2, <3>3, <3>4, <3>5
  <2>13. RepairAt(s, i) = c /\ RepairEnd(s, i) = i + n
    BY <2>10, <2>11, <2>12 DEF RepairAt, RepairEnd
  <2>14. from[i + n] = l
    <3>1. Whole(i + n) /\ Rest(i + n) = l
      BY <2>12 DEF l
    <3>2. i + n \in Good
      <4> HIDE DEF Good
      <4>1. QED
        BY <1>5, <2>12
    <3> HIDE DEF Whole, Rest
    <3>3. QED
      BY <3>1, <3>2
  <2>15. from[i] = c \o l
    BY <1>3, <2>1, <2>13, <2>14
  <2> HIDE DEF Rest
  <2>16. QED
    BY <2>9, <2>15
<1>6. 1 \in Good
  <2>1. 1 \in 1..(N + 1)
    BY <1>1
  <2> HIDE DEF Good, N
  <2>2. QED
    BY <1>1, <1>4, <1>5, <2>1, FromTheEnd
<1>7. Rest(1) = s
  BY <1>1
<1>8. from[1] = s
  <2> HIDE DEF Rest
  <2>1. QED
    BY <1>2, <1>6, <1>7
<1>9. QED
  BY <1>3, <1>8 DEF s

-----------------------------------------------------------------------------
\* what a text of Unicode characters is in bytes
Texts == {FlattenSeq(chars) : chars \in Seq(Characters)}

\* With a vocabulary that serves all texts, encoding and decoding give every text
\* of Unicode characters back, and any sequence of bytes as the decoder repairs it
\* (src/src/tokenizer/native_tokenizer.cpp, encode and decode), whatever the
\* tables, the merges and the added tokens.
THEOREM TextsComeBack ==
    VocabularyServes =>
        /\ \A text \in Seq(Byte) : Decode(Encode(text, FALSE), FALSE) = Repaired(text)
        /\ \A text \in Texts : Decode(Encode(text, FALSE), FALSE) = text
<1>1. SUFFICES ASSUME VocabularyServes
               PROVE  /\ \A text \in Seq(Byte) : Decode(Encode(text, FALSE), FALSE) = Repaired(text)
                      /\ \A text \in Texts : Decode(Encode(text, FALSE), FALSE) = text
  OBVIOUS
<1>2. ASSUME NEW text \in Seq(Byte)
      PROVE  Decode(Encode(text, FALSE), FALSE) = Repaired(text)
  <2> DEFINE ids == EncodeSpans(text)
  <2>1. Encode(text, FALSE) = ids
    BY DEF Encode, Closed
  <2>2. ids \in Seq(Ids) /\ Spread(read, ids) = text
    <3> HIDE DEF read
    <3>1. QED
      BY <1>1, SpansAreRead
  <2> HIDE DEF ids
  <2>3. \A n \in DOMAIN ids : IdBytes(ids[n], FALSE) = read[ids[n]]
    <3>1. \A n \in DOMAIN ids : ids[n] \in Ids
      <4>1. ids \in Seq(Ids)
        BY <2>2
      <4>2. QED
        BY <4>1
    <3>2. \A id \in Ids : read[id] = IdBytes(id, FALSE)
      BY DEF read
    <3> HIDE DEF read
    <3>3. QED
      BY <3>1, <3>2
  <2>4. [n \in DOMAIN ids |-> IdBytes(ids[n], FALSE)] = [n \in DOMAIN ids |-> read[ids[n]]]
    BY <2>3
  <2>5. Decode(ids, FALSE) = Repaired(Spread(read, ids))
    BY <2>4, Zenon DEF Decode, Spread
  <2>6. QED
    BY <2>1, <2>2, <2>5
<1>3. ASSUME NEW text \in Texts
      PROVE  text \in Seq(Byte) /\ Repaired(text) = text
  <2>1. PICK chars \in Seq(Characters) : text = FlattenSeq(chars)
    BY DEF Texts
  <2>2. Characters \subseteq Seq(Byte)
    BY CharacterIs DEF Characters
  <2>3. chars \in Seq(Seq(Byte))
    BY <2>2, SeqMonotonic
  <2>4. FlattenSeq(chars) \in Seq(Byte)
    BY <2>3, FlattenAppends
  <2>5. QED
    BY <2>1, <2>4, CharactersStay
<1>4. QED
  BY <1>2, <1>3

-----------------------------------------------------------------------------
(***************************************************************************)
(* The sampler                                                             *)
(***************************************************************************)
\* A finite set of integers has a highest one.
LEMMA FiniteHasMax ==
    ASSUME NEW S \in SUBSET Int, IsFiniteSet(S), S # {}
    PROVE  Max(S) \in S /\ \A x \in S : x <= Max(S)
<1> DEFINE Top(s) == \E x \in s : \A y \in s : y <= x
           Bad == {s \in SUBSET S : s # {} /\ ~Top(s)}
<1>1. Bad = {}
  <2>1. SUFFICES ASSUME Bad # {}
                 PROVE  FALSE
    OBVIOUS
  <2>2. PICK s \in Bad : \A t \in SUBSET s : t # s => t \notin Bad
    <3>1. Bad \in SUBSET SUBSET S
      OBVIOUS
    <3> HIDE DEF Bad
    <3>2. QED
      BY <2>1, <3>1, LeastSubset
  <2>3. PICK x \in s : TRUE
    BY <2>2
  <2> DEFINE rest == s \ {x}
  <2>4. rest \in SUBSET s /\ rest # s /\ rest \in SUBSET S
    BY <2>2, <2>3
  <2>5. rest # {} /\ Top(rest)
    <3>1. rest = {} => Top(s)
      BY <2>2, <2>3
    <3>2. rest \notin Bad
      BY <2>2, <2>4
    <3>3. QED
      BY <2>2, <2>4, <3>1, <3>2
  <2>6. PICK m \in rest : \A y \in rest : y <= m
    BY <2>5
  <2>7. m \in s /\ m \in Int /\ x \in Int
    BY <2>2, <2>3, <2>4
  <2>8. CASE x <= m
    BY <2>2, <2>6, <2>7, <2>8
  <2>9. CASE ~(x <= m)
    <3>1. \A y \in s : y <= x
      <4>1. SUFFICES ASSUME NEW y \in s, y # x
                     PROVE  y <= x
        BY <2>7
      <4>2. y \in rest /\ y \in Int
        BY <2>2, <4>1
      <4>3. QED
        BY <2>6, <2>7, <2>9, <4>2
    <3>2. QED
      BY <2>2, <2>3, <3>1
  <2>10. QED
    BY <2>8, <2>9
<1>2. Top(S)
  BY <1>1
<1>3. PICK x \in S : \A y \in S : x >= y
  BY <1>2
<1>4. Max(S) \in S /\ \A y \in S : Max(S) >= y
  BY <1>3 DEF Max
<1>5. QED
  BY <1>4

\* There are finitely many tokens.
LEMMA TokensAreFinite ==
    /\ IsFiniteSet(Tokens) /\ Tokens # {} /\ 1 \in Tokens /\ Vocab \in Tokens
    /\ Cardinality(Tokens) = Vocab /\ Vocab \in Nat \ {0}
    /\ \A S \in SUBSET Tokens : IsFiniteSet(S) /\ Cardinality(S) \in Nat
<1>1. Vocab \in Nat \ {0}
  BY VocabIsPositive
<1>2. IsFiniteSet(1..Vocab) /\ Cardinality(1..Vocab) = Vocab
  BY <1>1, FS_Interval
<1>3. IsFiniteSet(Tokens) /\ Cardinality(Tokens) = Vocab /\ 1 \in Tokens /\ Vocab \in Tokens
  BY <1>1, <1>2 DEF Tokens
<1>4. ASSUME NEW S \in SUBSET Tokens
      PROVE  IsFiniteSet(S) /\ Cardinality(S) \in Nat
  BY <1>3, FS_Subset, FS_CardinalityType
<1>5. QED
  BY <1>1, <1>3, <1>4

\* Some token of a set has the highest value of the set.
LEMMA HighestToken ==
    ASSUME NEW S \in SUBSET Tokens, S # {}, NEW f, \A t \in S : f[t] \in Int
    PROVE  \E t \in S : \A u \in S : f[u] <= f[t]
<1> DEFINE V == {f[t] : t \in S}
           g == [t \in S |-> f[t]]
<1>1. g \in Surjection(S, V)
  BY DEF Surjection
<1>2. IsFiniteSet(S)
  BY TokensAreFinite
<1> HIDE DEF g
<1>3. IsFiniteSet(V)
  <2> HIDE DEF V
  <2>1. QED
    BY <1>1, <1>2, FS_Surjection
<1>4. V \in SUBSET Int /\ V # {}
  OBVIOUS
<1>5. Max(V) \in V /\ \A x \in V : x <= Max(V)
  <2> HIDE DEF V
  <2>1. QED
    BY <1>3, <1>4, FiniteHasMax
<1>6. QED
  BY <1>5

\* max_element
LEMMA HighestLogit ==
    ASSUME NEW logits \in [Tokens -> Int]
    PROVE  /\ Highest(logits) \in Int
           /\ \E t \in Tokens : logits[t] = Highest(logits)
           /\ \A t \in Tokens : logits[t] <= Highest(logits)
<1> DEFINE V == {logits[t] : t \in Tokens}
<1>1. PICK t \in Tokens : \A u \in Tokens : logits[u] <= logits[t]
  BY TokensAreFinite, HighestToken
<1>2. V \in SUBSET Int /\ logits[t] \in V /\ \A x \in V : logits[t] >= x
  BY <1>1
<1>3. Max(V) \in V /\ \A x \in V : Max(V) >= x
  BY <1>2 DEF Max
<1>4. QED
  BY <1>3 DEF Highest

\* A token has a weight unless it is out of the reach of the highest.
LEMMA WeightsReach ==
    ASSUME NEW logits \in [Tokens -> Int]
    PROVE  /\ Weights(logits) \in [Tokens -> Nat]
           /\ \A t \in Tokens :
                Weights(logits)[t] > 0 <=> Highest(logits) - logits[t] <= Reach
<1>1. ASSUME NEW t \in Tokens
      PROVE  LET d == Highest(logits) - logits[t]
                 w == IF d > Reach THEN 0 ELSE Exp[d]
             IN w \in Nat /\ (w > 0 <=> d <= Reach)
  <2> DEFINE d == Highest(logits) - logits[t]
  <2>1. d \in Nat /\ Reach \in Nat
    BY HighestLogit, ExpIsPositive
  <2>2. d <= Reach => Exp[d] \in Nat \ {0}
    BY <2>1, ExpIsPositive
  <2> HIDE DEF d
  <2>3. QED
    BY <2>1, <2>2 DEF d
<1>2. QED
  BY <1>1 DEF Weights

-----------------------------------------------------------------------------
\* An order names each token of the set once.
LEMMA OrderIsBijective ==
    ASSUME NEW S \in SUBSET Tokens, NEW order \in Orders[S]
    PROVE  /\ Cardinality(S) \in Nat
           /\ order \in [1..Cardinality(S) -> S]
           /\ \A i, j \in 1..Cardinality(S) : order[i] = order[j] => i = j
           /\ \A t \in S : \E i \in 1..Cardinality(S) : order[i] = t
<1> DEFINE n == Cardinality(S)
<1>1. n \in Nat /\ IsFiniteSet(S)
  BY TokensAreFinite
<1>2. order \in [1..n -> S] /\ \A i, j \in 1..n : i # j => order[i] # order[j]
  BY DEF Orders, SetToSeqs
<1> HIDE DEF n
<1>3. order \in Injection(1..n, S)
  BY <1>2 DEF Injection, IsInjective
<1>4. IsFiniteSet(1..n) /\ Cardinality(1..n) = n
  BY <1>1, FS_Interval
<1>5. order \in Surjection(1..n, S)
  BY <1>1, <1>3, <1>4, FS_Injection DEF n
<1>6. QED
  BY <1>1, <1>2, <1>5 DEF Surjection, n

\* Tokens can be sorted, whatever the key.
LEMMA SortedExists ==
    ASSUME NEW S \in SUBSET Tokens, NEW key, \A t \in S : key[t] \in Int
    PROVE  \E order : order \in Sorted(S, key)
<1> DEFINE Bad == {s \in SUBSET S : ~\E order : order \in Sorted(s, key)}
<1>1. SUFFICES ASSUME Bad # {}
               PROVE  FALSE
  OBVIOUS
<1>2. PICK s \in Bad : \A t \in SUBSET s : t # s => t \notin Bad
  <2>1. Bad \in SUBSET SUBSET S /\ IsFiniteSet(S)
    BY TokensAreFinite
  <2> HIDE DEF Bad
  <2>2. QED
    BY <1>1, <2>1, LeastSubset
<1>3. s \in SUBSET Tokens /\ IsFiniteSet(s) /\ \A t \in s : key[t] \in Int
  BY <1>2, TokensAreFinite
<1>4. CASE s = {}
  <2> DEFINE none == [i \in 1..0 |-> 0]
  <2>1. Cardinality(s) = 0
    BY <1>4, FS_EmptySet
  <2>2. none \in [1..0 -> s] /\ \A i, j \in 1..0 : i # j => none[i] # none[j]
    OBVIOUS
  <2>3. none \in Orders[s]
    BY <1>3, <2>1, <2>2 DEF Orders, SetToSeqs
  <2>4. DOMAIN none = {}
    OBVIOUS
  <2> HIDE DEF none
  <2>5. none \in Sorted(s, key)
    BY <2>3, <2>4 DEF Sorted
  <2>6. QED
    BY <1>2, <2>5
<1>5. CASE s # {}
  <2> DEFINE minus == [t \in s |-> -key[t]]
  <2>0. \A u \in s : minus[u] = -key[u] /\ minus[u] \in Int
    BY <1>3
  <2>1. PICK x \in s : \A u \in s : minus[u] <= minus[x]
    <3> HIDE DEF minus
    <3>1. QED
      BY <1>3, <1>5, <2>0, HighestToken
  <2>2. \A u \in s : key[x] <= key[u]
    <3>1. SUFFICES ASSUME NEW u \in s
                   PROVE  key[x] <= key[u]
      OBVIOUS
    <3>2. -key[u] <= -key[x] /\ key[u] \in Int /\ key[x] \in Int
      BY <1>3, <2>0, <2>1
    <3>3. QED
      BY <3>2
  <2> DEFINE rest == s \ {x}
             n == Cardinality(s)
  <2>3. rest \in SUBSET s /\ rest # s /\ rest \in SUBSET S /\ rest \in SUBSET Tokens
    BY <1>2, <1>3
  <2>4. n \in Nat \ {0} /\ Cardinality(rest) = n - 1
    <3>1. n \in Nat /\ n # 0
      BY <1>3, <1>5, TokensAreFinite, FS_EmptySet
    <3>2. QED
      BY <1>3, <3>1, FS_RemoveElement
  <2>5. PICK o : o \in Sorted(rest, key)
    BY <1>2, <2>3
  <2>6. o \in Orders[rest] /\ \A i, j \in DOMAIN o : i < j => key[o[i]] <= key[o[j]]
    BY <2>5 DEF Sorted
  <2> HIDE DEF n, rest
  <2>7. /\ o \in [1..(n - 1) -> rest]
        /\ \A i, j \in 1..(n - 1) : o[i] = o[j] => i = j
    BY <2>3, <2>4, <2>6, OrderIsBijective
  <2> DEFINE all == [i \in 1..n |-> IF i = 1 THEN x ELSE o[i - 1]]
  <2>8. \A i \in 1..n : i # 1 => i - 1 \in 1..(n - 1) /\ all[i] = o[i - 1] /\ o[i - 1] \in rest
    BY <2>4, <2>7
  <2>9. 1 \in 1..n /\ all[1] = x /\ DOMAIN all = 1..n
    BY <2>4
  <2>10. x \notin rest /\ \A t \in rest : t \in s
    BY DEF rest
  <2>11. all \in [1..n -> s]
    BY <2>1, <2>8, <2>10
  <2> HIDE DEF all
  <2>12. ASSUME NEW i \in 1..n, NEW j \in 1..n, i # j
         PROVE  all[i] # all[j]
    <3>1. CASE i = 1
      BY <2>8, <2>9, <2>10, <2>12, <3>1
    <3>2. CASE j = 1
      BY <2>8, <2>9, <2>10, <2>12, <3>2
    <3>3. CASE i # 1 /\ j # 1
      <4>1. i - 1 # j - 1
        BY <2>4, <2>12
      <4>2. QED
        BY <2>7, <2>8, <3>3, <4>1
    <3>4. QED
      BY <3>1, <3>2, <3>3
  <2>13. ASSUME NEW i \in 1..n, NEW j \in 1..n, i < j
         PROVE  key[all[i]] <= key[all[j]]
    <3>1. CASE i = 1
      BY <2>2, <2>9, <2>11, <3>1
    <3>2. CASE i # 1
      <4>1. j # 1 /\ i - 1 < j - 1
        BY <2>4, <2>13, <3>2
      <4>2. QED
        BY <2>6, <2>7, <2>8, <3>2, <4>1
    <3>3. QED
      BY <3>1, <3>2
  <2>14. all \in Orders[s]
    BY <1>3, <2>11, <2>12 DEF Orders, SetToSeqs, n
  <2>15. all \in Sorted(s, key)
    BY <2>9, <2>13, <2>14 DEF Sorted
  <2>16. QED
    BY <1>2, <2>15
<1>6. QED
  BY <1>4, <1>5

-----------------------------------------------------------------------------
\* Top-k keeps a logit or masks it, and keeps only those among the k best.
LEMMA TopKKeepsTheBest ==
    ASSUME NEW logits \in [Tokens -> Int], NEW k \in Int
    PROVE  /\ ApplyTopK(logits, k) \in [Tokens -> Int]
           /\ \A t \in Tokens :
                \/ ApplyTopK(logits, k)[t] = Masked
                \/ ApplyTopK(logits, k)[t] = logits[t] /\ AmongTheBest(logits, k, t)
           /\ \E t \in Tokens : ApplyTopK(logits, k)[t] = logits[t]
<1>1. Vocab \in Nat \ {0} /\ Masked \in Int
  BY TokensAreFinite, MaskedIsFarBelow
<1>2. CASE k <= 0
  BY <1>2, TokensAreFinite DEF ApplyTopK, AmongTheBest
<1>3. CASE ~(k <= 0) /\ k >= Vocab
  <2>1. ASSUME NEW t \in Tokens
        PROVE  AmongTheBest(logits, k, t)
    <3> DEFINE better == {u \in Tokens : logits[u] > logits[t]}
    <3>1. better \in SUBSET Tokens /\ better # Tokens
      OBVIOUS
    <3>2. Cardinality(better) <= Vocab /\ Cardinality(better) # Vocab /\ Cardinality(better) \in Nat
      <4> HIDE DEF better
      <4>1. QED
        BY <3>1, TokensAreFinite, FS_Subset
    <3> HIDE DEF better
    <3>3. Cardinality(better) < k
      BY <1>1, <1>3, <3>2
    <3>4. QED
      BY <3>3 DEF AmongTheBest, better
  <2>2. QED
    BY <1>3, <2>1, TokensAreFinite DEF ApplyTopK
<1>4. CASE ~(k <= 0) /\ ~(k >= Vocab)
  <2> DEFINE order == CHOOSE o \in Sorted(Tokens, Descending(logits)) : TRUE
  <2>1. order \in Sorted(Tokens, Descending(logits))
    <3>1. \A t \in Tokens : Descending(logits)[t] \in Int
      BY DEF Descending
    <3>2. \E o : o \in Sorted(Tokens, Descending(logits))
      BY <3>1, SortedExists
    <3>3. QED
      BY <3>2
  <2>2. ApplyTopK(logits, k) =
            [t \in Tokens |-> IF logits[t] < logits[order[k]] THEN Masked ELSE logits[t]]
    BY <1>4 DEF ApplyTopK
  <2> HIDE DEF order
  <2>3. /\ order \in [1..Vocab -> Tokens]
        /\ \A i, j \in 1..Vocab : order[i] = order[j] => i = j
        /\ \A t \in Tokens : \E i \in 1..Vocab : order[i] = t
    BY <2>1, TokensAreFinite, OrderIsBijective DEF Sorted
  <2>4. \A i, j \in 1..Vocab : i < j => logits[order[j]] <= logits[order[i]]
    <3>1. SUFFICES ASSUME NEW i \in 1..Vocab, NEW j \in 1..Vocab, i < j
                   PROVE  logits[order[j]] <= logits[order[i]]
      OBVIOUS
    <3>2. Descending(logits)[order[i]] <= Descending(logits)[order[j]]
      BY <2>1, <2>3, <3>1 DEF Sorted
    <3>3. order[i] \in Tokens /\ order[j] \in Tokens
      BY <2>3
    <3>4. -logits[order[i]] <= -logits[order[j]]
      BY <3>2, <3>3 DEF Descending
    <3>5. QED
      BY <3>3, <3>4
  <2>5. k \in 1..Vocab /\ order[k] \in Tokens
    BY <1>1, <1>4, <2>3
  <2>6. ASSUME NEW t \in Tokens, ~(logits[t] < logits[order[k]])
        PROVE  AmongTheBest(logits, k, t)
    <3> DEFINE better == {u \in Tokens : logits[u] > logits[t]}
               place == [u \in better |-> CHOOSE i \in 1..Vocab : order[i] = u]
    <3>1. ASSUME NEW u \in better
          PROVE  place[u] \in 1..(k - 1) /\ order[place[u]] = u
      <4>1. place[u] \in 1..Vocab /\ order[place[u]] = u
        BY <2>3
      <4>2. logits[u] > logits[order[k]]
        BY <2>5, <2>6
      <4>3. place[u] # k /\ ~(k < place[u])
        BY <2>4, <2>5, <4>1, <4>2
      <4> HIDE DEF place
      <4>4. QED
        BY <1>1, <2>5, <4>1, <4>3
    <3>2. place \in [better -> 1..(k - 1)]
      BY <3>1
    <3>3. place \in Injection(better, 1..(k - 1))
      <4>1. ASSUME NEW u \in better, NEW v \in better, place[u] = place[v]
            PROVE  u = v
        <5>1. order[place[u]] = u /\ order[place[v]] = v
          BY <3>1
        <5> HIDE DEF place
        <5>2. QED
          BY <4>1, <5>1
      <4>2. DOMAIN place = better
        OBVIOUS
      <4> HIDE DEF place, better
      <4>3. QED
        BY <3>2, <4>1, <4>2 DEF Injection, IsInjective
    <3>4. IsFiniteSet(1..(k - 1)) /\ Cardinality(1..(k - 1)) = k - 1
      BY <2>5, FS_Interval
    <3>5. Cardinality(better) <= k - 1 /\ Cardinality(better) \in Nat
      <4>1. better \in SUBSET Tokens
        OBVIOUS
      <4> HIDE DEF place, better
      <4>2. QED
        BY <3>3, <3>4, <4>1, FS_Injection, TokensAreFinite
    <3> HIDE DEF better
    <3>6. Cardinality(better) < k
      BY <3>5
    <3>7. QED
      BY <3>6 DEF AmongTheBest, better
  <2>7. QED
    BY <1>1, <2>2, <2>5, <2>6
<1>5. QED
  BY <1>2, <1>3, <1>4

-----------------------------------------------------------------------------
\* What the numbers of the model are.
LEMMA DrawNumbers ==
    /\ Masked \in Int /\ Reach \in Nat /\ Masked < -Reach /\ Masked < 0
    /\ Lowest \in Int /\ Lowest <= 0 /\ Strongest \in Nat /\ Strongest >= 4
    /\ Logits \subseteq Int /\ Window \in Seq(Int)
<1>1. Masked \in Int /\ Reach \in Nat /\ Masked < -Reach
  BY MaskedIsFarBelow, ExpIsPositive
<1>2. Masked < 0
  BY <1>1
<1>3. QED
  BY <1>1, <1>2, PenaltiesStandClearOfTheMask, LogitsAreWhole, WindowIsASequence

\* The strongest penalty takes no logit up that is not positive.
LEMMA SunkIsLower ==
    ASSUME NEW low \in Int
    PROVE  /\ Sunk(low) \in Int
           /\ low <= 0 => Sunk(low) <= low
           /\ \A x \in Int : low * Strongest <= x => Sunk(low) <= x \div 4
<1>1. Strongest \in Nat /\ Strongest >= 4
  BY DrawNumbers
<1> DEFINE product == low * Strongest
<1>2. product \in Int
  <2>1. \A x \in Int, y \in Nat : x * y \in Int
    OBVIOUS
  <2>2. QED
    BY <1>1, <2>1
<1>3. low <= 0 => product <= 4 * low
  <2>1. \A x \in Int, y \in Nat : x <= 0 /\ y >= 4 => x * y <= 4 * x
    OBVIOUS
  <2>2. QED
    BY <1>1, <2>1
<1>4. Sunk(low) = product \div 4
  BY DEF Sunk
<1> HIDE DEF product
<1>5. \A x, y \in Int : x \div 4 \in Int /\ (x <= y => x \div 4 <= y \div 4) /\ (4 * y) \div 4 = y
  OBVIOUS
<1>6. 4 * low \in Int
  OBVIOUS
<1>7. QED
  BY <1>2, <1>3, <1>4, <1>5, <1>6 DEF product

\* The floor under a logit sinks with each penalty.
LEMMA FloorSinks ==
    /\ Floor \in [Nat -> Int]
    /\ Floor[0] = Lowest
    /\ \A i \in Nat : Floor[i + 1] = Sunk(Floor[i]) /\ Floor[i] <= 0
    /\ \A n \in Nat : \A i \in 0..n : Floor[n] <= Floor[i]
<1> DEFINE step == [x \in Int |-> Sunk(x)]
           Eq(f) == f = [i \in Nat |-> IF i = 0 THEN Lowest ELSE Sunk(f[i - 1])]
<1>1. Lowest \in Int /\ Lowest <= 0 /\ \A x \in Int : Sunk(x) \in Int /\ (x <= 0 => Sunk(x) <= x)
  BY DrawNumbers, SunkIsLower
<1>2. step \in [Int -> Int]
  BY <1>1
<1>3. PICK g \in [Nat -> Int] : g[0] = Lowest /\ \A i \in Nat : g[i + 1] = step[g[i]]
  <2> DEFINE V == Int
  <2>1. Lowest \in V /\ step \in [V -> V]
    BY <1>1, <1>2
  <2> HIDE DEF step, V
  <2>2. \E g \in [Nat -> V] : g[0] = Lowest /\ \A i \in Nat : g[i + 1] = step[g[i]]
    BY <2>1, IterationExists
  <2>3. QED
    BY <2>2 DEF V
<1>4. \A i \in Nat : g[i + 1] = Sunk(g[i])
  BY <1>1, <1>3
<1>5. Eq(g)
  <2>1. ASSUME NEW i \in Nat
        PROVE  g[i] = IF i = 0 THEN Lowest ELSE Sunk(g[i - 1])
    <3>1. CASE i = 0
      BY <1>3, <3>1
    <3>2. CASE i # 0
      <4>1. i - 1 \in Nat /\ (i - 1) + 1 = i
        BY <3>2
      <4>2. g[(i - 1) + 1] = Sunk(g[i - 1])
        BY <1>4, <4>1
      <4>3. QED
        BY <3>2, <4>1, <4>2
    <3>3. QED
      BY <3>1, <3>2
  <2>2. QED
    BY <1>3, <2>1
<1>6. Floor = CHOOSE f : Eq(f)
  BY DEF Floor
<1>7. Eq(Floor)
  <2> HIDE DEF Eq
  <2>1. QED
    BY <1>5, <1>6
<1>8. \A i \in Nat : Floor[i] = IF i = 0 THEN Lowest ELSE Sunk(Floor[i - 1])
  BY <1>7
<1>9. \A i \in Nat : Floor[i + 1] = Sunk(Floor[i])
  <2>1. SUFFICES ASSUME NEW i \in Nat
                 PROVE  Floor[i + 1] = Sunk(Floor[i])
    OBVIOUS
  <2>2. i + 1 \in Nat /\ i + 1 # 0 /\ (i + 1) - 1 = i
    OBVIOUS
  <2>3. QED
    BY <1>8, <2>2
<1>10. Floor[0] = Lowest /\ DOMAIN Floor = Nat
  BY <1>7, <1>8
<1>11. ASSUME NEW n \in Nat
       PROVE  Floor[n] \in Int /\ Floor[n] <= 0
  <2> DEFINE Good == {i \in Nat : Floor[i] \in Int /\ Floor[i] <= 0}
  <2>1. 0 \in Good
    BY <1>1, <1>10
  <2>2. ASSUME NEW i \in Good, i < n
        PROVE  i + 1 \in Good
    <3>1. i \in Nat /\ Floor[i] \in Int /\ Floor[i] <= 0 /\ i + 1 \in Nat
      OBVIOUS
    <3>2. Floor[i + 1] = Sunk(Floor[i])
      BY <1>9, <3>1
    <3>3. QED
      BY <1>1, <3>1, <3>2
  <2> HIDE DEF Good
  <2>3. n \in Good
    BY <2>1, <2>2, CountUp
  <2>4. QED
    BY <2>3 DEF Good
<1>12. \A i \in Nat : Floor[i + 1] <= Floor[i]
  <2>1. SUFFICES ASSUME NEW i \in Nat
                 PROVE  Floor[i + 1] <= Floor[i]
    OBVIOUS
  <2>2. QED
    BY <1>1, <1>9, <1>11
<1>13. ASSUME NEW n \in Nat, NEW i \in 0..n
       PROVE  Floor[n] <= Floor[i]
  <2> DEFINE Good == {j \in Nat : Floor[i + j] <= Floor[i]}
  <2>1. 0 \in Good
    BY <1>11
  <2>2. ASSUME NEW j \in Good, j < n - i
        PROVE  j + 1 \in Good
    <3>1. i + j \in Nat /\ (i + j) + 1 = i + (j + 1) /\ i + (j + 1) \in Nat /\ j + 1 \in Nat /\ i \in Nat
      OBVIOUS
    <3>2. Floor[(i + j) + 1] <= Floor[i + j]
      BY <1>12, <3>1
    <3>3. Floor[i + j] <= Floor[i]
      OBVIOUS
    <3>4. Floor[i + j] \in Int /\ Floor[i] \in Int /\ Floor[i + (j + 1)] \in Int
      BY <1>11, <3>1
    <3>5. QED
      BY <3>1, <3>2, <3>3, <3>4
  <2>3. n - i \in Nat
    OBVIOUS
  <2> HIDE DEF Good
  <2>4. n - i \in Good
    BY <2>1, <2>2, <2>3, CountUp
  <2>5. i + (n - i) = n
    OBVIOUS
  <2>6. QED
    BY <2>4, <2>5 DEF Good
<1>14. Floor = [i \in Nat |-> IF i = 0 THEN Lowest ELSE Sunk(Floor[i - 1])]
  BY <1>7
<1>15. Floor \in [Nat -> Int]
  <2>1. \A i \in Nat : (IF i = 0 THEN Lowest ELSE Sunk(Floor[i - 1])) \in Int
    BY <1>8, <1>11
  <2>2. [i \in Nat |-> IF i = 0 THEN Lowest ELSE Sunk(Floor[i - 1])] \in [Nat -> Int]
    BY <2>1
  <2>3. QED
    BY <1>14, <2>2
<1>16. QED
  BY <1>9, <1>10, <1>11, <1>13, <1>15

\* A penalty takes no logit through the next floor, and one that is no boost
\* leaves a masked logit masked.
LEMMA DepressedFromAbove ==
    ASSUME NEW l \in Int, NEW p \in Nat \ {0}, p <= Strongest
    PROVE  /\ Depressed(l, p) \in Int
           /\ 4 < p /\ l <= Masked => Depressed(l, p) <= Masked
           /\ \A low \in Int : low <= 0 /\ low <= l => Sunk(low) <= Depressed(l, p)
<1>1. Masked \in Int /\ Masked < 0 /\ Strongest \in Nat
  BY DrawNumbers
<1>2. CASE l < 0
  <2> DEFINE product == l * p
  <2>1. Depressed(l, p) = product \div 4
    BY <1>2 DEF Depressed
  <2>2. product \in Int /\ (4 < p => product <= 4 * l)
    <3>1. \A x \in Int, y \in Nat : x < 0 => x * y \in Int /\ (4 < y => x * y <= 4 * x)
      OBVIOUS
    <3>2. QED
      BY <1>2, <3>1
  <2>3. ASSUME NEW low \in Int, low <= 0, low <= l
        PROVE  Sunk(low) <= product \div 4
    <3>1. low * Strongest <= low * p
      <4>1. \A x \in Int, y, z \in Nat : x <= 0 /\ y <= z => x * z <= x * y
        OBVIOUS
      <4>2. QED
        BY <1>1, <2>3, <4>1
    <3>2. low * p <= product
      <4>1. \A x, y \in Int, z \in Nat : x <= y => x * z <= y * z
        OBVIOUS
      <4>2. QED
        BY <2>3, <4>1
    <3>3. low * Strongest \in Int /\ low * p \in Int
      BY <1>1
    <3> HIDE DEF product
    <3>4. low * Strongest <= product
      BY <2>2, <3>1, <3>2, <3>3
    <3>5. QED
      BY <2>2, <2>3, <3>4, SunkIsLower
  <2> HIDE DEF product
  <2>4. product \div 4 \in Int /\ (4 < p => product \div 4 <= l)
    BY <2>2
  <2>5. QED
    BY <1>1, <2>1, <2>3, <2>4
<1>3. CASE ~(l < 0)
  <2>1. Depressed(l, p) = (l * 4) \div p
    BY <1>3 DEF Depressed
  <2>2. (l * 4) \div p \in Int /\ (l * 4) \div p >= 0
    <3>1. \A x \in Nat, y \in Nat \ {0} : x \div y \in Int /\ x \div y >= 0
      OBVIOUS
    <3>2. l * 4 \in Nat
      BY <1>3
    <3>3. QED
      BY <3>1, <3>2
  <2>3. ASSUME NEW low \in Int, low <= 0
        PROVE  Sunk(low) <= 0 /\ Sunk(low) \in Int
    <3>1. Sunk(low) \in Int /\ Sunk(low) <= low
      BY <2>3, SunkIsLower
    <3>2. QED
      BY <2>3, <3>1
  <2>4. QED
    BY <1>1, <1>3, <2>1, <2>2, <2>3
<1>4. QED
  BY <1>2, <1>3

\* The repetition penalty leaves masked logits masked, unless it is a boost,
\* and no logit below the floor for the length of the window.
LEMMA RepetitionStaysAboveTheFloor ==
    ASSUME NEW logits \in [Tokens -> Int], NEW p \in Int, p <= Strongest, NEW window \in Seq(Int)
    PROVE  LET fresh == ApplyRepetitionPenalty(logits, p, window)
           IN /\ fresh \in [Tokens -> Int]
              /\ p \notin 1..3 => \A t \in Tokens : logits[t] <= Masked => fresh[t] <= Masked
              /\ \A t \in Tokens : Lowest <= logits[t] => Floor[Len(window)] <= fresh[t]
<1> DEFINE n == Len(window)
           V == [Tokens -> Int]
           Step(work, i) ==
              IF window[i] \notin Tokens THEN work
              ELSE [work EXCEPT ![window[i]] = Depressed(@, p)]
           Eq(g) == g = [s \in SUBSET DOMAIN window |->
                IF s = {} THEN logits ELSE Step(g[s \ {Max(s)}], Max(s))]
<1>1. n \in Nat /\ DOMAIN window = 1..n
  OBVIOUS
<1>2. CASE p <= 0 \/ p = 4
  <2>1. ApplyRepetitionPenalty(logits, p, window) = logits
    BY <1>2 DEF ApplyRepetitionPenalty
  <2>2. Floor[n] <= Lowest /\ Floor[n] \in Int /\ Lowest \in Int
    <3>1. 0 \in 0..n
      BY <1>1
    <3>2. QED
      BY <1>1, <3>1, FloorSinks, DrawNumbers
  <2> HIDE DEF n
  <2>3. \A t \in Tokens : Lowest <= logits[t] => Floor[n] <= logits[t]
    BY <2>2
  <2>4. QED
    BY <2>1, <2>3 DEF n
<1>3. CASE ~(p <= 0 \/ p = 4)
  <2>1. ApplyRepetitionPenalty(logits, p, window) = (CHOOSE g : Eq(g))[DOMAIN window]
    BY <1>3 DEF ApplyRepetitionPenalty, FoldLeft, MapThenFoldSet
  <2>2. p \in Nat \ {0} /\ (p \notin 1..3 => 4 < p)
    BY <1>3
  <2> HIDE DEF n
  <2>3. IsFiniteSet(1..n)
    BY <1>1, FS_Interval
  <2>4. ASSUME NEW work \in V, NEW i \in 1..n
        PROVE  /\ Step(work, i) \in V
               /\ \A t \in Tokens : Step(work, i)[t] = work[t] \/ Step(work, i)[t] = Depressed(work[t], p)
    <3>1. \A t \in Tokens : Depressed(work[t], p) \in Int
      BY <2>2, DepressedFromAbove
    <3>2. QED
      BY <3>1
  <2> HIDE DEF V, Step
  <2>5. logits \in V
    BY DEF V
  <2>6. PICK g \in [SUBSET (1..n) -> V] :
            IsFold(g, 1..n, logits, [q \in (1..n) \X V |-> Step(q[2], q[1])], Latest(n))
    <3> DEFINE op == [q \in (1..n) \X V |-> Step(q[2], q[1])]
               places == 1..n
               latest == Latest(n)
    <3>1. op \in [places \X V -> V]
      BY <2>4
    <3>2. \A s \in SUBSET places : s # {} => latest[s] \in s
      BY <1>1, LatestIsMax
    <3>3. IsFiniteSet(places)
      BY <2>3
    <3> HIDE DEF op, places, latest
    <3>4. \E g \in [SUBSET places -> V] : IsFold(g, places, logits, op, latest)
      BY <2>5, <3>1, <3>2, <3>3, FoldExists
    <3>5. QED
      BY <3>4 DEF op, places, latest
  <2>7. \A s \in SUBSET (1..n) :
            g[s] = IF s = {} THEN logits ELSE Step(g[s \ {Max(s)}], Max(s))
    <3>1. SUFFICES ASSUME NEW s \in SUBSET (1..n)
                   PROVE  g[s] = IF s = {} THEN logits ELSE Step(g[s \ {Max(s)}], Max(s))
      OBVIOUS
    <3>2. CASE s = {}
      BY <2>6, <3>2 DEF IsFold
    <3>3. CASE s # {}
      <4>1. Max(s) \in s /\ Latest(n)[s] = Max(s)
        BY <1>1, <3>3, LatestIsMax
      <4> DEFINE last == Max(s)
                 rest == g[s \ {last}]
      <4>2. rest \in V /\ last \in 1..n
        BY <2>6, <4>1
      <4>3. g[s] = [q \in (1..n) \X V |-> Step(q[2], q[1])][<<last, rest>>]
        BY <2>6, <3>3, <4>1 DEF IsFold
      <4> HIDE DEF last, rest
      <4>4. g[s] = Step(rest, last)
        BY <4>2, <4>3
      <4>5. QED
        BY <3>3, <4>4 DEF last, rest
    <3>4. QED
      BY <3>2, <3>3
  <2>8. Eq(g)
    BY <1>1, <2>7
  <2> DEFINE all == CHOOSE f : Eq(f)
  <2>9. Eq(all)
    <3> HIDE DEF Eq
    <3>1. QED
      BY <2>8
  <2>10. \A s \in SUBSET (1..n) :
            all[s] = IF s = {} THEN logits ELSE Step(all[s \ {Max(s)}], Max(s))
    BY <1>1, <2>9
  <2>11. ApplyRepetitionPenalty(logits, p, window) = all[1..n]
    BY <1>1, <2>1
  <2> HIDE DEF all, Eq
  <2> DEFINE Fine(work, i) ==
                /\ work \in V
                /\ p \notin 1..3 => \A t \in Tokens : logits[t] <= Masked => work[t] <= Masked
                /\ \A t \in Tokens : Lowest <= logits[t] => Floor[i] <= work[t]
             Good == {i \in 0..n : Fine(all[1..i], i)}
  <2>12. 0 \in Good
    <3>1. 1..0 = {} /\ {} \in SUBSET (1..n) /\ 0 \in 0..n
      BY <1>1
    <3>2. all[1..0] = logits
      BY <2>10, <3>1
    <3>3. QED
      BY <2>5, <3>1, <3>2, FloorSinks
  <2>13. ASSUME NEW i \in Good, i < n
         PROVE  i + 1 \in Good
    <3>1. i + 1 \in 1..n /\ i + 1 \in 0..n /\ (i + 1) - 1 = i /\ i \in Nat
      BY <1>1, <2>13
    <3>2. /\ 1..(i + 1) \in SUBSET (1..n) /\ 1..(i + 1) # {} /\ Max(1..(i + 1)) = i + 1
          /\ (1..(i + 1)) \ {i + 1} = 1..i
      BY <1>1, <3>1, UpTo
    <3> DEFINE work == all[1..i]
               next == all[1..(i + 1)]
    <3>3. next = Step(work, i + 1)
      BY <2>10, <3>2
    <3>4. Fine(work, i)
      OBVIOUS
    <3> HIDE DEF work, next
    <3>5. next \in V /\ \A t \in Tokens : next[t] = work[t] \/ next[t] = Depressed(work[t], p)
      BY <2>4, <3>1, <3>3, <3>4
    <3>6. \A t \in Tokens : work[t] \in Int /\ next[t] \in Int
      BY <3>4, <3>5 DEF V
    <3>7. ASSUME p \notin 1..3, NEW t \in Tokens, logits[t] <= Masked
          PROVE  next[t] <= Masked
      <4>1. work[t] <= Masked
        BY <3>4, <3>7
      <4>2. Depressed(work[t], p) <= Masked
        <5>1. 4 < p
          BY <2>2, <3>7
        <5>2. QED
          BY <2>2, <3>6, <4>1, <5>1, DepressedFromAbove
      <4>3. QED
        BY <3>5, <4>1, <4>2
    <3>8. ASSUME NEW t \in Tokens, Lowest <= logits[t]
          PROVE  Floor[i + 1] <= next[t]
      <4>1. Floor[i] <= work[t]
        BY <3>4, <3>8
      <4>2. Floor[i] \in Int /\ Floor[i] <= 0 /\ Floor[i + 1] = Sunk(Floor[i])
            /\ Floor[i + 1] <= Floor[i] /\ Floor[i + 1] \in Int
        <5>1. i \in 0..(i + 1) /\ i + 1 \in Nat
          BY <3>1
        <5>2. QED
          BY <3>1, <5>1, FloorSinks
      <4>3. Floor[i + 1] <= Depressed(work[t], p)
        <5> DEFINE low == Floor[i]
                   l == work[t]
        <5>1. low \in Int /\ low <= 0 /\ low <= l /\ l \in Int
          BY <3>6, <4>1, <4>2
        <5> HIDE DEF low, l
        <5>2. Sunk(low) <= Depressed(l, p)
          BY <2>2, <5>1, DepressedFromAbove
        <5>3. QED
          BY <4>2, <5>2 DEF low, l
      <4>4. QED
        BY <3>5, <3>6, <4>1, <4>2, <4>3
    <3>9. Fine(next, i + 1)
      BY <3>5, <3>7, <3>8
    <3>10. QED
      BY <3>1, <3>9 DEF next
  <2> HIDE DEF Fine, Good
  <2>14. n \in Good
    BY <1>1, <2>12, <2>13, CountUp
  <2>15. Fine(all[1..n], n)
    BY <2>14 DEF Good
  <2>16. QED
    BY <2>11, <2>15 DEF Fine, V, n
<1>4. QED
  BY <1>2, <1>3

\* what the options of a call may be
AreOptions(o) ==
    /\ \A name \in DOMAIN Settings : o[name] \in May(name)
    /\ o.window \in {<<>>, Window}

\* The options are numbers, and within the bounds on the penalties.
LEMMA OptionsAreNumbers ==
    ASSUME NEW o, AreOptions(o)
    PROVE  /\ o.halves \in May("halves") /\ o.frequency \in May("frequency") /\ o.presence \in May("presence")
           /\ o.halves \in Int /\ o.topK \in Int /\ o.penalty \in Int /\ o.frequency \in Int
           /\ o.presence \in Int /\ o.minP \in Int /\ o.typicalP \in Int /\ o.topP \in Int
           /\ o.penalty <= Strongest
           /\ 0 \in May("frequency") /\ 0 \in May("presence")
           /\ o.window \in Seq(Int) /\ Len(o.window) \in 0..Len(Window) /\ Len(Window) \in Nat
<1>1. DOMAIN Settings = {"halves", "topK", "penalty", "frequency", "presence", "minP", "typicalP", "topP"}
  <2>1. DOMAIN Plain = {"halves", "topK", "penalty", "window", "frequency", "presence", "minP", "typicalP", "topP"}
    BY DEF Plain
  <2>2. QED
    BY <2>1, SettingsAreWhole
<1>2. \A name \in DOMAIN Settings : May(name) = Settings[name] \cup {Plain[name]} /\ Settings[name] \subseteq Int
  BY SettingsAreWhole DEF May
<1>3. \A name \in DOMAIN Settings : Plain[name] \in Int
  BY <1>1 DEF Plain
<1>4. \A name \in DOMAIN Settings : o[name] \in May(name) /\ o[name] \in Int
  BY <1>2, <1>3 DEF AreOptions
<1>5. Plain["frequency"] = 0 /\ Plain["presence"] = 0 /\ Plain["penalty"] = 0
  BY DEF Plain
<1>6. o.penalty <= Strongest
  <2>1. o.penalty \in Settings.penalty \/ o.penalty = 0
    BY <1>1, <1>2, <1>4, <1>5
  <2>2. QED
    BY <2>1, DrawNumbers, PenaltiesStandClearOfTheMask
<1>7. Window \in Seq(Int) /\ Len(Window) \in Nat
  BY WindowIsASequence
<1>8. o.window \in Seq(Int) /\ Len(o.window) \in 0..Len(Window)
  <2>1. CASE o.window = <<>>
    BY <1>7, <2>1
  <2>2. CASE o.window = Window
    BY <1>7, <2>2
  <2>3. QED
    BY <2>1, <2>2 DEF AreOptions
<1>9. 0 \in May("frequency") /\ 0 \in May("presence")
  BY <1>1, <1>2, <1>5
<1>10. QED
  BY <1>1, <1>4, <1>6, <1>7, <1>8, <1>9

\* The temperature keeps the order of the logits, above the lowest.
LEMMA TemperatureScales ==
    ASSUME NEW logits \in [Tokens -> Logits], NEW h \in May("halves"), h \in Int
    PROVE  LET scaled == ApplyTemperature(logits, h)
           IN /\ scaled \in [Tokens -> Int]
              /\ \A t \in Tokens : Lowest <= scaled[t]
              /\ \A t, u \in Tokens : logits[t] < logits[u] => scaled[t] < scaled[u]
<1>1. \A t \in Tokens : logits[t] \in Logits /\ logits[t] \in Int /\ Lowest <= logits[t]
  BY DrawNumbers, PenaltiesStandClearOfTheMask
<1>2. CASE h <= 0 \/ h = 2
  BY <1>1, <1>2 DEF ApplyTemperature
<1>3. CASE ~(h <= 0 \/ h = 2)
  <2>1. h \in Settings.halves /\ h > 0 /\ h \in Nat
    BY <1>3 DEF May, Plain
  <2>2. ApplyTemperature(logits, h) = [t \in Tokens |-> (logits[t] * 2) \div h]
    BY <1>3 DEF ApplyTemperature
  <2>3. \A x \in Int : (x * 2) \div h \in Int
    BY <2>1
  <2>4. \A l \in Logits : Lowest <= (l * 2) \div h
    BY <2>1, PenaltiesStandClearOfTheMask
  <2>5. \A l, m \in Logits : l < m => (l * 2) \div h < (m * 2) \div h
    BY <2>1, TemperatureKeepsOrder
  <2> DEFINE Scale(l) == (l * 2) \div h
  <2>6. /\ \A l \in Logits : Scale(l) \in Int /\ Lowest <= Scale(l)
        /\ \A l, m \in Logits : l < m => Scale(l) < Scale(m)
    BY <2>3, <2>4, <2>5, DrawNumbers
  <2>7. ApplyTemperature(logits, h) = [t \in Tokens |-> Scale(logits[t])]
    BY <2>2
  <2> HIDE DEF Scale
  <2>8. QED
    BY <1>1, <2>6, <2>7
<1>4. QED
  BY <1>2, <1>3

\* A token is in the window no more often than the window is long.
LEMMA CountIsBounded ==
    ASSUME NEW t, NEW window \in Seq(Int)
    PROVE  Count(t, window) \in 0..Len(window)
<1> DEFINE n == Len(window)
           places == {i \in 1..n : window[i] = t}
<1>1. n \in Nat /\ DOMAIN window = 1..n
  OBVIOUS
<1> HIDE DEF n
<1>2. IsFiniteSet(1..n) /\ Cardinality(1..n) = n
  BY <1>1, FS_Interval
<1>3. places \in SUBSET (1..n)
  OBVIOUS
<1>4. Count(t, window) = Cardinality(places)
  BY <1>1 DEF Count
<1> HIDE DEF places
<1>5. IsFiniteSet(places) /\ Cardinality(places) <= Cardinality(1..n)
  BY <1>2, <1>3, FS_Subset
<1>6. Cardinality(places) \in Nat
  BY <1>5, FS_CardinalityType
<1>7. QED
  BY <1>1, <1>2, <1>4, <1>5, <1>6 DEF n

\* The penalties together leave masked logits masked, unless there is a boost
\* among them, and the others out of reach of the mask.
LEMMA PenaltiesKeepTheMask ==
    ASSUME NEW logits \in [Tokens -> Int], NEW o, AreOptions(o)
    PROVE  LET new == Discouraged(logits, o)
           IN /\ new \in [Tokens -> Int]
              /\ o.penalty \notin 1..3 => \A t \in Tokens : logits[t] <= Masked => new[t] <= Masked
              /\ \A t \in Tokens : Lowest <= logits[t] => Masked + Reach < new[t]
<1> DEFINE w == o.window
           f == o.frequency
           q == o.presence
           f0 == IF f <= 0 THEN 0 ELSE f
           q0 == IF q <= 0 THEN 0 ELSE q
           fresh == ApplyRepetitionPenalty(logits, o.penalty, w)
           rare == ApplyFrequencyPenalty(fresh, f, w)
           new == ApplyPresencePenalty(rare, q, w)
           m == Len(Window)
           floor == Floor[m]
<1>1. /\ f \in Int /\ q \in Int /\ f0 \in Nat /\ q0 \in Nat
      /\ f0 \in May("frequency") /\ q0 \in May("presence")
      /\ w \in Seq(Int) /\ Len(w) \in 0..m /\ m \in Nat
      /\ o.penalty \in Int /\ o.penalty <= Strongest
  BY OptionsAreNumbers
<1>2. floor \in Int /\ Floor[Len(w)] \in Int /\ floor <= Floor[Len(w)]
  <2> HIDE DEF m, w
  <2>1. Len(w) \in Nat
    BY <1>1
  <2>2. QED
    BY <1>1, <2>1, FloorSinks
<1>3. floor - f0 * m - q0 > Masked + Reach
  BY <1>1, PenaltiesStandClearOfTheMask
<1>4. /\ fresh \in [Tokens -> Int]
      /\ o.penalty \notin 1..3 => \A t \in Tokens : logits[t] <= Masked => fresh[t] <= Masked
      /\ \A t \in Tokens : Lowest <= logits[t] => Floor[Len(w)] <= fresh[t]
  <2> HIDE DEF w
  <2>1. QED
    BY <1>1, RepetitionStaysAboveTheFloor
<1> HIDE DEF fresh, floor
<1>5. ASSUME NEW t \in Tokens
      PROVE  Count(t, w) \in Nat /\ f0 * Count(t, w) \in Nat /\ f0 * Count(t, w) <= f0 * m
  <2>1. Count(t, w) \in 0..Len(w)
    BY <1>1, CountIsBounded
  <2>2. Count(t, w) \in Nat /\ Count(t, w) <= m
    BY <1>1, <2>1
  <2>3. \A x, y, z \in Nat : y <= z => x * y \in Nat /\ x * y <= x * z
    OBVIOUS
  <2> HIDE DEF f0, m, w
  <2>4. QED
    BY <1>1, <2>2, <2>3
<1>6. ASSUME NEW t \in Tokens
      PROVE  rare[t] = fresh[t] - f0 * Count(t, w)
  <2>1. fresh[t] \in Int /\ Count(t, w) \in Nat
    BY <1>4, <1>5
  <2>2. CASE f <= 0
    <3>1. rare[t] = fresh[t] /\ f0 = 0
      BY <2>2 DEF ApplyFrequencyPenalty
    <3>2. 0 * Count(t, w) = 0
      BY <2>1
    <3>3. QED
      BY <2>1, <3>1, <3>2
  <2>3. CASE ~(f <= 0)
    BY <2>3 DEF ApplyFrequencyPenalty
  <2>4. QED
    BY <2>2, <2>3
<1>7. rare \in [Tokens -> Int]
  <2>1. rare = fresh \/ rare = [t \in Tokens |-> fresh[t] - f * Count(t, w)]
    BY DEF ApplyFrequencyPenalty
  <2>2. \A t \in Tokens : fresh[t] - f * Count(t, w) \in Int
    <3>1. \A t \in Tokens : fresh[t] \in Int /\ Count(t, w) \in Nat
      BY <1>4, <1>5
    <3>2. QED
      BY <1>1, <3>1
  <2>3. QED
    BY <1>4, <2>1, <2>2
<1> HIDE DEF rare
<1>8. new \in [Tokens -> Int] /\ \A t \in Tokens : rare[t] - q0 <= new[t] /\ new[t] <= rare[t]
  BY <1>1, <1>7 DEF ApplyPresencePenalty
<1> HIDE DEF new
<1>9. Discouraged(logits, o) = new
  BY DEF Discouraged, new, rare, fresh
<1>10. ASSUME NEW t \in Tokens
       PROVE  /\ o.penalty \notin 1..3 /\ logits[t] <= Masked => new[t] <= Masked
              /\ Lowest <= logits[t] => Masked + Reach < new[t]
  <2> DEFINE less == f0 * Count(t, w)
             most == f0 * m
  <2>1. /\ logits[t] \in Int /\ fresh[t] \in Int /\ rare[t] \in Int /\ new[t] \in Int
        /\ Masked \in Int /\ Reach \in Nat
    BY <1>4, <1>7, <1>8, DrawNumbers
  <2>2. less \in Nat /\ less <= most /\ most \in Nat
    <3>1. \A x, y \in Nat : x * y \in Nat
      OBVIOUS
    <3> HIDE DEF f0, m, w
    <3>2. QED
      BY <1>1, <1>5, <3>1
  <2>3. rare[t] = fresh[t] - less /\ rare[t] - q0 <= new[t] /\ new[t] <= rare[t]
    BY <1>6, <1>8
  <2>4. floor - most - q0 > Masked + Reach
    BY <1>3
  <2> HIDE DEF less, most, q0, f0, m, w
  <2>5. QED
    BY <1>1, <1>2, <1>4, <2>1, <2>2, <2>3, <2>4
<1>11. QED
  BY <1>8, <1>9, <1>10

-----------------------------------------------------------------------------
\* What the filters that go by rank and by min-p leave: some logit stands clear
\* of the mask, and those above the mask do and are among the k best.
LEMMA PenalisedStandsClear ==
    ASSUME NEW logits \in [Tokens -> Logits], NEW o, AreOptions(o), ~LiftsTheMask(o)
    PROVE  LET penalised == Penalised(logits, o)
           IN /\ penalised \in [Tokens -> Int]
              /\ \E t \in Tokens : Masked + Reach < penalised[t]
              /\ \A t \in Tokens : Masked < penalised[t] =>
                    Masked + Reach < penalised[t] /\ AmongTheBest(logits, o.topK, t)
<1> DEFINE scaled == ApplyTemperature(logits, o.halves)
           best == ApplyTopK(scaled, o.topK)
           new == Discouraged(best, o)
           penalised == ApplyMinP(new, o.minP)
<1>1. /\ o.halves \in May("halves") /\ o.halves \in Int /\ o.topK \in Int /\ o.minP \in Int
      /\ Masked \in Int /\ Reach \in Nat /\ Lowest \in Int
  BY OptionsAreNumbers, DrawNumbers
<1>2. /\ scaled \in [Tokens -> Int]
      /\ \A t \in Tokens : Lowest <= scaled[t]
      /\ \A t, u \in Tokens : logits[t] < logits[u] => scaled[t] < scaled[u]
  BY <1>1, TemperatureScales
<1> HIDE DEF scaled
<1>3. /\ best \in [Tokens -> Int]
      /\ \A t \in Tokens :
            \/ best[t] = Masked
            \/ best[t] = scaled[t] /\ AmongTheBest(scaled, o.topK, t)
      /\ \E t \in Tokens : best[t] = scaled[t]
  BY <1>1, <1>2, TopKKeepsTheBest
<1>13. o.topK <= 0 => best = scaled
  BY DEF ApplyTopK
<1> HIDE DEF best
<1>4. /\ new \in [Tokens -> Int]
      /\ o.penalty \notin 1..3 => \A t \in Tokens : best[t] <= Masked => new[t] <= Masked
      /\ \A t \in Tokens : Lowest <= best[t] => Masked + Reach < new[t]
  BY <1>3, PenaltiesKeepTheMask
<1> HIDE DEF new
<1>5. ASSUME NEW t \in Tokens, AmongTheBest(scaled, o.topK, t)
      PROVE  AmongTheBest(logits, o.topK, t)
  <2> DEFINE raw == {u \in Tokens : logits[u] > logits[t]}
             up == {u \in Tokens : scaled[u] > scaled[t]}
  <2>1. raw \subseteq up
    <3>1. \A u \in Tokens : logits[u] \in Int /\ scaled[u] \in Int
      BY <1>2, DrawNumbers
    <3>2. \A u \in Tokens : logits[u] > logits[t] => logits[t] < logits[u]
      BY <3>1
    <3>3. \A u \in Tokens : scaled[t] < scaled[u] => scaled[u] > scaled[t]
      BY <3>1
    <3>4. QED
      BY <1>2, <3>2, <3>3
  <2>2. raw \in SUBSET Tokens /\ up \in SUBSET Tokens
    OBVIOUS
  <2>3. o.topK <= 0 \/ Cardinality(up) < o.topK
    BY <1>5 DEF AmongTheBest
  <2> HIDE DEF raw, up
  <2>4. IsFiniteSet(up) /\ Cardinality(up) \in Nat /\ Cardinality(raw) \in Nat
    BY <2>2, TokensAreFinite
  <2>5. Cardinality(raw) <= Cardinality(up)
    BY <2>1, <2>4, FS_Subset
  <2>6. o.topK <= 0 \/ Cardinality(raw) < o.topK
    BY <1>1, <2>3, <2>4, <2>5
  <2>7. QED
    BY <2>6 DEF AmongTheBest, raw
<1>6. ASSUME NEW t \in Tokens, Masked < new[t]
      PROVE  Masked + Reach < new[t] /\ AmongTheBest(logits, o.topK, t)
  <2>1. new[t] \in Int /\ best[t] \in Int
    BY <1>3, <1>4
  <2>2. best[t] = scaled[t] /\ AmongTheBest(scaled, o.topK, t)
    <3>1. CASE o.topK <= 0
      BY <3>1, <1>13 DEF AmongTheBest
    <3>2. CASE ~(o.topK <= 0)
      <4>1. o.penalty \notin 1..3
        BY <1>1, <3>2 DEF LiftsTheMask
      <4>2. best[t] # Masked
        BY <1>1, <1>4, <1>6, <2>1, <4>1
      <4>3. QED
        BY <1>3, <4>2
    <3>3. QED
      BY <3>1, <3>2
  <2>3. QED
    BY <1>2, <1>4, <1>5, <2>2
<1>7. \E t \in Tokens : Masked + Reach < new[t]
  BY <1>2, <1>3, <1>4
<1>8. /\ penalised \in [Tokens -> Int]
      /\ \A t \in Tokens : penalised[t] = Masked \/ penalised[t] = new[t]
      /\ \A t \in Tokens : new[t] = Highest(new) => penalised[t] = new[t]
  BY <1>1, <1>4, HighestLogit DEF ApplyMinP
<1> HIDE DEF penalised
<1>9. \E t \in Tokens : Masked + Reach < penalised[t]
  <2>1. PICK t \in Tokens : new[t] = Highest(new)
    BY <1>4, HighestLogit
  <2>2. PICK u \in Tokens : Masked + Reach < new[u]
    BY <1>7
  <2>3. new[u] <= new[t] /\ new[u] \in Int /\ new[t] \in Int
    BY <1>4, <2>1, HighestLogit
  <2>4. Masked + Reach < new[t]
    BY <1>1, <2>2, <2>3
  <2>5. QED
    BY <1>8, <2>1, <2>4
<1>10. Penalised(logits, o) = penalised
  BY DEF Penalised, penalised, new, best, scaled
<1>11. ASSUME NEW t \in Tokens, Masked < penalised[t]
       PROVE  Masked + Reach < penalised[t] /\ AmongTheBest(logits, o.topK, t)
  <2>1. penalised[t] = new[t]
    BY <1>1, <1>8, <1>11
  <2>2. QED
    BY <1>6, <1>11, <2>1
<1>12. QED
  BY <1>8, <1>9, <1>10, <1>11

\* the logits of `from`, some of them masked
PartlyMasked(work, from) ==
    /\ work \in [Tokens -> Int]
    /\ \A t \in Tokens : work[t] = Masked \/ work[t] = from[t]

\* Typical-p masks, and leaves the first of its order.
LEMMA TypicalLeavesOne ==
    ASSUME NEW from \in [Tokens -> Int], NEW quarters \in Int,
           NEW t0 \in Tokens, Masked + Reach < from[t0],
           \A t \in Tokens : Masked < from[t] => Masked + Reach < from[t],
           NEW work \in ApplyTypicalP(from, quarters)
    PROVE  PartlyMasked(work, from) /\ \E t \in Tokens : Masked + Reach < work[t]
<1>1. Masked \in Int /\ Reach \in Nat
  BY DrawNumbers
<1>2. CASE quarters <= 0 \/ quarters >= 4
  BY <1>2 DEF ApplyTypicalP, PartlyMasked
<1>3. CASE ~(quarters <= 0 \/ quarters >= 4)
  <2> DEFINE w == Weights(from)
             S == {t \in Tokens : w[t] > 0}
             cut(order) == {order[i] : i \in {j \in DOMAIN order : \E b \in Beyond(order, w, quarters) : b < j}}
  <2>1. PICK order \in Sorted(S, Typicality(from, w)) : work = MaskAll(from, cut(order))
    BY <1>3 DEF ApplyTypicalP
  <2>2. S \in SUBSET Tokens
    OBVIOUS
  <2>3. order \in Orders[S]
    BY <2>1 DEF Sorted
  <2> DEFINE n == Cardinality(S)
  <2>4. /\ n \in Nat /\ order \in [1..n -> S]
        /\ \A i, j \in 1..n : order[i] = order[j] => i = j
        /\ \A t \in S : \E i \in 1..n : order[i] = t
    <3> HIDE DEF S
    <3>1. QED
      BY <2>2, <2>3, OrderIsBijective
  <2>5. work = [t \in Tokens |-> IF t \in cut(order) THEN Masked ELSE from[t]]
    BY <2>1 DEF MaskAll
  <2>6. PICK top \in Tokens : from[top] = Highest(from)
    BY HighestLogit
  <2>7. top \in S
    <3>1. Highest(from) - from[top] <= Reach
      BY <1>1, <2>6
    <3>2. w[top] > 0
      BY <3>1, WeightsReach
    <3>3. QED
      BY <3>2
  <2>8. 1 \in 1..n /\ order[1] \in S
    <3> HIDE DEF n, S
    <3>1. QED
      BY <2>4, <2>7
  <2>9. order[1] \notin cut(order)
    <3>1. DOMAIN order = 1..n
      BY <2>4
    <3>2. SUFFICES ASSUME order[1] \in cut(order)
                   PROVE  FALSE
      OBVIOUS
    <3>3. PICK i \in 1..n : order[i] = order[1] /\ \E b \in Beyond(order, w, quarters) : b < i
      BY <3>1, <3>2
    <3>4. i = 1
      BY <2>4, <2>8, <3>3
    <3>5. Beyond(order, w, quarters) \subseteq 1..n
      BY <3>1 DEF Beyond
    <3>6. \A b \in 1..n : ~(b < 1)
      OBVIOUS
    <3>7. QED
      BY <3>3, <3>4, <3>5, <3>6
  <2>10. order[1] \in Tokens /\ work[order[1]] = from[order[1]]
    BY <2>2, <2>5, <2>8, <2>9
  <2>11. Highest(from) - from[order[1]] <= Reach
    <3>1. w[order[1]] > 0
      BY <2>8
    <3>2. QED
      BY <2>10, <3>1, WeightsReach
  <2>12. Masked + Reach < from[order[1]]
    <3>1. from[t0] <= Highest(from) /\ from[t0] \in Int /\ Highest(from) \in Int /\ from[order[1]] \in Int
      BY <2>10, HighestLogit
    <3>2. Masked < from[order[1]]
      BY <1>1, <2>11, <3>1
    <3>3. QED
      BY <2>10, <3>2
  <2>13. PartlyMasked(work, from)
    <3> HIDE DEF cut
    <3>1. QED
      BY <1>1, <2>5 DEF PartlyMasked
  <2>14. QED
    BY <2>10, <2>12, <2>13
<1>4. QED
  BY <1>2, <1>3

\* Unless top-p has masked everything, a token with a weight is one that no
\* filter masked.
LEMMA TopPLeavesTheUnmasked ==
    ASSUME NEW from \in [Tokens -> Int], NEW typical \in [Tokens -> Int], PartlyMasked(typical, from),
           NEW t0 \in Tokens, Masked + Reach < typical[t0],
           \A t \in Tokens : Masked < from[t] => Masked + Reach < from[t],
           NEW quarters \in Int, NEW work \in ApplyTopP(typical, quarters), ~AllMasked(work)
    PROVE  /\ work \in [Tokens -> Int]
           /\ \A t \in Tokens : Weights(work)[t] > 0 => Masked < from[t]
<1>1. Masked \in Int /\ Reach \in Nat /\ Masked < -Reach /\ Masked < 0
  BY DrawNumbers
<1>2. CASE PartlyMasked(work, from)
  <2>1. work \in [Tokens -> Int] /\ \A t \in Tokens : work[t] = Masked \/ work[t] = from[t]
    BY <1>2 DEF PartlyMasked
  <2>2. PICK u \in Tokens : ~(work[u] <= Masked)
    BY DEF AllMasked
  <2>3. work[u] \in Int /\ from[u] \in Int /\ work[u] = from[u] /\ Masked < from[u]
    BY <1>1, <2>1, <2>2
  <2>4. Masked + Reach < work[u]
    BY <2>3
  <2>5. work[u] <= Highest(work) /\ Highest(work) \in Int
    BY <2>1, HighestLogit
  <2>6. ASSUME NEW t \in Tokens, Weights(work)[t] > 0
        PROVE  Masked < from[t]
    <3>1. Highest(work) - work[t] <= Reach /\ work[t] \in Int
      BY <2>1, <2>6, WeightsReach
    <3>2. Masked < work[t]
      BY <1>1, <2>3, <2>4, <2>5, <3>1
    <3>3. work[t] # Masked
      BY <1>1, <3>2
    <3>4. QED
      BY <2>1, <3>2, <3>3
  <2>7. QED
    BY <2>1, <2>6
<1>3. CASE quarters >= 4
  <2>1. work = typical
    BY <1>3 DEF ApplyTopP
  <2>2. QED
    BY <1>2, <2>1
<1>4. CASE quarters \in 1..3
  <2>1. \E S : work = MaskAll(typical, S)
    <3>1. ~(quarters >= 4) /\ ~(quarters <= 0)
      BY <1>4
    <3>2. PICK order \in Sorted(Tokens, Descending(Weights(typical))) :
              work = MaskAll(typical, {order[i] : i \in Beyond(order, Weights(typical), quarters)})
      BY <3>1 DEF ApplyTopP
    <3>3. QED
      BY <3>2
  <2>2. PartlyMasked(work, from)
    BY <1>1, <2>1 DEF MaskAll, PartlyMasked
  <2>3. QED
    BY <1>2, <2>2
<1>5. CASE quarters <= 0
  <2> DEFINE tops == {t \in Tokens : typical[t] = Highest(typical)}
             first == Min(tops)
  <2>1. tops \in SUBSET Nat /\ tops # {}
    <3>1. \A t \in Tokens : t \in Nat
      BY DEF Tokens
    <3>2. \E t \in Tokens : typical[t] = Highest(typical)
      BY HighestLogit
    <3>3. QED
      BY <3>1, <3>2
  <2>2. first \in tops
    <3>1. PICK t \in tops : \A u \in tops : t <= u
      <4> HIDE DEF tops
      <4>1. QED
        BY <2>1, LeastNat
    <3>2. first \in tops /\ \A u \in tops : first <= u
      <4> HIDE DEF tops
      <4>1. QED
        BY <3>1 DEF Min
    <3>3. QED
      BY <3>2
  <2>3. work = [t \in Tokens |-> IF t = first THEN 0 ELSE Masked]
    BY <1>5 DEF ApplyTopP
  <2>4. first \in Tokens /\ typical[first] = Highest(typical)
    BY <2>2
  <2> HIDE DEF first, tops
  <2>5. work \in [Tokens -> Int]
    BY <1>1, <2>3
  <2>6. Masked < from[first]
    <3>1. typical[t0] <= typical[first] /\ typical[t0] \in Int /\ typical[first] \in Int
      BY <2>4, HighestLogit
    <3>2. Masked < typical[first] /\ typical[first] # Masked
      BY <1>1, <3>1
    <3>3. QED
      BY <2>4, <3>2 DEF PartlyMasked
  <2>7. ASSUME NEW t \in Tokens, Weights(work)[t] > 0
        PROVE  t = first
    <3>1. Highest(work) - work[t] <= Reach /\ work[first] <= Highest(work) /\ Highest(work) \in Int
      BY <2>4, <2>5, <2>7, WeightsReach, HighestLogit
    <3>2. work[first] = 0 /\ (t # first => work[t] = Masked)
      BY <2>3, <2>4
    <3>3. QED
      BY <1>1, <3>1, <3>2
  <2>8. QED
    BY <2>5, <2>6, <2>7
<1>6. QED
  BY <1>3, <1>4, <1>5

\* A token that is drawn, the first and the last apart, has a weight.
LEMMA DrawnHasWeight ==
    ASSUME NEW work \in [Tokens -> Int], NEW t \in Draws(work) \ AtTheEdge(work)
    PROVE  t \in Tokens /\ Weights(work)[t] > 0
<1> DEFINE w == Weights(work)
           upTo == [u \in Tokens |-> SumOver(1..u, w)]
           reached(r) == {u \in Tokens : upTo[u] >= r}
<1>1. w \in [Tokens -> Nat] /\ Vocab \in Nat \ {0} /\ Tokens = 1..Vocab /\ IsFiniteSet(Tokens)
      /\ 1 \in Tokens /\ Vocab \in Tokens
  BY WeightsReach, TokensAreFinite DEF Tokens
<1>2. PICK r \in {0, upTo[Vocab] + 1} \cup Range(upTo) :
          t = IF reached(r) = {} THEN Vocab ELSE Min(reached(r))
  BY DEF Draws
<1>3. t \in {1, Vocab} => w[t] > 0
  <2>1. t \in {1, Vocab} => w[t] # 0 /\ t \in Tokens
    BY <1>1 DEF AtTheEdge
  <2>2. QED
    BY <1>1, <2>1
<1> HIDE DEF w
<1>4. ASSUME NEW u \in Tokens
      PROVE  /\ upTo[u] \in Nat
             /\ u # 1 => u - 1 \in Tokens /\ upTo[u] = w[u] + upTo[u - 1]
  <2> DEFINE here == 1..u
  <2>1. u \in Nat /\ u \in here /\ here \in SUBSET Tokens /\ here \ {u} = 1..(u - 1)
    BY <1>1
  <2>2. IsFiniteSet(here) /\ \A x \in here : w[x] \in Nat /\ w[x] \in Int
    <3>1. IsFiniteSet(here)
      BY <2>1, FS_Interval
    <3>2. QED
      BY <1>1, <2>1, <3>1
  <2>3. upTo[u] = SumFunctionOnSet(w, here)
    BY DEF SumOver
  <2> HIDE DEF here
  <2>4. SumFunctionOnSet(w, here) \in Nat
    <3>1. here \in SUBSET here
      OBVIOUS
    <3>2. QED
      BY <2>2, <3>1, SumGrows
  <2>5. SumFunctionOnSet(w, here) = w[u] + SumFunctionOnSet(w, here \ {u})
    BY <2>1, <2>2, SumTakes
  <2>6. u # 1 => u - 1 \in Tokens /\ upTo[u - 1] = SumFunctionOnSet(w, 1..(u - 1))
    <3>1. u # 1 => u - 1 \in Tokens
      BY <1>1
    <3>2. QED
      BY <3>1 DEF SumOver
  <2>7. QED
    BY <2>1, <2>3, <2>4, <2>5, <2>6
<1> HIDE DEF upTo
<1>5. CASE reached(r) = {}
  BY <1>1, <1>2, <1>3, <1>5 DEF w
<1>6. CASE reached(r) # {}
  <2> DEFINE far == reached(r)
  <2>1. far \in SUBSET Nat /\ far # {}
    BY <1>1, <1>6
  <2>2. t \in far /\ \A u \in far : t <= u
    <3>1. t = Min(far)
      BY <1>2, <1>6
    <3> HIDE DEF far
    <3>2. PICK x \in far : \A u \in far : x <= u
      BY <2>1, LeastNat
    <3>3. QED
      BY <3>1, <3>2 DEF Min
  <2>3. t \in Tokens /\ upTo[t] >= r
    BY <2>2
  <2>4. CASE t = 1
    BY <1>1, <1>3, <2>4 DEF w
  <2>5. CASE t # 1
    <3>1. t - 1 \in Tokens /\ upTo[t] = w[t] + upTo[t - 1] /\ upTo[t - 1] \in Nat /\ w[t] \in Nat
      BY <1>1, <1>4, <2>3, <2>5
    <3>2. t - 1 \notin far
      <4>1. ~(t <= t - 1)
        BY <1>1, <2>3
      <4> HIDE DEF far
      <4>2. QED
        BY <2>2, <4>1
    <3>3. ~(upTo[t - 1] >= r)
      BY <3>1, <3>2
    <3>4. r \in Int
      <4>1. DOMAIN upTo = Tokens
        BY DEF upTo
      <4>2. upTo[Vocab] + 1 \in Int /\ \A x \in Range(upTo) : x \in Int
        BY <1>1, <1>4, <4>1 DEF Range
      <4>3. QED
        BY <1>2, <4>2
    <3>5. w[t] > 0
      BY <2>3, <3>1, <3>3, <3>4
    <3>6. QED
      BY <2>3, <3>5 DEF w
  <2>6. QED
    BY <2>4, <2>5
<1>7. QED
  BY <1>5, <1>6

-----------------------------------------------------------------------------
\* the calls that can be put together
CallInv ==
    /\ call \in [logits : [Tokens -> Logits], options : [DOMAIN Plain -> Int \cup {<<>>, Window}]]
    /\ AreOptions(call.options)

\* The logits are those of a model, and each option is one of its settings.
THEOREM CallsAreWhole == CallSpec => []CallInv
<1> USE DEF CallInv
<1>1. DOMAIN Plain = DOMAIN Settings \cup {"window"} /\ "window" \notin DOMAIN Settings
  BY SettingsAreWhole DEF Plain
<1>2. PlainCall => CallInv
  <2>1. SUFFICES ASSUME PlainCall
                 PROVE  CallInv
    OBVIOUS
  <2>2. PICK logits \in [Tokens -> Logits] : call = [logits |-> logits, options |-> Plain]
    BY <2>1 DEF PlainCall
  <2>3. AreOptions(Plain)
    BY DEF AreOptions, May, Plain
  <2>4. Plain \in [DOMAIN Plain -> Int \cup {<<>>, Window}]
    BY DEF Plain
  <2>5. QED
    BY <2>2, <2>3, <2>4
<1>3. ASSUME CallInv, NEW name \in DOMAIN Settings, NEW value \in Settings[name], ChooseOption(name, value)
      PROVE  CallInv'
  <2> DEFINE o == call.options
             new == [o EXCEPT ![name] = value, !.window = IF name \in Penalties THEN Window ELSE o.window]
  <2>1. /\ o \in [DOMAIN Plain -> Int \cup {<<>>, Window}]
        /\ AreOptions(o) /\ call.logits \in [Tokens -> Logits]
    BY <1>3
  <2>2. call' = [logits |-> call.logits, options |-> new]
    <3>1. call = [logits |-> call.logits, options |-> o]
      BY <1>3
    <3>2. call' = [call EXCEPT !.options = new]
      BY <1>3 DEF ChooseOption
    <3> HIDE DEF new, o
    <3>3. QED
      BY <3>1, <3>2
  <2>3. value \in Int /\ value \in May(name)
    BY SettingsAreWhole DEF May
  <2>4. /\ \A x \in DOMAIN Settings : new[x] = IF x = name THEN value ELSE o[x]
        /\ new["window"] = IF name \in Penalties THEN Window ELSE o["window"]
        /\ DOMAIN new = DOMAIN Plain
    <3> HIDE DEF o
    <3>1. QED
      BY <1>1, <2>1
  <2>5. new \in [DOMAIN Plain -> Int \cup {<<>>, Window}]
    <3>1. o["window"] \in {<<>>, Window}
      BY <2>1 DEF AreOptions
    <3> HIDE DEF o
    <3>2. QED
      BY <1>1, <2>1, <2>3, <3>1
  <2>6. new["window"] \in {<<>>, Window}
    BY <2>1, <2>4 DEF AreOptions
  <2> HIDE DEF new
  <2>7. AreOptions(new)
    BY <2>1, <2>3, <2>4, <2>6 DEF AreOptions
  <2>8. QED
    BY <2>1, <2>2, <2>5, <2>7
<1>4. ASSUME CallInv, [\E name \in DOMAIN Settings : \E value \in Settings[name] : ChooseOption(name, value)]_call
      PROVE  CallInv'
  <2>1. CASE UNCHANGED call
    BY <1>4, <2>1 DEF AreOptions
  <2>2. QED
    BY <1>3, <1>4, <2>1
<1>5. QED
  BY <1>2, <1>4, PTL DEF CallSpec

\* Whatever the logits and the options, a token that a filter has cut off is
\* not drawn, but at the edge or once top-p has masked every token, unless a
\* boost (a repetition penalty below 1) follows top-k.
THEOREM DrawsAreSupported == CallSpec => []DrawIsSupported
<1>1. ASSUME CallInv, ~LiftsTheMask(call.options)
      PROVE  DrawIsSupported
  <2> DEFINE o == call.options
             penalised == Penalised(call.logits, o)
  <2>1. call.logits \in [Tokens -> Logits] /\ AreOptions(o)
    BY <1>1 DEF CallInv
  <2>2. o.typicalP \in Int /\ o.topP \in Int
    BY <2>1, OptionsAreNumbers
  <2>3. /\ penalised \in [Tokens -> Int]
        /\ \E t \in Tokens : Masked + Reach < penalised[t]
        /\ \A t \in Tokens : Masked < penalised[t] =>
              Masked + Reach < penalised[t] /\ AmongTheBest(call.logits, o.topK, t)
    BY <1>1, <2>1, PenalisedStandsClear
  <2> HIDE DEF penalised
  <2>4. ASSUME NEW work \in Filtered(call.logits, o), ~AllMasked(work),
               NEW t \in Draws(work) \ AtTheEdge(work)
        PROVE  AmongTheBest(call.logits, o.topK, t) /\ penalised[t] > Masked
    <3>1. PICK typical \in ApplyTypicalP(penalised, o.typicalP) : work \in ApplyTopP(typical, o.topP)
      BY <2>4 DEF Filtered, penalised
    <3>2. PICK t0 \in Tokens : Masked + Reach < penalised[t0]
      BY <2>3
    <3>3. PartlyMasked(typical, penalised) /\ \E u \in Tokens : Masked + Reach < typical[u]
      BY <2>2, <2>3, <3>1, <3>2, TypicalLeavesOne
    <3>4. PICK u \in Tokens : Masked + Reach < typical[u]
      BY <3>3
    <3>5. typical \in [Tokens -> Int]
      BY <3>3 DEF PartlyMasked
    <3>6. /\ work \in [Tokens -> Int]
          /\ \A x \in Tokens : Weights(work)[x] > 0 => Masked < penalised[x]
      BY <2>2, <2>3, <2>4, <3>1, <3>3, <3>4, <3>5, TopPLeavesTheUnmasked
    <3>7. t \in Tokens /\ Weights(work)[t] > 0
      BY <2>4, <3>6, DrawnHasWeight
    <3>8. Masked < penalised[t] /\ penalised[t] \in Int /\ Masked \in Int
      BY <2>3, <3>6, <3>7, DrawNumbers
    <3>9. QED
      BY <2>3, <3>7, <3>8
  <2>5. QED
    BY <2>4 DEF DrawIsSupported, penalised
<1>2. CallInv => DrawIsSupported
  BY <1>1 DEF DrawIsSupported
<1>3. QED
  BY <1>2, CallsAreWhole, PTL
=============================================================================
