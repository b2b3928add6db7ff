----------------------------- MODULE FoldLemmas -----------------------------
EXTENDS FiniteSetsExt, SequencesExt, FiniteSetTheorems, SequenceTheorems,
        WellFoundedInduction, TLAPS

\* A set of naturals has a least element: what stands in for induction here.
LEMMA LeastNat ==
    ASSUME NEW T \in SUBSET Nat, T # {}
    PROVE  \E x \in T : \A y \in T : x <= y
<1>1. \E x \in T : \A y \in T : ~ (<<y, x>> \in OpToRel(<, Nat))
  BY NatLessThanWellFounded, WFMin
<1>2. PICK x \in T : \A y \in T : ~ (<<y, x>> \in OpToRel(<, Nat))
  BY <1>1
<1>3. \A y \in T : ~(y < x)
  BY <1>2 DEF OpToRel
<1> QED
  BY <1>3

\* What holds at 0 and is passed on up to n holds at n.
LEMMA CountUp ==
    ASSUME NEW n \in Nat, NEW Good, 0 \in Good, \A i \in Good : i < n => i + 1 \in Good
    PROVE  n \in Good
<1> DEFINE Bad == {i \in 0..n : i \notin Good}
<1>1. SUFFICES ASSUME n \notin Good
               PROVE  FALSE
  OBVIOUS
<1>2. Bad \in SUBSET Nat /\ Bad # {}
  BY <1>1
<1>3. PICK i \in Bad : \A j \in Bad : i <= j
  <2> HIDE DEF Bad
  <2>1. QED
    BY <1>2, LeastNat
<1>4. i \in 1..n /\ i \notin Good
  BY <1>3
<1>5. i - 1 \in 0..n /\ i - 1 \notin Bad
  BY <1>3, <1>4
<1>6. i - 1 \in Good /\ i - 1 < n /\ (i - 1) + 1 = i
  BY <1>4, <1>5
<1>7. QED
  BY <1>4, <1>6

\* A property P of the finite subsets of S that is false of some of them is false of a least one.
LEMMA LeastSubset ==
    ASSUME NEW S, IsFiniteSet(S), NEW Bad \in SUBSET SUBSET S, Bad # {}
    PROVE  \E s \in Bad : \A t \in SUBSET s : t # s => t \notin Bad
<1>1. \A s \in SUBSET S : IsFiniteSet(s) /\ Cardinality(s) \in Nat
  BY FS_Subset, FS_CardinalityType
<1>2. \A s \in SUBSET S : \A t \in SUBSET s : t # s => Cardinality(t) < Cardinality(s)
  <2>1. SUFFICES ASSUME NEW s \in SUBSET S, NEW t \in SUBSET s, t # s
                 PROVE  Cardinality(t) < Cardinality(s)
    OBVIOUS
  <2>2. Cardinality(t) <= Cardinality(s) /\ (Cardinality(s) = Cardinality(t) => s = t)
    BY <1>1, FS_Subset
  <2>3. QED
    BY <2>1, <2>2, <1>1
<1> DEFINE Sizes == {Cardinality(s) : s \in Bad}
<1>3. Sizes \in SUBSET Nat /\ Sizes # {}
  BY <1>1
<1>4. PICK n \in Sizes : \A m \in Sizes : n <= m
  BY <1>3, LeastNat
<1>5. PICK s \in Bad : n = Cardinality(s)
  BY <1>4
<1>6. ASSUME NEW t \in SUBSET s, t # s, t \in Bad
      PROVE  FALSE
  <2>1. Cardinality(t) < Cardinality(s)
    BY <1>2, <1>6
  <2>2. Cardinality(s) <= Cardinality(t)
    BY <1>4, <1>5, <1>6
  <2>3. QED
    BY <2>1, <2>2, <1>1, <1>6
<1>7. QED
  BY <1>6

\* g folds the subsets of S by op, taking the elements of a set in the order of c
IsFold(g, S, base, op, c) ==
    \A s \in SUBSET S : g[s] = IF s = {} THEN base ELSE op[<<c[s], g[s \ {c[s]}]>>]

\* Two folds agree on every set both are defined on.
LEMMA FoldsAgree ==
    ASSUME NEW S, IsFiniteSet(S), NEW T \in SUBSET S, NEW base, NEW op,
           NEW c, \A s \in SUBSET S : s # {} => c[s] \in s,
           NEW g, IsFold(g, S, base, op, c),
           NEW h, IsFold(h, T, base, op, c)
    PROVE  \A s \in SUBSET T : g[s] = h[s]
<1> DEFINE Bad == {s \in SUBSET T : g[s] # h[s]}
<1>1. SUFFICES ASSUME Bad # {}
               PROVE  FALSE
  OBVIOUS
<1>2. IsFiniteSet(T)
  BY FS_Subset
<1>3. PICK s \in Bad : \A t \in SUBSET s : t # s => t \notin Bad
  <2>1. Bad \in SUBSET SUBSET T
    OBVIOUS
  <2> HIDE DEF Bad
  <2>2. QED
    BY <1>1, <1>2, <2>1, LeastSubset
<1>4. s \in SUBSET T /\ s \in SUBSET S /\ g[s] # h[s]
  BY <1>3
<1>5. CASE s = {}
  BY <1>4, <1>5 DEF IsFold
<1>6. CASE s # {}
  <2>1. c[s] \in s
    BY <1>4, <1>6
  <2>2. s \ {c[s]} \in SUBSET s /\ s \ {c[s]} # s /\ s \ {c[s]} \in SUBSET T
    BY <2>1, <1>4
  <2>3. g[s \ {c[s]}] = h[s \ {c[s]}]
    BY <2>2, <1>3
  <2>4. QED
    BY <1>4, <1>6, <2>3 DEF IsFold
<1>7. QED
  BY <1>5, <1>6

\* A fold of the subsets of a finite set exists, with values where op has its own.
LEMMA FoldExists ==
    ASSUME NEW S, IsFiniteSet(S), NEW V, NEW base \in V, NEW op \in [S \X V -> V],
           NEW c, \A s \in SUBSET S : s # {} => c[s] \in s
    PROVE  \E g \in [SUBSET S -> V] : IsFold(g, S, base, op, c)
<1> DEFINE Is(g, T) == IsFold(g, T, base, op, c)
           Bad == {T \in SUBSET S : ~ \E g \in [SUBSET T -> V] : Is(g, T)}
<1>1. SUFFICES ASSUME Bad # {}
               PROVE  FALSE
  <2>1. Bad = {} => \E g \in [SUBSET S -> V] : Is(g, S)
    OBVIOUS
  <2>2. QED
    BY <2>1
<1>2. PICK T \in Bad : \A t \in SUBSET T : t # T => t \notin Bad
  <2>1. Bad \in SUBSET SUBSET S
    OBVIOUS
  <2> HIDE DEF Bad
  <2>2. QED
    BY <1>1, <2>1, LeastSubset
<1>3. T \in SUBSET S /\ ~ \E g \in [SUBSET T -> V] : Is(g, T)
  BY <1>2
<1>4. \A t \in SUBSET T : t # T => \E g \in [SUBSET t -> V] : Is(g, t)
  BY <1>2, <1>3
<1> HIDE DEF Bad
<1> DEFINE Part(t) == CHOOSE g \in [SUBSET t -> V] : Is(g, t)
<1>5. \A t \in SUBSET T : t # T => Part(t) \in [SUBSET t -> V] /\ Is(Part(t), t)
  <2> HIDE DEF Is
  <2>1. QED
    BY <1>4
<1> HIDE DEF Part
<1> DEFINE Whole == [t \in SUBSET T |->
               IF t # T THEN Part(t)[t]
               ELSE IF T = {} THEN base ELSE op[<<c[T], Part(T \ {c[T]})[T \ {c[T]}]>>]]
<1>6. \A t \in SUBSET T : t # T => Part(t)[t] \in V
  <2>1. SUFFICES ASSUME NEW t \in SUBSET T, t # T
                 PROVE  Part(t)[t] \in V
    OBVIOUS
  <2>2. Part(t) \in [SUBSET t -> V]
    BY <1>5, <2>1
  <2>3. t \in SUBSET t
    OBVIOUS
  <2>4. QED
    BY <2>2, <2>3
<1>7. T # {} => /\ c[T] \in T
                /\ T \ {c[T]} \in SUBSET T
                /\ T \ {c[T]} # T
  BY <1>3
<1>8. Whole \in [SUBSET T -> V]
  <2>1. T # {} => op[<<c[T], Part(T \ {c[T]})[T \ {c[T]}]>>] \in V
    BY <1>6, <1>7, <1>3
  <2>2. QED
    BY <2>1, <1>6
<1>9. ASSUME NEW s \in SUBSET T
      PROVE  Whole[s] = IF s = {} THEN base ELSE op[<<c[s], Whole[s \ {c[s]}]>>]
  <2>1. CASE s = {}
    <3>1. CASE T = {}
      BY <2>1, <3>1
    <3>2. CASE T # {}
      BY <2>1, <3>2, <1>5 DEF IsFold
    <3>3. QED
      BY <3>1, <3>2
  <2>2. CASE s # {} /\ s = T
    BY <2>2, <1>7
  <2>3. CASE s # {} /\ s # T
    <3> DEFINE r == s \ {c[s]}
    <3>1. c[s] \in s /\ r \in SUBSET s /\ r # T /\ r \in SUBSET T /\ r \in SUBSET S
      BY <2>3, <1>3
    <3>2. Whole[s] = Part(s)[s] /\ Whole[r] = Part(r)[r]
      BY <2>3, <3>1
    <3>3. Part(s)[s] = op[<<c[s], Part(s)[r]>>]
      BY <2>3, <1>5 DEF IsFold
    <3>4. Part(s)[r] = Part(r)[r]
      <4>1. IsFiniteSet(s) /\ s \in SUBSET S
        BY <1>3, FS_Subset
      <4>2. \A t \in SUBSET s : t # {} => c[t] \in t
        BY <4>1
      <4>3. Is(Part(s), s) /\ Is(Part(r), r)
        BY <1>5, <2>3, <3>1
      <4>4. QED
        BY <4>1, <4>2, <4>3, <3>1, FoldsAgree
    <3>5. QED
      BY <3>2, <3>3, <3>4, <2>3
  <2>4. QED
    BY <2>1, <2>2, <2>3
<1>10. QED
  BY <1>3, <1>8, <1>9 DEF IsFold

-----------------------------------------------------------------------------
\* the order in which the sums of the community modules take the elements
AnyOf(S) == [s \in SUBSET S |-> CHOOSE x \in s : TRUE]
Adding(f, S) == [p \in S \X Int |-> f[p[1]] + p[2]]

\* A sum over the subsets of a finite set is a fold of it.
LEMMA SumIsFold ==
    ASSUME NEW S, IsFiniteSet(S), NEW f, \A x \in S : f[x] \in Int
    PROVE  \E g \in [SUBSET S -> Int] :
               /\ IsFold(g, S, 0, Adding(f, S), AnyOf(S))
               /\ SumFunctionOnSet(f, S) = g[S]
<1> DEFINE Eq(g) == g = [s \in SUBSET S |->
                IF s = {} THEN 0
                ELSE f[CHOOSE x \in s : TRUE] + g[s \ {CHOOSE x \in s : TRUE}]]
<1>1. \A s \in SUBSET S : s # {} => AnyOf(S)[s] \in s /\ AnyOf(S)[s] = CHOOSE x \in s : TRUE
  BY DEF AnyOf
<1>2. PICK g \in [SUBSET S -> Int] : IsFold(g, S, 0, Adding(f, S), AnyOf(S))
  <2>1. Adding(f, S) \in [S \X Int -> Int]
    BY DEF Adding
  <2>2. 0 \in Int /\ \A s \in SUBSET S : s # {} => AnyOf(S)[s] \in s
    BY <1>1
  <2>3. QED
    BY <2>1, <2>2, FoldExists
<1>3. Eq(g)
  <2>1. ASSUME NEW s \in SUBSET S
        PROVE  g[s] = IF s = {} THEN 0
                      ELSE f[CHOOSE x \in s : TRUE] + g[s \ {CHOOSE x \in s : TRUE}]
    <3>1. CASE s = {}
      BY <1>2, <3>1 DEF IsFold
    <3>2. CASE s # {}
      <4> DEFINE x == CHOOSE e \in s : TRUE
      <4>1. x \in s /\ AnyOf(S)[s] = x
        BY <1>1, <3>2
      <4>2. g[s \ {x}] \in Int
        BY <1>2
      <4>3. g[s] = Adding(f, S)[<<x, g[s \ {x}]>>]
        BY <1>2, <3>2, <4>1 DEF IsFold
      <4>4. <<x, g[s \ {x}]>> \in S \X Int
        BY <4>1, <4>2
      <4>5. Adding(f, S)[<<x, g[s \ {x}]>>] = f[x] + g[s \ {x}]
        BY <4>4 DEF Adding
      <4>6. QED
        BY <3>2, <4>3, <4>5
    <3>3. QED
      BY <3>1, <3>2
  <2>2. QED
    BY <2>1
<1>4. SumFunctionOnSet(f, S) = (CHOOSE h : Eq(h))[S]
  BY DEF SumFunctionOnSet, FoldFunctionOnSet, MapThenFoldSet
<1> DEFINE h == CHOOSE h : Eq(h)
<1>5. Eq(h)
  <2> HIDE DEF Eq
  <2>1. QED
    BY <1>3
<1>6. h[S] = g[S]
  <2> DEFINE Bad == {s \in SUBSET S : h[s] # g[s]}
  <2>1. SUFFICES ASSUME Bad # {}
                 PROVE  FALSE
    OBVIOUS
  <2>2. PICK s \in Bad : \A t \in SUBSET s : t # s => t \notin Bad
    <3>1. Bad \in SUBSET SUBSET S
      OBVIOUS
    <3> HIDE DEF Bad
    <3>2. QED
      BY <2>1, <3>1, LeastSubset
  <2>3. s \in SUBSET S /\ h[s] # g[s]
    BY <2>2
  <2> DEFINE x == CHOOSE e \in s : TRUE
  <2>4. h[s] = IF s = {} THEN 0 ELSE f[x] + h[s \ {x}]
    BY <1>5, <2>3
  <2>5. g[s] = IF s = {} THEN 0 ELSE f[x] + g[s \ {x}]
    BY <1>3, <2>3
  <2>6. s # {} => x \in s
    OBVIOUS
  <2>7. s # {} => s \ {x} \in SUBSET s /\ s \ {x} # s /\ s \ {x} \in SUBSET S
    BY <2>3, <2>6
  <2>8. s # {} => h[s \ {x}] = g[s \ {x}]
    BY <2>2, <2>7
  <2>9. QED
    BY <2>3, <2>4, <2>5, <2>8
<1>7. QED
  BY <1>2, <1>4, <1>6

\* The sum of an empty set is 0, and the sum of another its chosen element's value more than the rest's.
LEMMA SumTakesAny ==
    ASSUME NEW S, IsFiniteSet(S), NEW f, \A x \in S : f[x] \in Int
    PROVE  /\ SumFunctionOnSet(f, S) \in Int
           /\ S = {} => SumFunctionOnSet(f, S) = 0
           /\ S # {} => \E x \in S :
                /\ x = CHOOSE e \in S : TRUE
                /\ SumFunctionOnSet(f, S) = f[x] + SumFunctionOnSet(f, S \ {x})
<1>1. PICK g \in [SUBSET S -> Int] :
          IsFold(g, S, 0, Adding(f, S), AnyOf(S)) /\ SumFunctionOnSet(f, S) = g[S]
  BY SumIsFold
<1>2. S \in SUBSET S
  OBVIOUS
<1>3. SumFunctionOnSet(f, S) \in Int
  BY <1>1, <1>2
<1>4. S = {} => SumFunctionOnSet(f, S) = 0
  BY <1>1, <1>2 DEF IsFold
<1>5. ASSUME S # {}
      PROVE  \E x \in S :
                /\ x = CHOOSE e \in S : TRUE
                /\ SumFunctionOnSet(f, S) = f[x] + SumFunctionOnSet(f, S \ {x})
  <2> DEFINE x == CHOOSE e \in S : TRUE
             T == S \ {x}
  <2>1. x \in S /\ AnyOf(S)[S] = x
    BY <1>5 DEF AnyOf
  <2>2. IsFiniteSet(T) /\ T \in SUBSET S /\ \A e \in T : f[e] \in Int
    BY FS_Subset
  <2>3. PICK h \in [SUBSET T -> Int] :
            IsFold(h, T, 0, Adding(f, T), AnyOf(T)) /\ SumFunctionOnSet(f, T) = h[T]
    BY <2>2, SumIsFold
  <2>4. g[T] = h[T]
    <3> DEFINE Bad == {s \in SUBSET T : h[s] # g[s]}
    <3>1. SUFFICES ASSUME Bad # {}
                   PROVE  FALSE
      BY <2>2
    <3>2. PICK s \in Bad : \A t \in SUBSET s : t # s => t \notin Bad
      <4>1. Bad \in SUBSET SUBSET T
        OBVIOUS
      <4> HIDE DEF Bad
      <4>2. QED
        BY <3>1, <4>1, <2>2, LeastSubset
    <3>3. s \in SUBSET T /\ s \in SUBSET S /\ h[s] # g[s]
      BY <3>2
    <3>4. CASE s = {}
      BY <1>1, <2>3, <3>3, <3>4 DEF IsFold
    <3>5. CASE s # {}
      <4> DEFINE y == CHOOSE e \in s : TRUE
                 r == s \ {y}
      <4>1. y \in s /\ AnyOf(S)[s] = y /\ AnyOf(T)[s] = y
        BY <3>3, <3>5 DEF AnyOf
      <4>2. r \in SUBSET s /\ r # s /\ r \in SUBSET T /\ r \in SUBSET S
        BY <4>1, <3>3
      <4>3. h[r] = g[r] /\ h[r] \in Int
        BY <3>2, <4>2, <2>3
      <4>4. h[s] = Adding(f, T)[<<y, h[r]>>] /\ g[s] = Adding(f, S)[<<y, g[r]>>]
        BY <1>1, <2>3, <3>3, <3>5, <4>1 DEF IsFold
      <4>5. <<y, h[r]>> \in T \X Int /\ <<y, h[r]>> \in S \X Int
        BY <4>1, <4>3, <3>3
      <4>6. Adding(f, T)[<<y, h[r]>>] = Adding(f, S)[<<y, h[r]>>]
        BY <4>5 DEF Adding
      <4>7. QED
        BY <4>3, <4>4, <4>6, <3>3
    <3>6. QED
      BY <3>4, <3>5
  <2>5. g[S] = f[x] + g[T]
    <3>1. g[S] = Adding(f, S)[<<x, g[T]>>]
      BY <1>1, <1>2, <1>5, <2>1 DEF IsFold
    <3>2. <<x, g[T]>> \in S \X Int
      BY <1>1, <2>1, <2>2
    <3>3. QED
      BY <3>1, <3>2 DEF Adding
  <2>6. QED
    BY <2>1, <2>3, <2>4, <2>5, <1>1
<1>6. QED
  BY <1>3, <1>4, <1>5

\* A sum is the value of any one element more than the sum of the rest.
LEMMA SumTakes ==
    ASSUME NEW S, IsFiniteSet(S), NEW f, \A x \in S : f[x] \in Int, NEW x \in S
    PROVE  SumFunctionOnSet(f, S) = f[x] + SumFunctionOnSet(f, S \ {x})
<1> DEFINE Takes(T) == \A e \in T : SumFunctionOnSet(f, T) = f[e] + SumFunctionOnSet(f, T \ {e})
           Bad == {T \in SUBSET S : ~Takes(T)}
<1>1. SUFFICES ASSUME Bad # {}
               PROVE  FALSE
  <2>1. S \in SUBSET S
    OBVIOUS
  <2>2. QED
    BY <2>1
<1>2. PICK T \in Bad : \A t \in SUBSET T : t # T => t \notin Bad
  <2>1. Bad \in SUBSET SUBSET S
    OBVIOUS
  <2> HIDE DEF Bad
  <2>2. QED
    BY <1>1, <2>1, LeastSubset
<1>3. T \in SUBSET S /\ ~Takes(T)
  BY <1>2
<1>4. PICK e \in T : SumFunctionOnSet(f, T) # f[e] + SumFunctionOnSet(f, T \ {e})
  BY <1>3
<1>5. \A t \in SUBSET S : IsFiniteSet(t) /\ \A y \in t : f[y] \in Int
  BY FS_Subset
<1>6. PICK c \in T : SumFunctionOnSet(f, T) = f[c] + SumFunctionOnSet(f, T \ {c})
  BY <1>3, <1>4, <1>5, SumTakesAny
<1>7. c # e
  BY <1>4, <1>6
<1>8. /\ T \ {c} \in SUBSET T /\ T \ {c} # T /\ T \ {c} \in SUBSET S /\ e \in T \ {c}
      /\ T \ {e} \in SUBSET T /\ T \ {e} # T /\ T \ {e} \in SUBSET S /\ c \in T \ {e}
  BY <1>3, <1>4, <1>6, <1>7
<1>9. Takes(T \ {c}) /\ Takes(T \ {e})
  BY <1>2, <1>8
<1>10. /\ SumFunctionOnSet(f, T \ {c}) = f[e] + SumFunctionOnSet(f, (T \ {c}) \ {e})
       /\ SumFunctionOnSet(f, T \ {e}) = f[c] + SumFunctionOnSet(f, (T \ {e}) \ {c})
  BY <1>8, <1>9
<1>11. (T \ {c}) \ {e} = (T \ {e}) \ {c} /\ (T \ {c}) \ {e} \in SUBSET S
  BY <1>3
<1>12. /\ SumFunctionOnSet(f, (T \ {c}) \ {e}) \in Int
       /\ f[c] \in Int /\ f[e] \in Int
  BY <1>5, <1>8, <1>11, SumTakesAny
<1>13. SumFunctionOnSet(f, T \ {e}) = f[c] + SumFunctionOnSet(f, (T \ {c}) \ {e})
  BY <1>10, <1>11
<1> DEFINE rest == SumFunctionOnSet(f, (T \ {c}) \ {e})
<1>14. /\ SumFunctionOnSet(f, T) = f[c] + (f[e] + rest)
       /\ f[e] + SumFunctionOnSet(f, T \ {e}) = f[e] + (f[c] + rest)
  BY <1>6, <1>10, <1>13
<1> HIDE DEF Takes, Bad, rest
<1>15. QED
  BY <1>4, <1>12, <1>14 DEF rest

\* A sum of naturals is a natural, at least the sum of fewer of them.
LEMMA SumGrows ==
    ASSUME NEW S, IsFiniteSet(S), NEW f, \A x \in S : f[x] \in Nat, NEW T \in SUBSET S
    PROVE  /\ SumFunctionOnSet(f, T) \in Nat
           /\ SumFunctionOnSet(f, S) \in Nat
           /\ SumFunctionOnSet(f, T) <= SumFunctionOnSet(f, S)
<1> DEFINE Grows(U) == /\ SumFunctionOnSet(f, T) \in Nat
                       /\ SumFunctionOnSet(f, U) \in Nat
                       /\ SumFunctionOnSet(f, T) <= SumFunctionOnSet(f, U)
<1>1. \A t \in SUBSET S : /\ IsFiniteSet(t)
                          /\ \A y \in t : f[y] \in Int /\ f[y] \in Nat
                          /\ SumFunctionOnSet(f, t) \in Int
  <2>1. SUFFICES ASSUME NEW t \in SUBSET S
                 PROVE  /\ IsFiniteSet(t)
                        /\ \A y \in t : f[y] \in Int /\ f[y] \in Nat
                        /\ SumFunctionOnSet(f, t) \in Int
    OBVIOUS
  <2>2. IsFiniteSet(t) /\ \A y \in t : f[y] \in Int
    BY FS_Subset
  <2>3. QED
    BY <2>2, SumTakesAny
<1>2. ASSUME NEW U \in SUBSET S, NEW x \in U
      PROVE  SumFunctionOnSet(f, U) = f[x] + SumFunctionOnSet(f, U \ {x})
  BY <1>1, <1>2, SumTakes
<1>3. SumFunctionOnSet(f, {}) = 0
  BY <1>1, SumTakesAny
<1>4. \A U \in SUBSET S : SumFunctionOnSet(f, U) \in Nat
  <2> DEFINE Bad == {U \in SUBSET S : SumFunctionOnSet(f, U) \notin Nat}
  <2>1. SUFFICES ASSUME Bad # {}
                 PROVE  FALSE
    OBVIOUS
  <2>2. PICK U \in Bad : \A t \in SUBSET U : t # U => t \notin Bad
    <3>1. Bad \in SUBSET SUBSET S
      OBVIOUS
    <3> HIDE DEF Bad
    <3>2. QED
      BY <2>1, <3>1, LeastSubset
  <2>3. U \in SUBSET S /\ SumFunctionOnSet(f, U) \notin Nat
    BY <2>2
  <2>4. PICK x \in U : TRUE
    BY <2>3, <1>3
  <2>5. U \ {x} \in SUBSET U /\ U \ {x} # U /\ U \ {x} \in SUBSET S
    BY <2>3, <2>4
  <2>6. SumFunctionOnSet(f, U \ {x}) \in Nat /\ f[x] \in Nat
    BY <2>2, <2>5, <2>3, <2>4, <1>1
  <2> HIDE DEF Bad
  <2>7. QED
    BY <2>3, <2>4, <2>6, <1>2
<1>5. \A U \in SUBSET S : T \in SUBSET U => Grows(U)
  <2> DEFINE Bad == {U \in SUBSET S : T \in SUBSET U /\ ~Grows(U)}
  <2>1. SUFFICES ASSUME Bad # {}
                 PROVE  FALSE
    OBVIOUS
  <2>2. PICK U \in Bad : \A t \in SUBSET U : t # U => t \notin Bad
    <3>1. Bad \in SUBSET SUBSET S
      OBVIOUS
    <3> HIDE DEF Bad
    <3>2. QED
      BY <2>1, <3>1, LeastSubset
  <2>3. U \in SUBSET S /\ T \in SUBSET U /\ ~Grows(U)
    BY <2>2
  <2>4. U # T
    BY <2>3, <1>4
  <2>5. PICK x \in U : x \notin T
    BY <2>3, <2>4
  <2>6. U \ {x} \in SUBSET U /\ U \ {x} # U /\ U \ {x} \in SUBSET S /\ T \in SUBSET (U \ {x})
    BY <2>3, <2>5
  <2>7. Grows(U \ {x}) /\ f[x] \in Nat
    BY <2>2, <2>6, <2>3, <2>5, <1>1
  <2>8. SumFunctionOnSet(f, U) = f[x] + SumFunctionOnSet(f, U \ {x})
    BY <1>2, <2>3, <2>5
  <2> HIDE DEF Bad
  <2>9. QED
    BY <2>3, <2>7, <2>8
<1>6. QED
  BY <1>5

\* A sum that is not 0 has a term that is not 0.
LEMMA SumNeedsTerms ==
    ASSUME NEW S, IsFiniteSet(S), NEW f, \A x \in S : f[x] \in Int, SumFunctionOnSet(f, S) # 0
    PROVE  \E x \in S : f[x] # 0
<1>1. SUFFICES ASSUME \A x \in S : f[x] = 0
               PROVE  FALSE
  OBVIOUS
<1> DEFINE Bad == {T \in SUBSET S : SumFunctionOnSet(f, T) # 0}
<1>2. PICK T \in Bad : \A t \in SUBSET T : t # T => t \notin Bad
  <2>1. Bad \in SUBSET SUBSET S /\ Bad # {}
    OBVIOUS
  <2> HIDE DEF Bad
  <2>2. QED
    BY <2>1, LeastSubset
<1>3. T \in SUBSET S /\ SumFunctionOnSet(f, T) # 0
  BY <1>2
<1>4. IsFiniteSet(T) /\ \A x \in T : f[x] \in Int
  BY <1>3, FS_Subset
<1>5. PICK x \in T : SumFunctionOnSet(f, T) = f[x] + SumFunctionOnSet(f, T \ {x})
  BY <1>3, <1>4, SumTakesAny
<1>6. T \ {x} \in SUBSET T /\ T \ {x} # T /\ T \ {x} \in SUBSET S
  BY <1>3, <1>5
<1>7. SumFunctionOnSet(f, T \ {x}) = 0 /\ f[x] = 0
  BY <1>1, <1>2, <1>3, <1>5, <1>6
<1> HIDE DEF Bad
<1>8. QED
  BY <1>3, <1>5, <1>7

-----------------------------------------------------------------------------
\* g iterates step from base on 0 .. n
IsIteration(g, n, base, step) ==
    g[0] = base /\ \A i \in 0 .. n - 1 : g[i + 1] = step[g[i]]

\* Two iterations agree wherever both are defined.
LEMMA IterationsAgree ==
    ASSUME NEW base, NEW step, NEW n \in Nat, NEW m \in Nat, n <= m,
           NEW g, IsIteration(g, n, base, step),
           NEW h, IsIteration(h, m, base, step)
    PROVE  \A i \in 0 .. n : g[i] = h[i]
<1> DEFINE Bad == {i \in 0 .. n : g[i] # h[i]}
<1>1. SUFFICES ASSUME Bad # {}
               PROVE  FALSE
  OBVIOUS
<1>2. PICK i \in Bad : \A j \in Bad : i <= j
  <2>1. Bad \in SUBSET Nat
    OBVIOUS
  <2> HIDE DEF Bad
  <2>2. QED
    BY <1>1, <2>1, LeastNat
<1>3. i \in 0 .. n /\ g[i] # h[i]
  BY <1>2
<1>4. i # 0
  BY <1>3 DEF IsIteration
<1>5. i - 1 \in 0 .. n - 1 /\ i - 1 \in 0 .. m - 1 /\ i - 1 \in 0 .. n /\ (i - 1) + 1 = i
  BY <1>3, <1>4
<1>6. g[i - 1] = h[i - 1]
  BY <1>2, <1>5
<1>7. g[i] = step[g[i - 1]] /\ h[i] = step[h[i - 1]]
  BY <1>5 DEF IsIteration
<1>8. QED
  BY <1>3, <1>6, <1>7

\* A function can be iterated for ever: what a recursion over the naturals defines exists.
LEMMA IterationExists ==
    ASSUME NEW V, NEW base \in V, NEW step \in [V -> V]
    PROVE  \E f \in [Nat -> V] : f[0] = base /\ \A i \in Nat : f[i + 1] = step[f[i]]
<1> DEFINE Is(g, n) == IsIteration(g, n, base, step)
           Bad == {n \in Nat : ~ \E g \in [0 .. n -> V] : Is(g, n)}
<1>1. Bad = {}
  <2>1. SUFFICES ASSUME Bad # {}
                 PROVE  FALSE
    OBVIOUS
  <2>2. PICK n \in Bad : \A m \in Bad : n <= m
    <3>1. Bad \in SUBSET Nat
      OBVIOUS
    <3> HIDE DEF Bad
    <3>2. QED
      BY <2>1, <3>1, LeastNat
  <2>3. n \in Nat
    BY <2>2
  <2>4. n # 0
    <3> DEFINE g == [i \in 0 .. 0 |-> base]
    <3>1. g \in [0 .. 0 -> V] /\ Is(g, 0)
      BY DEF IsIteration
    <3>2. 0 \notin Bad
      BY <3>1
    <3>3. QED
      BY <2>2, <3>2
  <2>5. n - 1 \in Nat /\ n - 1 \notin Bad
    BY <2>2, <2>3, <2>4
  <2>6. PICK h \in [0 .. n - 1 -> V] : Is(h, n - 1)
    BY <2>5
  <2> DEFINE g == [i \in 0 .. n |-> IF i = n THEN step[h[n - 1]] ELSE h[i]]
  <2>7. n - 1 \in 0 .. n - 1 /\ h[n - 1] \in V
    BY <2>5, <2>6
  <2>8. g \in [0 .. n -> V]
    <3>1. ASSUME NEW i \in 0 .. n
          PROVE  (IF i = n THEN step[h[n - 1]] ELSE h[i]) \in V
      BY <2>3, <2>6, <2>7
    <3>2. QED
      BY <3>1
  <2>9. Is(g, n)
    <3>1. g[0] = base
      BY <2>3, <2>4, <2>6 DEF IsIteration
    <3>2. ASSUME NEW i \in 0 .. n - 1
          PROVE  g[i + 1] = step[g[i]]
      <4>1. g[i] = h[i] /\ i + 1 \in 0 .. n
        BY <2>3
      <4>2. CASE i = n - 1
        BY <2>3, <4>1, <4>2
      <4>3. CASE i # n - 1
        <5>1. i \in 0 .. (n - 1) - 1 /\ i + 1 # n
          BY <2>3, <4>3
        <5>2. h[i + 1] = step[h[i]]
          BY <2>6, <5>1 DEF IsIteration
        <5>3. QED
          BY <4>1, <5>1, <5>2
      <4>4. QED
        BY <4>2, <4>3
    <3>3. QED
      BY <3>1, <3>2 DEF IsIteration
  <2>10. QED
    BY <2>2, <2>8, <2>9
<1>2. \A n \in Nat : \E g \in [0 .. n -> V] : Is(g, n)
  BY <1>1
<1> DEFINE Part(n) == CHOOSE g \in [0 .. n -> V] : Is(g, n)
<1> HIDE DEF Is
<1>3. \A n \in Nat : Part(n) \in [0 .. n -> V] /\ Is(Part(n), n)
  BY <1>2
<1> HIDE DEF Part
<1> DEFINE f == [n \in Nat |-> Part(n)[n]]
<1>4. f \in [Nat -> V]
  <2>1. \A n \in Nat : n \in 0 .. n
    OBVIOUS
  <2>2. \A n \in Nat : Part(n)[n] \in V
    BY <1>3, <2>1
  <2>3. QED
    BY <2>2
<1>5. f[0] = base
  BY <1>3 DEF Is, IsIteration
<1>6. ASSUME NEW i \in Nat
      PROVE  f[i + 1] = step[f[i]]
  <2>1. Is(Part(i), i) /\ Is(Part(i + 1), i + 1) /\ i + 1 \in Nat
    BY <1>3
  <2>2. Part(i)[i] = Part(i + 1)[i]
    BY <2>1, IterationsAgree DEF Is
  <2>3. i \in 0 .. (i + 1) - 1
    OBVIOUS
  <2>4. Part(i + 1)[i + 1] = step[Part(i + 1)[i]]
    BY <2>1, <2>3 DEF Is, IsIteration
  <2>5. QED
    BY <2>1, <2>2, <2>4
<1>7. QED
  BY <1>4, <1>5, <1>6

-----------------------------------------------------------------------------
\* the last position of each set of positions, as a fold from the left takes them
Latest(n) == [s \in SUBSET (1..n) |-> Max(s)]

\* A set of positions has a last one.
LEMMA LatestIsMax ==
    ASSUME NEW n \in Nat, NEW s \in SUBSET (1..n), s # {}
    PROVE  /\ Max(s) \in s /\ \A i \in s : i <= Max(s)
           /\ Latest(n)[s] = Max(s)
<1> DEFINE Gaps == {n - i : i \in s}
<1>1. Gaps \in SUBSET Nat /\ Gaps # {}
  <2>1. \A i \in s : n - i \in Nat
    OBVIOUS
  <2>2. QED
    BY <2>1
<1>2. PICK g \in Gaps : \A h \in Gaps : g <= h
  BY <1>1, LeastNat
<1>3. PICK i \in s : g = n - i
  BY <1>2
<1>4. \A j \in s : i >= j
  <2>1. SUFFICES ASSUME NEW j \in s
                 PROVE  i >= j
    OBVIOUS
  <2>2. n - i <= n - j
    BY <1>2, <1>3
  <2>3. i \in Int /\ j \in Int
    OBVIOUS
  <2> HIDE DEF Gaps
  <2>4. QED
    BY <2>2, <2>3
<1>5. Max(s) \in s /\ \A j \in s : Max(s) >= j
  BY <1>4 DEF Max
<1>6. QED
  BY <1>5 DEF Latest

\* The positions up to i are those before i, and i.
LEMMA UpTo ==
    ASSUME NEW n \in Nat, NEW i \in 1..n
    PROVE  /\ 1..i \in SUBSET (1..n) /\ 1..i # {} /\ Max(1..i) = i
           /\ (1..i) \ {i} = 1..(i - 1)
           /\ 1..i = (1..(i - 1)) \cup {i}
<1>1. 1..i \in SUBSET (1..n) /\ i \in 1..i /\ \A j \in 1..i : j <= i
  <2>1. \A j \in 1..i : j \in 1..n /\ j <= i
    OBVIOUS
  <2>2. i \in 1..i
    OBVIOUS
  <2>3. QED
    BY <2>1, <2>2
<1>2. Max(1..i) = i
  <2>1. 1..i # {}
    BY <1>1
  <2>2. Max(1..i) \in 1..i /\ \A j \in 1..i : j <= Max(1..i)
    BY <1>1, <2>1, LatestIsMax
  <2>3. i <= Max(1..i) /\ Max(1..i) <= i /\ Max(1..i) \in Int
    BY <1>1, <2>2
  <2>4. QED
    BY <2>3
<1>3. (1..i) \ {i} = 1..(i - 1) /\ 1..i = (1..(i - 1)) \cup {i}
  OBVIOUS
<1>4. QED
  BY <1>1, <1>2, <1>3

-----------------------------------------------------------------------------
\* fl is the first i sequences of seqs, one after the other
Flat(fl, seqs, i, w) ==
    /\ \A x \in DOMAIN fl :
        /\ w[x][1] \in 1..i
        /\ w[x][2] \in DOMAIN seqs[w[x][1]]
        /\ fl[x] = seqs[w[x][1]][w[x][2]]
    /\ \A j \in 1..i : \A y \in DOMAIN seqs[j] : \E x \in DOMAIN fl : w[x][1] = j /\ w[x][2] = y
    /\ \A x, y \in DOMAIN fl : w[x][1] = w[y][1] /\ w[x][2] = w[y][2] => x = y
    /\ \A x, y \in DOMAIN fl : x < y =>
        w[x][1] < w[y][1] \/ (w[x][1] = w[y][1] /\ w[x][2] < w[y][2])

\* Appending the next sequence keeps what was flattened.
LEMMA FlatKeeps ==
    ASSUME NEW R, NEW n \in Nat, NEW seqs \in [1..n -> Seq(R)], NEW i \in 1..n,
           NEW fl \in Seq(R), NEW w, Flat(fl, seqs, i - 1, w)
    PROVE  \E v : Flat(fl \o seqs[i], seqs, i, v)
<1> DEFINE all == fl \o seqs[i]
           m == Len(fl)
           v == [x \in DOMAIN all |-> IF x <= m THEN w[x] ELSE <<i, x - m>>]
<1>1. /\ m \in Nat /\ DOMAIN fl = 1..m
      /\ seqs[i] \in Seq(R) /\ Len(seqs[i]) \in Nat /\ DOMAIN seqs[i] = 1..Len(seqs[i])
      /\ DOMAIN all = 1..(m + Len(seqs[i]))
  OBVIOUS
<1> DEFINE next == seqs[i]
<1>10. \A x \in 1..m : x \in DOMAIN all /\ all[x] = fl[x]
  <2> HIDE DEF next
  <2>1. fl \in Seq(R) /\ next \in Seq(R) /\ all = fl \o next
    BY <1>1 DEF next
  <2>2. QED
    BY <2>1
<1>11. \A y \in DOMAIN seqs[i] : m + y \in DOMAIN all /\ all[m + y] = seqs[i][y]
  <2> HIDE DEF next
  <2>1. fl \in Seq(R) /\ next \in Seq(R) /\ all = fl \o next
    BY <1>1 DEF next
  <2>2. \A y \in DOMAIN next : m + y \in DOMAIN all /\ all[m + y] = next[y]
    BY <2>1
  <2>3. QED
    BY <2>2 DEF next
<1>12. \A x \in DOMAIN all : x > m => x - m \in DOMAIN seqs[i] /\ all[x] = seqs[i][x - m]
  <2> HIDE DEF next
  <2>1. fl \in Seq(R) /\ next \in Seq(R) /\ all = fl \o next
    BY <1>1 DEF next
  <2>2. \A x \in DOMAIN all : x > m => x - m \in DOMAIN next /\ all[x] = next[x - m]
    BY <2>1
  <2>3. QED
    BY <2>2 DEF next
<1>2. /\ \A x \in 1..m : x \in DOMAIN all /\ all[x] = fl[x]
      /\ \A y \in DOMAIN seqs[i] : m + y \in DOMAIN all /\ all[m + y] = seqs[i][y]
      /\ \A x \in DOMAIN all : x > m => x - m \in DOMAIN seqs[i] /\ all[x] = seqs[i][x - m]
  <2> HIDE DEF all, m, next
  <2>1. QED
    BY <1>10, <1>11, <1>12
<1>3. /\ \A x \in DOMAIN fl : v[x] = w[x]
      /\ \A x \in DOMAIN all : x > m => v[x][1] = i /\ v[x][2] = x - m
      /\ \A x \in DOMAIN all : x > m \/ x \in DOMAIN fl
  BY <1>1, <1>2
<1> HIDE DEF all, v, m
<1>4. \A x \in DOMAIN fl : /\ w[x][1] \in 1..(i - 1)
                           /\ w[x][2] \in DOMAIN seqs[w[x][1]]
                           /\ fl[x] = seqs[w[x][1]][w[x][2]]
  BY DEF Flat
<1>5. ASSUME NEW x \in DOMAIN all
      PROVE  /\ v[x][1] \in 1..i
             /\ v[x][2] \in DOMAIN seqs[v[x][1]]
             /\ all[x] = seqs[v[x][1]][v[x][2]]
  <2>1. CASE x \in DOMAIN fl
    <3>1. all[x] = fl[x] /\ v[x] = w[x]
      BY <2>1, <1>1, <1>2, <1>3
    <3>2. \A k \in 1..(i - 1) : k \in 1..i
      OBVIOUS
    <3>3. QED
      BY <2>1, <3>1, <3>2, <1>4
  <2>2. CASE x > m
    BY <2>2, <1>2, <1>3
  <2>3. QED
    BY <2>1, <2>2, <1>3
<1>6. ASSUME NEW j \in 1..i, NEW y \in DOMAIN seqs[j]
      PROVE  \E x \in DOMAIN all : v[x][1] = j /\ v[x][2] = y
  <2>1. CASE j = i
    <3>1. m + y \in DOMAIN all /\ m + y > m /\ (m + y) - m = y
      BY <2>1, <1>1, <1>2
    <3>2. v[m + y][1] = i /\ v[m + y][2] = y
      BY <3>1, <1>3
    <3>3. QED
      BY <2>1, <3>1, <3>2
  <2>2. CASE j # i
    <3>1. j \in 1..(i - 1)
      BY <2>2
    <3>2. PICK x \in DOMAIN fl : w[x][1] = j /\ w[x][2] = y
      BY <3>1 DEF Flat
    <3>3. QED
      BY <3>2, <1>1, <1>2, <1>3
  <2>3. QED
    BY <2>1, <2>2
<1>7. ASSUME NEW x \in DOMAIN all, NEW y \in DOMAIN all,
             v[x][1] = v[y][1], v[x][2] = v[y][2]
      PROVE  x = y
  <2>0. x \in Int /\ y \in Int /\ m \in Int
    BY <1>1
  <2>1. \A z \in DOMAIN fl : v[z][1] # i
    BY <1>3, <1>4
  <2>2. CASE x \in DOMAIN fl /\ y \in DOMAIN fl
    BY <2>2, <1>3, <1>7 DEF Flat
  <2>3. CASE x > m /\ y > m
    BY <2>0, <2>3, <1>3, <1>7
  <2>4. QED
    BY <2>1, <2>2, <2>3, <1>3, <1>7
<1>8. ASSUME NEW x \in DOMAIN all, NEW y \in DOMAIN all, x < y
      PROVE  v[x][1] < v[y][1] \/ (v[x][1] = v[y][1] /\ v[x][2] < v[y][2])
  <2>1. x \in Int /\ y \in Int /\ m \in Int /\ \A z \in DOMAIN fl : z <= m
    BY <1>1
  <2>2. CASE y \in DOMAIN fl
    <3>1. x \in DOMAIN fl
      BY <1>1, <1>8, <2>2
    <3>2. w[x][1] < w[y][1] \/ (w[x][1] = w[y][1] /\ w[x][2] < w[y][2])
      BY <1>8, <2>2, <3>1 DEF Flat
    <3>3. v[x] = w[x] /\ v[y] = w[y]
      BY <1>3, <2>2, <3>1
    <3>4. QED
      BY <3>2, <3>3
  <2>3. CASE y > m /\ x \in DOMAIN fl
    <3>1. v[y][1] = i /\ v[x][1] \in 1..(i - 1)
      BY <1>3, <1>4, <2>3
    <3>2. QED
      BY <3>1
  <2>4. CASE y > m /\ x > m
    BY <1>3, <1>8, <2>1, <2>4
  <2>5. QED
    BY <1>3, <2>2, <2>3, <2>4
<1>9. Flat(all, seqs, i, v)
  BY <1>5, <1>6, <1>7, <1>8 DEF Flat
<1>13. QED
  BY <1>9 DEF all

\* h[i] is the first i sequences of seqs, one appended to the other
JoinedUpTo(h, seqs, n) == \A i \in 1..n : h[i] = IF i = 1 THEN seqs[i] ELSE h[i - 1] \o seqs[i]

\* FlattenSeq appends one sequence after the other.
LEMMA FlattenIterates ==
    ASSUME NEW R, NEW n \in Nat \ {0}, NEW seqs \in [1..n -> Seq(R)]
    PROVE  \E h : FlattenSeq(seqs) = h[n] /\ JoinedUpTo(h, seqs, n)
<1>0. seqs \in Seq(Seq(R)) /\ Len(seqs) = n
  OBVIOUS
<1> DEFINE Eq(g) == g = [i \in 1..Len(seqs) |-> IF i = 1 THEN seqs[i] ELSE g[i - 1] \o seqs[i]]
           joins == [p \in (1..n) \X Seq(R) |-> p[2] \o seqs[p[1]]]
<1>1. FlattenSeq(seqs) = (CHOOSE g : Eq(g))[n]
  BY <1>0 DEF FlattenSeq
<1>2. PICK f \in [SUBSET (1..n) -> Seq(R)] : IsFold(f, 1..n, <<>>, joins, Latest(n))
  <2>1. joins \in [(1..n) \X Seq(R) -> Seq(R)]
    <3>1. ASSUME NEW p \in (1..n) \X Seq(R)
          PROVE  p[2] \o seqs[p[1]] \in Seq(R)
      <4>1. p[2] \in Seq(R) /\ seqs[p[1]] \in Seq(R)
        OBVIOUS
      <4>2. QED
        BY <4>1
    <3>2. QED
      BY <3>1
  <2>2. <<>> \in Seq(R) /\ \A s \in SUBSET (1..n) : s # {} => Latest(n)[s] \in s
    BY LatestIsMax
  <2>3. IsFiniteSet(1..n)
    BY FS_Interval
  <2> DEFINE V == Seq(R)
             c == Latest(n)
             all == 1..n
  <2> HIDE DEF V, c, all, joins
  <2>4. QED
    BY <2>1, <2>2, <2>3, FoldExists DEF V, c, all
<1> DEFINE g == [i \in 1..n |-> f[1..i]]
<1>3. ASSUME NEW i \in 1..n
      PROVE  f[1..i] = f[1..(i - 1)] \o seqs[i]
  <2>1. 1..i \in SUBSET (1..n) /\ 1..i # {} /\ i \in 1..i /\ \A j \in 1..i : j <= i
    <3>1. \A j \in 1..i : j \in 1..n /\ j <= i
      OBVIOUS
    <3>2. i \in 1..i
      OBVIOUS
    <3>3. QED
      BY <3>1, <3>2
  <2>2. Latest(n)[1..i] = i
    <3>1. Max(1..i) \in 1..i /\ (\A j \in 1..i : j <= Max(1..i)) /\ Latest(n)[1..i] = Max(1..i)
      BY <2>1, LatestIsMax
    <3>2. QED
      BY <3>1, <2>1
  <2>3. (1..i) \ {i} = 1..(i - 1)
    OBVIOUS
  <2>4. f[1..i] = joins[<<i, f[1..(i - 1)]>>]
    <3> HIDE DEF joins
    <3> DEFINE s == 1..i
    <3>1. f[s] = joins[<<Latest(n)[s], f[s \ {Latest(n)[s]}]>>]
      BY <1>2, <2>1 DEF IsFold
    <3>2. QED
      BY <3>1, <2>2, <2>3
  <2>5. f[1..(i - 1)] \in Seq(R)
    BY <1>2
  <2>6. <<i, f[1..(i - 1)]>> \in (1..n) \X Seq(R)
    BY <2>5
  <2>7. QED
    BY <2>4, <2>6
<1>4. f[{}] = <<>>
  BY <1>2 DEF IsFold
<1> HIDE DEF joins
<1>5. Eq(g)
  <2>1. ASSUME NEW i \in 1..n
        PROVE  g[i] = IF i = 1 THEN seqs[i] ELSE g[i - 1] \o seqs[i]
    <3>1. CASE i = 1
      <4>1. 1..(i - 1) = {} /\ seqs[i] \in Seq(R)
        BY <3>1
      <4>2. f[1..i] = <<>> \o seqs[i]
        BY <1>3, <1>4, <4>1
      <4>3. QED
        BY <3>1, <4>1, <4>2
    <3>2. CASE i # 1
      <4>1. i - 1 \in 1..n
        BY <3>2
      <4>2. g[i] = f[1..i] /\ g[i - 1] = f[1..(i - 1)]
        BY <4>1
      <4>3. QED
        BY <3>2, <4>2, <1>3
    <3>3. QED
      BY <3>1, <3>2
  <2>2. QED
    BY <1>0, <2>1
<1> DEFINE h == CHOOSE e : Eq(e)
<1>6. Eq(h)
  <2> HIDE DEF Eq, g
  <2>1. QED
    BY <1>5
<1>7. \A i \in 1..n : h[i] = IF i = 1 THEN seqs[i] ELSE h[i - 1] \o seqs[i]
  BY <1>0, <1>6
<1>8. FlattenSeq(seqs) = h[n]
  BY <1>1
<1>9. QED
  BY <1>7, <1>8 DEF JoinedUpTo

\* FlattenSeq puts the sequences one after the other.
LEMMA FlattenSeqIsFlat ==
    ASSUME NEW R, NEW n \in Nat, NEW seqs \in [1..n -> Seq(R)]
    PROVE  FlattenSeq(seqs) \in Seq(R) /\ \E w : Flat(FlattenSeq(seqs), seqs, n, w)
<1>0. seqs \in Seq(Seq(R)) /\ Len(seqs) = n
  OBVIOUS
<1>1. CASE n = 0
  <2>1. FlattenSeq(seqs) = <<>>
    BY <1>0, <1>1 DEF FlattenSeq
  <2>2. \A w : Flat(<<>>, seqs, n, w)
    BY <1>1 DEF Flat
  <2>3. QED
    BY <2>1, <2>2
<1>2. CASE n # 0
  <2>0. PICK h : FlattenSeq(seqs) = h[n] /\ JoinedUpTo(h, seqs, n)
    <3>1. n \in Nat \ {0}
      BY <1>2
    <3>2. QED
      BY <3>1, FlattenIterates, Zenon
  <2>1. \A i \in 1..n : h[i] = IF i = 1 THEN seqs[i] ELSE h[i - 1] \o seqs[i]
    BY <2>0 DEF JoinedUpTo
  <2>8. \A i \in 1..n : h[i] \in Seq(R) /\ \E w : Flat(h[i], seqs, i, w)
    <3> DEFINE Good(i) == h[i] \in Seq(R) /\ \E w : Flat(h[i], seqs, i, w)
               Bad == {i \in 1..n : ~Good(i)}
    <3>1. SUFFICES ASSUME Bad # {}
                   PROVE  FALSE
      OBVIOUS
    <3>2. PICK i \in Bad : \A j \in Bad : i <= j
      <4>1. Bad \in SUBSET Nat
        OBVIOUS
      <4> HIDE DEF Bad
      <4>2. QED
        BY <3>1, <4>1, LeastNat
    <3>3. i \in 1..n /\ ~Good(i)
      BY <3>2
    <3>4. seqs[i] \in Seq(R)
      BY <3>3
    <3>5. PICK fl \in Seq(R) : h[i] = fl \o seqs[i] /\ \E w : Flat(fl, seqs, i - 1, w)
      <4>1. CASE i = 1
        <5>1. \A w : Flat(<<>>, seqs, i - 1, w)
          BY <4>1 DEF Flat
        <5>2. h[i] = <<>> \o seqs[i]
          BY <4>1, <2>1, <3>3, <3>4
        <5>3. <<>> \in Seq(R)
          OBVIOUS
        <5> HIDE DEF Good, Bad
        <5>4. QED
          BY <5>1, <5>2, <5>3
      <4>2. CASE i # 1
        <5>1. i - 1 \in 1..n /\ ~(i <= i - 1)
          BY <4>2, <3>3
        <5>2. i - 1 \notin Bad
          <6> HIDE DEF Bad
          <6>1. QED
            BY <5>1, <3>2
        <5>3. Good(i - 1)
          BY <5>1, <5>2
        <5>4. QED
          BY <4>2, <5>3, <2>1, <3>3
      <4>3. QED
        BY <4>1, <4>2
    <3>6. PICK w : Flat(fl, seqs, i - 1, w)
      BY <3>5
    <3>7. \E v : Flat(fl \o seqs[i], seqs, i, v)
      BY <3>3, <3>6, FlatKeeps
    <3>8. fl \o seqs[i] \in Seq(R)
      BY <3>4
    <3>9. QED
      BY <3>3, <3>5, <3>7, <3>8
  <2>9. n \in 1..n
    BY <1>2
  <2>10. QED
    BY <2>0, <2>8, <2>9
<1>3. QED
  BY <1>1, <1>2

-----------------------------------------------------------------------------
\* Flattening with one more sequence at the end appends that sequence.
LEMMA FlattenAppends ==
    ASSUME NEW R, NEW s \in Seq(Seq(R)), NEW a \in Seq(R)
    PROVE  /\ FlattenSeq(s) \in Seq(R)
           /\ FlattenSeq(Append(s, a)) = FlattenSeq(s) \o a
<1> DEFINE t == Append(s, a)
           n == Len(s)
<1>1. /\ n \in Nat /\ s \in [1..n -> Seq(R)]
      /\ t \in [1..(n + 1) -> Seq(R)] /\ t[n + 1] = a
      /\ \A i \in 1..n : t[i] = s[i]
  <2> DEFINE V == Seq(R)
  <2> HIDE DEF V
  <2>1. s \in Seq(V) /\ a \in V
    BY DEF V
  <2>2. /\ n \in Nat /\ s \in [1..n -> V]
        /\ t \in [1..(n + 1) -> V] /\ t[n + 1] = a
        /\ \A i \in 1..n : t[i] = s[i]
    <3>1. n \in Nat /\ s \in [1..n -> V]
      BY <2>1, LenProperties
    <3>2. t \in Seq(V) /\ Len(t) = n + 1 /\ t[n + 1] = a /\ \A i \in 1..n : t[i] = s[i]
      BY <2>1, AppendProperties
    <3>3. t \in [1..(n + 1) -> V]
      <4> HIDE DEF t, n
      <4>1. QED
        BY <3>2, LenProperties
    <3>4. QED
      BY <3>1, <3>2, <3>3
  <2>3. QED
    BY <2>2 DEF V
<1>2. FlattenSeq(s) \in Seq(R)
  BY <1>1, FlattenSeqIsFlat
<1>3. n + 1 \in Nat \ {0}
  BY <1>1
<1>0. PICK h : FlattenSeq(t) = h[n + 1] /\ JoinedUpTo(h, t, n + 1)
  <2> HIDE DEF t, n
  <2>1. QED
    BY <1>1, <1>3, FlattenIterates, Zenon
<1>4. /\ FlattenSeq(t) = h[n + 1]
      /\ \A i \in 1..(n + 1) : h[i] = IF i = 1 THEN t[i] ELSE h[i - 1] \o t[i]
  BY <1>0 DEF JoinedUpTo
<1>5. CASE n = 0
  <2>1. s = <<>> /\ FlattenSeq(s) = <<>>
    BY <1>1, <1>5 DEF FlattenSeq
  <2>2. h[1] = a
    BY <1>1, <1>4, <1>5
  <2>3. <<>> \o a = a
    OBVIOUS
  <2>4. QED
    BY <1>2, <1>4, <1>5, <2>1, <2>2, <2>3
<1>6. CASE n # 0
  <2>0. PICK g : FlattenSeq(s) = g[n] /\ JoinedUpTo(g, s, n)
    <3>1. n \in Nat \ {0}
      BY <1>1, <1>6
    <3> HIDE DEF n
    <3>2. QED
      BY <1>1, <3>1, FlattenIterates, Zenon
  <2>1. /\ FlattenSeq(s) = g[n]
        /\ \A i \in 1..n : g[i] = IF i = 1 THEN s[i] ELSE g[i - 1] \o s[i]
    BY <2>0 DEF JoinedUpTo
  <2> HIDE DEF t, n
  <2>2. \A i \in 1..n : g[i] = h[i]
    <3> DEFINE Bad == {i \in 1..n : g[i] # h[i]}
    <3>1. SUFFICES ASSUME Bad # {}
                   PROVE  FALSE
      OBVIOUS
    <3>2. PICK i \in Bad : \A j \in Bad : i <= j
      <4>1. Bad \in SUBSET Nat
        BY <1>1
      <4> HIDE DEF Bad
      <4>2. QED
        BY <3>1, <4>1, LeastNat
    <3>3. i \in 1..n /\ i \in 1..(n + 1) /\ g[i] # h[i]
      BY <3>2, <1>1
    <3>4. g[i] = IF i = 1 THEN s[i] ELSE g[i - 1] \o s[i]
      BY <2>1, <3>3
    <3>5. h[i] = IF i = 1 THEN s[i] ELSE h[i - 1] \o s[i]
      BY <1>1, <1>4, <3>3
    <3>6. i # 1 /\ g[i - 1] # h[i - 1]
      BY <3>3, <3>4, <3>5
    <3>7. i - 1 \in 1..n /\ ~(i <= i - 1)
      BY <1>1, <3>3, <3>6
    <3>8. QED
      BY <3>2, <3>6, <3>7
  <2>3. n \in 1..n /\ n + 1 \in 1..(n + 1) /\ n + 1 # 1 /\ (n + 1) - 1 = n
    BY <1>1, <1>6
  <2>4. h[n + 1] = h[n] \o a
    BY <1>1, <1>4, <2>3
  <2>5. QED
    BY <1>2, <1>4, <2>1, <2>2, <2>3, <2>4 DEF t
<1>7. QED
  BY <1>5, <1>6

\* Flattening no sequences gives the empty sequence.
LEMMA FlattenNone == FlattenSeq(<<>>) = <<>>
  BY DEF FlattenSeq

\* The first k + 1 elements of a sequence are the first k and one more.
LEMMA PrefixGrows ==
    ASSUME NEW R, NEW t \in Seq(R), NEW k \in Nat, k < Len(t)
    PROVE  /\ SubSeq(t, 1, k) \in Seq(R)
           /\ SubSeq(t, 1, k + 1) = Append(SubSeq(t, 1, k), t[k + 1])
           /\ t[k + 1] \in R
           /\ SubSeq(t, 1, 0) = <<>>
           /\ SubSeq(t, 1, Len(t)) = t
  OBVIOUS

\* Flattening two lists one after the other joins what each flattens to.
LEMMA FlattenJoins ==
    ASSUME NEW R, NEW s \in Seq(Seq(R)), NEW t \in Seq(Seq(R))
    PROVE  FlattenSeq(s \o t) = FlattenSeq(s) \o FlattenSeq(t)
<1> DEFINE F(k) == SubSeq(t, 1, k)
           Whole(k) == FlattenSeq(s \o F(k))
           Parts(k) == FlattenSeq(s) \o FlattenSeq(F(k))
           Good == {k \in 0..Len(t) : Whole(k) = Parts(k)}
<1>0. Len(t) \in Nat
  OBVIOUS
<1>1. 0 \in Good
  <2>1. F(0) = <<>> /\ s \o <<>> = s
    OBVIOUS
  <2>2. FlattenSeq(s) \o <<>> = FlattenSeq(s)
    <3>1. FlattenSeq(s) \in Seq(R)
      BY FlattenAppends
    <3>2. QED
      BY <3>1
  <2>3. Whole(0) = Parts(0)
    <3> HIDE DEF F
    <3>1. QED
      BY <2>1, <2>2, FlattenNone, Zenon
  <2> HIDE DEF F, Whole, Parts
  <2>4. QED
    BY <1>0, <2>3
<1>2. ASSUME NEW k \in Good, k < Len(t)
      PROVE  k + 1 \in Good
  <2>1. /\ k \in 0..Len(t) /\ k \in Nat
        /\ Whole(k) = Parts(k)
    <3> HIDE DEF Whole, Parts
    <3>1. QED
      BY <1>0
  <2>2. /\ F(k) \in Seq(Seq(R)) /\ t[k + 1] \in Seq(R)
        /\ F(k + 1) = Append(F(k), t[k + 1])
    <3> DEFINE V == Seq(R)
    <3>1. t \in Seq(V)
      OBVIOUS
    <3> HIDE DEF V
    <3>2. QED
      BY <1>2, <2>1, <3>1, PrefixGrows DEF V
  <2> HIDE DEF F
  <2>3. s \o F(k + 1) = Append(s \o F(k), t[k + 1]) /\ s \o F(k) \in Seq(Seq(R))
    <3> DEFINE V == Seq(R)
    <3> HIDE DEF V
    <3>1. s \in Seq(V) /\ F(k) \in Seq(V) /\ t[k + 1] \in V
      BY <2>2 DEF V
    <3>2. s \o Append(F(k), t[k + 1]) = Append(s \o F(k), t[k + 1]) /\ s \o F(k) \in Seq(V)
      BY <3>1
    <3>3. QED
      BY <2>2, <3>2 DEF V
  <2>4. /\ FlattenSeq(s \o F(k + 1)) = FlattenSeq(s \o F(k)) \o t[k + 1]
        /\ FlattenSeq(F(k + 1)) = FlattenSeq(F(k)) \o t[k + 1]
        /\ FlattenSeq(F(k)) \in Seq(R) /\ FlattenSeq(s) \in Seq(R)
    BY <2>2, <2>3, FlattenAppends
  <2>5. (FlattenSeq(s) \o FlattenSeq(F(k))) \o t[k + 1] = FlattenSeq(s) \o (FlattenSeq(F(k)) \o t[k + 1])
    <3>1. \A x, y, z \in Seq(R) : (x \o y) \o z = x \o (y \o z)
      <4> HIDE DEF Whole, Parts, Good, F
      <4> TAKE x, y, z \in Seq(R)
      <4> QED
        BY ConcatAssociative
    <3>2. QED
      BY <2>2, <2>4, <3>1, Zenon
  <2>6. Whole(k + 1) = Parts(k + 1)
    BY <2>1, <2>4, <2>5, Zenon DEF Whole, Parts
  <2> HIDE DEF Whole, Parts
  <2>7. QED
    BY <1>0, <1>2, <2>1, <2>6
<1>3. Len(t) \in Good
  <2> HIDE DEF Good
  <2>1. QED
    BY <1>0, <1>1, <1>2, CountUp
<1>4. F(Len(t)) = t
  OBVIOUS
<1>5. Whole(Len(t)) = Parts(Len(t))
  <2> HIDE DEF Whole, Parts
  <2>1. QED
    BY <1>3
<1> HIDE DEF F
<1>6. QED
  BY <1>4, <1>5, Zenon

-----------------------------------------------------------------------------
\* what g gives for each element of x, one after the other
Spread(g, x) == FlattenSeq([c \in DOMAIN x |-> g[x[c]]])

\* What a spread gives is a sequence.
LEMMA SpreadType ==
    ASSUME NEW A, NEW R, NEW g \in [A -> Seq(R)], NEW x \in Seq(A)
    PROVE  Spread(g, x) \in Seq(R)
<1> DEFINE m == [c \in DOMAIN x |-> g[x[c]]]
<1>1. DOMAIN x = 1..Len(x) /\ Len(x) \in Nat /\ \A c \in 1..Len(x) : x[c] \in A
  OBVIOUS
<1>2. m \in [1..Len(x) -> Seq(R)]
  BY <1>1
<1> HIDE DEF m
<1>3. FlattenSeq(m) \in Seq(R)
  BY <1>1, <1>2, FlattenSeqIsFlat
<1>4. QED
  BY <1>3 DEF Spread, m

\* A spread of two sequences one after the other is their spreads one after the other.
LEMMA SpreadJoins ==
    ASSUME NEW A, NEW R, NEW g \in [A -> Seq(R)], NEW x \in Seq(A), NEW y \in Seq(A)
    PROVE  Spread(g, x \o y) = Spread(g, x) \o Spread(g, y)
<1> DEFINE Map(z) == [c \in DOMAIN z |-> g[z[c]]]
<1>1. \A z \in Seq(A) : Map(z) \in Seq(Seq(R)) /\ Len(Map(z)) = Len(z)
  <2>1. SUFFICES ASSUME NEW z \in Seq(A)
                 PROVE  Map(z) \in Seq(Seq(R)) /\ Len(Map(z)) = Len(z)
    OBVIOUS
  <2>2. DOMAIN z = 1..Len(z) /\ Len(z) \in Nat /\ \A c \in 1..Len(z) : z[c] \in A
    OBVIOUS
  <2>3. Map(z) \in [1..Len(z) -> Seq(R)]
    BY <2>2
  <2>4. QED
    BY <2>2, <2>3
<1>2. Map(x \o y) = Map(x) \o Map(y)
  <2>1. x \o y \in Seq(A) /\ Len(x \o y) = Len(x) + Len(y) /\ Len(x) \in Nat /\ Len(y) \in Nat
    OBVIOUS
  <2>2. /\ Map(x) \in Seq(Seq(R)) /\ Map(y) \in Seq(Seq(R)) /\ Map(x \o y) \in Seq(Seq(R))
        /\ Len(Map(x)) = Len(x) /\ Len(Map(y)) = Len(y) /\ Len(Map(x \o y)) = Len(x \o y)
    BY <1>1, <2>1
  <2>3. ASSUME NEW i \in 1..(Len(x) + Len(y))
        PROVE  Map(x \o y)[i] = (Map(x) \o Map(y))[i]
    <3>1. (x \o y)[i] = IF i <= Len(x) THEN x[i] ELSE y[i - Len(x)]
      BY <2>1, <2>3
    <3>2. i \in DOMAIN (x \o y)
      BY <2>1, <2>3
    <3>3. Map(x \o y)[i] = g[(x \o y)[i]]
      BY <3>2
    <3>4. (Map(x) \o Map(y))[i] = IF i <= Len(x) THEN Map(x)[i] ELSE Map(y)[i - Len(x)]
      <4> HIDE DEF Map
      <4>1. QED
        BY <2>1, <2>2, <2>3
    <3>5. CASE i <= Len(x)
      <4>1. i \in DOMAIN x
        BY <2>1, <2>3, <3>5
      <4>2. Map(x)[i] = g[x[i]]
        BY <4>1
      <4> HIDE DEF Map
      <4>3. QED
        BY <3>1, <3>3, <3>4, <3>5, <4>2
    <3>6. CASE ~(i <= Len(x))
      <4>1. i - Len(x) \in DOMAIN y
        BY <2>1, <2>3, <3>6
      <4>2. Map(y)[i - Len(x)] = g[y[i - Len(x)]]
        BY <4>1
      <4> HIDE DEF Map
      <4>3. QED
        BY <3>1, <3>3, <3>4, <3>6, <4>2
    <3>7. QED
      BY <3>5, <3>6
  <2>4. QED
    <3> HIDE DEF Map
    <3> DEFINE V == Seq(R)
    <3>1. /\ Map(x) \in Seq(V) /\ Map(y) \in Seq(V) /\ Map(x \o y) \in Seq(V)
      BY <2>2
    <3> HIDE DEF V
    <3>2. Map(x) \o Map(y) \in Seq(V) /\ Len(Map(x) \o Map(y)) = Len(x) + Len(y)
      BY <2>1, <2>2, <3>1
    <3>3. QED
      BY <2>1, <2>2, <2>3, <3>1, <3>2, SeqEqual
<1> HIDE DEF Map
<1>3. Map(x) \in Seq(Seq(R)) /\ Map(y) \in Seq(Seq(R))
  BY <1>1
<1>4. FlattenSeq(Map(x \o y)) = FlattenSeq(Map(x)) \o FlattenSeq(Map(y))
  BY <1>2, <1>3, FlattenJoins
<1>5. QED
  BY <1>4 DEF Spread, Map

\* The spread of one element is what g gives it, that of none is empty.
LEMMA SpreadOne ==
    ASSUME NEW A, NEW R, NEW g \in [A -> Seq(R)], NEW a \in A
    PROVE  Spread(g, <<a>>) = g[a] /\ Spread(g, <<>>) = <<>>
<1> DEFINE Map(z) == [c \in DOMAIN z |-> g[z[c]]]
<1>1. g[a] \in Seq(R) /\ <<>> \in Seq(Seq(R))
  OBVIOUS
<1>2. Map(<<a>>) = Append(<<>>, g[a]) /\ Map(<<>>) = <<>>
  <2>1. Map(<<a>>) = <<g[a]>>
    OBVIOUS
  <2>2. Append(<<>>, g[a]) = <<g[a]>>
    OBVIOUS
  <2>3. Map(<<>>) = <<>>
    OBVIOUS
  <2>4. QED
    BY <2>1, <2>2, <2>3
<1> HIDE DEF Map
<1>3. FlattenSeq(Append(<<>>, g[a])) = <<>> \o g[a]
  BY <1>1, FlattenAppends, FlattenNone
<1>4. <<>> \o g[a] = g[a]
  BY <1>1
<1>5. QED
  BY <1>2, <1>3, <1>4, FlattenNone DEF Spread, Map

\* Spreading a flattened list is flattening the spreads of its members.
LEMMA SpreadFlattens ==
    ASSUME NEW A, NEW R, NEW g \in [A -> Seq(R)], NEW ps \in Seq(Seq(A))
    PROVE  Spread(g, FlattenSeq(ps)) = FlattenSeq([n \in DOMAIN ps |-> Spread(g, ps[n])])
<1>j. ASSUME NEW x \in Seq(A), NEW y \in Seq(A)
      PROVE  Spread(g, x \o y) = Spread(g, x) \o Spread(g, y)
  BY SpreadJoins
<1> DEFINE F(k) == SubSeq(ps, 1, k)
           Map(z) == [n \in DOMAIN z |-> Spread(g, z[n])]
           Whole(k) == Spread(g, FlattenSeq(F(k)))
           Parts(k) == FlattenSeq(Map(F(k)))
           Good == {k \in 0..Len(ps) : Whole(k) = Parts(k)}
<1>0. Len(ps) \in Nat
  OBVIOUS
<1>e. <<>> \in Seq(A)
  OBVIOUS
<1>1. 0 \in Good
  <2>1. F(0) = <<>> /\ Map(<<>>) = <<>>
    OBVIOUS
  <2>2. Spread(g, <<>>) = <<>>
    BY FlattenNone DEF Spread
  <2> HIDE DEF F, Map
  <2>3. QED
    BY <1>0, <2>1, <2>2, FlattenNone
<1>s. ASSUME NEW z \in Seq(A)
      PROVE  Spread(g, z) \in Seq(R)
  BY SpreadType
<1>2. ASSUME NEW k \in Good, k < Len(ps)
      PROVE  k + 1 \in Good
  <2>1. /\ k \in 0..Len(ps) /\ k \in Nat
        /\ Whole(k) = Parts(k)
    <3> HIDE DEF Whole, Parts
    <3>1. QED
      BY <1>0
  <2> DEFINE p == ps[k + 1]
             V == Seq(A)
             W == Seq(R)
  <2>2. F(k) \in Seq(V) /\ p \in V /\ F(k + 1) = Append(F(k), p)
    <3>1. ps \in Seq(V)
      OBVIOUS
    <3> HIDE DEF V
    <3>2. QED
      BY <1>2, <2>1, <3>1, PrefixGrows
  <2>3. Map(F(k)) \in Seq(W) /\ Spread(g, p) \in W /\ Map(F(k + 1)) = Append(Map(F(k)), Spread(g, p))
    <3> DEFINE u == F(k)
    <3>1. u \in Seq(V) /\ DOMAIN u = 1..Len(u) /\ Len(u) \in Nat /\ \A i \in 1..Len(u) : u[i] \in V
      <4> HIDE DEF F, V
      <4>1. QED
        BY <2>2
    <3> HIDE DEF F, p, u
    <3>2. Spread(g, p) \in W
      BY <1>s, <2>2
    <3>3. Map(u) \in [1..Len(u) -> W]
      BY <1>s, <3>1
    <3> HIDE DEF W, V
    <3>4. Map(u) \in Seq(W) /\ Len(Map(u)) = Len(u)
      <4> HIDE DEF Map
      <4>1. QED
        BY <3>1, <3>3
    <3>5. DOMAIN Append(u, p) = 1..(Len(u) + 1) /\ Append(u, p)[Len(u) + 1] = p
          /\ \A i \in 1..Len(u) : Append(u, p)[i] = u[i]
      BY <2>2, <3>1
    <3>6. Map(Append(u, p)) \in [1..(Len(u) + 1) -> W]
      <4>1. \A i \in 1..(Len(u) + 1) : Append(u, p)[i] \in V
        BY <2>2, <3>1, <3>5
      <4>2. QED
        BY <1>s, <3>5, <4>1 DEF V, W
    <3>7. Map(Append(u, p)) = Append(Map(u), Spread(g, p))
      <4>1. Append(Map(u), Spread(g, p)) \in Seq(W) /\ Len(Append(Map(u), Spread(g, p))) = Len(u) + 1
            /\ Append(Map(u), Spread(g, p))[Len(u) + 1] = Spread(g, p)
            /\ \A i \in 1..Len(u) : Append(Map(u), Spread(g, p))[i] = Map(u)[i]
        <5> HIDE DEF Map
        <5>1. QED
          BY <3>1, <3>2, <3>4
      <4>2. Map(Append(u, p))[Len(u) + 1] = Spread(g, p) /\ \A i \in 1..Len(u) : Map(Append(u, p))[i] = Map(u)[i]
        <5>1. Len(u) + 1 \in 1..(Len(u) + 1) /\ \A i \in 1..Len(u) : i \in 1..(Len(u) + 1)
          BY <3>1
        <5>2. QED
          BY <3>1, <3>5, <5>1
      <4> DEFINE l == Map(Append(u, p))
                 r == Append(Map(u), Spread(g, p))
      <4>3. l \in Seq(W) /\ Len(l) = Len(u) + 1
        <5> HIDE DEF Map
        <5>1. QED
          BY <3>1, <3>6
      <4> HIDE DEF Map, l, r
      <4>4. \A i \in 1..Len(l) : l[i] = r[i]
        <5>1. r \in Seq(W) /\ Len(r) = Len(u) + 1 /\ r[Len(u) + 1] = Spread(g, p)
              /\ \A i \in 1..Len(u) : r[i] = Map(u)[i]
          BY <4>1 DEF r
        <5>2. l[Len(u) + 1] = Spread(g, p) /\ \A i \in 1..Len(u) : l[i] = Map(u)[i]
          BY <4>2 DEF l
        <5>3. ASSUME NEW i \in 1..Len(l)
              PROVE  l[i] = r[i]
          <6>1. i = Len(u) + 1 \/ i \in 1..Len(u)
            BY <3>1, <4>3
          <6>2. QED
            BY <5>1, <5>2, <6>1
        <5>4. QED
          BY <5>3
      <4>5. r \in Seq(W) /\ Len(r) = Len(l)
        BY <4>1, <4>3 DEF r
      <4>6. l = r
        BY <4>3, <4>4, <4>5, SeqEqual
      <4>7. QED
        BY <4>6 DEF l, r
    <3>8. QED
      BY <2>2, <3>2, <3>4, <3>7 DEF u
  <2> HIDE DEF F, Map, p, V, W
  <2>4. /\ FlattenSeq(F(k + 1)) = FlattenSeq(F(k)) \o p
        /\ FlattenSeq(F(k)) \in Seq(A)
    BY <2>2, FlattenAppends DEF V
  <2>5. FlattenSeq(Map(F(k + 1))) = FlattenSeq(Map(F(k))) \o Spread(g, p)
    BY <2>3, FlattenAppends DEF W
  <2>6. Spread(g, FlattenSeq(F(k)) \o p) = Spread(g, FlattenSeq(F(k))) \o Spread(g, p)
    <3>1. p \in Seq(A)
      BY <2>2 DEF V
    <3>2. QED
      <4>1. \A x, y \in Seq(A) : Spread(g, x \o y) = Spread(g, x) \o Spread(g, y)
        BY <1>j
      <4>2. QED
        BY <2>4, <3>1, <4>1, Zenon
  <2>7. Whole(k + 1) = Parts(k + 1)
    BY <2>1, <2>4, <2>5, <2>6, Zenon DEF Whole, Parts
  <2> HIDE DEF Whole, Parts
  <2>8. QED
    BY <1>0, <1>2, <2>1, <2>7
<1>3. Len(ps) \in Good
  <2> HIDE DEF Good
  <2>1. QED
    BY <1>0, <1>1, <1>2, CountUp
<1>4. F(Len(ps)) = ps
  OBVIOUS
<1>5. Whole(Len(ps)) = Parts(Len(ps))
  <2> HIDE DEF Whole, Parts
  <2>1. QED
    BY <1>3
<1>6. QED
  BY <1>4, <1>5, Zenon

-----------------------------------------------------------------------------
\* Induction from the end of a sequence towards its start.
LEMMA FromTheEnd ==
    ASSUME NEW N \in Nat, NEW Good, N + 1 \in Good,
           \A i \in 1..N : (\A j \in (i + 1)..(N + 1) : j \in Good) => i \in Good
    PROVE  \A i \in 1..(N + 1) : i \in Good
<1> DEFINE Bad == {k \in 0..N : N + 1 - k \notin Good}
<1>1. SUFFICES ASSUME NEW i \in 1..(N + 1), i \notin Good
               PROVE  FALSE
  OBVIOUS
<1>2. N + 1 - i \in Bad
  BY <1>1
<1>3. PICK k \in Bad : \A l \in Bad : k <= l
  <2>1. Bad \in SUBSET Nat
    OBVIOUS
  <2> HIDE DEF Bad
  <2>2. Bad # {}
    BY <1>2
  <2>3. QED
    BY <2>1, <2>2, LeastNat
<1>4. k \in 0..N /\ N + 1 - k \notin Good
  BY <1>3
<1>5. k # 0 /\ N + 1 - k \in 1..N
  BY <1>4
<1>6. ASSUME NEW j \in ((N + 1 - k) + 1)..(N + 1)
      PROVE  j \in Good
  <2>1. N + 1 - j \in 0..N /\ ~(k <= N + 1 - j) /\ N + 1 - (N + 1 - j) = j
    BY <1>4, <1>5, <1>6
  <2>2. N + 1 - j \notin Bad
    <3> HIDE DEF Bad
    <3>1. QED
      BY <1>3, <2>1
  <2>3. QED
    BY <2>1, <2>2
<1>7. QED
  BY <1>4, <1>5, <1>6

\* f joins the heads found from i on, the one after head[i] at next[i]
IsJoin(f, a, N, head, next) ==
    \A i \in a..(N + 1) : f[i] = IF i > N THEN <<>> ELSE head[i] \o f[next[i]]

\* A loop that puts a head before the rest, and takes the rest further on, is
\* defined at every position.
LEMMA JoinExists ==
    ASSUME NEW N \in Nat, NEW S, NEW head \in [1..N -> Seq(S)],
           NEW next \in [1..N -> 1..(N + 1)], \A i \in 1..N : i < next[i]
    PROVE  \E f \in [1..(N + 1) -> Seq(S)] : IsJoin(f, 1, N, head, next)
<1> DEFINE From(k) == N + 1 - k
           Has(k) == \E f \in [From(k)..(N + 1) -> Seq(S)] : IsJoin(f, From(k), N, head, next)
           Good == {k \in 0..N : Has(k)}
<1>1. 0 \in Good
  <2> DEFINE f == [i \in (N + 1)..(N + 1) |-> <<>>]
  <2>1. f \in [(N + 1)..(N + 1) -> Seq(S)]
    <3>1. <<>> \in Seq(S)
      OBVIOUS
    <3>2. QED
      BY <3>1
  <2>2. IsJoin(f, N + 1, N, head, next)
    <3>1. \A i \in (N + 1)..(N + 1) : i > N /\ f[i] = <<>>
      OBVIOUS
    <3> HIDE DEF f
    <3>2. QED
      BY <3>1 DEF IsJoin
  <2>3. From(0) = N + 1
    OBVIOUS
  <2> HIDE DEF f
  <2>4. QED
    BY <2>1, <2>2, <2>3
<1>2. ASSUME NEW k \in Good, k < N
      PROVE  k + 1 \in Good
  <2>1. k \in 0..N /\ Has(k)
    <3> HIDE DEF Has
    <3>1. QED
      OBVIOUS
  <2> DEFINE a == From(k)
             b == a - 1
  <2>2. PICK f \in [a..(N + 1) -> Seq(S)] : IsJoin(f, a, N, head, next)
    BY <2>1
  <2>3. a \in 2..(N + 1) /\ b \in 1..N /\ next[b] \in a..(N + 1) /\ head[b] \in Seq(S) /\ a \in Nat
    <3>1. a \in 2..(N + 1) /\ b \in 1..N
      BY <1>2, <2>1
    <3>2. next[b] \in 1..(N + 1) /\ b < next[b]
      BY <3>1
    <3>3. QED
      BY <3>1, <3>2
  <2> DEFINE g == [i \in b..(N + 1) |-> IF i = b THEN head[b] \o f[next[b]] ELSE f[i]]
  <2> HIDE DEF a
  <2>4. g \in [b..(N + 1) -> Seq(S)]
    <3>1. head[b] \o f[next[b]] \in Seq(S)
      <4>1. f[next[b]] \in Seq(S)
        BY <2>2, <2>3
      <4>2. QED
        BY <2>3, <4>1
    <3>2. \A i \in b..(N + 1) : i # b => i \in a..(N + 1)
      BY <2>3
    <3>3. \A i \in b..(N + 1) : i # b => f[i] \in Seq(S)
      BY <2>2, <3>2
    <3>4. QED
      BY <3>1, <3>3
  <2>5. IsJoin(g, b, N, head, next)
    <3>1. SUFFICES ASSUME NEW i \in b..(N + 1)
                   PROVE  g[i] = IF i > N THEN <<>> ELSE head[i] \o g[next[i]]
      BY DEF IsJoin
    <3>2. \A j \in a..(N + 1) : g[j] = f[j]
      BY <2>3
    <3>3. CASE i = b
      <4>1. g[i] = head[b] \o f[next[b]] /\ ~(i > N)
        BY <2>3, <3>3
      <4>2. g[next[b]] = f[next[b]]
        BY <2>3, <3>2
      <4> HIDE DEF g
      <4>3. QED
        BY <3>3, <4>1, <4>2
    <3>4. CASE i # b
      <4>1. i \in a..(N + 1)
        BY <2>3, <3>4
      <4>2. f[i] = IF i > N THEN <<>> ELSE head[i] \o f[next[i]]
        BY <2>2, <4>1 DEF IsJoin
      <4>3. i <= N => next[i] \in a..(N + 1)
        <5>1. SUFFICES ASSUME i <= N
                       PROVE  next[i] \in a..(N + 1)
          OBVIOUS
        <5>2. i \in 1..N
          BY <2>3, <4>1, <5>1
        <5>3. next[i] \in 1..(N + 1) /\ i < next[i]
          BY <5>2
        <5>4. a \in Nat /\ a <= i
          BY <2>3, <4>1
        <5>5. QED
          BY <5>2, <5>3, <5>4
      <4>4. g[i] = f[i]
        BY <3>2, <4>1
      <4>5. i <= N => g[next[i]] = f[next[i]]
        BY <3>2, <4>3
      <4> HIDE DEF g
      <4>6. i \in Int
        BY <2>3, <4>1
      <4>7. QED
        BY <4>2, <4>4, <4>5, <4>6
    <3>5. QED
      BY <3>3, <3>4
  <2>6. From(k + 1) = b /\ k + 1 \in 0..N
    BY <1>2, <2>1 DEF a
  <2> HIDE DEF g, From, b
  <2>7. Has(k + 1)
    BY <2>4, <2>5, <2>6
  <2> HIDE DEF Has
  <2>8. QED
    BY <2>6, <2>7
<1>3. N \in Good
  <2> HIDE DEF Good
  <2>1. QED
    BY <1>1, <1>2, CountUp
<1>4. From(N) = 1
  OBVIOUS
<1>5. Has(N)
  <2> HIDE DEF Has
  <2>1. QED
    BY <1>3
<1> HIDE DEF From
<1>6. QED
  BY <1>4, <1>5

\* A set of natural numbers that is not empty has its Min.
LEMMA MinOfNats ==
    ASSUME NEW T \in SUBSET Nat, T # {}
    PROVE  Min(T) \in T /\ \A x \in T : Min(T) <= x
  BY LeastNat DEF Min

\* The elements of a sequence with one put before it.
LEMMA ConsGives ==
    ASSUME NEW S, NEW a \in S, NEW d \in Seq(S)
    PROVE  /\ <<a>> \o d \in Seq(S) /\ Len(<<a>> \o d) = Len(d) + 1 /\ <<a>> \o d # <<>>
           /\ (<<a>> \o d)[1] = a
           /\ \A j \in 1..Len(d) : (<<a>> \o d)[j + 1] = d[j]
  OBVIOUS

\* what is left of a sequence after its first element
LEMMA FirstAndRest ==
    ASSUME NEW S, NEW q \in Seq(S), q # <<>>
    PROVE  \E c \in S : \E r \in Seq(S) : q = <<c>> \o r
<1>1. q = <<Head(q)>> \o Tail(q) /\ Head(q) \in S /\ Tail(q) \in Seq(S)
  OBVIOUS
<1>2. QED
  BY <1>1

\* SubSeq over two adjacent stretches of a text
LEMMA Stretches ==
    ASSUME NEW S, NEW t \in Seq(S), NEW a \in 1..(Len(t) + 1), NEW b \in a..(Len(t) + 1)
    PROVE  SubSeq(t, a, b - 1) \o SubSeq(t, b, Len(t)) = SubSeq(t, a, Len(t))
<1>1. Len(t) \in Nat /\ b - 1 \in (a - 1)..Len(t) /\ Len(t) \in (b - 1)..Len(t) /\ (b - 1) + 1 = b
  OBVIOUS
<1>2. QED
  BY <1>1, ConcatAdjacentSubSeq

\* Flattening with one more sequence in front puts that sequence in front.
LEMMA FlattenCons ==
    ASSUME NEW R, NEW a \in Seq(R), NEW s \in Seq(Seq(R))
    PROVE  FlattenSeq(<<a>> \o s) = a \o FlattenSeq(s)
<1>1. <<>> \in Seq(Seq(R)) /\ <<a>> \in Seq(Seq(R)) /\ <<a>> = Append(<<>>, a)
  <2> DEFINE V == Seq(R)
  <2>1. a \in V
    OBVIOUS
  <2> HIDE DEF V
  <2>2. <<>> \in Seq(V) /\ <<a>> \in Seq(V) /\ <<a>> = Append(<<>>, a)
    BY <2>1
  <2>3. QED
    BY <2>2 DEF V
<1>2. FlattenSeq(<<a>>) = <<>> \o a
  BY <1>1, FlattenAppends, FlattenNone
<1>3. <<>> \o a = a
  OBVIOUS
<1>4. QED
  BY <1>1, <1>2, <1>3, FlattenJoins

\* sequences one after the other are a sequence
LEMMA FlattenType ==
    ASSUME NEW R, NEW n \in Nat, NEW m \in [1..n -> Seq(R)]
    PROVE  FlattenSeq(m) \in Seq(R)
  BY FlattenSeqIsFlat

\* w[i] is what g spreads m[i] to, for each i
SpreadsTo(g, A, R, m, w, n) ==
    /\ n \in Nat /\ g \in [A -> Seq(R)]
    /\ m \in [1..n -> Seq(A)] /\ w \in [1..n -> Seq(R)]
    /\ \A i \in 1..n : Spread(g, m[i]) = w[i]

\* What is spread over the parts of a sequence is spread over the whole.
LEMMA SpreadOfParts ==
    ASSUME NEW A, NEW R, NEW g, NEW m, NEW w, NEW n, SpreadsTo(g, A, R, m, w, n)
    PROVE  Spread(g, FlattenSeq(m)) = FlattenSeq(w)
<1>1. m \in Seq(Seq(A)) /\ DOMAIN m = 1..n
  <2> DEFINE V == Seq(A)
  <2>1. m \in [1..n -> V] /\ n \in Nat
    BY DEF SpreadsTo
  <2> HIDE DEF V
  <2>2. m \in Seq(V)
    BY <2>1
  <2>3. QED
    BY <2>1, <2>2 DEF V
<1>2. [i \in DOMAIN m |-> Spread(g, m[i])] = w
  BY <1>1 DEF SpreadsTo
<1>3. Spread(g, FlattenSeq(m)) = FlattenSeq([i \in DOMAIN m |-> Spread(g, m[i])])
  <2>1. g \in [A -> Seq(R)]
    BY DEF SpreadsTo
  <2>2. \A ps \in Seq(Seq(A)) :
            Spread(g, FlattenSeq(ps)) = FlattenSeq([i \in DOMAIN ps |-> Spread(g, ps[i])])
    BY <2>1, SpreadFlattens
  <2>3. QED
    BY <1>1, <2>2, Zenon
<1>4. QED
  BY <1>2, <1>3, Zenon

\* Flattening the elements one by one gives the sequence back.
LEMMA FlattenSingles ==
    ASSUME NEW R, NEW s \in Seq(R)
    PROVE  FlattenSeq([n \in DOMAIN s |-> <<s[n]>>]) = s
<1> DEFINE F(k) == SubSeq(s, 1, k)
           Map(z) == [n \in DOMAIN z |-> <<z[n]>>]
           Good == {k \in 0..Len(s) : FlattenSeq(Map(F(k))) = F(k)}
<1>0. Len(s) \in Nat
  OBVIOUS
<1>1. 0 \in Good
  <2>1. F(0) = <<>> /\ Map(<<>>) = <<>>
    OBVIOUS
  <2> HIDE DEF F, Map
  <2>2. QED
    BY <1>0, <2>1, FlattenNone
<1>2. ASSUME NEW k \in Good, k < Len(s)
      PROVE  k + 1 \in Good
  <2>1. k \in 0..Len(s) /\ k \in Nat /\ FlattenSeq(Map(F(k))) = F(k)
    <3> HIDE DEF Map, F
    <3>1. QED
      BY <1>0
  <2> DEFINE u == F(k)
             a == s[k + 1]
  <2>2. u \in Seq(R) /\ a \in R /\ F(k + 1) = Append(u, a)
    BY <1>2, <2>1, PrefixGrows
  <2>3. Map(u) \in Seq(Seq(R)) /\ <<a>> \in Seq(R) /\ Map(Append(u, a)) = Append(Map(u), <<a>>)
    <3> HIDE DEF u, a, F
    <3> DEFINE W == Seq(R)
               l == Map(Append(u, a))
               r == Append(Map(u), <<a>>)
    <3>1. <<a>> \in W /\ \A x \in R : <<x>> \in W
      BY <2>2
    <3>2. Len(u) \in Nat /\ DOMAIN u = 1..Len(u) /\ \A i \in 1..Len(u) : u[i] \in R
      BY <2>2
    <3>3. /\ DOMAIN Append(u, a) = 1..(Len(u) + 1) /\ Append(u, a)[Len(u) + 1] = a
          /\ \A i \in 1..Len(u) : Append(u, a)[i] = u[i]
      BY <2>2
    <3> HIDE DEF W
    <3>4. Map(u) \in [1..Len(u) -> W] /\ \A i \in 1..Len(u) : Map(u)[i] = <<u[i]>>
      BY <3>1, <3>2
    <3>5. /\ l \in [1..(Len(u) + 1) -> W] /\ l[Len(u) + 1] = <<a>>
          /\ \A i \in 1..Len(u) : l[i] = <<u[i]>>
      <4>1. \A i \in 1..(Len(u) + 1) : Append(u, a)[i] \in R
        <5>1. \A i \in 1..(Len(u) + 1) : i = Len(u) + 1 \/ i \in 1..Len(u)
          BY <3>2
        <5>2. QED
          BY <2>2, <3>2, <3>3, <5>1
      <4>2. Len(u) + 1 \in 1..(Len(u) + 1) /\ \A i \in 1..Len(u) : i \in 1..(Len(u) + 1)
        BY <3>2
      <4>3. l = [i \in 1..(Len(u) + 1) |-> <<Append(u, a)[i]>>]
        BY <3>3
      <4> HIDE DEF l
      <4>4. QED
        BY <3>1, <3>3, <4>1, <4>2, <4>3
    <3> HIDE DEF Map, l
    <3>6. Map(u) \in Seq(W) /\ Len(Map(u)) = Len(u)
      BY <3>2, <3>4
    <3>7. /\ r \in Seq(W) /\ Len(r) = Len(u) + 1 /\ r[Len(u) + 1] = <<a>>
          /\ \A i \in 1..Len(u) : r[i] = Map(u)[i]
      BY <3>1, <3>6
    <3>8. l \in Seq(W) /\ Len(l) = Len(u) + 1
      BY <3>2, <3>5
    <3> HIDE DEF r
    <3>9. \A i \in 1..Len(l) : l[i] = r[i]
      <4>1. \A i \in 1..(Len(u) + 1) : i = Len(u) + 1 \/ i \in 1..Len(u)
        BY <3>2
      <4>2. QED
        BY <3>4, <3>5, <3>7, <3>8, <4>1
    <3>10. l = r
      BY <3>7, <3>8, <3>9, SeqEqual
    <3>11. QED
      BY <3>1, <3>6, <3>10 DEF W, l, r
  <2> HIDE DEF u, a, Map
  <2>4. FlattenSeq(Map(Append(u, a))) = FlattenSeq(Map(u)) \o <<a>>
    BY <2>3, FlattenAppends
  <2>5. FlattenSeq(Map(u)) = u
    BY <2>1 DEF u
  <2>6. u \o <<a>> = Append(u, a)
    BY <2>2, AppendIsConcat
  <2> DEFINE v == F(k + 1)
  <2>7. FlattenSeq(Map(v)) = v /\ k + 1 \in 0..Len(s)
    <3>1. k + 1 \in 0..Len(s)
      BY <1>0, <1>2, <2>1
    <3>2. v = Append(u, a)
      BY <2>2
    <3> HIDE DEF v
    <3>3. QED
      BY <2>4, <2>5, <2>6, <3>1, <3>2
  <2> HIDE DEF F
  <2>8. QED
    BY <2>7
<1>3. Len(s) \in Good
  <2> HIDE DEF Good
  <2>1. QED
    BY <1>0, <1>1, <1>2, CountUp
<1>4. F(Len(s)) = s
  OBVIOUS
<1> HIDE DEF F
<1>5. QED
  BY <1>3, <1>4
=============================================================================
