----------------------------- MODULE FiniteSums -----------------------------
(***************************************************************************)
(* Facts about the sum of a natural-valued function over a finite set, as  *)
(* SumFunctionOnSet of the community modules defines it: an element is     *)
(* picked, its value added to the sum over the others.  Nothing here is    *)
(* about the repository; the supply of a token and the value of a reserve  *)
(* are such sums.                                                          *)
(*                                                                         *)
(* Induction is stated with a set of the things the claim holds of instead *)
(* of a predicate: the set can be given by comprehension where the lemma   *)
(* is used.                                                                *)
(***************************************************************************)
EXTENDS FiniteSetsExt, FiniteSetTheorems, TLAPS

\* A set of natural numbers with 0 and the successor of each of its members
\* holds all of them: otherwise there is a least one outside it.
LEMMA NatSets ==
  ASSUME NEW I \in SUBSET Nat, 0 \in I, \A n \in I : n + 1 \in I
  PROVE  I = Nat
<1> SUFFICES ASSUME I # Nat PROVE FALSE
  OBVIOUS
<1> DEFINE T == Nat \ I
<1>1. T \subseteq Nat /\ T # {}
  OBVIOUS
<1> HIDE DEF T
<1>2. PICK m \in T : \A k \in T : ~(<<k, m>> \in OpToRel(<, Nat))
  BY <1>1, NatLessThanWellFounded, WFMin, Zenon
<1>3. m \in Nat /\ m \notin I
  BY DEF T
<1>4. m # 0 /\ m - 1 \in Nat
  BY <1>3
<1>5. m - 1 \in T
  BY <1>3, <1>4 DEF T
<1>6. m - 1 < m
  BY <1>3
<1>7. <<m - 1, m>> \in OpToRel(<, Nat)
  BY <1>3, <1>4, <1>6, Zenon DEF OpToRel
<1>8. QED
  BY <1>2, <1>5, <1>7, Zenon

\* Subsets of a finite set: a subset belongs to I as soon as all that are
\* strictly below it do.
LEMMA SubsetsBelow ==
  ASSUME NEW S, IsFiniteSet(S), NEW I,
         \A T \in SUBSET S : (\A U \in SUBSET T : U # T => U \in I) => T \in I
  PROVE  \A T \in SUBSET S : T \in I
<1> DEFINE N == {n \in Nat : \A T \in SUBSET S : Cardinality(T) <= n => T \in I}
<1>1. \A T \in SUBSET S : /\ IsFiniteSet(T) /\ Cardinality(T) \in Nat
                          /\ Cardinality(T) <= Cardinality(S)
                          /\ \A U \in SUBSET T : U # T => Cardinality(U) < Cardinality(T)
  <2> TAKE T \in SUBSET S
  <2>1. IsFiniteSet(T) /\ Cardinality(T) <= Cardinality(S) /\ Cardinality(T) \in Nat
    BY FS_Subset, FS_CardinalityType
  <2>2. ASSUME NEW U \in SUBSET T, U # T PROVE Cardinality(U) < Cardinality(T)
    BY <2>1, <2>2, FS_Subset, FS_CardinalityType
  <2>3. QED
    BY <2>1, <2>2
<1>2. 0 \in N
  <2>1. ASSUME NEW T \in SUBSET S, Cardinality(T) <= 0 PROVE T \in I
    <3>1. \A U \in SUBSET T : U # T => Cardinality(U) < 0 /\ Cardinality(U) \in Nat
      BY <1>1, <2>1
    <3>2. QED
      BY <3>1
  <2>2. QED
    BY <2>1
<1>3. ASSUME NEW n \in N PROVE n + 1 \in N
  <2>1. ASSUME NEW T \in SUBSET S, Cardinality(T) <= n + 1 PROVE T \in I
    <3>1. \A U \in SUBSET T : U # T => Cardinality(U) <= n /\ U \in SUBSET S
      BY <1>1, <2>1
    <3>2. QED
      BY <3>1
  <2>2. QED
    BY <2>1
<1>4. N = Nat
  <2>1. N \in SUBSET Nat
    OBVIOUS
  <2> HIDE DEF N
  <2>2. QED
    BY <1>2, <1>3, <2>1, NatSets
<1>5. Cardinality(S) \in N
  BY <1>1, <1>4
<1>6. QED
  BY <1>1, <1>5

\* Adding one element after another to the empty set reaches a finite set.
LEMMA SubsetInduction ==
  ASSUME NEW S, IsFiniteSet(S), NEW I, {} \in I,
         \A T \in SUBSET S, x \in S : T \in I /\ x \notin T => T \cup {x} \in I
  PROVE  S \in I
<1>1. ASSUME NEW T \in SUBSET S, \A U \in SUBSET T : U # T => U \in I
      PROVE  T \in I
  <2>1. CASE T = {}
    BY <2>1
  <2>2. CASE T # {}
    <3>1. PICK x \in T : TRUE
      BY <2>2
    <3>2. T \ {x} \in I
      BY <1>1
    <3>3. (T \ {x}) \cup {x} \in I
      BY <3>2
    <3>4. (T \ {x}) \cup {x} = T
      OBVIOUS
    <3>5. QED
      BY <3>3, <3>4
  <2>3. QED
    BY <2>1, <2>2
<1>2. QED
  BY <1>1, SubsetsBelow

\* What a function makes of a finite set is finite.
LEMMA FiniteImage ==
  ASSUME NEW S, IsFiniteSet(S), NEW f
  PROVE  IsFiniteSet({f[x] : x \in S})
<1> DEFINE T == {f[x] : x \in S}
           g == [x \in S |-> f[x]]
<1>1. g \in [S -> T] /\ \A t \in T : \E x \in S : g[x] = t
  OBVIOUS
<1>2. g \in Surjection(S, T)
  BY <1>1 DEF Surjection
<1>3. QED
  BY <1>2, FS_Surjection

-----------------------------------------------------------------------------
(* The fold behind SumFunctionOnSet is a recursive function on the subsets *)
(* of the set: a fixed point of SumStep.                                   *)

Pick(s) == CHOOSE x \in s : TRUE

SumStep(f, S, g) ==
  [s \in SUBSET S |-> IF s = {} THEN 0 ELSE f[Pick(s)] + g[s \ {Pick(s)}]]

SumsOf(f, S) == CHOOSE g : g = SumStep(f, S, g)

LEMMA SumIsFold == \A f, S : SumFunctionOnSet(f, S) = SumsOf(f, S)[S]
BY DEF SumFunctionOnSet, FoldFunctionOnSet, MapThenFoldSet, Pick, SumStep, SumsOf

\* The recursion has a solution: after n rounds of SumStep its equation holds
\* for the subsets of at most n elements.
LEMMA SumsExist ==
  ASSUME NEW S, IsFiniteSet(S), NEW f, \A x \in S : f[x] \in Nat
  PROVE  SumsOf(f, S) = SumStep(f, S, SumsOf(f, S))
<1> DEFINE Upto(n, g) == \A s \in SUBSET S : Cardinality(s) <= n => g[s] = SumStep(f, S, g)[s]
           N == {n \in Nat : \E g \in [SUBSET S -> Nat] : Upto(n, g)}
<1>1. \A s \in SUBSET S : /\ IsFiniteSet(s) /\ Cardinality(s) \in Nat
                          /\ Cardinality(s) <= Cardinality(S)
                          /\ Cardinality(s) = 0 <=> s = {}
                          /\ s # {} => /\ Pick(s) \in s /\ s \ {Pick(s)} \in SUBSET S
                                       /\ Cardinality(s \ {Pick(s)}) = Cardinality(s) - 1
  <2> TAKE s \in SUBSET S
  <2>1. IsFiniteSet(s) /\ Cardinality(s) <= Cardinality(S) /\ Cardinality(s) \in Nat
    BY FS_Subset, FS_CardinalityType
  <2>2. Cardinality(s) = 0 <=> s = {}
    BY <2>1, FS_EmptySet
  <2>3. s # {} => Pick(s) \in s
    BY DEF Pick
  <2>4. QED
    BY <2>1, <2>2, <2>3, FS_RemoveElement
<1>2. \A g \in [SUBSET S -> Nat] : SumStep(f, S, g) \in [SUBSET S -> Nat]
  <2> TAKE g \in [SUBSET S -> Nat]
  <2>1. \A s \in SUBSET S : s # {} => f[Pick(s)] + g[s \ {Pick(s)}] \in Nat
    BY <1>1
  <2>2. QED
    BY <2>1 DEF SumStep
<1>3. 0 \in N
  <2> DEFINE g == [s \in SUBSET S |-> 0]
  <2>1. Upto(0, g)
    BY <1>1 DEF SumStep
  <2>2. QED
    BY <2>1
<1>4. ASSUME NEW n \in N PROVE n + 1 \in N
  <2>1. PICK g \in [SUBSET S -> Nat] : Upto(n, g)
    OBVIOUS
  <2> DEFINE h == SumStep(f, S, g)
  <2>2. ASSUME NEW s \in SUBSET S, Cardinality(s) <= n + 1
        PROVE  h[s] = SumStep(f, S, h)[s]
    <3>1. CASE s = {}
      BY <3>1 DEF SumStep
    <3>2. CASE s # {}
      <4> DEFINE rest == s \ {Pick(s)}
      <4>1. rest \in SUBSET S /\ Cardinality(rest) <= n
        BY <1>1, <2>2, <3>2
      <4>2. h[rest] = g[rest]
        BY <2>1, <4>1
      <4>3. h[s] = f[Pick(s)] + g[rest]
        BY <3>2 DEF SumStep
      <4>4. SumStep(f, S, h)[s] = f[Pick(s)] + h[rest]
        BY <3>2 DEF SumStep
      <4>5. QED
        BY <4>2, <4>3, <4>4
    <3>3. QED
      BY <3>1, <3>2
  <2>3. h \in [SUBSET S -> Nat]
    BY <1>2
  <2>4. QED
    BY <2>2, <2>3
<1>5. N = Nat
  <2>1. N \in SUBSET Nat
    OBVIOUS
  <2> HIDE DEF N
  <2>2. QED
    BY <1>3, <1>4, <2>1, NatSets
<1>6. PICK g \in [SUBSET S -> Nat] : Upto(Cardinality(S), g)
  BY <1>1, <1>5
<1>7. g = SumStep(f, S, g)
  <2>1. \A s \in SUBSET S : g[s] = SumStep(f, S, g)[s]
    BY <1>1, <1>6
  <2>2. SumStep(f, S, g) \in [SUBSET S -> Nat]
    BY <1>2
  <2>3. QED
    BY <2>1, <2>2
<1>8. QED
  BY <1>7 DEF SumsOf

\* Its solutions for a set and for a subset of it agree.
LEMMA SumsAgree ==
  ASSUME NEW S, IsFiniteSet(S), NEW f, \A x \in S : f[x] \in Nat,
         NEW T \in SUBSET S
  PROVE  /\ SumsOf(f, S)[T] = SumFunctionOnSet(f, T)
         /\ SumFunctionOnSet(f, T) \in Nat
<1> DEFINE g == SumsOf(f, S)
           h == SumsOf(f, T)
           I == {s \in SUBSET T : g[s] = h[s] /\ h[s] \in Nat}
<1>1. g = SumStep(f, S, g) /\ h = SumStep(f, T, h) /\ IsFiniteSet(T)
  BY SumsExist, FS_Subset
<1> HIDE DEF g, h
<1>2. ASSUME NEW s \in SUBSET T, \A u \in SUBSET s : u # s => u \in I
      PROVE  s \in I
  <2>1. CASE s = {}
    <3>1. g[s] = 0 /\ h[s] = 0
      BY <1>1, <2>1 DEF SumStep
    <3>2. QED
      BY <3>1
  <2>2. CASE s # {}
    <3> DEFINE rest == s \ {Pick(s)}
    <3>1. Pick(s) \in s
      BY <2>2 DEF Pick
    <3>2. g[rest] = h[rest] /\ h[rest] \in Nat
      BY <1>2, <3>1
    <3>3. g[s] = f[Pick(s)] + g[rest]
      BY <1>1, <2>2 DEF SumStep
    <3>4. h[s] = f[Pick(s)] + h[rest]
      BY <1>1, <2>2 DEF SumStep
    <3>5. f[Pick(s)] \in Nat
      BY <3>1
    <3>6. QED
      BY <3>2, <3>3, <3>4, <3>5
  <2>3. QED
    BY <2>1, <2>2
<1>3. T \in I
  <2> HIDE DEF I
  <2>1. QED
    BY <1>1, <1>2, SubsetsBelow
<1>4. QED
  BY <1>3, SumIsFold DEF g, h

LEMMA SumOfPick ==
  ASSUME NEW S, IsFiniteSet(S), NEW f, \A x \in S : f[x] \in Nat
  PROVE  /\ S = {} => SumFunctionOnSet(f, S) = 0
         /\ S # {} => SumFunctionOnSet(f, S)
                        = f[Pick(S)] + SumFunctionOnSet(f, S \ {Pick(S)})
<1> DEFINE g == SumsOf(f, S)
<1>1. g = SumStep(f, S, g) /\ SumFunctionOnSet(f, S) = g[S]
  BY SumsExist, SumIsFold
<1>2. \A T \in SUBSET S : g[T] = SumFunctionOnSet(f, T)
  BY SumsAgree
<1> HIDE DEF g
<1>3. S # {} => S \ {Pick(S)} \in SUBSET S
  OBVIOUS
<1>4. g[S] = IF S = {} THEN 0 ELSE f[Pick(S)] + g[S \ {Pick(S)}]
  BY <1>1 DEF SumStep
<1>5. QED
  BY <1>1, <1>2, <1>3, <1>4

-----------------------------------------------------------------------------
(* What the proofs about supplies and reserves use.                        *)

LEMMA SumType ==
  ASSUME NEW S, IsFiniteSet(S), NEW f, \A x \in S : f[x] \in Nat
  PROVE  SumFunctionOnSet(f, S) \in Nat
BY SumsAgree

LEMMA SumEmpty == \A f : SumFunctionOnSet(f, {}) = 0
BY SumOfPick, FS_EmptySet

\* Any element will do, not the picked one alone.
LEMMA SumElement ==
  ASSUME NEW S, IsFiniteSet(S), NEW f, \A x \in S : f[x] \in Nat,
         NEW x \in S
  PROVE  SumFunctionOnSet(f, S) = f[x] + SumFunctionOnSet(f, S \ {x})
<1> DEFINE Sum(T) == SumFunctionOnSet(f, T)
           I == {T \in SUBSET S : \A y \in T : Sum(T) = f[y] + Sum(T \ {y})}
<1>1. \A T \in SUBSET S : Sum(T) \in Nat
  BY FS_Subset, SumType
<1>2. \A T \in SUBSET S : T # {} => Pick(T) \in T /\ Sum(T) = f[Pick(T)] + Sum(T \ {Pick(T)})
  BY FS_Subset, SumOfPick DEF Pick
<1> HIDE DEF Sum
<1>3. ASSUME NEW T \in SUBSET S, \A U \in SUBSET T : U # T => U \in I
      PROVE  T \in I
  <2> SUFFICES ASSUME NEW y \in T PROVE Sum(T) = f[y] + Sum(T \ {y})
    OBVIOUS
  <2> DEFINE p == Pick(T)
             rest == (T \ {p}) \ {y}
  <2>1. p \in T /\ Sum(T) = f[p] + Sum(T \ {p})
    BY <1>2
  <2> HIDE DEF p
  <2>2. CASE p = y
    BY <2>1, <2>2
  <2>3. CASE p # y
    <3>1. T \ {p} \in I /\ y \in T \ {p}
      BY <1>3, <2>1, <2>3
    <3>2. Sum(T \ {p}) = f[y] + Sum(rest)
      BY <3>1
    <3>3. T \ {y} \in I /\ p \in T \ {y}
      BY <1>3, <2>1, <2>3
    <3>4. (T \ {y}) \ {p} = rest
      OBVIOUS
    <3>5. Sum(T \ {y}) = f[p] + Sum(rest)
      BY <3>3, <3>4
    <3>6. f[p] \in Nat /\ f[y] \in Nat /\ Sum(rest) \in Nat
      BY <1>1, <2>1
    <3>7. QED
      BY <2>1, <3>2, <3>5, <3>6
  <2>4. QED
    BY <2>2, <2>3
<1>4. S \in I
  <2> HIDE DEF I
  <2>1. QED
    BY <1>3, SubsetsBelow
<1>5. QED
  BY <1>4 DEF Sum

LEMMA SumAdd ==
  ASSUME NEW S, IsFiniteSet(S), NEW f, NEW x, x \notin S,
         \A y \in S \cup {x} : f[y] \in Nat
  PROVE  SumFunctionOnSet(f, S \cup {x}) = f[x] + SumFunctionOnSet(f, S)
<1>1. (S \cup {x}) \ {x} = S
  OBVIOUS
<1>2. IsFiniteSet(S \cup {x})
  BY FS_AddElement
<1>3. QED
  BY <1>1, <1>2, SumElement

\* Functions that agree on the set have the same sum over it.
LEMMA SumCongruent ==
  ASSUME NEW S, IsFiniteSet(S), NEW f, NEW g,
         \A x \in S : f[x] \in Nat /\ g[x] = f[x]
  PROVE  SumFunctionOnSet(g, S) = SumFunctionOnSet(f, S)
<1> DEFINE I == {T \in SUBSET S : SumFunctionOnSet(g, T) = SumFunctionOnSet(f, T)}
<1>1. {} \in I
  BY SumEmpty
<1>2. ASSUME NEW T \in SUBSET S, NEW x \in S, T \in I, x \notin T
      PROVE  T \cup {x} \in I
  <2>1. /\ SumFunctionOnSet(f, T \cup {x}) = f[x] + SumFunctionOnSet(f, T)
        /\ SumFunctionOnSet(g, T \cup {x}) = g[x] + SumFunctionOnSet(g, T)
    BY <1>2, FS_Subset, SumAdd
  <2>2. QED
    BY <1>2, <2>1
<1>3. S \in I
  <2> HIDE DEF I
  <2>1. QED
    BY <1>1, <1>2, SubsetInduction
<1>4. QED
  BY <1>3

LEMMA SumOfZeros ==
  ASSUME NEW S, IsFiniteSet(S), NEW f, \A x \in S : f[x] = 0
  PROVE  SumFunctionOnSet(f, S) = 0
<1> DEFINE I == {T \in SUBSET S : SumFunctionOnSet(f, T) = 0}
<1>1. {} \in I
  BY SumEmpty
<1>2. ASSUME NEW T \in SUBSET S, NEW x \in S, T \in I, x \notin T
      PROVE  T \cup {x} \in I
  <2>1. IsFiniteSet(T) /\ \A y \in T \cup {x} : f[y] \in Nat /\ f[x] = 0
    BY FS_Subset
  <2>2. SumFunctionOnSet(f, T \cup {x}) = f[x] + SumFunctionOnSet(f, T)
    BY <1>2, <2>1, SumAdd
  <2>3. QED
    BY <1>2, <2>1, <2>2
<1>3. S \in I
  <2> HIDE DEF I
  <2>1. QED
    BY <1>1, <1>2, SubsetInduction
<1>4. QED
  BY <1>3

LEMMA SumMonotone ==
  ASSUME NEW S, IsFiniteSet(S), NEW f, \A x \in S : f[x] \in Nat,
         NEW T \in SUBSET S
  PROVE  SumFunctionOnSet(f, T) <= SumFunctionOnSet(f, S)
<1> DEFINE Sum(U) == SumFunctionOnSet(f, U)
           I == {U \in SUBSET (S \ T) : Sum(T) <= Sum(T \cup U)}
<1>1. IsFiniteSet(S \ T) /\ \A U \in SUBSET S : IsFiniteSet(U) /\ Sum(U) \in Nat
  BY FS_Subset, SumType
<1>2. {} \in I
  <2>1. T \cup {} = T
    OBVIOUS
  <2>2. QED
    BY <1>1, <2>1
<1>3. ASSUME NEW U \in SUBSET (S \ T), NEW x \in S \ T, U \in I, x \notin U
      PROVE  U \cup {x} \in I
  <2>1. Sum((T \cup U) \cup {x}) = f[x] + Sum(T \cup U)
    BY <1>1, <1>3, SumAdd
  <2>2. T \cup (U \cup {x}) = (T \cup U) \cup {x}
    OBVIOUS
  <2>3. Sum(T) \in Nat /\ Sum(T \cup U) \in Nat /\ f[x] \in Nat
    BY <1>1
  <2>4. Sum(T) <= Sum(T \cup U)
    BY <1>3
  <2> HIDE DEF Sum
  <2>5. Sum(T) <= f[x] + Sum(T \cup U)
    BY <2>3, <2>4
  <2>6. Sum(T) <= Sum(T \cup (U \cup {x}))
    BY <2>1, <2>2, <2>5
  <2>7. QED
    BY <2>6
<1>4. S \ T \in I
  <2> HIDE DEF I
  <2>1. QED
    BY <1>1, <1>2, <1>3, SubsetInduction
<1>5. T \cup (S \ T) = S
  OBVIOUS
<1>6. QED
  BY <1>4, <1>5

\* Each value is one of those summed.
LEMMA SumBoundsElement ==
  ASSUME NEW S, IsFiniteSet(S), NEW f, \A x \in S : f[x] \in Nat,
         NEW x \in S
  PROVE  f[x] <= SumFunctionOnSet(f, S)
<1>1. SumFunctionOnSet(f, S) = f[x] + SumFunctionOnSet(f, S \ {x})
  BY SumElement
<1>2. SumFunctionOnSet(f, S \ {x}) \in Nat
  BY FS_RemoveElement, SumType
<1>3. QED
  BY <1>1, <1>2

\* Changing one value changes the sum by as much.
LEMMA SumUpdated ==
  ASSUME NEW S, IsFiniteSet(S), NEW f, NEW g, NEW x \in S,
         \A y \in S : f[y] \in Nat /\ g[y] \in Nat,
         \A y \in S \ {x} : g[y] = f[y]
  PROVE  SumFunctionOnSet(g, S) = SumFunctionOnSet(f, S) - f[x] + g[x]
<1> DEFINE rest == S \ {x}
<1>1. IsFiniteSet(rest) /\ SumFunctionOnSet(f, rest) \in Nat
  BY FS_RemoveElement, SumType
<1>2. SumFunctionOnSet(g, rest) = SumFunctionOnSet(f, rest)
  BY <1>1, SumCongruent
<1>3. SumFunctionOnSet(f, S) = f[x] + SumFunctionOnSet(f, rest)
  BY SumElement
<1>4. SumFunctionOnSet(g, S) = g[x] + SumFunctionOnSet(g, rest)
  BY SumElement
<1>5. QED
  BY <1>1, <1>2, <1>3, <1>4

=============================================================================
