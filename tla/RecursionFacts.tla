--------------------------- MODULE RecursionFacts ---------------------------
(***************************************************************************)
(* What the recursively defined operators of the models return, for every  *)
(* argument: At filters a list, SumFunction adds up a ledger.  The form of *)
(* induction is the one the provers can apply: the property is given as a  *)
(* set, because a smallest counterexample is then a fact of first order.   *)
(***************************************************************************)
EXTENDS Subsequences, Integers, Functions, FiniteSetTheorems, TLAPS

-----------------------------------------------------------------------------
(* Induction over the natural numbers, for a property given as a set.       *)

\* A set of numbers that is not empty has a least element.
LEMMA HasLeast ==
  ASSUME NEW T \in SUBSET Nat, T # {}
  PROVE  \E m \in T : \A n \in T : m <= n
  <1>1. PICK m \in T : \A n \in T : ~ (<<n, m>> \in OpToRel(<, Nat))
    BY NatLessThanWellFounded, WFMin
  <1>2. \A n \in T : ~ (n < m)
    BY <1>1 DEF OpToRel
  <1> QED BY <1>2

\* A set that holds 0 and the successor of each of its numbers holds them all.
LEMMA SetInduction ==
  ASSUME NEW P, 0 \in P, \A n \in Nat : n \in P => n + 1 \in P
  PROVE  Nat \subseteq P
  <1> DEFINE T == Nat \ P
  <1> SUFFICES ASSUME T # {} PROVE FALSE
    OBVIOUS
  <1>1. PICK m \in T : \A n \in T : m <= n
    BY HasLeast
  <1>2. m # 0 /\ m - 1 \in Nat /\ m - 1 \in P
    <2>1. m # 0 /\ m - 1 \in Nat /\ ~ (m <= m - 1)
      OBVIOUS
    <2> QED BY <1>1, <2>1
  <1>3. (m - 1) + 1 \in P
    BY <1>2
  <1> QED BY <1>3

\* A set of subsets that holds each one whenever it holds those with one
\* element less, holds every subset of a finite set.
LEMMA SubsetInduction ==
  ASSUME NEW S, IsFiniteSet(S), NEW P,
         \A T \in SUBSET S : (\A x \in T : T \ {x} \in P) => T \in P
  PROVE  SUBSET S \subseteq P
  <1> DEFINE Bad == (SUBSET S) \ P
  <1> SUFFICES ASSUME Bad # {} PROVE FALSE
    OBVIOUS
  <1>1. IsWellFoundedOn(StrictSubsetOrdering(S), SUBSET S)
    <2>1. IsWellFoundedOn(StrictSubsetOrdering(S), FiniteSubsetsOf(S))
      BY FS_StrictSubsetOrderingWellFounded
    <2>2. FiniteSubsetsOf(S) = SUBSET S
      BY FS_FiniteSubsetsOfFinite
    <2> QED BY <2>1, <2>2
  <1>a. Bad \subseteq SUBSET S
    OBVIOUS
  <1> HIDE DEF Bad
  <1>2. PICK T \in Bad : \A V \in Bad : ~ (<<V, T>> \in StrictSubsetOrdering(S))
    BY <1>1, <1>a, WFMin
  <1> USE DEF Bad
  <1>3. PICK x \in T : T \ {x} \notin P
    BY <1>2
  <1>4. T \ {x} \in SUBSET S /\ <<T \ {x}, T>> \in StrictSubsetOrdering(S)
    BY <1>2, <1>3 DEF StrictSubsetOrdering
  <1> QED BY <1>2, <1>3, <1>4

-----------------------------------------------------------------------------
(* What At returns.                                                         *)

Extended(s, I, f, n) ==
  IF n = 0 THEN <<>>
  ELSE IF n \in I THEN Append(f[n - 1], s[n]) ELSE f[n - 1]

\* The recursion has a solution: one up to k extends to one up to k + 1.
LEMMA AtIsDefined ==
  ASSUME NEW s, NEW I, NEW len \in Nat
  PROVE  \E f : f = [n \in 0 .. len |-> Extended(s, I, f, n)]
  <1> DEFINE Solves(f, k) == f = [n \in 0 .. k |-> Extended(s, I, f, n)]
             P == {k \in Nat : \E f : Solves(f, k)}
  <1>1. 0 \in P
    <2> DEFINE f == [n \in 0 .. 0 |-> <<>>]
    <2>1. \A n \in 0 .. 0 : Extended(s, I, f, n) = <<>>
      BY DEF Extended
    <2>2. Solves(f, 0)
      BY <2>1
    <2> QED BY <2>2
  <1>2. ASSUME NEW k \in Nat, k \in P PROVE k + 1 \in P
    <2>1. PICK f : Solves(f, k)
      BY <1>2
    <2> DEFINE g == [n \in 0 .. k + 1 |-> IF n <= k THEN f[n] ELSE Extended(s, I, f, n)]
    <2>2. \A n \in 0 .. k : g[n] = f[n] /\ f[n] = Extended(s, I, f, n)
      BY <2>1
    <2>3. ASSUME NEW n \in 0 .. k + 1
          PROVE  g[n] = Extended(s, I, f, n) /\ Extended(s, I, g, n) = Extended(s, I, f, n)
      <3>1. n = 0 \/ n - 1 \in 0 .. k
        BY <2>3
      <3>2. n # 0 => g[n - 1] = f[n - 1]
        BY <2>2, <3>1
      <3>3. Extended(s, I, g, n) = Extended(s, I, f, n)
        BY <3>2 DEF Extended
      <3>4. g[n] = Extended(s, I, f, n)
        <4>1. CASE n <= k
          <5>1. n \in 0 .. k
            BY <4>1
          <5>2. g[n] = f[n] /\ f[n] = Extended(s, I, f, n)
            BY <2>2, <5>1
          <5> QED BY <5>2
        <4>2. CASE ~ (n <= k)
          BY <4>2
        <4> QED BY <4>1, <4>2
      <3> QED BY <3>3, <3>4
    <2>4. Solves(g, k + 1)
      BY <2>3
    <2> HIDE DEF g, Solves
    <2> QED BY <2>4
  <1> HIDE DEF P
  <1>3. len \in P
    BY <1>1, <1>2, SetInduction
  <1> QED BY <1>3 DEF P

\* At returns the elements at the wanted positions and no other.
LEMMA AtSelects ==
  ASSUME NEW S, NEW s \in Seq(S), NEW I
  PROVE  /\ At(s, I) \in Seq(S)
         /\ \A n \in DOMAIN At(s, I) : \E i \in DOMAIN s \cap I : At(s, I)[n] = s[i]
         /\ \A i \in DOMAIN s \cap I : \E n \in DOMAIN At(s, I) : At(s, I)[n] = s[i]
  <1> DEFINE len == Len(s)
             f == CHOOSE f : f = [n \in 0 .. len |-> Extended(s, I, f, n)]
             Selects(r, n) ==
               /\ r \in Seq(S)
               /\ \A j \in 1 .. Len(r) : \E i \in (1 .. n) \cap I : r[j] = s[i]
               /\ \A i \in (1 .. n) \cap I : \E j \in 1 .. Len(r) : r[j] = s[i]
             P == {n \in Nat : n <= len => Selects(f[n], n)}
  <1>1. len \in Nat /\ DOMAIN s = 1 .. len /\ \A i \in 1 .. len : s[i] \in S
    OBVIOUS
  <1>2. f = [n \in 0 .. len |-> Extended(s, I, f, n)]
    BY <1>1, AtIsDefined
  <1>3. At(s, I) = f[len]
    BY DEF At, Extended
  <1> HIDE DEF f
  <1>4. 0 \in P
    <2>1. f[0] = <<>>
      BY <1>1, <1>2 DEF Extended
    <2>2. Selects(f[0], 0)
      <3>1. /\ <<>> \in Seq(S) /\ Len(<<>>) = 0
            /\ 1 .. 0 = {}
        OBVIOUS
      <3> QED BY <2>1, <3>1
    <2> HIDE DEF Selects
    <2> QED BY <2>2
  <1>5. ASSUME NEW n \in Nat, n \in P PROVE n + 1 \in P
    <2> SUFFICES ASSUME n + 1 <= len PROVE Selects(f[n + 1], n + 1)
      <3> HIDE DEF Selects
      <3> QED OBVIOUS
    <2>1. Selects(f[n], n) /\ s[n + 1] \in S
      <3>1. s[n + 1] \in S
        BY <1>1
      <3> HIDE DEF Selects
      <3> QED BY <1>1, <1>5, <3>1
    <2>2. f[n + 1] = IF n + 1 \in I THEN Append(f[n], s[n + 1]) ELSE f[n]
      <3>1. n + 1 \in 0 .. len /\ n + 1 # 0 /\ (n + 1) - 1 = n
        BY <1>1
      <3>2. f[n + 1] = Extended(s, I, f, n + 1)
        BY <1>2, <3>1
      <3> QED BY <3>1, <3>2 DEF Extended
    <2> DEFINE r == f[n]
    <2> HIDE DEF r
    <2>r. Selects(r, n) /\ f[n + 1] = IF n + 1 \in I THEN Append(r, s[n + 1]) ELSE r
      BY <2>1, <2>2 DEF r
    <2>3. CASE n + 1 \in I
      <3> DEFINE t == Append(r, s[n + 1])
      <3>1. /\ t \in Seq(S) /\ Len(r) \in Nat /\ Len(t) = Len(r) + 1 /\ t[Len(r) + 1] = s[n + 1]
            /\ \A j \in 1 .. Len(r) : t[j] = r[j]
        BY <2>r, <2>1
      <3> HIDE DEF t
      <3>2. ASSUME NEW j \in 1 .. Len(t) PROVE \E i \in (1 .. n + 1) \cap I : t[j] = s[i]
        <4>1. CASE j = Len(r) + 1
          <5>1. n + 1 \in (1 .. n + 1) \cap I
            BY <2>3
          <5> QED BY <3>1, <4>1, <5>1
        <4>2. CASE j \in 1 .. Len(r)
          <5>1. PICK i \in (1 .. n) \cap I : r[j] = s[i]
            BY <2>r, <4>2
          <5> QED BY <3>1, <4>2, <5>1
        <4> QED BY <3>1, <4>1, <4>2
      <3>3. ASSUME NEW i \in (1 .. n + 1) \cap I PROVE \E j \in 1 .. Len(t) : t[j] = s[i]
        <4>1. CASE i = n + 1
          BY <3>1, <4>1
        <4>2. CASE i \in 1 .. n
          <5>1. PICK j \in 1 .. Len(r) : r[j] = s[i]
            BY <2>r, <4>2
          <5>2. j \in 1 .. Len(t) /\ t[j] = r[j]
            BY <3>1, <5>1
          <5> QED BY <5>1, <5>2
        <4> QED BY <4>1, <4>2
      <3>4. f[n + 1] = t
        BY <2>r, <2>3 DEF t
      <3> QED BY <3>1, <3>2, <3>3, <3>4
    <2>4. CASE n + 1 \notin I
      <3>1. f[n + 1] = r /\ (1 .. n + 1) \cap I = (1 .. n) \cap I
        BY <2>r, <2>4
      <3> QED BY <2>r, <3>1
    <2> QED BY <2>3, <2>4
  <1> HIDE DEF P
  <1>6. len \in P
    BY <1>1, <1>4, <1>5, SetInduction
  <1>7. Selects(f[len], len)
    BY <1>1, <1>6 DEF P
  <1>8. At(s, I) \in Seq(S) /\ DOMAIN At(s, I) = 1 .. Len(At(s, I))
    BY <1>3, <1>7
  <1> QED BY <1>1, <1>3, <1>7, <1>8

-----------------------------------------------------------------------------
(* What SumFunction returns: every sum is the number of its units.          *)

\* A sum as a set of units: f[c] of them for each c of T.
Units(f, T) == {p \in T \X Nat : 1 <= p[2] /\ p[2] <= f[p[1]]}

LEMMA UnitsAdd ==
  ASSUME NEW S, NEW f \in [S -> Nat], NEW T \in SUBSET S, NEW x \in T,
         IsFiniteSet(Units(f, T \ {x}))
  PROVE  /\ IsFiniteSet(Units(f, T))
         /\ Cardinality(Units(f, T)) = f[x] + Cardinality(Units(f, T \ {x}))
  <1> DEFINE own == {x} \X (1 .. f[x])
             others == Units(f, T \ {x})
  <1>1. f[x] \in Nat
    OBVIOUS
  <1>2. IsFiniteSet(1 .. f[x]) /\ Cardinality(1 .. f[x]) = f[x]
    <2>1. Cardinality(1 .. f[x]) = IF 1 > f[x] THEN 0 ELSE f[x] - 1 + 1
      BY <1>1, FS_Interval
    <2> QED BY <1>1, <2>1, FS_Interval
  <1>3. IsFiniteSet({x}) /\ Cardinality({x}) = 1
    BY FS_Singleton
  <1>4. IsFiniteSet(own) /\ Cardinality(own) = f[x]
    <2>1. IsFiniteSet(own) /\ Cardinality(own) = 1 * f[x]
      BY <1>2, <1>3, FS_Product
    <2> QED BY <1>1, <2>1
  <1>5. Units(f, T) = own \cup others
    BY <1>1 DEF Units
  <1>6. own \cap others = {}
    BY DEF Units
  <1> HIDE DEF own, others
  <1>7. /\ IsFiniteSet(own \cup others)
        /\ Cardinality(own \cup others)
             = Cardinality(own) + Cardinality(others) - Cardinality(own \cap others)
    BY <1>4, FS_Union DEF others
  <1>8. Cardinality(own \cap others) = 0 /\ Cardinality(others) \in Nat
    BY <1>6, FS_EmptySet, FS_CardinalityType DEF others
  <1> QED BY <1>1, <1>4, <1>5, <1>7, <1>8 DEF others

LEMMA UnitsAreFinite ==
  ASSUME NEW S, IsFiniteSet(S), NEW f \in [S -> Nat]
  PROVE  /\ \A T \in SUBSET S : IsFiniteSet(Units(f, T))
         /\ Units(f, {}) = {}
  <1> DEFINE P == {T \in SUBSET S : IsFiniteSet(Units(f, T))}
  <1>1. Units(f, {}) = {}
    BY DEF Units
  <1>2. {} \in P
    BY <1>1, FS_EmptySet
  <1>3. ASSUME NEW T \in SUBSET S, \A x \in T : T \ {x} \in P
        PROVE  T \in P
    <2>1. CASE T = {}
      BY <1>2, <2>1
    <2>2. CASE T # {}
      <3>1. PICK x : x \in T
        BY <2>2
      <3>2. IsFiniteSet(Units(f, T \ {x}))
        BY <1>3, <3>1
      <3> QED BY <3>1, <3>2, UnitsAdd
    <2> QED BY <2>1, <2>2
  <1> HIDE DEF P
  <1>4. SUBSET S \subseteq P
    BY <1>3, SubsetInduction
  <1> QED BY <1>1, <1>4 DEF P

\* The fold of the community modules takes one element after the other.
Rest(f, g, T) == IF T = {} THEN 0
                 ELSE f[CHOOSE x \in T : TRUE] + g[T \ {CHOOSE x \in T : TRUE}]

LEMMA SumIsUnits ==
  ASSUME NEW S, IsFiniteSet(S), NEW f \in [S -> Nat]
  PROVE  SumFunction(f) = Cardinality(Units(f, S))
  <1> DEFINE Solves(g) == g = [T \in SUBSET S |-> Rest(f, g, T)]
             sum == CHOOSE g : Solves(g)
             count == [T \in SUBSET S |-> Cardinality(Units(f, T))]
  <1>1. DOMAIN f = S
    OBVIOUS
  <1>2. SumFunction(f) = sum[S]
    BY <1>1 DEF SumFunction, SumFunctionOnSet, FoldFunctionOnSet, MapThenFoldSet, Rest
  <1>3. ASSUME NEW T \in SUBSET S
        PROVE  Cardinality(Units(f, T)) = Rest(f, count, T)
    <2>1. CASE T = {}
      BY <2>1, UnitsAreFinite, FS_EmptySet DEF Rest
    <2>2. CASE T # {}
      <3> DEFINE x == CHOOSE x \in T : TRUE
      <3>1. x \in T /\ T \ {x} \in SUBSET S
        BY <2>2
      <3>2. IsFiniteSet(Units(f, T \ {x}))
        BY <3>1, UnitsAreFinite
      <3> HIDE DEF x
      <3>3. Cardinality(Units(f, T)) = f[x] + Cardinality(Units(f, T \ {x}))
        BY <3>1, <3>2, UnitsAdd
      <3>4. count[T \ {x}] = Cardinality(Units(f, T \ {x}))
        BY <3>1
      <3> QED BY <2>2, <3>3, <3>4 DEF Rest, x
    <2> QED BY <2>1, <2>2
  <1>4. Solves(count)
    BY <1>3
  <1>5. Solves(sum)
    BY <1>4
  <1> HIDE DEF count, sum
  <1>6. \A T \in SUBSET S : sum[T] = Rest(f, sum, T)
    BY <1>5
  <1> DEFINE P == {T \in SUBSET S : sum[T] = Cardinality(Units(f, T))}
  <1>7. ASSUME NEW T \in SUBSET S, \A x \in T : T \ {x} \in P
        PROVE  T \in P
    <2>1. sum[T] = Rest(f, sum, T) /\ Cardinality(Units(f, T)) = Rest(f, count, T)
      BY <1>3, <1>6
    <2>2. CASE T = {}
      BY <2>1, <2>2 DEF Rest
    <2>3. CASE T # {}
      <3> DEFINE x == CHOOSE x \in T : TRUE
      <3>1. x \in T /\ T \ {x} \in SUBSET S
        BY <2>3
      <3>2. sum[T \ {x}] = count[T \ {x}]
        BY <1>7, <3>1 DEF count
      <3> QED BY <2>1, <2>3, <3>2 DEF Rest
    <2> QED BY <2>2, <2>3
  <1> HIDE DEF P
  <1>8. S \in P
    BY <1>7, SubsetInduction
  <1> QED BY <1>2, <1>8 DEF P

LEMMA SumIsNat ==
  ASSUME NEW S, IsFiniteSet(S), NEW f \in [S -> Nat]
  PROVE  SumFunction(f) \in Nat
  BY SumIsUnits, UnitsAreFinite, FS_CardinalityType

\* The sum of zeros, or of nothing, is 0.
LEMMA SumOfZeros ==
  ASSUME NEW S, IsFiniteSet(S), NEW f \in [S -> Nat], \A c \in S : f[c] = 0
  PROVE  SumFunction(f) = 0
  <1>1. Units(f, S) = {}
    BY DEF Units
  <1> QED BY <1>1, SumIsUnits, FS_EmptySet

\* One term and the others.
LEMMA SumSplits ==
  ASSUME NEW S, IsFiniteSet(S), NEW f \in [S -> Nat], NEW x \in S
  PROVE  SumFunction(f) = f[x] + SumFunction([c \in S \ {x} |-> f[c]])
  <1> DEFINE g == [c \in S \ {x} |-> f[c]]
  <1>1. g \in [S \ {x} -> Nat] /\ IsFiniteSet(S \ {x})
    BY FS_RemoveElement
  <1>2. Units(g, S \ {x}) = Units(f, S \ {x})
    BY DEF Units
  <1> HIDE DEF g
  <1>3. SumFunction(g) = Cardinality(Units(f, S \ {x}))
    BY <1>1, <1>2, SumIsUnits
  <1>4. Cardinality(Units(f, S)) = f[x] + Cardinality(Units(f, S \ {x}))
    BY UnitsAreFinite, UnitsAdd
  <1> QED BY <1>3, <1>4, SumIsUnits DEF g

\* A sum of no larger terms is no larger.
LEMMA SumIsMonotone ==
  ASSUME NEW S, IsFiniteSet(S), NEW f \in [S -> Nat], NEW g \in [S -> Nat],
         \A c \in S : f[c] <= g[c]
  PROVE  SumFunction(f) <= SumFunction(g)
  <1>1. Units(f, S) \in SUBSET Units(g, S)
    <2> SUFFICES ASSUME NEW p \in Units(f, S) PROVE p \in Units(g, S)
      OBVIOUS
    <2>1. /\ p \in S \X Nat /\ 1 <= p[2] /\ p[2] <= f[p[1]] /\ f[p[1]] <= g[p[1]]
          /\ p[2] \in Nat /\ f[p[1]] \in Nat /\ g[p[1]] \in Nat
      BY DEF Units
    <2> QED BY <2>1 DEF Units
  <1>2. IsFiniteSet(Units(g, S))
    BY UnitsAreFinite
  <1> QED BY <1>1, <1>2, SumIsUnits, FS_Subset

\* The terms of two disjoint sets, together.
LEMMA SumsAdd ==
  ASSUME NEW S, IsFiniteSet(S), NEW f \in [S -> Nat], NEW T \in SUBSET S
  PROVE  SumFunction(f) =
           SumFunction([c \in T |-> f[c]]) + SumFunction([c \in S \ T |-> f[c]])
  <1> DEFINE g == [c \in T |-> f[c]]
             h == [c \in S \ T |-> f[c]]
  <1>1. /\ g \in [T -> Nat] /\ IsFiniteSet(T)
        /\ h \in [S \ T -> Nat] /\ IsFiniteSet(S \ T)
    BY FS_Subset
  <1>2. Units(g, T) = Units(f, T) /\ Units(h, S \ T) = Units(f, S \ T)
    BY DEF Units
  <1> HIDE DEF g, h
  <1>3. SumFunction(g) = Cardinality(Units(f, T))
    BY <1>1, <1>2, SumIsUnits
  <1>4. SumFunction(h) = Cardinality(Units(f, S \ T))
    BY <1>1, <1>2, SumIsUnits
  <1>5. /\ Units(f, S) = Units(f, T) \cup Units(f, S \ T)
        /\ Units(f, T) \cap Units(f, S \ T) = {}
    BY DEF Units
  <1>6. IsFiniteSet(Units(f, T)) /\ IsFiniteSet(Units(f, S \ T))
    BY UnitsAreFinite
  <1> DEFINE A == Units(f, T)
             B == Units(f, S \ T)
  <1> HIDE DEF A, B
  <1>7. Cardinality(A \cup B) = Cardinality(A) + Cardinality(B) - Cardinality(A \cap B)
    BY <1>6, FS_Union DEF A, B
  <1>8. Cardinality(A \cap B) = 0 /\ Cardinality(A) \in Nat /\ Cardinality(B) \in Nat
    BY <1>5, <1>6, FS_EmptySet, FS_CardinalityType DEF A, B
  <1>9. SumFunction(f) = Cardinality(A) + Cardinality(B)
    <2>1. SumFunction(f) = Cardinality(A \cup B)
      BY <1>5, SumIsUnits DEF A, B
    <2> QED BY <1>7, <1>8, <2>1
  <1> QED BY <1>3, <1>4, <1>9 DEF A, B, g, h
=============================================================================
