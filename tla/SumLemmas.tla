----------------------------- MODULE SumLemmas -----------------------------
(***************************************************************************)
(* Lemmas about SumFunctionOnSet, the sum of f[x] over a finite set, as    *)
(* the books of the ledger and the tallies of the usage log use it: what   *)
(* it is for no element, and what one more or one fewer element does.      *)
(*                                                                         *)
(* A sum of naturals is the number of its units, and one element more or   *)
(* less adds or removes the units of that element.  The facts about every  *)
(* finite set are proved from a smallest set without the property.         *)
(***************************************************************************)
EXTENDS Integers, FiniteSets, Functions, FiniteSetTheorems,
        WellFoundedInduction, TLAPS

Pick(S) == CHOOSE x \in S : TRUE

\* One unit for each 1 of f[x].
Units(f, S) == {u \in S \X Nat : u[2] < f[u[1]]}
Count(f, S) == Cardinality(Units(f, S))

\* A family of subsets of a finite set has a smallest member.
LEMMA Smallest ==
    ASSUME NEW S, IsFiniteSet(S), NEW T, T \subseteq SUBSET S, T # {}
    PROVE  \E s \in T : \A t \in T : t \subseteq s => t = s
<1>1. IsWellFoundedOn(StrictSubsetOrdering(S), SUBSET S)
  BY FS_StrictSubsetOrderingWellFounded, FS_FiniteSubsetsOfFinite
<1>2. \E s \in T : \A t \in T : ~ (<<t, s>> \in StrictSubsetOrdering(S))
  BY <1>1, WFMin
<1> QED BY <1>2 DEF StrictSubsetOrdering

\* Of some naturals up to n one is the least, and one the greatest.
LEMMA FiniteStretch == ASSUME NEW k \in Int PROVE IsFiniteSet(0..k)
<1>1. 0 \in Int
  OBVIOUS
<1> QED BY <1>1, FS_Interval

LEMMA LeastNumber ==
    ASSUME NEW n \in Nat, NEW T, T \subseteq 0..n, T # {}
    PROVE  \E k \in T : \A j \in T : k <= j
<1> DEFINE Below == {0..k : k \in T}
<1>1. IsFiniteSet(0..n)
  BY FiniteStretch
<1>2. Below \subseteq SUBSET (0..n) /\ Below # {}
  <2>1. ASSUME NEW k \in T PROVE 0..k \in SUBSET (0..n)
    <3>1. k \in 0..n
      OBVIOUS
    <3> QED BY <3>1
  <2>2. PICK k \in T : TRUE
    OBVIOUS
  <2>3. 0..k \in Below
    BY <2>2
  <2> QED BY <2>1, <2>3
<1>3. PICK s \in Below : \A t \in Below : t \subseteq s => t = s
  <2> DEFINE whole == 0..n
  <2>1. IsFiniteSet(whole) /\ Below \subseteq SUBSET whole
    BY <1>1, <1>2
  <2> HIDE DEF Below, whole
  <2>2. Below # {}
    BY <1>2
  <2> QED BY <2>1, <2>2, Smallest
<1>4. PICK k \in T : s = 0..k
  OBVIOUS
<1>5. ASSUME NEW j \in T, j < k PROVE FALSE
  <2>1. 0..j \in Below /\ 0..j \subseteq s
    BY <1>4, <1>5
  <2>2. 0..j = s
    BY <1>3, <2>1
  <2>3. k \in s /\ k \notin 0..j
    BY <1>4, <1>5
  <2> QED BY <2>2, <2>3
<1>6. \A j \in T : k <= j
  BY <1>5
<1> QED BY <1>6

LEMMA GreatestNumber ==
    ASSUME NEW n \in Nat, NEW T, T \subseteq 1..n, T # {}
    PROVE  \E k \in T : \A j \in T : j <= k
<1> DEFINE Above == {m \in 0..n : \A j \in T : j <= m}
<1>1. Above \subseteq 0..n /\ n \in Above
  OBVIOUS
<1>2. PICK k \in Above : \A m \in Above : k <= m
  <2> HIDE DEF Above
  <2> QED BY <1>1, LeastNumber
<1>3. k \in 0..n /\ \A j \in T : j <= k
  OBVIOUS
<1>4. ASSUME k \notin T PROVE FALSE
  <2>1. \A j \in T : j <= k - 1
    BY <1>3, <1>4
  <2>2. PICK j \in T : TRUE
    OBVIOUS
  <2>3. k - 1 \in 0..n
    BY <1>3, <2>1, <2>2
  <2>4. k - 1 \in Above
    BY <2>1, <2>3
  <2> QED BY <1>2, <1>3, <2>4
<1> QED BY <1>3, <1>4

-----------------------------------------------------------------------------
(* A sum is a number of units.                                             *)

LEMMA UnitsSplit ==
    ASSUME NEW f, NEW S, NEW x \in S, f[x] \in Nat,
           IsFiniteSet(Units(f, S \ {x}))
    PROVE  /\ IsFiniteSet(Units(f, S))
           /\ Count(f, S) = f[x] + Count(f, S \ {x})
<1> DEFINE A == Units(f, S \ {x})
           B == {x} \X (0..(f[x] - 1))
<1>1. Units(f, S) = A \cup B /\ A \cap B = {}
  BY DEF Units
<1>2. IsFiniteSet(B) /\ Cardinality(B) = f[x]
  <2>1. IsFiniteSet(0..(f[x] - 1)) /\ Cardinality(0..(f[x] - 1)) = f[x]
    BY FS_Interval, SMTT(30)
  <2>2. IsFiniteSet({x}) /\ Cardinality({x}) = 1
    BY FS_Singleton
  <2> HIDE DEF B
  <2> QED BY <2>1, <2>2, FS_Product DEF B
<1> HIDE DEF A, B
<1>3. IsFiniteSet(A) BY DEF A
<1>4. /\ IsFiniteSet(A \cup B)
      /\ Cardinality(A \cup B) = Cardinality(A) + Cardinality(B) - Cardinality(A \cap B)
  BY <1>2, <1>3, FS_Union
<1>5. Cardinality(A \cap B) = 0 BY <1>1, FS_EmptySet
<1>6. Cardinality(A) \in Nat BY <1>3, FS_CardinalityType
<1> QED BY <1>1, <1>2, <1>4, <1>5, <1>6 DEF Count, A

LEMMA UnitsFinite ==
    ASSUME NEW f, NEW S, IsFiniteSet(S), \A x \in S : f[x] \in Nat
    PROVE  IsFiniteSet(Units(f, S))
<1> DEFINE T == {s \in SUBSET S : ~IsFiniteSet(Units(f, s))}
<1> SUFFICES ASSUME T # {} PROVE FALSE
  OBVIOUS
<1>0. T \subseteq SUBSET S
  OBVIOUS
<1>1. PICK s \in T : \A t \in T : t \subseteq s => t = s
  <2> HIDE DEF T
  <2> QED BY <1>0, Smallest
<1>2. s # {}
  <2>1. Units(f, {}) = {}
    BY DEF Units
  <2> QED BY <2>1, FS_EmptySet
<1>3. PICK x \in s : TRUE
  BY <1>2
<1>4. IsFiniteSet(Units(f, s \ {x}))
  BY <1>1, <1>3
<1> QED BY <1>3, <1>4, UnitsSplit

\* The recursion of SumFunctionOnSet takes one element after the other; what
\* is left of the sum is at each step the number of units that are left.
LEMMA SumIsCount ==
    ASSUME NEW f, NEW S, IsFiniteSet(S), \A x \in S : f[x] \in Nat
    PROVE  SumFunctionOnSet(f, S) = Count(f, S)
<1> DEFINE Step(g) == [s \in SUBSET S |-> IF s = {} THEN 0 ELSE f[Pick(s)] + g[s \ {Pick(s)}]]
           iter == CHOOSE g : g = Step(g)
           count == [s \in SUBSET S |-> Count(f, s)]
<1>1. SumFunctionOnSet(f, S) = iter[S]
  BY DEF SumFunctionOnSet, FoldFunctionOnSet, MapThenFoldSet, Pick
<1>2. \A s \in SUBSET S : IsFiniteSet(Units(f, s))
  BY FS_Subset, UnitsFinite
<1>3. \A s \in SUBSET S : s # {} => Pick(s) \in s
  BY DEF Pick
<1>4. \A s \in SUBSET S :
         Count(f, s) = IF s = {} THEN 0 ELSE f[Pick(s)] + Count(f, s \ {Pick(s)})
  <2>1. Count(f, {}) = 0
    <3>1. Units(f, {}) = {}
      BY DEF Units
    <3> QED BY <3>1, FS_EmptySet DEF Count
  <2>2. ASSUME NEW s \in SUBSET S, s # {}
        PROVE  Count(f, s) = f[Pick(s)] + Count(f, s \ {Pick(s)})
    BY <1>2, <1>3, <2>2, UnitsSplit
  <2> QED BY <2>1, <2>2
<1>5. count = Step(count)
  BY <1>3, <1>4
<1>6. iter = Step(iter)
  <2>1. \E g : g = Step(g)
    BY <1>5, Zenon
  <2> QED BY <2>1, Zenon
<1>7. \A s \in SUBSET S : iter[s] = count[s]
  <2> DEFINE T == {s \in SUBSET S : iter[s] # count[s]}
  <2> SUFFICES ASSUME T # {} PROVE FALSE
    OBVIOUS
  <2>0. T \subseteq SUBSET S
    OBVIOUS
  <2>1. PICK s \in T : \A t \in T : t \subseteq s => t = s
    <3> HIDE DEF T
    <3> QED BY <2>0, Smallest
  <2> HIDE DEF iter, count
  <2>2. CASE s = {}
    BY <1>5, <1>6, <2>2
  <2>3. CASE s # {}
    <3>1. iter[s \ {Pick(s)}] = count[s \ {Pick(s)}]
      BY <1>3, <2>1, <2>3
    <3> QED BY <1>5, <1>6, <2>3, <3>1
  <2> QED BY <2>2, <2>3
<1> QED BY <1>1, <1>7

-----------------------------------------------------------------------------
(* What the books and the tallies use.                                     *)

LEMMA SumType ==
    ASSUME NEW f, NEW S, IsFiniteSet(S), \A x \in S : f[x] \in Nat
    PROVE  SumFunctionOnSet(f, S) \in Nat
BY SumIsCount, UnitsFinite, FS_CardinalityType DEF Count

LEMMA SumOfNone == ASSUME NEW f PROVE SumFunctionOnSet(f, {}) = 0
<1>1. Units(f, {}) = {}
  BY DEF Units
<1> QED BY <1>1, SumIsCount, FS_EmptySet DEF Count

\* On S the functions f and g give the same naturals.
SameOn(S, f, g) == \A x \in S : f[x] \in Nat /\ g[x] = f[x]

LEMMA SumOfSame ==
    ASSUME NEW f, NEW g, NEW S, IsFiniteSet(S), SameOn(S, f, g)
    PROVE  SumFunctionOnSet(g, S) = SumFunctionOnSet(f, S)
<1>1. Units(f, S) = Units(g, S)
  BY DEF Units, SameOn
<1>2. /\ \A x \in S : f[x] \in Nat
      /\ \A x \in S : g[x] \in Nat
  BY DEF SameOn
<1> QED BY <1>1, <1>2, SumIsCount DEF Count

LEMMA SumSplits ==
    ASSUME NEW f, NEW S, NEW x \in S, IsFiniteSet(S), \A y \in S : f[y] \in Nat
    PROVE  SumFunctionOnSet(f, S) = f[x] + SumFunctionOnSet(f, S \ {x})
<1>1. IsFiniteSet(S \ {x})
  BY FS_RemoveElement
<1>2. \A y \in S \ {x} : f[y] \in Nat
  OBVIOUS
<1>3. IsFiniteSet(Units(f, S \ {x}))
  BY <1>1, <1>2, UnitsFinite
<1>4. Count(f, S) = f[x] + Count(f, S \ {x})
  BY <1>3, UnitsSplit
<1>5. SumFunctionOnSet(f, S) = Count(f, S)
  BY SumIsCount
<1>6. SumFunctionOnSet(f, S \ {x}) = Count(f, S \ {x})
  BY <1>1, <1>2, SumIsCount
<1> QED BY <1>4, <1>5, <1>6

\* One more element, from another function that agrees on the others.
LEMMA SumGrows ==
    ASSUME NEW f, NEW g, NEW S, NEW x \in S, IsFiniteSet(S \ {x}), g[x] \in Nat,
           SameOn(S \ {x}, f, g)
    PROVE  SumFunctionOnSet(g, S) = SumFunctionOnSet(f, S \ {x}) + g[x]
<1>1. IsFiniteSet(S)
  <2>1. S = (S \ {x}) \cup {x}
    OBVIOUS
  <2> QED BY <2>1, FS_AddElement
<1>2. \A y \in S : g[y] \in Nat
  BY DEF SameOn
<1>3. SumFunctionOnSet(g, S) = g[x] + SumFunctionOnSet(g, S \ {x})
  BY <1>1, <1>2, SumSplits
<1>4. SumFunctionOnSet(g, S \ {x}) = SumFunctionOnSet(f, S \ {x})
  BY SumOfSame
<1>5. SumFunctionOnSet(f, S \ {x}) \in Nat
  BY SumType DEF SameOn
<1> QED BY <1>3, <1>4, <1>5
=============================================================================
