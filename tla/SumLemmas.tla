----------------------------- MODULE SumLemmas -----------------------------
(* Lemmas about sums over finite sets, for every function and every set.    *)
(* The fold of the library takes the elements in an order CHOOSE fixes; the *)
(* lemmas show that a sum exists, has the type of its terms, takes its      *)
(* elements in any order, and changes with one of them by the difference.   *)
EXTENDS Sums, FiniteSetTheorems, WellFoundedInduction, TLAPS

(* The element the fold takes next, and the equation of the function it builds on the subsets of S. *)
PickedFrom(s) == CHOOSE x \in s : TRUE
FoldStep(f, g, s) == IF s = {} THEN 0 ELSE f[PickedFrom(s)] + g[s \ {PickedFrom(s)}]
Equation(f, S, g) == [s \in SUBSET S |-> FoldStep(f, g, s)]
Iterate(f, S) == CHOOSE g : g = Equation(f, S, g)

LEMMA LeastNumber ==
  ASSUME NEW T \in SUBSET Nat, T # {}
  PROVE  \E n \in T : \A m \in T : n <= m
<1>. DEFINE R == OpToRel(<, Nat)
<1>1. IsWellFoundedOn(R, Nat)
  BY NatLessThanWellFounded
<1>2. \A x, y \in Nat : y < x => <<y, x>> \in R
  BY DEF OpToRel
<1>. HIDE DEF R
<1>3. PICK n \in T : \A m \in T : ~(<<m, n>> \in R)
  BY <1>1, WFMin
<1>4. ASSUME NEW m \in T PROVE n <= m
  <2>1. n \in Nat /\ m \in Nat /\ <<m, n>> \notin R
    BY <1>3
  <2>. QED
    BY <1>2, <2>1
<1>. QED
  BY <1>4

LEMMA NumbersByInduction ==
  ASSUME NEW P \in SUBSET Nat, 0 \in P, \A n \in P : n + 1 \in P
  PROVE  P = Nat
<1>. SUFFICES ASSUME P # Nat PROVE FALSE
  OBVIOUS
<1>1. PICK n \in Nat \ P : \A m \in Nat \ P : n <= m
  BY LeastNumber
<1>2. n - 1 \in P
  BY <1>1
<1>. QED
  BY <1>1, <1>2

LEMMA SubsetsByInduction ==
  ASSUME NEW U, IsFiniteSet(U), NEW P \in SUBSET (SUBSET U),
         \A s \in SUBSET U : (\A t \in SUBSET s : t # s => t \in P) => s \in P
  PROVE  P = SUBSET U
<1>. DEFINE Sizes == {Cardinality(s) : s \in (SUBSET U) \ P}
<1>. SUFFICES ASSUME P # SUBSET U PROVE FALSE
  OBVIOUS
<1>1. \A s \in SUBSET U : IsFiniteSet(s) /\ Cardinality(s) \in Nat
  BY FS_Subset, FS_CardinalityType
<1>2. Sizes \in SUBSET Nat /\ Sizes # {}
  BY <1>1
<1>3. PICK n \in Sizes : \A m \in Sizes : n <= m
  BY <1>2, LeastNumber
<1>4. PICK s \in (SUBSET U) \ P : Cardinality(s) = n
  BY <1>3
<1>5. ASSUME NEW t \in SUBSET s, t # s, t \notin P PROVE FALSE
  <2>1. IsFiniteSet(s) /\ s \in SUBSET U /\ t \in SUBSET U
    BY <1>1, <1>4
  <2>2. Cardinality(t) < Cardinality(s)
    <3>1. Cardinality(t) <= Cardinality(s) /\ Cardinality(t) # Cardinality(s)
      BY <1>5, <2>1, FS_Subset
    <3>2. Cardinality(t) \in Nat /\ Cardinality(s) \in Nat
      BY <1>1, <2>1
    <3>. QED
      BY <3>1, <3>2
  <2>3. Cardinality(t) \in Sizes
    BY <1>5, <2>1
  <2>4. Cardinality(t) \in Nat /\ Cardinality(s) \in Nat
    BY <1>1, <2>1
  <2>. HIDE DEF Sizes
  <2>. QED
    BY <1>3, <1>4, <2>2, <2>3, <2>4
<1>. QED
  BY <1>4, <1>5

LEMMA SumUnfolded == ASSUME NEW f, NEW S PROVE SumOver(f, S) = Iterate(f, S)[S]
  BY Zenon DEF SumOver, FoldFunctionOnSet, MapThenFoldSet, Iterate, Equation, FoldStep, PickedFrom

LEMMA IterateExists ==
  ASSUME NEW f, NEW U, IsFiniteSet(U)
  PROVE  Iterate(f, U) = Equation(f, U, Iterate(f, U))
<1>. DEFINE Upto(n) == {t \in SUBSET U : Cardinality(t) <= n}
            Solves(g, n) == g = [t \in Upto(n) |-> FoldStep(f, g, t)]
            P == {n \in Nat : \E g : Solves(g, n)}
<1>1. \A t \in SUBSET U : IsFiniteSet(t) /\ Cardinality(t) \in Nat
  BY FS_Subset, FS_CardinalityType
<1>2. 0 \in P
  <2>. DEFINE g == [t \in Upto(0) |-> 0]
  <2>1. \A t \in Upto(0) : t = {}
    BY <1>1, FS_EmptySet
  <2>2. \A t \in Upto(0) : FoldStep(f, g, t) = 0
    BY <2>1 DEF FoldStep
  <2>3. Solves(g, 0)
    BY <2>2
  <2>. QED
    BY <2>3
<1>3. ASSUME NEW n \in P PROVE n + 1 \in P
  <2>1. PICK g : Solves(g, n)
    BY <1>3
  <2>. DEFINE h == [t \in Upto(n + 1) |-> FoldStep(f, g, t)]
  <2>2. \A t \in Upto(n) : t \in Upto(n + 1) /\ g[t] = h[t]
    BY <1>1, <2>1
  <2>3. ASSUME NEW t \in Upto(n + 1) PROVE FoldStep(f, g, t) = FoldStep(f, h, t)
    <3>1. CASE t = {}
      BY <3>1 DEF FoldStep
    <3>2. CASE t # {}
      <4>1. PickedFrom(t) \in t
        BY <3>2 DEF PickedFrom
      <4>2. Cardinality(t \ {PickedFrom(t)}) = Cardinality(t) - 1
        BY <1>1, <4>1, FS_RemoveElement
      <4>3. t \ {PickedFrom(t)} \in Upto(n)
        BY <1>1, <4>2
      <4>. QED
        BY <2>2, <4>3, <3>2 DEF FoldStep
    <3>. QED
      BY <3>1, <3>2
  <2>4. Solves(h, n + 1)
    BY <2>3
  <2>5. \E k : Solves(k, n + 1)
    BY <2>4
  <2>6. n + 1 \in Nat
    BY <1>3
  <2>. HIDE DEF Solves
  <2>. QED
    BY <2>5, <2>6
<1>. HIDE DEF P
<1>4. P = Nat
  <2>1. P \in SUBSET Nat
    BY DEF P
  <2>. QED
    BY <1>2, <1>3, <2>1, NumbersByInduction
<1>5. Upto(Cardinality(U)) = SUBSET U
  BY <1>1, FS_Subset
<1>6. Cardinality(U) \in P
  BY <1>1, <1>4
<1>7. PICK g : g = Equation(f, U, g)
  BY <1>5, <1>6 DEF P, Equation
<1>. QED
  BY <1>7 DEF Iterate

LEMMA IterateValue ==
  ASSUME NEW f, NEW U, IsFiniteSet(U), NEW s \in SUBSET U
  PROVE  Iterate(f, U)[s] = FoldStep(f, Iterate(f, U), s)
<1>. DEFINE g == Iterate(f, U)
<1>1. g = Equation(f, U, g)
  BY IterateExists
<1>. HIDE DEF g
<1>2. g[s] = FoldStep(f, g, s)
  BY <1>1 DEF Equation
<1>. QED
  BY <1>2 DEF g

LEMMA SumIsIterate ==
  ASSUME NEW f, NEW U, IsFiniteSet(U), NEW S \in SUBSET U
  PROVE  SumOver(f, S) = Iterate(f, U)[S]
<1>. DEFINE P == {s \in SUBSET S : Iterate(f, S)[s] = Iterate(f, U)[s]}
<1>1. IsFiniteSet(S)
  BY FS_Subset
<1>2. ASSUME NEW s \in SUBSET S, \A t \in SUBSET s : t # s => t \in P
      PROVE  s \in P
  <2>1. s \in SUBSET U
    OBVIOUS
  <2>2. /\ Iterate(f, S)[s] = FoldStep(f, Iterate(f, S), s)
        /\ Iterate(f, U)[s] = FoldStep(f, Iterate(f, U), s)
    BY <1>1, <2>1, IterateValue
  <2>3. CASE s = {}
    BY <2>2, <2>3 DEF FoldStep
  <2>4. CASE s # {}
    <3>1. PickedFrom(s) \in s
      BY <2>4 DEF PickedFrom
    <3>2. s \ {PickedFrom(s)} \in P
      BY <1>2, <3>1
    <3>. QED
      BY <2>2, <2>4, <3>2 DEF FoldStep
  <2>. QED
    BY <2>3, <2>4
<1>. HIDE DEF P
<1>3. P = SUBSET S
  <2>1. P \in SUBSET (SUBSET S)
    BY DEF P
  <2>. QED
    BY <1>1, <1>2, <2>1, SubsetsByInduction
<1>. QED
  BY <1>3, SumUnfolded DEF P

(* The sum over no elements is zero, and over some it is one element and the rest. *)
LEMMA SumStep ==
  ASSUME NEW f, NEW S, IsFiniteSet(S)
  PROVE  SumOver(f, S) = IF S = {} THEN 0 ELSE f[PickedFrom(S)] + SumOver(f, S \ {PickedFrom(S)})
<1>1. SumOver(f, S) = FoldStep(f, Iterate(f, S), S)
  BY SumUnfolded, IterateValue
<1>2. SumOver(f, S \ {PickedFrom(S)}) = Iterate(f, S)[S \ {PickedFrom(S)}]
  BY SumIsIterate
<1>. QED
  BY <1>1, <1>2 DEF FoldStep

LEMMA SumEmpty ==
  ASSUME NEW f
  PROVE  SumOver(f, {}) = 0
BY SumStep, FS_EmptySet

LEMMA SumTyped ==
  ASSUME NEW f, NEW S, IsFiniteSet(S), NEW K,
         K = Int \/ K = Nat, \A x \in S : f[x] \in K
  PROVE  SumOver(f, S) \in K
<1>. DEFINE P == {s \in SUBSET S : SumOver(f, s) \in K}
<1>1. ASSUME NEW s \in SUBSET S, \A t \in SUBSET s : t # s => t \in P
      PROVE  s \in P
  <2>1. IsFiniteSet(s)
    BY FS_Subset
  <2>2. CASE s = {}
    BY <2>2, SumEmpty
  <2>3. CASE s # {}
    <3>1. PickedFrom(s) \in s
      BY <2>3 DEF PickedFrom
    <3>2. s \ {PickedFrom(s)} \in P
      BY <1>1, <3>1
    <3>3. SumOver(f, s) = f[PickedFrom(s)] + SumOver(f, s \ {PickedFrom(s)})
      BY <2>1, <2>3, SumStep
    <3>. QED
      BY <3>1, <3>2, <3>3
  <2>. QED
    BY <2>2, <2>3
<1>. HIDE DEF P
<1>2. P = SUBSET S
  <2>1. P \in SUBSET (SUBSET S)
    BY DEF P
  <2>. QED
    BY <1>1, <2>1, SubsetsByInduction
<1>. QED
  BY <1>2 DEF P

(* Any element may be taken first: the sum does not depend on the order of the fold. *)
LEMMA SumTake ==
  ASSUME NEW f, NEW S, IsFiniteSet(S), \A x \in S : f[x] \in Int, NEW e \in S
  PROVE  SumOver(f, S) = f[e] + SumOver(f, S \ {e})
<1>. DEFINE P == {s \in SUBSET S : \A x \in s : SumOver(f, s) = f[x] + SumOver(f, s \ {x})}
<1>1. ASSUME NEW s \in SUBSET S, \A t \in SUBSET s : t # s => t \in P, NEW x \in s
      PROVE  SumOver(f, s) = f[x] + SumOver(f, s \ {x})
  <2>. DEFINE p == PickedFrom(s)
  <2>1. /\ IsFiniteSet(s) /\ IsFiniteSet(s \ {x})
    BY FS_Subset
  <2>2. p \in s
    BY DEF PickedFrom
  <2>3. SumOver(f, s) = f[p] + SumOver(f, s \ {p})
    BY <2>1, SumStep
  <2>. HIDE DEF p
  <2>4. CASE p = x
    BY <2>3, <2>4
  <2>5. CASE p # x
    <3>1. s \ {p} \in P /\ s \ {x} \in P
      BY <1>1, <2>2
    <3>2. SumOver(f, s \ {p}) = f[x] + SumOver(f, (s \ {p}) \ {x})
      BY <2>5, <3>1
    <3>3. SumOver(f, s \ {x}) = f[p] + SumOver(f, (s \ {x}) \ {p})
      BY <2>2, <2>5, <3>1
    <3>4. (s \ {p}) \ {x} = (s \ {x}) \ {p}
      OBVIOUS
    <3>5. IsFiniteSet((s \ {x}) \ {p}) /\ \A y \in (s \ {x}) \ {p} : f[y] \in Int
      BY <2>1, FS_Subset
    <3>6. SumOver(f, (s \ {x}) \ {p}) \in Int
      BY <3>5, SumTyped
    <3>7. f[x] \in Int /\ f[p] \in Int
      BY <2>2
    <3>. DEFINE rest == SumOver(f, (s \ {x}) \ {p})
    <3>8. SumOver(f, s) = f[p] + (f[x] + rest) /\ SumOver(f, s \ {x}) = f[p] + rest
      BY <2>3, <3>2, <3>3, <3>4
    <3>. HIDE DEF rest
    <3>9. rest \in Int
      BY <3>6 DEF rest
    <3>. QED
      BY <3>7, <3>8, <3>9
  <2>. QED
    BY <2>4, <2>5
<1>2. \A s \in SUBSET S : (\A t \in SUBSET s : t # s => t \in P) => s \in P
  BY <1>1
<1>. HIDE DEF P
<1>3. P = SUBSET S
  <2>1. P \in SUBSET (SUBSET S)
    BY DEF P
  <2>. QED
    BY <1>2, <2>1, SubsetsByInduction
<1>. QED
  BY <1>3 DEF P

(* The sum depends only on the values at its elements. *)
LEMMA SumAgrees ==
  ASSUME NEW f, NEW g, NEW S, IsFiniteSet(S), \A x \in S : f[x] = g[x]
  PROVE  SumOver(f, S) = SumOver(g, S)
<1>. DEFINE P == {s \in SUBSET S : SumOver(f, s) = SumOver(g, s)}
<1>1. ASSUME NEW s \in SUBSET S, \A t \in SUBSET s : t # s => t \in P
      PROVE  s \in P
  <2>1. IsFiniteSet(s)
    BY FS_Subset
  <2>2. CASE s = {}
    BY <2>2, SumEmpty
  <2>3. CASE s # {}
    <3>1. PickedFrom(s) \in s
      BY <2>3 DEF PickedFrom
    <3>2. s \ {PickedFrom(s)} \in P
      BY <1>1, <3>1
    <3>3. /\ SumOver(f, s) = f[PickedFrom(s)] + SumOver(f, s \ {PickedFrom(s)})
          /\ SumOver(g, s) = g[PickedFrom(s)] + SumOver(g, s \ {PickedFrom(s)})
      BY <2>1, <2>3, SumStep
    <3>. QED
      BY <3>1, <3>2, <3>3
  <2>. QED
    BY <2>2, <2>3
<1>. HIDE DEF P
<1>2. P = SUBSET S
  <2>1. P \in SUBSET (SUBSET S)
    BY DEF P
  <2>. QED
    BY <1>1, <2>1, SubsetsByInduction
<1>. QED
  BY <1>2 DEF P

(* Changing one value changes the sum by the difference. *)
LEMMA SumChangesAt ==
  ASSUME NEW f, NEW g, NEW S, IsFiniteSet(S), NEW e \in S,
         \A x \in S : f[x] \in Int /\ g[x] \in Int,
         \A x \in S \ {e} : g[x] = f[x]
  PROVE  SumOver(g, S) = SumOver(f, S) - f[e] + g[e]
<1>1. IsFiniteSet(S \ {e})
  BY FS_Subset
<1>2. SumOver(f, S) = f[e] + SumOver(f, S \ {e}) /\ SumOver(g, S) = g[e] + SumOver(g, S \ {e})
  BY SumTake
<1>3. SumOver(g, S \ {e}) = SumOver(f, S \ {e})
  BY <1>1, SumAgrees
<1>4. SumOver(f, S \ {e}) \in Int
  BY <1>1, SumTyped
<1>. QED
  BY <1>2, <1>3, <1>4

(* Adding an element adds its value. *)
LEMMA SumAdd ==
  ASSUME NEW f, NEW S, IsFiniteSet(S), NEW e, e \notin S, f[e] \in Int,
         \A x \in S : f[x] \in Int
  PROVE  SumOver(f, S \cup {e}) = SumOver(f, S) + f[e]
<1>1. IsFiniteSet(S \cup {e}) /\ (S \cup {e}) \ {e} = S
  BY FS_AddElement
<1>2. SumOver(f, S \cup {e}) = f[e] + SumOver(f, (S \cup {e}) \ {e})
  BY <1>1, SumTake
<1>3. SumOver(f, S) \in Int
  BY SumTyped
<1>4. SumOver(f, S \cup {e}) = f[e] + SumOver(f, S)
  BY <1>1, <1>2
<1>. QED
  BY <1>3, <1>4

(* The same with values that may differ outside the old set. *)
LEMMA SumGrows ==
  ASSUME NEW f, NEW g, NEW S, IsFiniteSet(S), NEW e, e \notin S, g[e] \in Int,
         \A x \in S : f[x] \in Int /\ g[x] = f[x]
  PROVE  SumOver(g, S \cup {e}) = SumOver(f, S) + g[e]
<1>1. SumOver(g, S \cup {e}) = SumOver(g, S) + g[e]
  BY SumAdd
<1>2. SumOver(g, S) = SumOver(f, S)
  BY SumAgrees
<1>. QED
  BY <1>1, <1>2

(* Zeros add up to zero. *)
LEMMA SumOfZeros ==
  ASSUME NEW f, NEW S, IsFiniteSet(S), \A x \in S : f[x] = 0
  PROVE  SumOver(f, S) = 0
<1>. DEFINE P == {s \in SUBSET S : SumOver(f, s) = 0}
<1>1. ASSUME NEW s \in SUBSET S, \A t \in SUBSET s : t # s => t \in P
      PROVE  s \in P
  <2>1. IsFiniteSet(s)
    BY FS_Subset
  <2>2. CASE s = {}
    BY <2>2, SumEmpty
  <2>3. CASE s # {}
    <3>1. PickedFrom(s) \in s
      BY <2>3 DEF PickedFrom
    <3>2. s \ {PickedFrom(s)} \in P
      BY <1>1, <3>1
    <3>3. SumOver(f, s) = f[PickedFrom(s)] + SumOver(f, s \ {PickedFrom(s)})
      BY <2>1, <2>3, SumStep
    <3>. QED
      BY <3>1, <3>2, <3>3
  <2>. QED
    BY <2>2, <2>3
<1>. HIDE DEF P
<1>2. P = SUBSET S
  <2>1. P \in SUBSET (SUBSET S)
    BY DEF P
  <2>. QED
    BY <1>1, <2>1, SubsetsByInduction
<1>. QED
  BY <1>2 DEF P

(* Leaving out elements of value zero changes nothing. *)
LEMMA SumOverNonZero ==
  ASSUME NEW f, NEW S, IsFiniteSet(S), \A x \in S : f[x] \in Int,
         NEW R \in SUBSET S, \A x \in S \ R : f[x] = 0
  PROVE  SumOver(f, S) = SumOver(f, R)
<1>. DEFINE P == {d \in SUBSET (S \ R) : SumOver(f, R \cup d) = SumOver(f, R)}
<1>1. ASSUME NEW d \in SUBSET (S \ R), \A t \in SUBSET d : t # d => t \in P
      PROVE  d \in P
  <2>1. CASE d = {}
    <3>1. R \cup d = R
      BY <2>1
    <3>. QED
      BY <3>1
  <2>2. CASE d # {}
    <3>1. PICK e \in d : TRUE
      BY <2>2
    <3>2. d \ {e} \in P
      BY <1>1, <3>1
    <3>3. e \notin R \cup (d \ {e}) /\ (R \cup (d \ {e})) \cup {e} = R \cup d
      BY <3>1
    <3>4. IsFiniteSet(R \cup (d \ {e}))
      BY FS_Subset
    <3>5. f[e] = 0 /\ \A x \in R \cup (d \ {e}) : f[x] \in Int
      BY <3>1
    <3>6. SumOver(f, R \cup d) = SumOver(f, R \cup (d \ {e})) + f[e]
      BY <3>3, <3>4, <3>5, SumAdd
    <3>7. SumOver(f, R \cup (d \ {e})) \in Int
      BY <3>4, <3>5, SumTyped
    <3>. QED
      BY <3>2, <3>5, <3>6, <3>7
  <2>. QED
    BY <2>1, <2>2
<1>2. IsFiniteSet(S \ R)
  BY FS_Subset
<1>. HIDE DEF P
<1>3. P = SUBSET (S \ R)
  <2>1. P \in SUBSET (SUBSET (S \ R))
    BY DEF P
  <2>. QED
    BY <1>1, <1>2, <2>1, SubsetsByInduction
<1>4. SumOver(f, R \cup (S \ R)) = SumOver(f, R)
  BY <1>3 DEF P
<1>5. R \cup (S \ R) = S
  OBVIOUS
<1>. QED
  BY <1>4, <1>5
(* A sum of smaller terms is no greater.                                   *)
LEMMA SumMonotone ==
  ASSUME NEW f, NEW g, NEW S, IsFiniteSet(S),
         \A x \in S : f[x] \in Int /\ g[x] \in Int /\ f[x] <= g[x]
  PROVE  SumOver(f, S) <= SumOver(g, S)
<1>. DEFINE P == {s \in SUBSET S : SumOver(f, s) <= SumOver(g, s)}
<1>1. ASSUME NEW s \in SUBSET S, \A t \in SUBSET s : t # s => t \in P
      PROVE  s \in P
  <2>1. IsFiniteSet(s)
    BY FS_Subset
  <2>2. CASE s = {}
    BY <2>2, SumEmpty
  <2>3. CASE s # {}
    <3>. DEFINE p == PickedFrom(s)
                rest == s \ {p}
    <3>1. p \in s
      BY <2>3 DEF PickedFrom
    <3>2. rest \in P
      BY <1>1, <3>1
    <3>3. SumOver(f, s) = f[p] + SumOver(f, rest) /\ SumOver(g, s) = g[p] + SumOver(g, rest)
      BY <2>1, <2>3, SumStep
    <3>4. SumOver(f, rest) \in Int /\ SumOver(g, rest) \in Int
      <4>1. IsFiniteSet(rest) /\ \A x \in rest : f[x] \in Int /\ g[x] \in Int
        BY <2>1, FS_Subset
      <4>. HIDE DEF rest
      <4>. QED
        BY <4>1, SumTyped
    <3>5. f[p] \in Int /\ g[p] \in Int /\ f[p] <= g[p]
      BY <3>1
    <3>6. SumOver(f, rest) <= SumOver(g, rest)
      BY <3>2
    <3>. HIDE DEF rest, p
    <3>7. SumOver(f, s) <= SumOver(g, s)
      BY <3>3, <3>4, <3>5, <3>6
    <3>. QED
      BY <3>7
  <2>. QED
    BY <2>2, <2>3
<1>. HIDE DEF P
<1>2. P = SUBSET S
  <2>1. P \in SUBSET (SUBSET S)
    BY DEF P
  <2>. QED
    BY <1>1, <2>1, SubsetsByInduction
<1>. QED
  BY <1>2 DEF P

(* Fewer terms of the natural numbers make no greater sum.                 *)
LEMMA SumOfPart ==
  ASSUME NEW f, NEW S, IsFiniteSet(S), \A x \in S : f[x] \in Nat, NEW R \in SUBSET S
  PROVE  SumOver(f, R) <= SumOver(f, S)
<1>. DEFINE g == [x \in S |-> IF x \in R THEN f[x] ELSE 0]
<1>1. IsFiniteSet(R)
  BY FS_Subset
<1>2. /\ \A x \in S : g[x] \in Int /\ f[x] \in Int /\ g[x] <= f[x]
      /\ \A x \in S \ R : g[x] = 0
      /\ \A x \in R : f[x] = g[x]
  OBVIOUS
<1>. HIDE DEF g
<1>3. SumOver(g, S) <= SumOver(f, S)
  BY <1>2, SumMonotone
<1>4. SumOver(g, S) = SumOver(g, R)
  BY <1>2, SumOverNonZero
<1>5. SumOver(f, R) = SumOver(g, R)
  BY <1>1, <1>2, SumAgrees
<1>. QED
  BY <1>3, <1>4, <1>5

(* Terms that stand for different terms of another sum make no greater sum. *)
LEMMA SumRenamed ==
  ASSUME NEW f, NEW g, NEW h, NEW S, NEW T, IsFiniteSet(S), IsFiniteSet(T),
         \A x \in S : h[x] \in T /\ f[x] = g[h[x]],
         \A x, y \in S : h[x] = h[y] => x = y,
         \A z \in T : g[z] \in Nat
  PROVE  SumOver(f, S) <= SumOver(g, T)
<1>. DEFINE Named(s) == {h[x] : x \in s}
            P == {s \in SUBSET S : SumOver(f, s) = SumOver(g, Named(s))}
<1>1. ASSUME NEW s \in SUBSET S, \A t \in SUBSET s : t # s => t \in P
      PROVE  s \in P
  <2>1. IsFiniteSet(s) /\ Named(s) \subseteq T
    BY FS_Subset
  <2>2. CASE s = {}
    <3>1. Named(s) = {}
      BY <2>2
    <3>. HIDE DEF Named
    <3>. QED
      BY <2>2, <3>1, SumEmpty
  <2>3. CASE s # {}
    <3>. DEFINE p == PickedFrom(s)
                rest == s \ {p}
    <3>1. p \in s
      BY <2>3 DEF PickedFrom
    <3>2. rest \in SUBSET s /\ rest # s /\ rest \in SUBSET S /\ p \in S
      BY <3>1
    <3>3. SumOver(f, rest) = SumOver(g, Named(rest))
      BY <1>1, <3>2
    <3>4. SumOver(f, s) = f[p] + SumOver(f, rest)
      BY <2>1, <2>3, SumStep
    <3>. HIDE DEF p
    <3>5. Named(s) = Named(rest) \cup {h[p]} /\ h[p] \notin Named(rest) /\ Named(rest) \subseteq T
      BY <2>1, <3>1, <3>2
    <3>6. g[h[p]] \in Nat /\ f[p] = g[h[p]]
      BY <3>2
    <3>. HIDE DEF rest, Named
    <3>7. IsFiniteSet(Named(rest)) /\ (\A z \in Named(rest) : g[z] \in Int) /\ g[h[p]] \in Int
      BY <3>5, <3>6, FS_Subset
    <3>8. SumOver(g, Named(s)) = SumOver(g, Named(rest)) + g[h[p]]
      BY <3>5, <3>7, SumAdd
    <3>9. SumOver(g, Named(rest)) \in Int
      BY <3>7, SumTyped
    <3>. QED
      BY <3>3, <3>4, <3>6, <3>8, <3>9
  <2>. QED
    BY <2>2, <2>3
<1>2. Named(S) \in SUBSET T
  OBVIOUS
<1>. HIDE DEF P
<1>3. P = SUBSET S
  <2>1. P \in SUBSET (SUBSET S)
    BY DEF P
  <2>. QED
    BY <1>1, <2>1, SubsetsByInduction
<1>4. SumOver(f, S) = SumOver(g, Named(S))
  BY <1>3 DEF P
<1>. HIDE DEF Named
<1>5. SumOver(g, Named(S)) <= SumOver(g, T)
  BY <1>2, SumOfPart
<1>. QED
  BY <1>4, <1>5
=============================================================================
