----------------------------- MODULE FiniteSums -----------------------------
(***************************************************************************)
(* Sums over finite sets, for the proofs about points, prices and scores:  *)
(* the operators are those of the community modules, which define a sum by *)
(* recursion over the subsets of its set.  Induction is stated of sets of  *)
(* numbers, and comes from the well-foundedness of < .                     *)
(***************************************************************************)
EXTENDS FiniteSetsExt, FiniteSetTheorems, TLAPS

-----------------------------------------------------------------------------
(* Induction.                                                              *)

Below == {ij \in Nat \X Nat : ij[1] < ij[2]}

\* Every set of natural numbers has a least one.
LEMMA LeastNumber ==
  ASSUME NEW T, T \subseteq Nat, T # {}
  PROVE  \E x \in T : \A y \in T : ~(y < x)
<1>1. IsWellFoundedOn(Below, Nat)
  BY NatLessThanWellFounded DEF OpToRel, Below
<1>2. \E x \in T : \A y \in T : <<y, x>> \notin Below
  BY <1>1, WFMin
<1> QED
  BY <1>2 DEF Below

\* A set of numbers that has 0 and with every number the next has all of them.
LEMMA AllNumbers ==
  ASSUME NEW T, 0 \in T, \A n \in Nat : n \in T => n + 1 \in T
  PROVE  Nat \subseteq T
<1> DEFINE U == Nat \ T
<1>1. ASSUME U # {} PROVE FALSE
  <2>1. U \subseteq Nat
    OBVIOUS
  <2> HIDE DEF U
  <2>2. PICK x \in U : \A y \in U : ~(y < x)
    BY <1>1, <2>1, LeastNumber
  <2> USE DEF U
  <2>3. x - 1 \in Nat /\ x - 1 \notin U
    BY <2>2
  <2> QED
    BY <2>2, <2>3
<1> QED
  BY <1>1

-----------------------------------------------------------------------------
(* The recursion.                                                          *)

Any(s) == CHOOSE x \in s : TRUE

\* g gives the sum of f over each subset of S.
Sums(f, S, g) ==
  g = [s \in SUBSET S |-> IF s = {} THEN 0 ELSE f[Any(s)] + g[s \ {Any(s)}]]

\* What it gives to a subset.
LEMMA SumsAt ==
  ASSUME NEW f, NEW S, NEW g, Sums(f, S, g), NEW s \in SUBSET S
  PROVE  g[s] = IF s = {} THEN 0 ELSE f[Any(s)] + g[s \ {Any(s)}]
BY DEF Sums

\* A set has the one that is taken from it.
LEMMA AnyOf ==
  ASSUME NEW s, s # {}
  PROVE  Any(s) \in s
BY DEF Any

\* There is such a function on the subsets of a finite set: one that is right for the
\* small ones gives one that is right for those of one element more.
LEMMA SumsExist ==
  ASSUME NEW f, NEW S, IsFiniteSet(S)
  PROVE  \E g : Sums(f, S, g)
<1> DEFINE Right(g, n) ==
             \A s \in SUBSET S : Cardinality(s) <= n =>
               g[s] = IF s = {} THEN 0 ELSE f[Any(s)] + g[s \ {Any(s)}]
           T == {n \in Nat : \E g : g = [s \in SUBSET S |-> g[s]] /\ Right(g, n)}
<1>1. \A s \in SUBSET S : IsFiniteSet(s) /\ Cardinality(s) \in Nat
                          /\ Cardinality(s) <= Cardinality(S)
  BY FS_Subset, FS_CardinalityType
<1>2. 0 \in T
  <2> DEFINE g == [s \in SUBSET S |-> 0]
  <2>1. \A s \in SUBSET S : Cardinality(s) <= 0 => s = {}
    BY <1>1, FS_EmptySet
  <2>2. g = [s \in SUBSET S |-> g[s]] /\ Right(g, 0)
    BY <2>1
  <2> QED
    BY <2>2
<1>3. ASSUME NEW n \in Nat, n \in T
      PROVE  n + 1 \in T
  <2>1. PICK g : g = [s \in SUBSET S |-> g[s]] /\ Right(g, n)
    BY <1>3
  <2> DEFINE h == [s \in SUBSET S |-> IF s = {} THEN 0 ELSE f[Any(s)] + g[s \ {Any(s)}]]
  <2>2. ASSUME NEW s \in SUBSET S, Cardinality(s) <= n
        PROVE  h[s] = g[s]
    BY <2>1, <2>2
  <2>3. ASSUME NEW s \in SUBSET S, s # {}, Cardinality(s) <= n + 1
        PROVE  s \ {Any(s)} \in SUBSET S /\ Cardinality(s \ {Any(s)}) <= n
    BY <1>1, <2>3, AnyOf, FS_RemoveElement
  <2>4. Right(h, n + 1)
    <3>1. ASSUME NEW s \in SUBSET S, s # {}, Cardinality(s) <= n + 1
          PROVE  h[s \ {Any(s)}] = g[s \ {Any(s)}]
      BY <2>2, <2>3, <3>1
    <3> QED
      BY <3>1
  <2>5. h = [s \in SUBSET S |-> h[s]]
    OBVIOUS
  <2> HIDE DEF h, Right
  <2>6. \E k : k = [s \in SUBSET S |-> k[s]] /\ Right(k, n + 1)
    BY <2>4, <2>5
  <2> QED
    BY <2>6
<1>4. Cardinality(S) \in T
  <2> HIDE DEF T
  <2>1. Nat \subseteq T
    BY <1>2, <1>3, AllNumbers
  <2> QED
    BY <1>1, <2>1
<1>5. PICK g : g = [s \in SUBSET S |-> g[s]] /\ Right(g, Cardinality(S))
  BY <1>4
<1>6. \A s \in SUBSET S : g[s] = IF s = {} THEN 0 ELSE f[Any(s)] + g[s \ {Any(s)}]
  BY <1>1, <1>5
<1> QED
  BY <1>5, <1>6 DEF Sums

\* The sums over the subsets of a finite set.
SumsOf(f, S) == CHOOSE g : Sums(f, S, g)

LEMMA SumsOfSums ==
  ASSUME NEW f, NEW S, IsFiniteSet(S)
  PROVE  Sums(f, S, SumsOf(f, S))
BY SumsExist DEF SumsOf

\* The operator of the community modules.
LEMMA SumIsThat ==
  ASSUME NEW f, NEW S
  PROVE  SumFunctionOnSet(f, S) = SumsOf(f, S)[S]
BY DEF SumFunctionOnSet, FoldFunctionOnSet, MapThenFoldSet, SumsOf, Sums, Any

\* Sums of natural numbers are natural numbers, and it is all the same which element is
\* taken first.
LEMMA SumsStep ==
  ASSUME NEW f, NEW S, IsFiniteSet(S), \A x \in S : f[x] \in Nat, NEW g, Sums(f, S, g)
  PROVE  \A s \in SUBSET S : /\ g[s] \in Nat
                            /\ \A x \in s : g[s] = f[x] + g[s \ {x}]
<1> DEFINE Good(s) == g[s] \in Nat /\ \A x \in s : g[s] = f[x] + g[s \ {x}]
           T == {n \in Nat : \A s \in SUBSET S : Cardinality(s) <= n => Good(s)}
<1>1. \A s \in SUBSET S : /\ IsFiniteSet(s) /\ Cardinality(s) \in Nat
                         /\ Cardinality(s) <= Cardinality(S)
  BY FS_Subset, FS_CardinalityType
<1>2. 0 \in T
  <2>1. \A s \in SUBSET S : Cardinality(s) <= 0 => s = {}
    BY <1>1, FS_EmptySet
  <2>2. g[{}] = 0
    BY SumsAt
  <2>3. Good({})
    BY <2>2
  <2> HIDE DEF Good
  <2> QED
    BY <2>1, <2>3
<1>3. ASSUME NEW n \in Nat, n \in T
      PROVE  n + 1 \in T
  <2>1. ASSUME NEW s \in SUBSET S, s # {}, Cardinality(s) <= n + 1, NEW x \in s
        PROVE  /\ s \ {x} \in SUBSET S /\ Cardinality(s \ {x}) <= n
               /\ Good(s \ {x})
    <3>1. s \ {x} \in SUBSET S /\ Cardinality(s \ {x}) <= n
      BY <1>1, <2>1, FS_RemoveElement
    <3> QED
      BY <1>3, <3>1
  <2>2. ASSUME NEW s \in SUBSET S, s # {}, Cardinality(s) <= n + 1
        PROVE  Good(s)
    <3> DEFINE y == Any(s)
    <3>1. y \in s /\ g[s] = f[y] + g[s \ {y}]
      BY <2>2, AnyOf, SumsAt
    <3>2. f[y] \in Nat /\ g[s \ {y}] \in Nat
      BY <2>1, <2>2, <3>1
    <3> HIDE DEF y
    <3>3. ASSUME NEW x \in s, x # y
          PROVE  g[s] = f[x] + g[s \ {x}]
      <4> DEFINE r == (s \ {x}) \ {y}
      <4>1. r = (s \ {y}) \ {x}
        OBVIOUS
      <4>2. g[s \ {y}] = f[x] + g[r]
        <5>1. Good(s \ {y}) /\ x \in s \ {y}
          BY <2>1, <2>2, <3>1, <3>3
        <5> QED
          BY <4>1, <5>1
      <4>3. g[s \ {x}] = f[y] + g[r]
        <5>1. Good(s \ {x}) /\ y \in s \ {x}
          BY <2>1, <2>2, <3>1, <3>3
        <5> QED
          BY <5>1
      <4>4. g[r] \in Nat
        <5>1. s \ {x} \in SUBSET S /\ Cardinality(s \ {x}) <= n
          BY <2>1, <2>2, <3>3
        <5>2. Cardinality(s \ {x}) <= n + 1
          BY <1>1, <5>1
        <5>3. y \in s \ {x} /\ s \ {x} # {}
          BY <3>1, <3>3
        <5>4. Good((s \ {x}) \ {y})
          BY <2>1, <5>1, <5>2, <5>3
        <5> QED
          BY <5>4
      <4>5. f[x] \in Nat
        BY <2>2, <3>3
      <4> HIDE DEF r
      <4> QED
        BY <3>1, <3>2, <4>2, <4>3, <4>4, <4>5
    <3>4. \A x \in s : g[s] = f[x] + g[s \ {x}]
      BY <3>1, <3>3
    <3>5. g[s] \in Nat
      BY <3>1, <3>2
    <3> QED
      BY <3>4, <3>5
  <2>3. g[{}] = 0
    BY SumsAt
  <2>4. ASSUME NEW s \in SUBSET S, Cardinality(s) <= n + 1
        PROVE  Good(s)
    <3>1. CASE s = {}
      BY <2>3, <3>1
    <3>2. CASE s # {}
      <4> HIDE DEF Good
      <4> QED
        BY <2>2, <2>4, <3>2
    <3> QED
      BY <3>1, <3>2
  <2> QED
    <3> HIDE DEF Good
    <3> QED
      BY <2>4
<1>4. Cardinality(S) \in T
  <2> HIDE DEF T
  <2>1. Nat \subseteq T
    BY <1>2, <1>3, AllNumbers
  <2> QED
    BY <1>1, <2>1
<1> QED
  BY <1>1, <1>4

\* A sum is one of the summands: what f gives elsewhere and which set the subset is taken
\* of do not matter.
LEMMA SumsAgree ==
  ASSUME NEW f, NEW S, NEW g, Sums(f, S, g), NEW h, NEW R, NEW k, Sums(h, R, k),
         NEW Q, IsFiniteSet(Q), Q \subseteq S, Q \subseteq R, \A x \in Q : f[x] = h[x]
  PROVE  g[Q] = k[Q]
<1> DEFINE T == {n \in Nat : \A s \in SUBSET Q : Cardinality(s) <= n => g[s] = k[s]}
<1>1. \A s \in SUBSET Q : /\ IsFiniteSet(s) /\ Cardinality(s) \in Nat
                         /\ Cardinality(s) <= Cardinality(Q)
  BY FS_Subset, FS_CardinalityType
<1>2. g[{}] = 0 /\ k[{}] = 0
  BY SumsAt
<1>6. \A s \in SUBSET S : g[s] = IF s = {} THEN 0 ELSE f[Any(s)] + g[s \ {Any(s)}]
  BY SumsAt
<1>7. \A s \in SUBSET R : k[s] = IF s = {} THEN 0 ELSE h[Any(s)] + k[s \ {Any(s)}]
  BY SumsAt
<1>3. 0 \in T
  <2>1. \A s \in SUBSET Q : Cardinality(s) <= 0 => s = {}
    BY <1>1, FS_EmptySet
  <2> QED
    BY <1>2, <2>1
<1>4. ASSUME NEW n \in Nat, n \in T
      PROVE  n + 1 \in T
  <2>1. ASSUME NEW s \in SUBSET Q, s # {}, Cardinality(s) <= n + 1
        PROVE  g[s] = k[s]
    <3> DEFINE y == Any(s)
    <3>1. y \in s
      BY <2>1, AnyOf
    <3>2. s \in SUBSET S /\ s \in SUBSET R
      OBVIOUS
    <3>3. g[s] = f[y] + g[s \ {y}]
      <4>1. g[s] = IF s = {} THEN 0 ELSE f[y] + g[s \ {y}]
        BY <1>6, <3>2
      <4> QED
        BY <2>1, <4>1
    <3>6. k[s] = h[y] + k[s \ {y}]
      <4>1. k[s] = IF s = {} THEN 0 ELSE h[y] + k[s \ {y}]
        BY <1>7, <3>2
      <4> QED
        BY <2>1, <4>1
    <3> HIDE DEF y
    <3>4. s \ {y} \in SUBSET Q /\ Cardinality(s \ {y}) <= n
      BY <1>1, <2>1, <3>1, FS_RemoveElement
    <3>5. g[s \ {y}] = k[s \ {y}] /\ f[y] = h[y]
      BY <1>4, <3>1, <3>4
    <3> QED
      BY <3>3, <3>5, <3>6
  <2>2. ASSUME NEW s \in SUBSET Q, Cardinality(s) <= n + 1
        PROVE  g[s] = k[s]
    <3>1. CASE s = {}
      BY <1>2, <3>1
    <3>2. CASE s # {}
      BY <2>1, <2>2, <3>2
    <3> QED
      BY <3>1, <3>2
  <2> QED
    BY <2>2
<1>5. Cardinality(Q) \in T
  <2> HIDE DEF T
  <2>1. Nat \subseteq T
    BY <1>3, <1>4, AllNumbers
  <2> QED
    BY <1>1, <2>1
<1> QED
  BY <1>1, <1>5

-----------------------------------------------------------------------------
(* Sums.                                                                   *)

\* Nothing has the sum 0.
LEMMA SumOfNothing ==
  ASSUME NEW f
  PROVE  SumFunctionOnSet(f, {}) = 0
<1>1. Sums(f, {}, SumsOf(f, {}))
  BY SumsOfSums, FS_EmptySet
<1> QED
  BY <1>1, SumsAt, SumIsThat

\* A sum of natural numbers is one.
LEMMA SumIsNat ==
  ASSUME NEW f, NEW S, IsFiniteSet(S), \A x \in S : f[x] \in Nat
  PROVE  SumFunctionOnSet(f, S) \in Nat
<1>1. Sums(f, S, SumsOf(f, S))
  BY SumsOfSums
<1>2. SumsOf(f, S)[S] \in Nat
  BY <1>1, SumsStep
<1> QED
  BY <1>2, SumIsThat

\* Equal summands have equal sums.
LEMMA SumOfEquals ==
  ASSUME NEW f, NEW h, NEW S, IsFiniteSet(S), \A x \in S : f[x] = h[x]
  PROVE  SumFunctionOnSet(f, S) = SumFunctionOnSet(h, S)
<1>1. Sums(f, S, SumsOf(f, S)) /\ Sums(h, S, SumsOf(h, S))
  BY SumsOfSums
<1>2. SumsOf(f, S)[S] = SumsOf(h, S)[S]
  BY <1>1, SumsAgree
<1> QED
  BY <1>2, SumIsThat

\* One more summand is added.
LEMMA SumOfOneMore ==
  ASSUME NEW f, NEW S, IsFiniteSet(S), NEW x, x \notin S, \A y \in S \cup {x} : f[y] \in Nat
  PROVE  SumFunctionOnSet(f, S \cup {x}) = SumFunctionOnSet(f, S) + f[x]
<1> DEFINE R == S \cup {x}
<1>1. IsFiniteSet(R)
  BY FS_AddElement
<1>2. Sums(f, S, SumsOf(f, S)) /\ Sums(f, R, SumsOf(f, R))
  BY <1>1, SumsOfSums
<1>3. R \ {x} = S /\ S \subseteq R /\ x \in R
  OBVIOUS
<1>4. SumsOf(f, R)[R] = f[x] + SumsOf(f, R)[R \ {x}]
  <2> HIDE DEF R
  <2> QED
    BY <1>1, <1>2, <1>3, SumsStep DEF R
<1>5. SumsOf(f, R)[S] = SumsOf(f, S)[S]
  <2> HIDE DEF R
  <2> QED
    BY <1>2, <1>3, SumsAgree
<1>6. SumsOf(f, S)[S] \in Nat
  BY <1>2, SumsStep
<1> HIDE DEF R
<1>7. f[x] \in Nat
  OBVIOUS
<1>8. SumsOf(f, R)[R \ {x}] = SumsOf(f, S)[S]
  BY <1>3, <1>5
<1>9. SumsOf(f, R)[R] = SumsOf(f, S)[S] + f[x]
  BY <1>4, <1>6, <1>7, <1>8
<1> QED
  BY <1>9, SumIsThat DEF R
=============================================================================
