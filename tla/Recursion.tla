----------------------------- MODULE Recursion -----------------------------
(***************************************************************************)
(* Facts about recursive definitions that the proofs of several modules    *)
(* cite: the sums MapThenSumSet of the community modules folds over finite *)
(* sets, and the minimal elements that stand in for an induction.  Every   *)
(* fact about a recursive function here is proved on a minimal             *)
(* counterexample, which needs no theorem with an operator parameter.      *)
(* Then ranks, the lists built on them, and fractions.                     *)
(***************************************************************************)
EXTENDS Integers, FiniteSetsExt, FiniteSetTheorems, WellFoundedInduction,
        Lists, Fractions, TLAPS

\* The element a fold takes from a set first.
Pick(S) == CHOOSE x \in S : TRUE

\* The folds of the model: sums of numbers, sums and products of fractions.
Neutral(o) == IF o = "sum" THEN 0 ELSE IF o = "fractions" THEN Whole1(0) ELSE Whole1(1)
Join(o, v, acc) == IF o = "sum" THEN v + acc ELSE IF o = "fractions" THEN Plus(acc, v) ELSE Times(acc, v)

\* One step of a fold, with g the folds of the smaller sets.
Folded(o, f, S, g) == IF S = {} THEN Neutral(o) ELSE Join(o, f[Pick(S)], g[S \ {Pick(S)}])

\* g holds the folds of all subsets of X.
Tabulates(o, f, X, g) == g = [S \in SUBSET X |-> Folded(o, f, S, g)]

\* The table computed for X, and its entry for X itself.
FoldTable(o, f, X) == CHOOSE g : Tabulates(o, f, X, g)
FoldOver(o, f, X) == FoldTable(o, f, X)[X]

-----------------------------------------------------------------------------

\* A family of finite sets has a member no other member is strictly inside.
LEMMA MinimalSet ==
  ASSUME NEW T, T # {}, \A S \in T : IsFiniteSet(S)
  PROVE  \E S \in T : \A R \in T : R \subseteq S => R = S
<1> DEFINE X == UNION T
<1>1. T \subseteq FiniteSubsetsOf(X)
  BY DEF FiniteSubsetsOf
<1>2. \E S \in T : \A R \in T : ~(<<R, S>> \in StrictSubsetOrdering(X))
  BY <1>1, FS_StrictSubsetOrderingWellFounded, WFMin
<1> QED
  BY <1>1, <1>2 DEF StrictSubsetOrdering, FiniteSubsetsOf

\* So has a set of natural numbers a smallest element.
LEMMA MinimalNat ==
  ASSUME NEW T, T # {}, T \subseteq Nat
  PROVE  \E n \in T : \A m \in T : n <= m
<1> DEFINE Below(n) == 0..n
           Family == {Below(n) : n \in T}
<1>1. \A S \in Family : IsFiniteSet(S)
  <2>1. ASSUME NEW n \in T PROVE IsFiniteSet(0..n)
    <3>1. n \in Int /\ 0 \in Int
      OBVIOUS
    <3> QED
      BY <3>1, FS_Interval
  <2> QED
    BY <2>1
<1>2. PICK S \in Family : \A R \in Family : R \subseteq S => R = S
  <2> HIDE DEF Family
  <2>1. Family # {}
    BY DEF Family
  <2> QED
    BY <1>1, <2>1, MinimalSet
<1>3. PICK n \in T : S = Below(n)
  OBVIOUS
<1>4. ASSUME NEW m \in T, m < n PROVE FALSE
  <2>1. Below(m) \subseteq S /\ Below(m) \in Family /\ n \in S /\ n \notin Below(m)
    BY <1>3, <1>4
  <2> QED
    BY <1>2, <2>1
<1> QED
  BY <1>3, <1>4

\* A finite set of integers that is not empty has a largest element.
LEMMA LargestInt ==
  ASSUME NEW S, IsFiniteSet(S), S # {}, S \subseteq Int
  PROVE  \E m \in S : \A x \in S : m >= x
<1> DEFINE T == {R \in SUBSET S : R # {} /\ ~ \E m \in R : \A x \in R : m >= x}
<1> SUFFICES ASSUME T # {} PROVE FALSE
  OBVIOUS
<1>1. \A R \in T : IsFiniteSet(R)
  BY FS_Subset
<1>2. PICK R \in T : \A Q \in T : Q \subseteq R => Q = R
  <2> HIDE DEF T
  <2> QED
    BY <1>1, MinimalSet
<1>3. PICK y \in R : TRUE
  OBVIOUS
<1> DEFINE Q == R \ {y}
<1>4. Q \in SUBSET S /\ Q \subseteq R /\ Q # R /\ y \in Int
  BY <1>3
<1>5. CASE Q = {}
  BY <1>3, <1>4, <1>5
<1>6. CASE Q # {}
  <2>1. PICK m \in Q : \A x \in Q : m >= x
    BY <1>2, <1>4, <1>6
  <2>2. m \in Int /\ m \in R /\ \A x \in R : x \in Q \/ x = y
    BY <1>4
  <2>3. CASE m >= y
    BY <2>1, <2>2, <2>3
  <2>4. CASE y > m
    <3>1. \A x \in R : y >= x
      BY <1>4, <2>1, <2>2, <2>4
    <3> QED
      BY <1>3, <3>1
  <2> QED
    BY <1>4, <2>2, <2>3, <2>4
<1> QED
  BY <1>5, <1>6

\* And a smallest.
LEMMA SmallestInt ==
  ASSUME NEW S, IsFiniteSet(S), S # {}, S \subseteq Int
  PROVE  \E m \in S : \A x \in S : m <= x
<1> DEFINE T == {R \in SUBSET S : R # {} /\ ~ \E m \in R : \A x \in R : m <= x}
<1> SUFFICES ASSUME T # {} PROVE FALSE
  OBVIOUS
<1>1. \A R \in T : IsFiniteSet(R)
  BY FS_Subset
<1>2. PICK R \in T : \A Q \in T : Q \subseteq R => Q = R
  <2> HIDE DEF T
  <2> QED
    BY <1>1, MinimalSet
<1>3. PICK y \in R : TRUE
  OBVIOUS
<1> DEFINE Q == R \ {y}
<1>4. Q \in SUBSET S /\ Q \subseteq R /\ Q # R /\ y \in Int
  BY <1>3
<1>5. CASE Q = {}
  BY <1>3, <1>4, <1>5
<1>6. CASE Q # {}
  <2>1. PICK m \in Q : \A x \in Q : m <= x
    BY <1>2, <1>4, <1>6
  <2>2. m \in Int /\ m \in R /\ \A x \in R : x \in Q \/ x = y
    BY <1>4
  <2>3. CASE m <= y
    BY <2>1, <2>2, <2>3
  <2>4. CASE y < m
    <3>1. \A x \in R : y <= x
      BY <1>4, <2>1, <2>2, <2>4
    <3> QED
      BY <1>3, <3>1
  <2> QED
    BY <1>4, <2>2, <2>3, <2>4
<1> QED
  BY <1>5, <1>6

\* The picked element belongs to the set.
LEMMA PickIn ==
  ASSUME NEW S, S # {}
  PROVE  Pick(S) \in S
BY DEF Pick

\* An entry of a table follows from the smaller ones.
LEMMA TableEntry ==
  ASSUME NEW o, NEW f, NEW X, NEW g, Tabulates(o, f, X, g), NEW S \in SUBSET X
  PROVE  g[S] = Folded(o, f, S, g)
BY DEF Tabulates

\* Two tables agree on every finite set both have.
LEMMA TablesAgree ==
  ASSUME NEW o, NEW f, NEW X, NEW Y, NEW g, NEW h,
         Tabulates(o, f, X, g), Tabulates(o, f, Y, h),
         NEW S, IsFiniteSet(S), S \subseteq X, S \subseteq Y
  PROVE  g[S] = h[S]
<1> DEFINE T == {R \in SUBSET S : g[R] # h[R]}
<1> SUFFICES ASSUME T # {} PROVE FALSE
  OBVIOUS
<1>1. \A R \in T : IsFiniteSet(R)
  BY FS_Subset
<1>2. PICK R \in T : \A Q \in T : Q \subseteq R => Q = R
  <2> HIDE DEF T
  <2> QED
    BY <1>1, MinimalSet
<1>3. g[R] = Folded(o, f, R, g) /\ h[R] = Folded(o, f, R, h)
  BY TableEntry
<1>4. R # {}
  BY <1>3 DEF Folded
<1> DEFINE Q == R \ {Pick(R)}
<1>5. Q \subseteq R /\ Q # R
  BY <1>4, PickIn
<1>6. g[Q] = h[Q]
  BY <1>2, <1>5
<1> QED
  BY <1>3, <1>6 DEF Folded

\* Every finite set has its table.
LEMMA TableExists ==
  ASSUME NEW o, NEW f, NEW X, IsFiniteSet(X)
  PROVE  \E g : Tabulates(o, f, X, g)
<1> DEFINE T == {S \in SUBSET X : ~ \E g : Tabulates(o, f, S, g)}
<1> SUFFICES ASSUME T # {} PROVE FALSE
  OBVIOUS
<1>1. \A S \in T : IsFiniteSet(S)
  BY FS_Subset
<1>2. PICK S \in T : \A R \in T : R \subseteq S => R = S
  <2> HIDE DEF T
  <2> QED
    BY <1>1, MinimalSet
<1>3. \A R \in SUBSET S : R # S => Tabulates(o, f, R, FoldTable(o, f, R))
  BY <1>2 DEF FoldTable
<1> DEFINE Entry(R) ==
             IF R = {} THEN Neutral(o)
             ELSE Join(o, f[Pick(R)], FoldTable(o, f, R \ {Pick(R)})[R \ {Pick(R)}])
           g == [R \in SUBSET S |-> Entry(R)]
<1>4. ASSUME NEW R \in SUBSET S, R # S
      PROVE  g[R] = FoldTable(o, f, R)[R]
  <2>1. Tabulates(o, f, R, FoldTable(o, f, R))
    BY <1>3, <1>4
  <2>2. FoldTable(o, f, R)[R] = Folded(o, f, R, FoldTable(o, f, R))
    BY <2>1, TableEntry
  <2>3. CASE R = {}
    BY <2>2, <2>3 DEF Folded
  <2>4. CASE R # {}
    <3> DEFINE Q == R \ {Pick(R)}
    <3>1. Q \in SUBSET S /\ Q # S /\ Q \subseteq R /\ IsFiniteSet(Q)
      BY <2>4, PickIn, FS_Subset, <1>1
    <3>2. FoldTable(o, f, Q)[Q] = FoldTable(o, f, R)[Q]
      <4>1. Tabulates(o, f, Q, FoldTable(o, f, Q))
        BY <1>3, <3>1
      <4> HIDE DEF Q
      <4> QED
        BY <2>1, <4>1, <3>1, TablesAgree
    <3> QED
      BY <2>2, <2>4, <3>2 DEF Folded
  <2> QED
    BY <2>3, <2>4
<1>5. ASSUME NEW R \in SUBSET S
      PROVE  g[R] = Folded(o, f, R, g)
  <2>1. CASE R = {}
    BY <2>1 DEF Folded
  <2>2. CASE R # {}
    <3> DEFINE Q == R \ {Pick(R)}
    <3>1. Q \in SUBSET S /\ Q # S
      BY <2>2, PickIn
    <3>2. g[Q] = FoldTable(o, f, Q)[Q]
      BY <1>4, <3>1
    <3> QED
      BY <2>2, <3>2 DEF Folded
  <2> QED
    BY <2>1, <2>2
<1>6. Tabulates(o, f, S, g)
  BY <1>5 DEF Tabulates
<1> QED
  BY <1>2, <1>6

\* A fold over nothing is where it starts.
LEMMA FoldEmpty ==
  ASSUME NEW o, NEW f
  PROVE  FoldOver(o, f, {}) = Neutral(o)
<1>1. Tabulates(o, f, {}, FoldTable(o, f, {}))
  BY TableExists, FS_EmptySet DEF FoldTable
<1> QED
  BY <1>1, TableEntry DEF Folded, FoldOver

\* A fold joins its picked element and the fold of the rest.
LEMMA FoldPicked ==
  ASSUME NEW o, NEW f, NEW S, IsFiniteSet(S), S # {}
  PROVE  FoldOver(o, f, S) = Join(o, f[Pick(S)], FoldOver(o, f, S \ {Pick(S)}))
<1> DEFINE R == S \ {Pick(S)}
<1>1. IsFiniteSet(R) /\ R \subseteq S
  BY FS_Subset
<1>2. Tabulates(o, f, S, FoldTable(o, f, S)) /\ Tabulates(o, f, R, FoldTable(o, f, R))
  BY <1>1, TableExists DEF FoldTable
<1>3. FoldTable(o, f, S)[R] = FoldTable(o, f, R)[R]
  <2> HIDE DEF R
  <2> QED
    BY <1>1, <1>2, TablesAgree
<1>4. FoldTable(o, f, S)[S] = Folded(o, f, S, FoldTable(o, f, S))
  BY <1>2, TableEntry
<1> QED
  BY <1>3, <1>4 DEF Folded, FoldOver

\* Any table for X has the fold of X as its entry.
LEMMA FoldIsEntry ==
  ASSUME NEW o, NEW f, NEW X, IsFiniteSet(X), NEW g, Tabulates(o, f, X, g)
  PROVE  g[X] = FoldOver(o, f, X)
<1>1. Tabulates(o, f, X, FoldTable(o, f, X))
  BY TableExists DEF FoldTable
<1> QED
  BY <1>1, TablesAgree DEF FoldOver

-----------------------------------------------------------------------------
(* What the proofs about the model cite *)

\* What the community module tabulates for a sum.
SumRule(f, S, g) == IF S = {} THEN 0 ELSE f[Pick(S)] + g[S \ {Pick(S)}]
IsSumTable(f, X, g) == g = [S \in SUBSET X |-> SumRule(f, S, g)]

\* Its sum is the fold above.
LEMMA SumIsFold ==
  ASSUME NEW f, NEW X, IsFiniteSet(X)
  PROVE  SumOver(f, X) = FoldOver("sum", f, X)
<1>1. SumOver(f, X) = (CHOOSE g : IsSumTable(f, X, g))[X]
  BY DEF SumOver, MapThenSumSet, MapThenFoldSet, IsSumTable, SumRule, Pick
<1>2. ASSUME NEW g PROVE IsSumTable(f, X, g) <=> Tabulates("sum", f, X, g)
  <2>1. \A S : SumRule(f, S, g) = Folded("sum", f, S, g)
    BY DEF SumRule, Folded, Neutral, Join
  <2> QED
    BY <2>1 DEF IsSumTable, Tabulates
<1>3. \E g : IsSumTable(f, X, g)
  BY <1>2, TableExists
<1>4. IsSumTable(f, X, CHOOSE g : IsSumTable(f, X, g))
  BY <1>3
<1> QED
  BY <1>1, <1>2, <1>4, FoldIsEntry

\* A sum over nothing is 0.
LEMMA SumEmpty ==
  ASSUME NEW f
  PROVE  SumOver(f, {}) = 0
BY FS_EmptySet, SumIsFold, FoldEmpty DEF Neutral

\* A sum is that of its picked element and the rest.
LEMMA SumPicked ==
  ASSUME NEW f, NEW S, IsFiniteSet(S), S # {}
  PROVE  SumOver(f, S) = f[Pick(S)] + SumOver(f, S \ {Pick(S)})
<1>1. IsFiniteSet(S \ {Pick(S)})
  BY FS_Subset
<1>2. FoldOver("sum", f, S) = f[Pick(S)] + FoldOver("sum", f, S \ {Pick(S)})
  BY FoldPicked DEF Join
<1> QED
  BY <1>1, <1>2, SumIsFold

\* A sum of integers is one.
LEMMA SumInt ==
  ASSUME NEW f, NEW S, IsFiniteSet(S), \A x \in S : f[x] \in Int
  PROVE  SumOver(f, S) \in Int
<1> DEFINE T == {R \in SUBSET S : SumOver(f, R) \notin Int}
<1> SUFFICES ASSUME T # {} PROVE FALSE
  OBVIOUS
<1>1. \A R \in T : IsFiniteSet(R)
  BY FS_Subset
<1>2. PICK R \in T : \A Q \in T : Q \subseteq R => Q = R
  <2> HIDE DEF T
  <2> QED
    BY <1>1, MinimalSet
<1>3. R # {}
  BY SumEmpty
<1> DEFINE Q == R \ {Pick(R)}
<1>4. Q \subseteq R /\ Q # R /\ Pick(R) \in S
  BY <1>3, PickIn
<1>5. SumOver(f, Q) \in Int
  BY <1>2, <1>4
<1>6. SumOver(f, R) = f[Pick(R)] + SumOver(f, Q)
  BY <1>1, <1>3, SumPicked
<1> QED
  BY <1>4, <1>5, <1>6

\* Two functions that agree on a set have the same sum over it.
LEMMA SumSame ==
  ASSUME NEW f, NEW h, NEW S, IsFiniteSet(S), \A x \in S : f[x] = h[x]
  PROVE  SumOver(f, S) = SumOver(h, S)
<1> DEFINE T == {R \in SUBSET S : SumOver(f, R) # SumOver(h, R)}
<1> SUFFICES ASSUME T # {} PROVE FALSE
  OBVIOUS
<1>1. \A R \in T : IsFiniteSet(R)
  BY FS_Subset
<1>2. PICK R \in T : \A Q \in T : Q \subseteq R => Q = R
  <2> HIDE DEF T
  <2> QED
    BY <1>1, MinimalSet
<1>3. R # {}
  BY SumEmpty
<1> DEFINE Q == R \ {Pick(R)}
<1>4. Q \subseteq R /\ Q # R /\ Pick(R) \in S
  BY <1>3, PickIn
<1>5. SumOver(f, Q) = SumOver(h, Q)
  BY <1>2, <1>4
<1>6. /\ SumOver(f, R) = f[Pick(R)] + SumOver(f, Q)
      /\ SumOver(h, R) = h[Pick(R)] + SumOver(h, Q)
  BY <1>1, <1>3, SumPicked
<1> QED
  BY <1>4, <1>5, <1>6

\* Any element may be taken first.
LEMMA SumTakes ==
  ASSUME NEW f, NEW S, IsFiniteSet(S), \A x \in S : f[x] \in Int,
         NEW a \in S
  PROVE  SumOver(f, S) = f[a] + SumOver(f, S \ {a})
<1> DEFINE T == {R \in SUBSET S :
                   \E b \in R : SumOver(f, R) # f[b] + SumOver(f, R \ {b})}
<1> SUFFICES ASSUME T # {} PROVE FALSE
  BY Zenon
<1>1. \A R \in T : IsFiniteSet(R)
  BY FS_Subset
<1>2. PICK R \in T : \A Q \in T : Q \subseteq R => Q = R
  <2> HIDE DEF T
  <2> QED
    BY <1>1, MinimalSet
<1>3. PICK b \in R : SumOver(f, R) # f[b] + SumOver(f, R \ {b})
  OBVIOUS
<1> DEFINE x == Pick(R)
           Q == R \ {x, b}
<1>4. x \in R /\ SumOver(f, R) = f[x] + SumOver(f, R \ {x})
  BY <1>1, <1>3, PickIn, SumPicked
<1>5. x # b
  BY <1>3, <1>4
<1>6. SumOver(f, R \ {x}) = f[b] + SumOver(f, Q)
  <2>1. R \ {x} \notin T /\ b \in R \ {x} /\ (R \ {x}) \ {b} = Q
    BY <1>2, <1>4, <1>5
  <2> QED
    BY <2>1
<1>7. SumOver(f, R \ {b}) = f[x] + SumOver(f, Q)
  <2>1. R \ {b} \notin T /\ x \in R \ {b} /\ (R \ {b}) \ {x} = Q
    BY <1>2, <1>4, <1>5
  <2> QED
    BY <2>1
<1>8. f[x] \in Int /\ f[b] \in Int /\ SumOver(f, Q) \in Int
  <2>1. IsFiniteSet(Q) /\ Q \subseteq S
    BY FS_Subset
  <2> HIDE DEF Q
  <2>2. SumOver(f, Q) \in Int
    BY <2>1, SumInt
  <2> QED
    BY <2>2, <1>4
<1> HIDE DEF x, Q
<1> QED
  BY <1>3, <1>4, <1>6, <1>7, <1>8

-----------------------------------------------------------------------------
(* Sums taken apart *)

\* A sum of nothing but zeros is 0.
LEMMA SumZero ==
  ASSUME NEW f, NEW S, IsFiniteSet(S), \A x \in S : f[x] = 0
  PROVE  SumOver(f, S) = 0
<1> DEFINE T == {R \in SUBSET S : SumOver(f, R) # 0}
<1> SUFFICES ASSUME T # {} PROVE FALSE
  OBVIOUS
<1>1. \A R \in T : IsFiniteSet(R)
  BY FS_Subset
<1>2. PICK R \in T : \A Q \in T : Q \subseteq R => Q = R
  <2> HIDE DEF T
  <2> QED
    BY <1>1, MinimalSet
<1>3. R # {}
  BY SumEmpty
<1> DEFINE Q == R \ {Pick(R)}
<1>4. Q \subseteq R /\ Q # R /\ Pick(R) \in S
  BY <1>3, PickIn
<1>5. SumOver(f, Q) = 0
  BY <1>2, <1>4
<1>6. SumOver(f, R) = f[Pick(R)] + SumOver(f, Q)
  BY <1>1, <1>3, SumPicked
<1> QED
  BY <1>4, <1>5, <1>6

\* A set may be summed by the classes of a function: the sum of each class is
\* summed over the classes, those without a member too.
LEMMA SumFibres ==
  ASSUME NEW f, NEW S, IsFiniteSet(S), \A x \in S : f[x] \in Int,
         NEW h, NEW K, IsFiniteSet(K), \A x \in S : h[x] \in K
  PROVE  SumOver(f, S) =
           SumOver([k \in K |-> SumOver(f, {x \in S : h[x] = k})], K)
<1> DEFINE Class(R, k) == {x \in R : h[x] = k}
           Sums(R) == [k \in K |-> SumOver(f, Class(R, k))]
           T == {R \in SUBSET S : SumOver(f, R) # SumOver(Sums(R), K)}
<1> SUFFICES ASSUME T # {} PROVE FALSE
  BY Zenon
<1>1. \A R \in SUBSET S : IsFiniteSet(R)
  BY FS_Subset
<1>2. PICK R \in T : \A Q \in T : Q \subseteq R => Q = R
  <2>1. \A R \in T : IsFiniteSet(R)
    BY <1>1
  <2> HIDE DEF T
  <2> QED
    BY <2>1, MinimalSet
<1>3. R # {}
  <2>1. ASSUME R = {} PROVE FALSE
    <3>1. \A k \in K : Sums(R)[k] = 0
      <4>1. \A k \in K : Class(R, k) = {}
        BY <2>1
      <4> QED
        BY <4>1, SumEmpty
    <3>2. SumOver(Sums(R), K) = 0
      <4> HIDE DEF Sums
      <4> QED
        BY <3>1, SumZero
    <3> QED
      BY <2>1, <3>2, SumEmpty
  <2> QED
    BY <2>1
<1>4. PICK a \in R : TRUE
  BY <1>3
<1> DEFINE Q == R \ {a}
           b == h[a]
<1>5. SumOver(f, Q) = SumOver(Sums(Q), K)
  <2>1. Q \in SUBSET S /\ Q \subseteq R /\ Q # R
    BY <1>4
  <2> HIDE DEF Q
  <2> QED
    BY <1>2, <2>1
<1>6. /\ a \in S /\ b \in K /\ f[a] \in Int
      /\ SumOver(f, R) = f[a] + SumOver(f, Q)
  BY <1>1, <1>4, SumTakes
<1>7. Sums(R)[b] = f[a] + Sums(Q)[b]
  <2>1. /\ a \in Class(R, b) /\ Class(R, b) \ {a} = Class(Q, b)
        /\ Class(R, b) \in SUBSET S
    BY <1>4
  <2>2. SumOver(f, Class(R, b)) = f[a] + SumOver(f, Class(R, b) \ {a})
    <3> HIDE DEF Class
    <3> QED
      BY <1>1, <2>1, SumTakes
  <2> QED
    BY <1>6, <2>1, <2>2
<1>8. ASSUME NEW k \in K, k # b PROVE Sums(R)[k] = Sums(Q)[k]
  <2>1. Class(R, k) = Class(Q, k)
    BY <1>8
  <2> QED
    BY <2>1
<1>9. \A k \in K : Sums(R)[k] \in Int /\ Sums(Q)[k] \in Int
  <2>1. ASSUME NEW P \in {R, Q}, NEW k \in K PROVE Sums(P)[k] \in Int
    <3>1. Class(P, k) \in SUBSET S
      OBVIOUS
    <3>2. SumOver(f, Class(P, k)) \in Int
      <4> HIDE DEF Class
      <4> QED
        BY <1>1, <3>1, SumInt
    <3> QED
      BY <3>2
  <2> QED
    BY <2>1
<1> HIDE DEF Sums, Q, b
<1>10. /\ SumOver(Sums(R), K) = Sums(R)[b] + SumOver(Sums(R), K \ {b})
       /\ SumOver(Sums(Q), K) = Sums(Q)[b] + SumOver(Sums(Q), K \ {b})
  BY <1>6, <1>9, SumTakes
<1>11. IsFiniteSet(K \ {b})
  BY FS_Subset
<1>12. SumOver(Sums(R), K \ {b}) = SumOver(Sums(Q), K \ {b})
  BY <1>8, <1>11, SumSame
<1>13. SumOver(Sums(Q), K \ {b}) \in Int
  BY <1>9, <1>11, SumInt
<1>14. SumOver(f, R) = SumOver(Sums(R), K)
  BY <1>5, <1>6, <1>7, <1>9, <1>10, <1>12, <1>13
<1> QED
  BY <1>14

\* A part and the rest add up to the whole.
LEMMA SumSplit ==
  ASSUME NEW f, NEW S, IsFiniteSet(S), \A x \in S : f[x] \in Int, NEW A \in SUBSET S
  PROVE  SumOver(f, S) = SumOver(f, A) + SumOver(f, S \ A)
<1> DEFINE T == {R \in SUBSET S :
                   SumOver(f, R) # SumOver(f, R \cap A) + SumOver(f, R \ A)}
<1>1. \A R \in SUBSET S : IsFiniteSet(R)
  BY FS_Subset
<1>2. ASSUME T # {} PROVE FALSE
  <2>1. PICK R \in T : \A Q \in T : Q \subseteq R => Q = R
    <3>1. \A R \in T : IsFiniteSet(R)
      BY <1>1
    <3> HIDE DEF T
    <3> QED
      BY <1>2, <3>1, MinimalSet
  <2>1a. R \in SUBSET S /\ SumOver(f, R) # SumOver(f, R \cap A) + SumOver(f, R \ A)
    BY <2>1, Zenon
  <2>2. R # {}
    <3>1. ASSUME R = {} PROVE FALSE
      <4>1. R \cap A = {} /\ R \ A = {}
        BY <3>1
      <4>2. SumOver(f, R) = 0 /\ SumOver(f, R \cap A) = 0 /\ SumOver(f, R \ A) = 0
        BY <3>1, <4>1, SumEmpty, Zenon
      <4> QED
        BY <2>1a, <4>2
    <3> QED
      BY <3>1
  <2>3. PICK a \in R : TRUE
    BY <2>2
  <2> DEFINE Q == R \ {a}
  <2>4. SumOver(f, Q) = SumOver(f, Q \cap A) + SumOver(f, Q \ A)
    <3>1. Q \in SUBSET S /\ Q \subseteq R /\ Q # R
      BY <2>3
    <3> HIDE DEF Q
    <3> QED
      BY <2>1, <3>1
  <2>5. f[a] \in Int /\ SumOver(f, R) = f[a] + SumOver(f, Q)
    BY <1>1, <2>3, SumTakes
  <2>6. \A P \in SUBSET S : SumOver(f, P) \in Int
    BY <1>1, SumInt
  <2>7. SumOver(f, Q \cap A) \in Int /\ SumOver(f, Q \ A) \in Int
    BY <2>6
  <2>8. CASE a \in A
    <3>1. a \in R \cap A /\ (R \cap A) \ {a} = Q \cap A /\ R \ A = Q \ A
      BY <2>3, <2>8
    <3>2. SumOver(f, R \cap A) = f[a] + SumOver(f, (R \cap A) \ {a})
      BY <1>1, <3>1, SumTakes
    <3>3. /\ SumOver(f, R \cap A) = f[a] + SumOver(f, Q \cap A)
          /\ SumOver(f, R \ A) = SumOver(f, Q \ A)
      BY <3>1, <3>2, Zenon
    <3> QED
      BY <2>1a, <2>4, <2>5, <2>7, <3>3
  <2>9. CASE a \notin A
    <3>1. a \in R \ A /\ (R \ A) \ {a} = Q \ A /\ R \cap A = Q \cap A
      BY <2>3, <2>9
    <3>2. SumOver(f, R \ A) = f[a] + SumOver(f, (R \ A) \ {a})
      BY <1>1, <3>1, SumTakes
    <3>3. /\ SumOver(f, R \cap A) = SumOver(f, Q \cap A)
          /\ SumOver(f, R \ A) = f[a] + SumOver(f, Q \ A)
      BY <3>1, <3>2, Zenon
    <3> QED
      BY <2>1a, <2>4, <2>5, <2>7, <3>3
  <2> QED
    BY <2>8, <2>9
<1>3. S \cap A = A /\ SumOver(f, S) = SumOver(f, S \cap A) + SumOver(f, S \ A)
  BY <1>2
<1> QED
  BY <1>3

\* A set has as many elements as the sum of one for each.
LEMMA CountIsSum ==
  ASSUME NEW f, NEW S, IsFiniteSet(S), \A x \in S : f[x] = 1
  PROVE  SumOver(f, S) = Cardinality(S)
<1> DEFINE T == {R \in SUBSET S : SumOver(f, R) # Cardinality(R)}
<1> SUFFICES ASSUME T # {} PROVE FALSE
  OBVIOUS
<1>1. \A R \in SUBSET S : IsFiniteSet(R)
  BY FS_Subset
<1>2. PICK R \in T : \A Q \in T : Q \subseteq R => Q = R
  <2>1. \A R \in T : IsFiniteSet(R)
    BY <1>1
  <2> HIDE DEF T
  <2> QED
    BY <2>1, MinimalSet
<1>3. R # {}
  BY SumEmpty, FS_EmptySet
<1> DEFINE Q == R \ {Pick(R)}
<1>4. Q \subseteq R /\ Q # R /\ Pick(R) \in R
  BY <1>3, PickIn
<1>5. SumOver(f, Q) = Cardinality(Q)
  BY <1>2, <1>4
<1>6. SumOver(f, R) = f[Pick(R)] + SumOver(f, Q)
  BY <1>1, <1>3, SumPicked
<1>7. Cardinality(Q) = Cardinality(R) - 1 /\ Cardinality(R) \in Nat
  BY <1>1, <1>4, FS_RemoveElement, FS_CardinalityType
<1>8. f[Pick(R)] = 1
  BY <1>4
<1> QED
  BY <1>5, <1>6, <1>7, <1>8

\* The sizes of the classes of a function add up to the size of the set.
LEMMA CountFibres ==
  ASSUME NEW S, IsFiniteSet(S), NEW h, NEW K, IsFiniteSet(K), \A x \in S : h[x] \in K
  PROVE  Cardinality(S) =
           SumOver([k \in K |-> Cardinality({x \in S : h[x] = k})], K)
<1> DEFINE one == [x \in S |-> 1]
           Class(k) == {x \in S : h[x] = k}
<1>1. \A x \in S : one[x] = 1
  OBVIOUS
<1> HIDE DEF one
<1>2. Cardinality(S) = SumOver(one, S)
  BY <1>1, CountIsSum
<1>3. SumOver(one, S) = SumOver([k \in K |-> SumOver(one, Class(k))], K)
  BY <1>1, SumFibres
<1>4. ASSUME NEW k \in K PROVE SumOver(one, Class(k)) = Cardinality(Class(k))
  <2>1. IsFiniteSet(Class(k)) /\ \A x \in Class(k) : one[x] = 1
    BY <1>1, FS_Subset
  <2> QED
    BY <2>1, CountIsSum
<1>5. [k \in K |-> SumOver(one, Class(k))] = [k \in K |-> Cardinality(Class(k))]
  BY <1>4
<1> QED
  BY <1>2, <1>3, <1>5

-----------------------------------------------------------------------------
(***************************************************************************)
(* Ranks.  In a strict order that compares any two members of a finite set *)
(* the members are numbered by how many stand before them: no two have as  *)
(* many, and every number below the size is taken.  The list of those      *)
(* kept, the places of the quiz and the ranking of the automatic pick are  *)
(* of this kind.                                                           *)
(***************************************************************************)

\* R orders S strictly, and leaves no two members equal.
Orders(R, S) ==
  /\ \A i \in S : <<i, i>> \notin R
  /\ \A i, j, k \in S : <<i, j>> \in R /\ <<j, k>> \in R => <<i, k>> \in R
  /\ \A i, j \in S : i = j \/ <<i, j>> \in R \/ <<j, i>> \in R

\* How many of S stand before i.
RankIn(R, S, i) == Cardinality({j \in S : <<j, i>> \in R})

\* Who stands later has more before it.
LEMMA LaterHasMore ==
  ASSUME NEW S, IsFiniteSet(S), NEW R, Orders(R, S), NEW i \in S, NEW k \in S, <<i, k>> \in R
  PROVE  RankIn(R, S, i) \in Nat /\ RankIn(R, S, k) \in Nat /\ RankIn(R, S, i) < RankIn(R, S, k)
<1> DEFINE B(x) == {j \in S : <<j, x>> \in R}
<1>1. IsFiniteSet(B(i)) /\ IsFiniteSet(B(k))
  BY FS_Subset
<1>2. B(i) \cup {i} \subseteq B(k) /\ i \notin B(i)
  BY DEF Orders
<1>3. Cardinality(B(i) \cup {i}) <= Cardinality(B(k))
  BY <1>1, <1>2, FS_Subset
<1>4. Cardinality(B(i) \cup {i}) = Cardinality(B(i)) + 1
  BY <1>1, <1>2, FS_AddElement
<1>5. Cardinality(B(i)) \in Nat /\ Cardinality(B(k)) \in Nat
  BY <1>1, FS_CardinalityType
<1> QED
  BY <1>3, <1>4, <1>5 DEF RankIn

\* Members of equal rank are one.
LEMMA RanksDiffer ==
  ASSUME NEW S, IsFiniteSet(S), NEW R, Orders(R, S), NEW i \in S, NEW k \in S,
         RankIn(R, S, i) = RankIn(R, S, k)
  PROVE  i = k
<1> SUFFICES ASSUME i # k PROVE FALSE
  OBVIOUS
<1>1. <<i, k>> \in R \/ <<k, i>> \in R
  BY DEF Orders
<1>2. ASSUME NEW x \in S, NEW y \in S, <<x, y>> \in R, RankIn(R, S, x) = RankIn(R, S, y)
      PROVE  FALSE
  BY <1>2, LaterHasMore
<1> QED
  BY <1>1, <1>2

\* Ranks are the numbers below the size of the set.
LEMMA RankIsSmall ==
  ASSUME NEW S, IsFiniteSet(S), NEW R, Orders(R, S), NEW i \in S
  PROVE  Cardinality(S) \in Nat /\ RankIn(R, S, i) \in 0 .. Cardinality(S) - 1
<1> DEFINE B == {j \in S : <<j, i>> \in R}
<1>1. B \subseteq S \ {i}
  BY DEF Orders
<1>2. IsFiniteSet(S \ {i}) /\ Cardinality(S \ {i}) = Cardinality(S) - 1
  BY FS_RemoveElement
<1>3. IsFiniteSet(B) /\ Cardinality(B) <= Cardinality(S \ {i})
  BY <1>1, <1>2, FS_Subset
<1>4. Cardinality(B) \in Nat /\ Cardinality(S) \in Nat
  BY <1>3, FS_CardinalityType
<1> QED
  BY <1>2, <1>3, <1>4 DEF RankIn

\* Every one of them is somebody's.
LEMMA RanksOnto ==
  ASSUME NEW S, IsFiniteSet(S), NEW R, Orders(R, S), NEW n \in 1 .. Cardinality(S)
  PROVE  \E i \in S : RankIn(R, S, i) = n - 1
<1> DEFINE T == 0 .. Cardinality(S) - 1
           f == [i \in S |-> RankIn(R, S, i)]
<1>1. Cardinality(S) \in Nat
  BY FS_CardinalityType
<1>2. IsFiniteSet(T) /\ Cardinality(T) = Cardinality(S)
  <2>1. 0 \in Int /\ Cardinality(S) - 1 \in Int
    BY <1>1
  <2> QED
    BY <1>1, <2>1, FS_Interval
<1>3. f \in [S -> T]
  <2> HIDE DEF T
  <2>1. \A i \in S : RankIn(R, S, i) \in T
    BY RankIsSmall DEF T
  <2> QED
    BY <2>1
<1>4. \A i, k \in S : f[i] = f[k] => i = k
  BY RanksDiffer
<1>5. f \in Injection(S, T)
  <2> HIDE DEF T
  <2> QED
    BY <1>3, <1>4 DEF Injection, IsInjective
<1>6. f \in Surjection(S, T)
  <2> HIDE DEF T, f
  <2> QED
    BY <1>2, <1>5, FS_Injection
<1>7. n - 1 \in T
  BY <1>1
<1>8. \E i \in S : f[i] = n - 1
  <2> HIDE DEF T, f
  <2> QED
    BY <1>6, <1>7 DEF Surjection
<1> QED
  BY <1>8

-----------------------------------------------------------------------------
(***************************************************************************)
(* The list of those kept: it has exactly the members of the list that are *)
(* in the set, and no two equal where the list has none.                   *)
(***************************************************************************)

\* The order of the integers in S.
Smaller(S) == {p \in S \X S : p[1] < p[2]}

\* It orders S, and a rank in it is the number of smaller members.
LEMMA LessOrders ==
  ASSUME NEW S, S \subseteq Int
  PROVE  /\ Orders(Smaller(S), S)
         /\ \A i \in S : RankIn(Smaller(S), S, i) = Cardinality({j \in S : j < i})
<1>1. \A i, j \in S : <<i, j>> \in Smaller(S) <=> i < j
  BY DEF Smaller
<1>2. Orders(Smaller(S), S)
  <2>1. \A i \in S : i \in Int
    OBVIOUS
  <2> QED
    BY <1>1, <2>1 DEF Orders
<1>3. ASSUME NEW i \in S PROVE RankIn(Smaller(S), S, i) = Cardinality({j \in S : j < i})
  <2>1. {j \in S : <<j, i>> \in Smaller(S)} = {j \in S : j < i}
    BY <1>1
  <2> QED
    BY <2>1 DEF RankIn
<1> QED
  BY <1>2, <1>3

\* There is an n-th member, and it has n - 1 smaller ones.
LEMMA NthIs ==
  ASSUME NEW S, IsFiniteSet(S), S \subseteq Int, NEW n \in 1 .. Cardinality(S)
  PROVE  Nth(S, n) \in S /\ RankIn(Smaller(S), S, Nth(S, n)) = n - 1
<1>0. Orders(Smaller(S), S)
  BY LessOrders
<1>1. PICK i \in S : RankIn(Smaller(S), S, i) = n - 1
  BY <1>0, RanksOnto
<1>2. Cardinality({j \in S : j < i}) = n - 1
  BY <1>1, LessOrders
<1>3. Nth(S, n) \in S /\ Cardinality({j \in S : j < Nth(S, n)}) = n - 1
  BY <1>2 DEF Nth
<1> QED
  BY <1>3, LessOrders

\* Every member is the n-th for some n.
LEMMA NthCovers ==
  ASSUME NEW S, IsFiniteSet(S), S \subseteq Int, NEW i \in S
  PROVE  \E n \in 1 .. Cardinality(S) : Nth(S, n) = i
<1> DEFINE r == RankIn(Smaller(S), S, i)
<1>1. Cardinality(S) \in Nat /\ r \in 0 .. Cardinality(S) - 1
  BY LessOrders, RankIsSmall
<1>2. r + 1 \in 1 .. Cardinality(S) /\ (r + 1) - 1 = r
  BY <1>1
<1>3. Nth(S, r + 1) \in S /\ RankIn(Smaller(S), S, Nth(S, r + 1)) = r
  <2> HIDE DEF r
  <2> QED
    BY <1>2, NthIs
<1>4. Nth(S, r + 1) = i
  <2> DEFINE k == Nth(S, r + 1)
  <2>1. k \in S /\ RankIn(Smaller(S), S, k) = RankIn(Smaller(S), S, i)
    BY <1>3
  <2>2. Orders(Smaller(S), S)
    BY LessOrders
  <2>3. k = i
    <3> HIDE DEF k, r
    <3> QED
      BY <2>1, <2>2, RanksDiffer
  <2> QED
    BY <2>3
<1> QED
  BY <1>2, <1>4

\* Where the members of s that are in X stand.
PlacesOf(s, X) == {i \in DOMAIN s : s[i] \in X}

\* The places are finitely many integers, as many as the list of those kept is long.
LEMMA PlacesKept ==
  ASSUME NEW T, NEW s \in Seq(T), NEW X
  PROVE  /\ IsFiniteSet(PlacesOf(s, X)) /\ PlacesOf(s, X) \subseteq Int /\ Cardinality(PlacesOf(s, X)) \in Nat
         /\ Only(s, X) = [n \in 1 .. Cardinality(PlacesOf(s, X)) |-> s[Nth(PlacesOf(s, X), n)]]
<1>1. PlacesOf(s, X) \subseteq 1 .. Len(s) /\ Len(s) \in Nat
  BY DEF PlacesOf
<1>2. IsFiniteSet(1 .. Len(s))
  BY <1>1, FS_Interval
<1>3. IsFiniteSet(PlacesOf(s, X))
  BY <1>1, <1>2, FS_Subset
<1> QED
  BY <1>1, <1>3, FS_CardinalityType DEF Only, ElementsAt, PlacesOf

\* What is kept is a list of the members of s that are in X, all of them and no others.
LEMMA OnlyKeeps ==
  ASSUME NEW T, NEW s \in Seq(T), NEW X
  PROVE  Only(s, X) \in Seq(T) /\ Range(Only(s, X)) = Range(s) \cap X
<1> DEFINE A == PlacesOf(s, X)
           m == Cardinality(A)
           o == Only(s, X)
<1>1. IsFiniteSet(A) /\ A \subseteq Int /\ m \in Nat /\ o = [n \in 1 .. m |-> s[Nth(A, n)]]
  BY PlacesKept
<1>2. \A i \in A : i \in DOMAIN s /\ s[i] \in X /\ s[i] \in T
  BY DEF PlacesOf
<1>3. \A i \in DOMAIN s : s[i] \in X => i \in A
  BY DEF PlacesOf
<1> HIDE DEF A, m, o
<1>4. \A n \in 1 .. m : Nth(A, n) \in A
  BY <1>1, NthIs DEF m
<1>5. \A i \in A : \E n \in 1 .. m : Nth(A, n) = i
  BY <1>1, NthCovers DEF m
<1>6. o \in Seq(T)
  <2>1. o \in [1 .. m -> T]
    BY <1>1, <1>2, <1>4
  <2> QED
    BY <1>1, <2>1
<1>7. Range(o) = Range(s) \cap X
  <2>1. ASSUME NEW n \in DOMAIN o PROVE o[n] \in Range(s) \cap X
    BY <1>1, <1>2, <1>4 DEF Range
  <2>2. ASSUME NEW i \in DOMAIN s, s[i] \in X PROVE s[i] \in Range(o)
    BY <1>1, <1>3, <1>5, <2>2 DEF Range
  <2> QED
    BY <2>1, <2>2 DEF Range
<1> QED
  BY <1>6, <1>7 DEF o

\* It has no two equal members if s has none.
LEMMA OnlyDiffers ==
  ASSUME NEW T, NEW s \in Seq(T), NEW X, IsInjective(s)
  PROVE  IsInjective(Only(s, X))
<1> DEFINE A == PlacesOf(s, X)
           m == Cardinality(A)
           o == Only(s, X)
<1>1. IsFiniteSet(A) /\ A \subseteq Int /\ m \in Nat /\ o = [n \in 1 .. m |-> s[Nth(A, n)]]
  BY PlacesKept
<1>2. A \subseteq DOMAIN s
  BY DEF PlacesOf
<1> HIDE DEF A, m, o
<1>3. \A n \in 1 .. m : Nth(A, n) \in A /\ RankIn(Smaller(A), A, Nth(A, n)) = n - 1
  BY <1>1, NthIs DEF m
<1>4. ASSUME NEW a \in 1 .. m, NEW b \in 1 .. m, o[a] = o[b] PROVE a = b
  <2>1. s[Nth(A, a)] = s[Nth(A, b)] /\ Nth(A, a) \in A /\ Nth(A, b) \in A
    BY <1>1, <1>3, <1>4
  <2>2. Nth(A, a) = Nth(A, b)
    BY <1>2, <2>1 DEF IsInjective
  <2>3. a - 1 = b - 1
    BY <1>3, <2>2
  <2> QED
    BY <2>3
<1>5. DOMAIN o = 1 .. m
  BY <1>1
<1> QED
  BY <1>4, <1>5 DEF IsInjective, o

-----------------------------------------------------------------------------
(***************************************************************************)
(* Fractions.  The recursive function that computes the greatest common    *)
(* divisor exists, since the greatest common divisor satisfies its         *)
(* equation; its value divides both arguments, so cancelling leaves a      *)
(* fraction of the same value, and comparisons may be made of any pair of  *)
(* numerator and denominator.                                              *)
(***************************************************************************)

\* The divisors two numbers share.
Divides(d, x) == \E k \in Nat : x = d * k
CommonDivisors(a, b) == {d \in Nat \ {0} : Divides(d, a) /\ Divides(d, b)}

\* What the recursive definition says of a table.
Euclid(g) == g = [p \in Nat \X Nat |-> IF p[2] = 0 THEN p[1] ELSE g[<<p[2], p[1] % p[2]>>]]

\* The definition is a choice of such a table.
LEMMA GcdIs == gcd = CHOOSE g : Euclid(g)
BY DEF gcd, Euclid

\* Division with remainder.
LEMMA Remainder ==
  ASSUME NEW a \in Nat, NEW b \in Nat \ {0}
  PROVE  /\ (a % b) \in Nat /\ (a % b) < b /\ (a \div b) \in Nat
         /\ a = b * (a \div b) + (a % b)
OBVIOUS

\* What divides a and b divides the remainder, and conversely.
LEMMA SameDivisors ==
  ASSUME NEW a \in Nat, NEW b \in Nat \ {0}
  PROVE  CommonDivisors(a, b) = CommonDivisors(b, a % b)
<1> DEFINE q == a \div b
           r == a % b
<1>1. q \in Nat /\ r \in Nat /\ a = b * q + r
  BY Remainder
<1> HIDE DEF q, r
<1>2. ASSUME NEW d \in Nat \ {0}, NEW k \in Nat, NEW l \in Nat, a = d * k, b = d * l
      PROVE  Divides(d, r)
  <2>1. r = d * k - (d * l) * q
    BY <1>1, <1>2
  <2>2. (d * l) * q = d * (l * q)
    BY <1>1
  <2>3. r = d * (k - l * q)
    BY <1>1, <2>1, <2>2
  <2>4. k - l * q \in Nat
    <3>1. l * q \in Int /\ k - l * q \in Int
      BY <1>1
    <3>2. PICK m \in Int : m = k - l * q
      BY <3>1
    <3>3. d * m >= 0 /\ d > 0
      BY <1>1, <2>3, <3>2
    <3>4. m >= 0
      BY <3>3
    <3> QED
      BY <3>2, <3>4
  <2> QED
    BY <2>3, <2>4 DEF Divides
<1>3. ASSUME NEW d \in Nat \ {0}, NEW k \in Nat, NEW l \in Nat, b = d * k, r = d * l
      PROVE  Divides(d, a)
  <2>1. a = d * k * q + d * l
    BY <1>1, <1>3
  <2>2. a = d * (k * q + l) /\ k * q + l \in Nat
    BY <1>1, <2>1
  <2> QED
    BY <2>2 DEF Divides
<1>4. \A d \in CommonDivisors(a, b) : d \in CommonDivisors(b, r)
  BY <1>2 DEF CommonDivisors, Divides
<1>5. \A d \in CommonDivisors(b, r) : d \in CommonDivisors(a, b)
  BY <1>3 DEF CommonDivisors, Divides
<1>6. CommonDivisors(a, b) = CommonDivisors(b, r)
  <2>1. CommonDivisors(a, b) \subseteq Nat /\ CommonDivisors(b, r) \subseteq Nat
    BY DEF CommonDivisors
  <2> QED
    BY <1>4, <1>5
<1> QED
  BY <1>6 DEF r

\* The greatest of them.
Greatest(a, b) == CHOOSE m \in CommonDivisors(a, b) : \A x \in CommonDivisors(a, b) : x <= m

\* With nothing, a number shares itself.
LEMMA GreatestOfOne ==
  ASSUME NEW a \in Nat \ {0}
  PROVE  Greatest(a, 0) = a
<1>1. a \in CommonDivisors(a, 0)
  <2>1. a = a * 1 /\ 0 = a * 0 /\ 1 \in Nat /\ 0 \in Nat
    OBVIOUS
  <2> QED
    BY <2>1 DEF CommonDivisors, Divides
<1>2. ASSUME NEW x \in CommonDivisors(a, 0) PROVE x \in Nat /\ x <= a
  <2>1. PICK k \in Nat : a = x * k
    BY DEF CommonDivisors, Divides
  <2>2. x \in Nat \ {0} /\ k # 0
    BY <2>1 DEF CommonDivisors
  <2>3. k >= 1
    BY <2>2
  <2>4. x * k >= x
    BY <2>2, <2>3
  <2> QED
    BY <2>1, <2>2, <2>4
<1>3. \A m \in CommonDivisors(a, 0) : (\A x \in CommonDivisors(a, 0) : x <= m) => m = a
  BY <1>1, <1>2
<1>4. \A x \in CommonDivisors(a, 0) : x <= a
  BY <1>2
<1> QED
  BY <1>1, <1>3, <1>4 DEF Greatest

\* The table of greatest common divisors satisfies the equation.
LEMMA EuclidHolds == Euclid(gcd)
<1> DEFINE G(a, b) == IF a = 0 /\ b = 0 THEN 0 ELSE Greatest(a, b)
           g == [p \in Nat \X Nat |-> G(p[1], p[2])]
<1>1. ASSUME NEW a \in Nat, NEW b \in Nat
      PROVE  G(a, b) = IF b = 0 THEN a ELSE G(b, a % b)
  <2>1. CASE b = 0
    BY <2>1, GreatestOfOne
  <2>2. CASE b # 0
    <3>1. G(a, b) = Greatest(a, b) /\ G(b, a % b) = Greatest(b, a % b)
      BY <2>2
    <3>2. Greatest(a, b) = Greatest(b, a % b)
      BY <2>2, SameDivisors DEF Greatest
    <3> QED
      BY <2>2, <3>1, <3>2
  <2> QED
    BY <2>1, <2>2
<1>2. \A p \in Nat \X Nat : p[1] \in Nat /\ p[2] \in Nat
  OBVIOUS
<1>3. \A p \in Nat \X Nat : p[2] # 0 => <<p[2], p[1] % p[2]>> \in Nat \X Nat
  BY <1>2, Remainder
<1> HIDE DEF G
<1>4. \A p \in Nat \X Nat :
        g[p] = IF p[2] = 0 THEN p[1] ELSE g[<<p[2], p[1] % p[2]>>]
  BY <1>1, <1>2, <1>3
<1>5. Euclid(g)
  <2>1. PICK h : h = g
    OBVIOUS
  <2>2. h = [p \in Nat \X Nat |-> h[p]]
    BY <2>1
  <2>3. \A p \in Nat \X Nat : h[p] = IF p[2] = 0 THEN p[1] ELSE h[<<p[2], p[1] % p[2]>>]
    BY <1>4, <2>1
  <2> HIDE DEF g
  <2>4. Euclid(h)
    BY <2>2, <2>3 DEF Euclid
  <2> QED
    BY <2>1, <2>4
<1> HIDE DEF g
<1> QED
  BY <1>5, GcdIs

\* One step of the computation.
LEMMA GcdStep ==
  ASSUME NEW a \in Nat, NEW b \in Nat
  PROVE  gcd[<<a, b>>] = IF b = 0 THEN a ELSE gcd[<<b, a % b>>]
<1>1. PICK g : g = gcd /\ Euclid(g)
  BY EuclidHolds
<1> QED
  BY <1>1 DEF Euclid

\* Unless both numbers are zero, it is a divisor of both.
LEMMA GcdDivides ==
  ASSUME NEW a \in Nat, NEW b \in Nat, a # 0 \/ b # 0
  PROVE  gcd[<<a, b>>] \in CommonDivisors(a, b)
<1> DEFINE Bad(x, y) == (x # 0 \/ y # 0) /\ gcd[<<x, y>>] \notin CommonDivisors(x, y)
           T == {y \in Nat : \E x \in Nat : Bad(x, y)}
<1> SUFFICES ASSUME T # {} PROVE FALSE
  OBVIOUS
<1>1. PICK y \in T : \A z \in T : y <= z
  <2> HIDE DEF T
  <2>1. T \subseteq Nat
    BY DEF T
  <2> QED
    BY <2>1, MinimalNat
<1>2. PICK x \in Nat : Bad(x, y)
  OBVIOUS
<1>3. y \in Nat
  OBVIOUS
<1>4. CASE y = 0
  <2>1. gcd[<<x, y>>] = x /\ x \in Nat \ {0}
    BY <1>2, <1>4, GcdStep
  <2>2. x = x * 1 /\ 0 = x * 0 /\ 1 \in Nat /\ 0 \in Nat
    BY <2>1
  <2>3. x \in CommonDivisors(x, 0)
    BY <2>1, <2>2 DEF CommonDivisors, Divides
  <2> QED
    BY <1>2, <1>4, <2>1, <2>3
<1>5. CASE y # 0
  <2>1. (x % y) \in Nat /\ (x % y) < y
    BY <1>3, <1>5, Remainder
  <2>2. (x % y) \notin T
    BY <1>1, <1>3, <2>1
  <2>3. ~Bad(y, x % y)
    BY <1>3, <2>1, <2>2
  <2>4. gcd[<<x, y>>] = gcd[<<y, x % y>>]
    BY <1>3, <1>5, GcdStep
  <2>5. CommonDivisors(x, y) = CommonDivisors(y, x % y)
    BY <1>3, <1>5, SameDivisors
  <2> QED
    BY <1>2, <1>5, <2>3, <2>4, <2>5
<1> QED
  BY <1>4, <1>5

\* A common factor comes out.
LEMMA GcdScales ==
  ASSUME NEW c \in Nat \ {0}, NEW a \in Nat, NEW b \in Nat
  PROVE  gcd[<<c * a, c * b>>] = c * gcd[<<a, b>>]
<1> DEFINE Bad(x, y) == gcd[<<c * x, c * y>>] # c * gcd[<<x, y>>]
           T == {y \in Nat : \E x \in Nat : Bad(x, y)}
<1> SUFFICES ASSUME T # {} PROVE FALSE
  OBVIOUS
<1>1. PICK y \in T : \A z \in T : y <= z
  <2> HIDE DEF T
  <2>1. T \subseteq Nat
    BY DEF T
  <2> QED
    BY <2>1, MinimalNat
<1>2. PICK x \in Nat : Bad(x, y)
  OBVIOUS
<1>3. y \in Nat /\ c * x \in Nat /\ c * y \in Nat
  OBVIOUS
<1>4. CASE y = 0
  <2>1. c * y = 0
    BY <1>4
  <2>2. gcd[<<c * x, c * y>>] = c * x /\ gcd[<<x, y>>] = x
    BY <1>3, <1>4, <2>1, GcdStep
  <2> QED
    BY <1>2, <2>2
<1>5. CASE y # 0
  <2>1. (x % y) \in Nat /\ (x % y) < y
    BY <1>3, <1>5, Remainder
  <2>2. gcd[<<c * y, c * (x % y)>>] = c * gcd[<<y, x % y>>]
    <3>1. PICK r \in Nat : r = x % y /\ r < y
      BY <2>1
    <3>2. r \notin T
      <4> HIDE DEF T
      <4> QED
        BY <1>1, <1>3, <3>1
    <3>3. ~Bad(y, r)
      BY <1>3, <3>1, <3>2
    <3> QED
      BY <3>1, <3>3
  <2>3. c * y # 0 /\ (c * x) % (c * y) = c * (x % y)
    <3> DEFINE q == x \div y
               r == x % y
    <3>1. q \in Nat /\ r \in Nat /\ r < y /\ x = y * q + r
      BY <1>3, <1>5, Remainder
    <3> HIDE DEF q, r
    <3>2. c * x = (c * y) * q + c * r
      BY <1>3, <3>1
    <3>3. 0 <= c * r /\ c * r < c * y
      BY <1>3, <3>1
    <3>4. c * y \in Nat \ {0} /\ c * r \in Nat
      BY <1>3, <3>1, <3>3
    <3>5. ASSUME NEW m \in Nat \ {0}, NEW w \in Nat, NEW n \in Nat, n = m * q + w, w < m
          PROVE  n % m = w
      BY <3>1, <3>5
    <3>6. (c * x) % (c * y) = c * r
      BY <1>3, <3>2, <3>3, <3>4, <3>5
    <3> QED
      BY <3>4, <3>6 DEF r
  <2>4. gcd[<<x, y>>] = gcd[<<y, x % y>>]
    BY <1>3, <1>5, GcdStep
  <2>5. gcd[<<c * x, c * y>>] = gcd[<<c * y, (c * x) % (c * y)>>]
    BY <1>3, <2>3, GcdStep
  <2> QED
    BY <1>2, <2>2, <2>3, <2>4, <2>5
<1> QED
  BY <1>4, <1>5

\* Dividing out a factor.
LEMMA Cancels ==
  ASSUME NEW g \in Nat \ {0}, NEW k \in Int
  PROVE  (g * k) \div g = k
<1>1. g * k = k * g
  OBVIOUS
<1>2. ASSUME NEW n \in Int, n = k * g PROVE n \div g = k
  BY <1>2
<1> QED
  BY <1>1, <1>2

\* What a fraction is: numerator and denominator without a common factor of theirs.
LEMMA FracIs ==
  ASSUME NEW n \in Int, NEW d \in Nat \ {0}
  PROVE  \E g \in Nat \ {0}, k \in Int, l \in Nat \ {0} :
            n = g * k /\ d = g * l /\ Frac(n, d) = <<k, l>>
<1> DEFINE a == Abs(n)
           g == gcd[<<a, d>>]
<1>1. a \in Nat /\ (a = n \/ a = -n)
  BY DEF Abs
<1>2. Frac(n, d) = <<n \div g, d \div g>>
  BY DEF Frac
<1> HIDE DEF a
<1>3. g \in Nat \ {0} /\ Divides(g, a) /\ Divides(g, d)
  BY <1>1, GcdDivides DEF CommonDivisors
<1> HIDE DEF g
<1>4. PICK j \in Nat, l \in Nat : a = g * j /\ d = g * l
  BY <1>3 DEF Divides
<1>5. PICK k \in Int : n = g * k
  <2>1. CASE a = n
    BY <1>4, <2>1
  <2>2. CASE a = -n
    <3>1. n = g * (-j) /\ -j \in Int
      BY <1>3, <1>4, <2>2
    <3> QED
      BY <3>1
  <2> QED
    BY <1>1, <2>1, <2>2
<1>6. l # 0
  BY <1>3, <1>4
<1>7. n \div g = k /\ d \div g = l
  BY <1>3, <1>4, <1>5, Cancels
<1> QED
  BY <1>2, <1>3, <1>4, <1>5, <1>6, <1>7

\* Multiplying out: numbers are compared as their multiples are.
LEMMA Multiples ==
  ASSUME NEW x \in Int, NEW y \in Int, NEW c \in Nat \ {0}
  PROVE  (x < y <=> x * c < y * c) /\ (x = y <=> x * c = y * c)
<1>1. ASSUME NEW u \in Int, NEW v \in Int, u < v PROVE u * c < v * c
  <2>1. (v - u) * c >= 1
    BY <1>1
  <2>2. (v - u) * c = v * c - u * c /\ v * c \in Int /\ u * c \in Int
    OBVIOUS
  <2> QED
    BY <2>1, <2>2
<1>2. x < y \/ x = y \/ y < x
  OBVIOUS
<1>3. x * c \in Int /\ y * c \in Int
  OBVIOUS
<1> QED
  BY <1>1, <1>2, <1>3

\* A fraction x that stands for n / d.
Ratio(x, n, d) ==
  /\ x = <<x[1], x[2]>> /\ x[1] \in Int /\ x[2] \in Nat \ {0}
  /\ n \in Int /\ d \in Nat \ {0} /\ x[1] * d = n * x[2]

\* Cancelling keeps the value.
LEMMA FracRatio ==
  ASSUME NEW n \in Int, NEW d \in Nat \ {0}
  PROVE  Ratio(Frac(n, d), n, d)
<1>1. PICK g \in Nat \ {0}, k \in Int, l \in Nat \ {0} :
         n = g * k /\ d = g * l /\ Frac(n, d) = <<k, l>>
  BY FracIs
<1>2. k * d = n * l
  BY <1>1
<1> QED
  BY <1>1, <1>2 DEF Ratio

\* Fractions are compared as numerators over a common denominator.
LEMMA LessRatio ==
  ASSUME NEW x, NEW y, NEW n, NEW d, NEW m, NEW e, Ratio(x, n, d), Ratio(y, m, e)
  PROVE  Less(x, y) <=> n * e < m * d
<1>1. PICK a \in Int, b \in Nat \ {0}, p \in Int, q \in Nat \ {0} :
         a = x[1] /\ b = x[2] /\ p = y[1] /\ q = y[2]
  BY DEF Ratio
<1>2. /\ n \in Int /\ d \in Nat \ {0} /\ m \in Int /\ e \in Nat \ {0}
      /\ a * d = n * b /\ p * e = m * q
  BY <1>1 DEF Ratio
<1>3. Less(x, y) <=> a * q < p * b
  BY <1>1 DEF Less
<1>4. d * e \in Nat \ {0} /\ b * q \in Nat \ {0}
  BY <1>1, <1>2
<1>5. a * q < p * b <=> (a * q) * (d * e) < (p * b) * (d * e)
  BY <1>4, Multiples
<1>6. n * e < m * d <=> (n * e) * (b * q) < (m * d) * (b * q)
  BY <1>2, <1>4, Multiples
<1>7. (a * q) * (d * e) = (n * e) * (b * q)
  <2>1. (a * q) * (d * e) = (a * d) * (q * e)
    BY <1>2
  <2>2. (n * b) * (q * e) = (n * e) * (b * q)
    BY <1>2
  <2> QED
    BY <1>2, <2>1, <2>2
<1>8. (p * b) * (d * e) = (m * d) * (b * q)
  <2>1. (p * b) * (d * e) = (p * e) * (b * d)
    BY <1>2
  <2>2. (m * q) * (b * d) = (m * d) * (b * q)
    BY <1>2
  <2> QED
    BY <1>2, <2>1, <2>2
<1> QED
  BY <1>3, <1>5, <1>6, <1>7, <1>8

\* A whole number.
LEMMA WholeRatio ==
  ASSUME NEW n \in Int
  PROVE  Ratio(Whole1(n), n, 1)
BY DEF Ratio, Whole1

\* A negated fraction.
LEMMA NegativeRatio ==
  ASSUME NEW x, NEW n, NEW d, Ratio(x, n, d)
  PROVE  Ratio(<<-x[1], x[2]>>, -n, d)
<1>1. PICK a \in Int, b \in Nat \ {0} : a = x[1] /\ b = x[2]
  BY DEF Ratio
<1>2. n \in Int /\ d \in Nat \ {0} /\ a * d = n * b
  BY <1>1 DEF Ratio
<1>3. (-a) * d = (-n) * b
  BY <1>2
<1> QED
  BY <1>1, <1>2, <1>3 DEF Ratio

\* The reciprocal of a positive fraction.
LEMMA InverseRatio ==
  ASSUME NEW x, NEW n, NEW d, Ratio(x, n, d), n > 0
  PROVE  Ratio(<<x[2], x[1]>>, d, n)
<1>1. PICK a \in Int, b \in Nat \ {0} : a = x[1] /\ b = x[2]
  BY DEF Ratio
<1>2. n \in Nat \ {0} /\ d \in Nat \ {0} /\ a * d = n * b
  BY <1>1 DEF Ratio
<1>3. a > 0
  <2>1. n * b > 0
    BY <1>2
  <2> QED
    BY <1>2, <2>1
<1>4. b * n = d * a
  BY <1>2
<1> QED
  BY <1>1, <1>2, <1>3, <1>4 DEF Ratio

\* A product of fractions.
LEMMA TimesRatio ==
  ASSUME NEW x, NEW y, NEW n, NEW d, NEW m, NEW e, Ratio(x, n, d), Ratio(y, m, e)
  PROVE  Ratio(Times(x, y), n * m, d * e)
<1>1. PICK a \in Int, b \in Nat \ {0}, p \in Int, q \in Nat \ {0} :
         a = x[1] /\ b = x[2] /\ p = y[1] /\ q = y[2]
  BY DEF Ratio
<1>2. /\ n \in Int /\ d \in Nat \ {0} /\ m \in Int /\ e \in Nat \ {0}
      /\ a * d = n * b /\ p * e = m * q
  BY <1>1 DEF Ratio
<1>3. a * p \in Int /\ b * q \in Nat \ {0} /\ n * m \in Int /\ d * e \in Nat \ {0}
  BY <1>1, <1>2
<1>4. PICK k \in Int, l \in Nat \ {0} : Frac(a * p, b * q) = <<k, l>> /\ k * (b * q) = (a * p) * l
  <2> DEFINE N == a * p  D == b * q
  <2>1. N \in Int /\ D \in Nat \ {0}
    BY <1>3
  <2> HIDE DEF N, D
  <2>2. Ratio(Frac(N, D), N, D)
    BY <2>1, FracRatio
  <2>3. PICK f : f = Frac(N, D)
    OBVIOUS
  <2>4. f = <<f[1], f[2]>> /\ f[1] \in Int /\ f[2] \in Nat \ {0} /\ f[1] * D = N * f[2]
    BY <2>2, <2>3 DEF Ratio
  <2> QED
    BY <2>3, <2>4 DEF N, D
<1>5. (a * p) * (d * e) = (n * m) * (b * q)
  <2>1. (a * p) * (d * e) = (a * d) * (p * e)
    BY <1>2
  <2>2. (n * b) * (m * q) = (n * m) * (b * q)
    BY <1>2
  <2> QED
    BY <1>2, <2>1, <2>2
<1>6. k * (d * e) = (n * m) * l
  <2> DEFINE D == d * e  N == n * m  B == b * q  A == a * p
  <2>1. D \in Int /\ N \in Int /\ B \in Nat \ {0} /\ A \in Int
    BY <1>3
  <2>2. k * B = A * l /\ A * D = N * B
    BY <1>4, <1>5
  <2> HIDE DEF D, N, A, B
  <2>3. (k * D) * B = (k * B) * D /\ (A * l) * D = (A * D) * l /\ (N * B) * l = (N * l) * B
    BY <2>1
  <2>4. k * D \in Int /\ N * l \in Int /\ (k * D) * B = (N * l) * B
    BY <2>1, <2>2, <2>3
  <2>5. k * D = N * l
    BY <2>1, <2>4, Multiples
  <2> QED
    BY <2>5 DEF D, N
<1>7. Times(x, y) = <<k, l>>
  BY <1>1, <1>4 DEF Times
<1> QED
  BY <1>3, <1>4, <1>6, <1>7 DEF Ratio

\* A sum of fractions.
LEMMA PlusRatio ==
  ASSUME NEW x, NEW y, NEW n, NEW d, NEW m, NEW e, Ratio(x, n, d), Ratio(y, m, e)
  PROVE  Ratio(Plus(x, y), n * e + m * d, d * e)
<1>1. PICK a \in Int, b \in Nat \ {0}, p \in Int, q \in Nat \ {0} :
         a = x[1] /\ b = x[2] /\ p = y[1] /\ q = y[2]
  BY DEF Ratio
<1>2. /\ n \in Int /\ d \in Nat \ {0} /\ m \in Int /\ e \in Nat \ {0}
      /\ a * d = n * b /\ p * e = m * q
  BY <1>1 DEF Ratio
<1>3. /\ a * q + p * b \in Int /\ b * q \in Nat \ {0}
      /\ n * e + m * d \in Int /\ d * e \in Nat \ {0}
  BY <1>1, <1>2
<1>4. PICK k \in Int, l \in Nat \ {0} : Frac(a * q + p * b, b * q) = <<k, l>> /\ k * (b * q) = (a * q + p * b) * l
  <2> DEFINE N == a * q + p * b  D == b * q
  <2>1. N \in Int /\ D \in Nat \ {0}
    BY <1>3
  <2> HIDE DEF N, D
  <2>2. Ratio(Frac(N, D), N, D)
    BY <2>1, FracRatio
  <2>3. PICK f : f = Frac(N, D)
    OBVIOUS
  <2>4. f = <<f[1], f[2]>> /\ f[1] \in Int /\ f[2] \in Nat \ {0} /\ f[1] * D = N * f[2]
    BY <2>2, <2>3 DEF Ratio
  <2> QED
    BY <2>3, <2>4 DEF N, D
<1>5. (a * q + p * b) * (d * e) = (n * e + m * d) * (b * q)
  <2>1. (a * q + p * b) * (d * e) = (a * d) * (q * e) + (p * e) * (b * d)
    BY <1>2
  <2>2. (n * b) * (q * e) + (m * q) * (b * d) = (n * e + m * d) * (b * q)
    BY <1>2
  <2> QED
    BY <1>2, <2>1, <2>2
<1>6. k * (d * e) = (n * e + m * d) * l
  <2> DEFINE D == d * e  N == n * e + m * d  B == b * q  A == a * q + p * b
  <2>1. D \in Int /\ N \in Int /\ B \in Nat \ {0} /\ A \in Int
    BY <1>3
  <2>2. k * B = A * l /\ A * D = N * B
    BY <1>4, <1>5
  <2> HIDE DEF D, N, A, B
  <2>3. (k * D) * B = (k * B) * D /\ (A * l) * D = (A * D) * l /\ (N * B) * l = (N * l) * B
    BY <2>1
  <2>4. k * D \in Int /\ N * l \in Int /\ (k * D) * B = (N * l) * B
    BY <2>1, <2>2, <2>3
  <2>5. k * D = N * l
    BY <2>1, <2>4, Multiples
  <2> QED
    BY <2>5 DEF D, N
<1>7. Plus(x, y) = <<k, l>>
  BY <1>1, <1>4 DEF Plus
<1> QED
  BY <1>3, <1>4, <1>6, <1>7 DEF Ratio

\* A difference of fractions.
LEMMA MinusRatio ==
  ASSUME NEW x, NEW y, NEW n, NEW d, NEW m, NEW e, Ratio(x, n, d), Ratio(y, m, e)
  PROVE  Ratio(Minus(x, y), n * e - m * d, d * e)
<1>1. Ratio(<<-y[1], y[2]>>, -m, e)
  BY NegativeRatio
<1>2. Ratio(Minus(x, y), n * e + (-m) * d, d * e)
  BY <1>1, PlusRatio DEF Minus
<1>3. n \in Int /\ d \in Int /\ m \in Int /\ e \in Int
  BY DEF Ratio
<1>4. n * e + (-m) * d = n * e - m * d
  BY <1>3
<1> QED
  BY <1>2, <1>4

\* Fractions of one value are one fraction: both are in lowest terms.
LEMMA FracScales ==
  ASSUME NEW c \in Nat \ {0}, NEW n \in Int, NEW d \in Nat \ {0}
  PROVE  Frac(c * n, c * d) = Frac(n, d)
<1> DEFINE a == Abs(n)
           g == gcd[<<a, d>>]
<1>1. a \in Nat /\ (a = n \/ a = -n) /\ Abs(c * n) = c * a
  <2>1. c * n >= 0 <=> n >= 0
    BY SMT
  <2>2. c * (-n) = -(c * n)
    OBVIOUS
  <2> QED
    BY <2>1, <2>2 DEF Abs
<1>2. Frac(n, d) = <<n \div g, d \div g>>
  BY DEF Frac
<1>3. gcd[<<Abs(c * n), c * d>>] = c * g
  BY <1>1, GcdScales
<1>4. Frac(c * n, c * d) = <<(c * n) \div (c * g), (c * d) \div (c * g)>>
  BY <1>3 DEF Frac
<1> HIDE DEF a
<1>5. g \in Nat \ {0} /\ Divides(g, a) /\ Divides(g, d)
  BY <1>1, GcdDivides DEF CommonDivisors
<1> HIDE DEF g
<1>6. PICK j \in Nat, l \in Nat : a = g * j /\ d = g * l
  BY <1>5 DEF Divides
<1>7. PICK k \in Int : n = g * k
  <2>1. CASE a = n
    BY <1>6, <2>1
  <2>2. CASE a = -n
    <3>1. n = g * (-j) /\ -j \in Int
      BY <1>5, <1>6, <2>2
    <3> QED
      BY <3>1
  <2> QED
    BY <1>1, <2>1, <2>2
<1>8. c * g \in Nat \ {0} /\ c * n = (c * g) * k /\ c * d = (c * g) * l
  BY <1>5, <1>6, <1>7
<1>9. n \div g = k /\ d \div g = l
  BY <1>5, <1>6, <1>7, Cancels
<1>10. (c * n) \div (c * g) = k /\ (c * d) \div (c * g) = l
  <2> DEFINE h == c * g
  <2>1. h \in Nat \ {0}
    BY <1>8
  <2> HIDE DEF h
  <2>2. (h * k) \div h = k /\ (h * l) \div h = l
    BY <1>6, <1>7, <2>1, Cancels
  <2> QED
    BY <1>8, <2>2 DEF h
<1> QED
  BY <1>2, <1>4, <1>9, <1>10

\* Two quotients are one fraction when they are equal crosswise.
LEMMA SameFrac ==
  ASSUME NEW n \in Int, NEW d \in Nat \ {0}, NEW m \in Int, NEW e \in Nat \ {0}, n * e = m * d
  PROVE  Frac(n, d) = Frac(m, e)
<1>1. Frac(n, d) = Frac(e * n, e * d)
  BY FracScales
<1>2. Frac(m, e) = Frac(d * m, d * e)
  BY FracScales
<1>3. e * n = d * m /\ e * d = d * e
  OBVIOUS
<1> QED
  BY <1>1, <1>2, <1>3
-----------------------------------------------------------------------------
(* Sums of numbers that hang together *)

\* The minimal set a statement fails on is not empty, and the statement holds without its
\* picked element: every proof by minimal counterexample ends up here.
LEMMA SmallestFailure ==
  ASSUME NEW S, IsFiniteSet(S), NEW T, T \subseteq SUBSET S, T # {}, {} \notin T
  PROVE  \E R \in T : /\ IsFiniteSet(R) /\ R # {} /\ Pick(R) \in S
                      /\ R \ {Pick(R)} \notin T /\ IsFiniteSet(R \ {Pick(R)}) /\ R \ {Pick(R)} \subseteq S
<1>1. \A R \in T : IsFiniteSet(R)
  BY FS_Subset
<1>2. PICK R \in T : \A Q \in T : Q \subseteq R => Q = R
  BY <1>1, MinimalSet
<1>3. R # {} /\ Pick(R) \in R
  BY PickIn
<1>4. R \ {Pick(R)} \subseteq R /\ R \ {Pick(R)} # R /\ IsFiniteSet(R \ {Pick(R)})
  BY <1>1, <1>3, FS_Subset
<1> QED
  BY <1>1, <1>2, <1>3, <1>4

\* Factors and summands may be taken out of a sum.
LEMMA SumLinear ==
  ASSUME NEW S, IsFiniteSet(S), NEW f, NEW g, NEW h, NEW a \in Int, NEW b \in Int, NEW c \in Int,
         \A x \in S : f[x] \in Int /\ g[x] \in Int /\ h[x] = a * f[x] + b * g[x] + c
  PROVE  SumOver(h, S) = a * SumOver(f, S) + b * SumOver(g, S) + c * Cardinality(S)
<1> DEFINE T == {R \in SUBSET S :
                   SumOver(h, R) # a * SumOver(f, R) + b * SumOver(g, R) + c * Cardinality(R)}
<1>1. ASSUME T # {} PROVE FALSE
  <2>1. {} \notin T
    BY SumEmpty, FS_EmptySet
  <2> HIDE DEF T
  <2>2. T \subseteq SUBSET S
    BY DEF T
  <2>3. PICK R \in T : /\ IsFiniteSet(R) /\ R # {} /\ Pick(R) \in S
                       /\ R \ {Pick(R)} \notin T /\ IsFiniteSet(R \ {Pick(R)}) /\ R \ {Pick(R)} \subseteq S
    BY <1>1, <2>1, <2>2, SmallestFailure
  <2> DEFINE Q == R \ {Pick(R)}
             p == Pick(R)
  <2>4. /\ SumOver(f, R) = f[p] + SumOver(f, Q) /\ SumOver(g, R) = g[p] + SumOver(g, Q)
        /\ SumOver(h, R) = h[p] + SumOver(h, Q)
    BY <2>3, SumPicked
  <2>5. SumOver(f, Q) \in Int /\ SumOver(g, Q) \in Int
    <3> HIDE DEF Q
    <3>1. IsFiniteSet(Q) /\ Q \subseteq S
      BY <2>3 DEF Q
    <3> QED
      BY <3>1, SumInt
  <2>6. Cardinality(R) = Cardinality(Q) + 1 /\ Cardinality(Q) \in Nat
    <3>1. Cardinality(Q) = Cardinality(R) - 1 /\ Cardinality(R) \in Nat /\ Cardinality(Q) \in Nat
      BY <2>3, PickIn, FS_RemoveElement, FS_CardinalityType
    <3> QED
      BY <3>1
  <2>7. SumOver(h, Q) = a * SumOver(f, Q) + b * SumOver(g, Q) + c * Cardinality(Q)
    BY <2>3 DEF T
  <2>8. f[p] \in Int /\ g[p] \in Int /\ h[p] = a * f[p] + b * g[p] + c
    BY <2>3
  <2>9. SumOver(h, R) # a * SumOver(f, R) + b * SumOver(g, R) + c * Cardinality(R)
    BY <2>2, <2>3 DEF T
  <2> HIDE DEF Q, p
  <2>10. PICK u \in Int, v \in Int, s \in Int, t \in Int, m \in Int :
           /\ u = f[p] /\ v = g[p] /\ s = SumOver(f, Q) /\ t = SumOver(g, Q) /\ m = Cardinality(Q)
    BY <2>5, <2>6, <2>8
  <2>11. /\ a * (u + s) = a * u + a * s /\ b * (v + t) = b * v + b * t /\ c * (m + 1) = c * m + c
         /\ {a * u, a * s, b * v, b * t, c * m} \subseteq Int
    OBVIOUS
  <2>12. /\ SumOver(h, R) = (a * u + b * v + c) + (a * s + b * t + c * m)
         /\ SumOver(f, R) = u + s /\ SumOver(g, R) = v + t /\ Cardinality(R) = m + 1
    BY <2>4, <2>6, <2>7, <2>8, <2>10
  <2>13. SumOver(h, R) = (a * u + a * s) + (b * v + b * t) + (c * m + c)
    <3> HIDE <2>10
    <3> QED
      BY <2>11, <2>12
  <2> QED
    BY <2>9, <2>11, <2>12, <2>13
<1> QED
  BY <1>1

\* A sum of numbers not negative is none.
LEMMA SumNat ==
  ASSUME NEW S, IsFiniteSet(S), NEW f, \A x \in S : f[x] \in Nat
  PROVE  SumOver(f, S) \in Nat
<1> DEFINE T == {R \in SUBSET S : SumOver(f, R) \notin Nat}
<1>1. ASSUME T # {} PROVE FALSE
  <2>1. {} \notin T
    BY SumEmpty
  <2> HIDE DEF T
  <2>2. T \subseteq SUBSET S
    BY DEF T
  <2>3. PICK R \in T : /\ IsFiniteSet(R) /\ R # {} /\ Pick(R) \in S
                       /\ R \ {Pick(R)} \notin T /\ IsFiniteSet(R \ {Pick(R)}) /\ R \ {Pick(R)} \subseteq S
    BY <1>1, <2>1, <2>2, SmallestFailure
  <2>4. SumOver(f, R) = f[Pick(R)] + SumOver(f, R \ {Pick(R)})
    BY <2>3, SumPicked
  <2>5. SumOver(f, R \ {Pick(R)}) \in Nat /\ SumOver(f, R) \notin Nat
    BY <2>2, <2>3 DEF T
  <2> QED
    BY <2>3, <2>4, <2>5
<1> QED
  BY <1>1

\* A sum over a window of places takes its last one apart.
LEMMA SumLast ==
  ASSUME NEW k \in Int, NEW m \in Int, k <= m, NEW f, \A i \in k .. m : f[i] \in Int
  PROVE  SumOver(f, k .. m) = f[m] + SumOver(f, k .. m - 1)
<1> DEFINE S == k .. m
<1>1. S \ {m} = k .. m - 1 /\ m \in S
  OBVIOUS
<1>2. IsFiniteSet(S)
  BY FS_Interval
<1> HIDE DEF S
<1>3. SumOver(f, S) = f[m] + SumOver(f, S \ {m})
  BY <1>1, <1>2, SumTakes DEF S
<1> QED
  BY <1>1, <1>3 DEF S

\* A sum over a window of places is one over as many places counted from the first.
Stretch(a, n) == a + 1 .. a + n
MovedBy(f, a, n, g) == \A i \in 1 .. n : f[a + i] \in Int /\ g[i] = f[a + i]

\* The two sums are equal.
LEMMA SumShift ==
  ASSUME NEW a \in Int, NEW n \in Nat, NEW f, NEW g, MovedBy(f, a, n, g)
  PROVE  SumOver(f, Stretch(a, n)) = SumOver(g, 1 .. n)
<1>0. \A i \in 1 .. n : f[a + i] \in Int /\ g[i] = f[a + i]
  BY DEF MovedBy
<1> DEFINE T == {m \in 0 .. n : SumOver(f, a + 1 .. a + m) # SumOver(g, 1 .. m)}
<1>1. ASSUME T # {} PROVE FALSE
  <2>1. PICK m \in T : \A k \in T : m <= k
    <3>1. T \subseteq Nat
      OBVIOUS
    <3> HIDE DEF T
    <3> QED
      BY <1>1, <3>1, MinimalNat
  <2>2. m # 0
    <3>1. a + 1 .. a + 0 = {} /\ 1 .. 0 = {}
      OBVIOUS
    <3> QED
      BY <2>1, <3>1, SumEmpty
  <2>3. m \in 1 .. n /\ m - 1 \in 0 .. n /\ m - 1 \notin T
    BY <2>1, <2>2
  <2>4. /\ (a + 1 .. a + m) \ {a + m} = a + 1 .. a + (m - 1) /\ a + m \in a + 1 .. a + m
        /\ (1 .. m) \ {m} = 1 .. m - 1 /\ m \in 1 .. m
    BY <2>3
  <2>5. \A i \in a + 1 .. a + m : f[i] \in Int
    <3>1. ASSUME NEW i \in a + 1 .. a + m PROVE f[i] \in Int
      <4>1. i - a \in 1 .. n /\ a + (i - a) = i
        BY <2>3
      <4> QED
        BY <1>0, <4>1
    <3> QED
      BY <3>1
  <2>6. \A i \in 1 .. m : g[i] \in Int
    BY <1>0, <2>3
  <2>7. IsFiniteSet(a + 1 .. a + m) /\ IsFiniteSet(1 .. m)
    <3>1. a + 1 \in Int /\ a + m \in Int /\ 1 \in Int /\ m \in Int
      BY <2>3
    <3> QED
      BY <3>1, FS_Interval
  <2>8. SumOver(f, a + 1 .. a + m) = f[a + m] + SumOver(f, a + 1 .. a + (m - 1))
    <3> DEFINE u == a + 1
               v == a + m
    <3>1. u \in Int /\ v \in Int /\ u <= v /\ v - 1 = a + (m - 1) /\ \A i \in u .. v : f[i] \in Int
      BY <2>3, <2>5
    <3> HIDE DEF u, v, T
    <3>2. SumOver(f, u .. v) = f[v] + SumOver(f, u .. v - 1)
      BY <3>1, SumLast
    <3> QED
      BY <3>1, <3>2 DEF u, v
  <2>9. SumOver(g, 1 .. m) = g[m] + SumOver(g, 1 .. m - 1)
    <3> HIDE DEF T
    <3> QED
      BY <2>3, <2>6, SumLast
  <2> QED
    BY <1>0, <2>1, <2>3, <2>8, <2>9
<1>2. n \notin T
  BY <1>1
<1> QED
  BY <1>2 DEF Stretch

\* Extremes of finitely many numbers, of which there is one.
LEMMA Extremes ==
  ASSUME NEW S, IsFiniteSet(S), S # {}, S \subseteq Int
  PROVE  /\ Max(S) \in S /\ \A x \in S : x <= Max(S)
         /\ Min(S) \in S /\ \A x \in S : Min(S) <= x
<1>1. \E m \in S : \A x \in S : m >= x
  BY LargestInt
<1>2. Max(S) \in S /\ \A x \in S : x <= Max(S)
  BY <1>1 DEF Max
<1>3. \E m \in S : \A x \in S : m <= x
  BY SmallestInt
<1>4. Min(S) \in S /\ \A x \in S : Min(S) <= x
  BY <1>3 DEF Min
<1> QED
  BY <1>2, <1>4

-----------------------------------------------------------------------------
(* Fractions in lowest terms *)

Fracs == {x \in Int \X (Nat \ {0}) : Frac(x[1], x[2]) = x}

\* Cancelling leaves nothing to cancel.
LEMMA FracIn ==
  ASSUME NEW n \in Int, NEW d \in Nat \ {0}
  PROVE  Frac(n, d) \in Fracs
<1>1. PICK g \in Nat \ {0}, k \in Int, l \in Nat \ {0} :
         n = g * k /\ d = g * l /\ Frac(n, d) = <<k, l>>
  BY FracIs
<1>2. Frac(g * k, g * l) = Frac(k, l)
  BY FracScales
<1> QED
  BY <1>1, <1>2 DEF Fracs

\* A pair is a ratio of its own parts.
LEMMA SelfRatio ==
  ASSUME NEW x \in Int \X (Nat \ {0})
  PROVE  Ratio(x, x[1], x[2])
BY DEF Ratio

\* Two fractions in lowest terms are one when their ratios are.
LEMMA RatioEqual ==
  ASSUME NEW x \in Fracs, NEW y \in Fracs, NEW n, NEW d, NEW m, NEW e, Ratio(x, n, d), Ratio(y, m, e)
  PROVE  x = y <=> n * e = m * d
<1>1. PICK a \in Int, b \in Nat \ {0}, p \in Int, q \in Nat \ {0} : x = <<a, b>> /\ y = <<p, q>>
  BY DEF Fracs
<1>2. /\ n \in Int /\ d \in Nat \ {0} /\ m \in Int /\ e \in Nat \ {0}
      /\ a * d = n * b /\ p * e = m * q
  BY <1>1 DEF Ratio
<1>3. x = Frac(n, d) /\ y = Frac(m, e)
  <2>1. Frac(a, b) = Frac(n, d) /\ Frac(p, q) = Frac(m, e)
    BY <1>2, SameFrac
  <2> QED
    BY <1>1, <2>1 DEF Fracs
<1>4. n * e = m * d => x = y
  BY <1>2, <1>3, SameFrac
<1>5. ASSUME a = p, b = q PROVE n * e = m * d
  <2>1. /\ (n * e) * b = (n * b) * e /\ (m * d) * b = (m * b) * d
        /\ (a * d) * e = (a * e) * d
    BY <1>2
  <2>2. (n * e) * b = (m * d) * b
    BY <1>2, <1>5, <2>1
  <2>3. n * e \in Int /\ m * d \in Int
    BY <1>2
  <2> QED
    BY <2>2, <2>3, Multiples
<1> QED
  BY <1>1, <1>4, <1>5

\* Whole numbers are in lowest terms.
LEMMA WholeIn ==
  ASSUME NEW n \in Int
  PROVE  Whole1(n) \in Fracs
<1> DEFINE d == 1
<1>0. d \in Nat \ {0}
  OBVIOUS
<1> HIDE DEF d
<1>1. PICK g \in Nat \ {0}, k \in Int, l \in Nat \ {0} :
         n = g * k /\ d = g * l /\ Frac(n, d) = <<k, l>>
  BY <1>0, FracIs
<1> USE DEF d
<1>2. g = 1 /\ l = 1
  <2>1. g <= g * l /\ l <= g * l
    <3>1. g * l = g + g * (l - 1) /\ g * l = l + l * (g - 1)
      OBVIOUS
    <3>2. g * (l - 1) \in Nat /\ l * (g - 1) \in Nat
      OBVIOUS
    <3> QED
      BY <3>1, <3>2
  <2> QED
    BY <1>1, <2>1
<1>3. k = n
  BY <1>1, <1>2
<1> QED
  BY <1>1, <1>2, <1>3 DEF Fracs, Whole1

\* So are the results of the arithmetic.
LEMMA ArithmeticIn ==
  ASSUME NEW x \in Int \X (Nat \ {0}), NEW y \in Int \X (Nat \ {0})
  PROVE  Times(x, y) \in Fracs /\ Plus(x, y) \in Fracs /\ Minus(x, y) \in Fracs
<1>1. PICK a \in Int, b \in Nat \ {0}, p \in Int, q \in Nat \ {0} : x = <<a, b>> /\ y = <<p, q>>
  OBVIOUS
<1>2. b * q \in Nat \ {0} /\ a * p \in Int /\ a * q + p * b \in Int /\ a * q + (-p) * b \in Int
  <2>1. b * q = b + b * (q - 1) /\ b * (q - 1) \in Nat
    OBVIOUS
  <2> QED
    BY <2>1
<1>3. /\ Times(x, y) = Frac(a * p, b * q) /\ Plus(x, y) = Frac(a * q + p * b, b * q)
      /\ Minus(x, y) = Frac(a * q + (-p) * b, b * q)
  BY <1>1 DEF Times, Plus, Minus
<1> HIDE <1>1
<1> QED
  BY <1>2, <1>3, FracIn

\* Fractions multiply in any order.
LEMMA TimesLaws ==
  ASSUME NEW x \in Fracs, NEW y \in Fracs, NEW z \in Fracs
  PROVE  /\ Times(x, y) \in Fracs /\ Times(x, y) = Times(y, x)
         /\ Times(Times(x, y), z) = Times(x, Times(y, z)) /\ Times(Whole1(1), x) = x
<1>1. PICK a \in Int, b \in Nat \ {0}, p \in Int, q \in Nat \ {0}, u \in Int, v \in Nat \ {0} :
         x = <<a, b>> /\ y = <<p, q>> /\ z = <<u, v>>
  BY DEF Fracs
<1>2. /\ x \in Int \X (Nat \ {0}) /\ y \in Int \X (Nat \ {0}) /\ z \in Int \X (Nat \ {0})
      /\ Whole1(1) \in Int \X (Nat \ {0})
  BY <1>1 DEF Whole1
<1>3. Times(x, y) \in Fracs /\ Times(y, x) \in Fracs /\ Times(y, z) \in Fracs /\ Times(Whole1(1), x) \in Fracs
  BY <1>2, ArithmeticIn
<1>4. Times(Times(x, y), z) \in Fracs /\ Times(x, Times(y, z)) \in Fracs
  BY <1>2, <1>3, ArithmeticIn DEF Fracs
<1>5. Ratio(x, a, b) /\ Ratio(y, p, q) /\ Ratio(z, u, v) /\ Ratio(Whole1(1), 1, 1)
  BY <1>1, <1>2, SelfRatio DEF Whole1
<1>6. /\ Ratio(Times(x, y), a * p, b * q) /\ Ratio(Times(y, x), p * a, q * b)
      /\ Ratio(Times(y, z), p * u, q * v) /\ Ratio(Times(Whole1(1), x), 1 * a, 1 * b)
  BY <1>5, TimesRatio
<1>7. Ratio(Times(Times(x, y), z), (a * p) * u, (b * q) * v) /\ Ratio(Times(x, Times(y, z)), a * (p * u), b * (q * v))
  BY <1>5, <1>6, TimesRatio
<1>8. /\ a * p = p * a /\ b * q = q * b /\ 1 * a = a /\ 1 * b = b
      /\ (a * p) * u = a * (p * u) /\ (b * q) * v = b * (q * v)
  OBVIOUS
<1>9. Times(x, y) = Times(y, x) /\ Times(Whole1(1), x) = x
  <2>1. (a * p) * (q * b) = (p * a) * (b * q) /\ (1 * a) * b = a * (1 * b)
    BY <1>8
  <2>2. Times(x, y) = Times(y, x)
    BY <1>3, <1>6, <2>1, RatioEqual
  <2>3. Times(Whole1(1), x) = x
    <3>1. Times(Whole1(1), x) = Frac(1 * a, 1 * b)
      BY <1>1 DEF Times, Whole1
    <3>2. Times(Whole1(1), x) = Frac(a, b)
      BY <1>8, <3>1
    <3> QED
      BY <1>1, <3>2 DEF Fracs
  <2> QED
    BY <2>2, <2>3
<1>10. Times(Times(x, y), z) = Times(x, Times(y, z))
  <2>1. ((a * p) * u) * (b * (q * v)) = (a * (p * u)) * ((b * q) * v)
    BY <1>8
  <2> QED
    BY <1>4, <1>7, <2>1, RatioEqual
<1> QED
  BY <1>3, <1>9, <1>10

-----------------------------------------------------------------------------
(* Products of fractions *)

\* What the community module tabulates for a product, and that it is the fold above.
ProductRule(f, S, g) == IF S = {} THEN Whole1(1) ELSE Times(g[S \ {Pick(S)}], f[Pick(S)])
IsProductTable(f, X, g) == g = [S \in SUBSET X |-> ProductRule(f, S, g)]

\* The community module's product is the fold of this module.
LEMMA ProductIsFold ==
  ASSUME NEW f, NEW X, IsFiniteSet(X)
  PROVE  ProductOfFractions(f, X) = FoldOver("product", f, X)
<1>1. ProductOfFractions(f, X) = (CHOOSE g : IsProductTable(f, X, g))[X]
  BY DEF ProductOfFractions, FoldSet, MapThenFoldSet, IsProductTable, ProductRule, Pick
<1>2. ASSUME NEW g PROVE IsProductTable(f, X, g) <=> Tabulates("product", f, X, g)
  <2>1. \A S : ProductRule(f, S, g) = Folded("product", f, S, g)
    BY DEF ProductRule, Folded, Neutral, Join
  <2> QED
    BY <2>1 DEF IsProductTable, Tabulates
<1>3. \E g : IsProductTable(f, X, g)
  BY <1>2, TableExists
<1>4. IsProductTable(f, X, CHOOSE g : IsProductTable(f, X, g))
  BY <1>3
<1> QED
  BY <1>1, <1>2, <1>4, FoldIsEntry

\* A product over nothing is 1.
LEMMA ProductEmpty ==
  ASSUME NEW f
  PROVE  ProductOfFractions(f, {}) = Whole1(1)
BY FS_EmptySet, ProductIsFold, FoldEmpty DEF Neutral

\* A product is that of its picked element and the rest.
LEMMA ProductPicked ==
  ASSUME NEW f, NEW S, IsFiniteSet(S), S # {}
  PROVE  ProductOfFractions(f, S) = Times(ProductOfFractions(f, S \ {Pick(S)}), f[Pick(S)])
<1>1. IsFiniteSet(S \ {Pick(S)})
  BY FS_Subset
<1>2. FoldOver("product", f, S) = Times(FoldOver("product", f, S \ {Pick(S)}), f[Pick(S)])
  BY FoldPicked DEF Join
<1> QED
  BY <1>1, <1>2, ProductIsFold

\* A product of fractions is one.
LEMMA ProductIn ==
  ASSUME NEW f, NEW S, IsFiniteSet(S), \A x \in S : f[x] \in Fracs
  PROVE  ProductOfFractions(f, S) \in Fracs
<1> DEFINE T == {R \in SUBSET S : ProductOfFractions(f, R) \notin Fracs}
<1>1. ASSUME T # {} PROVE FALSE
  <2>1. {} \notin T
    BY ProductEmpty, WholeIn
  <2>2. T \subseteq SUBSET S
    OBVIOUS
  <2> HIDE DEF T
  <2>3. PICK R \in T : /\ IsFiniteSet(R) /\ R # {} /\ Pick(R) \in S
                       /\ R \ {Pick(R)} \notin T /\ IsFiniteSet(R \ {Pick(R)}) /\ R \ {Pick(R)} \subseteq S
    BY <1>1, <2>1, <2>2, SmallestFailure
  <2>4. ProductOfFractions(f, R) = Times(ProductOfFractions(f, R \ {Pick(R)}), f[Pick(R)])
    BY <2>3, ProductPicked
  <2>5. ProductOfFractions(f, R \ {Pick(R)}) \in Fracs /\ ProductOfFractions(f, R) \notin Fracs
    BY <2>2, <2>3 DEF T
  <2>6. f[Pick(R)] \in Fracs
    BY <2>3
  <2> QED
    BY <2>4, <2>5, <2>6, TimesLaws
<1> QED
  BY <1>1

\* Functions that agree on a set have the same product over it.
LEMMA ProductSame ==
  ASSUME NEW f, NEW h, NEW S, IsFiniteSet(S), \A x \in S : f[x] = h[x]
  PROVE  ProductOfFractions(f, S) = ProductOfFractions(h, S)
<1> DEFINE T == {R \in SUBSET S : ProductOfFractions(f, R) # ProductOfFractions(h, R)}
<1>1. ASSUME T # {} PROVE FALSE
  <2>1. {} \notin T
    BY ProductEmpty
  <2>2. T \subseteq SUBSET S
    OBVIOUS
  <2> HIDE DEF T
  <2>3. PICK R \in T : /\ IsFiniteSet(R) /\ R # {} /\ Pick(R) \in S
                       /\ R \ {Pick(R)} \notin T /\ IsFiniteSet(R \ {Pick(R)}) /\ R \ {Pick(R)} \subseteq S
    BY <1>1, <2>1, <2>2, SmallestFailure
  <2>4. /\ ProductOfFractions(f, R) = Times(ProductOfFractions(f, R \ {Pick(R)}), f[Pick(R)])
        /\ ProductOfFractions(h, R) = Times(ProductOfFractions(h, R \ {Pick(R)}), h[Pick(R)])
    BY <2>3, ProductPicked
  <2>5. /\ ProductOfFractions(f, R \ {Pick(R)}) = ProductOfFractions(h, R \ {Pick(R)})
        /\ ProductOfFractions(f, R) # ProductOfFractions(h, R)
    BY <2>2, <2>3 DEF T
  <2>6. f[Pick(R)] = h[Pick(R)]
    BY <2>3
  <2> QED
    BY <2>4, <2>5, <2>6
<1> QED
  BY <1>1

\* A product of ones is 1.
LEMMA ProductOne ==
  ASSUME NEW f, NEW S, IsFiniteSet(S), \A x \in S : f[x] = Whole1(1)
  PROVE  ProductOfFractions(f, S) = Whole1(1)
<1> DEFINE T == {R \in SUBSET S : ProductOfFractions(f, R) # Whole1(1)}
<1>1. ASSUME T # {} PROVE FALSE
  <2>1. {} \notin T
    BY ProductEmpty
  <2>2. T \subseteq SUBSET S
    OBVIOUS
  <2> HIDE DEF T
  <2>3. PICK R \in T : /\ IsFiniteSet(R) /\ R # {} /\ Pick(R) \in S
                       /\ R \ {Pick(R)} \notin T /\ IsFiniteSet(R \ {Pick(R)}) /\ R \ {Pick(R)} \subseteq S
    BY <1>1, <2>1, <2>2, SmallestFailure
  <2>4. ProductOfFractions(f, R) = Times(ProductOfFractions(f, R \ {Pick(R)}), f[Pick(R)])
    BY <2>3, ProductPicked
  <2>5. ProductOfFractions(f, R \ {Pick(R)}) = Whole1(1) /\ ProductOfFractions(f, R) # Whole1(1)
    BY <2>2, <2>3 DEF T
  <2>6. f[Pick(R)] = Whole1(1)
    BY <2>3
  <2>7. Whole1(1) \in Fracs
    BY WholeIn
  <2> QED
    BY <2>4, <2>5, <2>6, <2>7, TimesLaws
<1> QED
  BY <1>1

\* Any element may be multiplied last.
LEMMA ProductTakes ==
  ASSUME NEW f, NEW S, IsFiniteSet(S), \A x \in S : f[x] \in Fracs, NEW a \in S
  PROVE  ProductOfFractions(f, S) = Times(ProductOfFractions(f, S \ {a}), f[a])
<1> DEFINE T == {R \in SUBSET S :
                   \E b \in R : ProductOfFractions(f, R) # Times(ProductOfFractions(f, R \ {b}), f[b])}
<1>1. ASSUME T # {} PROVE FALSE
  <2>1. \A R \in T : IsFiniteSet(R)
    BY FS_Subset
  <2>2. PICK R \in T : \A Q \in T : Q \subseteq R => Q = R
    <3> HIDE DEF T
    <3> QED
      BY <1>1, <2>1, MinimalSet
  <2>3. PICK b \in R : ProductOfFractions(f, R) # Times(ProductOfFractions(f, R \ {b}), f[b])
    OBVIOUS
  <2> DEFINE x == Pick(R)
             Q == R \ {x, b}
  <2>4. x \in R /\ ProductOfFractions(f, R) = Times(ProductOfFractions(f, R \ {x}), f[x])
    BY <2>1, <2>3, PickIn, ProductPicked
  <2>5. x # b
    BY <2>3, <2>4
  <2>6. ProductOfFractions(f, R \ {x}) = Times(ProductOfFractions(f, Q), f[b])
    <3>1. R \ {x} \notin T /\ b \in R \ {x} /\ (R \ {x}) \ {b} = Q
      BY <2>2, <2>4, <2>5
    <3> QED
      BY <3>1
  <2>7. ProductOfFractions(f, R \ {b}) = Times(ProductOfFractions(f, Q), f[x])
    <3>1. R \ {b} \notin T /\ x \in R \ {b} /\ (R \ {b}) \ {x} = Q
      BY <2>2, <2>4, <2>5
    <3> QED
      BY <3>1
  <2>8. f[x] \in Fracs /\ f[b] \in Fracs /\ ProductOfFractions(f, Q) \in Fracs
    <3>1. IsFiniteSet(Q) /\ Q \subseteq S
      BY <2>1, FS_Subset
    <3> HIDE DEF Q
    <3>2. ProductOfFractions(f, Q) \in Fracs
      BY <3>1, ProductIn
    <3> QED
      BY <3>2, <2>4
  <2> HIDE DEF x, Q
  <2> DEFINE q == ProductOfFractions(f, Q)
             u == f[x]
             v == f[b]
  <2>9. q \in Fracs /\ u \in Fracs /\ v \in Fracs
    BY <2>8
  <2>10. Times(Times(q, v), u) # Times(Times(q, u), v)
    BY <2>3, <2>4, <2>6, <2>7
  <2> HIDE DEF q, u, v
  <2>11. /\ Times(Times(q, v), u) = Times(q, Times(v, u)) /\ Times(Times(q, u), v) = Times(q, Times(u, v))
         /\ Times(u, v) = Times(v, u)
    BY <2>9, TimesLaws
  <2> QED
    BY <2>10, <2>11
<1>2. S \notin T
  BY <1>1
<1> QED
  BY <1>2

\* A product over a set is the product over a partition of it of the products of the parts.
LEMMA ProductFibres ==
  ASSUME NEW f, NEW S, IsFiniteSet(S), \A x \in S : f[x] \in Fracs,
         NEW h, NEW K, IsFiniteSet(K), \A x \in S : h[x] \in K
  PROVE  ProductOfFractions(f, S) =
           ProductOfFractions([k \in K |-> ProductOfFractions(f, {x \in S : h[x] = k})], K)
<1> DEFINE Class(R, k) == {x \in R : h[x] = k}
           Parts(R) == [k \in K |-> ProductOfFractions(f, Class(R, k))]
           T == {R \in SUBSET S : ProductOfFractions(f, R) # ProductOfFractions(Parts(R), K)}
<1>1. \A R \in SUBSET S : IsFiniteSet(R)
  BY FS_Subset
<1>2. ASSUME T # {} PROVE FALSE
  <2>1. PICK R \in T : \A Q \in T : Q \subseteq R => Q = R
    <3>1. \A R \in T : IsFiniteSet(R)
      BY <1>1
    <3> HIDE DEF T
    <3> QED
      BY <1>2, <3>1, MinimalSet
  <2>2. R # {}
    <3>1. ASSUME R = {} PROVE FALSE
      <4>1. \A k \in K : Parts(R)[k] = Whole1(1)
        <5>1. \A k \in K : Class(R, k) = {}
          BY <3>1
        <5> QED
          BY <5>1, ProductEmpty
      <4>2. ProductOfFractions(Parts(R), K) = Whole1(1)
        <5> HIDE DEF Parts
        <5> QED
          BY <4>1, ProductOne
      <4> QED
        BY <3>1, <4>2, ProductEmpty
    <3> QED
      BY <3>1
  <2>3. PICK a \in R : TRUE
    BY <2>2
  <2> DEFINE Q == R \ {a}
             b == h[a]
  <2>4. ProductOfFractions(f, Q) = ProductOfFractions(Parts(Q), K)
    <3>1. Q \in SUBSET S /\ Q \subseteq R /\ Q # R
      BY <2>3
    <3> HIDE DEF Q
    <3> QED
      BY <2>1, <3>1
  <2>5. a \in S /\ b \in K /\ f[a] \in Fracs /\ R \in SUBSET S
    BY <2>3
  <2>6. ProductOfFractions(f, R) = Times(ProductOfFractions(f, Q), f[a])
    BY <1>1, <2>3, ProductTakes
  <2>7. Parts(R)[b] = Times(Parts(Q)[b], f[a])
    <3>1. /\ a \in Class(R, b) /\ Class(R, b) \ {a} = Class(Q, b)
          /\ Class(R, b) \in SUBSET S
      BY <2>3
    <3>2. ProductOfFractions(f, Class(R, b)) = Times(ProductOfFractions(f, Class(R, b) \ {a}), f[a])
      <4> HIDE DEF Class
      <4> QED
        BY <1>1, <3>1, ProductTakes
    <3> QED
      BY <2>5, <3>1, <3>2
  <2>8. ASSUME NEW k \in K, k # b PROVE Parts(R)[k] = Parts(Q)[k]
    <3>1. Class(R, k) = Class(Q, k)
      BY <2>8
    <3> QED
      BY <3>1
  <2>9. \A k \in K : Parts(R)[k] \in Fracs /\ Parts(Q)[k] \in Fracs
    <3>1. ASSUME NEW P \in {R, Q}, NEW k \in K PROVE Parts(P)[k] \in Fracs
      <4>1. Class(P, k) \in SUBSET S
        OBVIOUS
      <4>2. ProductOfFractions(f, Class(P, k)) \in Fracs
        <5> HIDE DEF Class
        <5> QED
          BY <1>1, <4>1, ProductIn
      <4> QED
        BY <4>2
    <3> QED
      BY <3>1
  <2>10. ProductOfFractions(f, R) # ProductOfFractions(Parts(R), K)
    OBVIOUS
  <2> HIDE DEF Parts, Q, b
  <2>11. /\ ProductOfFractions(Parts(R), K) = Times(ProductOfFractions(Parts(R), K \ {b}), Parts(R)[b])
         /\ ProductOfFractions(Parts(Q), K) = Times(ProductOfFractions(Parts(Q), K \ {b}), Parts(Q)[b])
    BY <2>5, <2>9, ProductTakes
  <2>12. IsFiniteSet(K \ {b})
    BY FS_Subset
  <2>13. ProductOfFractions(Parts(R), K \ {b}) = ProductOfFractions(Parts(Q), K \ {b})
    BY <2>8, <2>12, ProductSame
  <2>14. ProductOfFractions(Parts(Q), K \ {b}) \in Fracs
    BY <2>9, <2>12, ProductIn
  <2>15. Times(ProductOfFractions(Parts(Q), K \ {b}), Times(Parts(Q)[b], f[a]))
           = Times(Times(ProductOfFractions(Parts(Q), K \ {b}), Parts(Q)[b]), f[a])
    BY <2>5, <2>9, <2>14, TimesLaws
  <2> QED
    BY <2>4, <2>6, <2>7, <2>10, <2>11, <2>13, <2>15
<1>3. S \notin T
  BY <1>2
<1> QED
  BY <1>3

-----------------------------------------------------------------------------
(* Sums of fractions *)

\* What the community module tabulates for one, and that it is the fold above.
FractionRule(f, S, g) == IF S = {} THEN Whole1(0) ELSE Plus(g[S \ {Pick(S)}], f[Pick(S)])
IsFractionTable(f, X, g) == g = [S \in SUBSET X |-> FractionRule(f, S, g)]

\* The community module's sum of fractions is the fold of this module.
LEMMA FractionsIsFold ==
  ASSUME NEW f, NEW X, IsFiniteSet(X)
  PROVE  SumOfFractions(f, X) = FoldOver("fractions", f, X)
<1>1. SumOfFractions(f, X) = (CHOOSE g : IsFractionTable(f, X, g))[X]
  BY DEF SumOfFractions, FoldSet, MapThenFoldSet, IsFractionTable, FractionRule, Pick
<1>2. ASSUME NEW g PROVE IsFractionTable(f, X, g) <=> Tabulates("fractions", f, X, g)
  <2>1. \A S : FractionRule(f, S, g) = Folded("fractions", f, S, g)
    BY DEF FractionRule, Folded, Neutral, Join
  <2> QED
    BY <2>1 DEF IsFractionTable, Tabulates
<1>3. \E g : IsFractionTable(f, X, g)
  BY <1>2, TableExists
<1>4. IsFractionTable(f, X, CHOOSE g : IsFractionTable(f, X, g))
  BY <1>3
<1> QED
  BY <1>1, <1>2, <1>4, FoldIsEntry

\* A sum over nothing is 0.
LEMMA FractionsEmpty ==
  ASSUME NEW f
  PROVE  SumOfFractions(f, {}) = Whole1(0)
BY FS_EmptySet, FractionsIsFold, FoldEmpty DEF Neutral

\* A sum is that of its picked element and the rest.
LEMMA FractionsPicked ==
  ASSUME NEW f, NEW S, IsFiniteSet(S), S # {}
  PROVE  SumOfFractions(f, S) = Plus(SumOfFractions(f, S \ {Pick(S)}), f[Pick(S)])
<1>1. IsFiniteSet(S \ {Pick(S)})
  BY FS_Subset
<1>2. FoldOver("fractions", f, S) = Plus(FoldOver("fractions", f, S \ {Pick(S)}), f[Pick(S)])
  BY FoldPicked DEF Join
<1> QED
  BY <1>1, <1>2, FractionsIsFold

\* One step of a bound on an average: k / l bounds a / b over m terms and c / d, so it bounds
\* their sum over one term more.
LEMMA BoundStep ==
  ASSUME NEW k \in Int, NEW l \in Nat \ {0}, NEW a \in Int, NEW b \in Nat \ {0}, NEW c \in Int,
         NEW d \in Nat \ {0}, NEW m \in Nat
  PROVE  /\ m * k * b <= a * l /\ k * d <= c * l => (m + 1) * k * (b * d) <= (a * d + c * b) * l
         /\ a * l <= m * k * b /\ c * l <= k * d => (a * d + c * b) * l <= (m + 1) * k * (b * d)
<1> DEFINE u == m * k * b
           v == a * l
           s == k * d
           t == c * l
<1>1. u \in Int /\ v \in Int /\ s \in Int /\ t \in Int
  OBVIOUS
<1>2. (m + 1) * k * (b * d) = u * d + s * b
  <2>1. (m + 1) * k = m * k + k
    OBVIOUS
  <2>2. (m * k + k) * (b * d) = (m * k) * (b * d) + k * (b * d)
    OBVIOUS
  <2>3. (m * k) * (b * d) = ((m * k) * b) * d /\ k * (b * d) = (k * d) * b
    OBVIOUS
  <2> QED
    BY <2>1, <2>2, <2>3
<1>3. (a * d + c * b) * l = v * d + t * b
  <2>1. (a * d + c * b) * l = (a * d) * l + (c * b) * l
    OBVIOUS
  <2>2. (a * d) * l = (a * l) * d /\ (c * b) * l = (c * l) * b
    OBVIOUS
  <2> QED
    BY <2>1, <2>2
<1>4. (u <= v => u * d <= v * d) /\ (v <= u => v * d <= u * d)
  <2> HIDE DEF u, v
  <2>1. (u < v <=> u * d < v * d) /\ (u = v <=> u * d = v * d) /\ (v < u <=> v * d < u * d)
    BY <1>1, Multiples
  <2>2. u * d \in Int /\ v * d \in Int
    BY <1>1
  <2> QED
    BY <1>1, <2>1, <2>2
<1>5. (s <= t => s * b <= t * b) /\ (t <= s => t * b <= s * b)
  <2> HIDE DEF s, t
  <2>1. (s < t <=> s * b < t * b) /\ (s = t <=> s * b = t * b) /\ (t < s <=> t * b < s * b)
    BY <1>1, Multiples
  <2>2. s * b \in Int /\ t * b \in Int
    BY <1>1
  <2> QED
    BY <1>1, <2>1, <2>2
<1>6. u * d \in Int /\ v * d \in Int /\ s * b \in Int /\ t * b \in Int
  BY <1>1
<1> HIDE DEF u, v, s, t
<1>7. /\ u <= v /\ s <= t => u * d + s * b <= v * d + t * b
      /\ v <= u /\ t <= s => v * d + t * b <= u * d + s * b
  BY <1>4, <1>5, <1>6
<1> QED
  BY <1>2, <1>3, <1>7 DEF u, v, s, t

\* What bounds the ratio bounds the fraction.
LEMMA RatioBound ==
  ASSUME NEW x, NEW n, NEW d, Ratio(x, n, d), NEW s \in Int, NEW l \in Nat \ {0}
  PROVE  (s * d <= n * l <=> s * x[2] <= x[1] * l) /\ (n * l <= s * d <=> x[1] * l <= s * x[2])
<1> DEFINE y == <<s, l>>
<1>1. Ratio(y, s, l) /\ y[1] = s /\ y[2] = l
  BY DEF Ratio
<1>2. /\ Less(x, y) <=> x[1] * l < s * x[2]
      /\ Less(y, x) <=> s * x[2] < x[1] * l
  BY <1>1 DEF Less
<1> HIDE DEF y
<1>3. (Less(x, y) <=> n * l < s * d) /\ (Less(y, x) <=> s * d < n * l)
  BY <1>1, LessRatio
<1>4. {n * l, s * d, x[1] * l, s * x[2]} \subseteq Int
  BY DEF Ratio
<1> QED
  BY <1>2, <1>3, <1>4

\* What bounds every term of a sum bounds, as often, the sum.
LEMMA FractionsBound ==
  ASSUME NEW S, IsFiniteSet(S), NEW f, \A x \in S : f[x] \in Int \X (Nat \ {0}),
         NEW k \in Int, NEW l \in Nat \ {0}
  PROVE  /\ SumOfFractions(f, S) \in Int \X (Nat \ {0})
         /\ (\A x \in S : k * f[x][2] <= f[x][1] * l) =>
               Cardinality(S) * k * SumOfFractions(f, S)[2] <= SumOfFractions(f, S)[1] * l
         /\ (\A x \in S : f[x][1] * l <= k * f[x][2]) =>
               SumOfFractions(f, S)[1] * l <= Cardinality(S) * k * SumOfFractions(f, S)[2]
<1> DEFINE Lower == \A x \in S : k * f[x][2] <= f[x][1] * l
           Upper == \A x \in S : f[x][1] * l <= k * f[x][2]
           Bounded(R) ==
             LET u == SumOfFractions(f, R)
             IN /\ u \in Int \X (Nat \ {0})
                /\ Lower => Cardinality(R) * k * u[2] <= u[1] * l
                /\ Upper => u[1] * l <= Cardinality(R) * k * u[2]
           T == {R \in SUBSET S : ~Bounded(R)}
<1>1. ASSUME T # {} PROVE FALSE
  <2>1. {} \notin T
    <3>1. SumOfFractions(f, {}) = <<0, 1>> /\ Cardinality({}) = 0
      BY FractionsEmpty, FS_EmptySet DEF Whole1
    <3>2. 0 * k * 1 = 0 /\ 0 * l = 0
      OBVIOUS
    <3>3. Bounded({})
      BY <3>1, <3>2
    <3> QED
      BY <3>3
  <2>2. T \subseteq SUBSET S
    OBVIOUS
  <2> HIDE DEF T
  <2>3. PICK R \in T : /\ IsFiniteSet(R) /\ R # {} /\ Pick(R) \in S
                       /\ R \ {Pick(R)} \notin T /\ IsFiniteSet(R \ {Pick(R)}) /\ R \ {Pick(R)} \subseteq S
    BY <1>1, <2>1, <2>2, SmallestFailure
  <2> DEFINE Q == R \ {Pick(R)}
             u == SumOfFractions(f, Q)
             v == f[Pick(R)]
             w == SumOfFractions(f, R)
  <2>4. w = Plus(u, v)
    BY <2>3, FractionsPicked
  <2>5. Bounded(Q) /\ ~Bounded(R) /\ v \in Int \X (Nat \ {0})
    <3> HIDE DEF Bounded
    <3> QED
      BY <2>2, <2>3 DEF T
  <2>6. Cardinality(R) = Cardinality(Q) + 1 /\ Cardinality(Q) \in Nat
    <3>1. Cardinality(Q) = Cardinality(R) - 1 /\ Cardinality(R) \in Nat /\ Cardinality(Q) \in Nat
      BY <2>3, PickIn, FS_RemoveElement, FS_CardinalityType
    <3> QED
      BY <3>1
  <2>7. u \in Int \X (Nat \ {0})
    BY <2>5
  <2>8. /\ Lower => k * v[2] <= v[1] * l /\ Cardinality(Q) * k * u[2] <= u[1] * l
        /\ Upper => v[1] * l <= k * v[2] /\ u[1] * l <= Cardinality(Q) * k * u[2]
    BY <2>3, <2>5
  <2>9. ~ /\ w \in Int \X (Nat \ {0})
          /\ Lower => Cardinality(R) * k * w[2] <= w[1] * l
          /\ Upper => w[1] * l <= Cardinality(R) * k * w[2]
    BY <2>5
  <2> HIDE DEF Q, u, v, w, Lower, Upper, Bounded
  <2>10. PICK a \in Int, b \in Nat \ {0}, c \in Int, d \in Nat \ {0} : u = <<a, b>> /\ v = <<c, d>>
    BY <2>5, <2>7
  <2>11. PICK m \in Nat : m = Cardinality(Q) /\ m + 1 = Cardinality(R)
    BY <2>6
  <2>12. Ratio(w, a * d + c * b, b * d)
    <3>1. Ratio(u, a, b) /\ Ratio(v, c, d)
      BY <2>10 DEF Ratio
    <3> QED
      BY <2>4, <3>1, PlusRatio
  <2>13. (m + 1) * k \in Int /\ w \in Int \X (Nat \ {0})
    BY <2>12 DEF Ratio
  <2>14. /\ (m + 1) * k * (b * d) <= (a * d + c * b) * l <=> (m + 1) * k * w[2] <= w[1] * l
         /\ (a * d + c * b) * l <= (m + 1) * k * (b * d) <=> w[1] * l <= (m + 1) * k * w[2]
    <3> DEFINE s == (m + 1) * k
               n == a * d + c * b
               e == b * d
    <3>1. Ratio(w, n, e) /\ s \in Int
      BY <2>12, <2>13
    <3> HIDE DEF s, n, e
    <3>2. /\ s * e <= n * l <=> s * w[2] <= w[1] * l
          /\ n * l <= s * e <=> w[1] * l <= s * w[2]
      BY <3>1, RatioBound
    <3> QED
      BY <3>2 DEF s, n, e
  <2>15. Lower => (m + 1) * k * w[2] <= w[1] * l
    <3>1. ASSUME Lower PROVE m * k * b <= a * l /\ k * d <= c * l
      BY <2>8, <2>10, <2>11, <3>1
    <3> QED
      BY <2>14, <3>1, BoundStep
  <2>16. Upper => w[1] * l <= (m + 1) * k * w[2]
    <3>1. ASSUME Upper PROVE a * l <= m * k * b /\ c * l <= k * d
      BY <2>8, <2>10, <2>11, <3>1
    <3> QED
      BY <2>14, <3>1, BoundStep
  <2> QED
    BY <2>9, <2>11, <2>13, <2>15, <2>16
<1>2. Bounded(S)
  BY <1>1
<1> QED
  BY <1>2

-----------------------------------------------------------------------------
(* Functions defined step by step *)

\* Every first value and step make a table over an interval.
StepsFrom(lo, hi, first, step, g) ==
  g = [i \in lo .. hi |-> IF i = lo THEN first ELSE step[<<i, g[i - 1]>>]]

\* There is one such table.
LEMMA StepTable ==
  ASSUME NEW lo \in Int, NEW hi \in Int, lo <= hi, NEW V, NEW first \in V,
         NEW step, \A i \in lo + 1 .. hi, v \in V : step[<<i, v>>] \in V
  PROVE  \E g \in [lo .. hi -> V] : StepsFrom(lo, hi, first, step, g)
<1> DEFINE Has(m) == \E g \in [lo .. m -> V] : StepsFrom(lo, m, first, step, g)
           T == {n \in 0 .. hi - lo : ~Has(lo + n)}
<1>1. ASSUME T # {} PROVE FALSE
  <2>1. PICK n \in T : \A k \in T : n <= k
    <3>1. T \subseteq Nat
      OBVIOUS
    <3> HIDE DEF T
    <3> QED
      BY <1>1, <3>1, MinimalNat
  <2>2. n # 0
    <3>1. Has(lo)
      <4> DEFINE g == [i \in lo .. lo |-> first]
      <4>1. g \in [lo .. lo -> V]
        OBVIOUS
      <4>2. StepsFrom(lo, lo, first, step, g)
        <5>1. \A i \in lo .. lo : i = lo
          OBVIOUS
        <5> QED
          BY <5>1 DEF StepsFrom
      <4> QED
        BY <4>1, <4>2
    <3>2. lo + 0 = lo
      OBVIOUS
    <3> HIDE DEF Has
    <3> QED
      BY <2>1, <3>1, <3>2
  <2> DEFINE m == lo + n
  <2>3. n \in 1 .. hi - lo /\ m \in lo + 1 .. hi /\ m - 1 = lo + (n - 1) /\ n - 1 \notin T /\ n - 1 \in 0 .. hi - lo
    <3>1. n \in 0 .. hi - lo /\ \A k \in T : n <= k
      BY <2>1
    <3> HIDE DEF T
    <3> QED
      BY <2>2, <3>1
  <2>4. Has(m - 1) /\ ~Has(m)
    <3> HIDE DEF Has
    <3> QED
      BY <2>1, <2>3
  <2>5. PICK h \in [lo .. m - 1 -> V] : StepsFrom(lo, m - 1, first, step, h)
    BY <2>4
  <2> DEFINE g == [i \in lo .. m |-> IF i = m THEN step[<<m, h[m - 1]>>] ELSE h[i]]
  <2> HIDE DEF m
  <2>6. m \in Int /\ lo < m /\ m <= hi
    BY <2>3
  <2>7. \A i \in lo .. m : i = m \/ i \in lo .. m - 1
    BY <2>6
  <2>8. \A i \in lo .. m - 1 : i \in lo .. m /\ i # m /\ g[i] = h[i]
    BY <2>6
  <2>9. m - 1 \in lo .. m - 1 /\ m \in lo .. m /\ h[m - 1] \in V
    BY <2>6
  <2>10. g \in [lo .. m -> V]
    <3>1. step[<<m, h[m - 1]>>] \in V
      BY <2>3, <2>9
    <3>2. \A i \in lo .. m : (IF i = m THEN step[<<m, h[m - 1]>>] ELSE h[i]) \in V
      BY <2>7, <3>1
    <3> QED
      BY <3>2
  <2>11. ASSUME NEW i \in lo .. m
         PROVE  g[i] = IF i = lo THEN first ELSE step[<<i, g[i - 1]>>]
    <3>1. CASE i = m
      <4>1. g[i] = step[<<m, h[m - 1]>>] /\ g[m - 1] = h[m - 1] /\ i # lo
        BY <2>6, <2>8, <2>9, <3>1
      <4> HIDE DEF g
      <4> QED
        BY <3>1, <4>1
    <3>2. CASE i \in lo .. m - 1
      <4>1. h[i] = IF i = lo THEN first ELSE step[<<i, h[i - 1]>>]
        BY <2>5, <3>2 DEF StepsFrom
      <4>2. i # lo => i - 1 \in lo .. m - 1
        BY <2>6, <3>2
      <4>3. g[i] = h[i] /\ (i # lo => g[i - 1] = h[i - 1])
        BY <2>8, <3>2, <4>2
      <4> HIDE DEF g
      <4> QED
        BY <4>1, <4>3
    <3> QED
      BY <2>7, <3>1, <3>2
  <2>12. StepsFrom(lo, m, first, step, g)
    <3>1. g = [i \in lo .. m |-> g[i]]
      OBVIOUS
    <3> HIDE DEF g
    <3> QED
      BY <2>11, <3>1 DEF StepsFrom
  <2> QED
    BY <2>4, <2>10, <2>12
<1>2. hi - lo \notin T /\ hi - lo \in 0 .. hi - lo /\ lo + (hi - lo) = hi
  <2> HIDE DEF T
  <2> QED
    BY <1>1
<1>3. Has(hi)
  <2> HIDE DEF Has
  <2> QED
    BY <1>2
<1> QED
  BY <1>3

\* And no other: a table with these steps has the values of that one.
LEMMA StepsAgree ==
  ASSUME NEW lo \in Int, NEW hi \in Int, NEW first, NEW step, NEW g, NEW h,
         StepsFrom(lo, hi, first, step, g), StepsFrom(lo, hi, first, step, h)
  PROVE  \A i \in lo .. hi : g[i] = h[i]
<1> DEFINE T == {n \in Nat : lo + n <= hi /\ g[lo + n] # h[lo + n]}
<1>1. ASSUME T # {} PROVE FALSE
  <2>1. PICK n \in T : \A k \in T : n <= k
    <3>1. T \subseteq Nat
      OBVIOUS
    <3> HIDE DEF T
    <3> QED
      BY <1>1, <3>1, MinimalNat
  <2> DEFINE m == lo + n
  <2>2. m \in lo .. hi /\ m \in Int /\ g[m] # h[m] /\ n \in Nat
    BY <2>1
  <2>3. m # lo => g[m - 1] = h[m - 1]
    <3>1. ASSUME m # lo PROVE n - 1 \in Nat /\ lo + (n - 1) = m - 1 /\ lo + (n - 1) <= hi /\ n - 1 \notin T
      BY <2>1, <2>2, <3>1
    <3> QED
      BY <3>1
  <2> HIDE DEF m
  <2>4. /\ g[m] = IF m = lo THEN first ELSE step[<<m, g[m - 1]>>]
        /\ h[m] = IF m = lo THEN first ELSE step[<<m, h[m - 1]>>]
    BY <2>2 DEF StepsFrom
  <2> QED
    BY <2>2, <2>3, <2>4
<1>2. ASSUME NEW i \in lo .. hi PROVE g[i] = h[i]
  <2>1. i - lo \in Nat /\ lo + (i - lo) = i /\ i <= hi
    OBVIOUS
  <2>2. T = {}
    BY <1>1
  <2> QED
    BY <2>1, <2>2
<1> QED
  BY <1>2

\* And of two.
LEMMA Larger2 ==
  ASSUME NEW p \in Int, NEW q \in Int
  PROVE  /\ IsFiniteSet({p, q}) /\ Max({p, q}) = IF p >= q THEN p ELSE q
         /\ Min({p, q}) = IF p >= q THEN q ELSE p
<1>1. IsFiniteSet({p, q})
  <2>1. IsFiniteSet({p}) /\ {p, q} = {p} \cup {q}
    BY FS_Singleton
  <2> QED
    BY <2>1, FS_AddElement
<1> DEFINE S == {p, q}
<1>2. IsFiniteSet(S) /\ S # {} /\ S \subseteq Int
  BY <1>1
<1> HIDE DEF S
<1>3. Max(S) \in S /\ (\A x \in S : x <= Max(S)) /\ Min(S) \in S /\ \A x \in S : Min(S) <= x
  BY <1>2, Extremes
<1> USE DEF S
<1>4. Max(S) \in {p, q} /\ p <= Max(S) /\ q <= Max(S) /\ Min(S) \in {p, q} /\ Min(S) <= p /\ Min(S) <= q
  BY <1>3
<1> QED
  BY <1>1, <1>4
=============================================================================
