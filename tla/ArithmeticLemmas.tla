--------------------------- MODULE ArithmeticLemmas ---------------------------
(***************************************************************************)
(* Facts about division, products, minima and sums that the proofs share.  *)
(* The provers know the first three for numerals only: they are proved     *)
(* here for any divisor and cited by name.  A sum over a set is a fold,    *)
(* which no prover unfolds: that it exists, is unique and takes its        *)
(* elements in any order is proved by induction over a finite set.  The    *)
(* induction is over a family of subsets, a set like any other, because    *)
(* the provers cannot instantiate a theorem about a predicate.             *)
(***************************************************************************)
EXTENDS Integers, FiniteSetsExt, FiniteSetTheorems, WellFoundedInduction, TLAPS

\* The quotient and the remainder of a positive divisor.
LEMMA DivMod ==
  ASSUME NEW a \in Int, NEW d \in Nat \ {0}
  PROVE  /\ a \div d \in Int
         /\ a % d \in 0..(d - 1)
         /\ a = (d * (a \div d)) + (a % d)
OBVIOUS

\* A quotient below another one is so after multiplication.
LEMMA TimesMonotone ==
  ASSUME NEW d \in Nat \ {0}, NEW p \in Int, NEW q \in Int, p <= q
  PROVE  d * p <= d * q /\ d * p \in Int /\ d * q \in Int
<1>1. d * (q - p) \in Nat
  OBVIOUS
<1>2. d * (q - p) = d * q - d * p
  OBVIOUS
<1> QED BY <1>1, <1>2

LEMMA TimesSucc ==
  ASSUME NEW d \in Int, NEW q \in Int
  PROVE  d * (q + 1) = d * q + d /\ d * q \in Int
OBVIOUS

\* Only one multiple of d is at most a and more than a - d.
LEMMA DivUnique ==
  ASSUME NEW a \in Int, NEW d \in Nat \ {0}, NEW q \in Int,
         d * q <= a, a < d * q + d
  PROVE  a \div d = q
<1> DEFINE p == a \div d
<1>1. p \in Int /\ d * p <= a /\ a < d * p + d /\ d * p \in Int /\ d * q \in Int
  BY DivMod
<1> HIDE DEF p
<1>2. ~(p + 1 <= q)
  <2> SUFFICES ASSUME p + 1 <= q PROVE FALSE
    OBVIOUS
  <2>1. d * (p + 1) <= d * q
    BY <1>1, TimesMonotone
  <2>2. d * (p + 1) = d * p + d
    BY <1>1, TimesSucc
  <2> QED BY <1>1, <2>1, <2>2
<1>3. ~(q + 1 <= p)
  <2> SUFFICES ASSUME q + 1 <= p PROVE FALSE
    OBVIOUS
  <2>1. d * (q + 1) <= d * p
    BY <1>1, TimesMonotone
  <2>2. d * (q + 1) = d * q + d
    BY <1>1, TimesSucc
  <2> QED BY <1>1, <2>1, <2>2
<1>4. p = q
  BY <1>1, <1>2, <1>3
<1> QED BY <1>4 DEF p

\* A later time is not on an earlier day.
LEMMA DivMonotone ==
  ASSUME NEW a \in Int, NEW b \in Int, NEW d \in Nat \ {0}, a <= b
  PROVE  a \div d <= b \div d
<1> DEFINE p == a \div d
           q == b \div d
<1>1. /\ p \in Int /\ q \in Int /\ d * p \in Int /\ d * q \in Int
      /\ d * p <= a /\ b < d * q + d
  BY DivMod
<1> HIDE DEF p, q
<1>2. ~(q + 1 <= p)
  <2> SUFFICES ASSUME q + 1 <= p PROVE FALSE
    OBVIOUS
  <2>1. d * (q + 1) <= d * p
    BY <1>1, TimesMonotone
  <2>2. d * (q + 1) = d * q + d
    BY <1>1, TimesSucc
  <2> QED BY <1>1, <2>1, <2>2
<1>3. p <= q
  BY <1>1, <1>2
<1> QED BY <1>3 DEF p, q

\* The smaller of two numbers is one of them and exceeds neither.
LEMMA MinOfTwo ==
  ASSUME NEW a \in Int, NEW b \in Int
  PROVE  /\ Min({a, b}) \in {a, b}
         /\ Min({a, b}) <= a
         /\ Min({a, b}) <= b
<1>1. \E x \in {a, b} : \A y \in {a, b} : x <= y
  <2>1. CASE a <= b
    BY <2>1
  <2>2. CASE b <= a
    BY <2>2
  <2> QED BY <2>1, <2>2
<1> QED BY <1>1 DEF Min

\* What is left of a number when no more is taken than it has.
LEMMA DifferenceIsNat ==
  ASSUME NEW n \in Nat, NEW r \in Nat, r <= n
  PROVE  n - r \in Nat
OBVIOUS

\* The smaller of two numbers, case by case.
LEMMA MinIsIf ==
  ASSUME NEW a \in Int, NEW b \in Int
  PROVE  Min({a, b}) = IF a <= b THEN a ELSE b
<1>1. Min({a, b}) \in {a, b} /\ Min({a, b}) <= a /\ Min({a, b}) <= b
  BY MinOfTwo
<1> DEFINE m == Min({a, b})
<1> HIDE DEF m
<1>2. m = a \/ m = b
  BY <1>1 DEF m
<1>3. m <= a /\ m <= b
  BY <1>1 DEF m
<1>4. m = IF a <= b THEN a ELSE b
  BY <1>2, <1>3
<1> QED BY <1>4 DEF m

\* The larger of two numbers, case by case.
LEMMA MaxIsIf ==
  ASSUME NEW a \in Int, NEW b \in Int
  PROVE  Max({a, b}) = IF a >= b THEN a ELSE b
<1>1. \E x \in {a, b} : \A y \in {a, b} : x >= y
  <2>1. CASE a >= b
    BY <2>1
  <2>2. CASE b >= a
    BY <2>2
  <2> QED BY <2>1, <2>2
<1> DEFINE m == Max({a, b})
<1>2. m \in {a, b} /\ \A y \in {a, b} : m >= y
  BY <1>1 DEF Max
<1> HIDE DEF m
<1>3. m = IF a >= b THEN a ELSE b
  BY <1>2
<1> QED BY <1>3 DEF m

\* A set of naturals that is not empty has a least element.
LEMMA MinOfNaturals ==
  ASSUME NEW S \in SUBSET Nat, S # {}
  PROVE  /\ Min(S) \in S
         /\ \A y \in S : Min(S) <= y
<1>1. PICK x \in S : \A y \in S : ~(<<y, x>> \in OpToRel(<, Nat))
  BY NatLessThanWellFounded, WFMin
<1>2. ASSUME NEW y \in S PROVE x <= y
  <2>1. x \in Nat /\ y \in Nat
    OBVIOUS
  <2>2. ~(y < x)
    BY <1>1, <2>1 DEF OpToRel
  <2> QED BY <2>1, <2>2
<1> QED BY <1>2 DEF Min

-----------------------------------------------------------------------------
\* Induction over a finite set: a family that holds the empty set, and a set
\* whenever it holds all that are one element smaller, holds the whole set.
LEMMA FiniteInduction ==
  ASSUME NEW S, IsFiniteSet(S), NEW Family, {} \in Family,
         \A T \in SUBSET S : T # {} /\ (\A x \in T : T \ {x} \in Family) => T \in Family
  PROVE  S \in Family
<1> SUFFICES ASSUME S \notin Family PROVE FALSE
  OBVIOUS
<1> DEFINE Missing == {n \in Nat : \E T \in SUBSET S : T \notin Family /\ Cardinality(T) = n}
<1>1. \A T \in SUBSET S : IsFiniteSet(T) /\ Cardinality(T) \in Nat
  BY FS_Subset, FS_CardinalityType
<1>2. Missing # {} /\ Missing \in SUBSET Nat
  <2>1. S \in SUBSET S
    OBVIOUS
  <2> QED BY <1>1, <2>1
<1>3. PICK n \in Missing : \A k \in Missing : n <= k
  <2> HIDE DEF Missing
  <2> QED BY <1>2, MinOfNaturals
<1>4. PICK T \in SUBSET S : T \notin Family /\ Cardinality(T) = n
  BY <1>3
<1>5. ASSUME NEW x \in T PROVE T \ {x} \in Family
  <2>1. T \ {x} \in SUBSET S /\ Cardinality(T \ {x}) = n - 1
    BY <1>1, <1>4, FS_RemoveElement
  <2>2. n - 1 \in Nat /\ n \in Nat
    BY <1>1, <2>1
  <2>3. ~(n - 1 \in Missing)
    BY <1>3, <2>2
  <2> QED BY <2>1, <2>2, <2>3
<1> QED BY <1>4, <1>5

\* What holds of 0, and of every next number up to n, holds up to n.
LEMMA CountingUp ==
  ASSUME NEW n \in Nat, NEW S, 0 \in S, \A k \in 0..(n - 1) : k \in S => k + 1 \in S
  PROVE  \A k \in 0..n : k \in S
<1> DEFINE Missing == {k \in 0..n : k \notin S}
<1> SUFFICES ASSUME Missing # {} PROVE FALSE
  OBVIOUS
<1>1. Missing \in SUBSET Nat
  OBVIOUS
<1>2. PICK m \in Missing : \A k \in Missing : m <= k
  <2> HIDE DEF Missing
  <2> QED BY <1>1, MinOfNaturals
<1>3. m \in 1..n /\ m - 1 \in 0..(n - 1) /\ m = (m - 1) + 1
  BY <1>2
<1>4. m - 1 \in S
  BY <1>2, <1>3
<1> QED BY <1>2, <1>3, <1>4

\* A walk over n steps, each computed from the one before.
IsWalk(f, n, start, step) == f[0] = start /\ \A k \in 1..n : f[k] = step[<<k, f[k - 1]>>]

LEMMA WalkExists ==
  ASSUME NEW n \in Nat, NEW start, NEW step
  PROVE  \E f : IsWalk(f, n, start, step)
<1> USE DEF IsWalk
<1> DEFINE Walks(f, m) == IsWalk(f, m, start, step)
           S == {m \in 0..n : \E f : Walks(f, m)}
<1>1. 0 \in S
  <2> DEFINE f == [k \in {0} |-> start]
  <2>1. f[0] = start
    OBVIOUS
  <2>2. 0 \in 0..n /\ \A k \in 1..0 : FALSE
    OBVIOUS
  <2> HIDE DEF f
  <2> QED BY <2>1, <2>2
<1>2. ASSUME NEW m \in 0..(n - 1), m \in S PROVE m + 1 \in S
  <2>1. PICK f : Walks(f, m)
    BY <1>2
  <2> DEFINE g == [k \in 0..(m + 1) |-> IF k = m + 1 THEN step[<<m + 1, f[m]>>] ELSE f[k]]
  <2>2. g[0] = start
    BY <2>1
  <2>3. ASSUME NEW k \in 1..(m + 1) PROVE g[k] = step[<<k, g[k - 1]>>]
    <3>1. k - 1 \in 0..m /\ k - 1 # m + 1 /\ k \in 0..(m + 1) /\ k - 1 \in 0..(m + 1)
      OBVIOUS
    <3>2. g[k - 1] = f[k - 1]
      BY <3>1
    <3>3. CASE k = m + 1
      BY <3>1, <3>2, <3>3
    <3>4. CASE k # m + 1
      <4>1. k \in 1..m /\ g[k] = f[k]
        BY <3>4
      <4>2. f[k] = step[<<k, f[k - 1]>>]
        BY <2>1, <4>1
      <4> HIDE DEF g
      <4> QED BY <3>2, <4>1, <4>2
    <3> QED BY <3>3, <3>4
  <2>4. m + 1 \in 0..n
    OBVIOUS
  <2> HIDE DEF g
  <2> QED BY <2>2, <2>3, <2>4
<1>3. n \in S
  <2> HIDE DEF S
  <2> QED BY <1>1, <1>2, CountingUp
<1> QED BY <1>3

\* A finite set of integers that is not empty has a greatest element.
LEMMA MaxOfFinite ==
  ASSUME NEW S \in SUBSET Int, IsFiniteSet(S), S # {}
  PROVE  /\ Max(S) \in S
         /\ \A y \in S : Max(S) >= y
<1> DEFINE HasMax(T) == T # {} => \E x \in T : \A y \in T : x >= y
           Family == {T \in SUBSET S : HasMax(T)}
<1>1. {} \in Family
  OBVIOUS
<1>2. ASSUME NEW T \in SUBSET S, T # {}, \A e \in T : T \ {e} \in Family
      PROVE  T \in Family
  <2>1. PICK e \in T : T \ {e} \in Family
    BY <1>2
  <2>2. CASE T \ {e} = {}
    <3>1. \A y \in T : e >= y
      BY <2>1, <2>2
    <3> QED BY <2>1, <3>1
  <2>3. CASE T \ {e} # {}
    <3>1. PICK x \in T \ {e} : \A y \in T \ {e} : x >= y
      BY <2>1, <2>3 DEF HasMax
    <3>2. CASE x >= e
      BY <3>1, <3>2
    <3>3. CASE e >= x
      <4>1. \A y \in T : e >= y
        BY <3>1, <3>3
      <4> QED BY <2>1, <4>1
    <3> QED BY <3>1, <3>2, <3>3
  <2> QED BY <2>2, <2>3
<1> HIDE DEF Family
<1>3. S \in Family
  BY <1>1, <1>2, FiniteInduction
<1>4. PICK x \in S : \A y \in S : x >= y
  BY <1>3 DEF Family
<1> QED BY <1>4 DEF Max

\* A function takes finitely many values on a finite set.
LEMMA ImageIsFinite ==
  ASSUME NEW S, IsFiniteSet(S), NEW f, DOMAIN f = S
  PROVE  IsFiniteSet({f[x] : x \in S})
<1> DEFINE T == {f[x] : x \in S}
<1>1. [x \in S |-> f[x]] \in Surjection(S, T)
  BY DEF Surjection
<1> QED BY <1>1, FS_Surjection

-----------------------------------------------------------------------------
(* The sum of a function over a finite set.                                *)

\* The element a fold takes next.
AnElement(s) == CHOOSE x \in s : TRUE

\* g sums f over the subsets of T.
SumsOver(g, f, T) ==
  g = [s \in SUBSET T |-> IF s = {} THEN 0 ELSE f[AnElement(s)] + g[s \ {AnElement(s)}]]

\* What the fold computes.
LEMMA SumDef ==
  ASSUME NEW f, NEW S
  PROVE  SumFunctionOnSet(f, S) = (CHOOSE g : SumsOver(g, f, S))[S]
BY DEF SumFunctionOnSet, FoldFunctionOnSet, MapThenFoldSet, SumsOver, AnElement

\* A set that is not empty has the element it is asked for.
LEMMA AnElementIsMember ==
  ASSUME NEW s, s # {}
  PROVE  AnElement(s) \in s
BY DEF AnElement

\* What sums f over the subsets of T does so over those of a smaller set.
LEMMA SumsRestrict ==
  ASSUME NEW f, NEW g, NEW T, SumsOver(g, f, T), NEW U \in SUBSET T
  PROVE  SumsOver([s \in SUBSET U |-> g[s]], f, U)
<1> DEFINE h == [s \in SUBSET U |-> g[s]]
<1>1. ASSUME NEW s \in SUBSET U
      PROVE  h[s] = IF s = {} THEN 0 ELSE f[AnElement(s)] + h[s \ {AnElement(s)}]
  <2>1. s \in SUBSET T /\ s \ {AnElement(s)} \in SUBSET U
    OBVIOUS
  <2>2. g[s] = IF s = {} THEN 0 ELSE f[AnElement(s)] + g[s \ {AnElement(s)}]
    BY <2>1 DEF SumsOver
  <2>3. h[s] = g[s] /\ h[s \ {AnElement(s)}] = g[s \ {AnElement(s)}]
    BY <2>1
  <2> QED BY <2>2, <2>3
<1>2. h = [s \in SUBSET U |-> h[s]]
  OBVIOUS
<1>3. h = [s \in SUBSET U |-> IF s = {} THEN 0 ELSE f[AnElement(s)] + h[s \ {AnElement(s)}]]
  <2> HIDE DEF h
  <2> QED BY <1>1, <1>2
<1> QED BY <1>3 DEF SumsOver

\* Over a finite set there is one way to sum.
LEMMA SumsUnique ==
  ASSUME NEW f, NEW T, IsFiniteSet(T), NEW g, NEW h, SumsOver(g, f, T), SumsOver(h, f, T)
  PROVE  g[T] = h[T]
<1> DEFINE Same == {s \in SUBSET T : g[s] = h[s]}
<1>1. {} \in Same
  BY DEF SumsOver
<1>2. ASSUME NEW s \in SUBSET T, s # {}, \A x \in s : s \ {x} \in Same
      PROVE  s \in Same
  <2>1. AnElement(s) \in s
    BY <1>2, AnElementIsMember
  <2>2. g[s \ {AnElement(s)}] = h[s \ {AnElement(s)}]
    BY <1>2, <2>1
  <2>3. g[s] = f[AnElement(s)] + g[s \ {AnElement(s)}]
    BY <1>2 DEF SumsOver
  <2>4. h[s] = f[AnElement(s)] + h[s \ {AnElement(s)}]
    BY <1>2 DEF SumsOver
  <2> QED BY <2>2, <2>3, <2>4
<1>3. T \in Same
  <2> HIDE DEF Same
  <2> QED BY <1>1, <1>2, FiniteInduction
<1> QED BY <1>3

\* And there is such a way.
Summable(f, s) == \E g : SumsOver(g, f, s)
TheSum(f, s) == (CHOOSE g : SumsOver(g, f, s))[s]

\* A way to sum that exists is the one chosen.
LEMMA ChosenSums ==
  ASSUME NEW f, NEW T, Summable(f, T)
  PROVE  SumsOver(CHOOSE g : SumsOver(g, f, T), f, T)
BY DEF Summable

\* A set that is summable with every subset sums in the way the fold says.
LEMMA SumUnfolds ==
  ASSUME NEW f, NEW T, IsFiniteSet(T), T # {}, Summable(f, T)
  PROVE  TheSum(f, T) = f[AnElement(T)] + TheSum(f, T \ {AnElement(T)})
<1> DEFINE U == T \ {AnElement(T)}
           g == CHOOSE g : SumsOver(g, f, T)
           h == [s \in SUBSET U |-> g[s]]
<1>1. SumsOver(g, f, T)
  BY ChosenSums
<1>2. SumsOver(h, f, U)
  <2> HIDE DEF g
  <2> QED BY <1>1, SumsRestrict
<1>3. Summable(f, U)
  <2> HIDE DEF h
  <2> QED BY <1>2 DEF Summable
<1>4. SumsOver(CHOOSE k : SumsOver(k, f, U), f, U)
  BY <1>3, ChosenSums
<1>5. IsFiniteSet(U)
  BY FS_RemoveElement
<1>6. h[U] = TheSum(f, U)
  <2> HIDE DEF h, U
  <2> QED BY <1>2, <1>4, <1>5, SumsUnique DEF TheSum
<1>7. h[U] = g[U]
  OBVIOUS
<1>8. g[T] = f[AnElement(T)] + g[U]
  <2> HIDE DEF g
  <2> QED BY <1>1 DEF SumsOver
<1> QED BY <1>6, <1>7, <1>8 DEF TheSum

\* Every finite set is summable.
LEMMA FiniteIsSummable ==
  ASSUME NEW f, NEW S, IsFiniteSet(S)
  PROVE  Summable(f, S)
<1> DEFINE Good == {s \in SUBSET S : \A u \in SUBSET s : Summable(f, u)}
<1>1. {} \in Good
  <2>1. ASSUME NEW u \in SUBSET {} PROVE Summable(f, u)
    <3> DEFINE g == [s \in SUBSET u |-> 0]
    <3>1. u = {}
      OBVIOUS
    <3>2. g = [s \in SUBSET u |-> IF s = {} THEN 0 ELSE f[AnElement(s)] + g[s \ {AnElement(s)}]]
      BY <3>1
    <3> QED BY <3>2 DEF Summable, SumsOver
  <2> QED BY <2>1
<1>2. ASSUME NEW T \in SUBSET S, T # {}, \A x \in T : T \ {x} \in Good
      PROVE  T \in Good
  <2>1. ASSUME NEW u \in SUBSET T, u # T PROVE Summable(f, u) /\ IsFiniteSet(u)
    <3>1. PICK x \in T : x \notin u
      BY <2>1
    <3>2. u \in SUBSET (T \ {x}) /\ u \in SUBSET S
      BY <3>1
    <3> QED BY <1>2, <3>2, FS_Subset
  <2>2. Summable(f, T)
    <3> DEFINE c == AnElement(T)
               g == [s \in SUBSET T |-> IF s = T THEN f[c] + TheSum(f, T \ {c}) ELSE TheSum(f, s)]
    <3>1. c \in T /\ T \ {c} # T /\ T \ {c} \in SUBSET T
      BY <1>2, AnElementIsMember
    <3>2. ASSUME NEW s \in SUBSET T
          PROVE  g[s] = IF s = {} THEN 0 ELSE f[AnElement(s)] + g[s \ {AnElement(s)}]
      <4>1. CASE s = T
        BY <1>2, <3>1, <4>1
      <4>2. CASE s # T /\ s # {}
        <5>1. AnElement(s) \in s
          BY <4>2, AnElementIsMember
        <5>2. s \ {AnElement(s)} # T /\ s \ {AnElement(s)} \in SUBSET T
          BY <5>1
        <5>3. TheSum(f, s) = f[AnElement(s)] + TheSum(f, s \ {AnElement(s)})
          BY <2>1, <4>2, SumUnfolds
        <5> QED BY <4>2, <5>2, <5>3
      <4>3. CASE s = {}
        <5>1. SumsOver(CHOOSE k : SumsOver(k, f, {}), f, {})
          BY <1>2, <2>1, <4>3, ChosenSums
        <5>2. TheSum(f, {}) = 0
          BY <5>1 DEF TheSum, SumsOver
        <5> QED BY <1>2, <4>3, <5>2
      <4> QED BY <4>1, <4>2, <4>3
    <3>3. g = [s \in SUBSET T |-> g[s]]
      OBVIOUS
    <3>4. g = [s \in SUBSET T |-> IF s = {} THEN 0 ELSE f[AnElement(s)] + g[s \ {AnElement(s)}]]
      <4> HIDE DEF g
      <4> QED BY <3>2, <3>3
    <3>5. SumsOver(g, f, T)
      BY <3>4 DEF SumsOver
    <3> HIDE DEF g
    <3> QED BY <3>5 DEF Summable
  <2> QED BY <2>1, <2>2
<1>3. S \in Good
  <2> HIDE DEF Good
  <2> QED BY <1>1, <1>2, FiniteInduction
<1> QED BY <1>3

\* The fold over no element.
LEMMA SumOfNone ==
  ASSUME NEW f
  PROVE  SumFunctionOnSet(f, {}) = 0
<1>1. SumsOver(CHOOSE g : SumsOver(g, f, {}), f, {})
  BY FiniteIsSummable, ChosenSums, FS_EmptySet
<1> QED BY <1>1, SumDef DEF SumsOver

\* The fold takes one element and sums the rest.
LEMMA SumOfFirst ==
  ASSUME NEW f, NEW S, IsFiniteSet(S), S # {}
  PROVE  /\ AnElement(S) \in S
         /\ SumFunctionOnSet(f, S) = f[AnElement(S)] + SumFunctionOnSet(f, S \ {AnElement(S)})
BY SumUnfolds, FiniteIsSummable, AnElementIsMember, SumDef DEF TheSum

\* A sum of integers is an integer.
LEMMA SumIsInt ==
  ASSUME NEW f, NEW S, IsFiniteSet(S), \A x \in S : f[x] \in Int
  PROVE  SumFunctionOnSet(f, S) \in Int
<1> DEFINE Good == {s \in SUBSET S : SumFunctionOnSet(f, s) \in Int}
<1>1. {} \in Good
  BY SumOfNone
<1>2. ASSUME NEW T \in SUBSET S, T # {}, \A x \in T : T \ {x} \in Good
      PROVE  T \in Good
  <2>1. IsFiniteSet(T)
    BY FS_Subset
  <2>2. /\ AnElement(T) \in T
        /\ SumFunctionOnSet(f, T) = f[AnElement(T)] + SumFunctionOnSet(f, T \ {AnElement(T)})
    BY <1>2, <2>1, SumOfFirst
  <2>3. SumFunctionOnSet(f, T \ {AnElement(T)}) \in Int /\ f[AnElement(T)] \in Int
    BY <1>2, <2>2
  <2> QED BY <2>2, <2>3
<1>3. S \in Good
  <2> HIDE DEF Good
  <2> QED BY <1>1, <1>2, FiniteInduction
<1> QED BY <1>3

\* Any element may be taken first.
LEMMA SumTakesOut ==
  ASSUME NEW f, NEW S, IsFiniteSet(S), \A y \in S : f[y] \in Int, NEW x \in S
  PROVE  SumFunctionOnSet(f, S) = f[x] + SumFunctionOnSet(f, S \ {x})
<1> DEFINE Good == {s \in SUBSET S :
                      \A y \in s : SumFunctionOnSet(f, s) = f[y] + SumFunctionOnSet(f, s \ {y})}
<1>1. {} \in Good
  OBVIOUS
<1>2. ASSUME NEW T \in SUBSET S, T # {}, \A y \in T : T \ {y} \in Good
      PROVE  T \in Good
  <2> SUFFICES ASSUME NEW y \in T
               PROVE  SumFunctionOnSet(f, T) = f[y] + SumFunctionOnSet(f, T \ {y})
    OBVIOUS
  <2> DEFINE c == AnElement(T)
             rest == T \ {c, y}
  <2>1. IsFiniteSet(T) /\ IsFiniteSet(T \ {y}) /\ IsFiniteSet(rest)
    BY FS_Subset
  <2>2. c \in T /\ SumFunctionOnSet(f, T) = f[c] + SumFunctionOnSet(f, T \ {c})
    BY <1>2, <2>1, SumOfFirst
  <2>3. CASE y # c
    <3>1. /\ y \in T \ {c} /\ (T \ {c}) \ {y} = rest
          /\ c \in T \ {y} /\ (T \ {y}) \ {c} = rest
      BY <2>2, <2>3
    <3>2. SumFunctionOnSet(f, T \ {c}) = f[y] + SumFunctionOnSet(f, rest)
      BY <1>2, <2>2, <3>1
    <3>3. SumFunctionOnSet(f, T \ {y}) = f[c] + SumFunctionOnSet(f, rest)
      BY <1>2, <3>1
    <3>4. f[y] \in Int /\ f[c] \in Int /\ SumFunctionOnSet(f, rest) \in Int
      BY <2>1, <2>2, SumIsInt
    <3> QED BY <2>2, <3>2, <3>3, <3>4
  <2> QED BY <2>2, <2>3
<1>3. S \in Good
  <2> HIDE DEF Good
  <2> QED BY <1>1, <1>2, FiniteInduction
<1> QED BY <1>3

\* Functions that agree on a set have the same sum over it.
LEMMA SumsAgree ==
  ASSUME NEW f, NEW g, NEW S, IsFiniteSet(S), \A x \in S : f[x] = g[x]
  PROVE  SumFunctionOnSet(f, S) = SumFunctionOnSet(g, S)
<1> DEFINE Good == {s \in SUBSET S : SumFunctionOnSet(f, s) = SumFunctionOnSet(g, s)}
<1>1. {} \in Good
  BY SumOfNone
<1>2. ASSUME NEW T \in SUBSET S, T # {}, \A y \in T : T \ {y} \in Good
      PROVE  T \in Good
  <2>1. IsFiniteSet(T)
    BY FS_Subset
  <2>2. /\ AnElement(T) \in T
        /\ SumFunctionOnSet(f, T) = f[AnElement(T)] + SumFunctionOnSet(f, T \ {AnElement(T)})
        /\ SumFunctionOnSet(g, T) = g[AnElement(T)] + SumFunctionOnSet(g, T \ {AnElement(T)})
    BY <1>2, <2>1, SumOfFirst
  <2>3. /\ SumFunctionOnSet(f, T \ {AnElement(T)}) = SumFunctionOnSet(g, T \ {AnElement(T)})
        /\ f[AnElement(T)] = g[AnElement(T)]
    BY <1>2, <2>2
  <2> QED BY <2>2, <2>3
<1>3. S \in Good
  <2> HIDE DEF Good
  <2> QED BY <1>1, <1>2, FiniteInduction
<1> QED BY <1>3

\* What is nowhere smaller has no smaller sum.
LEMMA SumsOrdered ==
  ASSUME NEW f, NEW g, NEW S, IsFiniteSet(S),
         \A x \in S : f[x] \in Int /\ g[x] \in Int /\ f[x] <= g[x]
  PROVE  SumFunctionOnSet(f, S) <= SumFunctionOnSet(g, S)
<1> DEFINE Good == {s \in SUBSET S : SumFunctionOnSet(f, s) <= SumFunctionOnSet(g, s)}
<1>1. {} \in Good
  BY SumOfNone
<1>2. ASSUME NEW T \in SUBSET S, T # {}, \A y \in T : T \ {y} \in Good
      PROVE  T \in Good
  <2>1. IsFiniteSet(T) /\ IsFiniteSet(T \ {AnElement(T)})
    BY FS_Subset
  <2>2. /\ AnElement(T) \in T
        /\ SumFunctionOnSet(f, T) = f[AnElement(T)] + SumFunctionOnSet(f, T \ {AnElement(T)})
        /\ SumFunctionOnSet(g, T) = g[AnElement(T)] + SumFunctionOnSet(g, T \ {AnElement(T)})
    BY <1>2, <2>1, SumOfFirst
  <2>3. /\ SumFunctionOnSet(f, T \ {AnElement(T)}) <= SumFunctionOnSet(g, T \ {AnElement(T)})
        /\ f[AnElement(T)] <= g[AnElement(T)] /\ f[AnElement(T)] \in Int /\ g[AnElement(T)] \in Int
    BY <1>2, <2>2
  <2>4. /\ SumFunctionOnSet(f, T \ {AnElement(T)}) \in Int
        /\ SumFunctionOnSet(g, T \ {AnElement(T)}) \in Int
    BY <2>1, SumIsInt
  <2> QED BY <2>2, <2>3, <2>4
<1>3. S \in Good
  <2> HIDE DEF Good
  <2> QED BY <1>1, <1>2, FiniteInduction
<1> QED BY <1>3

\* The sum of the opposites is the opposite of the sum.
LEMMA SumOfOpposites ==
  ASSUME NEW f, NEW g, NEW S, IsFiniteSet(S), \A x \in S : f[x] \in Int /\ g[x] = -f[x]
  PROVE  SumFunctionOnSet(g, S) = -SumFunctionOnSet(f, S)
<1> DEFINE Good == {s \in SUBSET S : SumFunctionOnSet(g, s) = -SumFunctionOnSet(f, s)}
<1>1. {} \in Good
  BY SumOfNone
<1>2. ASSUME NEW T \in SUBSET S, T # {}, \A y \in T : T \ {y} \in Good
      PROVE  T \in Good
  <2>1. IsFiniteSet(T) /\ IsFiniteSet(T \ {AnElement(T)})
    BY FS_Subset
  <2>2. /\ AnElement(T) \in T
        /\ SumFunctionOnSet(f, T) = f[AnElement(T)] + SumFunctionOnSet(f, T \ {AnElement(T)})
        /\ SumFunctionOnSet(g, T) = g[AnElement(T)] + SumFunctionOnSet(g, T \ {AnElement(T)})
    BY <1>2, <2>1, SumOfFirst
  <2>3. /\ SumFunctionOnSet(g, T \ {AnElement(T)}) = -SumFunctionOnSet(f, T \ {AnElement(T)})
        /\ g[AnElement(T)] = -f[AnElement(T)] /\ f[AnElement(T)] \in Int
    BY <1>2, <2>2
  <2>4. SumFunctionOnSet(f, T \ {AnElement(T)}) \in Int
    BY <2>1, SumIsInt
  <2> QED BY <2>2, <2>3, <2>4
<1>3. S \in Good
  <2> HIDE DEF Good
  <2> QED BY <1>1, <1>2, FiniteInduction
<1> QED BY <1>3

=============================================================================
