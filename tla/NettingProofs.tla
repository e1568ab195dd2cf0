--------------------------- MODULE NettingProofs ----------------------------
(***************************************************************************)
(* Facts about the operators of LedgerMath and Netting, for any number of  *)
(* strategies: how totals add up, the types of what the operators return,  *)
(* and that a split order costs what its parts are charged.                *)
(***************************************************************************)
EXTENDS Netting, Functions, FiniteSetTheorems, NaturalsInduction, WellFoundedInduction, TLAPS

-----------------------------------------------------------------------------
\* Totals, as LedgerMath counts them.

\* The units of a finite set are finite.
LEMMA UnitsFinite ==
  ASSUME NEW S, IsFiniteSet(S), NEW f \in [S -> Int]
  PROVE  IsFiniteSet(Units(f, S))
<1> DEFINE Stack(x) == {x} \X (1..f[x])
           Stacks == {Stack(x) : x \in S}
           g == [x \in S |-> Stack(x)]
<1>1. g \in Surjection(S, Stacks)
  BY DEF Surjection
<1>2. IsFiniteSet(Stacks)
  BY <1>1, FS_Surjection
<1>3. ASSUME NEW T \in Stacks PROVE IsFiniteSet(T)
  <2>1. PICK x \in S : T = Stack(x)
    OBVIOUS
  <2>2. IsFiniteSet(1..f[x])
    BY FS_Interval
  <2>3. QED
    BY <2>1, <2>2, FS_Singleton, FS_Product
<1>4. QED
  BY <1>2, <1>3, FS_UNION DEF Units

\* A unit is a pair of a member of S and a positive number up to its value.
LEMMA UnitsMember ==
  ASSUME NEW S, NEW f, NEW e
  PROVE  e \in Units(f, S) <=> \E x \in S : \E u \in 1..f[x] : e = <<x, u>>
BY DEF Units

\* The same for a pair written out, with the bounds of its number.
LEMMA UnitsPair ==
  ASSUME NEW S, NEW f \in [S -> Int], NEW x, NEW u
  PROVE  <<x, u>> \in Units(f, S) <=> x \in S /\ u \in Int /\ 1 <= u /\ u <= f[x]
BY UnitsMember

\* Counting the units of a pointwise sum of two non-negative functions.
LEMMA UnitsAdd ==
  ASSUME NEW S, IsFiniteSet(S), NEW f \in [S -> Nat], NEW g \in [S -> Nat]
  PROVE  Cardinality(Units([x \in S |-> f[x] + g[x]], S))
           = Cardinality(Units(f, S)) + Cardinality(Units(g, S))
<1> DEFINE h == [x \in S |-> f[x] + g[x]]
           Upper == {e \in Units(h, S) : e[2] > f[e[1]]}
           shift == [e \in Units(g, S) |-> <<e[1], e[2] + f[e[1]]>>]
<1>h. h \in [S -> Nat] /\ f \in [S -> Int] /\ g \in [S -> Int]
  OBVIOUS
<1>1. Units(h, S) = Units(f, S) \cup Upper
  <2>1. ASSUME NEW e \in Units(h, S) PROVE e \in Units(f, S) \cup Upper
    <3>1. PICK x \in S : \E u \in 1..h[x] : e = <<x, u>>
      BY UnitsMember
    <3>2. PICK u \in 1..h[x] : e = <<x, u>>
      BY <3>1
    <3>3. CASE u <= f[x]
      BY <3>2, <3>3, <1>h, UnitsPair
    <3>4. CASE u > f[x]
      BY <3>2, <3>4
    <3>5. QED
      BY <3>3, <3>4
  <2>2. ASSUME NEW e \in Units(f, S) PROVE e \in Units(h, S)
    <3>1. PICK x \in S : \E u \in 1..f[x] : e = <<x, u>>
      BY UnitsMember
    <3>2. PICK u \in 1..f[x] : e = <<x, u>>
      BY <3>1
    <3>3. QED
      BY <3>2, <1>h, UnitsPair
  <2>3. QED
    BY <2>1, <2>2
<1>2. Units(f, S) \cap Upper = {}
  <2>1. SUFFICES ASSUME NEW e \in Units(f, S), e \in Upper PROVE FALSE
    OBVIOUS
  <2>2. PICK x \in S : \E u \in 1..f[x] : e = <<x, u>>
    BY UnitsMember
  <2>3. QED
    BY <2>1, <2>2
<1>3. ExistsBijection(Units(g, S), Upper)
  <2>1. shift \in [Units(g, S) -> Upper]
    <3>1. SUFFICES ASSUME NEW e \in Units(g, S)
                   PROVE  <<e[1], e[2] + f[e[1]]>> \in Upper
      OBVIOUS
    <3>2. PICK x \in S : \E u \in 1..g[x] : e = <<x, u>>
      BY UnitsMember
    <3>3. PICK u \in 1..g[x] : e = <<x, u>>
      BY <3>2
    <3>4. <<x, u + f[x]>> \in Units(h, S)
      BY <1>h, UnitsPair
    <3>5. QED
      BY <3>3, <3>4
  <2>2. ASSUME NEW d \in Units(g, S), NEW e \in Units(g, S), shift[d] = shift[e]
        PROVE  d = e
    <3>1. PICK x \in S : \E u \in 1..g[x] : d = <<x, u>>
      BY UnitsMember
    <3>2. PICK y \in S : \E u \in 1..g[y] : e = <<y, u>>
      BY UnitsMember
    <3>3. PICK u \in 1..g[x] : d = <<x, u>>
      BY <3>1
    <3>4. PICK v \in 1..g[y] : e = <<y, v>>
      BY <3>2
    <3>5. x = y /\ u + f[x] = v + f[y]
      BY <2>2, <3>3, <3>4
    <3>6. QED
      BY <3>3, <3>4, <3>5
  <2>3. ASSUME NEW t \in Upper PROVE \E e \in Units(g, S) : shift[e] = t
    <3>1. PICK x \in S : \E u \in 1..h[x] : t = <<x, u>>
      BY UnitsMember
    <3>2. PICK u \in 1..h[x] : t = <<x, u>>
      BY <3>1
    <3>3. u > f[x]
      BY <3>2
    <3>4. <<x, u - f[x]>> \in Units(g, S)
      BY <1>h, <3>3, UnitsPair
    <3>5. shift[<<x, u - f[x]>>] = t
      BY <3>2, <3>4
    <3>6. QED
      BY <3>4, <3>5
  <2>4. shift \in Bijection(Units(g, S), Upper)
    BY <2>1, <2>2, <2>3 DEF Bijection, Injection, Surjection, IsInjective
  <2>5. QED
    BY <2>4 DEF ExistsBijection
<1>4. IsFiniteSet(Units(f, S)) /\ IsFiniteSet(Units(g, S))
  BY <1>h, UnitsFinite
<1>5. IsFiniteSet(Upper) /\ Cardinality(Upper) = Cardinality(Units(g, S))
  BY <1>3, <1>4, FS_Bijection
<1>6. Cardinality(Units(f, S) \cup Upper) = Cardinality(Units(f, S)) + Cardinality(Upper)
                                             - Cardinality(Units(f, S) \cap Upper)
  BY <1>4, <1>5, FS_Union
<1>7. Cardinality(Units(f, S)) \in Nat /\ Cardinality(Units(g, S)) \in Nat
  BY <1>4, FS_CardinalityType
<1>8. Cardinality(Units(f, S) \cap Upper) = 0
  BY <1>2, FS_EmptySet
<1>9. Cardinality(Units(h, S)) = Cardinality(Units(f, S)) + Cardinality(Units(g, S))
  <2> HIDE DEF h, Upper
  <2> QED
    BY <1>1, <1>5, <1>6, <1>7, <1>8
<1>10. QED
  BY <1>9

\* A total is an integer.
LEMMA SumType ==
  ASSUME NEW S, IsFiniteSet(S), NEW f \in [S -> Int]
  PROVE  Sum(f, S) \in Int
<1>1. Negated(f, S) \in [S -> Int]
  BY DEF Negated
<1>2. QED
  BY <1>1, UnitsFinite, FS_CardinalityType DEF Sum

\* Only the positive values of a function have units.
LEMMA UnitsPositive ==
  ASSUME NEW S, NEW f \in [S -> Int], NEW p \in [S -> Int],
         \A x \in S : p[x] = IF f[x] > 0 THEN f[x] ELSE 0
  PROVE  Units(f, S) = Units(p, S)
<1>1. ASSUME NEW e \in Units(f, S) PROVE e \in Units(p, S)
  <2>1. PICK x \in S : \E u \in 1..f[x] : e = <<x, u>>
    BY UnitsMember
  <2>2. QED
    BY <2>1, UnitsPair
<1>2. ASSUME NEW e \in Units(p, S) PROVE e \in Units(f, S)
  <2>1. PICK x \in S : \E u \in 1..p[x] : e = <<x, u>>
    BY UnitsMember
  <2>2. QED
    BY <2>1, UnitsPair
<1>3. QED
  BY <1>1, <1>2

\* Totals add: the sum of a pointwise sum is the sum of the two sums.
THEOREM SumAdd ==
  ASSUME NEW S, IsFiniteSet(S), NEW f \in [S -> Int], NEW g \in [S -> Int]
  PROVE  Sum([x \in S |-> f[x] + g[x]], S) = Sum(f, S) + Sum(g, S)
<1> DEFINE Gain(k) == [x \in S |-> IF k[x] > 0 THEN k[x] ELSE 0]
           Loss(k) == [x \in S |-> IF -k[x] > 0 THEN -k[x] ELSE 0]
           C(k) == Cardinality(Units(k, S))
           h == [x \in S |-> f[x] + g[x]]
           a == [x \in S |-> Gain(f)[x] + Gain(g)[x]]
           b == [x \in S |-> Loss(f)[x] + Loss(g)[x]]
<1>1. ASSUME NEW k \in [S -> Int]
      PROVE  /\ Gain(k) \in [S -> Nat] /\ Loss(k) \in [S -> Nat]
             /\ C(Gain(k)) \in Nat /\ C(Loss(k)) \in Nat
             /\ Sum(k, S) = C(Gain(k)) - C(Loss(k))
  <2>1. Gain(k) \in [S -> Nat] /\ Loss(k) \in [S -> Nat]
    OBVIOUS
  <2>2. Gain(k) \in [S -> Int] /\ Loss(k) \in [S -> Int] /\ Negated(k, S) \in [S -> Int]
    BY <2>1 DEF Negated
  <2>3. Units(k, S) = Units(Gain(k), S)
    BY <2>2, UnitsPositive
  <2>4. Units(Negated(k, S), S) = Units(Loss(k), S)
    BY <2>2, UnitsPositive DEF Negated
  <2>5. C(Gain(k)) \in Nat /\ C(Loss(k)) \in Nat
    BY <2>2, UnitsFinite, FS_CardinalityType
  <2>6. QED
    BY <2>1, <2>3, <2>4, <2>5 DEF Sum
<1>2. h \in [S -> Int] /\ a \in [S -> Nat] /\ b \in [S -> Nat]
  BY <1>1
<1>3. C(a) = C(Gain(f)) + C(Gain(g)) /\ C(b) = C(Loss(f)) + C(Loss(g))
  BY <1>1, UnitsAdd
<1>4. C([x \in S |-> Gain(h)[x] + b[x]]) = C(Gain(h)) + C(b)
  <2> DEFINE u == Gain(h)
  <2>1. u \in [S -> Nat]
    BY <1>1, <1>2
  <2> HIDE DEF u, b
  <2>2. C([x \in S |-> u[x] + b[x]]) = C(u) + C(b)
    BY <1>2, <2>1, UnitsAdd
  <2>3. QED
    BY <2>2 DEF u
<1>5. C([x \in S |-> Loss(h)[x] + a[x]]) = C(Loss(h)) + C(a)
  <2> DEFINE u == Loss(h)
  <2>1. u \in [S -> Nat]
    BY <1>1, <1>2
  <2> HIDE DEF u, a
  <2>2. C([x \in S |-> u[x] + a[x]]) = C(u) + C(a)
    BY <1>2, <2>1, UnitsAdd
  <2>3. QED
    BY <2>2 DEF u
<1>6. [x \in S |-> Gain(h)[x] + b[x]] = [x \in S |-> Loss(h)[x] + a[x]]
  OBVIOUS
<1>7. QED
  <2>1. /\ Sum(h, S) = C(Gain(h)) - C(Loss(h))
        /\ Sum(f, S) = C(Gain(f)) - C(Loss(f))
        /\ Sum(g, S) = C(Gain(g)) - C(Loss(g))
    BY <1>1, <1>2
  <2>2. /\ C(Gain(h)) \in Nat /\ C(Loss(h)) \in Nat /\ C(Gain(f)) \in Nat
        /\ C(Loss(f)) \in Nat /\ C(Gain(g)) \in Nat /\ C(Loss(g)) \in Nat
    BY <1>1, <1>2
  <2>3. C(Gain(h)) + C(b) = C(Loss(h)) + C(a)
    BY <1>4, <1>5, <1>6
  <2> HIDE DEF C, Gain, Loss, a, b, h
  <2>4. Sum(h, S) = Sum(f, S) + Sum(g, S)
    BY <2>1, <2>2, <2>3, <1>3
  <2>5. QED
    BY <2>4 DEF h

\* A function that is zero everywhere has no total.
LEMMA SumZero ==
  ASSUME NEW S, NEW f \in [S -> Int], \A x \in S : f[x] = 0
  PROVE  Sum(f, S) = 0
<1>1. Negated(f, S) \in [S -> Int] /\ \A x \in S : Negated(f, S)[x] = 0
  BY DEF Negated
<1>2. Units(f, S) = {} /\ Units(Negated(f, S), S) = {}
  BY <1>1 DEF Units
<1>3. QED
  BY <1>2, FS_EmptySet DEF Sum

\* The total of the negated values.
LEMMA SumNegated ==
  ASSUME NEW S, IsFiniteSet(S), NEW f \in [S -> Int]
  PROVE  Sum([x \in S |-> -f[x]], S) = -Sum(f, S)
<1> DEFINE g == [x \in S |-> -f[x]]
<1>1. Negated(f, S) = g /\ Negated(g, S) = f /\ g \in [S -> Int]
  BY DEF Negated
<1>2. Cardinality(Units(f, S)) \in Nat /\ Cardinality(Units(g, S)) \in Nat
  BY <1>1, UnitsFinite, FS_CardinalityType
<1>3. Sum(f, S) = Cardinality(Units(f, S)) - Cardinality(Units(g, S))
  BY <1>1 DEF Sum
<1>4. Sum(g, S) = Cardinality(Units(g, S)) - Cardinality(Units(f, S))
  BY <1>1 DEF Sum
<1> HIDE DEF g
<1>5. Sum(g, S) = -Sum(f, S)
  BY <1>2, <1>3, <1>4
<1>6. QED
  BY <1>5 DEF g

\* Totals subtract.
LEMMA SumSubtract ==
  ASSUME NEW S, IsFiniteSet(S), NEW f \in [S -> Int], NEW g \in [S -> Int]
  PROVE  Sum([x \in S |-> f[x] - g[x]], S) = Sum(f, S) - Sum(g, S)
<1> DEFINE m == [x \in S |-> -g[x]]
<1>1. m \in [S -> Int]
  OBVIOUS
<1>2. Sum([x \in S |-> f[x] + m[x]], S) = Sum(f, S) + Sum(m, S)
  BY <1>1, SumAdd
<1>3. [x \in S |-> f[x] + m[x]] = [x \in S |-> f[x] - g[x]]
  OBVIOUS
<1>4. Sum(m, S) = -Sum(g, S)
  BY SumNegated
<1>5. Sum(f, S) \in Int /\ Sum(g, S) \in Int
  BY SumType
<1> HIDE DEF m
<1>6. QED
  BY <1>2, <1>3, <1>4, <1>5

\* One row of units has as many of them as its length.
LEMMA RowSize ==
  ASSUME NEW y, NEW q \in Nat
  PROVE  IsFiniteSet({y} \X (1..q)) /\ Cardinality({y} \X (1..q)) = q
<1>1. IsFiniteSet({y}) /\ Cardinality({y}) = 1
  BY FS_Singleton
<1>2. IsFiniteSet(1..q) /\ Cardinality(1..q) = q
  BY FS_Interval
<1>3. /\ IsFiniteSet({y} \X (1..q))
      /\ Cardinality({y} \X (1..q)) = Cardinality({y}) * Cardinality(1..q)
  BY <1>1, <1>2, FS_Product
<1>4. QED
  BY <1>1, <1>2, <1>3

\* A total of quantities is a quantity, and no less than any one of them.
LEMMA SumNat ==
  ASSUME NEW S, IsFiniteSet(S), NEW f \in [S -> Nat]
  PROVE  Sum(f, S) \in Nat /\ \A x \in S : f[x] <= Sum(f, S)
<1>1. f \in [S -> Int] /\ Negated(f, S) \in [S -> Int]
  BY DEF Negated
<1>2. Units(Negated(f, S), S) = {}
  BY <1>1 DEF Units, Negated
<1>3. IsFiniteSet(Units(f, S)) /\ Cardinality(Units(f, S)) \in Nat
  BY <1>1, UnitsFinite, FS_CardinalityType
<1>4. Sum(f, S) = Cardinality(Units(f, S))
  BY <1>2, <1>3, FS_EmptySet DEF Sum
<1>5. ASSUME NEW x \in S PROVE f[x] <= Cardinality(Units(f, S))
  <2>1. {x} \X (1..f[x]) \subseteq Units(f, S)
    BY DEF Units
  <2>2. Cardinality({x} \X (1..f[x])) = f[x]
    BY RowSize
  <2>3. Cardinality({x} \X (1..f[x])) <= Cardinality(Units(f, S))
    BY <1>3, <2>1, FS_Subset
  <2>4. QED
    BY <2>2, <2>3
<1>6. QED
  BY <1>3, <1>4, <1>5

\* Larger values have a larger total.
LEMMA SumMonotone ==
  ASSUME NEW S, IsFiniteSet(S), NEW f \in [S -> Int], NEW g \in [S -> Int],
         \A x \in S : f[x] <= g[x]
  PROVE  Sum(f, S) <= Sum(g, S)
<1>1. [x \in S |-> g[x] - f[x]] \in [S -> Nat]
  OBVIOUS
<1>2. Sum([x \in S |-> g[x] - f[x]], S) \in Nat
  BY <1>1, SumNat
<1>3. Sum([x \in S |-> g[x] - f[x]], S) = Sum(g, S) - Sum(f, S)
  BY SumSubtract
<1>4. Sum(f, S) \in Int /\ Sum(g, S) \in Int
  BY SumType
<1>5. QED
  BY <1>2, <1>3, <1>4

\* A function with one value that counts has that value for its total.
LEMMA SumPoint ==
  ASSUME NEW S, IsFiniteSet(S), NEW y \in S, NEW q \in Int
  PROVE  Sum([x \in S |-> IF x = y THEN q ELSE 0], S) = q
<1> DEFINE point(n) == [x \in S |-> IF x = y THEN n ELSE 0]
<1>1. ASSUME NEW n \in Nat PROVE Sum(point(n), S) = n
  <2>1. point(n) \in [S -> Int] /\ Negated(point(n), S) \in [S -> Int]
    BY DEF Negated
  <2>2. Units(point(n), S) = {y} \X (1..n)
    BY <2>1 DEF Units
  <2>3. Units(Negated(point(n), S), S) = {}
    BY <2>1 DEF Units, Negated
  <2>4. Cardinality({y} \X (1..n)) = n
    BY RowSize
  <2>5. Cardinality({}) = 0
    BY FS_EmptySet
  <2> HIDE DEF point
  <2>6. QED
    BY <2>2, <2>3, <2>4, <2>5 DEF Sum
<1>2. CASE q >= 0
  BY <1>1, <1>2
<1>3. CASE q < 0
  <2>1. -q \in Nat /\ point(-q) \in [S -> Int]
    BY <1>3
  <2>2. Sum([x \in S |-> -point(-q)[x]], S) = -Sum(point(-q), S)
    BY <2>1, SumNegated
  <2>3. [x \in S |-> -point(-q)[x]] = point(q)
    OBVIOUS
  <2>4. Sum(point(-q), S) = -q
    BY <1>1, <2>1
  <2>5. Sum(point(q), S) = q
    <3> HIDE DEF point
    <3> QED
      BY <2>2, <2>3, <2>4
  <2>6. QED
    BY <2>5
<1>4. QED
  BY <1>2, <1>3

\* A set of natural numbers with a member has a least one.
LEMMA NatMinimum ==
  ASSUME NEW T \in SUBSET Nat, T # {}
  PROVE  \E m \in T : \A l \in T : m <= l
<1> DEFINE less == {ss \in Nat \X Nat : ss[1] < ss[2]}
<1>1. IsWellFoundedOn(less, Nat)
  BY NatLessThanWellFounded DEF OpToRel
<1>2. \E m \in T : \A l \in T : ~(<<l, m>> \in less)
  <2> HIDE DEF less
  <2> QED
    BY <1>1, WFMin
<1>3. PICK m \in T : \A l \in T : ~(<<l, m>> \in less)
  BY <1>2
<1>4. ASSUME NEW l \in T PROVE m <= l
  <2>1. ~(<<l, m>> \in less)
    BY <1>3
  <2>2. QED
    BY <2>1
<1>5. QED
  BY <1>4

\* Induction on the natural numbers, for a set of them.
LEMMA NatInductionOnSets ==
    ASSUME NEW T \in SUBSET Nat, 0 \in T, \A n \in T : n + 1 \in T
    PROVE  T = Nat
<1> SUFFICES ASSUME Nat \ T # {} PROVE FALSE
  OBVIOUS
<1>1. PICK x \in Nat \ T : \A y \in Nat \ T : x <= y
  BY NatMinimum
<1>2. x - 1 \in Nat /\ x - 1 \notin Nat \ T
  BY <1>1
<1> QED
  BY <1>2

\* Every value times k: the total times k.
LEMMA SumScale ==
  ASSUME NEW S, IsFiniteSet(S), NEW f \in [S -> Int], NEW k \in Int
  PROVE  Sum([x \in S |-> f[x] * k], S) = Sum(f, S) * k
<1> DEFINE scaled(n) == [x \in S |-> f[x] * n]
           Wrong == {n \in Nat : Sum(scaled(n), S) # Sum(f, S) * n}
<1>0. Sum(f, S) \in Int /\ \A n \in Int : scaled(n) \in [S -> Int]
  BY SumType
<1>1. ASSUME NEW n \in Nat PROVE Sum(scaled(n), S) = Sum(f, S) * n
  <2>1. SUFFICES ASSUME Wrong # {} PROVE FALSE
    OBVIOUS
  <2>2. PICK m \in Wrong : \A l \in Wrong : m <= l
    <3> HIDE DEF Wrong
    <3>1. Wrong \in SUBSET Nat
      BY DEF Wrong
    <3>2. QED
      BY <2>1, <3>1, NatMinimum
  <2>3. CASE m = 0
    <3>1. \A x \in S : scaled(0)[x] = 0
      OBVIOUS
    <3>2. Sum(scaled(0), S) = 0
      BY <1>0, <3>1, SumZero
    <3>3. QED
      BY <1>0, <2>3, <3>2
  <2>4. CASE m > 0
    <3>1. m - 1 \in Nat /\ m - 1 \notin Wrong
      BY <2>2, <2>4
    <3>2. Sum(scaled(m - 1), S) = Sum(f, S) * (m - 1)
      BY <3>1
    <3>3. Sum([x \in S |-> scaled(m - 1)[x] + f[x]], S) = Sum(scaled(m - 1), S) + Sum(f, S)
      <4>1. scaled(m - 1) \in [S -> Int]
        BY <1>0, <3>1
      <4> HIDE DEF scaled
      <4>2. QED
        BY <4>1, SumAdd
    <3>4. [x \in S |-> scaled(m - 1)[x] + f[x]] = scaled(m)
      <4>1. \A x \in S : f[x] * (m - 1) + f[x] = f[x] * m
        OBVIOUS
      <4>2. QED
        BY <4>1
    <3>5. Sum(scaled(m), S) = Sum(f, S) * (m - 1) + Sum(f, S)
      <4> HIDE DEF scaled
      <4> QED
        BY <3>2, <3>3, <3>4
    <3>6. QED
      BY <1>0, <3>5
  <2>5. QED
    BY <2>3, <2>4
<1>2. CASE k >= 0
  BY <1>1, <1>2
<1>3. CASE k < 0
  <2>1. -k \in Nat
    BY <1>3
  <2>2. Sum([x \in S |-> -scaled(-k)[x]], S) = -Sum(scaled(-k), S)
    BY <1>0, <2>1, SumNegated
  <2>3. [x \in S |-> -scaled(-k)[x]] = scaled(k)
    <3>1. \A x \in S : -(f[x] * (-k)) = f[x] * k
      OBVIOUS
    <3>2. QED
      BY <3>1
  <2>4. Sum(scaled(-k), S) = Sum(f, S) * (-k)
    BY <1>1, <2>1
  <2>5. Sum(scaled(k), S) = Sum(f, S) * k
    <3>1. Sum(f, S) * (-k) = -(Sum(f, S) * k)
      BY <1>0
    <3>2. Sum(f, S) * k \in Int
      BY <1>0
    <3> HIDE DEF scaled
    <3> QED
      BY <2>2, <2>3, <2>4, <3>1, <3>2
  <2>6. QED
    BY <2>5
<1>4. QED
  BY <1>2, <1>3

\* Rounding down to a multiple keeps a quantity a quantity, and makes it no
\* Units of a part are the units of what is left when the rest is nothing.
LEMMA UnitsMask ==
    ASSUME NEW S, NEW T \in SUBSET S, NEW f \in [S -> Int]
    PROVE  Units(f, T) = Units([x \in S |-> IF x \in T THEN f[x] ELSE 0], S)
<1> DEFINE g == [x \in S |-> IF x \in T THEN f[x] ELSE 0]
<1>1. ASSUME NEW e \in Units(f, T) PROVE e \in Units(g, S)
  <2>1. PICK x \in T : \E u \in 1 .. f[x] : e = <<x, u>>
    BY UnitsMember
  <2>2. x \in S /\ g[x] = f[x]
    OBVIOUS
  <2> QED
    BY <2>1, <2>2, UnitsMember
<1>2. ASSUME NEW e \in Units(g, S) PROVE e \in Units(f, T)
  <2>1. PICK x \in S : \E u \in 1 .. g[x] : e = <<x, u>>
    BY UnitsMember
  <2>2. x \in T /\ g[x] = f[x]
    BY <2>1
  <2> QED
    BY <2>1, <2>2, UnitsMember
<1> QED
  BY <1>1, <1>2

\* The total over a part is the total of what is left when the rest is nothing.
LEMMA SumMask ==
    ASSUME NEW S, NEW T \in SUBSET S, NEW f \in [S -> Int]
    PROVE  Sum(f, T) = Sum([x \in S |-> IF x \in T THEN f[x] ELSE 0], S)
<1> DEFINE g == [x \in S |-> IF x \in T THEN f[x] ELSE 0]
           n == [x \in S |-> -f[x]]
           m == [x \in S |-> IF x \in T THEN n[x] ELSE 0]
<1>1. Units(f, T) = Units(g, S)
  BY UnitsMask
<1>2. n \in [S -> Int]
  OBVIOUS
<1>3. Units(n, T) = Units(m, S)
  BY <1>2, UnitsMask
<1>4. Units(Negated(f, T), T) = Units(n, T)
  BY DEF Units, Negated
<1>5. Negated(g, S) = m
  BY DEF Negated
<1> QED
  BY <1>1, <1>3, <1>4, <1>5 DEF Sum

\* One value more in a total.
LEMMA SumOneMore ==
    ASSUME NEW S, IsFiniteSet(S), NEW T \in SUBSET S, NEW f \in [S -> Int], NEW y \in T
    PROVE  Sum(f, T) = f[y] + Sum(f, T \ {y})
<1> DEFINE all == [x \in S |-> IF x \in T THEN f[x] ELSE 0]
           rest == [x \in S |-> IF x \in T \ {y} THEN f[x] ELSE 0]
           point == [x \in S |-> IF x = y THEN f[y] ELSE 0]
<1>1. all = [x \in S |-> point[x] + rest[x]]
  OBVIOUS
<1>2. point \in [S -> Int] /\ rest \in [S -> Int] /\ y \in S /\ f[y] \in Int
  OBVIOUS
<1>3. Sum(f, T) = Sum(all, S)
  BY SumMask
<1>4. Sum(f, T \ {y}) = Sum(rest, S)
  <2>1. T \ {y} \in SUBSET S
    OBVIOUS
  <2> QED
    BY <2>1, SumMask
<1>5. Sum(point, S) = f[y]
  BY <1>2, SumPoint
<1> HIDE DEF point, rest, all
<1>6. Sum([x \in S |-> point[x] + rest[x]], S) = Sum(point, S) + Sum(rest, S)
  BY <1>2, SumAdd
<1> QED
  BY <1>1, <1>3, <1>4, <1>5, <1>6

\* As many units as members.
LEMMA SumOfOnes ==
    ASSUME NEW S, IsFiniteSet(S)
    PROVE  Sum([x \in S |-> 1], S) <= Cardinality(S) /\ Cardinality(S) \in Nat
<1> DEFINE one == [x \in S |-> 1]
           pairs == {<<x, 1>> : x \in S}
           f == [x \in S |-> <<x, 1>>]
<1>1. Units(one, S) = pairs
  <2>1. one \in [S -> Int]
    OBVIOUS
  <2>2. \A x \in S : 1 .. one[x] = {1}
    OBVIOUS
  <2>3. ASSUME NEW e \in Units(one, S) PROVE e \in pairs
    <3>1. PICK x \in S : \E u \in 1 .. one[x] : e = <<x, u>>
      BY UnitsMember
    <3> QED
      BY <2>2, <3>1
  <2>4. ASSUME NEW e \in pairs PROVE e \in Units(one, S)
    <3>1. PICK x \in S : e = <<x, 1>>
      OBVIOUS
    <3>2. \E u \in 1 .. one[x] : e = <<x, u>>
      BY <2>2, <3>1
    <3> HIDE DEF one
    <3> QED
      BY <3>2, UnitsMember
  <2> QED
    BY <2>3, <2>4
<1>2. f \in Surjection(S, pairs)
  BY DEF Surjection
<1>3. IsFiniteSet(pairs) /\ Cardinality(pairs) <= Cardinality(S)
  BY <1>2, FS_Surjection
<1>4. Units(Negated(one, S), S) = {}
  BY DEF Units, Negated
<1>5. Cardinality({}) = 0 /\ Cardinality(S) \in Nat /\ Cardinality(pairs) \in Nat
  BY <1>3, FS_EmptySet, FS_CardinalityType
<1> HIDE DEF one, pairs
<1>6. Sum(one, S) = Cardinality(pairs) - 0
  BY <1>1, <1>4, <1>5 DEF Sum
<1> QED
  BY <1>3, <1>5, <1>6 DEF one

\* SumFunctionOnSet takes the values out one by one, in whatever order: it is the same total.
LEMMA FoldIsSum ==
    ASSUME NEW S, IsFiniteSet(S), NEW T \in SUBSET S, NEW f \in [S -> Int]
    PROVE  SumFunctionOnSet(f, T) = Sum(f, T) /\ Sum(f, T) \in Int
<1> DEFINE Some(s) == CHOOSE x \in s : TRUE
           Step(j, s) == IF s = {} THEN 0 ELSE f[Some(s)] + j[s \ {Some(s)}]
           total == [s \in SUBSET T |-> Sum(f, s)]
<1>1. PICK fold : /\ SumFunctionOnSet(f, T) = fold[T]
                  /\ fold = CHOOSE j : j = [s \in SUBSET T |-> Step(j, s)]
  BY Zenon DEF SumFunctionOnSet, FoldFunctionOnSet, MapThenFoldSet
<1>2. ASSUME NEW s \in SUBSET T, s # {}
      PROVE  Some(s) \in s /\ Sum(f, s) = f[Some(s)] + Sum(f, s \ {Some(s)})
  <2>1. Some(s) \in s
    BY <1>2
  <2>2. s \in SUBSET S
    OBVIOUS
  <2> HIDE DEF Some
  <2> QED
    BY <2>1, <2>2, SumOneMore
<1>3. Sum(f, {}) = 0
  <2>1. {} \in SUBSET S
    OBVIOUS
  <2>2. \A x \in S : (IF x \in {} THEN f[x] ELSE 0) = 0
    OBVIOUS
  <2>3. Sum([x \in S |-> IF x \in {} THEN f[x] ELSE 0], S) = 0
    BY SumZero
  <2> QED
    BY <2>1, <2>3, SumMask
<1>4. total = [s \in SUBSET T |-> Step(total, s)]
  <2>1. ASSUME NEW s \in SUBSET T PROVE total[s] = Step(total, s)
    <3>1. CASE s = {}
      BY <1>3, <3>1
    <3>2. CASE s # {}
      <4>1. Some(s) \in s /\ s \ {Some(s)} \in SUBSET T
        BY <1>2, <3>2
      <4>2. total[s] = Sum(f, s) /\ total[s \ {Some(s)}] = Sum(f, s \ {Some(s)})
        BY <4>1
      <4> HIDE DEF Some, total
      <4> QED
        BY <1>2, <3>2, <4>2
    <3> QED
      BY <3>1, <3>2
  <2> HIDE DEF Step
  <2> QED
    BY <2>1
<1> HIDE DEF total
<1>5. fold = [s \in SUBSET T |-> Step(fold, s)]
  <2> HIDE DEF Step
  <2> QED
    BY <1>1, <1>4, Zenon
<1>6. ASSUME NEW s \in SUBSET T PROVE IsFiniteSet(s) /\ Cardinality(s) \in Nat
  BY FS_Subset, FS_CardinalityType
<1>7. ASSUME NEW s \in SUBSET T, fold[s] # Sum(f, s) PROVE FALSE
  <2> DEFINE Wrong == {z \in SUBSET T : fold[z] # Sum(f, z)}
             sizes == {Cardinality(z) : z \in Wrong}
  <2>1. sizes \in SUBSET Nat /\ sizes # {}
    BY <1>6, <1>7
  <2>2. PICK n \in sizes : \A k \in sizes : n <= k
    BY <2>1, NatMinimum
  <2>3. PICK z \in Wrong : n = Cardinality(z)
    OBVIOUS
  <2>4. fold[z] = Step(fold, z) /\ z \in SUBSET T /\ fold[z] # Sum(f, z)
    <3> HIDE DEF Step
    <3> QED
      BY <1>5
  <2>5. z # {}
    BY <1>3, <2>4
  <2>6. Some(z) \in z /\ Sum(f, z) = f[Some(z)] + Sum(f, z \ {Some(z)})
    BY <1>2, <2>4, <2>5
  <2> DEFINE y == z \ {Some(z)}
  <2>7. fold[z] = f[Some(z)] + fold[y]
    BY <2>4, <2>5
  <2>8. y \in Wrong
    <3>1. y \in SUBSET T
      BY <2>4
    <3> HIDE DEF Some
    <3> QED
      BY <2>4, <2>6, <2>7, <3>1
  <2>9. Cardinality(y) = Cardinality(z) - 1
    <3> HIDE DEF Some
    <3> QED
      BY <1>6, <2>4, <2>6, FS_RemoveElement
  <2>10. Cardinality(y) \in sizes
    BY <2>8
  <2>11. n <= Cardinality(y) /\ Cardinality(z) \in Nat
    BY <1>6, <2>2, <2>4, <2>10
  <2> QED
    BY <2>3, <2>9, <2>11
<1>8. Sum(f, T) \in Int
  <2> DEFINE g == [x \in S |-> IF x \in T THEN f[x] ELSE 0]
  <2>1. g \in [S -> Int]
    OBVIOUS
  <2>2. Sum(g, S) \in Int
    BY <2>1, SumType
  <2> QED
    BY <2>2, SumMask
<1> QED
  BY <1>1, <1>7, <1>8

\* larger.
LEMMA FloorToType ==
  ASSUME NEW n \in Int, NEW unit \in Nat \ {0}
  PROVE  FloorTo(n, unit) \in Int /\ (n >= 0 => FloorTo(n, unit) \in Nat)
<1>1. n \div unit \in Int /\ (n >= 0 => n \div unit \in Nat)
  OBVIOUS
<1>2. QED
  BY <1>1 DEF FloorTo

\* A rounded quotient is an integer, and nothing rounds to nothing.
LEMMA RoundHalfEvenType ==
  ASSUME NEW n \in Int, NEW d \in Nat \ {0}
  PROVE  RoundHalfEven(n, d) \in Int /\ (n = 0 => RoundHalfEven(n, d) = 0)
<1>1. n \div d \in Int /\ n % d \in Int /\ (n = 0 => n \div d = 0 /\ n % d = 0)
  OBVIOUS
<1>2. QED
  BY <1>1 DEF RoundHalfEven

-----------------------------------------------------------------------------
\* The operators of Netting.

\* The total of integer values over part of a domain is an integer.
LEMMA SumPartType ==
  ASSUME NEW S, IsFiniteSet(S), NEW f, \A x \in S : f[x] \in Int
  PROVE  Sum(f, S) \in Int
<1> DEFINE g == [x \in S |-> f[x]]
<1>1. g \in [S -> Int]
  OBVIOUS
<1>2. Units(f, S) = Units(g, S) /\ Negated(f, S) = Negated(g, S)
  BY DEF Units, Negated
<1>3. Sum(f, S) = Sum(g, S)
  BY <1>2 DEF Sum
<1>4. Sum(g, S) \in Int
  BY <1>1, SumType
<1>5. QED
  BY <1>3, <1>4

\* What sorts before a strategy has an integer total.
LEMMA BeforeType ==
  ASSUME NEW n \in Nat, NEW f \in [1..n -> Nat], NEW s \in 1..n
  PROVE  Before(f, s) \in Int
<1>1. IsFiniteSet(1..s-1) /\ \A x \in 1..s-1 : f[x] \in Int
  BY FS_Interval
<1>2. QED
  BY <1>1, SumPartType DEF Before

\* A cross is a quantity.
LEMMA CrossQuantityType ==
  ASSUME NEW n \in Nat, NEW buy \in [1..n -> Nat], NEW sell \in [1..n -> Nat],
         NEW seller \in 1..n, NEW buyer \in 1..n
  PROVE  CrossQuantity(buy, sell, seller, buyer) \in Nat
<1>1. Before(sell, seller) \in Int /\ Before(buy, buyer) \in Int
  BY BeforeType
<1>2. QED
  BY <1>1 DEF CrossQuantity, MaxOf, MinOf

\* What netting leaves of the demands are quantities, none larger than the
\* demand it is left of.
LEMMA ResidualType ==
  ASSUME NEW n \in Nat, NEW own \in [1..n -> Nat], NEW other \in [1..n -> Nat]
  PROVE  /\ Residual(own, other) \in [1..n -> Nat]
         /\ \A s \in 1..n : Residual(own, other)[s] <= own[s]
<1>1. Total(other) \in Int
  BY SumType, FS_Interval DEF Total
<1>2. \A s \in 1..n : Before(own, s) \in Int
  BY BeforeType
<1>3. ASSUME NEW s \in 1..n
      PROVE  LET left == MaxOf(0, MinOf(own[s], Before(own, s) + own[s] - Total(other)))
             IN  left \in Nat /\ left <= own[s]
  BY <1>1, <1>2 DEF MaxOf, MinOf
<1>4. Residual(own, other) = [s \in 1..n |->
          MaxOf(0, MinOf(own[s], Before(own, s) + own[s] - Total(other)))]
  BY DEF Residual
<1>5. QED
  BY <1>3, <1>4

\* A proportional share, rounded down, is a quantity and no more than the
\* demand, for a fill that is no more than all demands.
LEMMA BaseShareType ==
  ASSUME NEW S, IsFiniteSet(S), NEW requested \in [S -> Nat],
         NEW lot \in Nat \ {0}, NEW fill \in 1 .. Total(requested), NEW s \in S
  PROVE  /\ BaseShare(fill, requested, lot)[s] \in Nat
         /\ BaseShare(fill, requested, lot)[s] <= requested[s]
<1> DEFINE all == Total(requested)
           share == (fill * requested[s]) \div all
<1>1. all \in Nat \ {0} /\ fill \in Nat /\ fill <= all
  BY SumNat DEF Total
<1>2. fill * requested[s] \in Nat /\ fill * requested[s] <= all * requested[s]
  <2>1. ASSUME NEW a \in Nat, NEW b \in Nat, NEW c \in Nat, a <= b
        PROVE  a * c \in Nat /\ a * c <= b * c
    BY <2>1
  <2>2. QED
    BY <1>1, <2>1
<1>3. share \in Nat /\ share <= requested[s]
  <2>1. ASSUME NEW a \in Nat, NEW b \in Nat \ {0}, NEW c \in Nat, a <= b * c
        PROVE  a \div b \in Nat /\ a \div b <= c
    BY <2>1, Z3
  <2>2. QED
    BY <1>1, <1>2, <2>1
<1>4. FloorTo(share, lot) \in Nat /\ FloorTo(share, lot) <= share
  <2>1. ASSUME NEW a \in Nat, NEW b \in Nat \ {0}
        PROVE  (a \div b) * b \in Nat /\ (a \div b) * b <= a
    BY <2>1
  <2>2. QED
    BY <1>3, <2>1 DEF FloorTo
<1>5. BaseShare(fill, requested, lot)[s] = FloorTo(share, lot)
  BY DEF BaseShare
<1> HIDE DEF share
<1>6. QED
  BY <1>3, <1>4, <1>5

\* Nobody is given more of a fill than it asked for.
THEOREM AllocationWithinDemand ==
  ASSUME NEW S, IsFiniteSet(S), NEW requested \in [S -> Nat],
         NEW lot \in Nat \ {0}, NEW fill \in 0 .. Total(requested)
  PROVE  /\ Allocation(fill, requested, lot) \in [S -> Nat]
         /\ \A s \in S : Allocation(fill, requested, lot)[s] <= requested[s]
<1> DEFINE base == BaseShare(fill, requested, lot)
           given == Allocation(fill, requested, lot)
<1>1. CASE fill = 0
  BY <1>1 DEF Allocation
<1>2. CASE fill # 0
  <2>1. fill \in 1 .. Total(requested)
    <3>1. Total(requested) \in Nat
      BY SumNat DEF Total
    <3>2. QED
      BY <1>2, <3>1
  <2>2. \A s \in S : base[s] \in Nat /\ base[s] <= requested[s]
    BY <2>1, BaseShareType
  <2> HIDE DEF base
  <2>3. \A s \in S : given[s] = base[s] \/ (given[s] = base[s] + lot
                                            /\ base[s] + lot <= requested[s])
    BY <1>2 DEF Allocation, base
  <2>4. given \in [S -> Nat] /\ \A s \in S : given[s] <= requested[s]
    <3>1. DOMAIN given = S /\ given = [s \in S |-> given[s]]
      BY DEF Allocation
    <3> HIDE DEF given
    <3>2. QED
      BY <2>2, <2>3, <3>1
  <2>5. QED
    BY <2>4
<1>3. QED
  BY <1>1, <1>2

\* The parts an order's cost is charged in add up to the cost, and an order
\* without a fill charges nobody.
THEOREM CostShareTotal ==
  ASSUME NEW n \in Nat, NEW filled \in [1..n -> Nat], NEW cost \in Int
  PROVE  /\ CostShare(cost, filled) \in [1..n -> Int]
         /\ \A s \in 1..n : filled[s] = 0 => CostShare(cost, filled)[s] = 0
         /\ Total(filled) # 0 => Total(CostShare(cost, filled)) = cost
<1> DEFINE S == 1..n
           owners == {s \in S : filled[s] > 0}
           last == CHOOSE s \in owners : \A t \in owners : t <= s
           share == [s \in S |-> IF s \in owners /\ s # last
                                 THEN (cost * filled[s]) \div Total(filled) ELSE 0]
           rest == cost - Total(share)
           point == [s \in S |-> IF s = last THEN rest ELSE 0]
<1>1. IsFiniteSet(S) /\ Total(filled) \in Nat
      /\ \A s \in S : filled[s] <= Total(filled)
  <2>1. IsFiniteSet(S)
    BY FS_Interval
  <2>2. Total(filled) = Sum(filled, S)
    BY DEF Total
  <2> HIDE DEF S
  <2>3. Sum(filled, S) \in Nat /\ \A s \in S : filled[s] <= Sum(filled, S)
    BY <2>1, SumNat DEF S
  <2>4. QED
    BY <2>1, <2>2, <2>3
<1>2. share \in [S -> Int]
  <2>1. ASSUME NEW s \in owners PROVE (cost * filled[s]) \div Total(filled) \in Int
    <3>1. Total(filled) \in Nat \ {0}
      BY <1>1
    <3>2. cost * filled[s] \in Int
      OBVIOUS
    <3>3. QED
      BY <3>1, <3>2
  <2>2. QED
    BY <2>1
<1>3. Total(share) \in Int /\ rest \in Int
  BY <1>1, <1>2, SumType DEF Total
<1>4. CostShare(cost, filled) =
        [s \in S |-> IF owners # {} /\ s = last THEN rest ELSE share[s]]
  BY DEF CostShare
<1>5. CASE owners = {}
  <2>1. \A s \in S : filled[s] = 0
    BY <1>5
  <2>2. Total(filled) = 0
    BY <1>1, <2>1, SumZero DEF Total
  <2>3. CostShare(cost, filled) = [s \in S |-> 0]
    BY <1>4, <1>5
  <2>4. QED
    BY <2>2, <2>3
<1>6. CASE owners # {}
  <2>1. last \in owners
    <3>1. \E s \in owners : \A t \in owners : t <= s
      <4> DEFINE bounds == {b \in Nat : \A t \in owners : t <= b}
      <4>1. bounds \in SUBSET Nat /\ n \in bounds
        OBVIOUS
      <4>2. PICK b \in bounds : \A c \in bounds : b <= c
        <5> HIDE DEF bounds
        <5> QED
          BY <4>1, NatMinimum
      <4>3. b \in owners
        <5>1. SUFFICES ASSUME b \notin owners PROVE FALSE
          OBVIOUS
        <5>2. \A t \in owners : t <= b - 1
          BY <4>2, <5>1
        <5>3. b - 1 \in Nat
          BY <1>6, <4>2, <5>2
        <5>4. QED
          BY <4>2, <5>2, <5>3
      <4>4. QED
        BY <4>2, <4>3
    <3> HIDE DEF owners
    <3>2. QED
      BY <3>1
  <2> HIDE DEF last
  <2>2. CostShare(cost, filled) = [s \in S |-> share[s] + point[s]]
    <3>1. CostShare(cost, filled) = [s \in S |-> IF s = last THEN rest ELSE share[s]]
      BY <1>4, <1>6
    <3>2. \A s \in S : (IF s = last THEN rest ELSE share[s]) = share[s] + point[s]
      <4>1. \A s \in S : share[s] \in Int
        BY <1>2
      <4>2. share[last] = 0
        BY <2>1
      <4> HIDE DEF share, rest
      <4>3. QED
        BY <1>3, <2>1, <4>1, <4>2
    <3> HIDE DEF share, rest, point
    <3>3. QED
      BY <3>1, <3>2
  <2>3. point \in [S -> Int] /\ Sum(point, S) = rest
    <3>1. last \in S
      BY <2>1
    <3> HIDE DEF rest, S
    <3>2. point \in [S -> Int]
      BY <1>3
    <3>3. Sum(point, S) = rest
      BY <1>1, <1>3, <3>1, SumPoint
    <3>4. QED
      BY <3>2, <3>3
  <2>4. Sum([s \in S |-> share[s] + point[s]], S) = Sum(share, S) + Sum(point, S)
    <3> HIDE DEF share, point
    <3> QED
      BY <1>1, <1>2, <2>3, SumAdd
  <2>5. Total(CostShare(cost, filled)) = Total(share) + rest
    BY <2>2, <2>3, <2>4 DEF Total
  <2>6. CostShare(cost, filled) \in [S -> Int]
    <3> HIDE DEF share, point
    <3> QED
      BY <1>2, <2>2, <2>3
  <2>7. \A s \in S : filled[s] = 0 => CostShare(cost, filled)[s] = 0
    <3>1. \A s \in S : filled[s] = 0 => s \notin owners /\ s # last
      BY <2>1
    <3>2. \A s \in S : s \notin owners => share[s] = 0
      OBVIOUS
    <3> HIDE DEF share, owners, rest
    <3>3. QED
      BY <1>4, <3>1, <3>2
  <2>8. Total(share) + rest = cost
    <3> HIDE DEF share
    <3> QED
      BY <1>3
  <2>9. QED
    BY <2>5, <2>6, <2>7, <2>8
<1>7. QED
  BY <1>5, <1>6

\* The facts about sums, for totals over the whole domain: the total of
\* integers is an integer.
LEMMA TotalType ==
  ASSUME NEW S, IsFiniteSet(S), NEW f \in [S -> Int]
  PROVE  Total(f) \in Int
BY SumType DEF Total

\* A total of quantities is a quantity, no less than any one of them.
LEMMA TotalNat ==
  ASSUME NEW S, IsFiniteSet(S), NEW f \in [S -> Nat]
  PROVE  Total(f) \in Nat /\ \A x \in S : f[x] <= Total(f)
<1>1. Total(f) = Sum(f, S)
  BY DEF Total
<1>2. QED
  BY <1>1, SumNat

\* The total of a pointwise sum.
LEMMA TotalAdd ==
  ASSUME NEW S, IsFiniteSet(S), NEW f \in [S -> Int], NEW g \in [S -> Int],
         NEW h \in [S -> Int], \A x \in S : h[x] = f[x] + g[x]
  PROVE  Total(h) = Total(f) + Total(g)
<1>1. h = [x \in S |-> f[x] + g[x]]
  OBVIOUS
<1>2. Total(h) = Sum(h, S) /\ Total(f) = Sum(f, S) /\ Total(g) = Sum(g, S)
  BY DEF Total
<1>3. QED
  BY <1>1, <1>2, SumAdd

\* The total of a pointwise difference.
LEMMA TotalSubtract ==
  ASSUME NEW S, IsFiniteSet(S), NEW f \in [S -> Int], NEW g \in [S -> Int],
         NEW h \in [S -> Int], \A x \in S : h[x] = f[x] - g[x]
  PROVE  Total(h) = Total(f) - Total(g)
<1>1. h = [x \in S |-> f[x] - g[x]]
  OBVIOUS
<1>2. Total(h) = Sum(h, S) /\ Total(f) = Sum(f, S) /\ Total(g) = Sum(g, S)
  BY DEF Total
<1>3. QED
  BY <1>1, <1>2, SumSubtract

\* The total of values times a constant.
LEMMA TotalScale ==
  ASSUME NEW S, IsFiniteSet(S), NEW f \in [S -> Int], NEW k \in Int,
         NEW h \in [S -> Int], \A x \in S : h[x] = f[x] * k
  PROVE  Total(h) = Total(f) * k
<1>1. h = [x \in S |-> f[x] * k]
  OBVIOUS
<1>2. Total(h) = Sum(h, S) /\ Total(f) = Sum(f, S)
  BY DEF Total
<1>3. QED
  BY <1>1, <1>2, SumScale

\* Nothing adds up to nothing.
LEMMA TotalZero ==
  ASSUME NEW S, NEW f \in [S -> Int], \A x \in S : f[x] = 0
  PROVE  Total(f) = 0
BY SumZero DEF Total

\* The total of larger values is no smaller.
LEMMA TotalMonotone ==
  ASSUME NEW S, IsFiniteSet(S), NEW f \in [S -> Int], NEW g \in [S -> Int],
         \A x \in S : f[x] <= g[x]
  PROVE  Total(f) <= Total(g)
<1>1. Total(f) = Sum(f, S) /\ Total(g) = Sum(g, S)
  BY DEF Total
<1>2. QED
  BY <1>1, SumMonotone

\* The total of the negated values.
LEMMA TotalNegated ==
  ASSUME NEW S, IsFiniteSet(S), NEW f \in [S -> Int]
  PROVE  Total([x \in S |-> -f[x]]) = -Total(f)
BY SumNegated DEF Total

\* A change at one point changes the total by as much.
LEMMA TotalShift ==
  ASSUME NEW S, IsFiniteSet(S), NEW f \in [S -> Int], NEW g \in [S -> Int],
         NEW y \in S, \A x \in S : x # y => g[x] = f[x]
  PROVE  Total(g) = Total(f) + (g[y] - f[y])
<1> DEFINE q == g[y] - f[y]
           point == [x \in S |-> IF x = y THEN q ELSE 0]
<1>1. q \in Int /\ point \in [S -> Int] /\ \A x \in S : g[x] = f[x] + point[x]
  OBVIOUS
<1> HIDE DEF q
<1>2. Sum(point, S) = q
  BY <1>1, SumPoint
<1>3. Total(point) = q
  BY <1>2 DEF Total
<1>4. Total(g) = Total(f) + Total(point)
  <2> HIDE DEF point
  <2> QED
    BY <1>1, TotalAdd
<1>5. QED
  BY <1>3, <1>4 DEF q

-----------------------------------------------------------------------------
\* What sorts before a strategy, as a function of the strategy.

Masked(f, n, s) == [x \in 1 .. n |-> IF x \in 1 .. s - 1 THEN f[x] ELSE 0]

LEMMA BeforeMasked ==
    ASSUME NEW n \in Nat, NEW f \in [1 .. n -> Nat], NEW s \in 1 .. n + 1
    PROVE  /\ Before(f, s) = Sum(Masked(f, n, s), 1 .. n)
           /\ Masked(f, n, s) \in [1 .. n -> Nat]
           /\ Before(f, s) \in Nat
<1>1. 1 .. s - 1 \in SUBSET (1 .. n)
  OBVIOUS
<1>2. Masked(f, n, s) \in [1 .. n -> Nat]
  BY DEF Masked
<1>3. Before(f, s) = Sum(Masked(f, n, s), 1 .. n)
  BY <1>1, SumMask DEF Before, Masked
<1>4. IsFiniteSet(1 .. n)
  BY FS_Interval
<1>5. Sum(Masked(f, n, s), 1 .. n) \in Nat
  BY <1>2, <1>4, SumNat
<1> QED
  BY <1>2, <1>3, <1>5

LEMMA BeforeFirst ==
    ASSUME NEW n \in Nat, NEW f \in [1 .. n -> Nat], NEW s \in 1 .. n + 1,
           \A x \in 1 .. s - 1 : f[x] = 0
    PROVE  Before(f, s) = 0
<1>1. \A x \in 1 .. n : Masked(f, n, s)[x] = 0
  BY DEF Masked
<1>2. Masked(f, n, s) \in [1 .. n -> Int]
  BY BeforeMasked
<1> QED
  BY <1>1, <1>2, BeforeMasked, SumZero

LEMMA BeforeAll ==
    ASSUME NEW n \in Nat, NEW f \in [1 .. n -> Nat]
    PROVE  Before(f, n + 1) = Total(f)
  BY DEF Before, Total

LEMMA BeforeNext ==
    ASSUME NEW n \in Nat, NEW f \in [1 .. n -> Nat], NEW s \in 1 .. n
    PROVE  Before(f, s + 1) = Before(f, s) + f[s]
<1> DEFINE S == 1 .. n
           g == Masked(f, n, s)
           h == Masked(f, n, s + 1)
           p == [x \in S |-> IF x = s THEN f[s] ELSE 0]
<1>1. /\ s \in 1 .. n + 1 /\ s + 1 \in 1 .. n + 1 /\ f[s] \in Int
      /\ IsFiniteSet(S)
  BY FS_Interval
<1>2. /\ g \in [S -> Int] /\ Before(f, s) = Sum(g, S)
      /\ h \in [S -> Int] /\ Before(f, s + 1) = Sum(h, S)
  <2>1. ASSUME NEW t \in 1 .. n + 1
        PROVE  Masked(f, n, t) \in [1 .. n -> Int] /\ Before(f, t) = Sum(Masked(f, n, t), 1 .. n)
    BY ONLY n \in Nat, f \in [1 .. n -> Nat], t \in 1 .. n + 1, BeforeMasked
  <2>2. s \in 1 .. n + 1 /\ s + 1 \in 1 .. n + 1
    BY <1>1
  <2> QED
    BY <2>1, <2>2
<1>3. p \in [S -> Int] /\ Sum(p, S) = f[s]
  <2>1. p \in [S -> Int]
    BY <1>1
  <2> HIDE DEF S
  <2>2. Sum(p, S) = f[s]
    <3>1. s \in S
      BY DEF S
    <3> QED
      BY <1>1, <3>1, SumPoint
  <2> QED
    BY <2>1, <2>2
<1>4. h = [x \in S |-> g[x] + p[x]]
  BY DEF Masked
<1> HIDE DEF g, h, p, S
<1>5. Sum(h, S) = Sum(g, S) + Sum(p, S)
  BY <1>1, <1>2, <1>3, <1>4, SumAdd
<1> QED
  BY <1>2, <1>3, <1>5

LEMMA BeforeMonotone ==
    ASSUME NEW n \in Nat, NEW f \in [1 .. n -> Nat], NEW s \in 1 .. n + 1,
           NEW t \in 1 .. n + 1, s <= t
    PROVE  Before(f, s) <= Before(f, t)
<1>1. \A x \in 1 .. n : Masked(f, n, s)[x] <= Masked(f, n, t)[x]
  BY DEF Masked
<1>2. Masked(f, n, s) \in [1 .. n -> Int] /\ Masked(f, n, t) \in [1 .. n -> Int]
  BY BeforeMasked
<1>3. IsFiniteSet(1 .. n)
  BY FS_Interval
<1>4. Sum(Masked(f, n, s), 1 .. n) <= Sum(Masked(f, n, t), 1 .. n)
  BY <1>1, <1>2, <1>3, SumMonotone
<1> QED
  BY <1>4, BeforeMasked

\* The interval of a strategy ends where a later one's begins, or before.
LEMMA IntervalsApart ==
    ASSUME NEW n \in Nat, NEW f \in [1 .. n -> Nat], NEW s \in 1 .. n,
           NEW t \in 1 .. n + 1, s < t
    PROVE  Before(f, s) + f[s] <= Before(f, t)
<1>1. s + 1 \in 1 .. n + 1 /\ s + 1 <= t
  OBVIOUS
<1> QED
  BY <1>1, BeforeNext, BeforeMonotone

\* What adding w to strategy b adds to what sorts before s.
Shift(b, s, w) == IF s > b THEN w ELSE 0

Added(f, g, n, b, w) == \A x \in 1 .. n : g[x] = IF x = b THEN f[x] + w ELSE f[x]

\* Taking from one strategy takes from what sorts before the later ones.
LEMMA BeforeTake ==
    ASSUME NEW n \in Nat, NEW f \in [1 .. n -> Nat], NEW g \in [1 .. n -> Nat],
           NEW b \in 1 .. n, NEW w \in Int, Added(f, g, n, b, w),
           NEW s \in 1 .. n + 1
    PROVE  Before(g, s) = Before(f, s) + Shift(b, s, w)
<1> DEFINE S == 1 .. n
           mf == Masked(f, n, s)
           mg == Masked(g, n, s)
           d == Shift(b, s, w)
           p == [x \in S |-> IF x = b THEN d ELSE 0]
<1>1. /\ mf \in [S -> Int] /\ Before(f, s) = Sum(mf, S)
      /\ mg \in [S -> Int] /\ Before(g, s) = Sum(mg, S)
      /\ Before(f, s) \in Nat /\ Before(g, s) \in Nat
  <2>2. /\ Before(f, s) = Sum(mf, S) /\ Before(g, s) = Sum(mg, S)
        /\ Before(f, s) \in Nat /\ Before(g, s) \in Nat
    BY BeforeMasked
  <2>3. mf \in [S -> Int] /\ mg \in [S -> Int]
    BY DEF Masked
  <2> QED
    BY <2>2, <2>3
<1>0. IsFiniteSet(S) /\ d \in Int /\ b \in S
  BY FS_Interval DEF Shift
<1>2. p \in [S -> Int] /\ Sum(p, S) = d
  <2>1. p \in [S -> Int]
    BY <1>0
  <2> HIDE DEF S, d
  <2>2. Sum(p, S) = d
    BY <1>0, SumPoint
  <2> QED
    BY <2>1, <2>2
<1>3. mg = [x \in S |-> mf[x] + p[x]]
  BY DEF Masked, Shift, Added
<1>4. Sum(mg, S) = Sum(mf, S) + d
  <2> HIDE DEF mf, mg, p, d, S
  <2>1. Sum(mg, S) = Sum(mf, S) + Sum(p, S)
    BY <1>0, <1>1, <1>2, <1>3, SumAdd
  <2> QED
    BY <1>2, <2>1
<1>5. Before(g, s) = Before(f, s) + d
  <2> HIDE DEF mf, mg, d, S
  <2> QED
    BY <1>1, <1>4
<1> QED
  BY <1>5

-----------------------------------------------------------------------------
\* Crossing hands over exactly what netting takes off the demands.

\* The part of the interval from start to end that lies below x.
Clipped(start, end, x) == MaxOf(0, MinOf(end, x) - start)

\* What a seller hands to the buyers that sort before k.
LEMMA OverlapsBefore ==
    ASSUME NEW n \in Nat, NEW buy \in [1 .. n -> Nat], NEW sell \in [1 .. n -> Nat],
           NEW a \in 1 .. n, NEW k \in 1 .. n + 1
    PROVE  Before([b \in 1 .. n |-> CrossQuantity(buy, sell, a, b)], k)
             = Clipped(Before(sell, a), Before(sell, a) + sell[a], Before(buy, k))
<1>0. PICK start \in Nat, end \in Nat :
        start = Before(sell, a) /\ end = Before(sell, a) + sell[a] /\ start <= end
  <2>0. a \in 1 .. n + 1
    OBVIOUS
  <2>1. Before(sell, a) \in Nat /\ sell[a] \in Nat
    BY <2>0, BeforeMasked
  <2> QED
    BY <2>1
<1> DEFINE S == 1 .. n
           g == [b \in S |-> CrossQuantity(buy, sell, a, b)]
           Clip(x) == Clipped(start, end, x)
           Good == {m \in Nat : m <= n => Before(g, m + 1) = Clip(Before(buy, m + 1))}
<1>1. g \in [S -> Nat]
  BY CrossQuantityType
<1>2. 0 \in Good
  <2>1. 1 \in 1 .. n + 1 /\ 0 + 1 = 1
    OBVIOUS
  <2>2. Before(buy, 1) = 0
    BY <2>1, BeforeFirst
  <2>3. Before(g, 1) = 0
    <3>1. \A x \in 1 .. 1 - 1 : g[x] = 0
      OBVIOUS
    <3> HIDE DEF g
    <3> QED
      BY <1>1, <2>1, <3>1, BeforeFirst
  <2>4. Clip(0) = 0
    BY DEF Clipped, MaxOf, MinOf
  <2> QED
    BY <2>1, <2>2, <2>3, <2>4
<1>3. ASSUME NEW m \in Good PROVE m + 1 \in Good
  <2>1. m \in Nat
    OBVIOUS
  <2>2. ASSUME m + 1 <= n PROVE Before(g, (m + 1) + 1) = Clip(Before(buy, (m + 1) + 1))
    <3>1. m + 1 \in S /\ m + 1 \in 1 .. n + 1 /\ m <= n
      BY <2>1, <2>2
    <3>2. Before(g, m + 1) = Clip(Before(buy, m + 1))
      BY <3>1
    <3>3. PICK y \in Nat, w \in Nat : y = Before(buy, m + 1) /\ w = buy[m + 1]
      BY <3>1, BeforeMasked
    <3>4. Before(buy, (m + 1) + 1) = y + w
      BY <3>1, <3>3, BeforeNext
    <3>5. Before(g, (m + 1) + 1) = Before(g, m + 1) + g[m + 1]
      <4> HIDE DEF g
      <4> QED
        BY <1>1, <3>1, BeforeNext
    <3>6. g[m + 1] = MaxOf(0, MinOf(end, y + w) - MaxOf(start, y))
      <4>1. g[m + 1] = CrossQuantity(buy, sell, a, m + 1)
        BY <3>1
      <4> HIDE DEF g
      <4> QED
        BY <1>0, <3>3, <4>1 DEF CrossQuantity
    <3>7. Clip(y) + MaxOf(0, MinOf(end, y + w) - MaxOf(start, y)) = Clip(y + w)
      <4>1. start <= end
        BY <1>0
      <4> QED
        BY ONLY <4>1, start \in Nat, end \in Nat, y \in Nat, w \in Nat
           DEF Clipped, MaxOf, MinOf
    <3> HIDE DEF g, Clip
    <3> QED
      BY <3>2, <3>3, <3>4, <3>5, <3>6, <3>7
  <2> HIDE DEF g, Clip
  <2> QED
    BY <2>1, <2>2
<1>4. Good = Nat
  <2>1. Good \in SUBSET Nat
    OBVIOUS
  <2> HIDE DEF Good
  <2> QED
    BY <1>2, <1>3, <2>1, NatInductionOnSets
<1>5. k - 1 \in Good /\ k - 1 <= n /\ (k - 1) + 1 = k
  <2>1. k - 1 \in Nat /\ k - 1 <= n /\ (k - 1) + 1 = k
    OBVIOUS
  <2> HIDE DEF Good
  <2> QED
    BY <1>4, <2>1
<1>6. Before(g, k) = Clip(Before(buy, k))
  <2> HIDE DEF g, Clip
  <2> QED
    BY <1>5
<1> QED
  BY <1>0, <1>6

\* A seller's demand is split between the buyers it crosses with and what is
\* left for the market, and nothing of it is lost or doubled.
LEMMA SellerConserves ==
    ASSUME NEW n \in Nat, NEW buy \in [1 .. n -> Nat], NEW sell \in [1 .. n -> Nat],
           NEW a \in 1 .. n
    PROVE  Total([b \in 1 .. n |-> CrossQuantity(buy, sell, a, b)])
             + Residual(sell, buy)[a] = sell[a]
<1> DEFINE g == [b \in 1 .. n |-> CrossQuantity(buy, sell, a, b)]
<1>1. a \in 1 .. n + 1 /\ n + 1 \in 1 .. n + 1
  <2>1. a \in 1 .. n + 1
    OBVIOUS
  <2>2. n + 1 \in 1 .. n + 1
    OBVIOUS
  <2> QED
    BY <2>1, <2>2
<1>2. PICK start \in Nat, w \in Nat, all \in Nat :
        start = Before(sell, a) /\ w = sell[a] /\ all = Before(buy, n + 1)
  BY <1>1, BeforeMasked
<1>3. Total(buy) = all
  BY <1>2, BeforeAll
<1>4. Total(g) = MaxOf(0, MinOf(start + w, all) - start)
  <2>1. g \in [1 .. n -> Nat]
    BY CrossQuantityType
  <2>2. Total(g) = Before(g, n + 1)
    <3> HIDE DEF g
    <3> QED
      BY <2>1, BeforeAll
  <2>3. Before(g, n + 1) = Clipped(start, start + w, all)
    BY <1>1, <1>2, OverlapsBefore
  <2> QED
    BY <2>2, <2>3 DEF Clipped
<1>5. Residual(sell, buy)[a] = MaxOf(0, MinOf(w, start + w - all))
  BY <1>2, <1>3 DEF Residual
<1> HIDE DEF g
<1>6. MaxOf(0, MinOf(start + w, all) - start) + MaxOf(0, MinOf(w, start + w - all)) = w
  BY DEF MaxOf, MinOf
<1>7. Total(g) + Residual(sell, buy)[a] = sell[a]
  BY <1>2, <1>4, <1>5, <1>6
<1> QED
  BY <1>7 DEF g

\* Whatever the demands of the sleeves, for both sides: what netting crosses
\* of a demand and what it leaves for the master order add up to the demand.
THEOREM CrossingConserves ==
    ASSUME NEW n \in Nat, NEW buy \in [1 .. n -> Nat], NEW sell \in [1 .. n -> Nat],
           NEW s \in 1 .. n
    PROVE  /\ Total([b \in 1 .. n |-> CrossQuantity(buy, sell, s, b)])
                + Residual(sell, buy)[s] = sell[s]
           /\ Total([a \in 1 .. n |-> CrossQuantity(buy, sell, a, s)])
                + Residual(buy, sell)[s] = buy[s]
<1>1. ASSUME NEW a \in 1 .. n
      PROVE  CrossQuantity(buy, sell, a, s) = CrossQuantity(sell, buy, s, a)
  <2>1. PICK p \in Int, q \in Int, v \in Nat, w \in Nat :
          p = Before(sell, a) /\ q = Before(buy, s) /\ v = sell[a] /\ w = buy[s]
    BY BeforeType
  <2>2. MaxOf(0, MinOf(p + v, q + w) - MaxOf(p, q))
          = MaxOf(0, MinOf(q + w, p + v) - MaxOf(q, p))
    BY ONLY p \in Int, q \in Int, v \in Nat, w \in Nat DEF MaxOf, MinOf
  <2>3. /\ CrossQuantity(buy, sell, a, s) = MaxOf(0, MinOf(p + v, q + w) - MaxOf(p, q))
        /\ CrossQuantity(sell, buy, s, a) = MaxOf(0, MinOf(q + w, p + v) - MaxOf(q, p))
    BY <2>1 DEF CrossQuantity
  <2> QED
    BY <2>2, <2>3
<1>2. [a \in 1 .. n |-> CrossQuantity(buy, sell, a, s)]
        = [a \in 1 .. n |-> CrossQuantity(sell, buy, s, a)]
  BY <1>1
<1>3. Total([a \in 1 .. n |-> CrossQuantity(sell, buy, s, a)]) + Residual(buy, sell)[s]
        = buy[s]
  BY SellerConserves
<1>4. Total([b \in 1 .. n |-> CrossQuantity(buy, sell, s, b)]) + Residual(sell, buy)[s]
        = sell[s]
  BY SellerConserves
<1> QED
  BY <1>2, <1>3, <1>4
=============================================================================
