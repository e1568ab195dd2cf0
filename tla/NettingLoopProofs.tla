------------------------- MODULE NettingLoopProofs --------------------------
(***************************************************************************)
(* The loops of zyquant.portfolio.sleeve compute the closed forms the      *)
(* ledger is written with, for any number of strategies, any demands, any  *)
(* lot size and any fill.                                                  *)
(***************************************************************************)
EXTENDS NettingLoop, NettingProofs

-----------------------------------------------------------------------------
\* The two-pointer walk.

\* How much of the interval of a lies beyond x.
Beyond(f, s, x) == MaxOf(0, Before(f, s) - x)

\* What a has handed to b when x units have been crossed in all.
Overlap(a, b, x) ==
    MaxOf(0, MinOf(MinOf(Before(sell, a) + sell[a], Before(buy, b) + buy[b]), x)
               - MaxOf(Before(sell, a), Before(buy, b)))

Walked(x) ==
    /\ x <= Total(buy) /\ x <= Total(sell)
    /\ \A s \in 1 .. NumStrategies + 1 :
          Before(leftBuy, s) = Beyond(buy, s, x) /\ Before(leftSell, s) = Beyond(sell, s, x)
    /\ \A a \in Sleeves : \A b \in Sleeves : crossed[a][b] = Overlap(a, b, x)

NettingTypes ==
    /\ pc \in {"net", "fill", "allocate", "done"}
    /\ buy \in [Sleeves -> Nat] /\ sell \in [Sleeves -> Nat]
    /\ leftBuy \in [Sleeves -> Nat] /\ leftSell \in [Sleeves -> Nat]
    /\ crossed \in [Sleeves -> [Sleeves -> Nat]]

\* The walk so far, and what it comes to.
WalkInv ==
    /\ NettingTypes
    /\ pc = "net" => \E x \in Nat : Walked(x)
    /\ NetsAsSpecified

LEMMA FirstLeast ==
    ASSUME NEW S \in SUBSET Sleeves, S # {}
    PROVE  Lowest(S) \in S /\ \A y \in S : Lowest(S) <= y
<1>1. S \in SUBSET Nat
  BY DEF Sleeves
<1>2. \E x \in S : \A y \in S : x <= y
  BY <1>1, NatMinimum
<1> QED
  BY <1>2 DEF Lowest

LEMMA WalkInit == LoopInit => WalkInv
<1> SUFFICES ASSUME LoopInit PROVE WalkInv
  OBVIOUS
<1>1. NettingTypes
  BY NettingAssumption DEF LoopInit, NettingTypes, Quantities, Nothing
<1>2. pc = "net" /\ leftBuy = buy /\ leftSell = sell
      /\ \A a \in Sleeves : \A b \in Sleeves : crossed[a][b] = 0
  BY DEF LoopInit, Nothing
<1>3. Walked(0)
  <2>1. Total(buy) \in Nat /\ Total(sell) \in Nat
    <3>1. IsFiniteSet(Sleeves)
      BY NettingAssumption, FS_Interval DEF Sleeves
    <3> QED
      BY <1>1, <3>1, TotalNat DEF NettingTypes
  <2>2. \A s \in 1 .. NumStrategies + 1 : Before(buy, s) \in Nat /\ Before(sell, s) \in Nat
    BY <1>1, BeforeMasked, NettingAssumption DEF NettingTypes, Sleeves
  <2>3. \A s \in 1 .. NumStrategies + 1 :
          Before(leftBuy, s) = Beyond(buy, s, 0) /\ Before(leftSell, s) = Beyond(sell, s, 0)
    BY <1>2, <2>2 DEF Beyond, MaxOf
  <2>4. ASSUME NEW a \in Sleeves, NEW b \in Sleeves PROVE Overlap(a, b, 0) = 0
    <3>1. /\ Before(sell, a) \in Nat /\ Before(buy, b) \in Nat
          /\ sell[a] \in Nat /\ buy[b] \in Nat
      BY <1>1, <2>2, NettingAssumption DEF NettingTypes, Sleeves
    <3> QED
      BY <3>1 DEF Overlap, MaxOf, MinOf
  <2> QED
    BY <1>2, <2>1, <2>3, <2>4 DEF Walked
<1> QED
  BY <1>1, <1>2, <1>3 DEF WalkInv, NetsAsSpecified

LEMMA WalkStep ==
    ASSUME WalkInv, CrossNext
    PROVE  WalkInv'
<1> DEFINE N == NumStrategies
<1>1. /\ NettingTypes /\ pc = "net" /\ Buyers # {} /\ Sellers # {}
      /\ UNCHANGED <<pc, buy, sell>> /\ N \in Nat
  BY NettingAssumption DEF WalkInv, CrossNext
<1>2. PICK x \in Nat : Walked(x)
  BY <1>1 DEF WalkInv
<1>3. PICK b \in Sleeves, a \in Sleeves, q \in Nat :
        /\ b = Lowest(Buyers) /\ a = Lowest(Sellers) /\ q = MinOf(leftBuy[b], leftSell[a])
        /\ leftBuy[b] > 0 /\ leftSell[a] > 0
        /\ \A s \in Sleeves : s < b => leftBuy[s] = 0
        /\ \A s \in Sleeves : s < a => leftSell[s] = 0
  <2>1. PICK b \in Buyers : b = Lowest(Buyers) /\ \A y \in Buyers : b <= y
    BY <1>1, FirstLeast DEF Buyers
  <2>2. PICK a \in Sellers : a = Lowest(Sellers) /\ \A y \in Sellers : a <= y
    BY <1>1, FirstLeast DEF Sellers
  <2>3. /\ b \in Sleeves /\ leftBuy[b] \in Nat /\ leftBuy[b] > 0
        /\ a \in Sleeves /\ leftSell[a] \in Nat /\ leftSell[a] > 0
    BY <1>1 DEF Buyers, Sellers, NettingTypes
  <2>4. ASSUME NEW s \in Sleeves, s < b PROVE leftBuy[s] = 0
    <3>1. s \notin Buyers
      BY <1>1, <2>1, <2>3, <2>4 DEF Sleeves
    <3>2. leftBuy[s] \in Nat
      BY <1>1 DEF NettingTypes
    <3> QED
      BY <3>1, <3>2 DEF Buyers
  <2>5. ASSUME NEW s \in Sleeves, s < a PROVE leftSell[s] = 0
    <3>1. s \notin Sellers
      BY <1>1, <2>2, <2>3, <2>5 DEF Sleeves
    <3>2. leftSell[s] \in Nat
      BY <1>1 DEF NettingTypes
    <3> QED
      BY <3>1, <3>2 DEF Sellers
  <2>6. MinOf(leftBuy[b], leftSell[a]) \in Nat
    BY <2>3 DEF MinOf
  <2> QED
    BY <2>1, <2>2, <2>3, <2>4, <2>5, <2>6
<1>4. /\ crossed' = [crossed EXCEPT ![a][b] = @ + q]
      /\ leftBuy' = [leftBuy EXCEPT ![b] = @ - q]
      /\ leftSell' = [leftSell EXCEPT ![a] = @ - q]
  BY <1>3 DEF CrossNext
<1>5. /\ leftBuy[b] \in Nat /\ leftSell[a] \in Nat /\ q > 0
      /\ q <= leftBuy[b] /\ q <= leftSell[a]
      /\ a \in 1 .. N /\ b \in 1 .. N /\ a \in 1 .. N + 1 /\ b \in 1 .. N + 1
      /\ a + 1 \in 1 .. N + 1 /\ b + 1 \in 1 .. N + 1
  <2>1. leftBuy[b] \in Nat /\ leftSell[a] \in Nat
    BY <1>1, <1>3 DEF NettingTypes
  <2>2. a \in 1 .. N /\ b \in 1 .. N
    BY <1>3 DEF Sleeves
  <2> QED
    BY <1>1, <1>3, <2>1, <2>2 DEF MinOf
<1>6. NettingTypes'
  <2>1. leftBuy' \in [Sleeves -> Nat] /\ leftSell' \in [Sleeves -> Nat]
    BY <1>1, <1>4, <1>5 DEF NettingTypes
  <2>2. crossed' \in [Sleeves -> [Sleeves -> Nat]]
    BY <1>1, <1>4 DEF NettingTypes
  <2> QED
    BY <1>1, <2>1, <2>2 DEF NettingTypes
\* Where the two first intervals lie, relative to x.
<1>7. /\ \A s \in 1 .. N + 1 :
            /\ Before(buy, s) \in Nat /\ Before(sell, s) \in Nat
            /\ Before(leftBuy, s) \in Nat /\ Before(leftSell, s) \in Nat
      /\ \A s \in 1 .. N : buy[s] \in Nat /\ sell[s] \in Nat
  BY <1>1, BeforeMasked DEF NettingTypes, Sleeves
<1>8. /\ Before(leftBuy, b) = 0 /\ Before(leftSell, a) = 0
      /\ Before(leftBuy, b + 1) = leftBuy[b] /\ Before(leftSell, a + 1) = leftSell[a]
      /\ Before(buy, b + 1) = Before(buy, b) + buy[b]
      /\ Before(sell, a + 1) = Before(sell, a) + sell[a]
  <2>1. leftBuy \in [1 .. N -> Nat] /\ leftSell \in [1 .. N -> Nat]
        /\ buy \in [1 .. N -> Nat] /\ sell \in [1 .. N -> Nat]
    BY <1>1 DEF NettingTypes, Sleeves
  <2>2. Before(leftBuy, b) = 0 /\ Before(leftSell, a) = 0
    <3>1. \A s \in 1 .. b - 1 : leftBuy[s] = 0
      BY <1>1, <1>3, <1>5 DEF Sleeves
    <3>2. \A s \in 1 .. a - 1 : leftSell[s] = 0
      BY <1>1, <1>3, <1>5 DEF Sleeves
    <3> QED
      BY <1>1, <1>5, <2>1, <3>1, <3>2, BeforeFirst
  <2>3. /\ Before(leftBuy, b + 1) = Before(leftBuy, b) + leftBuy[b]
        /\ Before(leftSell, a + 1) = Before(leftSell, a) + leftSell[a]
        /\ Before(buy, b + 1) = Before(buy, b) + buy[b]
        /\ Before(sell, a + 1) = Before(sell, a) + sell[a]
    BY <1>1, <1>5, <2>1, BeforeNext
  <2> QED
    BY <1>5, <2>2, <2>3
<1>9. /\ Before(buy, b) <= x /\ x + leftBuy[b] = Before(buy, b) + buy[b]
      /\ Before(sell, a) <= x /\ x + leftSell[a] = Before(sell, a) + sell[a]
  <2>1. /\ Beyond(buy, b, x) = 0 /\ Beyond(buy, b + 1, x) = leftBuy[b]
        /\ Beyond(sell, a, x) = 0 /\ Beyond(sell, a + 1, x) = leftSell[a]
    BY <1>2, <1>5, <1>8 DEF Walked
  <2> QED
    BY <1>3, <1>5, <1>7, <1>8, <2>1 DEF Beyond, MaxOf
<1>0. /\ leftBuy \in [1 .. N -> Nat] /\ leftSell \in [1 .. N -> Nat]
      /\ leftBuy' \in [1 .. N -> Nat] /\ leftSell' \in [1 .. N -> Nat]
  BY <1>1, <1>6 DEF NettingTypes, Sleeves
<1>10. Walked(x + q)'
  <2>1. x + q <= Total(buy) /\ x + q <= Total(sell)
    <3>1. /\ buy \in [1 .. N -> Nat] /\ sell \in [1 .. N -> Nat]
          /\ N + 1 \in 1 .. N + 1 /\ b + 1 <= N + 1 /\ a + 1 <= N + 1
      <4>1. buy \in [1 .. N -> Nat] /\ sell \in [1 .. N -> Nat]
        BY <1>1 DEF NettingTypes, Sleeves
      <4>2. N + 1 \in 1 .. N + 1
        BY <1>1
      <4> QED
        BY <1>1, <1>5, <4>1, <4>2
    <3>2. Before(buy, b + 1) <= Before(buy, N + 1) /\ Before(sell, a + 1) <= Before(sell, N + 1)
      BY <1>1, <1>5, <3>1, BeforeMonotone
    <3>3. Before(buy, N + 1) = Total(buy) /\ Before(sell, N + 1) = Total(sell)
      BY <1>1, <3>1, BeforeAll
    <3> QED
      BY <1>1, <1>5, <1>7, <1>8, <1>9, <3>2, <3>3
  <2>2. ASSUME NEW s \in 1 .. N + 1
        PROVE  Before(leftBuy', s) = Beyond(buy, s, x + q)
    <3>1. Before(leftBuy', s) = IF s > b THEN Before(leftBuy, s) - q ELSE Before(leftBuy, s)
      <4>1. PICK w \in Int : w = -q
        OBVIOUS
      <4>2. Added(leftBuy, leftBuy', N, b, w)
        BY <1>0, <1>4, <1>5, <4>1 DEF Added
      <4>3. Before(leftBuy', s) = Before(leftBuy, s) + Shift(b, s, w)
        <5>1. N \in Nat /\ b \in 1 .. N /\ s \in 1 .. N + 1
          BY <1>1, <1>5
        <5> HIDE DEF N
        <5> QED
          BY <1>0, <4>2, <5>1, BeforeTake
      <4> QED
        BY <1>7, <4>1, <4>3 DEF Shift
    <3>2. Before(leftBuy, s) = Beyond(buy, s, x)
      BY <1>2 DEF Walked
    <3>3. CASE s > b
      <4>1. Before(buy, b) + buy[b] <= Before(buy, s)
        BY <1>1, <1>5, <3>3, IntervalsApart DEF NettingTypes, Sleeves
      <4> QED
        BY <1>5, <1>7, <1>9, <3>1, <3>2, <3>3, <4>1 DEF Beyond, MaxOf
    <3>4. CASE ~ (s > b)
      <4>1. s <= b
        BY <1>5, <3>4
      <4>2. Before(buy, s) <= Before(buy, b)
        BY <1>1, <1>5, <4>1, BeforeMonotone DEF NettingTypes, Sleeves
      <4> QED
        BY <1>5, <1>7, <1>9, <3>1, <3>2, <3>4, <4>2 DEF Beyond, MaxOf
    <3> QED
      BY <3>3, <3>4
  <2>3. ASSUME NEW s \in 1 .. N + 1
        PROVE  Before(leftSell', s) = Beyond(sell, s, x + q)
    <3>1. Before(leftSell', s)
            = IF s > a THEN Before(leftSell, s) - q ELSE Before(leftSell, s)
      <4>1. PICK w \in Int : w = -q
        OBVIOUS
      <4>2. Added(leftSell, leftSell', N, a, w)
        BY <1>0, <1>4, <1>5, <4>1 DEF Added
      <4>3. Before(leftSell', s) = Before(leftSell, s) + Shift(a, s, w)
        <5>1. N \in Nat /\ a \in 1 .. N /\ s \in 1 .. N + 1
          BY <1>1, <1>5
        <5> HIDE DEF N
        <5> QED
          BY <1>0, <4>2, <5>1, BeforeTake
      <4> QED
        BY <1>7, <4>1, <4>3 DEF Shift
    <3>2. Before(leftSell, s) = Beyond(sell, s, x)
      BY <1>2 DEF Walked
    <3>3. CASE s > a
      <4>1. Before(sell, a) + sell[a] <= Before(sell, s)
        BY <1>1, <1>5, <3>3, IntervalsApart DEF NettingTypes, Sleeves
      <4> QED
        BY <1>5, <1>7, <1>9, <3>1, <3>2, <3>3, <4>1 DEF Beyond, MaxOf
    <3>4. CASE ~ (s > a)
      <4>1. s <= a
        BY <1>5, <3>4
      <4>2. Before(sell, s) <= Before(sell, a)
        BY <1>1, <1>5, <4>1, BeforeMonotone DEF NettingTypes, Sleeves
      <4> QED
        BY <1>5, <1>7, <1>9, <3>1, <3>2, <3>4, <4>2 DEF Beyond, MaxOf
    <3> QED
      BY <3>3, <3>4
  <2>4. ASSUME NEW c \in Sleeves, NEW d \in Sleeves
        PROVE  crossed'[c][d] = Overlap(c, d, x + q)
    <3>1. crossed[c][d] = Overlap(c, d, x)
      BY <1>2 DEF Walked
    <3>2. crossed'[c][d] = IF c = a /\ d = b THEN crossed[c][d] + q ELSE crossed[c][d]
      BY <1>1, <1>4 DEF NettingTypes
    <3>3. /\ c \in 1 .. N /\ d \in 1 .. N /\ c \in 1 .. N + 1 /\ d \in 1 .. N + 1
          /\ Before(sell, c) \in Nat /\ Before(buy, d) \in Nat
          /\ sell[c] \in Nat /\ buy[d] \in Nat
      <4>1. c \in 1 .. N /\ d \in 1 .. N /\ c \in 1 .. N + 1 /\ d \in 1 .. N + 1
        BY <1>1 DEF Sleeves
      <4> QED
        BY <1>7, <4>1
    <3>4. CASE c = a /\ d = b
      BY <1>5, <1>9, <3>1, <3>2, <3>3, <3>4 DEF Overlap, MaxOf, MinOf
    <3>5. CASE c < a
      <4>1. Before(sell, c) + sell[c] <= Before(sell, a)
        BY <1>1, <1>5, <3>3, <3>5, IntervalsApart DEF NettingTypes, Sleeves
      <4> QED
        BY <1>5, <1>7, <1>9, <3>1, <3>2, <3>3, <3>5, <4>1 DEF Overlap, MaxOf, MinOf
    <3>6. CASE a < c
      <4>1. Before(sell, a) + sell[a] <= Before(sell, c)
        BY <1>1, <1>5, <3>3, <3>6, IntervalsApart DEF NettingTypes, Sleeves
      <4> QED
        BY <1>5, <1>7, <1>9, <3>1, <3>2, <3>3, <3>6, <4>1 DEF Overlap, MaxOf, MinOf
    <3>7. CASE d < b
      <4>1. Before(buy, d) + buy[d] <= Before(buy, b)
        BY <1>1, <1>5, <3>3, <3>7, IntervalsApart DEF NettingTypes, Sleeves
      <4> QED
        BY <1>5, <1>7, <1>9, <3>1, <3>2, <3>3, <3>7, <4>1 DEF Overlap, MaxOf, MinOf
    <3>8. CASE b < d
      <4>1. Before(buy, b) + buy[b] <= Before(buy, d)
        BY <1>1, <1>5, <3>3, <3>8, IntervalsApart DEF NettingTypes, Sleeves
      <4> QED
        BY <1>5, <1>7, <1>9, <3>1, <3>2, <3>3, <3>8, <4>1 DEF Overlap, MaxOf, MinOf
    <3> QED
      BY <1>5, <3>3, <3>4, <3>5, <3>6, <3>7, <3>8
  <2> QED
    BY <1>1, <2>1, <2>2, <2>3, <2>4 DEF Walked, Beyond, Overlap, Before
<1> QED
  BY <1>1, <1>6, <1>10 DEF WalkInv, NetsAsSpecified

\* At the end of the walk one side is used up: what has been crossed are the
\* overlaps of the whole intervals, what is left the residuals.
LEMMA WalkEnds ==
    ASSUME WalkInv, pc = "net", Buyers = {} \/ Sellers = {}
    PROVE  /\ \A a \in Sleeves : \A b \in Sleeves :
                 crossed[a][b] = CrossQuantity(buy, sell, a, b)
           /\ leftSell = Residual(sell, buy) /\ leftBuy = Residual(buy, sell)
<1> DEFINE N == NumStrategies
<1>1. /\ NettingTypes /\ N \in Nat /\ N + 1 \in 1 .. N + 1 /\ Sleeves = 1 .. N
      /\ buy \in [1 .. N -> Nat] /\ sell \in [1 .. N -> Nat]
      /\ leftBuy \in [1 .. N -> Nat] /\ leftSell \in [1 .. N -> Nat]
  <2>1. N \in Nat
    BY NettingAssumption
  <2>2. N + 1 \in 1 .. N + 1
    BY <2>1
  <2> QED
    BY <2>1, <2>2 DEF WalkInv, NettingTypes, Sleeves
<1>2. PICK x \in Nat : Walked(x)
  BY DEF WalkInv
<1>3. PICK tb \in Nat, ts \in Nat : /\ tb = Total(buy) /\ ts = Total(sell)
                                    /\ tb = Before(buy, N + 1) /\ ts = Before(sell, N + 1)
  <2>1. Before(buy, N + 1) \in Nat /\ Before(sell, N + 1) \in Nat
    BY <1>1, BeforeMasked
  <2>2. Before(buy, N + 1) = Total(buy) /\ Before(sell, N + 1) = Total(sell)
    BY <1>1, BeforeAll
  <2> QED
    BY <2>1, <2>2
<1>4. x <= tb /\ x <= ts /\ (x = tb \/ x = ts)
  <2>1. x <= tb /\ x <= ts
    BY <1>2, <1>3 DEF Walked
  <2>2. CASE Buyers = {}
    <3>0. \A s \in 1 .. N : leftBuy[s] \in Nat /\ ~ (leftBuy[s] > 0)
      BY <1>1, <2>2 DEF Buyers
    <3>1. \A s \in 1 .. (N + 1) - 1 : leftBuy[s] = 0
      BY <1>1, <3>0
    <3>2. Before(leftBuy, N + 1) = 0
      BY <1>1, <3>1, BeforeFirst
    <3>3. Beyond(buy, N + 1, x) = 0
      BY <1>1, <1>2, <3>2 DEF Walked
    <3> QED
      BY <1>3, <2>1, <3>3 DEF Beyond, MaxOf
  <2>3. CASE Sellers = {}
    <3>0. \A s \in 1 .. N : leftSell[s] \in Nat /\ ~ (leftSell[s] > 0)
      BY <1>1, <2>3 DEF Sellers
    <3>1. \A s \in 1 .. (N + 1) - 1 : leftSell[s] = 0
      BY <1>1, <3>0
    <3>2. Before(leftSell, N + 1) = 0
      BY <1>1, <3>1, BeforeFirst
    <3>3. Beyond(sell, N + 1, x) = 0
      BY <1>1, <1>2, <3>2 DEF Walked
    <3> QED
      BY <1>3, <2>1, <3>3 DEF Beyond, MaxOf
  <2> QED
    BY <2>1, <2>2, <2>3
\* The interval of one strategy: where it begins, how long it is, what is left.
<1>5. ASSUME NEW s \in 1 .. N
      PROVE  /\ Before(buy, s) \in Nat /\ buy[s] \in Nat
             /\ Before(buy, s) + buy[s] <= tb
             /\ leftBuy[s] = MaxOf(0, Before(buy, s) + buy[s] - x)
                               - MaxOf(0, Before(buy, s) - x)
             /\ Before(sell, s) \in Nat /\ sell[s] \in Nat
             /\ Before(sell, s) + sell[s] <= ts
             /\ leftSell[s] = MaxOf(0, Before(sell, s) + sell[s] - x)
                               - MaxOf(0, Before(sell, s) - x)
  <2>1. s \in 1 .. N + 1 /\ s + 1 \in 1 .. N + 1 /\ s + 1 <= N + 1
    BY <1>1
  <2>2. /\ Before(buy, s) \in Nat /\ Before(sell, s) \in Nat
        /\ Before(leftBuy, s) \in Nat /\ Before(leftSell, s) \in Nat
        /\ buy[s] \in Nat /\ sell[s] \in Nat
        /\ leftBuy[s] \in Nat /\ leftSell[s] \in Nat
    BY <1>1, <2>1, BeforeMasked
  <2>3. /\ Before(buy, s + 1) = Before(buy, s) + buy[s]
        /\ Before(sell, s + 1) = Before(sell, s) + sell[s]
        /\ Before(leftBuy, s + 1) = Before(leftBuy, s) + leftBuy[s]
        /\ Before(leftSell, s + 1) = Before(leftSell, s) + leftSell[s]
    BY <1>1, BeforeNext
  <2>4. Before(buy, s + 1) <= Before(buy, N + 1) /\ Before(sell, s + 1) <= Before(sell, N + 1)
    BY <1>1, <2>1, BeforeMonotone
  <2>5. /\ Before(leftBuy, s) = Beyond(buy, s, x)
        /\ Before(leftBuy, s + 1) = Beyond(buy, s + 1, x)
        /\ Before(leftSell, s) = Beyond(sell, s, x)
        /\ Before(leftSell, s + 1) = Beyond(sell, s + 1, x)
    BY <1>2, <2>1 DEF Walked
  <2> QED
    BY <1>3, <2>2, <2>3, <2>4, <2>5 DEF Beyond, MaxOf
<1>6. ASSUME NEW a \in Sleeves, NEW b \in Sleeves
      PROVE  crossed[a][b] = CrossQuantity(buy, sell, a, b)
  <2>1. crossed[a][b] = Overlap(a, b, x)
    BY <1>2 DEF Walked
  <2>2. /\ Before(buy, b) \in Nat /\ buy[b] \in Nat /\ Before(buy, b) + buy[b] <= tb
        /\ Before(sell, a) \in Nat /\ sell[a] \in Nat /\ Before(sell, a) + sell[a] <= ts
    BY <1>1, <1>5
  <2>3. MinOf(MinOf(Before(sell, a) + sell[a], Before(buy, b) + buy[b]), x)
          = MinOf(Before(sell, a) + sell[a], Before(buy, b) + buy[b])
    BY <1>4, <2>2 DEF MinOf
  <2> QED
    BY <2>1, <2>3 DEF Overlap, CrossQuantity
<1>7. leftSell = Residual(sell, buy)
  <2>1. ASSUME NEW s \in 1 .. N
        PROVE  leftSell[s] = MaxOf(0, MinOf(sell[s], Before(sell, s) + sell[s] - tb))
    BY <1>4, <1>5 DEF MaxOf, MinOf
  <2> QED
    BY <1>1, <1>3, <2>1 DEF Residual
<1>8. leftBuy = Residual(buy, sell)
  <2>1. ASSUME NEW s \in 1 .. N
        PROVE  leftBuy[s] = MaxOf(0, MinOf(buy[s], Before(buy, s) + buy[s] - ts))
    BY <1>4, <1>5 DEF MaxOf, MinOf
  <2> QED
    BY <1>1, <1>3, <2>1 DEF Residual
<1> QED
  BY <1>6, <1>7, <1>8

LEMMA WalkInvariant == LoopSpec => []WalkInv
<1>1. LoopInit => WalkInv
  BY WalkInit
<1>2. ASSUME WalkInv, [LoopNext]_loopVars PROVE WalkInv'
  <2>1. CASE CrossNext
    BY <1>2, <2>1, WalkStep
  <2>2. CASE PlaceOrder \/ NoOrder
    <3>1. /\ pc = "net" /\ (Buyers = {} \/ Sellers = {})
          /\ pc' \in {"fill", "done"} /\ UNCHANGED <<buy, sell, leftBuy, leftSell, crossed>>
      BY <2>2 DEF PlaceOrder, NoOrder, netting
    <3>2. NetsAsSpecified'
      BY <1>2, <3>1, WalkEnds DEF NetsAsSpecified, CrossQuantity, Residual, Before, Total
    <3> QED
      BY <1>2, <3>1, <3>2 DEF WalkInv, NettingTypes
  <2>3. CASE Fill \/ GiveNext \/ Allocated \/ UNCHANGED loopVars
    <3>1. /\ UNCHANGED <<buy, sell, leftBuy, leftSell, crossed>>
          /\ pc' = pc \/ (pc # "net" /\ pc' \in {"allocate", "done"})
      BY <2>3 DEF Fill, GiveNext, Allocated, loopVars, netting
    <3>2. NetsAsSpecified'
      BY <1>2, <3>1 DEF WalkInv, NetsAsSpecified, CrossQuantity, Residual, Before, Total
    <3>3. (pc = "net" => \E x \in Nat : Walked(x))'
      BY <1>2, <3>1 DEF WalkInv, Walked, Beyond, Overlap, Before
    <3>4. NettingTypes'
      BY <1>2, <3>1 DEF WalkInv, NettingTypes
    <3> QED
      BY <3>2, <3>3, <3>4 DEF WalkInv
  <2> QED
    BY <1>2, <2>1, <2>2, <2>3 DEF LoopNext
<1> QED
  BY <1>1, <1>2, PTL DEF LoopSpec

\* The two-pointer walk of net_sleeve_demands crosses what the closed form says
\* and leaves the residuals, for any demands of any number of strategies.
THEOREM WalkMeetsOverlaps == LoopSpec => []NetsAsSpecified
<1>1. WalkInv => NetsAsSpecified
  BY DEF WalkInv
<1> QED
  BY <1>1, WalkInvariant, PTL

-----------------------------------------------------------------------------
\* The allocation loop.

\* Larger values come first, and of equal ones the lower number.
Precedes(f, t, s) == f[t] > f[s] \/ (f[t] = f[s] /\ t < s)

\* Every part of the strategies has one that precedes all others.
LEMMA PrecedingLeast ==
    ASSUME NEW n \in Nat, NEW f \in [1 .. n -> Int], NEW S \in SUBSET (1 .. n), S # {}
    PROVE  \E x \in S : \A y \in S \ {x} : Precedes(f, x, y)
<1> DEFINE Least(T) == \E x \in T : \A y \in T \ {x} : Precedes(f, x, y)
           Good == {k \in Nat : \A T \in SUBSET (1 .. n) :
                                  T # {} /\ (\A x \in T : x <= k) => Least(T)}
<1>1. 0 \in Good
  <2>1. ASSUME NEW T \in SUBSET (1 .. n), T # {}, \A x \in T : x <= 0 PROVE FALSE
    <3>1. PICK x \in T : x \in 1 .. n /\ x <= 0
      BY <2>1
    <3> QED
      BY <3>1
  <2> QED
    BY <2>1
<1>2. ASSUME NEW k \in Good PROVE k + 1 \in Good
  <2>1. k \in Nat /\ k + 1 \in Nat
    OBVIOUS
  <2>2. ASSUME NEW T \in SUBSET (1 .. n), T # {}, \A x \in T : x <= k + 1
        PROVE  Least(T)
    <3>1. CASE k + 1 \notin T
      <4>1. \A x \in T : x <= k
        BY <2>1, <2>2, <3>1
      <4> QED
        BY <2>2, <4>1
    <3>2. CASE k + 1 \in T
      <4> DEFINE R == T \ {k + 1}
      <4>1. R \in SUBSET (1 .. n) /\ \A x \in R : x <= k
        BY <2>1, <2>2
      <4>2. CASE R = {}
        <5>1. \A y \in T \ {k + 1} : Precedes(f, k + 1, y)
          BY <4>2
        <5> QED
          BY <3>2, <5>1
      <4>3. CASE R # {}
        <5>1. Least(R)
          <6> HIDE DEF Least, R
          <6> QED
            BY <4>1, <4>3
        <5>2. PICK m \in R : \A y \in R \ {m} : Precedes(f, m, y)
          BY <5>1
        <5>3. /\ m \in T /\ m # k + 1 /\ m <= k /\ m \in 1 .. n /\ k + 1 \in 1 .. n
              /\ f[m] \in Int /\ f[k + 1] \in Int
          BY <3>2, <4>1, <5>2
        <5>4. CASE f[k + 1] > f[m]
          <6>1. ASSUME NEW y \in T \ {k + 1} PROVE Precedes(f, k + 1, y)
            <7>1. y \in R /\ f[y] \in Int
              OBVIOUS
            <7>2. y = m \/ Precedes(f, m, y)
              BY <5>2, <7>1
            <7> QED
              BY <5>3, <5>4, <7>1, <7>2 DEF Precedes
          <6> QED
            BY <3>2, <6>1
        <5>5. CASE ~ (f[k + 1] > f[m])
          <6>1. Precedes(f, m, k + 1)
            BY <2>1, <5>3, <5>5 DEF Precedes
          <6>2. \A y \in T \ {m} : Precedes(f, m, y)
            BY <5>2, <6>1
          <6> QED
            BY <5>3, <6>2
        <5> QED
          BY <5>4, <5>5
      <4> QED
        BY <4>2, <4>3
    <3> QED
      BY <3>1, <3>2
  <2> HIDE DEF Least
  <2> QED
    BY <2>1, <2>2
<1>3. n \in Good
  <2>1. Good \in SUBSET Nat
    OBVIOUS
  <2> HIDE DEF Good
  <2> QED
    BY <1>1, <1>2, <2>1, NatInductionOnSets
<1>4. S \in SUBSET (1 .. n) /\ S # {} /\ \A x \in S : x <= n
  OBVIOUS
<1>5. Least(S)
  <2> HIDE DEF Least
  <2> QED
    BY <1>3, <1>4
<1> QED
  BY <1>5

Base == BaseShare(fill, requested, lot)
Demanding == {s \in Sleeves : requested[s] > 0}

\* The strategies that have been given their extra lot.
Taken == {s \in Demanding \ visit : Base[s] + lot <= requested[s]}

SharingTypes ==
    /\ requested \in [Sleeves -> Nat]
    /\ lot \in Nat \ {0}
    /\ fill \in 0 .. Total(requested)

\* The loop has looked at a top part of the sorted remainders, and has given
\* one lot to each strategy of it that had room.
Sharing ==
    /\ fill > 0 /\ visit \in SUBSET Demanding
    /\ \A s \in Demanding \ visit : \A t \in visit : ~ GoesBefore(t, s)
    /\ allocated = [s \in Sleeves |-> IF s \in Taken THEN Base[s] + lot ELSE Base[s]]
    /\ remaining = fill - Total(Base) - lot * Cardinality(Taken)
    /\ Taken # {} => remaining >= 0

ShareInv ==
    /\ SharingTypes
    /\ pc \in {"net", "fill"} => fill = 0 /\ allocated = Nothing
    /\ pc = "allocate" => Sharing
    /\ AllocatesAsSpecified

LEMMA BaseFacts ==
    ASSUME NEW r \in [Sleeves -> Nat], NEW l \in Nat \ {0}, NEW k \in 1 .. Total(r)
    PROVE  BaseShare(k, r, l) \in [Sleeves -> Nat] /\ Total(BaseShare(k, r, l)) \in Int
<1> DEFINE base == BaseShare(k, r, l)
<1>1. IsFiniteSet(Sleeves)
  BY NettingAssumption, FS_Interval DEF Sleeves
<1>2. \A s \in Sleeves : base[s] \in Nat
  BY <1>1, BaseShareType
<1>3. base = [s \in Sleeves |-> base[s]]
  BY DEF BaseShare
<1> HIDE DEF base
<1>4. base \in [Sleeves -> Nat]
  BY <1>2, <1>3
<1>5. Total(base) \in Int
  BY <1>1, <1>4, TotalType
<1> QED
  BY <1>4, <1>5 DEF base

\* While lots are handed out the sort key is a comparison of integers.
LEMMA SharingFacts ==
    ASSUME SharingTypes, fill > 0
    PROVE  /\ IsFiniteSet(Sleeves) /\ Base \in [Sleeves -> Nat]
           /\ Total(Base) \in Int
           /\ \E f \in [Sleeves -> Int] :
                 \A t \in Sleeves : \A s \in Sleeves :
                    GoesBefore(t, s) <=> Precedes(f, t, s)
<1>1. /\ IsFiniteSet(Sleeves) /\ Total(requested) \in Nat
      /\ requested \in [Sleeves -> Nat] /\ lot \in Nat \ {0}
      /\ fill \in 1 .. Total(requested)
  <2>1. IsFiniteSet(Sleeves)
    BY NettingAssumption, FS_Interval DEF Sleeves
  <2>2. Total(requested) \in Nat
    BY <2>1, TotalNat DEF SharingTypes
  <2> QED
    BY <2>1, <2>2 DEF SharingTypes
<1>3. Base \in [Sleeves -> Nat] /\ Total(Base) \in Int
  BY <1>1, BaseFacts DEF Base
<1>2. \A s \in Sleeves : Base[s] \in Nat
  BY <1>3
<1>5. \E f \in [Sleeves -> Int] :
        \A t \in Sleeves : \A s \in Sleeves : GoesBefore(t, s) <=> Precedes(f, t, s)
  <2> DEFINE value(x) == fill * requested[x] - Base[x] * Total(requested)
             f == [x \in Sleeves |-> value(x)]
  <2>1. ASSUME NEW x \in Sleeves PROVE value(x) \in Int
    <3>1. PICK r \in Nat, v \in Nat, k \in Nat, w \in Nat :
            r = requested[x] /\ v = Base[x] /\ k = Total(requested) /\ w = fill
      BY <1>1, <1>2
    <3>2. w * r - v * k \in Int
      OBVIOUS
    <3> QED
      BY <3>1, <3>2
  <2>2. f \in [Sleeves -> Int]
    BY <2>1
  <2>3. ASSUME NEW t \in Sleeves, NEW s \in Sleeves
        PROVE  GoesBefore(t, s) <=> Precedes(f, t, s)
    <3>1. f[t] = value(t) /\ f[s] = value(s)
      OBVIOUS
    <3>2. GoesBefore(t, s) <=> value(t) > value(s) \/ (value(t) = value(s) /\ t < s)
      BY DEF GoesBefore, Base
    <3> HIDE DEF value, f
    <3> QED
      BY <3>1, <3>2 DEF Precedes
  <2> HIDE DEF f
  <2> QED
    BY <2>2, <2>3
<1> QED
  BY <1>1, <1>3, <1>5

LEMMA ShareFill ==
    ASSUME ShareInv, Fill
    PROVE  ShareInv'
<1>1. SharingTypes /\ pc = "fill" /\ fill = 0 /\ allocated = Nothing
  BY DEF ShareInv, Fill
<1>2. SharingTypes'
  BY <1>1 DEF Fill, SharingTypes
<1>3. CASE fill' = 0
  <2>1. pc' = "done" /\ allocated' = Nothing /\ DOMAIN requested' = Sleeves
    BY <1>1, <1>2, <1>3 DEF Fill, SharingTypes
  <2>2. AllocatesAsSpecified'
    BY <1>3, <2>1 DEF AllocatesAsSpecified, Allocation, Nothing
  <2> QED
    BY <1>2, <2>1, <2>2 DEF ShareInv
<1>4. CASE fill' # 0
  <2>1. /\ pc' = "allocate" /\ UNCHANGED <<requested, lot>>
        /\ allocated' = BaseShare(fill', requested, lot)
        /\ remaining' = fill' - Total(allocated')
        /\ visit' = {s \in Sleeves : requested[s] > 0}
    BY <1>4 DEF Fill
  <2>2. fill' > 0
    BY <1>2, <1>4 DEF SharingTypes
  <2>3. Base' \in [Sleeves -> Nat] /\ Total(Base') \in Int
    BY <1>2, <2>2, BaseFacts DEF SharingTypes, Base
  <2>4. visit' = Demanding' /\ Taken' = {} /\ allocated' = Base'
    BY <2>1 DEF Demanding, Taken, Base
  <2>5. Cardinality(Taken') = 0
    BY <2>4, FS_EmptySet
  <2>6. lot' \in Nat /\ fill' \in Nat
    BY <1>2, <2>2 DEF SharingTypes
  <2>7. remaining' = fill' - Total(Base') - lot' * Cardinality(Taken')
    BY <2>1, <2>3, <2>4, <2>5, <2>6
  <2>8. allocated' = [s \in Sleeves |-> IF s \in Taken' THEN Base'[s] + lot' ELSE Base'[s]]
    BY <2>3, <2>4
  <2>9. Sharing'
    BY <2>2, <2>4, <2>7, <2>8 DEF Sharing
  <2> QED
    BY <1>2, <2>1, <2>9 DEF ShareInv, AllocatesAsSpecified
<1> QED
  BY <1>3, <1>4

\* The next strategy of the sorted list precedes all the others left.
LEMMA NextOfVisit ==
    ASSUME SharingTypes, fill > 0, visit \in SUBSET Sleeves, visit # {}
    PROVE  LET s == CHOOSE x \in visit : \A y \in visit \ {x} : GoesBefore(x, y)
           IN  s \in visit /\ \A y \in visit \ {s} : GoesBefore(s, y)
<1>1. PICK f \in [Sleeves -> Int] :
        \A t \in Sleeves : \A s \in Sleeves : GoesBefore(t, s) <=> Precedes(f, t, s)
  BY SharingFacts
<1>2. \E x \in visit : \A y \in visit \ {x} : Precedes(f, x, y)
  BY PrecedingLeast, NettingAssumption DEF Sleeves
<1>3. \E x \in visit : \A y \in visit \ {x} : GoesBefore(x, y)
  BY <1>1, <1>2
<1> QED
  BY <1>3

LEMMA ShareGive ==
    ASSUME ShareInv, GiveNext
    PROVE  ShareInv'
<1>1. /\ SharingTypes /\ Sharing /\ pc = "allocate" /\ pc' = pc
      /\ UNCHANGED <<requested, lot, fill>> /\ visit # {} /\ remaining >= lot
  BY DEF ShareInv, GiveNext
<1>2. /\ Base \in [Sleeves -> Nat] /\ Total(Base) \in Int /\ Base' = Base
      /\ IsFiniteSet(Sleeves) /\ lot \in Nat \ {0} /\ fill \in Nat
      /\ requested \in [Sleeves -> Nat] /\ Demanding' = Demanding
      /\ Demanding \in SUBSET Sleeves /\ visit \in SUBSET Sleeves
  <2>1. Base' = Base /\ Demanding' = Demanding
    BY <1>1 DEF Base, Demanding
  <2>2. Demanding \in SUBSET Sleeves /\ visit \in SUBSET Sleeves
    BY <1>1 DEF Demanding, Sharing
  <2>3. Base \in [Sleeves -> Nat] /\ Total(Base) \in Int /\ IsFiniteSet(Sleeves)
    BY <1>1, SharingFacts DEF Sharing
  <2>4. lot \in Nat \ {0} /\ fill \in Nat /\ requested \in [Sleeves -> Nat]
    BY <1>1, <2>3, TotalNat DEF SharingTypes
  <2> QED
    BY <2>1, <2>2, <2>3, <2>4
<1>3. PICK s \in visit :
        /\ \A y \in visit \ {s} : GoesBefore(s, y)
        /\ visit' = visit \ {s}
        /\ IF Fits(s)
           THEN /\ allocated' = [allocated EXCEPT ![s] = @ + lot]
                /\ remaining' = remaining - lot
           ELSE UNCHANGED <<allocated, remaining>>
  BY <1>1, <1>2, NextOfVisit DEF GiveNext, Sharing
<1>4. SharingTypes' /\ fill' > 0 /\ visit' \in SUBSET Demanding'
  BY <1>1, <1>2, <1>3 DEF SharingTypes, Sharing
<1>5. PICK f \in [Sleeves -> Int] :
        \A t \in Sleeves : \A r \in Sleeves : GoesBefore(t, r) <=> Precedes(f, t, r)
  BY <1>1, SharingFacts DEF Sharing
<1>6. ASSUME NEW r \in (Demanding \ visit)', NEW t \in visit' PROVE ~ GoesBefore(t, r)'
  <2>1. GoesBefore(t, r)' <=> GoesBefore(t, r)
    BY <1>1 DEF GoesBefore
  <2>2. t \in visit /\ t # s /\ r \in Demanding /\ (r = s \/ r \notin visit)
    BY <1>2, <1>3
  <2>3. CASE r = s
    <3>1. t \in Sleeves /\ s \in Sleeves /\ t \in Nat /\ s \in Nat
      BY <1>2, <1>3, <2>2 DEF Sleeves
    <3>2. Precedes(f, s, t)
      BY <1>3, <1>5, <2>2, <3>1
    <3>3. ~ Precedes(f, t, s)
      BY <1>5, <3>1, <3>2 DEF Precedes
    <3> QED
      BY <1>5, <2>1, <2>3, <3>1, <3>3
  <2>4. CASE r \notin visit
    BY <1>1, <2>1, <2>2, <2>4 DEF Sharing
  <2> QED
    BY <2>2, <2>3, <2>4
<1>7. /\ s \in Demanding /\ s \in Sleeves /\ s \notin Taken /\ allocated[s] = Base[s]
      /\ Base[s] \in Nat /\ requested[s] \in Nat
      /\ IsFiniteSet(Taken) /\ Cardinality(Taken) \in Nat /\ Taken \in SUBSET Sleeves
  <2>1. s \in Demanding /\ s \in Sleeves /\ s \notin Taken
    BY <1>1, <1>2, <1>3 DEF Taken, Sharing
  <2>2. allocated[s] = Base[s]
    BY <1>1, <2>1 DEF Sharing
  <2>3. Taken \in SUBSET Sleeves
    BY <1>2 DEF Taken
  <2>4. IsFiniteSet(Taken) /\ Cardinality(Taken) \in Nat
    BY <1>2, <2>3, FS_Subset, FS_CardinalityType
  <2> QED
    BY <1>2, <2>1, <2>2, <2>3, <2>4
<1>8. CASE Fits(s)
  <2>1. Base[s] + lot <= requested[s]
    BY <1>7, <1>8 DEF Fits
  <2>2. Taken' = Taken \cup {s}
    BY <1>1, <1>2, <1>3, <1>7, <2>1 DEF Taken
  <2>3. Cardinality(Taken') = Cardinality(Taken) + 1
    BY <1>7, <2>2, FS_AddElement
  <2>4. allocated' = [r \in Sleeves |-> IF r \in Taken' THEN Base'[r] + lot' ELSE Base'[r]]
    <3>1. allocated = [r \in Sleeves |-> IF r \in Taken THEN Base[r] + lot ELSE Base[r]]
      BY <1>1 DEF Sharing
    <3>2. allocated' = [allocated EXCEPT ![s] = Base[s] + lot]
      BY <1>3, <1>7, <1>8
    <3>3. Base' = Base /\ lot' = lot
      BY <1>1, <1>2
    <3> HIDE DEF Taken, Base
    <3> QED
      BY <1>7, <2>2, <3>1, <3>2, <3>3
  <2>5. /\ remaining' = fill' - Total(Base') - lot' * Cardinality(Taken')
        /\ remaining' >= 0
    <3>1. PICK c \in Nat, l \in Nat, w \in Nat, t \in Int :
            c = Cardinality(Taken) /\ l = lot /\ w = fill /\ t = Total(Base)
      BY <1>2, <1>7
    <3>2. remaining = w - t - l * c /\ remaining >= l
      BY <1>1, <3>1 DEF Sharing
    <3>3. remaining' = remaining - l
      BY <1>3, <1>8, <3>1
    <3>4. remaining' = w - t - l * (c + 1) /\ remaining' >= 0
      BY <3>2, <3>3
    <3>5. fill' = w /\ Total(Base') = t /\ lot' = l /\ Cardinality(Taken') = c + 1
      BY <1>1, <1>2, <2>3, <3>1
    <3> QED
      BY <3>4, <3>5
  <2>6. Sharing'
    BY <1>4, <1>6, <2>4, <2>5 DEF Sharing
  <2> QED
    BY <1>1, <1>4, <2>6 DEF ShareInv, AllocatesAsSpecified
<1>9. CASE ~ Fits(s)
  <2>1. ~ (Base[s] + lot <= requested[s])
    BY <1>7, <1>9 DEF Fits
  <2>2. Taken' = Taken
    BY <1>1, <1>2, <1>3, <1>7, <2>1 DEF Taken
  <2>3. UNCHANGED <<allocated, remaining, fill, lot>>
    BY <1>1, <1>3, <1>9
  <2>4. Sharing'
    BY <1>1, <1>2, <1>4, <1>6, <2>2, <2>3 DEF Sharing
  <2> QED
    BY <1>1, <1>4, <2>4 DEF ShareInv, AllocatesAsSpecified
<1> QED
  BY <1>8, <1>9

\* When the loop ends, those given a lot are as many as there were spare lots,
\* or all with room; either way the ones the closed form counts out.
LEMMA ShareEnds ==
    ASSUME ShareInv, pc = "allocate", visit = {} \/ remaining < lot
    PROVE  allocated = Allocation(fill, requested, lot)
<1> DEFINE roomy == {s \in Sleeves : Base[s] + lot <= requested[s]}
           ahead(s) == {t \in roomy : GoesBefore(t, s)}
           spare == (fill - Total(Base)) \div lot
           lucky == {s \in roomy : Cardinality(ahead(s)) < spare}
<1>1. /\ SharingTypes /\ Sharing
      /\ IsFiniteSet(Sleeves) /\ Base \in [Sleeves -> Nat] /\ Total(Base) \in Int
      /\ lot \in Nat \ {0} /\ fill \in Nat /\ fill > 0 /\ requested \in [Sleeves -> Nat]
      /\ visit \in SUBSET Sleeves
  <2>1. SharingTypes /\ Sharing
    BY DEF ShareInv
  <2>2. IsFiniteSet(Sleeves) /\ Base \in [Sleeves -> Nat] /\ Total(Base) \in Int
    BY <2>1, SharingFacts DEF Sharing
  <2>3. lot \in Nat \ {0} /\ fill \in Nat /\ fill > 0 /\ requested \in [Sleeves -> Nat]
    BY <2>1, <2>2, TotalNat DEF SharingTypes, Sharing
  <2> QED
    BY <2>1, <2>2, <2>3 DEF Sharing, Demanding
<1>2. PICK f \in [Sleeves -> Int] :
        \A t \in Sleeves : \A r \in Sleeves : GoesBefore(t, r) <=> Precedes(f, t, r)
  BY <1>1, SharingFacts
<1>3. roomy \in SUBSET Demanding /\ roomy \in SUBSET Sleeves /\ Taken = roomy \ visit
  <2>1. ASSUME NEW s \in roomy PROVE s \in Demanding
    <3>1. Base[s] \in Nat /\ requested[s] \in Nat /\ Base[s] + lot <= requested[s]
      BY <1>1
    <3> QED
      BY <1>1, <3>1 DEF Demanding
  <2> QED
    BY <2>1 DEF Taken, Demanding
<1>4. /\ IsFiniteSet(roomy) /\ IsFiniteSet(Taken) /\ Cardinality(Taken) \in Nat
      /\ \A s : IsFiniteSet(ahead(s)) /\ Cardinality(ahead(s)) \in Nat
  <2>1. IsFiniteSet(roomy)
    BY <1>1, <1>3, FS_Subset
  <2>2. \A s : ahead(s) \in SUBSET roomy
    OBVIOUS
  <2> HIDE DEF ahead, roomy
  <2>3. IsFiniteSet(Taken) /\ Cardinality(Taken) \in Nat
    BY <1>3, <2>1, FS_Subset, FS_CardinalityType
  <2>4. \A s : IsFiniteSet(ahead(s)) /\ Cardinality(ahead(s)) \in Nat
    BY <2>1, <2>2, FS_Subset, FS_CardinalityType
  <2> QED
    BY <2>1, <2>3, <2>4
\* What is left, in lots.
<1>5. /\ Taken # {} => Cardinality(Taken) <= spare
      /\ visit # {} => spare <= Cardinality(Taken)
  <2>1. PICK c \in Nat, l \in Nat \ {0}, d \in Int :
          c = Cardinality(Taken) /\ l = lot /\ d = fill - Total(Base)
    BY <1>1, <1>4
  <2>2. remaining = d - l * c
    BY <1>1, <2>1 DEF Sharing
  <2>3. PICK k \in Int : k = d \div l /\ l * k <= d /\ d < l * k + l
    BY <2>1
  <2>4. ASSUME Taken # {} PROVE c <= k
    <3>1. l * c <= d
      BY <1>1, <2>1, <2>2, <2>4 DEF Sharing
    <3>2. l * c < l * (k + 1)
      BY <2>3, <3>1
    <3> QED
      BY <2>3, <3>2
  <2>5. ASSUME visit # {} PROVE k <= c
    <3>1. d < l * c + l
      BY <2>1, <2>2, <2>5
    <3>2. l * k < l * (c + 1)
      BY <2>3, <3>1
    <3> QED
      BY <2>3, <3>2
  <2> QED
    BY <2>1, <2>3, <2>4, <2>5
<1>6. spare \in Int
  BY <1>1
<1>7. ASSUME NEW s \in Taken PROVE s \in lucky
  <2>1. s \in roomy /\ s \in Demanding \ visit /\ s \in Sleeves
    BY <1>3
  <2>2. ASSUME NEW t \in ahead(s) PROVE t \in Taken \ {s}
    <3>1. t \in roomy /\ t \in Sleeves /\ GoesBefore(t, s)
      BY <1>3
    <3>2. t \notin visit
      BY <1>1, <2>1, <3>1 DEF Sharing
    <3>3. t # s
      <4>1. ~ GoesBefore(s, s)
        BY <1>2, <2>1 DEF Precedes, Sleeves
      <4> QED
        BY <3>1, <4>1
    <3> QED
      BY <1>3, <3>1, <3>2, <3>3
  <2>3. Cardinality(Taken \ {s}) = Cardinality(Taken) - 1 /\ IsFiniteSet(Taken \ {s})
    BY <1>4, FS_RemoveElement
  <2>4. Cardinality(ahead(s)) <= Cardinality(Taken \ {s})
    <3>1. ahead(s) \in SUBSET (Taken \ {s})
      BY <2>2
    <3> HIDE DEF ahead
    <3> QED
      BY <2>3, <3>1, FS_Subset
  <2> HIDE DEF spare, roomy, ahead
  <2>5. Cardinality(ahead(s)) < spare
    BY <1>4, <1>5, <1>6, <2>3, <2>4
  <2> QED
    BY <2>1, <2>5
<1>8. ASSUME NEW s \in roomy, s \notin Taken PROVE s \notin lucky
  <2>1. s \in visit /\ s \in Sleeves
    BY <1>3, <1>8
  <2>2. ASSUME NEW t \in Taken PROVE t \in ahead(s)
    <3>1. t \in roomy /\ t \in Sleeves /\ t \in Demanding \ visit /\ t # s
      BY <1>3, <1>8
    <3>2. ~ GoesBefore(s, t)
      BY <1>1, <2>1, <3>1 DEF Sharing
    <3>3. f[s] \in Int /\ f[t] \in Int /\ s \in Nat /\ t \in Nat
      BY <2>1, <3>1 DEF Sleeves
    <3>4. GoesBefore(t, s)
      BY <1>2, <2>1, <3>1, <3>2, <3>3 DEF Precedes
    <3> QED
      BY <3>1, <3>4
  <2>3. Cardinality(Taken) <= Cardinality(ahead(s))
    <3>1. Taken \in SUBSET ahead(s)
      BY <2>2
    <3> HIDE DEF ahead
    <3> QED
      BY <1>4, <3>1, FS_Subset
  <2> HIDE DEF spare, roomy, ahead
  <2>4. ~ (Cardinality(ahead(s)) < spare)
    BY <1>4, <1>5, <1>6, <2>1, <2>3
  <2> QED
    BY <2>4
<1>9. lucky = Taken
  <2>1. \A s \in Taken : s \in lucky
    BY <1>7
  <2>2. \A s \in lucky : s \in roomy
    OBVIOUS
  <2> HIDE DEF lucky, roomy
  <2> QED
    BY <1>8, <2>1, <2>2
<1>10. Allocation(fill, requested, lot)
         = [s \in Sleeves |-> IF s \in lucky THEN Base[s] + lot ELSE Base[s]]
  <2>1. DOMAIN requested = Sleeves /\ fill # 0
    BY <1>1
  <2> QED
    BY <2>1 DEF Allocation, Base, GoesBefore
<1> HIDE DEF lucky
<1> QED
  BY <1>1, <1>9, <1>10 DEF Sharing

LEMMA ShareInvariant == LoopSpec => []ShareInv
<1>1. LoopInit => ShareInv
  <2> SUFFICES ASSUME LoopInit PROVE ShareInv
    OBVIOUS
  <2>1. pc = "net" /\ requested = Nothing /\ allocated = Nothing /\ lot = Lot /\ fill = 0
    BY DEF LoopInit
  <2>2. requested \in [Sleeves -> Nat] /\ lot \in Nat \ {0}
    BY <2>1, NettingAssumption DEF Nothing
  <2>3. IsFiniteSet(Sleeves)
    BY NettingAssumption, FS_Interval DEF Sleeves
  <2>4. Total(requested) \in Nat
    BY <2>2, <2>3, TotalNat
  <2> QED
    BY <2>1, <2>2, <2>4 DEF ShareInv, SharingTypes, AllocatesAsSpecified
<1>2. ASSUME WalkInv, ShareInv, [LoopNext]_loopVars PROVE ShareInv'
  <2>1. CASE PlaceOrder
    <3>1. PICK left \in {leftBuy, leftSell} : requested' = left
      BY <2>1 DEF PlaceOrder
    <3>2. /\ requested' \in [Sleeves -> Nat] /\ lot' \in Nat \ {0} /\ fill' = 0
          /\ pc' = "fill" /\ allocated' = Nothing
      BY <1>2, <2>1, <3>1, NettingAssumption
         DEF PlaceOrder, WalkInv, NettingTypes, ShareInv
    <3>3. Total(requested') \in Nat
      <4>1. IsFiniteSet(Sleeves)
        BY NettingAssumption, FS_Interval DEF Sleeves
      <4> QED
        BY <3>2, <4>1, TotalNat
    <3> QED
      BY <3>2, <3>3 DEF ShareInv, SharingTypes, AllocatesAsSpecified
  <2>2. CASE NoOrder
    <3>1. /\ UNCHANGED <<requested, lot, fill, allocated>> /\ pc' = "done"
          /\ SharingTypes /\ fill = 0 /\ allocated = Nothing
      BY <1>2, <2>2 DEF NoOrder, ShareInv, sharing
    <3>2. SharingTypes' /\ DOMAIN requested' = Sleeves
      BY <3>1 DEF SharingTypes
    <3>3. AllocatesAsSpecified'
      BY <3>1, <3>2 DEF AllocatesAsSpecified, Allocation, Nothing
    <3> QED
      BY <3>1, <3>2, <3>3 DEF ShareInv
  <2>3. CASE Fill
    BY <1>2, <2>3, ShareFill
  <2>4. CASE GiveNext
    BY <1>2, <2>4, ShareGive
  <2>5. CASE Allocated
    <3>1. /\ UNCHANGED <<requested, lot, fill, allocated>> /\ pc' = "done"
          /\ allocated = Allocation(fill, requested, lot) /\ SharingTypes
      BY <1>2, <2>5, ShareEnds DEF Allocated, ShareInv, sharing
    <3> QED
      BY <3>1 DEF ShareInv, SharingTypes, AllocatesAsSpecified
  <2>6. CASE CrossNext \/ UNCHANGED loopVars
    <3>1. UNCHANGED <<pc, sharing>>
      BY <2>6 DEF CrossNext, loopVars
    <3>2. /\ SharingTypes' /\ (Sharing' <=> Sharing)
          /\ (AllocatesAsSpecified' <=> AllocatesAsSpecified)
      BY <1>2, <3>1 DEF ShareInv, SharingTypes, Sharing, AllocatesAsSpecified, sharing,
           Taken, Demanding, Base, GoesBefore
    <3> QED
      BY <1>2, <3>1, <3>2 DEF ShareInv, sharing
  <2> QED
    BY <1>2, <2>1, <2>2, <2>3, <2>4, <2>5, <2>6 DEF LoopNext
<1> QED
  BY <1>1, <1>2, WalkInvariant, PTL DEF LoopSpec

\* The loop of allocate_fill_demands gives each strategy what the closed form
\* says, for any demands, any lot size and any fill in whole lots.
THEOREM SharingMeetsRemainders == LoopSpec => []AllocatesAsSpecified
<1>1. ShareInv => AllocatesAsSpecified
  BY DEF ShareInv
<1> QED
  BY <1>1, ShareInvariant, PTL
=============================================================================
