------------------------- MODULE SleeveLedgerProofs -------------------------
(***************************************************************************)
(* What holds of the ledger for any number of strategies, instruments and  *)
(* days, any prices, fees and corporate actions, and any fill.             *)
(***************************************************************************)
EXTENDS SleeveLedger, NettingProofs

(***************************************************************************)
(* TypeOK says that quantities are natural numbers.  That a sale, a cross  *)
(* or a delisting never takes more than is there needs three more facts:   *)
(* a lock is covered by shares, a lock is gone when the day opens (the     *)
(* only step that takes shares regardless of locks runs then), and the     *)
(* crosses still to be settled are covered by what the seller may sell.    *)
(***************************************************************************)
LocksHeld == \A a \in Accounts : \A i \in Instruments : locked[a][i] <= shares[a][i]

OpenUnlocked ==
    pc = "actions" => \A a \in Accounts : \A i \in Instruments : locked[a][i] = 0

CrossesCovered ==
    pc = "settle" => \A s \in Strategies : \A i \in Instruments :
                         SoldIn(i, s) <= Sellable(s, i)

TypeInv == TypeOK /\ LocksHeld /\ OpenUnlocked /\ CrossesCovered
-----------------------------------------------------------------------------
\* The index sets are finite, and the master is none of the strategies.
LEMMA IndexSets ==
  /\ NumStrategies \in Nat /\ Strategies = 1..NumStrategies
  /\ IsFiniteSet(Strategies) /\ IsFiniteSet(Instruments) /\ IsFiniteSet(Events)
  /\ Strategies \subseteq Accounts /\ Master \in Accounts /\ Master \notin Strategies
  /\ Instruments \subseteq Nat
BY FS_Interval, SizesAssumption, ActionsAssumption
   DEF Strategies, Instruments, Accounts, Master

\* The strategies' shares of a cost, none for a strategy without a fill.
LEMMA SharesType ==
  ASSUME NEW part \in [Strategies -> Nat], NEW c \in Int
  PROVE  /\ CostShare(c, part) \in [Strategies -> Int]
         /\ \A s \in Strategies : part[s] = 0 => CostShare(c, part)[s] = 0
<1>1. NumStrategies \in Nat /\ Strategies = 1..NumStrategies
  BY IndexSets
<1>2. part \in [1..NumStrategies -> Nat]
  BY <1>1
<1>3. /\ CostShare(c, part) \in [1..NumStrategies -> Int]
      /\ \A t \in 1..NumStrategies : part[t] = 0 => CostShare(c, part)[t] = 0
  BY <1>1, <1>2, CostShareTotal
<1>4. QED
  BY <1>1, <1>3

\* A strategy's share of a cost.
LEMMA ShareType ==
  ASSUME NEW part \in [Strategies -> Nat], NEW c \in Int, NEW s \in Strategies
  PROVE  CostShare(c, part)[s] \in Int /\ (part[s] = 0 => CostShare(c, part)[s] = 0)
<1>1. /\ CostShare(c, part) \in [Strategies -> Int]
      /\ part[s] = 0 => CostShare(c, part)[s] = 0
  BY SharesType
<1>2. QED
  BY <1>1

\* What is left of the strategies' demands are numbers of shares.
LEMMA ResidualOf ==
  ASSUME NEW own \in [Strategies -> Nat], NEW other \in [Strategies -> Nat]
  PROVE  Residual(own, other) \in [Strategies -> Nat]
<1>1. NumStrategies \in Nat /\ Strategies = 1..NumStrategies
  BY IndexSets
<1>2. own \in [1..NumStrategies -> Nat] /\ other \in [1..NumStrategies -> Nat]
  BY <1>1
<1>3. Residual(own, other) \in [1..NumStrategies -> Nat]
  BY <1>1, <1>2, ResidualType
<1>4. QED
  BY <1>1, <1>3

\* First picks a member, and no member is smaller.
LEMMA FirstMember ==
  ASSUME NEW T \in SUBSET Nat, T # {}
  PROVE  First(T) \in T /\ \A x \in T : First(T) <= x
BY NatMinimum DEF First

\* Prices and marks are natural numbers.
LEMMA PriceTypes ==
  ASSUME TypeOK, NEW i \in Instruments
  PROVE  RefPrice(i) \in Nat /\ ValuationPrice(i) \in Nat /\ MarkOf(i) \in Nat
         /\ LotSize[i] \in Nat \ {0} /\ Locking(i) \in {0, 1}
BY SizesAssumption DEF TypeOK, RefPrice, ValuationPrice, MarkOf, Locking

\* A sleeve is worth an integer.
LEMMA WorthType ==
  ASSUME TypeOK, NEW a \in Accounts
  PROVE  Worth(a, ValuationPrice) \in Int
<1> DEFINE value == [i \in Instruments |-> shares[a][i] * ValuationPrice(i)]
<1>1. value \in [Instruments -> Int]
  BY PriceTypes DEF TypeOK
<1>2. receivable[a] \in [Events -> Int] /\ cash[a] \in Int
  BY DEF TypeOK
<1>3. Total(value) \in Int /\ Total(receivable[a]) \in Int
  BY <1>1, <1>2, IndexSets, TotalType
<1>4. Worth(a, ValuationPrice) = cash[a] + Total(receivable[a]) + Total(value)
  BY DEF Worth
<1> HIDE DEF value
<1>5. QED
  BY <1>2, <1>3, <1>4

\* The desired quantity of a tradable instrument is an integer.
LEMMA DesiredType ==
  ASSUME TypeOK, NEW s \in Strategies, NEW i \in Instruments,
         i \in Considered(s), Tradable(i)
  PROVE  Desired(s, i) \in Int
<1>1. CASE Liquidates(s)
  BY <1>1 DEF Desired
<1>2. CASE ~Liquidates(s)
  <2>1. pending[s] \in Targets
    BY DEF TypeOK, Considered, Targeted
  <2>2. pending[s].weight \in [Instruments -> Nat]
    BY <1>2, <2>1, TargetsAssumption DEF Liquidates
  <2>3. Worth(s, ValuationPrice) \in Int
    BY WorthType, IndexSets
  <2>4. WeightUnit * RefPrice(i) \in Nat \ {0} /\ LotSize[i] \in Nat \ {0}
    <3>1. WeightUnit \in Nat \ {0} /\ RefPrice(i) \in Nat \ {0}
      BY PriceTypes, SizesAssumption DEF Tradable
    <3>2. QED
      BY <3>1, PriceTypes
  <2>5. Worth(s, ValuationPrice) * pending[s].weight[i] \in Int
    BY <2>2, <2>3
  <2>6. (Worth(s, ValuationPrice) * pending[s].weight[i])
           \div (WeightUnit * RefPrice(i)) \in Int
    BY <2>4, <2>5
  <2>7. Desired(s, i) = FloorTo((Worth(s, ValuationPrice) * pending[s].weight[i])
                                   \div (WeightUnit * RefPrice(i)), LotSize[i])
    BY <1>2 DEF Desired
  <2>8. QED
    BY <2>4, <2>6, <2>7, FloorToType
<1>3. QED
  BY <1>1, <1>2

\* What may be sold is a quantity.
LEMMA SellableType ==
  ASSUME TypeOK, LocksHeld, NEW a \in Accounts, NEW i \in Instruments
  PROVE  Sellable(a, i) \in Nat
BY DEF TypeOK, LocksHeld, Sellable

\* A sell demand is a quantity the sleeve may sell.
LEMMA SellDemandType ==
  ASSUME TypeOK, LocksHeld, NEW s \in Strategies, NEW i \in Instruments
  PROVE  SellDemand(s, i) \in Nat
<1>1. CASE i \notin Considered(s) \/ ~Tradable(i)
  BY <1>1 DEF SellDemand
<1>2. CASE i \in Considered(s) /\ Tradable(i)
  <2> DEFINE excess == MaxOf(0, shares[s][i] - Desired(s, i))
             able == MinOf(excess, Sellable(s, i))
  <2>0. Desired(s, i) \in Int
    BY <1>2, DesiredType
  <2>1. Desired(s, i) \in Int /\ shares[s][i] \in Nat
    BY <2>0, IndexSets DEF TypeOK
  <2>2. Sellable(s, i) \in Nat
    BY SellableType, IndexSets
  <2>3. able \in Nat
    BY <2>1, <2>2 DEF MaxOf, MinOf
  <2>4. SellDemand(s, i) = IF Liquidates(s) THEN able ELSE FloorTo(able, LotSize[i])
    BY <1>2 DEF SellDemand
  <2> HIDE DEF able
  <2>5. FloorTo(able, LotSize[i]) \in Nat
    BY <2>3, FloorToType, PriceTypes
  <2>6. QED
    BY <2>3, <2>4, <2>5
<1>3. QED
  BY <1>1, <1>2

\* A buy demand is an integer: the money may be short by then.
LEMMA BuyQuantityType ==
  ASSUME TypeOK, NEW s \in Strategies, NEW i \in Instruments
  PROVE  BuyQuantity(s, i) \in Int
<1>1. CASE i \notin Considered(s) \/ ~Tradable(i) \/ DelistEffective(i)
           \/ Desired(s, i) <= shares[s][i]
  BY <1>1 DEF BuyQuantity
<1>2. CASE ~(i \notin Considered(s) \/ ~Tradable(i) \/ DelistEffective(i)
             \/ Desired(s, i) <= shares[s][i])
  <2>0. Desired(s, i) \in Int
    BY <1>2, DesiredType
  <2>1. Desired(s, i) \in Int /\ shares[s][i] \in Nat /\ money[s] \in Int
    BY <2>0, IndexSets DEF TypeOK
  <2>2. RefPrice(i) \in Nat \ {0} /\ LotSize[i] \in Nat \ {0}
    BY <1>2, PriceTypes DEF Tradable
  <2>3. money[s] \div RefPrice(i) \in Int /\ Desired(s, i) - shares[s][i] \in Int
    BY <2>1, <2>2
  <2>4. /\ FloorTo(Desired(s, i) - shares[s][i], LotSize[i]) \in Int
        /\ FloorTo(money[s] \div RefPrice(i), LotSize[i]) \in Int
    BY <2>2, <2>3, FloorToType
  <2>5. BuyQuantity(s, i) = MinOf(FloorTo(Desired(s, i) - shares[s][i], LotSize[i]),
                                  FloorTo(money[s] \div RefPrice(i), LotSize[i]))
    BY <1>2 DEF BuyQuantity
  <2>6. QED
    BY <2>4, <2>5 DEF MinOf
<1>3. QED
  BY <1>1, <1>2

\* The fees on a notional amount are integers.
LEMMA FeeTypes ==
  ASSUME NEW notional \in Int
  PROVE  /\ Commission(notional) \in Int
         /\ notional \div SellTaxPer \in Int /\ notional \div BuyTaxPer \in Int
BY ConfigAssumption DEF Commission, MaxOf

\* What a sleeve can pay for of its part is part of it.
LEMMA AffordableType ==
  ASSUME NEW s, NEW i, NEW n \in Nat, NEW price
  PROVE  Affordable(s, i, n, price) \in 0..n
<1> DEFINE givenBack == {j \in 0 .. n : \/ j = n
                              \/ /\ j % LotSize[i] = 0
                                 /\ Estimate(n - j, price) <= cash[s]}
<1>1. givenBack \in SUBSET Nat /\ n \in givenBack /\ givenBack \subseteq 0..n
  OBVIOUS
<1>2. Affordable(s, i, n, price) = n - First(givenBack)
  BY DEF Affordable
<1> HIDE DEF givenBack
<1>3. First(givenBack) \in 0..n
  BY <1>1, FirstMember
<1>4. QED
  BY <1>2, <1>3

-----------------------------------------------------------------------------
(* TypeInv, action by action.                                              *)

\* The entries of a day are natural numbers.
LEMMA DueType == ASSUME NEW d PROVE DueOn(d) \subseteq Nat
<1>1. \A e \in Events : 2 * e - 1 \in Nat /\ 2 * e \in Nat
  BY ActionsAssumption
<1>2. QED
  BY <1>1 DEF DueOn

\* A run starts well typed: no position, no lot locked, no cross pending.
LEMMA InitTypeInv == Init => TypeInv
<1> SUFFICES ASSUME Init PROVE TypeInv
  OBVIOUS
<1>1. TypeOK
  <2>1. /\ day \in Days /\ pc \in Stages /\ outcome \in Outcomes /\ due \subseteq Nat
        /\ pending \in [Strategies -> Targets \union {NoTarget}]
    BY DueType, SizesAssumption DEF Init, Days, Stages, Outcomes
  <2>2. Total(InitialCash) \in Int
    <3>1. InitialCash \in [Strategies -> Int]
      BY ConfigAssumption
    <3>2. QED
      BY <3>1, IndexSets, TotalType
  <2>3. cash \in [Accounts -> Int]
    BY <2>2, ConfigAssumption DEF Init, Accounts
  <2>4. QED
    BY <2>1, <2>3 DEF Init, TypeOK, NoDemand, NoCross, Sides
<1>2. \A a \in Accounts : \A i \in Instruments : locked[a][i] = 0 /\ shares[a][i] = 0
  BY DEF Init
<1>3. QED
  BY <1>1, <1>2 DEF TypeInv, LocksHeld, OpenUnlocked, CrossesCovered, Init

\* A step that keeps positions, locks and crosses keeps the three facts
\* about them, unless it opens a day or begins to settle.
LEMMA Inert ==
  ASSUME TypeInv, TypeOK', shares' = shares, locked' = locked,
         \/ pc' \notin {"actions", "settle"}
         \/ pc' = pc /\ crosses' = crosses
  PROVE  TypeInv'
<1>1. LocksHeld'
  BY DEF TypeInv, LocksHeld
<1>2. OpenUnlocked'
  BY DEF TypeInv, OpenUnlocked
<1>3. CrossesCovered'
  BY DEF TypeInv, CrossesCovered, SoldIn, Sellable
<1>4. QED
  BY <1>1, <1>2, <1>3 DEF TypeInv

\* A BacktestError keeps the books as they are and well typed.
LEMMA AbortTypeInv ==
  ASSUME TypeInv, NEW r \in Outcomes, Abort(r)
  PROVE  TypeInv'
<1>1. TypeOK'
  BY DEF TypeInv, TypeOK, Abort, ledger, book, batch, Stages
<1>2. QED
  BY <1>1, Inert DEF Abort, ledger

\* The ex entry of a dividend writes receivables of the right type.
LEMMA AccrueTypeInv ==
  ASSUME TypeInv, NEW e \in Events, AccrueDividend(e)
  PROVE  TypeInv'
<1>1. receivable' \in [Accounts -> [Events -> Nat]]
  <2>1. Actions[e].perShare \in Nat
    BY ActionsAssumption
  <2>2. \A a \in Accounts : entitled[a][e] * Actions[e].perShare \in Nat
    BY <2>1 DEF TypeInv, TypeOK
  <2>3. QED
    BY <2>2 DEF TypeInv, TypeOK, AccrueDividend
<1>2. TypeOK'
  BY <1>1 DEF TypeInv, TypeOK, AccrueDividend, Item, book, batch
<1>3. QED
  BY <1>2, Inert DEF AccrueDividend, batch

\* The pay entry of a dividend moves a receivable into cash.
LEMMA PayTypeInv ==
  ASSUME TypeInv, NEW e \in Events, PayDividend(e)
  PROVE  TypeInv'
<1>1. receivable' \in [Accounts -> [Events -> Nat]] /\ cash' \in [Accounts -> Int]
  BY DEF TypeInv, TypeOK, PayDividend
<1>2. TypeOK'
  BY <1>1 DEF TypeInv, TypeOK, PayDividend, Item, book, batch
<1>3. QED
  BY <1>2, Inert DEF PayDividend, batch

\* What an event adds to an account is an integer, and nothing where nothing
\* was held on the record day.
LEMMA DeltaType ==
  ASSUME TypeOK, NEW a \in Accounts, NEW e \in Events
  PROVE  /\ Delta(a, e) \in Int
         /\ SleeveDelta(e) \in [Strategies -> Int]
         /\ \A s \in Strategies : entitled[s][e] = 0 => SleeveDelta(e)[s] = 0
<1>1. ASSUME NEW s \in Strategies
      PROVE  LET n == entitled[s][e] * (Actions[e].num - Actions[e].den)
             IN  n \in Int /\ (entitled[s][e] = 0 => n = 0)
  <2>1. entitled[s][e] \in Nat
    BY IndexSets DEF TypeOK
  <2>2. Actions[e].num - Actions[e].den \in Int
    BY ActionsAssumption
  <2>3. QED
    BY <2>1, <2>2
<1>2. Actions[e].den \in Nat \ {0}
  BY ActionsAssumption
<1>3. ASSUME NEW s \in Strategies
      PROVE  /\ SleeveDelta(e)[s] \in Int
             /\ entitled[s][e] = 0 => SleeveDelta(e)[s] = 0
  BY <1>1, <1>2, RoundHalfEvenType DEF SleeveDelta
<1>4. SleeveDelta(e) \in [Strategies -> Int]
  BY <1>3 DEF SleeveDelta
<1>5. Total(SleeveDelta(e)) \in Int
  BY <1>4, IndexSets, TotalType
<1>6. Delta(a, e) \in Int
  BY <1>3, <1>5 DEF Delta, Accounts
<1>7. QED
  BY <1>3, <1>4, <1>6

\* A share adjustment that is not refused leaves no position negative.
LEMMA AdjustTypeInv ==
  ASSUME TypeInv, NEW e \in Events, AdjustShares(e)
  PROVE  TypeInv'
<1>1. CASE ~(\A a \in Accounts : Adjustable(a, e))
  BY <1>1, AbortTypeInv DEF AdjustShares, Outcomes
<1>2. CASE \A a \in Accounts : Adjustable(a, e)
  <2> DEFINE i == Actions[e].code
  <2>1. /\ shares' = [a \in Accounts |-> [shares[a] EXCEPT ![i] = @ + Delta(a, e)]]
        /\ due' \subseteq due
        /\ UNCHANGED <<day, pc, outcome, pending, cash, receivable, locked, book, batch>>
    BY <1>2 DEF AdjustShares
  <2>2. i \in Instruments
    BY ActionsAssumption
  <2>3. \A a \in Accounts : shares[a][i] + Delta(a, e) \in Nat
    <3>1. ASSUME NEW a \in Accounts PROVE shares[a][i] + Delta(a, e) \in Nat
      <4>1. Delta(a, e) \in Int /\ shares[a][i] \in Nat
        BY <2>2, DeltaType DEF TypeInv, TypeOK
      <4>2. QED
        BY <1>2, <4>1 DEF Adjustable
    <3>2. QED
      BY <3>1
  <2>4. shares' \in [Accounts -> [Instruments -> Nat]]
    BY <2>1, <2>3 DEF TypeInv, TypeOK
  <2>5. TypeOK'
    BY <2>1, <2>4 DEF TypeInv, TypeOK, book, batch
  <2>6. pc = "actions" /\ \A a \in Accounts : \A j \in Instruments : locked'[a][j] = 0
    BY <2>1 DEF AdjustShares, TypeInv, OpenUnlocked
  <2>7. LocksHeld' /\ OpenUnlocked' /\ CrossesCovered'
    BY <2>1, <2>4, <2>6 DEF LocksHeld, OpenUnlocked, CrossesCovered
  <2>8. QED
    BY <2>5, <2>7 DEF TypeInv
<1>3. QED
  BY <1>1, <1>2

\* Decisions replace the pending targets and nothing else.
LEMMA DecideTypeInv ==
  ASSUME TypeInv, Decide
  PROVE  TypeInv'
<1>1. CASE Unpriced
  BY <1>1, AbortTypeInv DEF Decide, Outcomes
<1>2. CASE ~Unpriced
  <2>1. TypeOK'
    BY <1>2 DEF TypeInv, TypeOK, Decide, ledger, book, batch, Stages
  <2>2. QED
    BY <1>2, <2>1, Inert DEF Decide, ledger
<1>3. QED
  BY <1>1, <1>2

\* The plain control steps of the day: no quantity is touched.
LEMMA ControlTypeInv ==
  ASSUME TypeInv,
         \/ ActionsDone \/ NoBatch \/ SellsDone \/ CrossesDone \/ BuysDone
         \/ DelistingsDone \/ Finished
  PROVE  TypeInv'
<1>1. TypeOK'
  <2>1. CASE ActionsDone
    BY <2>1 DEF TypeInv, TypeOK, ActionsDone, ledger, book, batch, Stages
  <2>2. CASE NoBatch
    BY <2>2 DEF TypeInv, TypeOK, NoBatch, ledger, book, batch, Stages
  <2>3. CASE SellsDone
    BY <2>3 DEF TypeInv, TypeOK, SellsDone, ledger, book, batch, Stages
  <2>4. CASE CrossesDone
    BY <2>4 DEF TypeInv, TypeOK, CrossesDone, ledger, book, Stages
  <2>5. CASE BuysDone
    BY <2>5 DEF TypeInv, TypeOK, BuysDone, ledger, book, Stages, NoDemand
  <2>6. CASE DelistingsDone
    BY <2>6 DEF TypeInv, TypeOK, DelistingsDone, ledger, book, batch, Stages
  <2>7. CASE Finished
    BY <2>7 DEF TypeInv, TypeOK, Finished, vars, ledger, book, batch
  <2>8. QED
    BY <2>1, <2>2, <2>3, <2>4, <2>5, <2>6, <2>7
<1>2. /\ shares' = shares /\ locked' = locked
      /\ pc' \notin {"actions", "settle"} \/ (pc' = pc /\ crosses' = crosses)
  BY DEF ActionsDone, NoBatch, SellsDone, CrossesDone, BuysDone, DelistingsDone,
         Finished, vars, ledger, batch
<1>3. QED
  BY <1>1, <1>2, Inert

\* Planned sells are quantities, and each is within what may be sold.
LEMMA PlanSellsTypeInv ==
  ASSUME TypeInv, PlanSells
  PROVE  TypeInv'
<1> DEFINE unvalued == \E s \in Targeted : \E i \in Held(s) : ValuationPrice(i) = 0
           sold == [i \in Instruments |-> [s \in Strategies |-> SellDemand(s, i)]]
           proceeds(s) == [i \in Instruments |-> sold[i][s] * RefPrice(i)]
<1>1. CASE unvalued
  BY <1>1, AbortTypeInv DEF PlanSells, Outcomes
<1>2. CASE ~unvalued
  <2>1. /\ residual' = [residual EXCEPT !["sell"] = sold]
        /\ money' = [s \in Strategies |-> cash[s] + Total(proceeds(s))]
        /\ queue' = Instruments /\ pc' = "demand"
        /\ UNCHANGED <<day, outcome, due, pending, ledger, book, crosses>>
    BY <1>2 DEF PlanSells
  <2>2. sold \in [Instruments -> [Strategies -> Nat]]
    BY SellDemandType DEF TypeInv
  <2>3. money' \in [Strategies -> Int]
    <3>1. ASSUME NEW s \in Strategies PROVE cash[s] + Total(proceeds(s)) \in Int
      <4>1. proceeds(s) \in [Instruments -> Int]
        <5>1. \A i \in Instruments : sold[i][s] \in Nat /\ RefPrice(i) \in Nat
          BY <2>2, PriceTypes DEF TypeInv
        <5> HIDE DEF sold
        <5>2. QED
          BY <5>1
      <4>2. cash[s] \in Int
        BY IndexSets DEF TypeInv, TypeOK
      <4> HIDE DEF proceeds
      <4>3. Total(proceeds(s)) \in Int
        BY <4>1, IndexSets, TotalType
      <4>4. QED
        BY <4>2, <4>3
    <3>2. QED
      BY <2>1, <3>1
  <2>4. residual' \in [Sides -> [Instruments -> [Strategies -> Nat]]]
    BY <2>1, <2>2 DEF TypeInv, TypeOK
  <2>5. TypeOK'
    BY <2>1, <2>3, <2>4 DEF TypeInv, TypeOK, ledger, book, Stages
  <2>6. QED
    BY <2>1, <2>5, Inert DEF ledger
<1>3. QED
  BY <1>1, <1>2

\* Planned buys are quantities, whatever the remaining cash.
LEMMA PlanBuysTypeInv ==
  ASSUME TypeInv, PlanBuys
  PROVE  TypeInv'
<1> DEFINE i == First(queue)
           wanted == [s \in Strategies |-> MaxOf(0, BuyQuantity(s, i))]
<1>1. i \in Instruments
  BY FirstMember, IndexSets DEF PlanBuys, TypeInv, TypeOK
<1>2. /\ residual' = [residual EXCEPT !["buy"][i] = wanted]
      /\ money' = [s \in Strategies |-> money[s] - BuyQuantity(s, i) * RefPrice(i)]
      /\ queue' = queue \ {i}
      /\ UNCHANGED <<day, pc, outcome, due, pending, ledger, book, crosses>>
      /\ pc = "demand"
  BY DEF PlanBuys
<1> HIDE DEF i
<1>3. \A s \in Strategies : BuyQuantity(s, i) \in Int
  BY <1>1, BuyQuantityType DEF TypeInv
<1>4. wanted \in [Strategies -> Nat]
  BY <1>3 DEF MaxOf
<1>5. money' \in [Strategies -> Int]
  <2>1. RefPrice(i) \in Nat
    BY <1>1, PriceTypes DEF TypeInv
  <2>2. \A s \in Strategies : money[s] - BuyQuantity(s, i) * RefPrice(i) \in Int
    BY <1>3, <2>1 DEF TypeInv, TypeOK
  <2>3. QED
    BY <1>2, <2>2
<1> HIDE DEF wanted
<1>6. residual' \in [Sides -> [Instruments -> [Strategies -> Nat]]]
  BY <1>1, <1>2, <1>4 DEF TypeInv, TypeOK
<1>7. TypeOK'
  BY <1>2, <1>5, <1>6 DEF TypeInv, TypeOK, ledger, book
<1>8. QED
  BY <1>2, <1>7, Inert DEF ledger

\* Netting turns demands into crosses and residual demands, all quantities.
LEMMA NetDemandsTypeInv ==
  ASSUME TypeInv, NetDemands
  PROVE  TypeInv'
<1> DEFINE sell == residual["sell"]
           buy == residual["buy"]
<1>1. ASSUME NEW i \in Instruments
      PROVE  sell[i] \in [Strategies -> Nat] /\ buy[i] \in [Strategies -> Nat]
  BY DEF TypeInv, TypeOK, Sides
<1>2. \A i \in Instruments : /\ Residual(sell[i], buy[i]) \in [Strategies -> Nat]
                             /\ Residual(buy[i], sell[i]) \in [Strategies -> Nat]
  BY <1>1, ResidualOf
<1>3. \A i \in Instruments : \A s \in Strategies : \A b \in Strategies :
          CrossQuantity(buy[i], sell[i], s, b) \in Nat
  BY <1>1, CrossQuantityType, IndexSets
<1>4. /\ crosses' = [i \in Instruments |-> [s \in Strategies |->
             [b \in Strategies |-> CrossQuantity(buy[i], sell[i], s, b)]]]
      /\ residual' = [sell |-> [i \in Instruments |-> Residual(sell[i], buy[i])],
                      buy |-> [i \in Instruments |-> Residual(buy[i], sell[i])]]
      /\ queue' \subseteq Instruments /\ pc' = "sell"
      /\ UNCHANGED <<day, outcome, due, pending, ledger, book, money>>
  BY DEF NetDemands
<1> HIDE DEF sell, buy
<1>5. crosses' \in [Instruments -> [Strategies -> [Strategies -> Nat]]]
  BY <1>3, <1>4
<1>6. residual' \in [Sides -> [Instruments -> [Strategies -> Nat]]]
  <2>1. /\ [i \in Instruments |-> Residual(sell[i], buy[i])]
              \in [Instruments -> [Strategies -> Nat]]
        /\ [i \in Instruments |-> Residual(buy[i], sell[i])]
              \in [Instruments -> [Strategies -> Nat]]
    BY <1>2
  <2>2. QED
    BY <1>4, <2>1 DEF Sides
<1>7. TypeOK'
  BY <1>4, <1>5, <1>6 DEF TypeInv, TypeOK, ledger, book, Stages
<1>8. QED
  BY <1>4, <1>7, Inert DEF ledger

\* Rejecting crosses only takes crosses away.
LEMMA DropTypeInv ==
  ASSUME TypeInv, DropCrosses
  PROVE  TypeInv'
<1>1. crosses' \in [Instruments -> [Strategies -> [Strategies -> Nat]]]
  BY DEF TypeInv, TypeOK, DropCrosses
<1>2. TypeOK'
  BY <1>1 DEF TypeInv, TypeOK, DropCrosses, ledger, book
<1>3. QED
  BY <1>2, Inert DEF DropCrosses, ledger

\* How a market order is split: each strategy gets a quantity, and the fees
\* charged are integers.
LEMMA SplitTypes ==
  ASSUME NEW part \in [Strategies -> Nat], NEW price \in Int, NEW per \in Nat \ {0}
  PROVE  /\ Total(part) \in Nat
         /\ Split(part) \in [Accounts -> Nat]
         /\ Commission(Total(part) * price) \in Int
         /\ (Total(part) * price) \div per \in Int
<1>1. Total(part) \in Nat
  BY IndexSets, TotalNat
<1>2. Split(part) \in [Accounts -> Nat]
  BY <1>1 DEF Split, Accounts
<1>3. Total(part) * price \in Int
  BY <1>1
<1>4. QED
  BY <1>1, <1>2, <1>3, FeeTypes

\* Every lot is a positive number of shares.
LEMMA SellLotType ==
  ASSUME NEW i \in Instruments
  PROVE  SellLot(i) \in Nat \ {0}
BY SizesAssumption DEF SellLot

\* The parts of a fill are quantities.
LEMMA AllocationType ==
  ASSUME TypeOK, NEW side \in Sides, NEW i \in Instruments,
         NEW fill \in 0 .. EndOf(side, i), NEW lot \in Nat \ {0}
  PROVE  Allocation(fill, residual[side][i], lot) \in [Strategies -> Nat]
<1>1. residual[side][i] \in [Strategies -> Nat]
  BY DEF TypeOK
<1>2. fill \in 0 .. Total(residual[side][i])
  BY DEF EndOf
<1>3. QED
  BY <1>1, <1>2, IndexSets, AllocationWithinDemand

\* A market sale that is not refused leaves every position covering its locks.
LEMMA SellTypeInv ==
  ASSUME TypeInv, NEW i \in Instruments, NEW slip \in Slippage,
         NEW fill \in 0 .. EndOf("sell", i), ExecuteSell(i, fill, slip)
  PROVE  TypeInv'
<1> DEFINE sold == Allocation(fill, residual["sell"][i], SellLot(i))
           actual == Total(sold)
           price == RefPrice(i) - slip
           commission == Commission(actual * price)
           tax == (actual * price) \div SellTaxPer
           fees == CostShare(commission, sold)
           taxes == CostShare(tax, sold)
           refused == \E s \in Strategies : sold[s] > Sellable(s, i)
<1>1. sold \in [Strategies -> Nat]
  BY AllocationType, SellLotType DEF TypeInv, Sides
<1>2. CASE refused \/ actual > Sellable(Master, i)
  <2>1. \E r \in Outcomes : Abort(r)
    BY <1>2 DEF ExecuteSell, Outcomes, BookingFailures
  <2>2. QED
    BY <2>1, AbortTypeInv
<1>3. CASE ~refused /\ ~(actual > Sellable(Master, i))
  <2>1. /\ shares' = [a \in Accounts |->
                         [shares[a] EXCEPT ![i] = @ - Split(sold)[a]]]
        /\ cash' = [a \in Accounts |-> cash[a] +
                       IF a = Master THEN actual * price - commission - tax
                       ELSE sold[a] * price - fees[a] - taxes[a]]
        /\ queue' = queue \ {i} /\ pc = "sell"
        /\ UNCHANGED <<day, pc, outcome, due, pending, receivable, locked, book,
                       money, residual, crosses>>
    BY <1>3 DEF ExecuteSell
  <2>2. price \in Int /\ SellTaxPer \in Nat \ {0}
    BY ConfigAssumption, PriceTypes DEF TypeInv
  <2> HIDE DEF sold, price
  <2>3. actual \in Nat /\ commission \in Int /\ tax \in Int
        /\ Split(sold) \in [Accounts -> Nat]
    BY <1>1, <2>2, SplitTypes
  <2>4. \A a \in Accounts : Split(sold)[a] <= Sellable(a, i)
    <3>1. Sellable(Master, i) \in Nat /\ \A s \in Strategies : Sellable(s, i) \in Nat
      BY SellableType, IndexSets DEF TypeInv
    <3> HIDE DEF actual
    <3>2. \A s \in Strategies : sold[s] <= Sellable(s, i)
      BY <1>1, <1>3, <3>1
    <3>3. actual <= Sellable(Master, i)
      BY <1>3, <2>3, <3>1
    <3>4. QED
      BY <3>2, <3>3 DEF Split, Accounts, actual
  <2>5. \A a \in Accounts : /\ shares[a][i] - Split(sold)[a] \in Nat
                            /\ locked[a][i] <= shares[a][i] - Split(sold)[a]
    <3>1. ASSUME NEW a \in Accounts
          PROVE  /\ shares[a][i] - Split(sold)[a] \in Nat
                 /\ locked[a][i] <= shares[a][i] - Split(sold)[a]
      <4>1. shares[a][i] \in Nat /\ locked[a][i] \in Nat /\ Split(sold)[a] \in Nat
        BY <2>3 DEF TypeInv, TypeOK
      <4>2. Split(sold)[a] <= shares[a][i] - locked[a][i]
        BY <2>4 DEF Sellable
      <4>3. QED
        BY <4>1, <4>2
    <3>2. QED
      BY <3>1
  <2>6. shares' \in [Accounts -> [Instruments -> Nat]]
    BY <2>1, <2>5 DEF TypeInv, TypeOK
  <2>7. fees \in [Strategies -> Int] /\ taxes \in [Strategies -> Int]
    <3> HIDE DEF commission, tax
    <3> QED
      BY <1>1, <2>3, SharesType
  <2>8. cash' \in [Accounts -> Int]
    <3> HIDE DEF actual, commission, tax, fees, taxes
    <3>1. ASSUME NEW s \in Strategies
          PROVE  sold[s] * price - fees[s] - taxes[s] \in Int
      <4>1. sold[s] * price \in Int /\ fees[s] \in Int /\ taxes[s] \in Int
        BY <1>1, <2>2, <2>7
      <4>2. QED
        BY <4>1
    <3>2. actual * price \in Int
      BY <2>2, <2>3
    <3>3. actual * price - commission - tax \in Int
      BY <2>3, <3>2
    <3>4. QED
      BY <2>1, <3>1, <3>3 DEF TypeInv, TypeOK, Accounts
  <2>9. TypeOK'
    BY <2>1, <2>6, <2>8 DEF TypeInv, TypeOK, book
  <2>10. LocksHeld'
    BY <2>1, <2>5 DEF TypeInv, TypeOK, LocksHeld
  <2>11. QED
    BY <2>1, <2>9, <2>10 DEF TypeInv, OpenUnlocked, CrossesCovered
<1>4. QED
  BY <1>2, <1>3

\* Once the crosses pass validation every seller holds what it hands over.
LEMMA AcceptTypeInv ==
  ASSUME TypeInv, AcceptCrosses
  PROVE  TypeInv'
<1> DEFINE uncovered == \E s \in Strategies : \E i \in Instruments :
                            SoldIn(i, s) > Sellable(s, i)
<1>1. CASE uncovered
  BY <1>1, AbortTypeInv DEF AcceptCrosses, Outcomes, BookingFailures
<1>2. CASE ~uncovered
  <2>1. pc' = "settle"
        /\ UNCHANGED <<day, outcome, due, pending, ledger, book, batch>>
    BY <1>2 DEF AcceptCrosses
  <2>2. TypeOK'
    BY <2>1 DEF TypeInv, TypeOK, ledger, book, batch, Stages
  <2>3. ASSUME NEW s \in Strategies, NEW i \in Instruments
        PROVE  SoldIn(i, s) <= Sellable(s, i)
    <3>1. Sellable(s, i) \in Nat
      BY SellableType, IndexSets DEF TypeInv
    <3>2. crosses[i][s] \in [Strategies -> Nat]
      BY DEF TypeInv, TypeOK
    <3>3. SoldIn(i, s) \in Nat
      BY <3>2, TotalNat, IndexSets DEF SoldIn
    <3>4. QED
      BY <1>2, <3>1, <3>3
  <2>4. CrossesCovered'
    BY <2>1, <2>3 DEF CrossesCovered, SoldIn, Sellable, ledger, batch
  <2>5. LocksHeld' /\ OpenUnlocked'
    BY <2>1 DEF TypeInv, LocksHeld, OpenUnlocked, ledger
  <2>6. QED
    BY <2>2, <2>4, <2>5 DEF TypeInv
<1>3. QED
  BY <1>1, <1>2

\* What one cross changes, for the account and the instrument concerned.
LEMMA SettleStep ==
  ASSUME TypeInv, NEW i \in Instruments, NEW seller \in Strategies,
         NEW buyer \in Strategies, SettleCross(i, seller, buyer), NEW n,
         n = crosses[i][seller][buyer]
  PROVE  /\ n \in Nat /\ n <= SoldIn(i, seller)
         /\ shares' \in [Accounts -> [Instruments -> Nat]]
         /\ locked' \in [Accounts -> [Instruments -> Nat]]
         /\ \A a \in Accounts : \A j \in Instruments :
              /\ shares'[a][j] = shares[a][j]
                                   + IF j = i THEN CrossMove(seller, buyer, n, a) ELSE 0
              /\ locked'[a][j] = locked[a][j]
                                   + IF j = i /\ a = buyer THEN n * Locking(i) ELSE 0
              /\ locked'[a][j] <= shares'[a][j]
<1>1. crosses[i][seller] \in [Strategies -> Nat]
  BY DEF TypeInv, TypeOK
<1>2. n \in Nat /\ n <= SoldIn(i, seller) /\ SoldIn(i, seller) \in Nat
  BY <1>1, TotalNat, IndexSets DEF SoldIn
<1>3. SoldIn(i, seller) <= shares[seller][i] - locked[seller][i]
  BY DEF SettleCross, TypeInv, CrossesCovered, Sellable
<1>4. /\ shares' = [a \in Accounts |-> [shares[a] EXCEPT ![i] =
                         @ + CrossMove(seller, buyer, n, a)]]
      /\ locked' = [locked EXCEPT ![buyer][i] = @ + n * Locking(i)]
  BY DEF SettleCross
<1>5. Locking(i) \in {0, 1} /\ n * Locking(i) \in {0, n}
  BY <1>2, PriceTypes DEF TypeInv
<1>6. \A a \in Accounts : shares[a][i] \in Nat /\ locked[a][i] \in Nat
                          /\ locked[a][i] <= shares[a][i]
  BY DEF TypeInv, TypeOK, LocksHeld
<1>7. seller \in Accounts /\ buyer \in Accounts
  BY IndexSets
<1>8. ASSUME NEW a \in Accounts
      PROVE  /\ shares[a][i] + CrossMove(seller, buyer, n, a) \in Nat
             /\ locked[a][i] + (IF a = buyer THEN n * Locking(i) ELSE 0)
                  <= shares[a][i] + CrossMove(seller, buyer, n, a)
  BY <1>2, <1>3, <1>5, <1>6, <1>7 DEF CrossMove
<1>9. shares' \in [Accounts -> [Instruments -> Nat]]
      /\ locked' \in [Accounts -> [Instruments -> Nat]]
  BY <1>2, <1>4, <1>5, <1>7, <1>8 DEF TypeInv, TypeOK
<1>10. ASSUME NEW a \in Accounts, NEW j \in Instruments
       PROVE  /\ shares'[a][j] = shares[a][j]
                                   + IF j = i THEN CrossMove(seller, buyer, n, a) ELSE 0
              /\ locked'[a][j] = locked[a][j]
                                   + IF j = i /\ a = buyer THEN n * Locking(i) ELSE 0
  BY <1>4, <1>7 DEF TypeInv, TypeOK
<1>11. ASSUME NEW a \in Accounts, NEW j \in Instruments
       PROVE  locked'[a][j] <= shares'[a][j]
  <2>1. CASE j = i
    BY <1>8, <1>10, <2>1
  <2>2. CASE j # i
    BY <1>10, <2>2 DEF TypeInv, TypeOK, LocksHeld
  <2>3. QED
    BY <2>1, <2>2
<1>12. QED
  BY <1>2, <1>9, <1>10, <1>11

\* Settling one cross leaves the sellers covered for the crosses still to come.
LEMMA SettleTypeInv ==
  ASSUME TypeInv, NEW i \in Instruments, NEW seller \in Strategies,
         NEW buyer \in Strategies, SettleCross(i, seller, buyer)
  PROVE  TypeInv'
<1> DEFINE n == crosses[i][seller][buyer]
<1>1. /\ n \in Nat /\ n <= SoldIn(i, seller)
      /\ shares' \in [Accounts -> [Instruments -> Nat]]
      /\ locked' \in [Accounts -> [Instruments -> Nat]]
      /\ \A a \in Accounts : \A j \in Instruments :
           /\ shares'[a][j] = shares[a][j]
                                + IF j = i THEN CrossMove(seller, buyer, n, a) ELSE 0
           /\ locked'[a][j] = locked[a][j]
                                + IF j = i /\ a = buyer THEN n * Locking(i) ELSE 0
           /\ locked'[a][j] <= shares'[a][j]
  BY SettleStep
<1>2. /\ cash' = [a \in Accounts |->
                     cash[a] - CrossMove(seller, buyer, Flow(i, n), a)]
      /\ crosses' = [crosses EXCEPT ![i][seller][buyer] = 0]
      /\ pc = "settle"
      /\ UNCHANGED <<day, pc, outcome, due, pending, receivable, book,
                     money, residual, queue>>
  BY DEF SettleCross
<1>3. cash' \in [Accounts -> Int]
  <2>1. Flow(i, n) \in Int
    BY <1>1, PriceTypes DEF Flow, TypeInv
  <2>2. QED
    BY <1>2, <2>1 DEF TypeInv, TypeOK, CrossMove
<1>4. crosses' \in [Instruments -> [Strategies -> [Strategies -> Nat]]]
  BY <1>2 DEF TypeInv, TypeOK
<1>5. TypeOK'
  BY <1>1, <1>2, <1>3, <1>4 DEF TypeInv, TypeOK, book
<1>6. LocksHeld' /\ OpenUnlocked'
  BY <1>1, <1>2 DEF LocksHeld, OpenUnlocked
<1>7. ASSUME NEW s \in Strategies, NEW j \in Instruments
      PROVE  Total(crosses'[j][s]) <= shares'[s][j] - locked'[s][j]
  <2>1. /\ crosses[j][s] \in [Strategies -> Nat] /\ crosses'[j][s] \in [Strategies -> Nat]
        /\ SoldIn(j, s) = Total(crosses[j][s])
    BY <1>4 DEF TypeInv, TypeOK, SoldIn
  <2>2. SoldIn(j, s) \in Nat /\ SoldIn(j, s) <= shares[s][j] - locked[s][j]
    BY <1>2, <2>1, TotalNat, IndexSets DEF TypeInv, CrossesCovered, Sellable
  <2>3. shares[s][j] \in Nat /\ locked[s][j] \in Nat
        /\ shares'[s][j] \in Nat /\ locked'[s][j] \in Nat
    BY <1>1, IndexSets DEF TypeInv, TypeOK
  <2>4. s \in Accounts
    BY IndexSets
  <2>5. n * Locking(i) \in {0, n}
    BY <1>1, PriceTypes DEF TypeInv
  <2>6. CASE j = i /\ s = seller
    <3>1. Total(crosses'[j][s]) = Total(crosses[j][s]) + (-n)
      <4>1. \A b \in Strategies : crosses'[j][s][b] =
                IF b = buyer THEN crosses[j][s][b] + (-n) ELSE crosses[j][s][b]
        BY <1>1, <1>2, <2>1, <2>6 DEF TypeInv, TypeOK
      <4>2. -n \in Int /\ crosses[j][s] \in [Strategies -> Int]
            /\ crosses'[j][s] \in [Strategies -> Int]
        BY <1>1, <2>1
      <4> DEFINE f == crosses[j][s]
                 g == crosses'[j][s]
      <4>3. /\ f \in [Strategies -> Int] /\ g \in [Strategies -> Int]
            /\ \A b \in Strategies : b # buyer => g[b] = f[b]
            /\ g[buyer] - f[buyer] = -n
        BY <4>1, <4>2
      <4> HIDE DEF f, g, n
      <4>4. Total(g) = Total(f) + (g[buyer] - f[buyer])
        <5>1. IsFiniteSet(Strategies)
          BY IndexSets
        <5>2. QED
          BY <4>3, <5>1, TotalShift
      <4>5. QED
        BY <4>3, <4>4 DEF f, g
    <3>2. shares'[s][j] - locked'[s][j] >= shares[s][j] - locked[s][j] - n
      BY <1>1, <2>3, <2>4, <2>5, <2>6 DEF CrossMove
    <3> HIDE DEF n
    <3>3. QED
      BY <1>1, <2>1, <2>2, <2>3, <3>1, <3>2
  <2>7. CASE ~(j = i /\ s = seller)
    <3>1. crosses'[j][s] = crosses[j][s]
      BY <1>2, <2>7 DEF TypeInv, TypeOK
    <3>2. shares'[s][j] - locked'[s][j] >= shares[s][j] - locked[s][j]
      BY <1>1, <2>3, <2>4, <2>5, <2>7 DEF CrossMove
    <3>3. QED
      BY <2>1, <2>2, <2>3, <3>1, <3>2
  <2>8. QED
    BY <2>6, <2>7
<1>8. CrossesCovered'
  BY <1>7, SMTT(30) DEF CrossesCovered, SoldIn, Sellable
<1>9. QED
  BY <1>5, <1>6, <1>8 DEF TypeInv

\* A market purchase adds to the positions and locks at most what it adds.
LEMMA BuyTypeInv ==
  ASSUME TypeInv, NEW i \in Instruments, NEW slip \in Slippage,
         NEW fill \in 0 .. EndOf("buy", i), ExecuteBuy(i, fill, slip)
  PROVE  TypeInv'
<1> DEFINE offered == Allocation(fill, residual["buy"][i], LotSize[i])
           price == RefPrice(i) + slip
           bought == [s \in Strategies |-> Affordable(s, i, offered[s], price)]
           actual == Total(bought)
           commission == Commission(actual * price)
           tax == (actual * price) \div BuyTaxPer
           fees == CostShare(commission, bought)
           taxes == CostShare(tax, bought)
           cost(s) == bought[s] * price + fees[s] + taxes[s]
           total == actual * price + commission + tax
           booked == /\ shares' = [a \in Accounts |->
                            [shares[a] EXCEPT ![i] = @ + Split(bought)[a]]]
                     /\ locked' = [a \in Accounts |->
                            [locked[a] EXCEPT ![i] = @ + Locking(i) * Split(bought)[a]]]
                     /\ cash' = [a \in Accounts |->
                            cash[a] - IF a = Master THEN total ELSE cost(a)]
                     /\ queue' = queue \ {i}
                     /\ UNCHANGED <<day, pc, outcome, due, pending, receivable, book,
                                    money, residual, crosses>>
<1>1. offered \in [Strategies -> Nat]
  <2>1. "buy" \in Sides /\ LotSize[i] \in Nat \ {0} /\ TypeOK
    BY SizesAssumption DEF TypeInv, Sides
  <2>2. QED
    BY <2>1, AllocationType
<1>2. bought \in [Strategies -> Nat]
  <2> HIDE DEF offered, price
  <2>1. \A s \in Strategies : Affordable(s, i, offered[s], price) \in Nat
    BY <1>1, AffordableType
  <2>2. QED
    BY <2>1
<1>3. (\E r \in {"sleeve_overdrawn", "master_overdrawn"} : Abort(r)) \/ booked
  BY DEF ExecuteBuy
<1>4. CASE \E r \in {"sleeve_overdrawn", "master_overdrawn"} : Abort(r)
  BY <1>4, AbortTypeInv DEF Outcomes, BookingFailures
<1>5. CASE booked
  <2>1. price \in Int /\ BuyTaxPer \in Nat \ {0} /\ Locking(i) \in {0, 1}
    BY ConfigAssumption, PriceTypes DEF TypeInv
  <2> HIDE DEF bought, price
  <2>2. actual \in Nat /\ commission \in Int /\ tax \in Int
        /\ Split(bought) \in [Accounts -> Nat]
    BY <1>2, <2>1, SplitTypes
  <2>3. \A a \in Accounts : Locking(i) * Split(bought)[a] \in {0, Split(bought)[a]}
    BY <2>1, <2>2
  <2> DEFINE part == Split(bought)
             held == Locking(i)
  <2>4. /\ part \in [Accounts -> Nat]
        /\ \A a \in Accounts : held * part[a] \in {0, part[a]}
        /\ shares' = [a \in Accounts |-> [shares[a] EXCEPT ![i] = @ + part[a]]]
        /\ locked' = [a \in Accounts |-> [locked[a] EXCEPT ![i] = @ + held * part[a]]]
    BY <1>5, <2>2, <2>3
  <2> HIDE DEF part, held
  <2>11. ASSUME NEW a \in Accounts, NEW j \in Instruments
         PROVE  /\ shares'[a][j] = shares[a][j] + IF j = i THEN part[a] ELSE 0
                /\ locked'[a][j] = locked[a][j] + IF j = i THEN held * part[a] ELSE 0
                /\ locked[a][j] \in Nat /\ shares[a][j] \in Nat
                /\ locked[a][j] <= shares[a][j]
    BY <2>4 DEF TypeInv, TypeOK, LocksHeld
  <2>12. shares' \in [Accounts -> [Instruments -> Nat]]
         /\ locked' \in [Accounts -> [Instruments -> Nat]]
    <3>1. \A a \in Accounts : /\ shares[a][i] + part[a] \in Nat
                              /\ locked[a][i] + held * part[a] \in Nat
      BY <2>4, <2>11
    <3>2. QED
      BY <2>4, <3>1 DEF TypeInv, TypeOK
  <2>5. fees \in [Strategies -> Int] /\ taxes \in [Strategies -> Int]
    <3> HIDE DEF commission, tax
    <3> QED
      BY <1>2, <2>2, SharesType
  <2>6. cash' \in [Accounts -> Int]
    <3> HIDE DEF actual, commission, tax, fees, taxes
    <3>1. ASSUME NEW s \in Strategies PROVE cost(s) \in Int
      <4>1. bought[s] * price \in Int /\ fees[s] \in Int /\ taxes[s] \in Int
        BY <1>2, <2>1, <2>5
      <4>2. QED
        BY <4>1
    <3>2. actual * price \in Int
      BY <2>1, <2>2
    <3>3. total \in Int
      BY <2>2, <3>2
    <3> HIDE DEF cost, total
    <3>4. QED
      BY <1>5, <3>1, <3>3 DEF TypeInv, TypeOK, Accounts
  <2>7. TypeOK'
    BY <1>5, <2>6, <2>12 DEF TypeInv, TypeOK, book
  <2>8. LocksHeld'
    <3>1. ASSUME NEW a \in Accounts, NEW j \in Instruments
          PROVE  locked'[a][j] <= shares'[a][j]
      BY <2>4, <2>11
    <3>2. QED
      BY <3>1, Zenon DEF LocksHeld
  <2>9. pc = "buy" /\ pc' = pc
    BY <1>5 DEF ExecuteBuy
  <2>10. QED
    BY <2>7, <2>8, <2>9 DEF TypeInv, OpenUnlocked, CrossesCovered
<1>6. QED
  BY <1>3, <1>4, <1>5

\* The close writes marks and entitlements of the right type.
LEMMA MarkTypeInv ==
  ASSUME TypeInv, MarkToMarket
  PROVE  TypeInv'
<1> DEFINE unmarked == \E i \in HeldBySomeone :
                          ~Observed(i) /\ (DelistEffective(i) => mark[i] = 0)
<1>1. CASE unmarked
  BY <1>1, AbortTypeInv DEF MarkToMarket, Outcomes
<1>2. CASE ~unmarked
  <2>1. /\ mark' = [i \in Instruments |->
                       IF i \in HeldBySomeone /\ Observed(i)
                       THEN ClosePrice[i][day] ELSE mark[i]]
        /\ entitled' = [a \in Accounts |-> [e \in Events |-> Entitlement(a, e)]]
        /\ queue' \subseteq Instruments /\ pc' = "delist"
        /\ UNCHANGED <<day, outcome, due, pending, ledger, frozen, money, residual, crosses>>
    BY <1>2 DEF MarkToMarket
  <2>2. mark' \in [Instruments -> Nat]
    BY <2>1, SizesAssumption DEF TypeInv, TypeOK
  <2>3. entitled' \in [Accounts -> [Events -> Nat]]
    <3>1. \A a \in Accounts : \A e \in Events : Entitlement(a, e) \in Nat
      BY ActionsAssumption DEF TypeInv, TypeOK, Entitlement
    <3>2. QED
      BY <2>1, <3>1
  <2>4. TypeOK'
    BY <2>1, <2>2, <2>3 DEF TypeInv, TypeOK, ledger, Stages
  <2>5. QED
    BY <2>1, <2>4, Inert DEF ledger
<1>3. QED
  BY <1>1, <1>2

\* What an account keeps of a delisted position is all or nothing of it, and
\* what it is paid is an integer.
LEMMA DisposalTypes ==
  ASSUME TypeOK, NEW a \in Accounts, NEW i \in Instruments
  PROVE  Kept(a, i) \in {0, shares[a][i]} /\ Settlement(a, i) \in Int
<1>1. shares[a][i] \in Nat /\ mark[i] * RecoveryNum \in Nat /\ RecoveryDen \in Nat \ {0}
  BY ConfigAssumption DEF TypeOK
<1>2. (mark[i] * RecoveryNum) \div RecoveryDen \in Int
  BY <1>1
<1>3. shares[a][i] * ((mark[i] * RecoveryNum) \div RecoveryDen) \in Int
  BY <1>1, <1>2
<1>4. QED
  BY <1>3 DEF Kept, Settlement

\* A disposal leaves each account a quantity, and locks no more than is left.
LEMMA DelistTypeInv ==
  ASSUME TypeInv, NEW i \in Instruments, Delist(i)
  PROVE  TypeInv'
<1>1. /\ shares' = [a \in Accounts |-> [shares[a] EXCEPT ![i] = Kept(a, i)]]
      /\ locked' = [a \in Accounts |->
                       [locked[a] EXCEPT ![i] = MinOf(@, Kept(a, i))]]
      /\ cash' = [a \in Accounts |-> cash[a] + Settlement(a, i)]
      /\ frozen' = frozen \union {i} /\ queue' = queue \ {i} /\ pc = "delist"
      /\ UNCHANGED <<day, pc, outcome, due, pending, receivable, entitled, mark,
                     money, residual, crosses>>
  BY DEF Delist
<1>2. \A a \in Accounts : Kept(a, i) \in {0, shares[a][i]} /\ Settlement(a, i) \in Int
  BY DisposalTypes DEF TypeInv
<1>3. \A a \in Accounts : /\ Kept(a, i) \in Nat
                          /\ MinOf(locked[a][i], Kept(a, i)) \in Nat
                          /\ MinOf(locked[a][i], Kept(a, i)) <= Kept(a, i)
  <2>1. ASSUME NEW a \in Accounts PROVE Kept(a, i) \in Nat /\ locked[a][i] \in Nat
    <3>1. shares[a][i] \in Nat /\ locked[a][i] \in Nat
      BY DEF TypeInv, TypeOK
    <3>2. QED
      BY <1>2, <3>1
  <2>2. QED
    BY <2>1 DEF MinOf
<1>4. /\ shares' \in [Accounts -> [Instruments -> Nat]]
      /\ locked' \in [Accounts -> [Instruments -> Nat]]
  BY <1>1, <1>3 DEF TypeInv, TypeOK
<1>5. cash' \in [Accounts -> Int]
  BY <1>1, <1>2 DEF TypeInv, TypeOK
<1>6. TypeOK'
  BY <1>1, <1>4, <1>5 DEF TypeInv, TypeOK
<1>7. LocksHeld'
  <2>1. ASSUME NEW a \in Accounts, NEW j \in Instruments
        PROVE  locked'[a][j] <= shares'[a][j]
    <3>1. CASE j = i
      BY <1>1, <1>3, <3>1 DEF TypeInv, TypeOK
    <3>2. CASE j # i
      BY <1>1, <3>2 DEF TypeInv, TypeOK, LocksHeld
    <3>3. QED
      BY <3>1, <3>2
  <2>2. QED
    BY <2>1 DEF LocksHeld
<1>8. QED
  BY <1>1, <1>6, <1>7 DEF TypeInv, OpenUnlocked, CrossesCovered

\* The turn of the day releases every lock.
LEMMA RecordTypeInv ==
  ASSUME TypeInv, RecordDay
  PROVE  TypeInv'
<1> DEFINE negative == \E s \in Strategies : cash[s] < 0 \/ Worth(s, MarkOf) < 0
<1>1. CASE negative
  BY <1>1, AbortTypeInv DEF RecordDay, Outcomes
<1>2. CASE ~negative /\ day = NumDays
  <2>1. TypeOK'
    BY <1>2 DEF TypeInv, TypeOK, RecordDay, ledger, book, batch, Stages
  <2>2. QED
    BY <1>2, <2>1, Inert DEF RecordDay, ledger
<1>3. CASE ~negative /\ day # NumDays
  <2>1. /\ pc' = "actions" /\ day' = day + 1 /\ due' = DueOn(day + 1)
        /\ locked' = [a \in Accounts |-> [i \in Instruments |-> 0]]
        /\ UNCHANGED <<outcome, pending, cash, receivable, shares, book, batch>>
    BY <1>3 DEF RecordDay
  <2>2. day' \in Days /\ due' \subseteq Nat
    BY <1>3, <2>1, DueType, SizesAssumption DEF TypeInv, TypeOK, Days
  <2>3. TypeOK'
    BY <2>1, <2>2 DEF TypeInv, TypeOK, book, batch, Stages
  <2>4. LocksHeld' /\ OpenUnlocked' /\ CrossesCovered'
    BY <2>1 DEF TypeInv, TypeOK, LocksHeld, OpenUnlocked, CrossesCovered
  <2>5. QED
    BY <2>3, <2>4 DEF TypeInv
<1>4. QED
  BY <1>1, <1>2, <1>3

\* Every step keeps the invariant.
LEMMA StepTypeInv ==
  ASSUME TypeInv, Next
  PROVE  TypeInv'
<1>1. CASE \E e \in Events : AccrueDividend(e) \/ PayDividend(e) \/ AdjustShares(e)
  BY <1>1, AccrueTypeInv, PayTypeInv, AdjustTypeInv
<1>2. CASE Decide
  BY <1>2, DecideTypeInv
<1>3. CASE \/ ActionsDone \/ NoBatch \/ SellsDone \/ CrossesDone \/ BuysDone
           \/ DelistingsDone \/ Finished
  BY <1>3, ControlTypeInv
<1>4. CASE PlanSells
  BY <1>4, PlanSellsTypeInv
<1>5. CASE PlanBuys
  BY <1>5, PlanBuysTypeInv
<1>6. CASE NetDemands
  BY <1>6, NetDemandsTypeInv
<1>7. CASE \E i \in Instruments : \E slip \in Slippage :
              \E fill \in 0 .. EndOf("sell", i) : ExecuteSell(i, fill, slip)
  BY <1>7, SellTypeInv
<1>8. CASE \E i \in Instruments : \E slip \in Slippage :
              \E fill \in 0 .. EndOf("buy", i) : ExecuteBuy(i, fill, slip)
  BY <1>8, BuyTypeInv
<1>9. CASE DropCrosses
  BY <1>9, DropTypeInv
<1>10. CASE AcceptCrosses
  BY <1>10, AcceptTypeInv
<1>11. CASE \E i \in Instruments : \E seller \in Strategies : \E buyer \in Strategies :
               SettleCross(i, seller, buyer)
  BY <1>11, SettleTypeInv
<1>12. CASE MarkToMarket
  BY <1>12, MarkTypeInv
<1>13. CASE \E i \in Instruments : Delist(i)
  BY <1>13, DelistTypeInv
<1>14. CASE RecordDay
  BY <1>14, RecordTypeInv
<1>15. QED
  BY <1>1, <1>2, <1>3, <1>4, <1>5, <1>6, <1>7, <1>8, <1>9, <1>10, <1>11, <1>12,
     <1>13, <1>14 DEF Next

\* A step that changes nothing keeps it as well.
LEMMA StutterTypeInv ==
  ASSUME TypeInv, UNCHANGED vars
  PROVE  TypeInv'
BY DEF TypeInv, TypeOK, LocksHeld, OpenUnlocked, CrossesCovered, SoldIn, Sellable,
       vars, ledger, book, batch

\* TypeInv is inductive: the cases above cover every disjunct of Next.
LEMMA TypeInvariant == Spec => []TypeInv
<1>1. TypeInv /\ [Next]_vars => TypeInv'
  BY StepTypeInv, StutterTypeInv
<1>2. QED
  BY <1>1, InitTypeInv, PTL DEF Spec

\* Types: in particular no account ever holds, or locks, less than nothing of
\* an instrument, whatever is sold, crossed, split, merged or delisted.
THEOREM TypeCorrect == Spec => []TypeOK
<1>1. TypeInv => TypeOK
  BY DEF TypeInv
<1>2. QED
  BY <1>1, TypeInvariant, PTL

-----------------------------------------------------------------------------
(***************************************************************************)
(* The master account is the sum of the sleeves: positions, receivables    *)
(* and cash, after every step and for any constants.                       *)
(*                                                                         *)
(* Corporate actions are booked from entitlements, so positions stay in    *)
(* step only because entitlements do; these stay in step because an event  *)
(* has none before its record day, when all are taken at once; and a       *)
(* dividend is accrued over nothing, since a receivable needs an           *)
(* entitlement.                                                            *)
(***************************************************************************)

EntitlementsReconcile ==
    \A e \in Events :
        entitled[Master][e] = Total([s \in Strategies |-> entitled[s][e]])

\* The day's entitlements are still to be taken.
BeforeClose ==
    \/ pc \in {"actions", "trade", "demand", "sell", "cross", "settle", "buy", "close"}
    \/ pc = "decide" /\ Timing = "same_close"

EntitledAfterRecord ==
    \A a \in Accounts : \A e \in Events :
        \/ Actions[e].record > day
        \/ Actions[e].record = day /\ BeforeClose
        => entitled[a][e] = 0

OwedWhereEntitled ==
    \A a \in Accounts : \A e \in Events : entitled[a][e] = 0 => receivable[a][e] = 0

RecInv ==
    /\ TypeInv
    /\ PositionsReconcile
    /\ CashReconcile
    /\ ReceivablesReconcile
    /\ EntitlementsReconcile
    /\ EntitledAfterRecord
    /\ OwedWhereEntitled
    /\ LocksCovered
-----------------------------------------------------------------------------
\* The accounts of the sleeves, one column of a table of the ledger at a time.
LEMMA ColumnTypes ==
  ASSUME TypeOK
  PROVE  /\ \A i \in Instruments : [s \in Strategies |-> shares[s][i]] \in [Strategies -> Nat]
         /\ \A i \in Instruments : [s \in Strategies |-> locked[s][i]] \in [Strategies -> Nat]
         /\ \A e \in Events : [s \in Strategies |-> entitled[s][e]] \in [Strategies -> Nat]
         /\ \A e \in Events : [s \in Strategies |-> receivable[s][e]] \in [Strategies -> Nat]
         /\ [s \in Strategies |-> cash[s]] \in [Strategies -> Int]
BY IndexSets DEF TypeOK

\* When the sleeves' values and the master's change by the same total, the
\* master stays their sum.
LEMMA StaysInStep ==
  ASSUME NEW f \in [Strategies -> Int], NEW g \in [Strategies -> Int],
         NEW d \in [Strategies -> Int], \A s \in Strategies : g[s] = f[s] + d[s]
  PROVE  Total(g) = Total(f) + Total(d) /\ Total(f) \in Int /\ Total(d) \in Int
<1>1. IsFiniteSet(Strategies)
  BY IndexSets
<1>2. QED
  BY <1>1, TotalAdd, TotalType

\* At the start the master has the sleeves' cash and nothing else.
LEMMA InitRecInv == Init => RecInv
<1> SUFFICES ASSUME Init PROVE RecInv
  OBVIOUS
<1>1. TypeInv /\ IsFiniteSet(Strategies)
  BY InitTypeInv, IndexSets
<1> DEFINE zero == [s \in Strategies |-> 0]
<1>2. zero \in [Strategies -> Int] /\ Total(zero) = 0
  BY TotalZero
<1> HIDE DEF zero
<1>3. PositionsReconcile
  <2>1. \A i \in Instruments : [s \in Strategies |-> shares[s][i]] = zero
    BY IndexSets DEF Init, zero
  <2>2. QED
    BY <1>2, <2>1, IndexSets DEF Init, PositionsReconcile
<1>4. ReceivablesReconcile
  <2>1. \A e \in Events : [s \in Strategies |-> receivable[s][e]] = zero
    BY IndexSets DEF Init, zero
  <2>2. QED
    BY <1>2, <2>1, IndexSets DEF Init, ReceivablesReconcile
<1>5. EntitlementsReconcile
  <2>1. \A e \in Events : [s \in Strategies |-> entitled[s][e]] = zero
    BY IndexSets DEF Init, zero
  <2>2. QED
    BY <1>2, <2>1, IndexSets DEF Init, EntitlementsReconcile
<1>6. CashReconcile
  <2>1. [s \in Strategies |-> cash[s]] = InitialCash
    BY IndexSets, ConfigAssumption DEF Init
  <2>2. QED
    BY <2>1, IndexSets DEF Init, CashReconcile
<1>7. LocksCovered
  <2>1. \A i \in Instruments : [s \in Strategies |-> locked[s][i]] = zero
    BY IndexSets DEF Init, zero
  <2>2. \A a \in Accounts : \A i \in Instruments : locked[a][i] = 0 /\ shares[a][i] = 0
    BY DEF Init
  <2>3. QED
    BY <1>2, <2>1, <2>2, IndexSets DEF LocksCovered
<1>8. EntitledAfterRecord /\ OwedWhereEntitled
  BY DEF Init, EntitledAfterRecord, OwedWhereEntitled
<1>9. QED
  BY <1>1, <1>3, <1>4, <1>5, <1>6, <1>7, <1>8 DEF RecInv

\* A step that books nothing and does not turn the day back.
LEMMA Quiet ==
  ASSUME RecInv, TypeInv', UNCHANGED <<day, cash, receivable, shares, locked, entitled>>,
         BeforeClose' => BeforeClose
  PROVE  RecInv'
<1>1. PositionsReconcile' /\ CashReconcile' /\ ReceivablesReconcile'
      /\ EntitlementsReconcile' /\ OwedWhereEntitled' /\ LocksCovered'
  BY DEF RecInv, PositionsReconcile, CashReconcile, ReceivablesReconcile,
         EntitlementsReconcile, OwedWhereEntitled, LocksCovered
<1>2. EntitledAfterRecord'
  BY DEF RecInv, EntitledAfterRecord
<1>3. QED
  BY <1>1, <1>2 DEF RecInv

\* An abort touches no account.
LEMMA AbortRecInv ==
  ASSUME RecInv, NEW r \in Outcomes, Abort(r)
  PROVE  RecInv'
<1>1. TypeInv'
  BY AbortTypeInv DEF RecInv
<1>2. QED
  BY <1>1, Quiet DEF Abort, BeforeClose, ledger, book

\* The steps that touch no account: planning, netting, control, decisions.
LEMMA QuietSteps ==
  ASSUME RecInv, TypeInv',
         \/ ActionsDone \/ NoBatch \/ SellsDone \/ CrossesDone \/ BuysDone
         \/ DelistingsDone \/ Finished
         \/ Decide \/ PlanSells \/ PlanBuys \/ NetDemands \/ DropCrosses \/ AcceptCrosses
  PROVE  RecInv'
<1>1. UNCHANGED <<day, cash, receivable, shares, locked, entitled>>
  BY DEF ActionsDone, NoBatch, SellsDone, CrossesDone, BuysDone, DelistingsDone,
         Finished, vars, Decide, PlanSells, PlanBuys, NetDemands, DropCrosses,
         AcceptCrosses, Abort, ledger, book
<1>2. BeforeClose' => BeforeClose
  <2>1. CASE ActionsDone \/ NoBatch \/ SellsDone \/ CrossesDone \/ BuysDone
    BY <2>1 DEF BeforeClose, ActionsDone, NoBatch, SellsDone, CrossesDone, BuysDone
  <2>2. CASE DelistingsDone \/ Finished
    BY <2>2 DEF BeforeClose, DelistingsDone, Finished, vars
  <2>3. CASE Decide \/ PlanSells \/ PlanBuys \/ NetDemands \/ DropCrosses \/ AcceptCrosses
    BY <2>3 DEF BeforeClose, Decide, PlanSells, PlanBuys, NetDemands, DropCrosses,
                AcceptCrosses, Abort
  <2>4. QED
    BY <2>1, <2>2, <2>3
<1>3. QED
  BY <1>1, <1>2, Quiet

\* The dividend accrues on what was held on the record day: where that is
\* nothing, nothing was owed before either.
LEMMA AccrueRecInv ==
  ASSUME RecInv, NEW e \in Events, AccrueDividend(e)
  PROVE  RecInv'
<1> DEFINE k == Actions[e].perShare
<1>1. TypeInv' /\ TypeInv /\ TypeOK
  BY AccrueTypeInv DEF RecInv, TypeInv
<1>2. /\ receivable' = [a \in Accounts |->
            IF entitled[a][e] > 0
            THEN [receivable[a] EXCEPT ![e] = entitled[a][e] * k]
            ELSE receivable[a]]
      /\ UNCHANGED <<day, pc, outcome, pending, cash, shares, locked, book, batch>>
  BY DEF AccrueDividend
<1>3. k \in Int
  BY ActionsAssumption
<1> HIDE DEF k
<1>4. ASSUME NEW a \in Accounts, NEW x \in Events
      PROVE  /\ receivable'[a][x] = IF x = e THEN entitled[a][e] * k ELSE receivable[a][x]
             /\ entitled[a][x] = 0 => receivable'[a][x] = 0
  <2>1. /\ entitled[a][e] \in Nat /\ receivable[a] \in [Events -> Nat]
        /\ entitled[a][e] = 0 => receivable[a][e] = 0
        /\ entitled[a][x] = 0 => receivable[a][x] = 0
    BY <1>1 DEF TypeOK, RecInv, OwedWhereEntitled
  <2>2. entitled[a][e] = 0 => entitled[a][e] * k = 0
    BY <1>3
  <2>3. CASE entitled[a][e] > 0
    BY <1>2, <2>1, <2>3
  <2>4. CASE entitled[a][e] = 0
    BY <1>2, <2>1, <2>2, <2>4
  <2>5. QED
    BY <2>1, <2>3, <2>4
<1>5. ASSUME NEW x \in Events
      PROVE  receivable'[Master][x] = Total([s \in Strategies |-> receivable'[s][x]])
  <2> DEFINE f == [s \in Strategies |-> entitled[s][e]]
             g == [s \in Strategies |-> receivable'[s][x]]
  <2>1. CASE x = e
    <3>1. f \in [Strategies -> Int] /\ g \in [Strategies -> Int]
      <4>1. \A s \in Strategies : entitled[s][e] \in Nat /\ receivable'[s][x] \in Nat
        BY <1>1, IndexSets DEF TypeInv, TypeOK
      <4>2. QED
        BY <4>1
    <3>2. \A s \in Strategies : g[s] = f[s] * k
      BY <1>4, <2>1, IndexSets
    <3>3. entitled[Master][e] = Total(f)
      BY DEF RecInv, EntitlementsReconcile
    <3>4. receivable'[Master][x] = entitled[Master][e] * k
      BY <1>4, <2>1, IndexSets
    <3> HIDE DEF f, g
    <3>5. IsFiniteSet(Strategies)
      BY IndexSets
    <3>6. Total(g) = Total(f) * k
      BY <1>3, <3>1, <3>2, <3>5, TotalScale
    <3>7. QED
      BY <3>3, <3>4, <3>6 DEF g
  <2>2. CASE x # e
    <3>1. \A a \in Accounts : receivable'[a][x] = receivable[a][x]
      BY <1>4, <2>2
    <3>2. [s \in Strategies |-> receivable'[s][x]] = [s \in Strategies |-> receivable[s][x]]
      BY <3>1, IndexSets
    <3>3. QED
      BY <3>1, <3>2, IndexSets DEF RecInv, ReceivablesReconcile
  <2>3. QED
    BY <2>1, <2>2
<1>6. ReceivablesReconcile' /\ OwedWhereEntitled'
  BY <1>2, <1>4, <1>5 DEF ReceivablesReconcile, OwedWhereEntitled, book
<1>7. PositionsReconcile' /\ CashReconcile' /\ EntitlementsReconcile'
      /\ EntitledAfterRecord' /\ LocksCovered'
  BY <1>2 DEF RecInv, PositionsReconcile, CashReconcile, EntitlementsReconcile,
              EntitledAfterRecord, BeforeClose, LocksCovered, book
<1>8. QED
  BY <1>1, <1>6, <1>7 DEF RecInv

\* The pay entry moves equal receivables, so cash and receivables still agree.
LEMMA PayRecInv ==
  ASSUME RecInv, NEW e \in Events, PayDividend(e)
  PROVE  RecInv'
<1>1. TypeInv' /\ TypeInv /\ TypeOK /\ TypeOK'
  BY PayTypeInv DEF RecInv, TypeInv
<1>2. /\ cash' = [a \in Accounts |-> cash[a] + receivable[a][e]]
      /\ receivable' = [a \in Accounts |-> [receivable[a] EXCEPT ![e] = 0]]
      /\ UNCHANGED <<day, pc, outcome, pending, shares, locked, book, batch>>
  BY DEF PayDividend
<1>3. CashReconcile'
  <2> DEFINE f == [s \in Strategies |-> cash[s]]
             g == [s \in Strategies |-> cash'[s]]
             d == [s \in Strategies |-> receivable[s][e]]
  <2>1. f \in [Strategies -> Int] /\ g \in [Strategies -> Int] /\ d \in [Strategies -> Int]
    BY <1>1, ColumnTypes, IndexSets DEF TypeOK
  <2>2. \A s \in Strategies : g[s] = f[s] + d[s]
    BY <1>2, IndexSets
  <2>3. cash[Master] = Total(f) /\ receivable[Master][e] = Total(d)
    BY DEF RecInv, CashReconcile, ReceivablesReconcile
  <2>4. cash'[Master] = cash[Master] + receivable[Master][e]
    BY <1>2, IndexSets
  <2> HIDE DEF f, g, d
  <2>5. Total(g) = Total(f) + Total(d)
    BY <2>1, <2>2, StaysInStep
  <2>6. QED
    BY <2>3, <2>4, <2>5 DEF CashReconcile, g
<1>4. ASSUME NEW x \in Events
      PROVE  receivable'[Master][x] = Total([s \in Strategies |-> receivable'[s][x]])
  <2>1. \A a \in Accounts : receivable'[a][x] = IF x = e THEN 0 ELSE receivable[a][x]
    BY <1>1, <1>2 DEF TypeOK
  <2> DEFINE g == [s \in Strategies |-> receivable'[s][x]]
  <2>2. CASE x = e
    <3>1. g \in [Strategies -> Int] /\ \A s \in Strategies : g[s] = 0
      BY <2>1, <2>2, IndexSets
    <3> HIDE DEF g
    <3>2. Total(g) = 0
      BY <3>1, TotalZero
    <3>3. QED
      BY <2>1, <2>2, <3>2, IndexSets DEF g
  <2>3. CASE x # e
    <3>1. g = [s \in Strategies |-> receivable[s][x]]
      BY <2>1, <2>3, IndexSets
    <3>2. QED
      BY <2>1, <2>3, <3>1, IndexSets DEF RecInv, ReceivablesReconcile
  <2>4. QED
    BY <2>2, <2>3
<1>5. ReceivablesReconcile'
  BY <1>4 DEF ReceivablesReconcile
<1>6. OwedWhereEntitled'
  BY <1>1, <1>2 DEF RecInv, OwedWhereEntitled, TypeOK, book
<1>7. PositionsReconcile' /\ EntitlementsReconcile' /\ EntitledAfterRecord'
      /\ LocksCovered'
  BY <1>2 DEF RecInv, PositionsReconcile, EntitlementsReconcile,
              EntitledAfterRecord, BeforeClose, LocksCovered, book
<1>8. QED
  BY <1>1, <1>3, <1>5, <1>6, <1>7 DEF RecInv

\* Positions, when every account's position in one instrument changes by its
\* part and the master's part is the total of the sleeves' parts.
LEMMA PositionsInStep ==
  ASSUME RecInv, TypeOK', NEW i \in Instruments, NEW part \in [Accounts -> Int],
         part[Master] = Total([s \in Strategies |-> part[s]]),
         \A a \in Accounts : \A j \in Instruments :
             shares'[a][j] = shares[a][j] + IF j = i THEN part[a] ELSE 0
  PROVE  PositionsReconcile'
<1>1. TypeOK
  BY DEF RecInv, TypeInv
<1>2. ASSUME NEW j \in Instruments
      PROVE  shares'[Master][j] = Total([s \in Strategies |-> shares'[s][j]])
  <2> DEFINE f == [s \in Strategies |-> shares[s][j]]
             g == [s \in Strategies |-> shares'[s][j]]
             d == [s \in Strategies |-> part[s]]
  <2>0. \A a \in Accounts : shares[a][j] \in Int /\ shares'[a][j] \in Int /\ part[a] \in Int
    BY <1>1 DEF TypeOK
  <2>1. f \in [Strategies -> Int] /\ g \in [Strategies -> Int] /\ d \in [Strategies -> Int]
    BY <2>0, IndexSets
  <2>2. shares[Master][j] = Total(f)
    BY DEF RecInv, PositionsReconcile
  <2>3. CASE j = i
    <3>1. \A s \in Strategies : g[s] = f[s] + d[s]
      BY <2>3, IndexSets
    <3>2. shares'[Master][j] = shares[Master][j] + part[Master] /\ part[Master] = Total(d)
      BY <2>3, IndexSets
    <3> HIDE DEF f, g, d
    <3>3. Total(g) = Total(f) + Total(d)
      BY <2>1, <3>1, StaysInStep
    <3>4. QED
      BY <2>2, <3>2, <3>3 DEF g
  <2>4. CASE j # i
    <3>0. \A a \in Accounts : shares'[a][j] = shares[a][j]
      BY <2>0, <2>4
    <3>1. g = f
      BY <3>0, IndexSets
    <3>2. shares'[Master][j] = shares[Master][j]
      BY <3>0, IndexSets
    <3>3. QED
      BY <2>2, <3>1, <3>2
  <2>5. QED
    BY <2>3, <2>4
<1>3. QED
  BY <1>2 DEF PositionsReconcile

\* The same for the cash of the accounts.
LEMMA CashInStep ==
  ASSUME RecInv, TypeOK', NEW part \in [Accounts -> Int],
         part[Master] = Total([s \in Strategies |-> part[s]]),
         \A a \in Accounts : cash'[a] = cash[a] + part[a]
  PROVE  CashReconcile'
<1> DEFINE f == [s \in Strategies |-> cash[s]]
           g == [s \in Strategies |-> cash'[s]]
           d == [s \in Strategies |-> part[s]]
<1>1. \A a \in Accounts : cash[a] \in Int /\ cash'[a] \in Int /\ part[a] \in Int
  BY DEF RecInv, TypeInv, TypeOK
<1>2. f \in [Strategies -> Int] /\ g \in [Strategies -> Int] /\ d \in [Strategies -> Int]
  BY <1>1, IndexSets
<1>3. \A s \in Strategies : g[s] = f[s] + d[s]
  BY IndexSets
<1>4. cash'[Master] = cash[Master] + part[Master] /\ part[Master] = Total(d)
  BY IndexSets
<1>5. cash[Master] = Total(f)
  BY DEF RecInv, CashReconcile
<1> HIDE DEF f, g, d
<1>6. Total(g) = Total(f) + Total(d)
  BY <1>2, <1>3, StaysInStep
<1>7. QED
  BY <1>4, <1>5, <1>6 DEF CashReconcile, g

\* Locks may come to the sleeves alone, or to sleeves and master alike.
LEMMA LocksInStep ==
  ASSUME RecInv, TypeInv', NEW i \in Instruments, NEW part \in [Accounts -> Int],
         part[Master] <= Total([s \in Strategies |-> part[s]]),
         \A a \in Accounts : \A j \in Instruments :
             locked'[a][j] = locked[a][j] + IF j = i THEN part[a] ELSE 0
  PROVE  LocksCovered'
<1>1. ASSUME NEW j \in Instruments
      PROVE  locked'[Master][j] <= Total([s \in Strategies |-> locked'[s][j]])
  <2> DEFINE f == [s \in Strategies |-> locked[s][j]]
             g == [s \in Strategies |-> locked'[s][j]]
             d == [s \in Strategies |-> part[s]]
  <2>0. \A a \in Accounts : locked[a][j] \in Int /\ locked'[a][j] \in Int /\ part[a] \in Int
    BY DEF RecInv, TypeInv, TypeOK
  <2>1. f \in [Strategies -> Int] /\ g \in [Strategies -> Int] /\ d \in [Strategies -> Int]
    BY <2>0, IndexSets
  <2>2. locked[Master][j] <= Total(f)
    BY DEF RecInv, LocksCovered
  <2>3. CASE j = i
    <3>1. \A s \in Strategies : g[s] = f[s] + d[s]
      BY <2>3, IndexSets
    <3>2. locked'[Master][j] = locked[Master][j] + part[Master] /\ part[Master] <= Total(d)
          /\ locked[Master][j] \in Int /\ part[Master] \in Int
      BY <2>0, <2>3, IndexSets
    <3> HIDE DEF f, g, d
    <3>3. Total(g) = Total(f) + Total(d) /\ Total(f) \in Int /\ Total(d) \in Int
      BY <2>1, <3>1, StaysInStep
    <3>4. QED
      BY <2>2, <3>2, <3>3 DEF g
  <2>4. CASE j # i
    <3>0. \A a \in Accounts : locked'[a][j] = locked[a][j]
      BY <2>0, <2>4
    <3>1. g = f
      BY <3>0, IndexSets
    <3>2. QED
      BY <2>2, <3>0, <3>1, IndexSets
  <2>5. QED
    BY <2>3, <2>4
<1>2. QED
  BY <1>1 DEF LocksCovered, TypeInv, LocksHeld

\* The deltas of a corporate action: the master's is the total of the sleeves'.
LEMMA DeltaTotal ==
  ASSUME RecInv, NEW e \in Events
  PROVE  /\ \A s \in Strategies : Delta(s, e) = SleeveDelta(e)[s]
         /\ Delta(Master, e) = Total(SleeveDelta(e))
<1> DEFINE held == [s \in Strategies |-> entitled[s][e]]
<1>1. TypeOK /\ held \in [Strategies -> Nat]
  BY ColumnTypes DEF RecInv, TypeInv
<1>2. SleeveDelta(e) \in [Strategies -> Int]
      /\ \A s \in Strategies : entitled[s][e] = 0 => SleeveDelta(e)[s] = 0
  BY <1>1, DeltaType, IndexSets
<1>3. \A s \in Strategies : Delta(s, e) = SleeveDelta(e)[s]
  BY <1>2, IndexSets DEF Delta
<1>4. CASE entitled[Master][e] = 0
  <2>1. Total(held) = 0
    BY <1>4 DEF RecInv, EntitlementsReconcile
  <2>2. IsFiniteSet(Strategies)
    BY IndexSets
  <2> HIDE DEF held
  <2>3. \A s \in Strategies : held[s] = 0
    BY <1>1, <2>1, <2>2, TotalNat
  <2>4. \A s \in Strategies : SleeveDelta(e)[s] = 0
    BY <1>2, <2>3 DEF held
  <2>5. Total(SleeveDelta(e)) = 0
    BY <1>2, <2>4, TotalZero
  <2>6. QED
    BY <1>3, <1>4, <2>5 DEF Delta
<1>5. CASE entitled[Master][e] # 0
  BY <1>3, <1>5 DEF Delta
<1>6. QED
  BY <1>4, <1>5

\* The master adjusts by the sum of the sleeves' rounded deltas.
LEMMA AdjustRecInv ==
  ASSUME RecInv, NEW e \in Events, AdjustShares(e)
  PROVE  RecInv'
<1> DEFINE i == Actions[e].code
           part == [a \in Accounts |-> Delta(a, e)]
<1>1. TypeInv' /\ TypeOK' /\ TypeOK
  BY AdjustTypeInv DEF RecInv, TypeInv
<1>2. CASE ~(\A a \in Accounts : Adjustable(a, e))
  BY <1>2, AbortRecInv DEF AdjustShares, Outcomes
<1>3. CASE \A a \in Accounts : Adjustable(a, e)
  <2>1. /\ shares' = [a \in Accounts |-> [shares[a] EXCEPT ![i] = @ + Delta(a, e)]]
        /\ UNCHANGED <<day, pc, outcome, pending, cash, receivable, locked, book, batch>>
    BY <1>3 DEF AdjustShares
  <2>2. i \in Instruments
    BY ActionsAssumption
  <2>3. part \in [Accounts -> Int]
    BY <1>1, DeltaType
  <2>4. part[Master] = Total([s \in Strategies |-> part[s]])
    <3>1. [s \in Strategies |-> part[s]] = SleeveDelta(e)
      <4>1. \A s \in Strategies : part[s] = SleeveDelta(e)[s]
        BY DeltaTotal, IndexSets
      <4>2. SleeveDelta(e) = [s \in Strategies |-> SleeveDelta(e)[s]]
        BY DEF SleeveDelta
      <4> HIDE DEF part
      <4>3. QED
        BY <4>1, <4>2
    <3>2. QED
      BY <3>1, DeltaTotal, IndexSets
  <2>5. \A a \in Accounts : \A j \in Instruments :
            shares'[a][j] = shares[a][j] + IF j = i THEN part[a] ELSE 0
    <3>1. \A a \in Accounts : part[a] = Delta(a, e) /\ part[a] \in Int
      BY <2>3
    <3> HIDE DEF part, i
    <3>2. QED
      BY <1>1, <2>1, <2>2, <3>1 DEF TypeOK
  <2> HIDE DEF part, i
  <2>6. PositionsReconcile'
    BY <1>1, <2>2, <2>3, <2>4, <2>5, PositionsInStep
  <2>7. CashReconcile' /\ ReceivablesReconcile' /\ EntitlementsReconcile'
        /\ EntitledAfterRecord' /\ OwedWhereEntitled'
    BY <2>1 DEF RecInv, CashReconcile, ReceivablesReconcile, EntitlementsReconcile,
                EntitledAfterRecord, OwedWhereEntitled, BeforeClose, book
  <2>8. LocksCovered'
    BY <1>1, <2>1 DEF RecInv, LocksCovered, TypeInv, LocksHeld
  <2>9. QED
    BY <1>1, <2>6, <2>7, <2>8 DEF RecInv
<1>4. QED
  BY <1>2, <1>3

\* The fees of an order add up to what the order is charged.
LEMMA FeesTotal ==
  ASSUME NEW part \in [Strategies -> Nat], NEW c \in Int, Total(part) = 0 => c = 0
  PROVE  /\ CostShare(c, part) \in [Strategies -> Int]
         /\ Total(CostShare(c, part)) = c
         /\ \A s \in Strategies : part[s] = 0 => CostShare(c, part)[s] = 0
<1> DEFINE fees == CostShare(c, part)
<1>1. IsFiniteSet(Strategies) /\ NumStrategies \in Nat /\ Strategies = 1..NumStrategies
  BY IndexSets
<1>2. /\ fees \in [Strategies -> Int]
      /\ \A s \in Strategies : part[s] = 0 => fees[s] = 0
      /\ Total(part) # 0 => Total(fees) = c
  BY <1>1, CostShareTotal
<1> HIDE DEF fees
<1>3. CASE Total(part) = 0
  <2>1. \A s \in Strategies : part[s] = 0
    BY <1>1, <1>3, TotalNat
  <2>2. Total(fees) = 0
    BY <1>2, <2>1, TotalZero
  <2>3. QED
    BY <1>2, <1>3, <2>2 DEF fees
<1>4. CASE Total(part) # 0
  BY <1>2, <1>4 DEF fees
<1>5. QED
  BY <1>3, <1>4

\* An order's notional and fees are the totals of the parts'.
LEMMA OrderTotal ==
  ASSUME NEW value \in [Strategies -> Int], NEW fees \in [Strategies -> Int],
         NEW taxes \in [Strategies -> Int], NEW cost \in [Strategies -> Int],
         \A s \in Strategies : cost[s] = value[s] + fees[s] + taxes[s]
  PROVE  Total(cost) = Total(value) + Total(fees) + Total(taxes)
<1> DEFINE both == [s \in Strategies |-> fees[s] + taxes[s]]
<1>1. IsFiniteSet(Strategies)
  BY IndexSets
<1>2. both \in [Strategies -> Int] /\ \A s \in Strategies : both[s] = fees[s] + taxes[s]
  OBVIOUS
<1>3. \A s \in Strategies : cost[s] = value[s] + both[s]
  OBVIOUS
<1> HIDE DEF both
<1>4. Total(both) = Total(fees) + Total(taxes)
  BY <1>2, StaysInStep
<1>5. Total(cost) = Total(value) + Total(both)
  BY <1>2, <1>3, StaysInStep
<1>6. Total(value) \in Int /\ Total(fees) \in Int /\ Total(taxes) \in Int
  BY <1>1, TotalType
<1>7. QED
  BY <1>4, <1>5, <1>6

\* A split gives the master the total of the sleeves' parts.
LEMMA SplitTotal ==
  ASSUME NEW part \in [Strategies -> Int]
  PROVE  /\ Split(part) \in [Accounts -> Int]
         /\ \A s \in Strategies : Split(part)[s] = part[s]
         /\ [s \in Strategies |-> Split(part)[s]] = part
         /\ Split(part)[Master] = Total(part)
<1>1. Total(part) \in Int
  BY IndexSets, TotalType
<1>2. Split(part) \in [Accounts -> Int]
  BY <1>1 DEF Split, Accounts
<1>3. \A s \in Strategies : Split(part)[s] = part[s]
  BY IndexSets DEF Split
<1>4. Split(part)[Master] = Total(part)
  BY IndexSets DEF Split
<1>5. QED
  BY <1>2, <1>3, <1>4

\* No commission and no tax on an order nothing of which was filled.
LEMMA NoFillNoFees ==
  ASSUME NEW price \in Int, NEW per \in Nat \ {0}
  PROVE  Commission(0 * price) = 0 /\ (0 * price) \div per = 0
<1>1. 0 * price = 0 /\ 0 \div per = 0
  OBVIOUS
<1>2. QED
  BY <1>1 DEF Commission

\* The master sells the sum of the parts and pays the sum of the fee shares.
LEMMA SellRecInv ==
  ASSUME RecInv, NEW i \in Instruments, NEW slip \in Slippage,
         NEW fill \in 0 .. EndOf("sell", i), ExecuteSell(i, fill, slip)
  PROVE  RecInv'
<1> DEFINE sold == Allocation(fill, residual["sell"][i], SellLot(i))
           actual == Total(sold)
           price == RefPrice(i) - slip
           commission == Commission(actual * price)
           tax == (actual * price) \div SellTaxPer
           fees == CostShare(commission, sold)
           taxes == CostShare(tax, sold)
           cost == [s \in Strategies |-> sold[s] * (-price) + fees[s] + taxes[s]]
           part == [a \in Accounts |-> -Split(sold)[a]]
           gain == [a \in Accounts |-> -Split(cost)[a]]
           booked == /\ shares' = [a \in Accounts |->
                            [shares[a] EXCEPT ![i] = @ - Split(sold)[a]]]
                     /\ cash' = [a \in Accounts |-> cash[a] +
                            IF a = Master THEN actual * price - commission - tax
                            ELSE sold[a] * price - fees[a] - taxes[a]]
                     /\ queue' = queue \ {i}
                     /\ UNCHANGED <<day, pc, outcome, due, pending, receivable, locked,
                                    book, money, residual, crosses>>
<1>1. TypeInv' /\ TypeOK' /\ TypeOK
  BY SellTypeInv DEF RecInv, TypeInv
<1>2. sold \in [Strategies -> Nat]
  BY <1>1, AllocationType, SellLotType DEF Sides
<1>3. (\E r \in {"sleeve_oversold", "master_oversold"} : Abort(r)) \/ booked
  BY DEF ExecuteSell
<1>4. CASE \E r \in {"sleeve_oversold", "master_oversold"} : Abort(r)
  BY <1>4, AbortRecInv DEF Outcomes, BookingFailures
<1>5. CASE booked
  <2>1. price \in Int /\ SellTaxPer \in Nat \ {0}
    BY <1>1, ConfigAssumption, PriceTypes
  <2> HIDE DEF sold, price
  <2>2. actual \in Nat /\ commission \in Int /\ tax \in Int
    BY <1>2, <2>1, SplitTypes
  <2>3. actual = 0 => commission = 0 /\ tax = 0
    BY <2>1, NoFillNoFees
  <2>4. fees \in [Strategies -> Int] /\ taxes \in [Strategies -> Int]
    <3> HIDE DEF commission, tax
    <3> QED
      BY <1>2, <2>2, <2>3, FeesTotal
  <2>5. cost \in [Strategies -> Int] /\ Total(cost) = actual * (-price) + commission + tax
    <3> DEFINE less == -price
               value == [s \in Strategies |-> sold[s] * less]
    <3>1. less \in Int /\ sold \in [Strategies -> Int] /\ IsFiniteSet(Strategies)
      BY <1>2, <2>1, IndexSets
    <3>2. value \in [Strategies -> Int] /\ \A s \in Strategies : value[s] = sold[s] * less
      BY <3>1
    <3>3. \A s \in Strategies : cost[s] = value[s] + fees[s] + taxes[s]
      OBVIOUS
    <3>4. cost \in [Strategies -> Int]
      <4> HIDE DEF fees, taxes, value
      <4> QED
        BY <2>4, <3>2, <3>3
    <3>5. Total(fees) = commission /\ Total(taxes) = tax
      <4> HIDE DEF commission, tax
      <4> QED
        BY <1>2, <2>2, <2>3, FeesTotal
    <3> HIDE DEF cost, commission, tax, fees, taxes, value, less
    <3>6. Total(value) = Total(sold) * less
      BY <3>1, <3>2, TotalScale
    <3>7. Total(cost) = Total(value) + Total(fees) + Total(taxes)
      BY <2>4, <3>2, <3>3, <3>4, OrderTotal
    <3>8. QED
      BY <3>4, <3>5, <3>6, <3>7 DEF less
  <2>6. /\ \A s \in Strategies : sold[s] * price - fees[s] - taxes[s] = -cost[s]
        /\ actual * price - commission - tax = -Total(cost)
    <3>1. \A n \in Int : n * (-price) = -(n * price) /\ n * price \in Int
      BY <2>1
    <3>2. ASSUME NEW s \in Strategies
          PROVE  sold[s] * price - fees[s] - taxes[s] = -cost[s]
      <4>1. sold[s] \in Int /\ fees[s] \in Int /\ taxes[s] \in Int
        BY <1>2, <2>4
      <4>2. cost[s] = -(sold[s] * price) + fees[s] + taxes[s]
        BY <3>1, <4>1
      <4>3. sold[s] * price \in Int
        BY <3>1, <4>1
      <4> HIDE DEF cost, fees, taxes
      <4>4. QED
        BY <4>1, <4>2, <4>3
    <3>3. actual * (-price) = -(actual * price) /\ actual * price \in Int
      BY <2>2, <3>1
    <3> HIDE DEF cost, fees, taxes, commission, tax
    <3>4. QED
      BY <2>2, <2>5, <3>2, <3>3
  <2>7. \A a \in Accounts : cash'[a] = cash[a] + gain[a]
    <3>1. \A a \in Accounts : cash'[a] = cash[a] +
             IF a = Master THEN actual * price - commission - tax
             ELSE sold[a] * price - fees[a] - taxes[a]
      BY <1>5
    <3>2. Split(cost)[Master] = Total(cost) /\ \A s \in Strategies : Split(cost)[s] = cost[s]
      BY <2>5, SplitTotal
    <3>3. \A a \in Accounts : gain[a] = IF a = Master THEN -Total(cost) ELSE -cost[a]
      BY <3>2 DEF Accounts
    <3> HIDE DEF cost, fees, taxes, actual, commission, tax, gain
    <3>4. QED
      BY <2>6, <3>1, <3>3 DEF Accounts
  <2>8. gain \in [Accounts -> Int] /\ gain[Master] = Total([s \in Strategies |-> gain[s]])
    <3> HIDE DEF cost
    <3>1. /\ Split(cost) \in [Accounts -> Int] /\ Split(cost)[Master] = Total(cost)
          /\ \A s \in Strategies : Split(cost)[s] = cost[s]
      BY <2>5, SplitTotal
    <3>2. gain \in [Accounts -> Int] /\ gain[Master] = -Total(cost)
      BY <3>1, IndexSets
    <3>3. [s \in Strategies |-> gain[s]] = [s \in Strategies |-> -cost[s]]
      BY <3>1, IndexSets
    <3>4. Total([s \in Strategies |-> -cost[s]]) = -Total(cost)
      BY <2>5, IndexSets, TotalNegated
    <3>5. QED
      BY <3>2, <3>3, <3>4
  <2>9. part \in [Accounts -> Int] /\ part[Master] = Total([s \in Strategies |-> part[s]])
    <3>0. sold \in [Strategies -> Int]
      BY <1>2
    <3>1. /\ Split(sold) \in [Accounts -> Int] /\ Split(sold)[Master] = Total(sold)
          /\ \A s \in Strategies : Split(sold)[s] = sold[s]
      BY <3>0, SplitTotal
    <3>2. part \in [Accounts -> Int] /\ part[Master] = -Total(sold)
      BY <3>1, IndexSets
    <3>3. [s \in Strategies |-> part[s]] = [s \in Strategies |-> -sold[s]]
      BY <3>1, IndexSets
    <3>4. Total([s \in Strategies |-> -sold[s]]) = -Total(sold)
      BY <3>0, IndexSets, TotalNegated
    <3>5. QED
      BY <3>2, <3>3, <3>4
  <2>10. \A a \in Accounts : \A j \in Instruments :
             shares'[a][j] = shares[a][j] + IF j = i THEN part[a] ELSE 0
    <3>1. \A a \in Accounts : Split(sold)[a] \in Int
      BY <1>2, SplitTotal
    <3>2. \A a \in Accounts : part[a] = -Split(sold)[a]
      OBVIOUS
    <3>3. shares' = [a \in Accounts |-> [shares[a] EXCEPT ![i] = @ - Split(sold)[a]]]
      BY <1>5
    <3> HIDE DEF part
    <3>4. QED
      BY <1>1, <3>1, <3>2, <3>3 DEF TypeOK
  <2> HIDE DEF part, gain
  <2>11. PositionsReconcile'
    BY <1>1, <2>9, <2>10, PositionsInStep
  <2>12. CashReconcile'
    BY <1>1, <2>7, <2>8, CashInStep
  <2>13. ReceivablesReconcile' /\ EntitlementsReconcile' /\ EntitledAfterRecord'
         /\ OwedWhereEntitled'
    BY <1>5 DEF RecInv, ReceivablesReconcile, EntitlementsReconcile,
                EntitledAfterRecord, OwedWhereEntitled, BeforeClose, book
  <2>14. LocksCovered'
    BY <1>1, <1>5 DEF RecInv, LocksCovered, TypeInv, LocksHeld
  <2>15. QED
    BY <1>1, <2>11, <2>12, <2>13, <2>14 DEF RecInv
<1>6. QED
  BY <1>3, <1>4, <1>5

\* A cross takes from one sleeve what it gives to another, and the master
\* has no part in it.
LEMMA MoveTotal ==
  ASSUME NEW n \in Int, NEW seller \in Strategies, NEW buyer \in Strategies,
         NEW part \in [Accounts -> Int],
         \A a \in Accounts : part[a] = CrossMove(seller, buyer, n, a)
  PROVE  part[Master] = 0 /\ Total([s \in Strategies |-> part[s]]) = 0
<1> DEFINE give == [s \in Strategies |-> IF s = seller THEN n ELSE 0]
           take == [s \in Strategies |-> IF s = buyer THEN n ELSE 0]
           zero == [s \in Strategies |-> 0]
           both == [s \in Strategies |-> part[s]]
<1>1. IsFiniteSet(Strategies)
  BY IndexSets
<1>2. /\ give \in [Strategies -> Int] /\ take \in [Strategies -> Int]
      /\ zero \in [Strategies -> Int] /\ both \in [Strategies -> Int]
  BY IndexSets
<1>3. /\ \A s \in Strategies : s # seller => give[s] = zero[s]
      /\ \A s \in Strategies : s # buyer => take[s] = zero[s]
      /\ give[seller] - zero[seller] = n /\ take[buyer] - zero[buyer] = n
      /\ \A s \in Strategies : zero[s] = 0
  OBVIOUS
<1>4. \A s \in Strategies : take[s] = give[s] + both[s]
  BY IndexSets DEF CrossMove
<1>5. part[Master] = 0
  BY IndexSets DEF CrossMove
<1> HIDE DEF give, take, zero, both
<1>6. Total(zero) = 0
  BY <1>2, <1>3, TotalZero
<1>7. Total(give) = n
  <2>1. Total(give) = Total(zero) + (give[seller] - zero[seller])
    BY <1>1, <1>2, <1>3, TotalShift
  <2>2. QED
    BY <1>3, <1>6, <2>1
<1>8. Total(take) = n
  <2>1. Total(take) = Total(zero) + (take[buyer] - zero[buyer])
    BY <1>1, <1>2, <1>3, TotalShift
  <2>2. QED
    BY <1>3, <1>6, <2>1
<1>9. Total(take) = Total(give) + Total(both) /\ Total(both) \in Int
  BY <1>2, <1>4, StaysInStep
<1>10. Total(both) = 0
  BY <1>7, <1>8, <1>9
<1>11. QED
  BY <1>5, <1>10 DEF both

\* A cross adds to one sleeve what it takes from another.
LEMMA SettleRecInv ==
  ASSUME RecInv, NEW i \in Instruments, NEW seller \in Strategies,
         NEW buyer \in Strategies, SettleCross(i, seller, buyer)
  PROVE  RecInv'
<1> DEFINE n == crosses[i][seller][buyer]
           value == Flow(i, n)
           part == [a \in Accounts |-> CrossMove(seller, buyer, n, a)]
           paid == [a \in Accounts |-> CrossMove(seller, buyer, -value, a)]
           lock == [a \in Accounts |-> IF a = buyer THEN n * Locking(i) ELSE 0]
<1>1. TypeInv' /\ TypeOK' /\ TypeOK /\ TypeInv
  BY SettleTypeInv DEF RecInv, TypeInv
<1>2. /\ n \in Nat
      /\ \A a \in Accounts : \A j \in Instruments :
           /\ shares'[a][j] = shares[a][j]
                                + IF j = i THEN CrossMove(seller, buyer, n, a) ELSE 0
           /\ locked'[a][j] = locked[a][j]
                                + IF j = i /\ a = buyer THEN n * Locking(i) ELSE 0
  BY <1>1, SettleStep
<1>3. /\ cash' = [a \in Accounts |-> cash[a] - CrossMove(seller, buyer, value, a)]
      /\ UNCHANGED <<day, pc, receivable, book>>
  BY DEF SettleCross
<1>4. value \in Int /\ n * Locking(i) \in Nat
  BY <1>1, <1>2, PriceTypes DEF Flow
<1> HIDE DEF n, value
<1>5. PositionsReconcile'
  <2>1. part \in [Accounts -> Int]
    BY <1>2 DEF CrossMove
  <2>2. \A a \in Accounts : part[a] = CrossMove(seller, buyer, n, a)
    OBVIOUS
  <2>3. \A a \in Accounts : \A j \in Instruments :
            shares'[a][j] = shares[a][j] + IF j = i THEN part[a] ELSE 0
    BY <1>2
  <2> HIDE DEF part
  <2>4. part[Master] = Total([s \in Strategies |-> part[s]])
    BY <1>2, <2>1, <2>2, MoveTotal
  <2>5. QED
    BY <1>1, <2>1, <2>3, <2>4, PositionsInStep
<1>6. CashReconcile'
  <2>1. paid \in [Accounts -> Int]
    BY <1>4 DEF CrossMove
  <2>2. \A a \in Accounts : paid[a] = CrossMove(seller, buyer, -value, a)
    OBVIOUS
  <2>3. \A a \in Accounts : cash'[a] = cash[a] + paid[a]
    <3>1. \A a \in Accounts : cash[a] \in Int
      BY <1>1 DEF TypeOK
    <3>2. QED
      BY <1>3, <1>4, <3>1 DEF CrossMove
  <2>4. -value \in Int
    BY <1>4
  <2> HIDE DEF paid
  <2>5. paid[Master] = Total([s \in Strategies |-> paid[s]])
    BY <2>1, <2>2, <2>4, MoveTotal
  <2>6. QED
    BY <1>1, <2>1, <2>3, <2>5, CashInStep
<1>7. LocksCovered'
  <2>1. lock \in [Accounts -> Int] /\ lock[Master] = 0
    BY <1>4, IndexSets
  <2>2. [s \in Strategies |-> lock[s]] \in [Strategies -> Nat]
    BY <1>4, IndexSets
  <2>3. Total([s \in Strategies |-> lock[s]]) \in Nat
    BY <2>2, IndexSets, TotalNat
  <2>4. \A a \in Accounts : \A j \in Instruments :
            locked'[a][j] = locked[a][j] + IF j = i THEN lock[a] ELSE 0
    BY <1>2
  <2> HIDE DEF lock
  <2>5. lock[Master] <= Total([s \in Strategies |-> lock[s]])
    BY <2>1, <2>3
  <2>6. QED
    BY <1>1, <2>1, <2>4, <2>5, LocksInStep
<1>8. ReceivablesReconcile' /\ EntitlementsReconcile' /\ EntitledAfterRecord'
      /\ OwedWhereEntitled'
  BY <1>3 DEF RecInv, ReceivablesReconcile, EntitlementsReconcile,
              EntitledAfterRecord, OwedWhereEntitled, BeforeClose, book
<1>9. QED
  BY <1>1, <1>5, <1>6, <1>7, <1>8 DEF RecInv

\* Taking the entitlements: an event whose record day is over, or today, had
\* none before, so all accounts take their positions of this moment.
LEMMA MarkRecInv ==
  ASSUME RecInv, MarkToMarket
  PROVE  RecInv'
<1> DEFINE unmarked == \E i \in HeldBySomeone :
                          ~Observed(i) /\ (DelistEffective(i) => mark[i] = 0)
<1>1. TypeInv' /\ TypeOK' /\ TypeOK
  BY MarkTypeInv DEF RecInv, TypeInv
<1>2. CASE unmarked
  BY <1>2, AbortRecInv DEF MarkToMarket, Outcomes
<1>3. CASE ~unmarked
  <2>1. /\ entitled' = [a \in Accounts |-> [e \in Events |-> Entitlement(a, e)]]
        /\ pc' = "delist" /\ pc = "close"
        /\ UNCHANGED <<day, ledger>>
    BY <1>3 DEF MarkToMarket
  <2>2. ASSUME NEW a \in Accounts, NEW e \in Events
        PROVE  /\ entitled'[a][e] = IF Actions[e].record = day
                                    THEN shares[a][Actions[e].code] ELSE entitled[a][e]
               /\ entitled[a][e] # 0 => entitled'[a][e] # 0
    <3>1. Actions[e].record = day => entitled[a][e] = 0
      BY <2>1 DEF RecInv, EntitledAfterRecord, BeforeClose
    <3>2. shares[a][Actions[e].code] \in Nat
      BY <1>1, ActionsAssumption DEF TypeOK
    <3>3. entitled'[a][e] = Entitlement(a, e)
      BY <2>1
    <3>4. QED
      BY <3>1, <3>2, <3>3 DEF Entitlement
  <2>3. ASSUME NEW e \in Events
        PROVE  entitled'[Master][e] = Total([s \in Strategies |-> entitled'[s][e]])
    <3>1. Actions[e].code \in Instruments
      BY ActionsAssumption
    <3>2. CASE Actions[e].record = day
      <4>1. [s \in Strategies |-> entitled'[s][e]]
              = [s \in Strategies |-> shares[s][Actions[e].code]]
        BY <2>2, <3>2, IndexSets
      <4>2. QED
        BY <2>2, <3>1, <3>2, <4>1, IndexSets DEF RecInv, PositionsReconcile
    <3>3. CASE Actions[e].record # day
      <4>1. [s \in Strategies |-> entitled'[s][e]] = [s \in Strategies |-> entitled[s][e]]
        BY <2>2, <3>3, IndexSets
      <4>2. QED
        BY <2>2, <3>3, <4>1, IndexSets DEF RecInv, EntitlementsReconcile
    <3>4. QED
      BY <3>2, <3>3
  <2>4. EntitlementsReconcile'
    BY <2>3 DEF EntitlementsReconcile
  <2>5. EntitledAfterRecord'
    <3>1. ASSUME NEW a \in Accounts, NEW e \in Events, Actions[e].record > day
          PROVE  entitled'[a][e] = 0
      <4>1. Actions[e].record # day /\ entitled[a][e] = 0
        BY <3>1, ActionsAssumption, <1>1 DEF RecInv, EntitledAfterRecord, TypeOK, Days
      <4>2. QED
        BY <2>2, <4>1
    <3>2. ~BeforeClose'
      BY <2>1 DEF BeforeClose
    <3>3. QED
      BY <2>1, <3>1, <3>2 DEF EntitledAfterRecord
  <2>6. OwedWhereEntitled'
    BY <2>1, <2>2 DEF RecInv, OwedWhereEntitled, ledger
  <2>7. PositionsReconcile' /\ CashReconcile' /\ ReceivablesReconcile' /\ LocksCovered'
    BY <2>1 DEF RecInv, PositionsReconcile, CashReconcile, ReceivablesReconcile,
                LocksCovered, ledger
  <2>8. QED
    BY <1>1, <2>4, <2>5, <2>6, <2>7 DEF RecInv
<1>4. QED
  BY <1>2, <1>3

\* The turn of the day moves nothing.
LEMMA RecordRecInv ==
  ASSUME RecInv, RecordDay
  PROVE  RecInv'
<1> DEFINE negative == \E s \in Strategies : cash[s] < 0 \/ Worth(s, MarkOf) < 0
<1>1. TypeInv' /\ TypeOK
  BY RecordTypeInv DEF RecInv, TypeInv
<1>2. CASE negative
  BY <1>2, AbortRecInv DEF RecordDay, Outcomes
<1>3. CASE ~negative /\ day = NumDays
  BY <1>1, <1>3, Quiet DEF RecordDay, BeforeClose, ledger, book
<1>4. CASE ~negative /\ day # NumDays
  <2>1. /\ pc' = "actions" /\ day' = day + 1
        /\ locked' = [a \in Accounts |-> [i \in Instruments |-> 0]]
        /\ UNCHANGED <<cash, receivable, shares, book>>
    BY <1>4 DEF RecordDay
  <2>2. PositionsReconcile' /\ CashReconcile' /\ ReceivablesReconcile'
        /\ EntitlementsReconcile' /\ OwedWhereEntitled'
    BY <2>1 DEF RecInv, PositionsReconcile, CashReconcile, ReceivablesReconcile,
                EntitlementsReconcile, OwedWhereEntitled, book
  <2>3. EntitledAfterRecord'
    <3>1. ASSUME NEW a \in Accounts, NEW e \in Events, Actions[e].record >= day + 1
          PROVE  entitled[a][e] = 0
      <4>1. Actions[e].record \in Nat /\ day \in Nat
        BY <1>1, ActionsAssumption DEF TypeOK, Days
      <4>2. Actions[e].record > day
        BY <3>1, <4>1
      <4>3. QED
        BY <4>2 DEF RecInv, EntitledAfterRecord
    <3>2. \A e \in Events : Actions[e].record \in Nat /\ day \in Nat
      BY <1>1, ActionsAssumption DEF TypeOK, Days
    <3>3. QED
      BY <2>1, <3>1, <3>2 DEF EntitledAfterRecord, book
  <2>4. LocksCovered'
    <3> DEFINE none == [s \in Strategies |-> 0]
    <3>1. \A a \in Accounts : \A i \in Instruments : locked'[a][i] = 0
      BY <2>1
    <3>2. \A i \in Instruments : [s \in Strategies |-> locked'[s][i]] = none
      BY <3>1, IndexSets
    <3>3. none \in [Strategies -> Int] /\ \A s \in Strategies : none[s] = 0
      OBVIOUS
    <3> HIDE DEF none
    <3>4. Total(none) = 0
      BY <3>3, TotalZero
    <3>5. \A a \in Accounts : \A i \in Instruments : locked'[a][i] <= shares'[a][i]
      BY <1>1 DEF TypeInv, LocksHeld
    <3>6. ASSUME NEW i \in Instruments
          PROVE  locked'[Master][i] <= Total([s \in Strategies |-> locked'[s][i]])
      <4>1. locked'[Master][i] = 0
        BY <3>1, IndexSets
      <4>2. Total([s \in Strategies |-> locked'[s][i]]) = 0
        BY <3>2, <3>4, Zenon
      <4>3. QED
        BY <4>1, <4>2
    <3>7. QED
      BY <3>5, <3>6 DEF LocksCovered
  <2>5. QED
    BY <1>1, <2>2, <2>3, <2>4 DEF RecInv
<1>5. QED
  BY <1>2, <1>3, <1>4

\* The master buys the sum of the parts and pays the sum of the cost shares.
LEMMA BuyRecInv ==
  ASSUME RecInv, NEW i \in Instruments, NEW slip \in Slippage,
         NEW fill \in 0 .. EndOf("buy", i), ExecuteBuy(i, fill, slip)
  PROVE  RecInv'
<1> DEFINE offered == Allocation(fill, residual["buy"][i], LotSize[i])
           price == RefPrice(i) + slip
           bought == [s \in Strategies |-> Affordable(s, i, offered[s], price)]
           actual == Total(bought)
           commission == Commission(actual * price)
           tax == (actual * price) \div BuyTaxPer
           fees == CostShare(commission, bought)
           taxes == CostShare(tax, bought)
           cost(s) == bought[s] * price + fees[s] + taxes[s]
           total == actual * price + commission + tax
           costs == [s \in Strategies |-> cost(s)]
           part == [a \in Accounts |-> Split(bought)[a]]
           paid == [a \in Accounts |-> -Split(costs)[a]]
           lock == [a \in Accounts |-> Locking(i) * Split(bought)[a]]
           booked == /\ shares' = [a \in Accounts |->
                            [shares[a] EXCEPT ![i] = @ + Split(bought)[a]]]
                     /\ locked' = [a \in Accounts |->
                            [locked[a] EXCEPT ![i] = @ + Locking(i) * Split(bought)[a]]]
                     /\ cash' = [a \in Accounts |->
                            cash[a] - IF a = Master THEN total ELSE cost(a)]
                     /\ queue' = queue \ {i}
                     /\ UNCHANGED <<day, pc, outcome, due, pending, receivable, book,
                                    money, residual, crosses>>
<1>1. TypeInv' /\ TypeOK' /\ TypeOK
  BY BuyTypeInv DEF RecInv, TypeInv
<1>2. bought \in [Strategies -> Nat]
  <2>1. offered \in [Strategies -> Nat]
    <3>1. "buy" \in Sides /\ LotSize[i] \in Nat \ {0}
      BY SizesAssumption DEF Sides
    <3>2. QED
      BY <1>1, <3>1, AllocationType
  <2> HIDE DEF offered, price
  <2>2. \A s \in Strategies : Affordable(s, i, offered[s], price) \in Nat
    BY <2>1, AffordableType
  <2>3. QED
    BY <2>2
<1>3. (\E r \in {"sleeve_overdrawn", "master_overdrawn"} : Abort(r)) \/ booked
  BY DEF ExecuteBuy
<1>4. CASE \E r \in {"sleeve_overdrawn", "master_overdrawn"} : Abort(r)
  BY <1>4, AbortRecInv DEF Outcomes, BookingFailures
<1>5. CASE booked
  <2>1. price \in Int /\ BuyTaxPer \in Nat \ {0} /\ Locking(i) \in {0, 1}
    BY <1>1, ConfigAssumption, PriceTypes
  <2> HIDE DEF bought, price
  <2>2. actual \in Nat /\ commission \in Int /\ tax \in Int
    BY <1>2, <2>1, SplitTypes
  <2>3. actual = 0 => commission = 0 /\ tax = 0
    BY <2>1, NoFillNoFees
  <2>4. fees \in [Strategies -> Int] /\ taxes \in [Strategies -> Int]
        /\ Total(fees) = commission /\ Total(taxes) = tax
    <3> HIDE DEF commission, tax
    <3> QED
      BY <1>2, <2>2, <2>3, FeesTotal
  <2>5. costs \in [Strategies -> Int] /\ Total(costs) = total
    <3> DEFINE value == [s \in Strategies |-> bought[s] * price]
    <3>1. bought \in [Strategies -> Int] /\ IsFiniteSet(Strategies)
      BY <1>2, IndexSets
    <3>2. value \in [Strategies -> Int] /\ \A s \in Strategies : value[s] = bought[s] * price
      BY <2>1, <3>1
    <3>3. \A s \in Strategies : costs[s] = value[s] + fees[s] + taxes[s]
      OBVIOUS
    <3>4. costs \in [Strategies -> Int]
      <4>1. \A s \in Strategies : value[s] + fees[s] + taxes[s] \in Int
        <5> HIDE DEF fees, taxes, value
        <5> QED
          BY <2>4, <3>2
      <4>2. costs = [s \in Strategies |-> value[s] + fees[s] + taxes[s]]
        OBVIOUS
      <4> HIDE DEF costs, fees, taxes, value
      <4>3. QED
        BY <4>1, <4>2
    <3> HIDE DEF costs, cost, commission, tax, fees, taxes, value
    <3>5. Total(value) = Total(bought) * price
      BY <2>1, <3>1, <3>2, TotalScale
    <3>6. Total(costs) = Total(value) + Total(fees) + Total(taxes)
      BY <2>4, <3>2, <3>3, <3>4, OrderTotal
    <3>7. QED
      BY <2>4, <3>4, <3>5, <3>6
  <2>6. /\ Split(costs) \in [Accounts -> Int] /\ Split(costs)[Master] = Total(costs)
        /\ \A s \in Strategies : Split(costs)[s] = costs[s]
    <3> HIDE DEF costs
    <3> QED
      BY <2>5, SplitTotal
  <2>7. \A a \in Accounts : cash'[a] = cash[a] + paid[a]
    <3>1. \A a \in Accounts : cash'[a] = cash[a] - IF a = Master THEN total ELSE costs[a]
      BY <1>5 DEF Accounts
    <3>2. \A a \in Accounts : cash[a] \in Int
      BY <1>1 DEF TypeOK
    <3>3. \A a \in Accounts : paid[a] = -(IF a = Master THEN total ELSE costs[a])
      BY <2>5, <2>6 DEF Accounts
    <3>4. \A a \in Accounts : (IF a = Master THEN total ELSE costs[a]) \in Int
      <4>1. Total(costs) \in Int
        BY <2>6, IndexSets
      <4> HIDE DEF total, costs
      <4>2. QED
        BY <2>5, <4>1 DEF Accounts
    <3> HIDE DEF paid, total, costs
    <3>5. QED
      BY <3>1, <3>2, <3>3, <3>4
  <2>8. paid \in [Accounts -> Int] /\ paid[Master] = Total([s \in Strategies |-> paid[s]])
    <3> HIDE DEF costs
    <3>1. paid \in [Accounts -> Int] /\ paid[Master] = -Total(costs)
      BY <2>6, IndexSets
    <3>2. [s \in Strategies |-> paid[s]] = [s \in Strategies |-> -costs[s]]
      BY <2>6, IndexSets
    <3>3. Total([s \in Strategies |-> -costs[s]]) = -Total(costs)
      BY <2>5, IndexSets, TotalNegated
    <3>4. QED
      BY <3>1, <3>2, <3>3
  <2>9. /\ Split(bought) \in [Accounts -> Int] /\ Split(bought)[Master] = Total(bought)
        /\ \A s \in Strategies : Split(bought)[s] = bought[s]
        /\ bought \in [Strategies -> Int]
    <3>1. bought \in [Strategies -> Int]
      BY <1>2
    <3>2. QED
      BY <3>1, SplitTotal
  <2>10. part \in [Accounts -> Int] /\ part[Master] = Total([s \in Strategies |-> part[s]])
    <3>1. part \in [Accounts -> Int] /\ part[Master] = Total(bought)
      BY <2>9, IndexSets
    <3>2. [s \in Strategies |-> part[s]] = bought
      BY <2>9, IndexSets
    <3>3. QED
      BY <3>1, <3>2
  <2>11. \A a \in Accounts : \A j \in Instruments :
             shares'[a][j] = shares[a][j] + IF j = i THEN part[a] ELSE 0
    <3>1. shares' = [a \in Accounts |-> [shares[a] EXCEPT ![i] = @ + part[a]]]
      BY <1>5
    <3> HIDE DEF part
    <3>2. QED
      BY <1>1, <2>10, <3>1 DEF TypeOK
  <2> DEFINE delay == Locking(i)
  <2>12. lock \in [Accounts -> Int] /\ lock[Master] = Total([s \in Strategies |-> lock[s]])
    <3>1. delay \in Int /\ \A a \in Accounts : lock[a] = delay * Split(bought)[a]
      BY <2>1
    <3> DEFINE g == [s \in Strategies |-> lock[s]]
    <3> HIDE DEF delay
    <3>2. \A a \in Accounts : delay * Split(bought)[a] \in Int
      BY <2>9, <3>1
    <3>3. lock \in [Accounts -> Int]
      BY <3>1, <3>2 DEF delay
    <3>4. \A s \in Strategies : delay * bought[s] = bought[s] * delay
      BY <2>9, <3>1
    <3>5. g \in [Strategies -> Int] /\ \A s \in Strategies : g[s] = bought[s] * delay
      <4> HIDE DEF lock
      <4> QED
        BY <2>9, <3>1, <3>3, <3>4, IndexSets
    <3>6. lock[Master] = delay * Total(bought)
      <4> HIDE DEF lock
      <4> QED
        BY <2>9, <3>1, IndexSets
    <3> HIDE DEF g, lock
    <3>7. Total(g) = Total(bought) * delay
      <4>1. bought \in [Strategies -> Int] /\ delay \in Int /\ IsFiniteSet(Strategies)
        BY <2>9, <3>1, IndexSets
      <4>2. QED
        BY <3>5, <4>1, TotalScale
    <3>8. delay * Total(bought) = Total(bought) * delay
      BY <2>2, <3>1
    <3>9. QED
      BY <3>3, <3>6, <3>7, <3>8 DEF g
  <2>13. \A a \in Accounts : \A j \in Instruments :
             locked'[a][j] = locked[a][j] + IF j = i THEN lock[a] ELSE 0
    <3>1. locked' = [a \in Accounts |-> [locked[a] EXCEPT ![i] = @ + lock[a]]]
      BY <1>5
    <3> HIDE DEF lock
    <3>2. QED
      BY <1>1, <2>12, <3>1 DEF TypeOK
  <2> HIDE DEF part, paid, lock
  <2>14. PositionsReconcile'
    BY <1>1, <2>10, <2>11, PositionsInStep
  <2>15. CashReconcile'
    BY <1>1, <2>7, <2>8, CashInStep
  <2>16. LocksCovered'
    <3>1. lock[Master] <= Total([s \in Strategies |-> lock[s]])
      BY <2>12, IndexSets
    <3>2. QED
      BY <1>1, <2>12, <2>13, <3>1, LocksInStep
  <2>17. ReceivablesReconcile' /\ EntitlementsReconcile' /\ EntitledAfterRecord'
         /\ OwedWhereEntitled'
    BY <1>5 DEF RecInv, ReceivablesReconcile, EntitlementsReconcile,
                EntitledAfterRecord, OwedWhereEntitled, BeforeClose, book
  <2>18. QED
    BY <1>1, <2>14, <2>15, <2>16, <2>17 DEF RecInv
<1>6. QED
  BY <1>3, <1>4, <1>5

\* Disposing of a delisted position: it was in step, and it goes, or stays,
\* in every account, each paid the same per share.
LEMMA DelistRecInv ==
  ASSUME RecInv, NEW i \in Instruments, Delist(i)
  PROVE  RecInv'
<1> DEFINE unit == (mark[i] * RecoveryNum) \div RecoveryDen
           rate == IF DelistingPolicy = "cash_settle_last_close" THEN unit ELSE 0
           held == [s \in Strategies |-> shares[s][i]]
           paid == [a \in Accounts |-> Settlement(a, i)]
           gets == [s \in Strategies |-> paid[s]]
<1>1. TypeInv' /\ TypeOK' /\ TypeOK /\ TypeInv
  BY DelistTypeInv DEF RecInv, TypeInv
<1>2. /\ shares' = [a \in Accounts |-> [shares[a] EXCEPT ![i] = Kept(a, i)]]
      /\ locked' = [a \in Accounts |->
                       [locked[a] EXCEPT ![i] = MinOf(@, Kept(a, i))]]
      /\ cash' = [a \in Accounts |-> cash[a] + Settlement(a, i)]
      /\ UNCHANGED <<day, pc, receivable, entitled>>
  BY DEF Delist
<1>3. held \in [Strategies -> Int] /\ shares[Master][i] = Total(held)
      /\ IsFiniteSet(Strategies)
  BY <1>1, IndexSets DEF TypeOK, RecInv, PositionsReconcile
<1>4. rate \in Int /\ \A a \in Accounts : Settlement(a, i) = shares[a][i] * rate
  <2>1. mark[i] * RecoveryNum \in Nat /\ RecoveryDen \in Nat \ {0}
    BY <1>1, ConfigAssumption DEF TypeOK
  <2>2. unit \in Int
    BY <2>1
  <2>3. \A a \in Accounts : shares[a][i] \in Nat /\ shares[a][i] * 0 = 0
    BY <1>1 DEF TypeOK
  <2>4. CASE DelistingPolicy = "cash_settle_last_close"
    BY <2>2, <2>4 DEF Settlement
  <2>5. CASE DelistingPolicy # "cash_settle_last_close"
    BY <2>3, <2>5 DEF Settlement
  <2>6. QED
    BY <2>4, <2>5
<1> HIDE DEF unit, rate
<1>5. CashReconcile'
  <2>1. paid \in [Accounts -> Int]
    BY <1>1, DisposalTypes
  <2>2. gets \in [Strategies -> Int] /\ \A s \in Strategies : gets[s] = held[s] * rate
    BY <1>4, <2>1, IndexSets
  <2>3. paid[Master] = shares[Master][i] * rate
    BY <1>4, IndexSets
  <2>4. \A a \in Accounts : cash'[a] = cash[a] + paid[a]
    BY <1>2
  <2> HIDE DEF gets, held
  <2>5. Total(gets) = Total(held) * rate
    BY <1>3, <1>4, <2>2, TotalScale
  <2>6. paid[Master] = Total(gets)
    BY <1>3, <2>3, <2>5
  <2>7. paid[Master] = Total([s \in Strategies |-> paid[s]])
    BY <2>6 DEF gets
  <2> HIDE DEF paid
  <2>8. QED
    BY <1>1, <2>1, <2>4, <2>7, CashInStep
<1>6. CASE DelistingPolicy = "carry_last_mark"
  <2>1. \A a \in Accounts : Kept(a, i) = shares[a][i]
    BY <1>6 DEF Kept
  <2>2. \A a \in Accounts : MinOf(locked[a][i], shares[a][i]) = locked[a][i]
    BY <1>1 DEF TypeInv, LocksHeld, MinOf
  <2>3. \A a \in Accounts : \A j \in Instruments :
            shares'[a][j] = shares[a][j] /\ locked'[a][j] = locked[a][j]
    BY <1>1, <1>2, <2>1, <2>2 DEF TypeOK
  <2>4. \A j \in Instruments :
            /\ [s \in Strategies |-> shares'[s][j]] = [s \in Strategies |-> shares[s][j]]
            /\ [s \in Strategies |-> locked'[s][j]] = [s \in Strategies |-> locked[s][j]]
    <3>1. ASSUME NEW j \in Instruments, NEW s \in Strategies
          PROVE  shares'[s][j] = shares[s][j] /\ locked'[s][j] = locked[s][j]
      BY <2>3, IndexSets
    <3>2. QED
      BY <3>1
  <2>5. PositionsReconcile' /\ LocksCovered'
    BY <2>3, <2>4, IndexSets DEF RecInv, PositionsReconcile, LocksCovered
  <2>6. QED
    BY <1>1, <1>2, <1>5, <2>5 DEF RecInv, ReceivablesReconcile, EntitlementsReconcile,
          EntitledAfterRecord, OwedWhereEntitled, BeforeClose
<1>7. CASE DelistingPolicy # "carry_last_mark"
  <2> DEFINE none == [s \in Strategies |-> 0]
  <2>1. \A a \in Accounts : Kept(a, i) = 0
    BY <1>7 DEF Kept
  <2>2. \A a \in Accounts : MinOf(locked[a][i], 0) = 0
    BY <1>1 DEF TypeOK, MinOf
  <2>3. \A a \in Accounts : \A j \in Instruments :
            /\ shares'[a][j] = IF j = i THEN 0 ELSE shares[a][j]
            /\ locked'[a][j] = IF j = i THEN 0 ELSE locked[a][j]
    BY <1>1, <1>2, <2>1, <2>2 DEF TypeOK
  <2>4. none \in [Strategies -> Int] /\ \A s \in Strategies : none[s] = 0
    OBVIOUS
  <2> HIDE DEF none
  <2>5. Total(none) = 0
    BY <2>4, TotalZero
  <2>6. ASSUME NEW j \in Instruments
        PROVE  /\ shares'[Master][j] = Total([s \in Strategies |-> shares'[s][j]])
               /\ locked'[Master][j] <= Total([s \in Strategies |-> locked'[s][j]])
    <3>1. CASE j = i
      <4>1. /\ [s \in Strategies |-> shares'[s][j]] = none
            /\ [s \in Strategies |-> locked'[s][j]] = none
        BY <2>3, <3>1, IndexSets DEF none
      <4>2. shares'[Master][j] = 0 /\ locked'[Master][j] = 0
        BY <2>3, <3>1, IndexSets
      <4>3. QED
        BY <2>5, <4>1, <4>2
    <3>2. CASE j # i
      <4>1. /\ [s \in Strategies |-> shares'[s][j]] = [s \in Strategies |-> shares[s][j]]
            /\ [s \in Strategies |-> locked'[s][j]] = [s \in Strategies |-> locked[s][j]]
        BY <2>3, <3>2, IndexSets
      <4>2. shares'[Master][j] = shares[Master][j] /\ locked'[Master][j] = locked[Master][j]
        BY <2>3, <3>2, IndexSets
      <4>3. QED
        BY <4>1, <4>2 DEF RecInv, PositionsReconcile, LocksCovered
    <3>3. QED
      BY <3>1, <3>2
  <2>7. PositionsReconcile'
    BY <2>6 DEF PositionsReconcile
  <2>8. LocksCovered'
    BY <1>1, <2>6 DEF LocksCovered, TypeInv, LocksHeld
  <2>9. QED
    BY <1>1, <1>2, <1>5, <2>7, <2>8 DEF RecInv, ReceivablesReconcile,
          EntitlementsReconcile, EntitledAfterRecord, OwedWhereEntitled, BeforeClose
<1>8. QED
  BY <1>6, <1>7
-----------------------------------------------------------------------------
\* Every step keeps the master in step with its sleeves.
LEMMA StepRecInv ==
  ASSUME RecInv, Next
  PROVE  RecInv'
<1>0. TypeInv'
  BY StepTypeInv DEF RecInv
<1>1. CASE \E e \in Events : AccrueDividend(e) \/ PayDividend(e) \/ AdjustShares(e)
  BY <1>1, AccrueRecInv, PayRecInv, AdjustRecInv
<1>2. CASE \/ ActionsDone \/ NoBatch \/ SellsDone \/ CrossesDone \/ BuysDone
           \/ DelistingsDone \/ Finished \/ Decide \/ PlanSells \/ PlanBuys
           \/ NetDemands \/ DropCrosses \/ AcceptCrosses
  BY <1>0, <1>2, QuietSteps
<1>3. CASE \E i \in Instruments : \E slip \in Slippage :
              \E fill \in 0 .. EndOf("sell", i) : ExecuteSell(i, fill, slip)
  BY <1>3, SellRecInv
<1>4. CASE \E i \in Instruments : \E slip \in Slippage :
              \E fill \in 0 .. EndOf("buy", i) : ExecuteBuy(i, fill, slip)
  BY <1>4, BuyRecInv
<1>5. CASE \E i \in Instruments : \E seller \in Strategies : \E buyer \in Strategies :
               SettleCross(i, seller, buyer)
  BY <1>5, SettleRecInv
<1>6. CASE MarkToMarket
  BY <1>6, MarkRecInv
<1>7. CASE \E i \in Instruments : Delist(i)
  BY <1>7, DelistRecInv
<1>8. CASE RecordDay
  BY <1>8, RecordRecInv
<1>9. QED
  BY <1>1, <1>2, <1>3, <1>4, <1>5, <1>6, <1>7, <1>8 DEF Next

\* A step that changes no variable keeps the invariant.
LEMMA StutterRecInv ==
  ASSUME RecInv, UNCHANGED vars
  PROVE  RecInv'
<1>1. TypeInv'
  BY StutterTypeInv DEF RecInv
<1>2. UNCHANGED <<day, cash, receivable, shares, locked, entitled>> /\ pc' = pc
  BY DEF vars, ledger, book
<1>3. QED
  BY <1>1, <1>2, Quiet DEF BeforeClose

\* RecInv is inductive over every step of the ledger.
LEMMA RecInvariant == Spec => []RecInv
<1>1. RecInv /\ [Next]_vars => RecInv'
  BY StepRecInv, StutterRecInv
<1>2. QED
  BY <1>1, InitRecInv, PTL DEF Spec

\* What MasterAccount.reconcile tests of the positions holds after every step:
\* the master holds what its sleeves hold together, however fills, crosses,
\* corporate actions and disposals were split between them.
THEOREM PositionsReconciled == Spec => []PositionsReconcile
<1>1. RecInv => PositionsReconcile
  BY DEF RecInv
<1>2. QED
  BY <1>1, RecInvariant, PTL

\* The same for the cash: no fee, tax, dividend or settlement is charged or
\* credited to the sleeves in other than the amount the master sees.
THEOREM CashReconciled == Spec => []CashReconcile
<1>1. RecInv => CashReconcile
  BY DEF RecInv
<1>2. QED
  BY <1>1, RecInvariant, PTL

\* The same for the dividends receivable of every event.
THEOREM ReceivablesReconciled == Spec => []ReceivablesReconcile
<1>1. RecInv => ReceivablesReconcile
  BY DEF RecInv
<1>2. QED
  BY <1>1, RecInvariant, PTL

\* A purchase is locked for the day in the sleeve and in the master alike, a
\* cross in the buying sleeve only: the master never holds back more than its
\* sleeves do, and nobody holds back what is no longer there.
THEOREM LocksStayCovered == Spec => []LocksCovered
<1>1. RecInv => LocksCovered
  BY DEF RecInv
<1>2. QED
  BY <1>1, RecInvariant, PTL

\* Whatever each sleeve may sell of an instrument, the master may sell at once.
LEMMA MasterCoversSales ==
  ASSUME RecInv, NEW i \in Instruments, NEW sold \in [Strategies -> Nat],
         \A s \in Strategies : sold[s] <= Sellable(s, i)
  PROVE  Total(sold) <= Sellable(Master, i)
<1> DEFINE held == [s \in Strategies |-> shares[s][i]]
           back == [s \in Strategies |-> locked[s][i]]
           free == [s \in Strategies |-> held[s] - back[s]]
<1>1. /\ held \in [Strategies -> Int] /\ back \in [Strategies -> Int]
      /\ IsFiniteSet(Strategies) /\ sold \in [Strategies -> Int]
      /\ shares[Master][i] \in Int /\ locked[Master][i] \in Int
  BY IndexSets DEF RecInv, TypeInv, TypeOK
<1>2. free \in [Strategies -> Int] /\ \A s \in Strategies : free[s] = held[s] - back[s]
  BY <1>1
<1>3. \A s \in Strategies : sold[s] <= free[s]
  BY DEF Sellable
<1>4. shares[Master][i] = Total(held) /\ locked[Master][i] <= Total(back)
  BY DEF RecInv, PositionsReconcile, LocksCovered
<1> HIDE DEF held, back, free
<1>5. Total(free) = Total(held) - Total(back)
  BY <1>1, <1>2, TotalSubtract
<1>6. Total(sold) <= Total(free)
  BY <1>1, <1>2, <1>3, TotalMonotone
<1>7. Total(sold) \in Int /\ Total(free) \in Int /\ Total(back) \in Int
  BY <1>1, <1>2, TotalType
<1>8. QED
  BY <1>1, <1>4, <1>5, <1>6, <1>7 DEF Sellable

\* So the check that the master holds enough never fails once the sleeves'
\* have passed: a market sale is never refused for the master's sake.
THEOREM MasterNeverOversold == Spec => [](outcome # "master_oversold")
<1> DEFINE Fine == outcome # "master_oversold"
<1>1. Init => Fine
  BY DEF Init
<1>2. ASSUME RecInv, Fine, Next PROVE Fine'
  <2>1. CASE \E i \in Instruments : \E slip \in Slippage :
                \E fill \in 0 .. EndOf("sell", i) : ExecuteSell(i, fill, slip)
    <3>1. PICK i \in Instruments, slip \in Slippage :
              \E fill \in 0 .. EndOf("sell", i) : ExecuteSell(i, fill, slip)
      BY <2>1
    <3>2. PICK fill \in 0 .. EndOf("sell", i) : ExecuteSell(i, fill, slip)
      BY <3>1
    <3> DEFINE sold == Allocation(fill, residual["sell"][i], SellLot(i))
    <3>3. sold \in [Strategies -> Nat]
      BY <1>2, AllocationType, SellLotType DEF Sides, RecInv, TypeInv
    <3>4. CASE \E s \in Strategies : sold[s] > Sellable(s, i)
      BY <1>2, <3>2, <3>4 DEF ExecuteSell, Abort
    <3>5. CASE ~\E s \in Strategies : sold[s] > Sellable(s, i)
      <4>1. \A s \in Strategies : Sellable(s, i) \in Nat
        BY <1>2, SellableType, IndexSets DEF RecInv, TypeInv
      <4>2. Sellable(Master, i) \in Nat
        BY <1>2, SellableType, IndexSets DEF RecInv, TypeInv
      <4>3. Total(sold) \in Nat
        BY <3>3, TotalNat, IndexSets
      <4>4. ~(Total(sold) > Sellable(Master, i))
        <5> HIDE DEF sold
        <5>1. \A s \in Strategies : sold[s] <= Sellable(s, i)
          BY <3>3, <3>5, <4>1
        <5>2. Total(sold) <= Sellable(Master, i)
          BY <1>2, <3>3, <5>1, MasterCoversSales
        <5>3. QED
          BY <4>2, <4>3, <5>2
      <4>5. outcome' = outcome
        BY <3>2, <3>5, <4>4 DEF ExecuteSell
      <4>6. QED
        BY <1>2, <4>5
    <3>6. QED
      BY <3>4, <3>5
  <2>2. CASE \E i \in Instruments : \E slip \in Slippage :
                \E fill \in 0 .. EndOf("buy", i) : ExecuteBuy(i, fill, slip)
    <3>1. PICK i \in Instruments, slip \in Slippage :
              \E fill \in 0 .. EndOf("buy", i) : ExecuteBuy(i, fill, slip)
      BY <2>2
    <3>2. PICK fill \in 0 .. EndOf("buy", i) : ExecuteBuy(i, fill, slip)
      BY <3>1
    <3>3. \/ Abort("sleeve_overdrawn") \/ Abort("master_overdrawn")
          \/ outcome' = outcome
      BY <3>2, Zenon DEF ExecuteBuy
    <3>4. QED
      BY <1>2, <3>3 DEF Abort
  <2>3. CASE \E e \in Events : AccrueDividend(e) \/ PayDividend(e) \/ AdjustShares(e)
    BY <1>2, <2>3 DEF AccrueDividend, PayDividend, AdjustShares, Abort
  <2>4. CASE \/ ActionsDone \/ NoBatch \/ SellsDone \/ CrossesDone \/ BuysDone
             \/ DelistingsDone \/ PlanBuys \/ NetDemands \/ DropCrosses
    BY <1>2, <2>4 DEF ActionsDone, NoBatch, SellsDone, CrossesDone, BuysDone,
                      DelistingsDone, PlanBuys, NetDemands, DropCrosses
  <2>5. CASE Finished
    BY <1>2, <2>5 DEF Finished, vars
  <2>6. CASE Decide \/ PlanSells \/ AcceptCrosses \/ MarkToMarket \/ RecordDay
    BY <1>2, <2>6 DEF Decide, PlanSells, AcceptCrosses, MarkToMarket, RecordDay, Abort
  <2>7. CASE \E i \in Instruments : \E seller \in Strategies : \E buyer \in Strategies :
                 SettleCross(i, seller, buyer)
    BY <1>2, <2>7 DEF SettleCross
  <2>8. CASE \E i \in Instruments : Delist(i)
    BY <1>2, <2>8 DEF Delist
  <2>9. QED
    BY <1>2, <2>1, <2>2, <2>3, <2>4, <2>5, <2>6, <2>7, <2>8 DEF Next
<1>3. RecInv /\ Fine /\ [Next]_vars => Fine'
  <2>1. CASE UNCHANGED vars
    BY <2>1 DEF vars
  <2>2. QED
    BY <1>2, <2>1
<1> HIDE DEF Fine
<1>4. Spec => []Fine
  BY <1>1, <1>3, RecInvariant, PTL DEF Spec
<1>5. QED
  BY <1>4 DEF Fine

-----------------------------------------------------------------------------
(***************************************************************************)
(* A planned sale is never refused: from the plan to the booking, what a   *)
(* sleeve is still to sell, to the market or in a cross, is no more than   *)
(* it may sell.                                                            *)
(***************************************************************************)

PositionFailures == {"sleeve_oversold", "master_oversold", "cross_exceeds_sellable"}

\* What strategy s is still to sell of instrument i on the market.
Ordered(s, i) == IF i \in queue THEN residual["sell"][i][s] ELSE 0

SalesPlanned ==
    /\ pc = "demand" => \A s \in Strategies : \A i \in Instruments :
                            residual["sell"][i][s] <= Sellable(s, i)
    /\ pc = "sell" => \A s \in Strategies : \A i \in Instruments :
                            SoldIn(i, s) + Ordered(s, i) <= Sellable(s, i)
    /\ pc = "cross" => \A s \in Strategies : \A i \in Instruments :
                            SoldIn(i, s) <= Sellable(s, i)

SalesInv == SalesPlanned /\ outcome \notin PositionFailures

\* Rounding down to whole lots gives no more.
LEMMA FloorToBelow ==
  ASSUME NEW n \in Nat, NEW unit \in Nat \ {0}
  PROVE  FloorTo(n, unit) <= n
<1>1. PICK k \in Int : k = n \div unit /\ k * unit <= n
  OBVIOUS
<1>2. QED
  BY <1>1 DEF FloorTo

\* A strategy plans to sell what it may sell at most.
LEMMA SellDemandCovered ==
  ASSUME TypeOK, LocksHeld, NEW s \in Strategies, NEW i \in Instruments
  PROVE  SellDemand(s, i) <= Sellable(s, i)
<1>0. Sellable(s, i) \in Nat
  BY SellableType, IndexSets
<1>1. CASE i \notin Considered(s) \/ ~Tradable(i)
  BY <1>0, <1>1 DEF SellDemand
<1>2. CASE i \in Considered(s) /\ Tradable(i)
  <2> DEFINE able == MinOf(MaxOf(0, shares[s][i] - Desired(s, i)), Sellable(s, i))
  <2>1. Desired(s, i) \in Int /\ shares[s][i] \in Nat
    <3>1. Desired(s, i) \in Int
      BY <1>2, DesiredType
    <3>2. QED
      BY <3>1, IndexSets DEF TypeOK
  <2>2. able \in Nat /\ able <= Sellable(s, i)
    BY <1>0, <2>1 DEF MaxOf, MinOf
  <2>3. SellDemand(s, i) = IF Liquidates(s) THEN able ELSE FloorTo(able, LotSize[i])
    BY <1>2 DEF SellDemand
  <2> HIDE DEF able
  <2>4. FloorTo(able, LotSize[i]) \in Nat /\ FloorTo(able, LotSize[i]) <= able
    BY <2>2, FloorToType, FloorToBelow, PriceTypes
  <2>5. QED
    BY <1>0, <2>2, <2>3, <2>4
<1>3. QED
  BY <1>1, <1>2

\* What a sleeve sells in crosses is a quantity.
LEMMA SoldInType ==
  ASSUME TypeOK, NEW i \in Instruments, NEW s \in Strategies
  PROVE  SoldIn(i, s) \in Nat
<1>1. crosses[i][s] \in [Strategies -> Nat]
  BY DEF TypeOK
<1>2. QED
  BY <1>1, TotalNat, IndexSets DEF SoldIn

\* Steps that neither plan nor book a sale.
LEMMA SalesElsewhere ==
  ASSUME SalesInv, pc' \notin {"demand", "sell", "cross"}, outcome' \notin PositionFailures
  PROVE  SalesInv'
BY DEF SalesInv, SalesPlanned

\* Planning asks a sleeve for no more than it may sell.
LEMMA PlanSellsSalesInv ==
  ASSUME TypeInv, SalesInv, PlanSells
  PROVE  SalesInv'
<1>1. CASE pc' = "aborted"
  <2>1. outcome' = "unvalued_holding"
    BY <1>1 DEF PlanSells, Abort
  <2>2. QED
    BY <1>1, <2>1, SalesElsewhere DEF PositionFailures
<1>2. CASE pc' # "aborted"
  <2>1. /\ pc' = "demand" /\ UNCHANGED <<shares, locked, outcome>>
        /\ residual' = [residual EXCEPT !["sell"] =
              [i \in Instruments |-> [s \in Strategies |-> SellDemand(s, i)]]]
    BY <1>2 DEF PlanSells, Abort, ledger
  <2>2. ASSUME NEW s \in Strategies, NEW i \in Instruments
        PROVE  residual'["sell"][i][s] <= Sellable(s, i)'
    <3>1. residual'["sell"][i][s] = SellDemand(s, i)
      BY <2>1 DEF TypeInv, TypeOK, Sides
    <3>2. Sellable(s, i)' = Sellable(s, i)
      BY <2>1 DEF Sellable
    <3>3. QED
      BY <3>1, <3>2, SellDemandCovered DEF TypeInv
  <2>3. QED
    BY <2>1, <2>2 DEF SalesInv, SalesPlanned
<1>3. QED
  BY <1>1, <1>2

\* Planning buys leaves the planned sales as they are.
LEMMA PlanBuysSalesInv ==
  ASSUME TypeInv, SalesInv, PlanBuys
  PROVE  SalesInv'
<1>1. /\ pc = "demand" /\ UNCHANGED <<pc, shares, locked, outcome>>
      /\ residual' = [residual EXCEPT !["buy"][First(queue)] =
                         [s \in Strategies |-> MaxOf(0, BuyQuantity(s, First(queue)))]]
  BY DEF PlanBuys, ledger
<1>2. residual'["sell"] = residual["sell"]
  BY <1>1 DEF TypeInv, TypeOK, Sides
<1>3. QED
  BY <1>1, <1>2 DEF SalesInv, SalesPlanned, Sellable

\* Netting splits what a sleeve sells between the crosses and the market.
LEMMA NetDemandsSalesInv ==
  ASSUME TypeInv, SalesInv, NetDemands
  PROVE  SalesInv'
<1>1. pc' = "sell" /\ UNCHANGED <<shares, locked, outcome>>
  BY DEF NetDemands, ledger
<1>2. ASSUME NEW s \in Strategies, NEW i \in Instruments
      PROVE  SoldIn(i, s)' + Ordered(s, i)' <= Sellable(s, i)'
  <2>1. PICK buy \in [Strategies -> Nat], sell \in [Strategies -> Nat] :
            buy = residual["buy"][i] /\ sell = residual["sell"][i]
    BY DEF TypeInv, TypeOK, Sides
  <2>2. SoldIn(i, s)' = Total([b \in Strategies |-> CrossQuantity(buy, sell, s, b)])
    <3>1. crosses'[i][s] = [b \in Strategies |-> CrossQuantity(buy, sell, s, b)]
      BY <2>1 DEF NetDemands
    <3>2. QED
      BY <3>1 DEF SoldIn
  <2>3. residual'["sell"][i][s] = Residual(sell, buy)[s]
    BY <2>1 DEF NetDemands
  <2>4. Total([b \in Strategies |-> CrossQuantity(buy, sell, s, b)])
          + Residual(sell, buy)[s] = sell[s]
    <3>1. /\ NumStrategies \in Nat /\ s \in 1 .. NumStrategies
          /\ buy \in [1 .. NumStrategies -> Nat] /\ sell \in [1 .. NumStrategies -> Nat]
      BY IndexSets
    <3>2. QED
      BY <3>1, CrossingConserves DEF Strategies
  <2>5. Residual(sell, buy)[s] \in Nat
    BY ResidualOf
  <2>6. Total([b \in Strategies |-> CrossQuantity(buy, sell, s, b)]) \in Nat
    <3> DEFINE row == [b \in Strategies |-> CrossQuantity(buy, sell, s, b)]
    <3>1. row \in [Strategies -> Nat]
      BY CrossQuantityType, IndexSets
    <3> HIDE DEF row
    <3>2. Total(row) \in Nat
      BY <3>1, TotalNat, IndexSets
    <3>3. QED
      BY <3>2 DEF row
  <2>7. sell[s] <= Sellable(s, i)
    BY <2>1 DEF SalesInv, SalesPlanned, NetDemands
  <2>8. Sellable(s, i)' = Sellable(s, i) /\ Sellable(s, i) \in Nat
    BY <1>1, SellableType, IndexSets DEF Sellable, TypeInv
  <2>9. PICK u \in Nat, v \in Nat, w \in Nat :
            /\ u = SoldIn(i, s)' /\ v = Residual(sell, buy)[s] /\ w = sell[s]
            /\ u + v = w
    BY <2>2, <2>4, <2>5, <2>6
  <2>10. Ordered(s, i)' = v \/ Ordered(s, i)' = 0
    BY <2>3, <2>9 DEF Ordered
  <2>11. QED
    BY <2>7, <2>8, <2>9, <2>10
<1>3. QED
  BY <1>1, <1>2 DEF SalesInv, SalesPlanned

\* A fill is split within what was ordered, so no check of it fails.
LEMMA SellSalesInv ==
  ASSUME RecInv, SalesInv, NEW i \in Instruments, NEW slip \in Slippage,
         NEW fill \in 0 .. EndOf("sell", i), ExecuteSell(i, fill, slip)
  PROVE  SalesInv'
<1> DEFINE sold == Allocation(fill, residual["sell"][i], SellLot(i))
<1>0. TypeInv /\ TypeOK /\ LocksHeld /\ pc = "sell" /\ i \in queue
  <2>1. TypeInv /\ TypeOK /\ LocksHeld /\ pc = "sell" /\ queue # {} /\ i = First(queue)
    BY DEF RecInv, TypeInv, ExecuteSell
  <2>2. queue \in SUBSET Nat
    BY <2>1, IndexSets DEF TypeOK
  <2>3. QED
    BY <2>1, <2>2, FirstMember
<1>1. sold \in [Strategies -> Nat]
  BY <1>0, AllocationType, SellLotType DEF Sides
<1>2. \A s \in Strategies : sold[s] <= residual["sell"][i][s]
  <2>1. residual["sell"][i] \in [Strategies -> Nat]
    BY <1>0 DEF TypeOK, Sides
  <2>2. fill \in 0 .. Total(residual["sell"][i])
    BY DEF EndOf
  <2>3. QED
    BY <2>1, <2>2, IndexSets, SellLotType, AllocationWithinDemand
<1>3. \A s \in Strategies : \A j \in Instruments :
         /\ SoldIn(j, s) \in Nat /\ Sellable(s, j) \in Nat
         /\ residual["sell"][j][s] \in Nat
         /\ SoldIn(j, s) + Ordered(s, j) <= Sellable(s, j)
  <2>1. \A s \in Strategies : \A j \in Instruments :
         /\ SoldIn(j, s) \in Nat /\ Sellable(s, j) \in Nat
    BY <1>0, SoldInType, SellableType, IndexSets
  <2>2. \A s \in Strategies : \A j \in Instruments : residual["sell"][j][s] \in Nat
    BY <1>0 DEF TypeOK, Sides
  <2>3. QED
    BY <1>0, <2>1, <2>2 DEF SalesInv, SalesPlanned
<1> HIDE DEF sold
<1>4. \A s \in Strategies : sold[s] + SoldIn(i, s) <= Sellable(s, i)
  <2>1. ASSUME NEW s \in Strategies PROVE sold[s] + SoldIn(i, s) <= Sellable(s, i)
    <3>1. PICK p \in Nat, q \in Nat, r \in Nat, w \in Nat :
             p = sold[s] /\ q = SoldIn(i, s) /\ r = residual["sell"][i][s]
             /\ w = Sellable(s, i)
      BY <1>1, <1>3
    <3>2. Ordered(s, i) = r
      BY <1>0, <3>1 DEF Ordered
    <3>3. q + r <= w /\ p <= r
      BY <1>2, <1>3, <3>1, <3>2
    <3>4. p + q <= w
      BY <3>3
    <3>5. QED
      BY <3>1, <3>4
  <2>2. QED
    BY <2>1
<1>5. \A s \in Strategies : sold[s] <= Sellable(s, i)
  <2>1. ASSUME NEW s \in Strategies PROVE sold[s] <= Sellable(s, i)
    <3>1. PICK p \in Nat, q \in Nat, w \in Nat :
             p = sold[s] /\ q = SoldIn(i, s) /\ w = Sellable(s, i)
      BY <1>1, <1>3
    <3>2. p + q <= w
      BY <1>4, <3>1
    <3>3. QED
      BY <3>1, <3>2
  <2>2. QED
    BY <2>1
<1>6. Total(sold) <= Sellable(Master, i)
  BY <1>1, <1>5, MasterCoversSales
<1>7. Total(sold) \in Nat /\ Sellable(Master, i) \in Nat
  BY <1>0, <1>1, TotalNat, SellableType, IndexSets
<1>8. ~ (\E s \in Strategies : sold[s] > Sellable(s, i)) /\ ~ (Total(sold) > Sellable(Master, i))
  BY <1>1, <1>3, <1>5, <1>6, <1>7
<1>9. /\ shares' = [a \in Accounts |-> [shares[a] EXCEPT ![i] = @ - Split(sold)[a]]]
      /\ queue' = queue \ {i}
      /\ UNCHANGED <<pc, outcome, locked, residual, crosses>>
  BY <1>8 DEF ExecuteSell, sold
<1>10. ASSUME NEW s \in Strategies, NEW j \in Instruments
       PROVE  SoldIn(j, s)' + Ordered(s, j)' <= Sellable(s, j)'
  <2>0. s \in Accounts /\ s # Master
    BY IndexSets
  <2>1. SoldIn(j, s)' = SoldIn(j, s)
    BY <1>9 DEF SoldIn
  <2>2. CASE j = i
    <3>1. PICK p \in Nat, q \in Nat, h \in Nat, l \in Nat :
             p = sold[s] /\ q = SoldIn(i, s) /\ h = shares[s][i] /\ l = locked[s][i]
      BY <1>0, <1>1, <1>3, <2>0 DEF TypeOK
    <3>2. Split(sold)[s] = p
      BY <2>0, <3>1 DEF Split
    <3>3. shares'[s][i] = h - p /\ locked'[s][i] = l
      BY <1>0, <1>9, <2>0, <3>1, <3>2 DEF TypeOK
    <3>4. p + q <= h - l
      BY <1>4, <3>1 DEF Sellable
    <3>5. Ordered(s, i)' = 0
      BY <1>9 DEF Ordered
    <3>6. SoldIn(i, s)' = q /\ Sellable(s, i)' = (h - p) - l
      BY <2>1, <2>2, <3>1, <3>3 DEF Sellable
    <3>7. q + 0 <= (h - p) - l
      BY <3>4
    <3>8. QED
      BY <2>2, <3>5, <3>6, <3>7
  <2>3. CASE j # i
    <3>1. shares'[s][j] = shares[s][j]
      BY <1>0, <1>9, <2>0, <2>3 DEF TypeOK
    <3>2. Sellable(s, j)' = Sellable(s, j)
      BY <1>9, <3>1 DEF Sellable
    <3>3. Ordered(s, j)' = Ordered(s, j)
      BY <1>9, <2>3 DEF Ordered
    <3>4. QED
      BY <1>3, <2>1, <3>2, <3>3
  <2>4. QED
    BY <2>2, <2>3
<1>11. QED
  BY <1>0, <1>9, <1>10 DEF SalesInv, SalesPlanned

\* After the last market sale only the crosses are still to be sold.
LEMMA SellsDoneSalesInv ==
  ASSUME TypeInv, SalesInv, SellsDone
  PROVE  SalesInv'
<1>1. /\ pc = "sell" /\ pc' = "cross" /\ queue = {}
      /\ UNCHANGED <<shares, locked, crosses, outcome>>
  BY DEF SellsDone, ledger, batch
<1>2. ASSUME NEW s \in Strategies, NEW i \in Instruments
      PROVE  SoldIn(i, s)' <= Sellable(s, i)'
  <2>1. SoldIn(i, s) \in Nat /\ Ordered(s, i) = 0
    BY <1>1, SoldInType DEF TypeInv, Ordered
  <2>2. SoldIn(i, s) + Ordered(s, i) <= Sellable(s, i)
    BY <1>1 DEF SalesInv, SalesPlanned
  <2>3. SoldIn(i, s) <= Sellable(s, i)
    BY <2>1, <2>2
  <2>4. QED
    BY <1>1, <2>3 DEF SoldIn, Sellable
<1>3. QED
  BY <1>1, <1>2 DEF SalesInv, SalesPlanned

\* Dropping crosses only leaves more to sell.
LEMMA DropSalesInv ==
  ASSUME TypeInv, SalesInv, DropCrosses
  PROVE  SalesInv'
<1>1. pc = "cross" /\ UNCHANGED <<pc, shares, locked, outcome>>
  BY DEF DropCrosses, ledger
<1>2. ASSUME NEW s \in Strategies, NEW i \in Instruments
      PROVE  SoldIn(i, s)' <= Sellable(s, i)'
  <2>1. PICK f \in [Strategies -> Int], g \in [Strategies -> Int] :
           /\ f = crosses[i][s] /\ g = crosses'[i][s]
           /\ \A b \in Strategies : g[b] <= f[b]
    <3>1. crosses[i][s] \in [Strategies -> Nat]
      BY DEF TypeInv, TypeOK
    <3>2. PICK negative : crosses'[i][s] =
             [b \in Strategies |-> IF b \in negative THEN 0 ELSE crosses[i][s][b]]
      BY DEF DropCrosses
    <3>3. crosses'[i][s] \in [Strategies -> Nat]
      BY <3>1, <3>2
    <3>4. \A b \in Strategies : crosses'[i][s][b] <= crosses[i][s][b]
      BY <3>1, <3>2
    <3>5. QED
      BY <3>1, <3>3, <3>4
  <2>2. Total(g) <= Total(f) /\ Total(g) \in Int /\ Total(f) \in Int
    BY <2>1, TotalMonotone, TotalType, IndexSets
  <2>3. SoldIn(i, s)' <= SoldIn(i, s) /\ SoldIn(i, s)' \in Int /\ SoldIn(i, s) \in Int
    BY <2>1, <2>2 DEF SoldIn
  <2>4. SoldIn(i, s) <= Sellable(s, i) /\ Sellable(s, i) \in Int
    BY <1>1, SellableType, IndexSets DEF SalesInv, SalesPlanned, TypeInv
  <2>5. Sellable(s, i)' = Sellable(s, i)
    BY <1>1 DEF Sellable
  <2>6. QED
    BY <2>3, <2>4, <2>5
<1>3. QED
  BY <1>1, <1>2 DEF SalesInv, SalesPlanned

\* The check of the crosses against the positions has nothing to refuse.
LEMMA AcceptSalesInv ==
  ASSUME TypeInv, SalesInv, AcceptCrosses
  PROVE  SalesInv'
<1>1. \A s \in Strategies : \A i \in Instruments :
         /\ SoldIn(i, s) \in Nat /\ Sellable(s, i) \in Nat
         /\ SoldIn(i, s) <= Sellable(s, i)
  BY SoldInType, SellableType, IndexSets
     DEF AcceptCrosses, SalesInv, SalesPlanned, TypeInv
<1>2. \A s \in Strategies : \A i \in Instruments : ~ (SoldIn(i, s) > Sellable(s, i))
  BY <1>1
<1>3. pc' = "settle" /\ outcome' = outcome
  BY <1>2 DEF AcceptCrosses
<1>4. QED
  BY <1>3, SalesElsewhere DEF SalesInv

\* SalesInv, action by action.
LEMMA StepSalesInv ==
  ASSUME RecInv, SalesInv, Next
  PROVE  SalesInv'
<1>0. TypeInv
  BY DEF RecInv
<1>1. CASE PlanSells \/ PlanBuys \/ NetDemands \/ SellsDone \/ DropCrosses \/ AcceptCrosses
  BY <1>0, <1>1, PlanSellsSalesInv, PlanBuysSalesInv, NetDemandsSalesInv,
     SellsDoneSalesInv, DropSalesInv, AcceptSalesInv
<1>2. CASE \E i \in Instruments : \E slip \in Slippage :
              \E fill \in 0 .. EndOf("sell", i) : ExecuteSell(i, fill, slip)
  BY <1>2, SellSalesInv
<1>3. CASE \E i \in Instruments : \E slip \in Slippage :
              \E fill \in 0 .. EndOf("buy", i) : ExecuteBuy(i, fill, slip)
  <2>1. PICK i \in Instruments, slip \in Slippage :
            \E fill \in 0 .. EndOf("buy", i) : ExecuteBuy(i, fill, slip)
    BY <1>3
  <2>2. PICK fill \in 0 .. EndOf("buy", i) : ExecuteBuy(i, fill, slip)
    BY <2>1
  <2>3. \/ Abort("sleeve_overdrawn") \/ Abort("master_overdrawn")
        \/ pc = "buy" /\ UNCHANGED <<pc, outcome>>
    BY <2>2, Zenon DEF ExecuteBuy
  <2>4. pc' \notin {"demand", "sell", "cross"} /\ outcome' \notin PositionFailures
    BY <2>3 DEF Abort, PositionFailures, SalesInv
  <2>5. QED
    BY <2>4, SalesElsewhere
<1>4. CASE \E e \in Events : AccrueDividend(e) \/ PayDividend(e) \/ AdjustShares(e)
  <2>1. pc' \notin {"demand", "sell", "cross"} /\ outcome' \notin PositionFailures
    BY <1>4 DEF AccrueDividend, PayDividend, AdjustShares, Item, Abort,
                PositionFailures, SalesInv
  <2>2. QED
    BY <2>1, SalesElsewhere
<1>5. CASE \/ ActionsDone \/ NoBatch \/ CrossesDone \/ BuysDone \/ DelistingsDone
           \/ Decide \/ MarkToMarket \/ RecordDay
  <2>1. pc' \notin {"demand", "sell", "cross"} /\ outcome' \notin PositionFailures
    BY <1>5 DEF ActionsDone, NoBatch, CrossesDone, BuysDone, DelistingsDone,
                Decide, MarkToMarket, RecordDay, Abort, PositionFailures, SalesInv
  <2>2. QED
    BY <2>1, SalesElsewhere
<1>6. CASE \E i \in Instruments : \E seller \in Strategies : \E buyer \in Strategies :
               SettleCross(i, seller, buyer)
  <2>1. pc' \notin {"demand", "sell", "cross"} /\ outcome' \notin PositionFailures
    BY <1>6 DEF SettleCross, SalesInv
  <2>2. QED
    BY <2>1, SalesElsewhere
<1>7. CASE \E i \in Instruments : Delist(i)
  <2>1. pc' \notin {"demand", "sell", "cross"} /\ outcome' \notin PositionFailures
    BY <1>7 DEF Delist, SalesInv
  <2>2. QED
    BY <2>1, SalesElsewhere
<1>8. CASE Finished
  <2>1. pc' \notin {"demand", "sell", "cross"} /\ outcome' \notin PositionFailures
    BY <1>8 DEF Finished, vars, SalesInv
  <2>2. QED
    BY <2>1, SalesElsewhere
<1>9. QED
  BY <1>1, <1>2, <1>3, <1>4, <1>5, <1>6, <1>7, <1>8 DEF Next

\* The positions half of NoBookingFailure, for any constants: once planned, no
\* sale is refused, be it of a sleeve, of the master, or in a cross.
THEOREM SalesNeverRefused == Spec => [](outcome \notin PositionFailures)
<1>1. Init => SalesInv
  BY DEF Init, SalesInv, SalesPlanned, PositionFailures
<1>2. RecInv /\ SalesInv /\ [Next]_vars => SalesInv'
  <2>1. CASE UNCHANGED vars
    BY <2>1 DEF vars, ledger, batch, SalesInv, SalesPlanned, Sellable, SoldIn, Ordered
  <2>2. QED
    BY <2>1, StepSalesInv
<1>3. SalesInv => outcome \notin PositionFailures
  BY DEF SalesInv
<1>4. QED
  BY <1>1, <1>2, <1>3, RecInvariant, PTL DEF Spec

-----------------------------------------------------------------------------
\* The cost of a market buy, strategy by strategy and in all.
BuyCosts(bought, price) ==
    LET notional == Total(bought) * price
    IN  [s \in Strategies |-> bought[s] * price
            + CostShare(Commission(notional), bought)[s]
            + CostShare(notional \div BuyTaxPer, bought)[s]]

BuyTotal(bought, price) ==
    LET notional == Total(bought) * price
    IN  notional + Commission(notional) + notional \div BuyTaxPer

\* The costs of the strategies add up, and only those that bought have any.
LEMMA BuyCostsAddUp ==
  ASSUME NEW bought \in [Strategies -> Nat], NEW price \in Int
  PROVE  /\ BuyCosts(bought, price) \in [Strategies -> Int]
         /\ Total(BuyCosts(bought, price)) = BuyTotal(bought, price)
         /\ \A s \in Strategies : bought[s] = 0 => BuyCosts(bought, price)[s] = 0
<1>0. BuyTaxPer \in Nat \ {0} /\ IsFiniteSet(Strategies) /\ NumStrategies \in Nat
      /\ Strategies = 1 .. NumStrategies
  BY ConfigAssumption, IndexSets
<1>1. PICK actual \in Nat, c \in Int, t \in Int :
        /\ actual = Total(bought) /\ c = Commission(Total(bought) * price)
        /\ t = (Total(bought) * price) \div BuyTaxPer
  BY <1>0, SplitTypes
<1>2. Total(bought) = 0 => c = 0 /\ t = 0
  BY <1>0, <1>1, NoFillNoFees
<1>3. PICK fees \in [Strategies -> Int], taxes \in [Strategies -> Int] :
        /\ fees = CostShare(c, bought) /\ taxes = CostShare(t, bought)
        /\ Total(fees) = c /\ Total(taxes) = t
        /\ \A s \in Strategies : bought[s] = 0 => fees[s] = 0
        /\ \A s \in Strategies : bought[s] = 0 => taxes[s] = 0
  BY <1>1, <1>2, FeesTotal
<1>4. \A s \in Strategies : bought[s] = 0 => fees[s] = 0 /\ taxes[s] = 0
  BY <1>3
<1> DEFINE value == [s \in Strategies |-> bought[s] * price]
           costs == BuyCosts(bought, price)
<1>5. value \in [Strategies -> Int] /\ \A s \in Strategies : value[s] = bought[s] * price
  OBVIOUS
<1>6. costs = [s \in Strategies |-> value[s] + fees[s] + taxes[s]]
  BY <1>1, <1>3, <1>5 DEF BuyCosts
<1> HIDE DEF value, costs
<1>7. costs \in [Strategies -> Int]
  BY <1>5, <1>6
<1>8. Total(value) = actual * price
  <2>1. bought \in [Strategies -> Int]
    OBVIOUS
  <2>2. IsFiniteSet(Strategies)
    BY <1>0
  <2>3. Total(value) = Total(bought) * price
    BY <1>5, <2>1, <2>2, TotalScale
  <2>4. QED
    BY <1>1, <2>3
<1>9. Total(costs) = Total(value) + Total(fees) + Total(taxes)
  BY <1>5, <1>6, <1>7, OrderTotal
<1>10. Total(costs) = BuyTotal(bought, price)
  <2>1. BuyTotal(bought, price) = actual * price + c + t
    BY <1>1 DEF BuyTotal
  <2>2. QED
    BY <1>3, <1>8, <1>9, <2>1
<1>11. ASSUME NEW s \in Strategies, bought[s] = 0 PROVE costs[s] = 0
  <2>1. value[s] = 0
    BY <1>5, <1>11
  <2>2. QED
    BY <1>4, <1>6, <1>11, <2>1
<1>12. QED
  BY <1>7, <1>10, <1>11 DEF costs

\* What the sleeves can pay one by one the master can pay at once.
LEMMA MasterCoversCosts ==
  ASSUME RecInv, NEW bought \in [Strategies -> Nat], NEW price \in Int,
         \A s \in Strategies : cash[s] >= 0,
         \A s \in Strategies : ~ (bought[s] > 0 /\ BuyCosts(bought, price)[s] > cash[s])
  PROVE  BuyTotal(bought, price) <= cash[Master]
<1>1. PICK costs \in [Strategies -> Int] : costs = BuyCosts(bought, price)
  BY BuyCostsAddUp
<1>2. PICK own \in [Strategies -> Int] : own = [s \in Strategies |-> cash[s]]
  BY IndexSets DEF RecInv, TypeInv, TypeOK
<1>3. ASSUME NEW s \in Strategies PROVE costs[s] <= own[s]
  <2>1. bought[s] \in Nat /\ own[s] = cash[s] /\ own[s] \in Int /\ costs[s] \in Int
    BY <1>2
  <2>2. bought[s] = 0 => costs[s] = 0
    BY <1>1, BuyCostsAddUp
  <2>3. QED
    BY <1>1, <2>1, <2>2
<1>4. Total(costs) <= Total(own)
  BY <1>3, TotalMonotone, IndexSets
<1>5. Total(costs) = BuyTotal(bought, price) /\ Total(own) = cash[Master]
  BY <1>1, <1>2, BuyCostsAddUp DEF RecInv, CashReconcile
<1>6. QED
  BY <1>4, <1>5

\* While no sleeve is overdrawn the check of the master's cash never fails: a
\* market buy is never refused for the master's sake.
THEOREM MasterNeverOverdrawn ==
    Spec /\ []SleevesSolvent => [](outcome # "master_overdrawn")
<1> DEFINE Fine == outcome # "master_overdrawn"
<1>1. Init => Fine
  BY DEF Init
<1>2. ASSUME RecInv, SleevesSolvent, Fine, Next PROVE Fine'
  <2>1. CASE \E i \in Instruments : \E slip \in Slippage :
                \E fill \in 0 .. EndOf("buy", i) : ExecuteBuy(i, fill, slip)
    <3>1. PICK i \in Instruments, slip \in Slippage :
              \E fill \in 0 .. EndOf("buy", i) : ExecuteBuy(i, fill, slip)
      BY <2>1
    <3>2. PICK fill \in 0 .. EndOf("buy", i) : ExecuteBuy(i, fill, slip)
      BY <3>1
    <3> DEFINE offered == Allocation(fill, residual["buy"][i], LotSize[i])
               price == RefPrice(i) + slip
               bought == [s \in Strategies |-> Affordable(s, i, offered[s], price)]
    <3>3. TypeOK /\ price \in Int
      BY <1>2, PriceTypes, ConfigAssumption DEF RecInv, TypeInv
    <3>4. bought \in [Strategies -> Nat]
      <4>1. "buy" \in Sides /\ LotSize[i] \in Nat \ {0}
        BY SizesAssumption DEF Sides
      <4>2. offered \in [Strategies -> Nat]
        BY <3>3, <4>1, AllocationType
      <4> HIDE DEF offered, price
      <4>3. \A s \in Strategies : Affordable(s, i, offered[s], price) \in Nat
        BY <4>2, AffordableType
      <4>4. QED
        BY <4>3
    <3>5. pc = "buy" /\ \A s \in Strategies : cash[s] >= 0
      BY <1>2, <3>2 DEF ExecuteBuy, SleevesSolvent
    <3>6. CASE \E s \in Strategies : bought[s] > 0 /\ BuyCosts(bought, price)[s] > cash[s]
      <4>1. Abort("sleeve_overdrawn")
        BY <3>2, <3>6 DEF ExecuteBuy, BuyCosts
      <4>2. QED
        BY <4>1 DEF Abort
    <3>7. CASE \A s \in Strategies :
                  ~ (bought[s] > 0 /\ BuyCosts(bought, price)[s] > cash[s])
      <4>1. BuyTotal(bought, price) <= cash[Master]
        <5> HIDE DEF bought, price
        <5> QED
          BY <1>2, <3>3, <3>4, <3>5, <3>7, MasterCoversCosts
      <4>2. BuyTotal(bought, price) \in Int /\ cash[Master] \in Int
        <5> HIDE DEF bought, price
        <5>1. Total(BuyCosts(bought, price)) \in Int
          BY <3>3, <3>4, BuyCostsAddUp, TotalType, IndexSets
        <5>2. QED
          BY <3>3, <3>4, <5>1, BuyCostsAddUp, IndexSets DEF TypeOK
      <4>3. ~ (BuyTotal(bought, price) > cash[Master])
        <5> HIDE DEF bought, price
        <5> QED
          BY <4>1, <4>2
      <4>4. outcome' = outcome
        BY <3>2, <3>7, <4>3 DEF ExecuteBuy, BuyCosts, BuyTotal
      <4>5. QED
        BY <1>2, <4>4
    <3>8. QED
      BY <3>6, <3>7
  <2>2. CASE \E i \in Instruments : \E slip \in Slippage :
                \E fill \in 0 .. EndOf("sell", i) : ExecuteSell(i, fill, slip)
    <3>1. PICK i \in Instruments, slip \in Slippage :
              \E fill \in 0 .. EndOf("sell", i) : ExecuteSell(i, fill, slip)
      BY <2>2
    <3>2. PICK fill \in 0 .. EndOf("sell", i) : ExecuteSell(i, fill, slip)
      BY <3>1
    <3>3. \/ Abort("sleeve_oversold") \/ Abort("master_oversold")
          \/ outcome' = outcome
      BY <3>2, Zenon DEF ExecuteSell
    <3>4. QED
      BY <1>2, <3>3 DEF Abort
  <2>3. CASE \E e \in Events : AccrueDividend(e) \/ PayDividend(e) \/ AdjustShares(e)
    BY <1>2, <2>3 DEF AccrueDividend, PayDividend, AdjustShares, Abort
  <2>4. CASE \/ ActionsDone \/ NoBatch \/ SellsDone \/ CrossesDone \/ BuysDone
             \/ DelistingsDone \/ PlanBuys \/ NetDemands \/ DropCrosses
    BY <1>2, <2>4 DEF ActionsDone, NoBatch, SellsDone, CrossesDone, BuysDone,
                      DelistingsDone, PlanBuys, NetDemands, DropCrosses
  <2>5. CASE Finished
    BY <1>2, <2>5 DEF Finished, vars
  <2>6. CASE Decide \/ PlanSells \/ AcceptCrosses \/ MarkToMarket \/ RecordDay
    BY <1>2, <2>6 DEF Decide, PlanSells, AcceptCrosses, MarkToMarket, RecordDay, Abort
  <2>7. CASE \E i \in Instruments : \E seller \in Strategies : \E buyer \in Strategies :
                 SettleCross(i, seller, buyer)
    BY <1>2, <2>7 DEF SettleCross
  <2>8. CASE \E i \in Instruments : Delist(i)
    BY <1>2, <2>8 DEF Delist
  <2>9. QED
    BY <1>2, <2>1, <2>2, <2>3, <2>4, <2>5, <2>6, <2>7, <2>8 DEF Next
<1>3. RecInv /\ SleevesSolvent /\ Fine /\ [Next]_vars => Fine'
  <2>1. CASE UNCHANGED vars
    BY <2>1 DEF vars
  <2>2. QED
    BY <1>2, <2>1
<1> HIDE DEF Fine
<1>4. Spec /\ []SleevesSolvent => []Fine
  BY <1>1, <1>3, RecInvariant, PTL DEF Spec
<1>5. QED
  BY <1>4 DEF Fine

\* A cross changes no sleeve's worth at the reference price and nothing of the
\* master: what the buyer pays the seller gets, for exactly the shares moved.
THEOREM CrossesAreFree == Spec => CrossesKeepWorth
<1>1. ASSUME TypeInv, Next, pc = "settle"
      PROVE  /\ \A s \in Strategies : Worth(s, RefPrice)' = Worth(s, RefPrice)
             /\ cash'[Master] = cash[Master] /\ shares'[Master] = shares[Master]
  <2>1. CASE CrossesDone
    <3>1. UNCHANGED <<day, cash, receivable, shares>>
      BY <2>1 DEF CrossesDone, ledger
    <3>2. QED
      BY <3>1 DEF Worth, RefPrice
  <2>2. CASE \E i \in Instruments : \E seller \in Strategies : \E buyer \in Strategies :
                 SettleCross(i, seller, buyer)
    <3>1. PICK i \in Instruments, seller \in Strategies, buyer \in Strategies :
              SettleCross(i, seller, buyer)
      BY <2>2
    <3>2. PICK n \in Nat : n = crosses[i][seller][buyer]
      BY <1>1 DEF TypeInv, TypeOK
    <3>3. /\ cash' = [a \in Accounts |->
                         cash[a] - CrossMove(seller, buyer, n * RefPrice(i), a)]
          /\ shares' = [a \in Accounts |-> [shares[a] EXCEPT ![i] =
                           @ + CrossMove(seller, buyer, n, a)]]
          /\ UNCHANGED <<day, receivable>>
      BY <3>1, <3>2 DEF SettleCross, Flow
    <3>4. CrossMove(seller, buyer, n, Master) = 0
          /\ CrossMove(seller, buyer, n * RefPrice(i), Master) = 0
      BY IndexSets DEF CrossMove
    <3>5. cash'[Master] = cash[Master] /\ shares'[Master] = shares[Master]
      <4>1. cash[Master] \in Int /\ shares[Master] \in [Instruments -> Nat]
        BY <1>1, IndexSets DEF TypeInv, TypeOK
      <4>2. cash'[Master] = cash[Master]
        BY <3>3, <3>4, <4>1, IndexSets
      <4>3. shares'[Master] = [shares[Master] EXCEPT ![i] = @ + 0]
        BY <3>3, <3>4, IndexSets
      <4>4. QED
        BY <4>1, <4>2, <4>3
    <3>6. ASSUME NEW s \in Strategies
          PROVE  Worth(s, RefPrice)' = Worth(s, RefPrice)
      <4>1. PICK p \in Nat, m \in Int, c \in Int, h \in [Instruments -> Nat] :
              /\ p = RefPrice(i) /\ m = CrossMove(seller, buyer, n, s)
              /\ c = cash[s] /\ h = shares[s]
        <5>1. RefPrice(i) \in Nat
          BY <1>1, PriceTypes DEF TypeInv
        <5>2. cash[s] \in Int /\ shares[s] \in [Instruments -> Nat]
          BY <1>1, IndexSets DEF TypeInv, TypeOK
        <5>3. CrossMove(seller, buyer, n, s) \in Int
          BY DEF CrossMove
        <5>4. QED
          BY <5>1, <5>2, <5>3
      <4>2. cash'[s] = c - m * p
        <5>1. CrossMove(seller, buyer, n * p, s) = m * p
          BY <4>1 DEF CrossMove
        <5>2. QED
          BY <3>3, <4>1, <5>1, IndexSets
      <4>3. shares'[s] = [h EXCEPT ![i] = h[i] + m]
        BY <3>3, <4>1, IndexSets
      <4> DEFINE f == [j \in Instruments |-> shares[s][j] * RefPrice(j)]
                 g == [j \in Instruments |-> shares'[s][j] * RefPrice(j)]
      <4>4. f \in [Instruments -> Int] /\ g \in [Instruments -> Int]
        <5>1. \A j \in Instruments : RefPrice(j) \in Nat
          BY <1>1, PriceTypes DEF TypeInv
        <5>2. \A j \in Instruments : shares[s][j] \in Int /\ shares'[s][j] \in Int
          BY <4>1, <4>3
        <5>3. QED
          BY <5>1, <5>2
      <4>5. \A j \in Instruments : j # i => g[j] = f[j]
        BY <4>1, <4>3
      <4>6. g[i] - f[i] = m * p
        <5>1. f[i] = h[i] * p /\ g[i] = (h[i] + m) * p
          BY <4>1, <4>3
        <5>2. QED
          BY <4>1, <5>1
      <4>7. Total(g) = Total(f) + m * p /\ Total(f) \in Int
        <5> HIDE DEF f, g
        <5>1. IsFiniteSet(Instruments)
          BY IndexSets
        <5>2. Total(f) \in Int
          BY <4>4, <5>1, TotalType
        <5>3. Total(g) = Total(f) + (g[i] - f[i])
          BY <4>4, <4>5, <5>1, TotalShift
        <5>4. QED
          BY <4>6, <5>2, <5>3
      <4>8. Total(receivable[s]) \in Int
        <5>1. receivable[s] \in [Events -> Int]
          BY <1>1, IndexSets DEF TypeInv, TypeOK
        <5>2. QED
          BY <5>1, TotalType, IndexSets
      <4>9. \A j \in Instruments : RefPrice(j)' = RefPrice(j)
        BY <3>3 DEF RefPrice
      <4>10. Worth(s, RefPrice)' = cash'[s] + Total(receivable[s]) + Total(g)
        <5>1. [j \in Instruments |-> shares'[s][j] * RefPrice(j)'] = g
          BY <4>9
        <5>2. QED
          BY <3>3, <5>1 DEF Worth
      <4>11. Worth(s, RefPrice) = c + Total(receivable[s]) + Total(f)
        BY <4>1 DEF Worth
      <4>12. (c - m * p) + Total(receivable[s]) + (Total(f) + m * p)
               = c + Total(receivable[s]) + Total(f)
        <5>1. PICK x \in Int, y \in Int, z \in Int :
                x = Total(receivable[s]) /\ y = Total(f) /\ z = m * p
          <6>1. m * p \in Int
            BY <4>1
          <6>2. QED
            BY <4>7, <4>8, <6>1
        <5>2. (c - z) + x + (y + z) = c + x + y
          OBVIOUS
        <5>3. QED
          BY <5>1, <5>2
      <4>13. QED
        BY <4>2, <4>7, <4>10, <4>11, <4>12
    <3>7. QED
      BY <3>5, <3>6
  <2>3. CASE Finished
    BY <1>1, <2>3 DEF Finished
  <2>4. QED
    BY <1>1, <2>1, <2>2, <2>3
       DEF Next, AccrueDividend, PayDividend, AdjustShares, Item, ActionsDone, Decide,
           NoBatch, PlanSells, PlanBuys, NetDemands, ExecuteSell, ExecuteBuy, SellsDone,
           DropCrosses, AcceptCrosses, BuysDone, MarkToMarket, Delist, DelistingsDone,
           RecordDay
<1>2. ASSUME TypeInv, [Next]_vars, pc = "settle"
      PROVE  /\ \A s \in Strategies : Worth(s, RefPrice)' = Worth(s, RefPrice)
             /\ cash'[Master] = cash[Master] /\ shares'[Master] = shares[Master]
  <2>1. CASE UNCHANGED vars
    BY <2>1 DEF vars, ledger, Worth, RefPrice
  <2>2. QED
    BY <1>1, <1>2, <2>1
<1>3. QED
  BY <1>2, TypeInvariant, PTL DEF Spec, CrossesKeepWorth

-----------------------------------------------------------------------------
(***************************************************************************)
(* A frozen instrument is out of every batch: nothing is asked of it,      *)
(* nothing is crossed and no loop visits it.  A delisting happens after    *)
(* the day's batch, so what it freezes has no demand or cross left either, *)
(* which needs the batch to be cleared once it is done.                    *)
(***************************************************************************)
Trading == {"demand", "sell", "cross", "settle", "buy", "aborted"}

FrozenIdle ==
    /\ \A i \in frozen : \A s \in Strategies :
          /\ residual["sell"][i][s] = 0 /\ residual["buy"][i][s] = 0
          /\ \A b \in Strategies : crosses[i][s][b] = 0
    /\ pc \in {"sell", "buy", "delist"} => queue \intersect frozen = {}

BatchCleared ==
    /\ pc \notin Trading => residual = NoDemand
    /\ pc \notin Trading \ {"buy"} => crosses = NoCross

\* Every policy but carrying leaves nothing of a frozen instrument.
FrozenGone ==
    DelistingPolicy # "carry_last_mark" =>
        \A i \in frozen : \A a \in Accounts : shares[a][i] = 0

FrozenInv == FrozenIdle /\ BatchCleared /\ FrozenGone

\* Only corporate actions touch a frozen holding.
FrozenKept ==
    \A i \in frozen : \A a \in Accounts :
        pc = "actions" \/ shares'[a][i] = shares[a][i]

\* Steps that touch no position, demand or cross and freeze nothing.
LEMMA FrozenQuiet ==
  ASSUME FrozenInv, UNCHANGED <<shares, frozen, residual, crosses>>,
         pc' \in {"sell", "buy", "delist"} => pc' = pc /\ queue' \subseteq queue,
         pc' \notin Trading => pc \notin Trading,
         pc' \notin Trading \ {"buy"} => pc \notin Trading \ {"buy"}
  PROVE  FrozenInv' /\ FrozenKept
<1>1. FrozenIdle'
  BY DEF FrozenInv, FrozenIdle
<1>2. BatchCleared'
  BY DEF FrozenInv, BatchCleared, NoDemand, NoCross
<1>3. FrozenGone' /\ FrozenKept
  BY DEF FrozenInv, FrozenGone, FrozenKept
<1>4. QED
  BY <1>1, <1>2, <1>3 DEF FrozenInv

\* A run that ends touches nothing.
LEMMA FrozenAbort ==
  ASSUME FrozenInv, NEW reason, Abort(reason)
  PROVE  FrozenInv' /\ FrozenKept
<1>1. UNCHANGED <<shares, frozen, residual, crosses>> /\ pc' = "aborted"
  BY DEF Abort, ledger, book, batch
<1>2. QED
  BY <1>1, FrozenQuiet DEF Trading

\* Steps that move neither shares nor the batch.
LEMMA FrozenControl ==
  ASSUME FrozenInv,
         \/ ActionsDone \/ Decide \/ NoBatch \/ SellsDone \/ AcceptCrosses
         \/ DelistingsDone \/ RecordDay \/ UNCHANGED vars
         \/ \E e \in Events : AccrueDividend(e) \/ PayDividend(e)
  PROVE  FrozenInv' /\ FrozenKept
<1>1. UNCHANGED <<shares, frozen, residual, crosses>>
  BY DEF ActionsDone, Decide, NoBatch, SellsDone, AcceptCrosses, DelistingsDone,
         RecordDay, AccrueDividend, PayDividend, Abort, vars, ledger, book, batch
<1>2. \/ pc' = "aborted"
      \/ pc \notin Trading /\ pc' \in {"decide", "trade", "close", "record", "done", "actions"}
      \/ pc \in {"sell", "cross"} /\ pc' \in {"cross", "settle"}
      \/ pc' = pc /\ queue' = queue
  BY DEF ActionsDone, Decide, NoBatch, SellsDone, AcceptCrosses, DelistingsDone,
         RecordDay, AccrueDividend, PayDividend, Item, Abort, vars, ledger, book,
         batch, Trading
<1>3. /\ pc' \in {"sell", "buy", "delist"} => pc' = pc /\ queue' \subseteq queue
      /\ pc' \notin Trading => pc \notin Trading
      /\ pc' \notin Trading \ {"buy"} => pc \notin Trading \ {"buy"}
  BY <1>2 DEF Trading
<1>4. QED
  BY <1>1, <1>3, FrozenQuiet

\* An account that holds nothing of an instrument has nothing to adjust.
LEMMA FrozenAdjust ==
  ASSUME TypeInv, FrozenInv, NEW e \in Events, AdjustShares(e)
  PROVE  FrozenInv' /\ FrozenKept
<1>1. CASE ~ (\A a \in Accounts : Adjustable(a, e))
  BY <1>1, FrozenAbort DEF AdjustShares
<1>2. CASE \A a \in Accounts : Adjustable(a, e)
  <2>1. /\ shares' = [a \in Accounts |->
               [shares[a] EXCEPT ![Actions[e].code] = @ + Delta(a, e)]]
        /\ pc = "actions" /\ UNCHANGED <<pc, frozen, residual, crosses>>
    BY <1>2 DEF AdjustShares, book, batch
  <2>2. FrozenIdle' /\ BatchCleared' /\ FrozenKept
    BY <2>1 DEF FrozenInv, FrozenIdle, BatchCleared, FrozenKept, NoDemand, NoCross
  <2>3. ASSUME DelistingPolicy # "carry_last_mark", NEW i \in frozen, NEW a \in Accounts
        PROVE  shares'[a][i] = 0
    <3>1. shares[a][i] = 0 /\ shares[a] \in [Instruments -> Nat] /\ i \in Instruments
      BY <2>3 DEF FrozenInv, FrozenGone, TypeInv, TypeOK
    <3>2. i = Actions[e].code => Delta(a, e) = 0
      BY <1>2, <3>1 DEF Adjustable
    <3>3. QED
      BY <2>1, <3>1, <3>2
  <2>4. FrozenGone'
    BY <2>1, <2>3 DEF FrozenGone
  <2>5. QED
    BY <2>2, <2>4 DEF FrozenInv
<1>3. QED
  BY <1>1, <1>2

\* Planning asks nothing of a frozen instrument.
LEMMA FrozenPlan ==
  ASSUME TypeInv, FrozenInv, PlanSells \/ PlanBuys
  PROVE  FrozenInv' /\ FrozenKept
<1>1. CASE PlanSells
  <2>1. CASE \E s \in Targeted : \E i \in Held(s) : ValuationPrice(i) = 0
    BY <1>1, <2>1, FrozenAbort DEF PlanSells
  <2>2. CASE ~ \E s \in Targeted : \E i \in Held(s) : ValuationPrice(i) = 0
    <3>1. /\ residual' = [residual EXCEPT !["sell"] =
                 [i \in Instruments |-> [s \in Strategies |-> SellDemand(s, i)]]]
          /\ pc' = "demand" /\ UNCHANGED <<shares, frozen, crosses>>
      BY <1>1, <2>2 DEF PlanSells, ledger, book
    <3>2. ASSUME NEW i \in frozen, NEW s \in Strategies
          PROVE  residual'["sell"][i][s] = 0 /\ residual'["buy"][i][s] = 0
      <4>1. i \in Instruments /\ residual["buy"][i][s] = 0
        BY DEF TypeInv, TypeOK, FrozenInv, FrozenIdle
      <4>2. SellDemand(s, i) = 0
        BY DEF SellDemand, Tradable
      <4>3. residual \in [Sides -> [Instruments -> [Strategies -> Nat]]]
        BY DEF TypeInv, TypeOK
      <4>4. QED
        BY <3>1, <4>1, <4>2, <4>3 DEF Sides
    <3>3. FrozenIdle'
      BY <3>1, <3>2 DEF FrozenInv, FrozenIdle
    <3>4. BatchCleared' /\ FrozenGone' /\ FrozenKept
      BY <3>1 DEF FrozenInv, BatchCleared, FrozenGone, FrozenKept, Trading
    <3>5. QED
      BY <3>3, <3>4 DEF FrozenInv
  <2>3. QED
    BY <2>1, <2>2
<1>2. CASE PlanBuys
  <2> DEFINE i == First(queue)
  <2>1. i \in Instruments
    <3>1. queue \in SUBSET Nat /\ queue # {} /\ queue \subseteq Instruments
      BY <1>2, IndexSets DEF PlanBuys, TypeInv, TypeOK
    <3>2. QED
      BY <3>1, FirstMember
  <2>2. /\ residual' = [residual EXCEPT !["buy"][i] =
               [s \in Strategies |-> MaxOf(0, BuyQuantity(s, i))]]
        /\ pc = "demand" /\ UNCHANGED <<pc, shares, frozen, crosses>>
    BY <1>2 DEF PlanBuys, ledger, book
  <2> HIDE DEF i
  <2>3. ASSUME NEW j \in frozen, NEW s \in Strategies
        PROVE  residual'["sell"][j][s] = 0 /\ residual'["buy"][j][s] = 0
    <3>1. /\ j \in Instruments /\ residual["sell"][j][s] = 0 /\ residual["buy"][j][s] = 0
          /\ residual \in [Sides -> [Instruments -> [Strategies -> Nat]]]
      BY DEF TypeInv, TypeOK, FrozenInv, FrozenIdle
    <3>2. MaxOf(0, BuyQuantity(s, j)) = 0
      BY DEF BuyQuantity, Tradable, MaxOf
    <3>3. QED
      BY <2>1, <2>2, <3>1, <3>2 DEF Sides
  <2>4. FrozenIdle'
    BY <2>2, <2>3 DEF FrozenInv, FrozenIdle
  <2>5. BatchCleared' /\ FrozenGone' /\ FrozenKept
    BY <2>2 DEF FrozenInv, BatchCleared, FrozenGone, FrozenKept, Trading
  <2>6. QED
    BY <2>4, <2>5 DEF FrozenInv
<1>3. QED
  BY <1>1, <1>2

\* Without demand there is no residual and no cross.
LEMMA NoDemandNoTrade ==
  ASSUME NEW n \in Nat, NEW buy \in [1 .. n -> Nat], NEW sell \in [1 .. n -> Nat],
         \A s \in 1 .. n : sell[s] = 0 /\ buy[s] = 0
  PROVE  /\ \A s \in 1 .. n : Residual(sell, buy)[s] = 0 /\ Residual(buy, sell)[s] = 0
         /\ \A s, b \in 1 .. n : CrossQuantity(buy, sell, s, b) = 0
         /\ Total(Residual(sell, buy)) = 0
<1>1. \A s \in 1 .. n : Residual(sell, buy)[s] = 0 /\ Residual(buy, sell)[s] = 0
  <2>1. /\ Residual(sell, buy) \in [1 .. n -> Nat]
        /\ Residual(buy, sell) \in [1 .. n -> Nat]
        /\ \A s \in 1 .. n : Residual(sell, buy)[s] <= sell[s]
        /\ \A s \in 1 .. n : Residual(buy, sell)[s] <= buy[s]
    BY ResidualType
  <2>2. QED
    BY <2>1
<1>2. ASSUME NEW s \in 1 .. n, NEW b \in 1 .. n PROVE CrossQuantity(buy, sell, s, b) = 0
  <2>1. PICK u \in Int, v \in Int : u = Before(sell, s) /\ v = Before(buy, b)
    BY BeforeType
  <2>2. sell[s] = 0 /\ buy[b] = 0
    OBVIOUS
  <2>3. QED
    BY <2>1, <2>2 DEF CrossQuantity, MaxOf, MinOf
<1>3. Total(Residual(sell, buy)) = 0
  <2>1. Residual(sell, buy) \in [1 .. n -> Nat]
    BY ResidualType
  <2>2. IsFiniteSet(1 .. n)
    BY FS_Interval
  <2>3. QED
    BY <1>1, <2>1, <2>2, TotalZero
<1>4. QED
  BY <1>1, <1>2, <1>3

\* Netting keeps a frozen instrument out of the market loop.
LEMMA FrozenNetting ==
  ASSUME TypeInv, FrozenInv, NetDemands
  PROVE  FrozenInv' /\ FrozenKept
<1>1. pc' = "sell" /\ UNCHANGED <<shares, frozen>>
  BY DEF NetDemands, ledger, book
<1>2. ASSUME NEW i \in frozen, NEW s \in Strategies
      PROVE  /\ residual'["sell"][i][s] = 0 /\ residual'["buy"][i][s] = 0
             /\ \A b \in Strategies : crosses'[i][s][b] = 0
             /\ i \notin queue'
  <2>1. PICK buy \in [Strategies -> Nat], sell \in [Strategies -> Nat] :
            buy = residual["buy"][i] /\ sell = residual["sell"][i]
    BY DEF TypeInv, TypeOK, Sides
  <2>2. i \in Instruments /\ \A t \in Strategies : sell[t] = 0 /\ buy[t] = 0
    BY <2>1 DEF FrozenInv, FrozenIdle, TypeInv, TypeOK
  <2>3. /\ \A t \in Strategies : Residual(sell, buy)[t] = 0 /\ Residual(buy, sell)[t] = 0
        /\ \A t, b \in Strategies : CrossQuantity(buy, sell, t, b) = 0
        /\ Total(Residual(sell, buy)) = 0
    BY <2>2, NoDemandNoTrade, IndexSets
  <2>4. /\ residual'["sell"][i] = Residual(sell, buy)
        /\ residual'["buy"][i] = Residual(buy, sell)
        /\ crosses'[i][s] = [b \in Strategies |-> CrossQuantity(buy, sell, s, b)]
        /\ i \in queue' => Total(Residual(sell, buy)) > 0
    BY <2>1, <2>2 DEF NetDemands
  <2>5. QED
    BY <2>3, <2>4
<1>3. \A i \in frozen : Strategies = {} => i \notin queue'
  <2> SUFFICES ASSUME NEW i \in frozen, Strategies = {} PROVE i \notin queue'
    OBVIOUS
  <2>1. PICK buy \in [Strategies -> Nat], sell \in [Strategies -> Nat] :
            buy = residual["buy"][i] /\ sell = residual["sell"][i]
    BY DEF TypeInv, TypeOK, Sides
  <2>2. Total(Residual(sell, buy)) = 0
    BY NoDemandNoTrade, IndexSets
  <2>3. i \in queue' => Total(Residual(sell, buy)) > 0
    BY <2>1 DEF NetDemands
  <2>4. QED
    BY <2>2, <2>3
<1>4. queue' \intersect frozen = {}
  BY <1>2, <1>3
<1>5. FrozenIdle'
  BY <1>1, <1>2, <1>4 DEF FrozenIdle
<1>6. BatchCleared' /\ FrozenGone' /\ FrozenKept
  BY <1>1 DEF FrozenInv, BatchCleared, FrozenGone, FrozenKept, Trading
<1>7. QED
  BY <1>5, <1>6 DEF FrozenInv

\* The loops over the orders, the crosses and the delistings meet no frozen
\* instrument.
LEMMA FrozenOrder ==
  ASSUME TypeInv, FrozenInv, NEW i \in Instruments, NEW slip \in Slippage,
         NEW fill \in Nat, ExecuteSell(i, fill, slip) \/ ExecuteBuy(i, fill, slip)
  PROVE  FrozenInv' /\ FrozenKept
<1>1. pc \in {"sell", "buy"} /\ queue # {} /\ i = First(queue)
  BY DEF ExecuteSell, ExecuteBuy
<1>2. i \notin frozen
  <2>1. queue \in SUBSET Nat /\ queue # {}
    BY <1>1, IndexSets DEF TypeInv, TypeOK
  <2>2. i \in queue
    BY <1>1, <2>1, FirstMember
  <2>3. QED
    BY <1>1, <2>2 DEF FrozenInv, FrozenIdle
<1>3. \/ \E reason \in Outcomes : Abort(reason)
      \/ /\ \E part : shares' = [a \in Accounts |-> [shares[a] EXCEPT ![i] = part[a]]]
         /\ queue' = queue \ {i} /\ UNCHANGED <<pc, frozen, residual, crosses>>
  <2>1. CASE ExecuteSell(i, fill, slip)
    <3> DEFINE sold == Allocation(fill, residual["sell"][i], SellLot(i))
    <3>1. \/ Abort("sleeve_oversold") \/ Abort("master_oversold")
          \/ /\ shares' = [a \in Accounts |->
                    [shares[a] EXCEPT ![i] = @ - Split(sold)[a]]]
             /\ queue' = queue \ {i} /\ UNCHANGED <<pc, frozen, residual, crosses>>
      BY <2>1 DEF ExecuteSell, book
    <3> HIDE DEF sold
    <3> DEFINE part == [a \in Accounts |-> shares[a][i] - Split(sold)[a]]
    <3>2. [a \in Accounts |-> [shares[a] EXCEPT ![i] = @ - Split(sold)[a]]]
            = [a \in Accounts |-> [shares[a] EXCEPT ![i] = part[a]]]
      BY DEF TypeInv, TypeOK
    <3> HIDE DEF part
    <3>3. QED
      BY <3>1, <3>2 DEF Outcomes, BookingFailures
  <2>2. CASE ExecuteBuy(i, fill, slip)
    <3> DEFINE offered == Allocation(fill, residual["buy"][i], LotSize[i])
               bought == [s \in Strategies |->
                             Affordable(s, i, offered[s], RefPrice(i) + slip)]
    <3>1. \/ Abort("sleeve_overdrawn") \/ Abort("master_overdrawn")
          \/ /\ shares' = [a \in Accounts |->
                    [shares[a] EXCEPT ![i] = @ + Split(bought)[a]]]
             /\ queue' = queue \ {i} /\ UNCHANGED <<pc, frozen, residual, crosses>>
      BY <2>2 DEF ExecuteBuy, book
    <3> HIDE DEF bought
    <3> DEFINE part == [a \in Accounts |-> shares[a][i] + Split(bought)[a]]
    <3>2. [a \in Accounts |-> [shares[a] EXCEPT ![i] = @ + Split(bought)[a]]]
            = [a \in Accounts |-> [shares[a] EXCEPT ![i] = part[a]]]
      BY DEF TypeInv, TypeOK
    <3> HIDE DEF part
    <3>3. QED
      BY <3>1, <3>2 DEF Outcomes, BookingFailures
  <2>3. QED
    BY <2>1, <2>2
<1>4. CASE \E reason \in Outcomes : Abort(reason)
  BY <1>4, FrozenAbort
<1>5. CASE /\ \E part : shares' = [a \in Accounts |-> [shares[a] EXCEPT ![i] = part[a]]]
           /\ queue' = queue \ {i} /\ UNCHANGED <<pc, frozen, residual, crosses>>
  <2>1. \A a \in Accounts : \A j \in frozen : shares'[a][j] = shares[a][j]
    BY <1>2, <1>5 DEF TypeInv, TypeOK
  <2>2. FrozenIdle' /\ BatchCleared'
    BY <1>5 DEF FrozenInv, FrozenIdle, BatchCleared, NoDemand, NoCross
  <2>3. FrozenGone' /\ FrozenKept
    BY <1>5, <2>1 DEF FrozenInv, FrozenGone, FrozenKept
  <2>4. QED
    BY <2>2, <2>3 DEF FrozenInv
<1>6. QED
  BY <1>3, <1>4, <1>5

\* No cross of a frozen instrument is dropped, settled or left over.
LEMMA FrozenCrosses ==
  ASSUME TypeInv, FrozenInv,
         \/ DropCrosses \/ CrossesDone
         \/ \E i \in Instruments : \E seller \in Strategies : \E buyer \in Strategies :
               SettleCross(i, seller, buyer)
  PROVE  FrozenInv' /\ FrozenKept
<1>1. CASE DropCrosses
  <2>1. pc = "cross" /\ UNCHANGED <<pc, shares, frozen, residual>>
    BY <1>1 DEF DropCrosses, ledger, book
  <2>2. ASSUME NEW i \in frozen, NEW s \in Strategies, NEW b \in Strategies
        PROVE  crosses'[i][s][b] = 0
    <3>1. crosses[i][s][b] = 0 /\ i \in Instruments
      BY DEF FrozenInv, FrozenIdle, TypeInv, TypeOK
    <3>2. QED
      BY <1>1, <3>1 DEF DropCrosses
  <2>3. FrozenIdle'
    BY <2>1, <2>2 DEF FrozenInv, FrozenIdle
  <2>4. BatchCleared' /\ FrozenGone' /\ FrozenKept
    BY <2>1 DEF FrozenInv, BatchCleared, FrozenGone, FrozenKept, Trading
  <2>5. QED
    BY <2>3, <2>4 DEF FrozenInv
<1>2. CASE CrossesDone
  <2>1. /\ crosses = NoCross /\ pc' = "buy" /\ UNCHANGED <<shares, frozen, residual, crosses>>
        /\ queue' = {i \in Instruments : EndOf("buy", i) > 0}
    BY <1>2 DEF CrossesDone, ledger, book
  <2>2. ASSUME NEW i \in frozen PROVE i \notin queue'
    <3>1. /\ residual["buy"][i] \in [Strategies -> Nat]
          /\ \A s \in Strategies : residual["buy"][i][s] = 0
      BY DEF TypeInv, TypeOK, Sides, FrozenInv, FrozenIdle
    <3>2. IsFiniteSet(Strategies)
      BY IndexSets
    <3>3. EndOf("buy", i) = 0
      BY <3>1, <3>2, TotalZero DEF EndOf
    <3>4. QED
      BY <2>1, <3>3
  <2>3. FrozenIdle'
    BY <2>1, <2>2 DEF FrozenInv, FrozenIdle
  <2>4. BatchCleared'
    BY <2>1 DEF BatchCleared, Trading, NoCross
  <2>5. FrozenGone' /\ FrozenKept
    BY <2>1 DEF FrozenInv, FrozenGone, FrozenKept
  <2>6. QED
    BY <2>3, <2>4, <2>5 DEF FrozenInv
<1>3. ASSUME NEW i \in Instruments, NEW seller \in Strategies, NEW buyer \in Strategies,
             SettleCross(i, seller, buyer)
      PROVE  FrozenInv' /\ FrozenKept
  <2>1. /\ pc = "settle" /\ crosses' = [crosses EXCEPT ![i][seller][buyer] = 0]
        /\ crosses[i][seller][buyer] > 0 /\ UNCHANGED <<pc, frozen, residual>>
    BY <1>3 DEF SettleCross, book
  <2>2. i \notin frozen
    BY <2>1 DEF FrozenInv, FrozenIdle
  <2>3. ASSUME NEW a \in Accounts, NEW j \in frozen PROVE shares'[a][j] = shares[a][j]
    <3>1. j \in Instruments /\ j # i /\ shares[a][j] \in Nat
      BY <2>2 DEF TypeInv, TypeOK
    <3>2. shares' = [b \in Accounts |-> [shares[b] EXCEPT ![i] =
                        @ + CrossMove(seller, buyer, crosses[i][seller][buyer], b)]]
      BY <1>3 DEF SettleCross
    <3>3. QED
      BY <3>1, <3>2 DEF TypeInv, TypeOK
  <2>4. ASSUME NEW j \in frozen, NEW s \in Strategies, NEW b \in Strategies
        PROVE  crosses'[j][s][b] = 0
    <3>1. crosses[j][s][b] = 0 /\ j \in Instruments /\ j # i
      BY <2>2 DEF FrozenInv, FrozenIdle, TypeInv, TypeOK
    <3>2. QED
      BY <2>1, <3>1 DEF TypeInv, TypeOK
  <2>5. FrozenIdle'
    BY <2>1, <2>4 DEF FrozenInv, FrozenIdle
  <2>6. BatchCleared'
    BY <2>1 DEF BatchCleared, Trading
  <2>7. FrozenGone' /\ FrozenKept
    BY <2>1, <2>3 DEF FrozenInv, FrozenGone, FrozenKept
  <2>8. QED
    BY <2>5, <2>6, <2>7 DEF FrozenInv
<1>4. QED
  BY <1>1, <1>2, <1>3

\* What is delisted today was not frozen, has no demand, and is disposed of.
LEMMA FrozenClose ==
  ASSUME TypeInv, FrozenInv,
         BuysDone \/ MarkToMarket \/ \E i \in Instruments : Delist(i)
  PROVE  FrozenInv' /\ FrozenKept
<1>1. CASE BuysDone
  <2>1. /\ pc = "buy" /\ pc' = "close" /\ residual' = NoDemand
        /\ UNCHANGED <<shares, frozen, crosses>>
    BY <1>1 DEF BuysDone, ledger, book
  <2>2. crosses = NoCross
    BY <2>1 DEF FrozenInv, BatchCleared, Trading
  <2>3. ASSUME NEW i \in frozen, NEW s \in Strategies
        PROVE  /\ residual'["sell"][i][s] = 0 /\ residual'["buy"][i][s] = 0
               /\ \A b \in Strategies : crosses'[i][s][b] = 0
    <3>1. i \in Instruments /\ \A b \in Strategies : crosses[i][s][b] = 0
      BY DEF FrozenInv, FrozenIdle, TypeInv, TypeOK
    <3>2. QED
      BY <2>1, <3>1 DEF NoDemand, Sides
  <2>4. FrozenIdle'
    BY <2>1, <2>3 DEF FrozenIdle
  <2>5. BatchCleared'
    BY <2>1, <2>2 DEF BatchCleared, NoDemand, NoCross
  <2>6. FrozenGone' /\ FrozenKept
    BY <2>1 DEF FrozenInv, FrozenGone, FrozenKept
  <2>7. QED
    BY <2>4, <2>5, <2>6 DEF FrozenInv
<1>2. CASE MarkToMarket
  <2>1. CASE \E i \in HeldBySomeone :
                 ~Observed(i) /\ (DelistEffective(i) => mark[i] = 0)
    BY <1>2, <2>1, FrozenAbort DEF MarkToMarket
  <2>2. CASE ~ \E i \in HeldBySomeone :
                 ~Observed(i) /\ (DelistEffective(i) => mark[i] = 0)
    <3>1. /\ pc = "close" /\ pc' = "delist"
          /\ queue' = {i \in Instruments : DelistDay[i] = day} \ frozen
          /\ UNCHANGED <<shares, frozen, residual, crosses>>
      BY <1>2, <2>2 DEF MarkToMarket, ledger
    <3>2. FrozenIdle'
      BY <3>1 DEF FrozenInv, FrozenIdle
    <3>3. BatchCleared'
      BY <3>1 DEF FrozenInv, BatchCleared, Trading, NoDemand, NoCross
    <3>4. FrozenGone' /\ FrozenKept
      BY <3>1 DEF FrozenInv, FrozenGone, FrozenKept
    <3>5. QED
      BY <3>2, <3>3, <3>4 DEF FrozenInv
  <2>3. QED
    BY <2>1, <2>2
<1>3. ASSUME NEW i \in Instruments, Delist(i) PROVE FrozenInv' /\ FrozenKept
  <2>1. /\ pc = "delist" /\ queue # {} /\ i = First(queue)
        /\ shares' = [a \in Accounts |-> [shares[a] EXCEPT ![i] = Kept(a, i)]]
        /\ frozen' = frozen \union {i} /\ queue' = queue \ {i}
        /\ UNCHANGED <<pc, residual, crosses>>
    BY <1>3 DEF Delist
  <2>2. i \in queue /\ i \notin frozen
    <3>1. queue \in SUBSET Nat /\ queue # {}
      BY <2>1, IndexSets DEF TypeInv, TypeOK
    <3>2. i \in queue
      BY <2>1, <3>1, FirstMember
    <3>3. QED
      BY <2>1, <3>2 DEF FrozenInv, FrozenIdle
  <2>3. residual = NoDemand /\ crosses = NoCross
    BY <2>1 DEF FrozenInv, BatchCleared, Trading
  <2>4. ASSUME NEW j \in frozen', NEW s \in Strategies
        PROVE  /\ residual'["sell"][j][s] = 0 /\ residual'["buy"][j][s] = 0
               /\ \A b \in Strategies : crosses'[j][s][b] = 0
    <3>1. j \in Instruments
      BY <2>1 DEF TypeInv, TypeOK
    <3>2. QED
      BY <2>1, <2>3, <3>1 DEF NoDemand, NoCross, Sides
  <2>5. FrozenIdle'
    <3>1. queue' \intersect frozen' = {}
      BY <2>1 DEF FrozenInv, FrozenIdle
    <3>2. QED
      BY <2>4, <3>1 DEF FrozenIdle
  <2>6. BatchCleared'
    BY <2>1, <2>3 DEF BatchCleared, NoDemand, NoCross
  <2>7. FrozenKept
    BY <2>1, <2>2 DEF FrozenKept, TypeInv, TypeOK
  <2>8. ASSUME DelistingPolicy # "carry_last_mark", NEW j \in frozen', NEW a \in Accounts
        PROVE  shares'[a][j] = 0
    <3>1. shares[a] \in [Instruments -> Nat] /\ Kept(a, i) = 0
      BY <2>8 DEF TypeInv, TypeOK, Kept
    <3>2. j = i \/ shares[a][j] = 0
      BY <2>1, <2>8 DEF FrozenInv, FrozenGone
    <3>3. QED
      BY <2>1, <3>1, <3>2
  <2>9. FrozenGone'
    BY <2>8 DEF FrozenGone
  <2>10. QED
    BY <2>5, <2>6, <2>7, <2>9 DEF FrozenInv
<1>4. QED
  BY <1>1, <1>2, <1>3

\* FrozenInv, action by action, and what every step keeps of a frozen holding.
LEMMA FrozenStep ==
  ASSUME TypeInv, FrozenInv, [Next]_vars
  PROVE  FrozenInv' /\ FrozenKept
<1>1. CASE \E i \in Instruments : \E slip \in Slippage :
              \/ \E fill \in 0 .. EndOf("sell", i) : ExecuteSell(i, fill, slip)
              \/ \E fill \in 0 .. EndOf("buy", i) : ExecuteBuy(i, fill, slip)
  <2>1. PICK i \in Instruments, slip \in Slippage :
            \/ \E fill \in 0 .. EndOf("sell", i) : ExecuteSell(i, fill, slip)
            \/ \E fill \in 0 .. EndOf("buy", i) : ExecuteBuy(i, fill, slip)
    BY <1>1
  <2>2. PICK fill \in Nat : ExecuteSell(i, fill, slip) \/ ExecuteBuy(i, fill, slip)
    BY <2>1
  <2>3. QED
    BY <2>2, FrozenOrder
<1>2. CASE \E e \in Events : AdjustShares(e)
  BY <1>2, FrozenAdjust
<1>3. CASE \/ ActionsDone \/ Decide \/ NoBatch \/ SellsDone \/ AcceptCrosses
           \/ DelistingsDone \/ RecordDay \/ UNCHANGED vars
           \/ \E e \in Events : AccrueDividend(e) \/ PayDividend(e)
  BY <1>3, FrozenControl
<1>4. CASE Finished
  BY <1>4, FrozenControl DEF Finished
<1>5. CASE \/ PlanSells \/ PlanBuys \/ NetDemands
           \/ BuysDone \/ MarkToMarket \/ \E i \in Instruments : Delist(i)
  BY <1>5, FrozenPlan, FrozenNetting, FrozenClose
<1>6. CASE \/ DropCrosses \/ CrossesDone
           \/ \E i \in Instruments : \E seller \in Strategies :
                  \E buyer \in Strategies : SettleCross(i, seller, buyer)
  BY <1>6, FrozenCrosses
<1>7. QED
  BY <1>1, <1>2, <1>3, <1>4, <1>5, <1>6 DEF Next

\* What is frozen stays out of every batch, in every reachable state.
LEMMA FrozenInvariant == Spec => []FrozenInv
<1>1. Init => FrozenInv
  BY DEF Init, FrozenInv, FrozenIdle, BatchCleared, FrozenGone
<1>2. TypeInv /\ FrozenInv /\ [Next]_vars => FrozenInv'
  BY FrozenStep
<1>3. QED
  BY <1>1, <1>2, TypeInvariant, PTL DEF Spec

\* A delisted instrument is frozen for good: only corporate actions touch what
\* a carried position has left, and any other policy leaves nothing to touch.
THEOREM DelistedForGood == Spec => FrozenStaysFrozen
<1>1. TypeInv /\ FrozenInv /\ [Next]_vars => FrozenInv' /\ FrozenKept
  BY FrozenStep
<1>2. ASSUME FrozenKept, FrozenGone'
      PROVE  /\ \A i \in frozen : \A a \in Accounts :
                    pc = "actions" \/ shares'[a][i] = shares[a][i]
             /\ DelistingPolicy # "carry_last_mark" =>
                    \A i \in frozen' : \A a \in Accounts : shares'[a][i] = 0
  BY <1>2 DEF FrozenKept, FrozenGone
<1>3. FrozenInv' => FrozenGone'
  BY DEF FrozenInv
<1>4. QED
  BY <1>1, <1>2, <1>3, FrozenInvariant, TypeInvariant, PTL DEF Spec, FrozenStaysFrozen

-----------------------------------------------------------------------------
(***************************************************************************)
(* Valuations.  A mark is taken at the close of every day an instrument is *)
(* held and is kept, so a holding that outlives the close has one: nothing *)
(* but a purchase makes a holding, and a purchase is followed by a close.  *)
(* Before its delisting day an instrument is valued at its bar, from that  *)
(* day on at its mark.  A decision of same_close reads the bars of the day *)
(* before instead of the marks, so what was delisted before that day must  *)
(* be gone, or still have a bar.                                           *)
(***************************************************************************)

\* The data have both bars of every day before the delisting day.
BarsUntilDelisted ==
    \A i \in Instruments : \A d \in Days :
        d < DelistDay[i] => OpenPrice[i][d] > 0 /\ ClosePrice[i][d] > 0

\* Where delisted positions are carried, same_close needs their bars.
CarriedKeepBars ==
    Timing = "same_close" /\ DelistingPolicy = "carry_last_mark" =>
        \A i \in Instruments : \A d \in Days : ClosePrice[i][d] > 0

\* The stages between a close and the trades of the next day.
Overnight == {"actions", "decide", "trade", "delist", "record"}
MarksKnown == pc \in Overnight => \A i \in HeldBySomeone : mark[i] > 0

\* Whatever reached its delisting day is frozen once that day's close is done.
FrozenOnceDue ==
    /\ \A i \in Instruments : DelistDay[i] < day => i \in frozen
    /\ pc = "delist" => \A i \in Instruments \ queue : DelistDay[i] = day => i \in frozen
    /\ pc = "record" \/ (pc = "decide" /\ Timing # "same_close") =>
           \A i \in Instruments : DelistDay[i] = day => i \in frozen

\* A decision with same_close comes before the trades, after the first day.
DecidesLate == pc = "decide" /\ Timing = "same_close" => day > 1

ValuedInv == MarksKnown /\ FrozenOnceDue /\ DecidesLate

\* A corporate action changes a holding, but makes none.
LEMMA AdjustHeld ==
  ASSUME TypeInv, NEW e \in Events, AdjustShares(e), pc' # "aborted"
  PROVE  HeldBySomeone' \subseteq HeldBySomeone
<1>1. /\ \A a \in Accounts : Adjustable(a, e)
      /\ shares' = [a \in Accounts |->
               [shares[a] EXCEPT ![Actions[e].code] = @ + Delta(a, e)]]
  BY DEF AdjustShares, Abort
<1>2. ASSUME NEW s \in Strategies, NEW i \in Instruments, shares'[s][i] > 0
      PROVE  shares[s][i] > 0
  <2>1. s \in Accounts /\ shares[s] \in [Instruments -> Nat]
        /\ Adjustable(s, e) /\ Actions[e].code \in Instruments
    BY <1>1, IndexSets, ActionsAssumption DEF TypeInv, TypeOK
  <2>2. CASE i = Actions[e].code
    <3>1. shares'[s][i] = shares[s][i] + Delta(s, e)
      BY <1>1, <2>1, <2>2
    <3>2. QED
      BY <1>2, <2>1, <2>2, <3>1 DEF Adjustable
  <2>3. CASE i # Actions[e].code
    BY <1>1, <1>2, <2>1, <2>3
  <2>4. QED
    BY <2>2, <2>3
<1>3. QED
  BY <1>2 DEF HeldBySomeone, Held

\* Steps that leave the marks and the holdings as they are.
LEMMA ValuedQuiet ==
  ASSUME ValuedInv, day' = day, frozen' = frozen,
         pc' \in Overnight => /\ pc \in Overnight /\ mark' = mark
                              /\ HeldBySomeone' \subseteq HeldBySomeone,
         pc' = "delist" => pc = "delist" /\ queue' = queue,
         pc' \in {"record", "decide"} => pc' = pc
  PROVE  ValuedInv'
<1>1. MarksKnown'
  BY DEF ValuedInv, MarksKnown
<1>2. FrozenOnceDue'
  BY DEF ValuedInv, FrozenOnceDue
<1>3. DecidesLate'
  BY DEF ValuedInv, DecidesLate
<1>4. QED
  BY <1>1, <1>2, <1>3 DEF ValuedInv

\* The close marks every holding.
LEMMA CloseValued ==
  ASSUME TypeInv, ValuedInv, MarkToMarket
  PROVE  ValuedInv'
<1>1. CASE \E i \in HeldBySomeone :
               ~Observed(i) /\ (DelistEffective(i) => mark[i] = 0)
  BY <1>1, ValuedQuiet DEF MarkToMarket, Abort, book, Overnight
<1>2. CASE \A i \in HeldBySomeone :
               Observed(i) \/ (DelistEffective(i) /\ mark[i] # 0)
  <2>1. /\ mark' = [i \in Instruments |->
                  IF i \in HeldBySomeone /\ Observed(i)
                  THEN ClosePrice[i][day] ELSE mark[i]]
        /\ queue' = {i \in Instruments : DelistDay[i] = day} \ frozen
        /\ pc' = "delist" /\ UNCHANGED <<day, shares, frozen>>
    BY <1>2 DEF MarkToMarket, ledger
  <2>2. ASSUME NEW i \in HeldBySomeone PROVE mark'[i] > 0
    <3>1. i \in Instruments /\ mark[i] \in Nat
      BY DEF HeldBySomeone, Held, TypeInv, TypeOK
    <3>2. QED
      BY <1>2, <2>1, <3>1 DEF Observed
  <2>3. MarksKnown'
    <3>1. HeldBySomeone' = HeldBySomeone
      BY <2>1 DEF HeldBySomeone, Held
    <3>2. QED
      BY <2>2, <3>1 DEF MarksKnown
  <2>4. FrozenOnceDue'
    BY <2>1 DEF ValuedInv, FrozenOnceDue
  <2>5. QED
    BY <2>1, <2>3, <2>4 DEF ValuedInv, DecidesLate
<1>3. QED
  BY <1>1, <1>2

\* A disposal makes no holding, and freezes what reached its day.
LEMMA DelistValued ==
  ASSUME TypeInv, ValuedInv, NEW i \in Instruments, Delist(i)
  PROVE  ValuedInv'
<1>1. /\ pc = "delist" /\ UNCHANGED <<day, pc, mark>>
      /\ shares' = [a \in Accounts |-> [shares[a] EXCEPT ![i] = Kept(a, i)]]
      /\ frozen' = frozen \union {i} /\ queue' = queue \ {i}
  BY DEF Delist
<1>2. ASSUME NEW s \in Strategies, NEW j \in Instruments, shares'[s][j] > 0
      PROVE  shares[s][j] > 0
  <2>1. s \in Accounts /\ shares[s] \in [Instruments -> Nat]
    BY IndexSets DEF TypeInv, TypeOK
  <2>2. QED
    BY <1>1, <1>2, <2>1 DEF Kept
<1>3. HeldBySomeone' \subseteq HeldBySomeone
  BY <1>2 DEF HeldBySomeone, Held
<1>4. MarksKnown'
  BY <1>1, <1>3 DEF ValuedInv, MarksKnown
<1>5. FrozenOnceDue'
  BY <1>1 DEF ValuedInv, FrozenOnceDue
<1>6. QED
  BY <1>1, <1>4, <1>5 DEF ValuedInv, DecidesLate

\* The turns of the day: to a decision, to the record, to the next morning.
LEMMA TurnValued ==
  ASSUME TypeInv, ValuedInv, ActionsDone \/ Decide \/ DelistingsDone \/ RecordDay
  PROVE  ValuedInv'
<1>1. UNCHANGED <<shares, mark, frozen>>
  BY DEF ActionsDone, Decide, DelistingsDone, RecordDay, Abort, ledger, book
<1>2. day \in Nat /\ day >= 1 /\ pc \in Overnight /\ DelistDay \in [Instruments -> Nat]
  BY SizesAssumption DEF ActionsDone, Decide, DelistingsDone, RecordDay, Overnight,
     TypeInv, TypeOK, Days
<1>3. MarksKnown'
  BY <1>1, <1>2 DEF ValuedInv, MarksKnown, HeldBySomeone, Held
<1>4. FrozenOnceDue' /\ DecidesLate'
  <2>1. CASE ActionsDone
    BY <1>1, <2>1 DEF ActionsDone, ValuedInv, FrozenOnceDue, DecidesLate
  <2>2. CASE Decide
    BY <1>1, <2>2 DEF Decide, Abort, ValuedInv, FrozenOnceDue, DecidesLate
  <2>3. CASE DelistingsDone
    BY <1>1, <2>3 DEF DelistingsDone, ValuedInv, FrozenOnceDue, DecidesLate
  <2>4. CASE RecordDay
    <3>1. \/ pc' \in {"aborted", "done"} /\ day' = day
          \/ pc = "record" /\ pc' = "actions" /\ day' = day + 1
      BY <2>4 DEF RecordDay, Abort
    <3>2. QED
      BY <1>1, <1>2, <2>4, <3>1 DEF RecordDay, ValuedInv, FrozenOnceDue, DecidesLate
  <2>5. QED
    BY <2>1, <2>2, <2>3, <2>4
<1>5. QED
  BY <1>3, <1>4 DEF ValuedInv

\* ValuedInv, action by action.
LEMMA StepValued ==
  ASSUME TypeInv, ValuedInv, [Next]_vars
  PROVE  ValuedInv'
<1>1. CASE \E e \in Events : AdjustShares(e)
  <2>1. PICK e \in Events : AdjustShares(e)
    BY <1>1
  <2>2. /\ UNCHANGED <<day, mark, frozen>> /\ pc = "actions"
        /\ pc' = "aborted" \/ pc' = pc
    BY <2>1 DEF AdjustShares, Abort, book
  <2>3. pc' # "aborted" => HeldBySomeone' \subseteq HeldBySomeone
    BY <2>1, AdjustHeld
  <2>4. QED
    BY <2>2, <2>3, ValuedQuiet DEF Overnight
<1>2. CASE \E e \in Events : AccrueDividend(e) \/ PayDividend(e)
  BY <1>2, ValuedQuiet
     DEF AccrueDividend, PayDividend, Item, book, HeldBySomeone, Held
<1>3. CASE ActionsDone \/ Decide \/ DelistingsDone \/ RecordDay
  BY <1>3, TurnValued
<1>4. CASE \/ NoBatch \/ PlanSells \/ PlanBuys \/ NetDemands \/ SellsDone
           \/ DropCrosses \/ AcceptCrosses \/ CrossesDone \/ BuysDone
  <2>1. UNCHANGED <<day, frozen>> /\ pc' \notin Overnight
    BY <1>4 DEF NoBatch, PlanSells, PlanBuys, NetDemands, SellsDone, DropCrosses,
       AcceptCrosses, CrossesDone, BuysDone, Abort, book, Overnight
  <2>2. QED
    BY <2>1, ValuedQuiet DEF Overnight
<1>5. CASE \E i \in Instruments : \E slip \in Slippage :
              \/ \E fill \in 0 .. EndOf("sell", i) : ExecuteSell(i, fill, slip)
              \/ \E fill \in 0 .. EndOf("buy", i) : ExecuteBuy(i, fill, slip)
  <2>1. PICK i \in Instruments, slip \in Slippage :
            \/ \E fill \in 0 .. EndOf("sell", i) : ExecuteSell(i, fill, slip)
            \/ \E fill \in 0 .. EndOf("buy", i) : ExecuteBuy(i, fill, slip)
    BY <1>5
  <2>2. PICK fill \in Nat : ExecuteSell(i, fill, slip) \/ ExecuteBuy(i, fill, slip)
    BY <2>1
  <2>3. UNCHANGED <<day, frozen>> /\ pc' \notin Overnight
    BY <2>2 DEF ExecuteSell, ExecuteBuy, Abort, book, Overnight
  <2>4. QED
    BY <2>3, ValuedQuiet DEF Overnight
<1>6. CASE \E i \in Instruments : \E seller \in Strategies : \E buyer \in Strategies :
               SettleCross(i, seller, buyer)
  <2>1. UNCHANGED <<day, frozen>> /\ pc' \notin Overnight
    BY <1>6 DEF SettleCross, book, Overnight
  <2>2. QED
    BY <2>1, ValuedQuiet DEF Overnight
<1>7. CASE MarkToMarket
  BY <1>7, CloseValued
<1>8. CASE \E i \in Instruments : Delist(i)
  BY <1>8, DelistValued
<1>9. CASE Finished \/ UNCHANGED vars
  BY <1>9 DEF Finished, vars, ledger, book, batch, ValuedInv, MarksKnown,
     FrozenOnceDue, DecidesLate, HeldBySomeone, Held
<1>10. QED
  BY <1>1, <1>2, <1>3, <1>4, <1>5, <1>6, <1>7, <1>8, <1>9 DEF Next

\* Nobody holds anything at first.
LEMMA InitValued == Init => ValuedInv
<1> SUFFICES ASSUME Init PROVE ValuedInv
  OBVIOUS
<1>1. day = 1 /\ pc = "actions" /\ frozen = {}
      /\ shares = [a \in Accounts |-> [i \in Instruments |-> 0]]
  BY DEF Init
<1>2. HeldBySomeone = {}
  BY <1>1, IndexSets DEF HeldBySomeone, Held
<1>3. \A i \in Instruments : DelistDay[i] \in Nat /\ DelistDay[i] >= 1
  BY SizesAssumption
<1>4. QED
  BY <1>1, <1>2, <1>3 DEF ValuedInv, MarksKnown, FrozenOnceDue, DecidesLate

\* No batch meets a holding it cannot value.
LEMMA BatchValued ==
  ASSUME TypeInv, ValuedInv, BarsUntilDelisted, pc = "trade",
         NEW s \in Strategies, NEW i \in Held(s)
  PROVE  ValuationPrice(i) # 0
<1>1. /\ i \in Instruments /\ mark[i] \in Nat /\ day \in Days /\ day \in Nat
      /\ RefPrice(i) \in Nat /\ DelistDay[i] \in Nat
  <2>1. i \in Instruments /\ mark[i] \in Nat /\ day \in Days /\ day \in Nat
    BY DEF Held, TypeInv, TypeOK, Days
  <2>2. RefPrice(i) \in Nat
    BY <2>1, PriceTypes DEF TypeInv
  <2>3. QED
    BY <2>1, <2>2, SizesAssumption DEF Days
<1>2. mark[i] > 0
  BY DEF ValuedInv, MarksKnown, Overnight, HeldBySomeone
<1>3. day < DelistDay[i] => RefPrice(i) > 0
  BY <1>1 DEF BarsUntilDelisted, RefPrice
<1>4. QED
  BY <1>1, <1>2, <1>3 DEF ValuationPrice, DelistEffective

\* No decision of same_close meets a holding without a bar the day before.
LEMMA DecisionValued ==
  ASSUME TypeInv, FrozenInv, ValuedInv, BarsUntilDelisted, CarriedKeepBars,
         pc = "decide"
  PROVE  ~Unpriced
<1> SUFFICES ASSUME Timing = "same_close", NEW s \in Strategies, NEW i \in Held(s)
             PROVE  ClosePrice[i][day - 1] # 0
  BY DEF Unpriced, Deciding
<1>1. /\ i \in Instruments /\ shares[s][i] > 0 /\ s \in Accounts
      /\ day \in Nat /\ day - 1 \in Days /\ day - 1 \in Nat /\ DelistDay[i] \in Nat
  BY SizesAssumption, IndexSets
     DEF Held, TypeInv, TypeOK, Days, ValuedInv, DecidesLate
<1>2. CASE DelistingPolicy = "carry_last_mark"
  BY <1>1, <1>2 DEF CarriedKeepBars
<1>3. CASE DelistingPolicy # "carry_last_mark"
  <2>1. i \notin frozen
    BY <1>1, <1>3 DEF FrozenInv, FrozenGone
  <2>2. day - 1 < DelistDay[i]
    BY <1>1, <2>1 DEF ValuedInv, FrozenOnceDue
  <2>3. QED
    BY <1>1, <2>2 DEF BarsUntilDelisted
<1>4. QED
  BY <1>2, <1>3

\* A holding can be valued whenever a decision or a batch needs it, provided
\* the data have the bars of every listed day: no delisting, corporate action
\* or fill leaves one without a price.
THEOREM HoldingsArePriced ==
  ASSUME BarsUntilDelisted, CarriedKeepBars
  PROVE  Spec => []HoldingsPriced
<1>1. Init => ValuedInv /\ HoldingsPriced
  BY InitValued DEF Init, HoldingsPriced
<1>2. TypeInv /\ ValuedInv /\ [Next]_vars => ValuedInv'
  BY StepValued
<1>3. ASSUME TypeInv, FrozenInv, ValuedInv, HoldingsPriced, [Next]_vars
      PROVE  HoldingsPriced'
  <2>1. CASE Decide
    BY <1>3, <2>1, DecisionValued DEF Decide, HoldingsPriced
  <2>2. CASE PlanSells
    <3>1. ~ \E s \in Targeted : \E i \in Held(s) : ValuationPrice(i) = 0
      BY <1>3, <2>2, BatchValued DEF PlanSells, Targeted
    <3>2. QED
      BY <1>3, <2>2, <3>1 DEF PlanSells, HoldingsPriced
  <2>3. CASE \E i \in Instruments : \E slip \in Slippage :
                \/ \E fill \in 0 .. EndOf("sell", i) : ExecuteSell(i, fill, slip)
                \/ \E fill \in 0 .. EndOf("buy", i) : ExecuteBuy(i, fill, slip)
    <3>1. PICK i \in Instruments, slip \in Slippage :
              \/ \E fill \in 0 .. EndOf("sell", i) : ExecuteSell(i, fill, slip)
              \/ \E fill \in 0 .. EndOf("buy", i) : ExecuteBuy(i, fill, slip)
      BY <2>3
    <3>2. PICK fill \in Nat : ExecuteSell(i, fill, slip) \/ ExecuteBuy(i, fill, slip)
      BY <3>1
    <3>3. outcome' \in BookingFailures \union {outcome}
      BY <3>2 DEF ExecuteSell, ExecuteBuy, Abort, BookingFailures
    <3>4. QED
      BY <1>3, <3>3 DEF HoldingsPriced, BookingFailures
  <2>4. CASE \E e \in Events : AccrueDividend(e) \/ PayDividend(e) \/ AdjustShares(e)
    BY <1>3, <2>4 DEF AccrueDividend, PayDividend, AdjustShares, Item, Abort,
       HoldingsPriced
  <2>5. CASE \/ ActionsDone \/ NoBatch \/ PlanBuys \/ NetDemands \/ SellsDone
             \/ DropCrosses \/ CrossesDone \/ BuysDone \/ DelistingsDone
             \/ UNCHANGED vars \/ Finished
             \/ \E i \in Instruments : Delist(i)
             \/ \E i \in Instruments : \E seller \in Strategies :
                    \E buyer \in Strategies : SettleCross(i, seller, buyer)
    BY <1>3, <2>5 DEF ActionsDone, NoBatch, PlanBuys, NetDemands, SellsDone,
       DropCrosses, CrossesDone, BuysDone, DelistingsDone, Finished, vars, Delist,
       SettleCross, HoldingsPriced
  <2>6. CASE AcceptCrosses \/ MarkToMarket \/ RecordDay
    BY <1>3, <2>6 DEF AcceptCrosses, MarkToMarket, RecordDay, Abort, HoldingsPriced
  <2>7. QED
    BY <1>3, <2>1, <2>2, <2>3, <2>4, <2>5, <2>6 DEF Next
<1>4. QED
  BY <1>1, <1>2, <1>3, TypeInvariant, FrozenInvariant, PTL DEF Spec

-----------------------------------------------------------------------------
(* Division, and the parts of a cost or of a fill.                         *)

\* A whole multiple divides without a rest.
LEMMA QuotientExact ==
  ASSUME NEW k \in Int, NEW d \in Nat \ {0}
  PROVE  (k * d) \div d = k
<1>1. PICK n \in Int : n = k * d
  OBVIOUS
<1>2. PICK q \in Int : q = n \div d /\ q * d <= n /\ n < q * d + d
  OBVIOUS
<1>3. ASSUME q + 1 <= k PROVE FALSE
  <2>1. (q + 1) * d <= k * d /\ (q + 1) * d = q * d + d
    BY <1>3
  <2>2. QED
    BY <1>1, <1>2, <2>1
<1>4. ASSUME k + 1 <= q PROVE FALSE
  <2>1. (k + 1) * d <= q * d /\ (k + 1) * d = k * d + d
    BY <1>4
  <2>2. k * d \in Int /\ q * d \in Int
    OBVIOUS
  <2>3. QED
    BY <1>1, <1>2, <2>1, <2>2
<1>5. q = k
  BY <1>3, <1>4
<1>6. QED
  BY <1>1, <1>2, <1>5

\* A part of a whole is charged part of a cost.
LEMMA QuotientWithin ==
  ASSUME NEW c \in Nat, NEW a \in Nat, NEW d \in Nat \ {0}, a <= d
  PROVE  (c * a) \div d \in Nat /\ (c * a) \div d <= c
<1>1. c * a \in Nat /\ c * a <= c * d
  <2>1. PICK b \in Nat : d = a + b
    BY d - a \in Nat
  <2>2. c * d = c * a + c * b /\ c * b \in Nat /\ c * a \in Nat
    BY <2>1
  <2>3. QED
    BY <2>2
<1>2. PICK n \in Nat, m \in Nat : n = c * a /\ m = c * d /\ n <= m
  BY <1>1
<1>3. PICK q \in Nat : q = n \div d /\ q * d <= n
  OBVIOUS
<1>4. ASSUME c + 1 <= q PROVE FALSE
  <2>1. (c + 1) * d <= q * d /\ (c + 1) * d = c * d + d
    BY <1>4
  <2>2. QED
    BY <1>2, <1>3, <2>1
<1>5. QED
  BY <1>2, <1>3, <1>4

\* All but one strategy are charged their rounded part of the cost.
LEMMA CostShareForm ==
  ASSUME NEW n \in Nat, NEW filled \in [1..n -> Nat], NEW cost \in Int,
         Total(filled) # 0
  PROVE  \E last \in 1..n : \A s \in 1..n : s # last /\ filled[s] > 0 =>
            CostShare(cost, filled)[s] = (cost * filled[s]) \div Total(filled)
<1> DEFINE owners == {s \in 1..n : filled[s] > 0}
           last == CHOOSE s \in owners : \A t \in owners : t <= s
           share == [s \in 1..n |-> IF s \in owners /\ s # last
                                    THEN (cost * filled[s]) \div Total(filled) ELSE 0]
<1>1. CostShare(cost, filled) = [s \in 1..n |->
         IF owners # {} /\ s = last THEN cost - Total(share) ELSE share[s]]
  BY DEF CostShare
<1>2. 1 .. n # {}
  <2>1. SUFFICES ASSUME 1 .. n = {} PROVE Total(filled) = 0
    OBVIOUS
  <2>2. filled \in [1..n -> Int] /\ \A s \in 1..n : filled[s] = 0
    BY <2>1
  <2>3. QED
    BY <2>2, TotalZero
<1>3. PICK e \in 1..n : last \in 1..n => e = last
  BY <1>2
<1>4. ASSUME NEW s \in 1..n, s # e, filled[s] > 0
      PROVE  CostShare(cost, filled)[s] = (cost * filled[s]) \div Total(filled)
  <2>1. s # last /\ s \in owners
    BY <1>3, <1>4
  <2>2. share[s] = (cost * filled[s]) \div Total(filled)
    BY <2>1
  <2> HIDE DEF last, share, owners
  <2>3. QED
    BY <1>1, <2>1, <2>2
<1>5. QED
  BY <1>4

\* A cost of so much a share is charged exactly.
LEMMA ExactShare ==
  ASSUME NEW filled \in [Strategies -> Nat], NEW m \in Int,
         NEW cost \in Int, cost = Total(filled) * m, Total(filled) # 0, NEW s \in Strategies
  PROVE  CostShare(cost, filled)[s] = filled[s] * m
<1>0. IsFiniteSet(Strategies)
  BY IndexSets
<1>1. PICK all \in Nat \ {0} : all = Total(filled)
  BY <1>0, TotalNat
<1>2. cost = all * m
  BY <1>1
<1>3. PICK g \in [Strategies -> Int] : g = CostShare(cost, filled) /\ Total(g) = cost
                                 /\ \A t \in Strategies : filled[t] = 0 => g[t] = 0
  <2>1. filled \in [1..NumStrategies -> Nat] /\ cost \in Int /\ NumStrategies \in Nat
    BY IndexSets
  <2>2. /\ CostShare(cost, filled) \in [1..NumStrategies -> Int]
        /\ \A t \in 1..NumStrategies : filled[t] = 0 => CostShare(cost, filled)[t] = 0
        /\ Total(filled) # 0 => Total(CostShare(cost, filled)) = cost
    BY <2>1, CostShareTotal
  <2>3. QED
    BY <1>1, <2>2, IndexSets
<1>4. PICK last \in Strategies : \A t \in Strategies : t # last /\ filled[t] > 0 =>
         g[t] = (cost * filled[t]) \div all
  <2>1. \E last \in Strategies : \A t \in Strategies : t # last /\ filled[t] > 0 =>
            CostShare(cost, filled)[t] = (cost * filled[t]) \div Total(filled)
    <3>1. filled \in [1..NumStrategies -> Nat] /\ cost \in Int
          /\ NumStrategies \in Nat /\ Strategies = 1..NumStrategies
      BY IndexSets
    <3>2. \E last \in 1..NumStrategies : \A t \in 1..NumStrategies : t # last /\ filled[t] > 0 =>
            CostShare(cost, filled)[t] = (cost * filled[t]) \div Total(filled)
      BY <3>1, CostShareForm
    <3>3. PICK last \in Strategies : \A t \in 1..NumStrategies : t # last /\ filled[t] > 0 =>
            CostShare(cost, filled)[t] = (cost * filled[t]) \div Total(filled)
      BY <3>1, <3>2
    <3>4. QED
      BY <3>1, <3>3
  <2>2. QED
    BY <1>1, <1>3, <2>1
<1>5. PICK h \in [Strategies -> Int] : \A t \in Strategies : h[t] = filled[t] * m
  <2>1. [t \in Strategies |-> filled[t] * m] \in [Strategies -> Int]
    OBVIOUS
  <2>2. QED
    BY <2>1
<1>6. ASSUME NEW t \in Strategies, t # last PROVE g[t] = h[t]
  <2>1. CASE filled[t] = 0
    BY <1>3, <1>5, <2>1
  <2>2. CASE filled[t] > 0
    <3>1. PICK f \in Nat, k \in Int : f = filled[t] /\ k = f * m
      OBVIOUS
    <3>2. cost * f = k * all
      <4>1. (all * m) * f = (f * m) * all
        OBVIOUS
      <4>2. QED
        BY <1>2, <3>1, <4>1
    <3>3. (k * all) \div all = k
      BY QuotientExact
    <3>4. QED
      BY <1>4, <1>5, <1>6, <2>2, <3>1, <3>2, <3>3
  <2>3. QED
    BY <2>1, <2>2
<1>7. Total(g) = Total(h) + (g[last] - h[last])
  BY ONLY <1>0, <1>6, TotalShift
<1>8. Total(h) = all * m
  <2>1. filled \in [Strategies -> Int]
    OBVIOUS
  <2>2. Total(h) = Total(filled) * m
    BY ONLY <1>0, <1>5, <2>1, TotalScale
  <2>3. QED
    BY <1>1, <2>2, IndexSets
<1>9. g[last] = h[last]
  <2>1. PICK x \in Int, y \in Int, z \in Int :
          x = g[last] /\ y = h[last] /\ z = all * m
    <3>1. g[last] \in Int /\ h[last] \in Int /\ all * m \in Int
      BY <1>1
    <3>2. QED
      BY <3>1
  <2>2. z = z + (x - y)
    BY <1>2, <1>3, <1>7, <1>8, <2>1
  <2>3. QED
    BY <2>1, <2>2
<1>10. g[s] = h[s]
  BY <1>6, <1>9
<1>11. QED
  BY <1>1, <1>2, <1>3, <1>5, <1>10

\* Nobody is charged more than the whole cost.
LEMMA ShareBelow ==
  ASSUME NEW filled \in [Strategies -> Nat], NEW cost \in Nat,
         Total(filled) # 0, NEW s \in Strategies
  PROVE  CostShare(cost, filled)[s] <= cost
<1>0. IsFiniteSet(Strategies)
  BY IndexSets
<1>1. PICK all \in Nat \ {0} : all = Total(filled) /\ \A t \in Strategies : filled[t] <= all
  <2>1. Total(filled) \in Nat /\ \A t \in Strategies : filled[t] <= Total(filled)
    BY <1>0, TotalNat
  <2>2. QED
    BY <2>1
<1>2. PICK g \in [Strategies -> Int] : g = CostShare(cost, filled) /\ Total(g) = cost
                                 /\ \A t \in Strategies : filled[t] = 0 => g[t] = 0
  <2>1. filled \in [1..NumStrategies -> Nat] /\ cost \in Int /\ NumStrategies \in Nat
    BY IndexSets
  <2>2. /\ CostShare(cost, filled) \in [1..NumStrategies -> Int]
        /\ \A t \in 1..NumStrategies : filled[t] = 0 => CostShare(cost, filled)[t] = 0
        /\ Total(filled) # 0 => Total(CostShare(cost, filled)) = cost
    BY <2>1, CostShareTotal
  <2>3. QED
    BY <1>1, <2>2, IndexSets
<1>3. PICK last \in Strategies : \A t \in Strategies : t # last /\ filled[t] > 0 =>
         g[t] = (cost * filled[t]) \div all
  <2>1. \E last \in Strategies : \A t \in Strategies : t # last /\ filled[t] > 0 =>
            CostShare(cost, filled)[t] = (cost * filled[t]) \div Total(filled)
    <3>1. filled \in [1..NumStrategies -> Nat] /\ cost \in Int
          /\ NumStrategies \in Nat /\ Strategies = 1..NumStrategies
      BY IndexSets
    <3>2. \E last \in 1..NumStrategies : \A t \in 1..NumStrategies : t # last /\ filled[t] > 0 =>
            CostShare(cost, filled)[t] = (cost * filled[t]) \div Total(filled)
      BY <3>1, CostShareForm
    <3>3. PICK last \in Strategies : \A t \in 1..NumStrategies : t # last /\ filled[t] > 0 =>
            CostShare(cost, filled)[t] = (cost * filled[t]) \div Total(filled)
      BY <3>1, <3>2
    <3>4. QED
      BY <3>1, <3>3
  <2>2. QED
    BY <1>1, <1>2, <2>1
<1>4. ASSUME NEW t \in Strategies, t # last PROVE g[t] \in Nat /\ g[t] <= cost
  <2>1. CASE filled[t] = 0
    BY <1>2, <2>1
  <2>2. CASE filled[t] > 0
    <3>1. g[t] = (cost * filled[t]) \div all
      BY <1>3, <1>4, <2>2
    <3>2. QED
      BY <1>1, <3>1, QuotientWithin
  <2>3. QED
    BY <2>1, <2>2
<1>5. g[last] <= cost
  <2>1. PICK h \in [Strategies -> Int] : h = [t \in Strategies |-> IF t = last THEN 0 ELSE g[t]]
    <3>1. [t \in Strategies |-> IF t = last THEN 0 ELSE g[t]] \in [Strategies -> Int]
      OBVIOUS
    <3>2. QED
      BY <3>1
  <2>2. \A t \in Strategies : (t # last => h[t] = g[t]) /\ h[last] = 0
    BY <2>1
  <2>3. Total(g) = Total(h) + (g[last] - h[last])
    <3>1. \A t \in Strategies : t # last => g[t] = h[t]
      BY <2>2
    <3>2. QED
      BY ONLY <1>0, <3>1, TotalShift
  <2>4. Total(h) \in Nat
    <3>1. \A t \in Strategies : h[t] \in Nat
      BY <1>4, <2>2
    <3>2. h \in [Strategies -> Nat]
      BY <3>1
    <3>3. QED
      BY <1>0, <3>2, TotalNat
  <2>5. QED
    BY <1>2, <2>2, <2>3, <2>4
<1>6. QED
  BY <1>2, <1>4, <1>5

\* The parts of a fill are whole lots.
LEMMA AllocationInLots ==
  ASSUME NEW S, IsFiniteSet(S), NEW requested \in [S -> Nat],
         NEW lot \in Nat \ {0}, NEW fill \in 0 .. Total(requested), NEW s \in S,
         Allocation(fill, requested, lot)[s] > 0
  PROVE  Allocation(fill, requested, lot)[s] >= lot
<1> DEFINE base == BaseShare(fill, requested, lot)
           given == Allocation(fill, requested, lot)
<1>1. fill # 0
  BY DEF Allocation
<1>2. fill \in 1 .. Total(requested)
  BY <1>1, TotalNat
<1>3. base[s] \in Nat
  BY <1>2, BaseShareType
<1>4. base[s] = 0 \/ base[s] >= lot
  <2>1. PICK k \in Int : base[s] = k * lot
    <3>1. Total(requested) \in Nat \ {0} /\ fill * requested[s] \in Int
      BY <1>2, TotalNat
    <3>2. PICK share \in Int : share = (fill * requested[s]) \div Total(requested)
      BY <3>1
    <3>3. share \div lot \in Int /\ base[s] = (share \div lot) * lot
      BY <3>2 DEF BaseShare, FloorTo
    <3>4. QED
      BY <3>3
  <2> HIDE DEF base
  <2>2. k >= 1 \/ k <= 0
    OBVIOUS
  <2>3. k >= 1 => k * lot >= lot
    OBVIOUS
  <2>4. k <= 0 => k * lot <= 0
    OBVIOUS
  <2>5. QED
    BY <1>3, <2>1, <2>2, <2>3, <2>4
<1>5. given[s] = base[s] \/ given[s] = base[s] + lot
  BY <1>1 DEF Allocation
<1> HIDE DEF base
<1>6. QED
  BY <1>3, <1>4, <1>5

-----------------------------------------------------------------------------
(***************************************************************************)
(* Solvency.  A sleeve is estimated to bear the whole minimum commission   *)
(* of a buy, or its own shares' commission if that is more, and whichever  *)
(* of the two the order pays, its part is no more: what is affordable can  *)
(* be booked.  A sale could cost a sleeve more than it brings; it does not *)
(* when each lot pays the minimum commission and its tax.  The crosses are *)
(* accepted only when all of them together leave every sleeve solvent, and *)
(* each one that is settled leaves that sum as it was.                     *)
(***************************************************************************)

\* The prices an instrument may trade at, before slippage.
Bars(i) == ({OpenPrice[i][d] : d \in Days} \union {ClosePrice[i][d] : d \in Days}) \ {0}

\* Money is counted in a unit in which the fees on every share are whole.
WholeFees ==
    \A i \in Instruments : \A bar \in Bars(i) : \A slip \in Slippage :
        /\ bar - slip > 0 /\ bar + slip > 0
        /\ (bar - slip) % CommissionPer = 0 /\ (bar - slip) % SellTaxPer = 0
        /\ (bar + slip) % CommissionPer = 0 /\ (bar + slip) % BuyTaxPer = 0

\* The lots a sell order may be filled in: a liquidation sells single shares.
OrderLots(i) ==
    {LotSize[i]} \union {1 : t \in {t \in Targets : t.kind = "liquidate"}}

\* A lot sold brings at least the minimum commission and its tax, and a share
\* the fees in proportion.
SalesPayFees ==
    \A i \in Instruments : \A bar \in Bars(i) : \A slip \in Slippage :
        LET price == bar - slip
            tax == price \div SellTaxPer
        IN  /\ price \div CommissionPer + tax <= price
            /\ \A lot \in OrderLots(i) : MinCommission <= lot * (price - tax)

\* Fees on whole shares are in proportion to them.
LEMMA FeesInProportion ==
  ASSUME NEW k \in Int, NEW price \in Nat, NEW per \in Nat \ {0}, price % per = 0
  PROVE  (k * price) \div per = k * (price \div per) /\ price \div per \in Nat
<1>1. PICK m \in Nat : price = m * per
  BY price = (price \div per) * per
<1>2. price \div per = m
  BY <1>1, QuotientExact
<1>3. k * price = (k * m) * per /\ k * m \in Int
  BY <1>1
<1>4. (k * price) \div per = k * m
  BY <1>3, QuotientExact
<1>5. QED
  BY <1>2, <1>4

\* A tax of so much a share is split by shares.
LEMMA TaxShare ==
  ASSUME NEW part \in [Strategies -> Nat], NEW s \in Strategies, part[s] > 0,
         NEW price \in Nat, NEW per \in Nat \ {0}, price % per = 0
  PROVE  /\ CostShare((Total(part) * price) \div per, part)[s]
              = part[s] * (price \div per)
         /\ price \div per \in Nat
<1>1. PICK all \in Nat : all = Total(part) /\ all # 0
  <2>1. Total(part) \in Nat /\ part[s] <= Total(part)
    BY TotalNat, IndexSets
  <2>2. QED
    BY <2>1
<1>2. (all * price) \div per = all * (price \div per) /\ price \div per \in Nat
  <2>1. all \in Int
    OBVIOUS
  <2>2. QED
    BY <2>1, FeesInProportion, Zenon
<1>3. PICK m \in Nat : m = price \div per
  BY <1>2
<1>4. CostShare(all * m, part)[s] = part[s] * m
  <2>1. PICK cost \in Int : cost = all * m
    OBVIOUS
  <2>2. QED
    BY <1>1, <2>1, ExactShare
<1>5. QED
  BY <1>1, <1>2, <1>3, <1>4

\* A strategy bears no more of a commission than the minimum or its own rate.
LEMMA CommissionShare ==
  ASSUME NEW part \in [Strategies -> Nat], NEW s \in Strategies, part[s] > 0,
         NEW price \in Nat \ {0}, price % CommissionPer = 0
  PROVE  CostShare(Commission(Total(part) * price), part)[s]
           <= MaxOf(MinCommission, part[s] * (price \div CommissionPer))
<1>1. PICK all \in Nat, b \in Nat, min \in Nat :
        all = Total(part) /\ b = part[s] /\ min = MinCommission /\ 0 < b /\ b <= all
  <2>1. Total(part) \in Nat /\ part[s] <= Total(part) /\ part[s] \in Nat
    BY TotalNat, IndexSets
  <2>2. MinCommission \in Nat
    BY ConfigAssumption
  <2>3. QED
    BY <2>1, <2>2
<1>2. PICK m \in Nat : m = price \div CommissionPer
                       /\ (all * price) \div CommissionPer = all * m
  <2>1. CommissionPer \in Nat \ {0} /\ all \in Int /\ price \in Nat
    BY ConfigAssumption
  <2>2. (all * price) \div CommissionPer = all * (price \div CommissionPer)
        /\ price \div CommissionPer \in Nat
    BY <2>1, FeesInProportion, Zenon
  <2>3. QED
    BY <2>2
<1>3. all * price # 0
  BY <1>1
<1>4. Commission(all * price) = MaxOf(min, all * m)
  BY <1>1, <1>2, <1>3 DEF Commission
<1>5. all * m \in Nat /\ b * m \in Nat
  BY <1>1
<1>6. CASE Commission(all * price) = min
  <2>1. CostShare(min, part)[s] <= min
    BY <1>1, ShareBelow
  <2>2. CostShare(min, part)[s] \in Int
    BY <1>1, ShareType
  <2>3. QED
    BY <1>1, <1>2, <1>5, <1>6, <2>1, <2>2 DEF MaxOf
<1>7. CASE Commission(all * price) = all * m
  <2>1. CostShare(all * m, part)[s] = b * m
    <3>1. PICK cost \in Int : cost = all * m
      BY <1>5
    <3>2. QED
      BY <1>1, <3>1, ExactShare
  <2>2. QED
    BY <1>1, <1>2, <1>5, <1>7, <2>1 DEF MaxOf
<1>8. QED
  BY <1>1, <1>4, <1>5, <1>6, <1>7 DEF MaxOf

\* A buy costs no more than its estimate.
LEMMA EstimateCovers ==
  ASSUME NEW bought \in [Strategies -> Nat], NEW s \in Strategies, bought[s] > 0,
         NEW price \in Nat \ {0}, price % CommissionPer = 0, price % BuyTaxPer = 0
  PROVE  BuyCosts(bought, price)[s] <= Estimate(bought[s], price)
<1>0. CommissionPer \in Nat \ {0} /\ BuyTaxPer \in Nat \ {0} /\ MinCommission \in Nat
  BY ConfigAssumption
<1>1. PICK b \in Nat, all \in Nat : b = bought[s] /\ all = Total(bought)
  BY TotalNat, IndexSets
<1>2. PICK fee \in Int : fee = CostShare(Commission(all * price), bought)[s]
  <2>1. Commission(all * price) \in Int
    BY FeeTypes
  <2>2. QED
    BY <2>1, ShareType
<1>3. fee <= MaxOf(MinCommission, b * (price \div CommissionPer))
  BY <1>1, <1>2, CommissionShare
<1>4. CostShare((all * price) \div BuyTaxPer, bought)[s] = b * (price \div BuyTaxPer)
  BY <1>0, <1>1, TaxShare
<1>5. (b * price) \div CommissionPer = b * (price \div CommissionPer)
      /\ (b * price) \div BuyTaxPer = b * (price \div BuyTaxPer)
      /\ price \div CommissionPer \in Nat /\ price \div BuyTaxPer \in Nat
  <2>1. b \in Int /\ price \in Nat
    OBVIOUS
  <2>2. (b * price) \div CommissionPer = b * (price \div CommissionPer)
        /\ price \div CommissionPer \in Nat
    BY <1>0, <2>1, FeesInProportion, Zenon
  <2>3. (b * price) \div BuyTaxPer = b * (price \div BuyTaxPer)
        /\ price \div BuyTaxPer \in Nat
    BY <1>0, <2>1, FeesInProportion, Zenon
  <2>4. QED
    BY <2>2, <2>3
<1>6. PICK t \in Nat, u \in Nat, x \in Nat :
        /\ t = b * (price \div BuyTaxPer) /\ x = b * price
        /\ u = MaxOf(MinCommission, b * (price \div CommissionPer))
  <2>1. b * (price \div BuyTaxPer) \in Nat /\ b * price \in Nat
        /\ b * (price \div CommissionPer) \in Nat
    BY <1>5
  <2>2. QED
    BY <1>0, <2>1 DEF MaxOf
<1>7. Estimate(bought[s], price) = x + u + t
  BY <1>1, <1>5, <1>6 DEF Estimate
<1>8. BuyCosts(bought, price)[s] = x + fee + t
  BY <1>1, <1>2, <1>4, <1>6 DEF BuyCosts
<1>9. QED
  BY <1>2, <1>3, <1>6, <1>7, <1>8

\* What a sleeve is left with of its offer, it can pay.
LEMMA AffordablePaid ==
  ASSUME NEW s, NEW i, NEW n \in Nat, NEW price, Affordable(s, i, n, price) # 0
  PROVE  Estimate(Affordable(s, i, n, price), price) <= cash[s]
<1> DEFINE givenBack == {j \in 0 .. n : \/ j = n
                              \/ /\ j % LotSize[i] = 0
                                 /\ Estimate(n - j, price) <= cash[s]}
<1>1. givenBack \in SUBSET Nat /\ n \in givenBack
  OBVIOUS
<1>2. Affordable(s, i, n, price) = n - First(givenBack)
  BY DEF Affordable
<1>3. First(givenBack) \in givenBack
  <2> HIDE DEF givenBack
  <2> QED
    BY <1>1, FirstMember
<1>4. First(givenBack) # n
  <2> HIDE DEF givenBack
  <2> QED
    BY <1>2
<1>5. Estimate(n - First(givenBack), price) <= cash[s]
  BY <1>3, <1>4
<1>6. QED
  BY <1>2, <1>5

\* What a market sale brings, strategy by strategy.
SaleProceeds(sold, price) ==
    LET notional == Total(sold) * price
    IN  [s \in Strategies |-> sold[s] * price
            - CostShare(Commission(notional), sold)[s]
            - CostShare(notional \div SellTaxPer, sold)[s]]

\* A sale of whole lots, each of which pays the fees, costs nothing.
LEMMA SaleCovered ==
  ASSUME NEW sold \in [Strategies -> Nat], NEW s \in Strategies, sold[s] > 0,
         NEW price \in Nat \ {0}, price % CommissionPer = 0, price % SellTaxPer = 0,
         NEW lot \in Nat \ {0}, sold[s] >= lot,
         price \div CommissionPer + price \div SellTaxPer <= price,
         MinCommission <= lot * (price - price \div SellTaxPer)
  PROVE  SaleProceeds(sold, price)[s] >= 0
<1>0. CommissionPer \in Nat \ {0} /\ SellTaxPer \in Nat \ {0} /\ MinCommission \in Nat
  BY ConfigAssumption
<1>1. PICK b \in Nat, all \in Nat : b = sold[s] /\ all = Total(sold) /\ b >= lot
  BY TotalNat, IndexSets
<1>2. PICK fee \in Int : fee = CostShare(Commission(all * price), sold)[s]
  <2>1. Commission(all * price) \in Int
    BY FeeTypes
  <2>2. QED
    BY <2>1, ShareType
<1>3. PICK m \in Nat, t \in Nat :
        m = price \div CommissionPer /\ t = price \div SellTaxPer
  BY <1>0
<1>4. fee <= MaxOf(MinCommission, b * m)
  BY <1>1, <1>2, <1>3, CommissionShare
<1>5. CostShare((all * price) \div SellTaxPer, sold)[s] = b * t
  BY <1>0, <1>1, <1>3, TaxShare
<1>6. MinCommission <= b * price - b * t
  <2>1. PICK net \in Nat : net = price - t
    BY <1>3
  <2>2. PICK k \in Nat : b = lot + k
    <3>1. b - lot \in Nat /\ b = lot + (b - lot)
      BY <1>1
    <3>2. QED
      BY <3>1
  <2>3. b * net = lot * net + k * net /\ k * net \in Nat /\ lot * net \in Nat
    BY <2>2
  <2>4. MinCommission <= lot * net
    BY <1>3, <2>1
  <2>5. b * net = b * price - b * t
    BY <2>1
  <2>6. QED
    BY <1>0, <2>3, <2>4, <2>5
<1>7. b * m <= b * price - b * t
  <2>1. PICK k \in Nat : price = m + t + k
    BY <1>3, price - (m + t) \in Nat
  <2>2. b * price = b * m + b * t + b * k /\ b * k \in Nat
    BY <2>1
  <2>3. b * m \in Nat /\ b * t \in Nat
    OBVIOUS
  <2>4. QED
    BY <2>2, <2>3
<1>8. PICK x \in Nat, y \in Nat, z \in Nat : x = b * price /\ y = b * t /\ z = b * m
  OBVIOUS
<1>9. SaleProceeds(sold, price)[s] = x - fee - y
  BY <1>1, <1>2, <1>5, <1>8 DEF SaleProceeds
<1>10. fee <= x - y
  BY <1>0, <1>2, <1>4, <1>6, <1>7, <1>8 DEF MaxOf
<1>11. QED
  BY <1>2, <1>8, <1>9, <1>10

-----------------------------------------------------------------------------
\* What is not traded today is not in today's batch.
PricedDemands ==
    pc \in Trading \ {"aborted"} =>
        \A i \in Instruments : RefPrice(i) = 0 =>
            \A s \in Strategies :
                residual["sell"][i][s] = 0 /\ residual["buy"][i][s] = 0

\* The crosses still to be settled leave every sleeve solvent together.
CrossesPaid == pc = "settle" => \A s \in Strategies : CashAfterCrosses(s) >= 0

SolventInv == PricedDemands /\ CrossesPaid /\ SleevesSolvent

\* Planning asks for nothing without a price.
LEMMA PlanPriced ==
  ASSUME TypeInv, FrozenInv, PricedDemands, PlanSells \/ PlanBuys
  PROVE  PricedDemands'
<1>1. CASE pc' = "aborted"
  BY <1>1 DEF PricedDemands
<1>2. CASE PlanSells /\ pc' # "aborted"
  <2>1. /\ residual' = [residual EXCEPT !["sell"] =
               [i \in Instruments |-> [s \in Strategies |-> SellDemand(s, i)]]]
        /\ day' = day /\ pc = "trade"
    BY <1>2 DEF PlanSells, Abort
  <2>2. residual = NoDemand
    BY <2>1 DEF FrozenInv, BatchCleared, Trading
  <2>3. ASSUME NEW i \in Instruments, RefPrice(i) = 0, NEW s \in Strategies
        PROVE  residual'["sell"][i][s] = 0 /\ residual'["buy"][i][s] = 0
    <3>1. SellDemand(s, i) = 0
      BY <2>3 DEF SellDemand, Tradable
    <3>2. QED
      BY <2>1, <2>2, <3>1 DEF NoDemand, Sides
  <2>4. QED
    BY <2>1, <2>3 DEF PricedDemands, RefPrice
<1>3. CASE PlanBuys
  <2> DEFINE i == First(queue)
  <2>1. i \in Instruments
    <3>1. queue \in SUBSET Nat /\ queue # {} /\ queue \subseteq Instruments
      BY <1>3, IndexSets DEF PlanBuys, TypeInv, TypeOK
    <3>2. QED
      BY <3>1, FirstMember
  <2>2. /\ residual' = [residual EXCEPT !["buy"][i] =
               [s \in Strategies |-> MaxOf(0, BuyQuantity(s, i))]]
        /\ pc = "demand" /\ UNCHANGED <<day, pc>>
    BY <1>3 DEF PlanBuys
  <2> HIDE DEF i
  <2>3. ASSUME NEW j \in Instruments, RefPrice(j) = 0, NEW s \in Strategies
        PROVE  residual'["sell"][j][s] = 0 /\ residual'["buy"][j][s] = 0
    <3>1. /\ residual["sell"][j][s] = 0 /\ residual["buy"][j][s] = 0
          /\ residual \in [Sides -> [Instruments -> [Strategies -> Nat]]]
      BY <2>2, <2>3 DEF TypeInv, TypeOK, PricedDemands, Trading
    <3>2. MaxOf(0, BuyQuantity(s, j)) = 0
      BY <2>3 DEF BuyQuantity, Tradable, MaxOf
    <3>3. QED
      BY <2>1, <2>2, <3>1, <3>2 DEF Sides
  <2>4. QED
    BY <2>2, <2>3 DEF PricedDemands, RefPrice
<1>4. QED
  BY <1>1, <1>2, <1>3

\* Netting makes no demand where there was none.
LEMMA NettingPriced ==
  ASSUME TypeInv, PricedDemands, NetDemands
  PROVE  PricedDemands'
<1>1. pc = "demand" /\ pc' = "sell" /\ day' = day
  BY DEF NetDemands
<1>2. ASSUME NEW i \in Instruments, RefPrice(i) = 0, NEW s \in Strategies
      PROVE  residual'["sell"][i][s] = 0 /\ residual'["buy"][i][s] = 0
  <2>1. PICK buy \in [Strategies -> Nat], sell \in [Strategies -> Nat] :
            buy = residual["buy"][i] /\ sell = residual["sell"][i]
    BY DEF TypeInv, TypeOK, Sides
  <2>2. \A t \in Strategies : sell[t] = 0 /\ buy[t] = 0
    BY <1>1, <1>2, <2>1 DEF PricedDemands, Trading
  <2>3. \A t \in Strategies : Residual(sell, buy)[t] = 0 /\ Residual(buy, sell)[t] = 0
    BY <2>2, NoDemandNoTrade, IndexSets
  <2>4. /\ residual'["sell"][i] = Residual(sell, buy)
        /\ residual'["buy"][i] = Residual(buy, sell)
    BY <2>1 DEF NetDemands
  <2>5. QED
    BY <2>3, <2>4
<1>3. QED
  BY <1>1, <1>2 DEF PricedDemands, RefPrice

\* PricedDemands, action by action.
LEMMA StepPriced ==
  ASSUME TypeInv, FrozenInv, PricedDemands, Next
  PROVE  PricedDemands'
<1>1. CASE PlanSells \/ PlanBuys \/ NetDemands
  BY <1>1, PlanPriced, NettingPriced
<1>2. CASE \E i \in Instruments : \E slip \in Slippage :
              \/ \E fill \in 0 .. EndOf("sell", i) : ExecuteSell(i, fill, slip)
              \/ \E fill \in 0 .. EndOf("buy", i) : ExecuteBuy(i, fill, slip)
  <2>1. PICK i \in Instruments, slip \in Slippage :
            \/ \E fill \in 0 .. EndOf("sell", i) : ExecuteSell(i, fill, slip)
            \/ \E fill \in 0 .. EndOf("buy", i) : ExecuteBuy(i, fill, slip)
    BY <1>2
  <2>2. PICK fill \in Nat : ExecuteSell(i, fill, slip) \/ ExecuteBuy(i, fill, slip)
    BY <2>1
  <2>3. UNCHANGED <<day, residual>> /\ (pc' = pc \/ pc' = "aborted")
    BY <2>2 DEF ExecuteSell, ExecuteBuy, Abort, batch
  <2>4. QED
    BY <2>3 DEF PricedDemands, RefPrice
<1>3. CASE \/ SellsDone \/ DropCrosses \/ AcceptCrosses \/ CrossesDone
           \/ \E i \in Instruments : \E seller \in Strategies :
                  \E buyer \in Strategies : SettleCross(i, seller, buyer)
  <2>1. /\ UNCHANGED <<day, residual>>
        /\ pc \in Trading \ {"aborted"} \/ pc' = "aborted"
    BY <1>3 DEF SellsDone, DropCrosses, AcceptCrosses, CrossesDone, SettleCross,
       Abort, batch, Trading
  <2>2. QED
    BY <2>1 DEF PricedDemands, RefPrice
<1>4. CASE \/ \E e \in Events : AccrueDividend(e) \/ PayDividend(e) \/ AdjustShares(e)
           \/ ActionsDone \/ Decide \/ NoBatch \/ BuysDone \/ MarkToMarket
           \/ (\E i \in Instruments : Delist(i)) \/ DelistingsDone \/ RecordDay
  <2>1. pc' \notin Trading \ {"aborted"}
    BY <1>4 DEF AccrueDividend, PayDividend, AdjustShares, Item, ActionsDone, Decide,
       NoBatch, BuysDone, MarkToMarket, Delist, DelistingsDone, RecordDay, Abort, Trading
  <2>2. QED
    BY <2>1 DEF PricedDemands
<1>5. CASE Finished
  BY <1>5 DEF Finished, vars, batch, PricedDemands, RefPrice
<1>6. QED
  BY <1>1, <1>2, <1>3, <1>4, <1>5 DEF Next

\* A price at which something trades is one of the bars.
LEMMA TradedAtBar ==
  ASSUME TypeOK, NEW i \in Instruments, RefPrice(i) # 0
  PROVE  RefPrice(i) \in Bars(i) /\ RefPrice(i) \in Nat
BY PriceTypes DEF Bars, RefPrice, TypeOK

\* A market sale leaves no sleeve with less than it had.
LEMMA SellSolvent ==
  ASSUME TypeInv, PricedDemands, SleevesSolvent, WholeFees, SalesPayFees,
         NEW i \in Instruments, NEW slip \in Slippage,
         NEW fill \in 0 .. EndOf("sell", i), ExecuteSell(i, fill, slip)
  PROVE  \A s \in Strategies : cash'[s] >= 0
<1> DEFINE sold == Allocation(fill, residual["sell"][i], SellLot(i))
           price == RefPrice(i) - slip
<1>1. /\ TypeOK /\ pc = "sell" /\ SellLot(i) \in Nat \ {0}
      /\ sold \in [Strategies -> Nat]
      /\ residual["sell"][i] \in [Strategies -> Nat]
  BY AllocationType, SellLotType DEF TypeInv, TypeOK, Sides, ExecuteSell
<1>2. ASSUME NEW s \in Strategies PROVE cash[s] \in Int /\ cash[s] >= 0
  BY <1>1, IndexSets DEF TypeOK, SleevesSolvent
<1>3. CASE UNCHANGED cash
  BY <1>2, <1>3
<1>4. CASE \A s \in Strategies : cash'[s] = cash[s] + SaleProceeds(sold, price)[s]
  <2>1. ASSUME NEW s \in Strategies, sold[s] = 0 PROVE SaleProceeds(sold, price)[s] = 0
    <3>1. price \in Int /\ SellTaxPer \in Nat \ {0}
      BY <1>1, PriceTypes, ConfigAssumption
    <3>2. PICK c \in Int, t \in Int : c = Commission(Total(sold) * price)
                                      /\ t = (Total(sold) * price) \div SellTaxPer
      <4> HIDE DEF sold, price
      <4> QED
        BY <1>1, <3>1, SplitTypes
    <3>3. CostShare(c, sold)[s] = 0 /\ CostShare(t, sold)[s] = 0
      <4> HIDE DEF sold, price
      <4> QED
        BY <1>1, <2>1, ShareType
    <3>4. SaleProceeds(sold, price)[s] = sold[s] * price
                - CostShare(c, sold)[s] - CostShare(t, sold)[s]
      BY <3>2 DEF SaleProceeds
    <3> HIDE DEF sold, price
    <3>5. QED
      BY <2>1, <3>1, <3>3, <3>4
  <2>2. ASSUME NEW s \in Strategies, sold[s] > 0 PROVE SaleProceeds(sold, price)[s] >= 0
    <3>1. sold[s] <= residual["sell"][i][s]
      BY <1>1, AllocationWithinDemand, IndexSets DEF EndOf
    <3>2. residual["sell"][i][s] > 0
      <4> HIDE DEF sold
      <4> QED
        BY <1>1, <2>2, <3>1
    <3>3. RefPrice(i) # 0
      BY <1>1, <3>2 DEF PricedDemands, Trading
    <3>4. RefPrice(i) \in Bars(i) /\ RefPrice(i) \in Nat
      BY <1>1, <3>3, TradedAtBar
    <3>5. /\ price \in Nat \ {0} /\ price % CommissionPer = 0 /\ price % SellTaxPer = 0
      BY <3>4, ConfigAssumption DEF WholeFees
    <3>6. SellLot(i) \in OrderLots(i)
      <4>1. CASE SellLot(i) = LotSize[i]
        BY <4>1 DEF OrderLots
      <4>2. CASE SellLot(i) # LotSize[i]
        <5> DEFINE sellers == {t \in Strategies : residual["sell"][i][t] > 0}
        <5>1. SellLot(i) = 1 /\ Liquidates(First(sellers))
          BY <4>2 DEF SellLot
        <5>2. First(sellers) \in Strategies
          <6>1. sellers \in SUBSET Nat /\ sellers # {}
            BY <3>2, IndexSets
          <6>2. First(sellers) \in sellers
            <7> HIDE DEF sellers
            <7> QED
              BY <6>1, FirstMember
          <6>3. QED
            BY <6>2
        <5> HIDE DEF sellers
        <5>3. pending[First(sellers)] \in Targets
          BY <1>1, <5>1, <5>2 DEF Liquidates, NoTarget, TypeOK
        <5>4. QED
          BY <5>1, <5>3 DEF OrderLots, Liquidates
      <4>3. QED
        BY <4>1, <4>2
    <3>7. /\ price \div CommissionPer + price \div SellTaxPer <= price
          /\ MinCommission <= SellLot(i) * (price - price \div SellTaxPer)
      BY <3>4, <3>6 DEF SalesPayFees
    <3>8. sold[s] >= SellLot(i)
      BY <1>1, <2>2, AllocationInLots, IndexSets DEF EndOf
    <3> HIDE DEF sold, price
    <3>9. QED
      BY <1>1, <2>2, <3>5, <3>7, <3>8, SaleCovered
  <2>3. QED
    <3> HIDE DEF sold, price
    <3>1. ASSUME NEW s \in Strategies PROVE cash'[s] >= 0
      <4>1. sold[s] = 0 \/ sold[s] > 0
        BY <1>1
      <4>2. SaleProceeds(sold, price)[s] >= 0 /\ SaleProceeds(sold, price)[s] \in Int
        <5>1. price \in Int /\ SellTaxPer \in Nat \ {0}
          BY <1>1, PriceTypes, ConfigAssumption DEF price
        <5>2. PICK c \in Int, t \in Int : c = Commission(Total(sold) * price)
                                          /\ t = (Total(sold) * price) \div SellTaxPer
          BY <1>1, <5>1, SplitTypes
        <5>3. CostShare(c, sold)[s] \in Int /\ CostShare(t, sold)[s] \in Int
          BY <1>1, ShareType
        <5>4. SaleProceeds(sold, price)[s] = sold[s] * price
                    - CostShare(c, sold)[s] - CostShare(t, sold)[s]
          BY <5>2 DEF SaleProceeds
        <5>5. SaleProceeds(sold, price)[s] \in Int
          BY <1>1, <5>1, <5>3, <5>4
        <5>6. QED
          BY <2>1, <2>2, <4>1, <5>5
      <4>3. QED
        BY <1>2, <1>4, <4>2
    <3>2. QED
      BY <3>1
<1>5. QED
  <2>1. CASE \/ \E s \in Strategies : sold[s] > Sellable(s, i)
             \/ Total(sold) > Sellable(Master, i)
    BY <1>3, <2>1 DEF ExecuteSell, Abort, ledger
  <2>2. CASE ~ \/ \E s \in Strategies : sold[s] > Sellable(s, i)
               \/ Total(sold) > Sellable(Master, i)
    <3>1. cash' = [a \in Accounts |-> cash[a] +
              IF a = Master
              THEN Total(sold) * price - Commission(Total(sold) * price)
                     - (Total(sold) * price) \div SellTaxPer
              ELSE sold[a] * price - CostShare(Commission(Total(sold) * price), sold)[a]
                     - CostShare((Total(sold) * price) \div SellTaxPer, sold)[a]]
      BY <2>2 DEF ExecuteSell
    <3>2. \A s \in Strategies : cash'[s] = cash[s] + SaleProceeds(sold, price)[s]
      <4> HIDE DEF sold, price
      <4> QED
        BY <3>1, IndexSets DEF SaleProceeds
    <3>3. QED
      BY <1>4, <3>2
  <2>3. QED
    BY <2>1, <2>2

\* One position of a function less, the total less by as much.
LEMMA TotalLess ==
  ASSUME NEW S, IsFiniteSet(S), NEW f \in [S -> Int], NEW g \in [S -> Int],
         NEW y \in S, NEW d \in Int, \A x \in S : x # y => g[x] = f[x],
         g[y] = f[y] - d
  PROVE  Total(g) = Total(f) - d
<1>1. PICK a \in Int, b \in Int, p \in Int, q \in Int :
        a = Total(f) /\ b = Total(g) /\ p = f[y] /\ q = g[y]
  BY TotalType
<1>2. Total(g) = Total(f) + (g[y] - f[y])
  BY TotalShift
<1>3. QED
  BY <1>1, <1>2

\* Settling a cross leaves every sleeve with the same cash after all crosses.
LEMMA SettleKeepsCash ==
  ASSUME TypeOK, NEW i \in Instruments, NEW seller \in Strategies,
         NEW buyer \in Strategies, SettleCross(i, seller, buyer), NEW s \in Strategies
  PROVE  CashAfterCrosses(s)' = CashAfterCrosses(s)
<1>1. PICK n \in Nat : n = crosses[i][seller][buyer]
  BY DEF TypeOK
<1>2. /\ cash' = [a \in Accounts |->
                     cash[a] - CrossMove(seller, buyer, n * RefPrice(i), a)]
      /\ crosses' = [crosses EXCEPT ![i][seller][buyer] = 0]
      /\ day' = day
  BY <1>1 DEF SettleCross, Flow
<1>15. PICK left : left = crosses'
  OBVIOUS
<1>3. PICK w \in Int : w = n * RefPrice(i)
  BY PriceTypes
<1>4. \A j \in Instruments : RefPrice(j)' = RefPrice(j) /\ RefPrice(j) \in Nat
  BY <1>2, PriceTypes DEF RefPrice
<1> DEFINE sold(j) == Total(left[j][s])
           bought(j) == Total([t \in Strategies |-> left[j][t][s]])
<1>5. \A j \in Instruments :
        /\ SoldIn(j, s) \in Int /\ BoughtIn(j, s) \in Int
        /\ sold(j) = SoldIn(j, s) - (IF j = i /\ s = seller THEN n ELSE 0)
        /\ bought(j) = BoughtIn(j, s) - (IF j = i /\ s = buyer THEN n ELSE 0)
  <2>1. TypeOK /\ left = [crosses EXCEPT ![i][seller][buyer] = 0]
        /\ n = crosses[i][seller][buyer]
    BY <1>1, <1>2, <1>15
  <2>2. ASSUME NEW j \in Instruments
        PROVE  /\ SoldIn(j, s) \in Int /\ BoughtIn(j, s) \in Int
               /\ sold(j) = SoldIn(j, s) - (IF j = i /\ s = seller THEN n ELSE 0)
               /\ bought(j) = BoughtIn(j, s) - (IF j = i /\ s = buyer THEN n ELSE 0)
    <3>0. IsFiniteSet(Strategies)
      BY IndexSets
    <3>1. \A t \in Strategies : \A b \in Strategies :
            /\ crosses[j][t][b] \in Int
            /\ left[j][t][b] = IF j = i /\ t = seller /\ b = buyer
                                   THEN 0 ELSE crosses[j][t][b]
      BY <2>1 DEF TypeOK
    <3>2. PICK f \in [Strategies -> Int], g \in [Strategies -> Int] :
            f = crosses[j][s] /\ g = left[j][s]
      <4>1. left \in [Instruments -> [Strategies -> [Strategies -> Nat]]]
            /\ crosses \in [Instruments -> [Strategies -> [Strategies -> Nat]]]
        BY <2>1 DEF TypeOK
      <4>2. crosses[j][s] \in [Strategies -> Nat] /\ left[j][s] \in [Strategies -> Nat]
        BY <4>1
      <4>3. crosses[j][s] \in [Strategies -> Int] /\ left[j][s] \in [Strategies -> Int]
        BY <4>2
      <4>4. QED
        BY <4>3
    <3>3. PICK p \in [Strategies -> Int], q \in [Strategies -> Int] :
            p = [t \in Strategies |-> crosses[j][t][s]]
            /\ q = [t \in Strategies |-> left[j][t][s]]
      <4>1. /\ [t \in Strategies |-> crosses[j][t][s]] \in [Strategies -> Int]
            /\ [t \in Strategies |-> left[j][t][s]] \in [Strategies -> Int]
        BY <3>1
      <4>2. QED
        BY <4>1
    <3>4. SoldIn(j, s) = Total(f) /\ BoughtIn(j, s) = Total(p)
      BY <3>2, <3>3 DEF SoldIn, BoughtIn
    <3>5. Total(f) \in Int /\ Total(p) \in Int
      BY <3>0, TotalType
    <3>6. Total(g) = Total(f) - (IF j = i /\ s = seller THEN n ELSE 0)
      <4>1. CASE j = i /\ s = seller
        <5>1. \A b \in Strategies : b # buyer => g[b] = f[b]
          BY <3>1, <3>2
        <5>2. f[buyer] = n /\ g[buyer] = f[buyer] - n
          BY <2>1, <3>1, <3>2, <4>1
        <5>3. Total(g) = Total(f) - n
          BY <3>0, <5>1, <5>2, TotalLess
        <5>4. QED
          BY <4>1, <5>3
      <4>2. CASE ~(j = i /\ s = seller)
        <5>1. \A b \in Strategies : g[b] = f[b]
          BY <3>1, <3>2, <4>2
        <5>2. g = f
          BY <5>1
        <5>3. QED
          BY <3>5, <4>2, <5>2
      <4>3. QED
        BY <4>1, <4>2
    <3>7. Total(q) = Total(p) - (IF j = i /\ s = buyer THEN n ELSE 0)
      <4>1. CASE j = i /\ s = buyer
        <5>1. \A t \in Strategies : t # seller => q[t] = p[t]
          BY <3>1, <3>3
        <5>2. p[seller] = n /\ q[seller] = p[seller] - n
          BY <2>1, <3>1, <3>3, <4>1
        <5>3. Total(q) = Total(p) - n
          BY <3>0, <5>1, <5>2, TotalLess
        <5>4. QED
          BY <4>1, <5>3
      <4>2. CASE ~(j = i /\ s = buyer)
        <5>1. \A t \in Strategies : q[t] = p[t]
          BY <3>1, <3>3, <4>2
        <5>2. q = p
          BY <5>1
        <5>3. QED
          BY <3>5, <4>2, <5>2
      <4>3. QED
        BY <4>1, <4>2
    <3>8. QED
      BY <3>2, <3>3, <3>4, <3>5, <3>6, <3>7
  <2>3. QED
    BY <2>2
<1> DEFINE f == [j \in Instruments |-> Flow(j, SoldIn(j, s))]
           g == [j \in Instruments |-> sold(j) * RefPrice(j)]
           p == [j \in Instruments |-> Flow(j, BoughtIn(j, s))]
           q == [j \in Instruments |-> bought(j) * RefPrice(j)]
           sale == IF s = seller THEN w ELSE 0
           purchase == IF s = buyer THEN w ELSE 0
<1>6. /\ f \in [Instruments -> Int] /\ g \in [Instruments -> Int]
      /\ p \in [Instruments -> Int] /\ q \in [Instruments -> Int]
      /\ sale \in Int /\ purchase \in Int
  <2>1. \A j \in Instruments : sold(j) \in Int /\ bought(j) \in Int
    BY <1>5
  <2>2. ASSUME NEW j \in Instruments
        PROVE  Flow(j, SoldIn(j, s)) \in Int /\ Flow(j, BoughtIn(j, s)) \in Int
    <3>1. PICK x \in Int, y \in Int, r \in Int :
            x = SoldIn(j, s) /\ y = BoughtIn(j, s) /\ r = RefPrice(j)
      <4>1. SoldIn(j, s) \in Int /\ BoughtIn(j, s) \in Int
        BY <1>5
      <4>2. RefPrice(j) \in Int
        BY <1>4
      <4>3. QED
        BY <4>1, <4>2
    <3>2. QED
      BY <3>1 DEF Flow
  <2>3. ASSUME NEW j \in Instruments
        PROVE  sold(j) * RefPrice(j) \in Int /\ bought(j) * RefPrice(j) \in Int
    <3> HIDE DEF sold, bought
    <3> QED
      BY <1>4, <2>1
  <2>4. f \in [Instruments -> Int] /\ p \in [Instruments -> Int]
    BY <2>2
  <2>5. g \in [Instruments -> Int] /\ q \in [Instruments -> Int]
    <3> HIDE DEF sold, bought
    <3> QED
      BY <2>3
  <2>6. sale \in Int /\ purchase \in Int
    OBVIOUS
  <2>7. QED
    BY <2>4, <2>5, <2>6
<1>7. \A j \in Instruments : j # i => g[j] = f[j] /\ q[j] = p[j]
  BY <1>5 DEF Flow
<1>8. g[i] = f[i] - sale /\ q[i] = p[i] - purchase
  <2>1. PICK x \in Int, y \in Int, r \in Nat :
          x = SoldIn(i, s) /\ y = BoughtIn(i, s) /\ r = RefPrice(i)
    BY <1>4, <1>5
  <2>2. f[i] = x * r /\ p[i] = y * r
    BY <2>1 DEF Flow
  <2>3. g[i] = (x - (IF s = seller THEN n ELSE 0)) * r
        /\ q[i] = (y - (IF s = buyer THEN n ELSE 0)) * r
    BY <1>5, <2>1
  <2>4. w = n * r /\ (x - n) * r = x * r - n * r /\ (y - n) * r = y * r - n * r
    BY <1>3, <2>1
  <2>5. (x - 0) * r = x * r - 0 /\ (y - 0) * r = y * r - 0
    OBVIOUS
  <2>6. QED
    BY <2>2, <2>3, <2>4, <2>5
<1>9. CashAfterCrosses(s) = cash[s] + Total(f) - Total(p)
  BY DEF CashAfterCrosses
<1>10. CashAfterCrosses(s)' = cash'[s] + Total(g) - Total(q)
  <2>1. g = [j \in Instruments |-> Flow(j, SoldIn(j, s))']
        /\ q = [j \in Instruments |-> Flow(j, BoughtIn(j, s))']
    BY <1>4, <1>15 DEF Flow, SoldIn, BoughtIn
  <2> HIDE DEF g, q
  <2>2. QED
    BY <2>1 DEF CashAfterCrosses
<1>11. cash'[s] = cash[s] - (purchase - sale)
  BY <1>2, <1>3, IndexSets DEF CrossMove
<1>12. Total(g) = Total(f) - sale /\ Total(q) = Total(p) - purchase
  <2> HIDE DEF f, g, p, q, sale, purchase
  <2>0. i \in Instruments /\ IsFiniteSet(Instruments)
    BY IndexSets
  <2>1. Total(g) = Total(f) - sale
    BY ONLY <1>6, <1>7, <1>8, <2>0, TotalLess
  <2>2. Total(q) = Total(p) - purchase
    BY ONLY <1>6, <1>7, <1>8, <2>0, TotalLess
  <2>3. QED
    BY <2>1, <2>2
<1>13. PICK c \in Int, x \in Int, y \in Int :
         c = cash[s] /\ x = Total(f) /\ y = Total(p)
  <2> HIDE DEF f, p
  <2>1. cash[s] \in Int /\ Total(f) \in Int /\ Total(p) \in Int
    BY <1>6, TotalType, IndexSets DEF TypeOK
  <2>2. QED
    BY <2>1
<1> HIDE DEF f, g, p, q, sale, purchase
<1>14. QED
  BY <1>6, <1>9, <1>10, <1>11, <1>12, <1>13

\* Without pending crosses there is only the cash.
LEMMA NoCrossesLeft ==
  ASSUME TypeOK, crosses = NoCross, NEW s \in Strategies
  PROVE  CashAfterCrosses(s) = cash[s]
<1> DEFINE f == [j \in Instruments |-> Flow(j, SoldIn(j, s))]
           p == [j \in Instruments |-> Flow(j, BoughtIn(j, s))]
<1>1. ASSUME NEW j \in Instruments PROVE SoldIn(j, s) = 0 /\ BoughtIn(j, s) = 0
  <2>1. PICK row \in [Strategies -> Int], column \in [Strategies -> Int] :
          /\ row = crosses[j][s] /\ column = [t \in Strategies |-> crosses[j][t][s]]
          /\ \A t \in Strategies : row[t] = 0 /\ column[t] = 0
    <3>1. \A t \in Strategies : crosses[j][s][t] = 0 /\ crosses[j][t][s] = 0
      BY DEF NoCross
    <3>2. crosses[j][s] \in [Strategies -> Int]
          /\ [t \in Strategies |-> crosses[j][t][s]] \in [Strategies -> Int]
      BY <3>1 DEF NoCross
    <3>3. QED
      BY <3>1, <3>2
  <2>2. Total(row) = 0 /\ Total(column) = 0
    BY <2>1, TotalZero, IndexSets
  <2>3. QED
    BY <2>1, <2>2 DEF SoldIn, BoughtIn
<1>2. \A j \in Instruments : RefPrice(j) \in Nat
  BY PriceTypes
<1>3. /\ f \in [Instruments -> Int] /\ p \in [Instruments -> Int]
      /\ \A j \in Instruments : f[j] = 0 /\ p[j] = 0
  BY <1>1, <1>2 DEF Flow
<1>4. CashAfterCrosses(s) = cash[s] + Total(f) - Total(p)
  BY DEF CashAfterCrosses
<1> HIDE DEF f, p
<1>5. Total(f) = 0 /\ Total(p) = 0
  BY <1>3, TotalZero, IndexSets
<1>6. QED
  BY <1>4, <1>5, IndexSets DEF TypeOK

\* What each sleeve buys of a fill.
Bought(i, fill, slip) ==
    [s \in Strategies |->
        Affordable(s, i, Allocation(fill, residual["buy"][i], LotSize[i])[s],
                   RefPrice(i) + slip)]

\* A buy is refused for one of two reasons, or booked at each sleeve's cost.
LEMMA BuyOutcome ==
  ASSUME TypeOK, NEW i \in Instruments, NEW slip \in Slippage,
         NEW fill \in 0 .. EndOf("buy", i), ExecuteBuy(i, fill, slip)
  PROVE  LET bought == Bought(i, fill, slip)
             costs == BuyCosts(bought, RefPrice(i) + slip)
         IN  /\ bought \in [Strategies -> Nat] /\ RefPrice(i) + slip \in Int
             /\ pc = "buy"
             /\ \/ /\ Abort("sleeve_overdrawn")
                   /\ \E s \in Strategies : bought[s] > 0 /\ costs[s] > cash[s]
                \/ Abort("master_overdrawn")
                \/ /\ \A s \in Strategies : ~ (bought[s] > 0 /\ costs[s] > cash[s])
                   /\ \A s \in Strategies : cash'[s] = cash[s] - costs[s]
                   /\ outcome' = outcome /\ pc' = pc
<1> DEFINE offered == Allocation(fill, residual["buy"][i], LotSize[i])
           price == RefPrice(i) + slip
           bought == Bought(i, fill, slip)
           costs == BuyCosts(bought, price)
           total == BuyTotal(bought, price)
<1>1. price \in Int
  BY PriceTypes, ConfigAssumption
<1>2. bought \in [Strategies -> Nat]
  <2>1. "buy" \in Sides /\ LotSize[i] \in Nat \ {0}
    BY SizesAssumption DEF Sides
  <2>2. offered \in [Strategies -> Nat]
    BY <2>1, AllocationType
  <2>3. bought = [s \in Strategies |-> Affordable(s, i, offered[s], price)]
    BY DEF Bought
  <2> HIDE DEF offered, price, bought
  <2>4. \A s \in Strategies : Affordable(s, i, offered[s], price) \in Nat
    BY <2>2, AffordableType
  <2>5. QED
    BY <2>3, <2>4
<1>3. pc = "buy"
  BY DEF ExecuteBuy
<1>4. IF \E s \in Strategies : bought[s] > 0 /\ costs[s] > cash[s]
      THEN Abort("sleeve_overdrawn")
      ELSE \/ Abort("master_overdrawn")
           \/ /\ cash' = [a \in Accounts |-> cash[a] -
                             IF a = Master THEN total
                             ELSE bought[a] * price
                                    + CostShare(Commission(Total(bought) * price), bought)[a]
                                    + CostShare((Total(bought) * price) \div BuyTaxPer,
                                                bought)[a]]
              /\ outcome' = outcome /\ pc' = pc
  BY DEF ExecuteBuy, Bought, BuyCosts, BuyTotal
<1>5. ASSUME cash' = [a \in Accounts |-> cash[a] -
                             IF a = Master THEN total
                             ELSE bought[a] * price
                                    + CostShare(Commission(Total(bought) * price), bought)[a]
                                    + CostShare((Total(bought) * price) \div BuyTaxPer,
                                                bought)[a]]
      PROVE  \A s \in Strategies : cash'[s] = cash[s] - costs[s]
  <2> HIDE DEF bought, price, total
  <2>1. QED
    BY <1>5, IndexSets DEF BuyCosts
<1>6. QED
  <2> HIDE DEF bought, costs, total
  <2>1. CASE \E s \in Strategies : bought[s] > 0 /\ costs[s] > cash[s]
    BY <1>1, <1>2, <1>3, <1>4, <2>1 DEF bought, costs
  <2>2. CASE ~ \E s \in Strategies : bought[s] > 0 /\ costs[s] > cash[s]
    BY <1>1, <1>2, <1>3, <1>4, <1>5, <2>2 DEF bought, costs
  <2>3. QED
    BY <2>1, <2>2

\* A market buy that is booked is paid for, sleeve by sleeve.
LEMMA BuySolvent ==
  ASSUME TypeOK, SleevesSolvent, NEW i \in Instruments, NEW slip \in Slippage,
         NEW fill \in 0 .. EndOf("buy", i), ExecuteBuy(i, fill, slip)
  PROVE  SleevesSolvent'
<1> DEFINE bought == Bought(i, fill, slip)
           costs == BuyCosts(bought, RefPrice(i) + slip)
<1>1. /\ bought \in [Strategies -> Nat] /\ RefPrice(i) + slip \in Int
      /\ pc = "buy"
      /\ \/ Abort("sleeve_overdrawn")
         \/ Abort("master_overdrawn")
         \/ /\ \A s \in Strategies : ~ (bought[s] > 0 /\ costs[s] > cash[s])
            /\ \A s \in Strategies : cash'[s] = cash[s] - costs[s]
            /\ outcome' = outcome /\ pc' = pc
  BY BuyOutcome
<1>2. \A s \in Strategies : cash[s] \in Int /\ cash[s] >= 0
  BY <1>1, IndexSets DEF SleevesSolvent, TypeOK
<1>3. costs \in [Strategies -> Int] /\ \A s \in Strategies : bought[s] = 0 => costs[s] = 0
  <2> HIDE DEF bought
  <2>1. QED
    BY <1>1, BuyCostsAddUp
<1> HIDE DEF bought, costs
<1>4. CASE \E r \in {"sleeve_overdrawn", "master_overdrawn"} : Abort(r)
  BY <1>2, <1>4 DEF SleevesSolvent, Abort, ledger
<1>5. CASE /\ \A s \in Strategies : ~ (bought[s] > 0 /\ costs[s] > cash[s])
           /\ \A s \in Strategies : cash'[s] = cash[s] - costs[s]
  <2>1. ASSUME NEW s \in Strategies PROVE cash'[s] >= 0
    <3>1. bought[s] = 0 \/ bought[s] > 0
      BY <1>1
    <3>2. QED
      BY <1>2, <1>3, <1>5, <3>1
  <2>2. QED
    BY <2>1 DEF SleevesSolvent
<1>6. QED
  BY <1>1, <1>4, <1>5

\* What a sleeve was found able to afford it can be charged.
LEMMA BuyAffordable ==
  ASSUME TypeOK, PricedDemands, WholeFees, NEW i \in Instruments, NEW slip \in Slippage,
         NEW fill \in 0 .. EndOf("buy", i), ExecuteBuy(i, fill, slip)
  PROVE  outcome' = "sleeve_overdrawn" => outcome = "sleeve_overdrawn"
<1> DEFINE offered == Allocation(fill, residual["buy"][i], LotSize[i])
           price == RefPrice(i) + slip
           bought == Bought(i, fill, slip)
<1>1. ASSUME NEW s \in Strategies, bought[s] > 0
      PROVE  BuyCosts(bought, price)[s] <= cash[s]
  <2>1. bought \in [Strategies -> Nat] /\ pc = "buy"
    BY BuyOutcome
  <2>2. /\ residual["buy"][i] \in [Strategies -> Nat] /\ LotSize[i] \in Nat \ {0}
        /\ fill \in 0 .. Total(residual["buy"][i])
    BY SizesAssumption DEF TypeOK, Sides, EndOf
  <2>3. offered \in [Strategies -> Nat] /\ offered[s] <= residual["buy"][i][s]
    BY <2>2, AllocationWithinDemand, IndexSets
  <2>4. bought[s] = Affordable(s, i, offered[s], price) /\ bought[s] \in 0 .. offered[s]
    <3>1. bought[s] = Affordable(s, i, offered[s], price)
      BY DEF Bought
    <3> HIDE DEF bought, offered, price
    <3>2. QED
      BY <2>3, <3>1, AffordableType
  <2>5. residual["buy"][i][s] > 0
    <3> HIDE DEF bought, offered
    <3> QED
      BY <1>1, <2>2, <2>3, <2>4
  <2>6. RefPrice(i) # 0
    BY <2>1, <2>5 DEF PricedDemands, Trading
  <2>7. /\ price \in Nat \ {0} /\ price % CommissionPer = 0 /\ price % BuyTaxPer = 0
    <3>1. RefPrice(i) \in Bars(i) /\ RefPrice(i) \in Nat
      BY <2>6, TradedAtBar
    <3>2. QED
      BY <3>1, ConfigAssumption DEF WholeFees
  <2>8. Estimate(bought[s], price) <= cash[s]
    <3> HIDE DEF bought, offered, price
    <3>1. Affordable(s, i, offered[s], price) # 0
      BY <1>1, <2>4
    <3>2. Estimate(Affordable(s, i, offered[s], price), price) <= cash[s]
      BY <2>3, <3>1, AffordablePaid
    <3>3. QED
      BY <2>4, <3>2
  <2>9. BuyCosts(bought, price)[s] <= Estimate(bought[s], price)
    <3> HIDE DEF bought, price
    <3> QED
      BY <1>1, <2>1, <2>7, EstimateCovers
  <2>10. /\ BuyCosts(bought, price)[s] \in Int /\ Estimate(bought[s], price) \in Int
         /\ cash[s] \in Int
    <3> HIDE DEF bought, price
    <3>1. BuyCosts(bought, price)[s] \in Int
      BY <2>1, <2>7, BuyCostsAddUp
    <3>2. Estimate(bought[s], price) \in Int
      <4>1. PICK n \in Int, value \in Int : n = bought[s] /\ value = n * price
        BY <2>1, <2>7
      <4>2. QED
        BY <4>1, ConfigAssumption DEF Estimate, MaxOf
    <3>3. QED
      BY <3>1, <3>2, IndexSets DEF TypeOK
  <2>11. QED
    <3> HIDE DEF bought, price
    <3> QED
      BY <2>8, <2>9, <2>10
<1>2. ASSUME NEW s \in Strategies, bought[s] > 0, BuyCosts(bought, price)[s] > cash[s]
      PROVE  FALSE
  <2>1. BuyCosts(bought, price)[s] \in Int /\ cash[s] \in Int
    <3>1. bought \in [Strategies -> Nat] /\ price \in Int
      BY BuyOutcome
    <3> HIDE DEF bought, price
    <3>2. BuyCosts(bought, price) \in [Strategies -> Int]
      BY <3>1, BuyCostsAddUp
    <3>3. QED
      BY <3>2, IndexSets DEF TypeOK
  <2> HIDE DEF bought, price
  <2>2. QED
    BY <1>1, <1>2, <2>1
<1>3. \/ \E s \in Strategies : bought[s] > 0 /\ BuyCosts(bought, price)[s] > cash[s]
      \/ Abort("master_overdrawn") \/ outcome' = outcome
  BY BuyOutcome
<1>4. QED
  <2> HIDE DEF bought, price
  <2>1. Abort("master_overdrawn") \/ outcome' = outcome
    BY <1>2, <1>3
  <2>2. QED
    BY <2>1 DEF Abort

\* What is credited is a natural number: no sleeve loses cash to a
\* dividend or to the settlement of a delisted position.
LEMMA CreditSolvent ==
  ASSUME TypeOK, SleevesSolvent,
         \/ \E e \in Events : PayDividend(e)
         \/ \E i \in Instruments : Delist(i)
  PROVE  SleevesSolvent'
<1>1. ASSUME NEW credit, \A s \in Strategies : credit[s] \in Nat, pc # "settle",
             \A s \in Strategies : cash'[s] = cash[s] + credit[s]
      PROVE  SleevesSolvent'
  <2>1. \A s \in Strategies : cash[s] \in Int /\ cash[s] >= 0
    BY <1>1, IndexSets DEF SleevesSolvent, TypeOK
  <2>2. QED
    BY <1>1, <2>1 DEF SleevesSolvent
<1>2. CASE \E e \in Events : PayDividend(e)
  <2>1. PICK e \in Events : PayDividend(e)
    BY <1>2
  <2>2. PICK credit : credit = [s \in Strategies |-> receivable[s][e]]
    OBVIOUS
  <2>3. \A s \in Strategies : credit[s] \in Nat
    BY <2>2, IndexSets DEF TypeOK
  <2>4. pc # "settle" /\ \A s \in Strategies : cash'[s] = cash[s] + credit[s]
    BY <2>1, <2>2, IndexSets DEF PayDividend, Item
  <2>5. QED
    BY <1>1, <2>3, <2>4
<1>3. CASE \E i \in Instruments : Delist(i)
  <2>1. PICK i \in Instruments : Delist(i)
    BY <1>3
  <2>2. PICK credit : credit = [s \in Strategies |-> Settlement(s, i)]
    OBVIOUS
  <2>3. ASSUME NEW s \in Strategies PROVE credit[s] \in Nat
    <3>1. PICK held \in Nat, all \in Nat, den \in Nat \ {0} :
            held = shares[s][i] /\ all = mark[i] * RecoveryNum /\ den = RecoveryDen
      <4>1. shares[s][i] \in Nat /\ mark[i] * RecoveryNum \in Nat
            /\ RecoveryDen \in Nat \ {0}
        BY ConfigAssumption, IndexSets DEF TypeOK
      <4>2. QED
        BY <4>1
    <3>2. PICK share \in Nat : share = all \div den
      BY <3>1
    <3>3. held * share \in Nat
      OBVIOUS
    <3>4. credit[s] = IF DelistingPolicy = "cash_settle_last_close"
                      THEN held * share ELSE 0
      BY <2>2, <3>1, <3>2 DEF Settlement
    <3>5. QED
      BY <3>3, <3>4
  <2>4. pc # "settle" /\ \A s \in Strategies : cash'[s] = cash[s] + credit[s]
    BY <2>1, <2>2, IndexSets DEF Delist
  <2>5. QED
    BY <1>1, <2>3, <2>4
<1>4. QED
  BY <1>2, <1>3

\* The crosses are accepted when they leave every sleeve solvent, and once all
\* are settled that is the cash it has.
LEMMA CrossesSolvent ==
  ASSUME TypeInv, CrossesPaid, SleevesSolvent,
         \/ DropCrosses \/ AcceptCrosses \/ CrossesDone
         \/ \E i \in Instruments : \E seller \in Strategies :
                \E buyer \in Strategies : SettleCross(i, seller, buyer)
  PROVE  CrossesPaid' /\ SleevesSolvent'
<1>1. CASE DropCrosses
  BY <1>1 DEF DropCrosses, CrossesPaid, SleevesSolvent, ledger
<1>2. CASE AcceptCrosses
  <2>1. \A s \in Strategies : cash[s] >= 0
    BY <1>2 DEF AcceptCrosses, SleevesSolvent
  <2>2. cash' = cash /\ crosses' = crosses /\ day' = day
        /\ (pc' = "settle" \/ pc' = "aborted")
    BY <1>2 DEF AcceptCrosses, Abort, ledger, batch
  <2>3. ASSUME NEW s \in Strategies PROVE CashAfterCrosses(s)' = CashAfterCrosses(s)
    BY <2>2 DEF CashAfterCrosses, SoldIn, BoughtIn, Flow, RefPrice
  <2>4. ASSUME NEW s \in Strategies PROVE CashAfterCrosses(s) >= 0
    <3>1. CASE crosses = NoCross
      BY <2>1, <3>1, NoCrossesLeft DEF TypeInv
    <3>2. CASE crosses # NoCross
      BY <1>2, <3>2 DEF AcceptCrosses
    <3>3. QED
      BY <3>1, <3>2
  <2>5. QED
    BY <2>1, <2>2, <2>3, <2>4 DEF CrossesPaid, SleevesSolvent
<1>3. CASE CrossesDone
  <2>1. /\ pc = "settle" /\ crosses = NoCross /\ pc' = "buy" /\ cash' = cash
    BY <1>3 DEF CrossesDone, ledger
  <2>2. \A s \in Strategies : CashAfterCrosses(s) = cash[s]
    BY <2>1, NoCrossesLeft DEF TypeInv
  <2>3. \A s \in Strategies : cash[s] >= 0
    BY <2>1, <2>2 DEF CrossesPaid
  <2>4. QED
    BY <2>1, <2>3 DEF CrossesPaid, SleevesSolvent
<1>4. CASE \E i \in Instruments : \E seller \in Strategies :
               \E buyer \in Strategies : SettleCross(i, seller, buyer)
  <2>1. PICK i \in Instruments, seller \in Strategies, buyer \in Strategies :
            SettleCross(i, seller, buyer)
    BY <1>4
  <2>2. pc = "settle" /\ pc' = "settle"
    BY <2>1 DEF SettleCross
  <2>3. \A s \in Strategies : CashAfterCrosses(s)' = CashAfterCrosses(s)
    BY <2>1, SettleKeepsCash DEF TypeInv
  <2>4. QED
    BY <2>2, <2>3 DEF CrossesPaid, SleevesSolvent
<1>5. QED
  BY <1>1, <1>2, <1>3, <1>4

\* SolventInv, action by action.
LEMMA StepSolvent ==
  ASSUME TypeInv, FrozenInv, SolventInv, WholeFees, SalesPayFees, [Next]_vars
  PROVE  SolventInv'
<1>1. PricedDemands'
  <2>1. CASE UNCHANGED vars
    BY <2>1 DEF vars, batch, SolventInv, PricedDemands, RefPrice
  <2>2. QED
    BY <2>1, StepPriced DEF SolventInv
<1>2. CASE \/ DropCrosses \/ AcceptCrosses \/ CrossesDone
           \/ \E i \in Instruments : \E seller \in Strategies :
                  \E buyer \in Strategies : SettleCross(i, seller, buyer)
  BY <1>1, <1>2, CrossesSolvent DEF SolventInv
<1>3. CASE \/ \E e \in Events : PayDividend(e)
           \/ \E i \in Instruments : Delist(i)
  <2>1. SleevesSolvent'
    BY <1>3, CreditSolvent DEF SolventInv, TypeInv
  <2>2. pc' # "settle"
    BY <1>3 DEF PayDividend, Item, Delist
  <2>3. QED
    BY <1>1, <2>1, <2>2 DEF SolventInv, CrossesPaid
<1>4. CASE \E i \in Instruments : \E slip \in Slippage :
              \/ \E fill \in 0 .. EndOf("sell", i) : ExecuteSell(i, fill, slip)
              \/ \E fill \in 0 .. EndOf("buy", i) : ExecuteBuy(i, fill, slip)
  <2>1. PICK i \in Instruments, slip \in Slippage :
            \/ \E fill \in 0 .. EndOf("sell", i) : ExecuteSell(i, fill, slip)
            \/ \E fill \in 0 .. EndOf("buy", i) : ExecuteBuy(i, fill, slip)
    BY <1>4
  <2>2. CASE \E fill \in 0 .. EndOf("sell", i) : ExecuteSell(i, fill, slip)
    <3>1. PICK fill \in 0 .. EndOf("sell", i) : ExecuteSell(i, fill, slip)
      BY <2>2
    <3>2. \A s \in Strategies : cash'[s] >= 0
      BY <3>1, SellSolvent DEF SolventInv
    <3>3. pc' # "settle"
      BY <3>1, Zenon DEF ExecuteSell, Abort
    <3>4. QED
      BY <1>1, <3>2, <3>3 DEF SolventInv, CrossesPaid, SleevesSolvent
  <2>3. CASE \E fill \in 0 .. EndOf("buy", i) : ExecuteBuy(i, fill, slip)
    <3>1. PICK fill \in 0 .. EndOf("buy", i) : ExecuteBuy(i, fill, slip)
      BY <2>3
    <3>2. SleevesSolvent'
      BY <3>1, BuySolvent DEF SolventInv, TypeInv
    <3>3. pc' # "settle"
      BY <3>1, Zenon DEF ExecuteBuy, Abort
    <3>4. QED
      BY <1>1, <3>2, <3>3 DEF SolventInv, CrossesPaid
  <2>4. QED
    BY <2>1, <2>2, <2>3
<1>5. CASE \/ \E e \in Events : AccrueDividend(e) \/ AdjustShares(e)
           \/ ActionsDone \/ Decide \/ NoBatch \/ PlanSells \/ PlanBuys \/ NetDemands
           \/ SellsDone \/ BuysDone \/ MarkToMarket \/ DelistingsDone \/ RecordDay
           \/ Finished
  <2>1. cash' = cash /\ pc # "settle" /\ pc' # "settle"
    BY <1>5 DEF AccrueDividend, AdjustShares, Item, ActionsDone, Decide, NoBatch,
       PlanSells, PlanBuys, NetDemands, SellsDone, BuysDone, MarkToMarket,
       DelistingsDone, RecordDay, Finished, Abort, ledger, vars
  <2>2. QED
    BY <1>1, <2>1 DEF SolventInv, CrossesPaid, SleevesSolvent
<1>6. CASE UNCHANGED vars
  <2>1. UNCHANGED <<day, pc, cash, crosses>>
    BY <1>6 DEF vars, ledger, batch
  <2>2. ASSUME NEW s \in Strategies PROVE CashAfterCrosses(s)' = CashAfterCrosses(s)
    BY <2>1 DEF CashAfterCrosses, SoldIn, BoughtIn, Flow, RefPrice
  <2>3. QED
    BY <1>1, <2>1, <2>2 DEF SolventInv, CrossesPaid, SleevesSolvent
<1>7. QED
  BY <1>2, <1>3, <1>4, <1>5, <1>6 DEF Next

\* No sleeve is ever overdrawn, between the crosses of one batch apart, where
\* they are paid for together: whatever the market fills, and in whatever order
\* the crosses are settled, as long as a lot sold pays its own fees.
THEOREM SleevesStaySolvent ==
  ASSUME WholeFees, SalesPayFees
  PROVE  Spec => []SleevesSolvent
<1>1. Init => SolventInv
  <2>1. SUFFICES ASSUME Init PROVE SolventInv
    OBVIOUS
  <2>2. pc = "actions" /\ \A s \in Strategies : cash[s] = InitialCash[s]
    <3>1. cash = [a \in Accounts |->
                     IF a = Master THEN Total(InitialCash) ELSE InitialCash[a]]
      BY <2>1, Zenon DEF Init
    <3>4. pc = "actions"
      BY <2>1 DEF Init
    <3>2. \A s \in Strategies : s \in Accounts /\ s # Master
      BY IndexSets
    <3>3. QED
      BY ONLY <3>1, <3>2, <3>4
  <2>3. \A s \in Strategies : InitialCash[s] \in Nat
    BY ConfigAssumption
  <2>4. QED
    BY <2>2, <2>3 DEF SolventInv, PricedDemands, CrossesPaid, SleevesSolvent, Trading
<1>2. TypeInv /\ FrozenInv /\ SolventInv /\ [Next]_vars => SolventInv'
  BY StepSolvent
<1>3. SolventInv => SleevesSolvent
  BY DEF SolventInv
<1>4. QED
  BY <1>1, <1>2, <1>3, TypeInvariant, FrozenInvariant, PTL DEF Spec

\* A sleeve is never asked for more than it was estimated to be able to pay,
\* for which it need not have been solvent all along.
THEOREM EstimatesHold ==
  ASSUME WholeFees
  PROVE  Spec => [](outcome # "sleeve_overdrawn")
<1> DEFINE Fine == outcome # "sleeve_overdrawn"
<1>1. Init => PricedDemands /\ Fine
  BY DEF Init, PricedDemands, Trading
<1>2. ASSUME TypeInv, FrozenInv, PricedDemands, Fine, [Next]_vars
      PROVE  PricedDemands' /\ Fine'
  <2>1. CASE UNCHANGED vars
    BY <1>2, <2>1 DEF vars, batch, PricedDemands, RefPrice
  <2>2. CASE Next
    <3>1. PricedDemands'
      BY <1>2, <2>2, StepPriced
    <3>2. CASE \E i \in Instruments : \E slip \in Slippage :
                  \E fill \in 0 .. EndOf("buy", i) : ExecuteBuy(i, fill, slip)
      <4>1. PICK i \in Instruments, slip \in Slippage :
                \E fill \in 0 .. EndOf("buy", i) : ExecuteBuy(i, fill, slip)
        BY <3>2
      <4>2. PICK fill \in 0 .. EndOf("buy", i) : ExecuteBuy(i, fill, slip)
        BY <4>1
      <4>3. QED
        BY <1>2, <3>1, <4>2, BuyAffordable DEF TypeInv
    <3>3. CASE \E i \in Instruments : \E slip \in Slippage :
                  \E fill \in 0 .. EndOf("sell", i) : ExecuteSell(i, fill, slip)
      <4>1. PICK i \in Instruments, slip \in Slippage :
                \E fill \in 0 .. EndOf("sell", i) : ExecuteSell(i, fill, slip)
        BY <3>3
      <4>2. PICK fill \in 0 .. EndOf("sell", i) : ExecuteSell(i, fill, slip)
        BY <4>1
      <4>3. outcome' \in {outcome, "sleeve_oversold", "master_oversold"}
        BY <4>2, Zenon DEF ExecuteSell, Abort
      <4>4. QED
        BY <1>2, <3>1, <4>3
    <3>4. CASE \/ \E e \in Events : AccrueDividend(e) \/ PayDividend(e) \/ AdjustShares(e)
               \/ ActionsDone \/ Decide \/ NoBatch \/ PlanSells \/ PlanBuys \/ NetDemands
               \/ SellsDone \/ DropCrosses \/ AcceptCrosses
               \/ (\E i \in Instruments : \E seller \in Strategies :
                      \E buyer \in Strategies : SettleCross(i, seller, buyer))
               \/ CrossesDone \/ BuysDone \/ MarkToMarket
               \/ (\E i \in Instruments : Delist(i)) \/ DelistingsDone \/ RecordDay
               \/ Finished
      <4>1. Fine'
        BY <1>2, <3>4 DEF AccrueDividend, PayDividend, AdjustShares, ActionsDone, Decide,
           NoBatch, PlanSells, PlanBuys, NetDemands, SellsDone, DropCrosses,
           AcceptCrosses, SettleCross, CrossesDone, BuysDone, MarkToMarket, Delist,
           DelistingsDone, RecordDay, Finished, Abort, vars
      <4>2. QED
        BY <3>1, <4>1
    <3>5. QED
      BY <2>2, <3>2, <3>3, <3>4 DEF Next
  <2>3. QED
    BY <1>2, <2>1, <2>2
<1>3. TypeInv /\ FrozenInv /\ PricedDemands /\ Fine /\ [Next]_vars
        => PricedDemands' /\ Fine'
  BY <1>2
<1> HIDE DEF Fine
<1>4. Spec => []Fine
  BY <1>1, <1>3, TypeInvariant, FrozenInvariant, PTL DEF Spec
<1>5. QED
  BY <1>4 DEF Fine

\* What was planned, netted and split can always be booked: no fill, split or
\* cross exceeds a position that may be sold, or the cash that must pay for it.
THEOREM BookingNeverFails ==
  ASSUME WholeFees, SalesPayFees
  PROVE  Spec => []NoBookingFailure
<1>1. Spec => []SleevesSolvent
  BY SleevesStaySolvent
<1>2. Spec => [](outcome # "sleeve_overdrawn")
  BY EstimatesHold
<1>3. ASSUME outcome \notin PositionFailures, outcome # "master_overdrawn",
             outcome # "sleeve_overdrawn"
      PROVE  NoBookingFailure
  BY <1>3 DEF NoBookingFailure, BookingFailures, PositionFailures
<1>4. QED
  BY <1>1, <1>2, <1>3, SalesNeverRefused, MasterNeverOverdrawn, PTL

-----------------------------------------------------------------------------
(***************************************************************************)
(* One account.  The sleeves add up to the master (RecInv), so a step of   *)
(* the ledger is one of BrokerAccount if it is one of the master.  That    *)
(* needs what the master cannot see: that netting leaves one side of an    *)
(* instrument at most, that what is ordered can be traded today, that all  *)
(* entries are booked before the trades, and that a day ends with all its  *)
(* delistings.  ValuedInv and FrozenInv have part of it; the rest is       *)
(* OrderInv.                                                               *)
(***************************************************************************)
Ordering == {"demand", "sell", "cross", "settle", "buy"}

\* Nothing is bought from its delisting day on.
ListedDemands ==
    pc \in Ordering =>
        \A i \in Instruments : DelistEffective(i) =>
            \A s \in Strategies : residual["buy"][i][s] = 0

OneSided ==
    pc \in Ordering \ {"demand"} =>
        \A i \in Instruments : EndOf("sell", i) = 0 \/ EndOf("buy", i) = 0

\* A loop over delistings has those of the day.
DelistsToday == pc = "delist" => \A i \in queue : DelistDay[i] = day

\* The loops visit what has an order to send.
QueueOrdered ==
    /\ pc = "sell" => \A i \in queue : EndOf("sell", i) > 0
    /\ pc = "buy" => \A i \in queue : EndOf("buy", i) > 0

NoneDue == pc \notin {"actions", "aborted"} => due = {}

OrderInv == PricedDemands /\ ListedDemands /\ OneSided /\ QueueOrdered /\ NoneDue
            /\ DelistsToday

\* What netting leaves of the smaller side is nothing.
LEMMA OneSideLeft ==
    ASSUME NEW n \in Nat, NEW own \in [1 .. n -> Nat], NEW other \in [1 .. n -> Nat],
           Total(own) <= Total(other)
    PROVE  Total(Residual(own, other)) = 0
<1>0. IsFiniteSet(1 .. n)
  BY FS_Interval
<1>1. Total(own) \in Nat /\ Total(other) \in Nat
  BY <1>0, TotalNat
<1>a. Residual(own, other) \in [1 .. n -> Nat]
  BY ResidualType
<1>2. ASSUME NEW s \in 1 .. n PROVE Residual(own, other)[s] = 0
  <2>1. Before(own, s) \in Nat /\ own[s] \in Nat /\ n + 1 \in 1 .. n + 1
    BY BeforeMasked
  <2>2. Before(own, s) + own[s] <= Total(own)
    <3>1. PICK t \in 1 .. n + 1 : t = n + 1 /\ s < t
      BY <2>1
    <3>2. Before(own, s) + own[s] <= Before(own, t)
      BY <3>1, IntervalsApart
    <3> QED
      BY <3>1, <3>2, BeforeAll
  <2>3. Residual(own, other)[s] = MaxOf(0, MinOf(own[s], Before(own, s) + own[s] - Total(other)))
    BY DEF Residual
  <2> QED
    BY <1>1, <2>1, <2>2, <2>3 DEF MaxOf, MinOf
<1> QED
  BY <1>2, <1>a, TotalZero

\* The same of the strategies' demands: an instrument is sold or bought, not both.
LEMMA OneSideOrdered ==
    ASSUME NEW own \in [Strategies -> Nat], NEW other \in [Strategies -> Nat]
    PROVE  Total(Residual(own, other)) = 0 \/ Total(Residual(other, own)) = 0
<1>1. NumStrategies \in Nat /\ Strategies = 1 .. NumStrategies
  BY IndexSets
<1>2. own \in [1 .. NumStrategies -> Nat] /\ other \in [1 .. NumStrategies -> Nat]
  BY <1>1
<1>3. Total(own) \in Nat /\ Total(other) \in Nat
  BY TotalNat, IndexSets
<1>4. Total(own) <= Total(other) \/ Total(other) <= Total(own)
  BY <1>3
<1> QED
  BY <1>1, <1>2, <1>4, OneSideLeft

\* No strategy asks to buy what is being delisted.
LEMMA PlanListed ==
    ASSUME TypeInv, FrozenInv, ListedDemands, PlanSells \/ PlanBuys
    PROVE  ListedDemands'
<1>1. CASE pc' = "aborted"
  BY <1>1 DEF ListedDemands, Ordering
<1>2. CASE PlanSells /\ pc' # "aborted"
  <2>1. /\ residual' = [residual EXCEPT !["sell"] =
               [i \in Instruments |-> [s \in Strategies |-> SellDemand(s, i)]]]
        /\ day' = day /\ pc = "trade"
    BY <1>2 DEF PlanSells, Abort
  <2>2. residual = NoDemand
    BY <2>1 DEF FrozenInv, BatchCleared, Trading
  <2> QED
    BY <2>1, <2>2 DEF ListedDemands, NoDemand, Sides
<1>3. CASE PlanBuys
  <2> DEFINE i == First(queue)
  <2>1. i \in Instruments
    <3>1. queue \in SUBSET Nat /\ queue # {} /\ queue \subseteq Instruments
      BY <1>3, IndexSets DEF PlanBuys, TypeInv, TypeOK
    <3>2. QED
      BY <3>1, FirstMember
  <2>2. /\ residual' = [residual EXCEPT !["buy"][i] =
               [s \in Strategies |-> MaxOf(0, BuyQuantity(s, i))]]
        /\ pc = "demand" /\ UNCHANGED <<day, pc>>
    BY <1>3 DEF PlanBuys
  <2> HIDE DEF i
  <2>3. ASSUME NEW j \in Instruments, DelistEffective(j), NEW s \in Strategies
        PROVE  residual'["buy"][j][s] = 0
    <3>1. /\ residual["buy"][j][s] = 0
          /\ residual \in [Sides -> [Instruments -> [Strategies -> Nat]]]
      BY <2>2, <2>3 DEF TypeInv, TypeOK, ListedDemands, Ordering
    <3>2. MaxOf(0, BuyQuantity(s, j)) = 0
      BY <2>3 DEF BuyQuantity, MaxOf
    <3>3. QED
      BY <2>1, <2>2, <3>1, <3>2 DEF Sides
  <2>4. QED
    BY <2>2, <2>3 DEF ListedDemands, DelistEffective
<1>4. QED
  BY <1>1, <1>2, <1>3

\* Netting splits the demands: one order for an instrument, and none where none was asked.
LEMMA NettingOrders ==
    ASSUME TypeInv, ListedDemands, NetDemands
    PROVE  ListedDemands' /\ OneSided' /\ QueueOrdered'
<1>1. /\ pc = "demand" /\ pc' = "sell" /\ day' = day
      /\ queue' = {i \in Instruments :
                      Total(Residual(residual["sell"][i], residual["buy"][i])) > 0}
      /\ residual' =
            [sell |-> [i \in Instruments |-> Residual(residual["sell"][i], residual["buy"][i])],
             buy |-> [i \in Instruments |-> Residual(residual["buy"][i], residual["sell"][i])]]
  BY DEF NetDemands
<1>2. ASSUME NEW i \in Instruments
      PROVE  residual["sell"][i] \in [Strategies -> Nat] /\ residual["buy"][i] \in [Strategies -> Nat]
  BY DEF TypeInv, TypeOK, Sides
<1>3. ASSUME NEW i \in Instruments
      PROVE  /\ residual'["sell"][i] = Residual(residual["sell"][i], residual["buy"][i])
             /\ residual'["buy"][i] = Residual(residual["buy"][i], residual["sell"][i])
  BY <1>1
<1>4. ASSUME NEW i \in Instruments, DelistEffective(i), NEW s \in Strategies
      PROVE  residual'["buy"][i][s] = 0
  <2>1. \A t \in Strategies : residual["buy"][i][t] = 0
    BY <1>1, <1>4 DEF ListedDemands, Ordering
  <2>2. PICK n \in Nat : n = NumStrategies /\ Strategies = 1 .. n
    BY IndexSets
  <2>3. PICK own \in [1 .. n -> Nat], other \in [1 .. n -> Nat] :
            own = residual["buy"][i] /\ other = residual["sell"][i]
    BY <1>2, <2>2
  <2>4. /\ Residual(own, other) \in [1 .. n -> Nat]
        /\ \A t \in 1 .. n : Residual(own, other)[t] <= own[t]
    BY ResidualType
  <2>5. Residual(own, other)[s] \in Nat /\ Residual(own, other)[s] <= own[s]
    BY <2>2, <2>4
  <2> QED
    BY <1>3, <2>1, <2>3, <2>5
<1>5. ListedDemands'
  BY <1>1, <1>4 DEF ListedDemands, DelistEffective
<1>6. OneSided'
  BY <1>2, <1>3, OneSideOrdered DEF OneSided, EndOf
<1>7. QueueOrdered'
  BY <1>1, <1>3 DEF QueueOrdered, EndOf
<1> QED
  BY <1>5, <1>6, <1>7

\* The steps that are not planning or netting leave the demands, or drop them all.
LEMMA StepOrdered ==
    ASSUME TypeInv, OrderInv, Next, ~ PlanSells, ~ PlanBuys, ~ NetDemands
    PROVE  ListedDemands' /\ OneSided' /\ QueueOrdered'
<1>1. CASE \E i \in Instruments : \E slip \in Slippage :
              \/ \E fill \in 0 .. EndOf("sell", i) : ExecuteSell(i, fill, slip)
              \/ \E fill \in 0 .. EndOf("buy", i) : ExecuteBuy(i, fill, slip)
  <2>1. PICK i \in Instruments, slip \in Slippage :
            \/ \E fill \in 0 .. EndOf("sell", i) : ExecuteSell(i, fill, slip)
            \/ \E fill \in 0 .. EndOf("buy", i) : ExecuteBuy(i, fill, slip)
    BY <1>1
  <2>2. PICK fill \in Nat : ExecuteSell(i, fill, slip) \/ ExecuteBuy(i, fill, slip)
    BY <2>1
  <2>3. UNCHANGED <<day, residual>> /\ (pc' = pc \/ pc' = "aborted") /\ queue' \subseteq queue
    BY <2>2 DEF ExecuteSell, ExecuteBuy, Abort, batch
  <2> QED
    BY <2>3 DEF OrderInv, ListedDemands, OneSided, QueueOrdered, Ordering, DelistEffective, EndOf
<1>2. CASE \/ SellsDone \/ DropCrosses \/ AcceptCrosses
           \/ \E i \in Instruments : \E seller \in Strategies :
                  \E buyer \in Strategies : SettleCross(i, seller, buyer)
  <2>1. /\ UNCHANGED <<day, residual>> /\ pc' \in {"aborted", "cross", "settle"}
        /\ pc \in {"sell", "cross", "settle"}
    BY <1>2 DEF SellsDone, DropCrosses, AcceptCrosses, SettleCross, Abort, batch
  <2> QED
    BY <2>1 DEF OrderInv, ListedDemands, OneSided, QueueOrdered, Ordering, DelistEffective, EndOf
<1>3. CASE CrossesDone
  <2>1. /\ UNCHANGED <<day, residual>> /\ pc' = "buy" /\ pc = "settle"
        /\ queue' = {i \in Instruments : EndOf("buy", i) > 0}
    BY <1>3 DEF CrossesDone
  <2> QED
    BY <2>1 DEF OrderInv, ListedDemands, OneSided, QueueOrdered, Ordering, DelistEffective, EndOf
<1>4. CASE \/ \E e \in Events : AccrueDividend(e) \/ PayDividend(e) \/ AdjustShares(e)
           \/ ActionsDone \/ Decide \/ NoBatch \/ BuysDone \/ MarkToMarket
           \/ (\E i \in Instruments : Delist(i)) \/ DelistingsDone \/ RecordDay
  <2>1. pc' \notin Ordering
    BY <1>4 DEF AccrueDividend, PayDividend, AdjustShares, Item, ActionsDone, Decide,
       NoBatch, BuysDone, MarkToMarket, Delist, DelistingsDone, RecordDay, Abort, Ordering
  <2>2. QED
    BY <2>1 DEF ListedDemands, OneSided, QueueOrdered, Ordering
<1>5. CASE Finished
  BY <1>5 DEF Finished, vars, batch, OrderInv, ListedDemands, OneSided, QueueOrdered,
     DelistEffective, EndOf
<1>6. QED
  BY <1>1, <1>2, <1>3, <1>4, <1>5 DEF Next

\* The entries of a day are booked before it goes on.
LEMMA StepDue ==
    ASSUME NoneDue, Next
    PROVE  NoneDue'
<1>1. CASE \E e \in Events : AccrueDividend(e) \/ PayDividend(e) \/ AdjustShares(e)
  BY <1>1 DEF AccrueDividend, PayDividend, AdjustShares, Item, Abort, NoneDue
<1>2. CASE ActionsDone \/ RecordDay
  BY <1>2 DEF ActionsDone, RecordDay, Abort, NoneDue
<1>3. CASE \E i \in Instruments : \E slip \in Slippage :
              \/ \E fill \in 0 .. EndOf("sell", i) : ExecuteSell(i, fill, slip)
              \/ \E fill \in 0 .. EndOf("buy", i) : ExecuteBuy(i, fill, slip)
  <2>1. PICK i \in Instruments, slip \in Slippage :
            \/ \E fill \in 0 .. EndOf("sell", i) : ExecuteSell(i, fill, slip)
            \/ \E fill \in 0 .. EndOf("buy", i) : ExecuteBuy(i, fill, slip)
    BY <1>3
  <2>2. PICK fill \in Nat : ExecuteSell(i, fill, slip) \/ ExecuteBuy(i, fill, slip)
    BY <2>1
  <2> QED
    BY <2>2 DEF ExecuteSell, ExecuteBuy, Abort, NoneDue
<1>4. CASE \/ Decide \/ NoBatch \/ PlanSells \/ PlanBuys \/ NetDemands \/ SellsDone
           \/ DropCrosses \/ AcceptCrosses \/ CrossesDone \/ BuysDone \/ MarkToMarket
           \/ DelistingsDone
           \/ (\E i \in Instruments : Delist(i))
           \/ \E i \in Instruments : \E seller \in Strategies :
                  \E buyer \in Strategies : SettleCross(i, seller, buyer)
  <2>1. due' = due /\ pc # "actions" /\ (pc' = "aborted" \/ pc # "aborted")
    BY <1>4 DEF Decide, NoBatch, PlanSells, PlanBuys, NetDemands, SellsDone, DropCrosses,
       AcceptCrosses, CrossesDone, BuysDone, MarkToMarket, DelistingsDone, Delist, SettleCross,
       Abort
  <2> QED
    BY <2>1 DEF NoneDue
<1>5. CASE Finished
  BY <1>5 DEF Finished, vars, NoneDue
<1>6. QED
  BY <1>1, <1>2, <1>3, <1>4, <1>5 DEF Next

\* What is disposed of after a close has reached its delisting day.
LEMMA StepDelists ==
    ASSUME DelistsToday, Next
    PROVE  DelistsToday'
<1>1. CASE MarkToMarket \/ \E i \in Instruments : Delist(i)
  BY <1>1 DEF MarkToMarket, Delist, Abort, DelistsToday
<1>2. CASE \E i \in Instruments : \E slip \in Slippage :
              \/ \E fill \in 0 .. EndOf("sell", i) : ExecuteSell(i, fill, slip)
              \/ \E fill \in 0 .. EndOf("buy", i) : ExecuteBuy(i, fill, slip)
  <2>1. PICK i \in Instruments, slip \in Slippage :
            \/ \E fill \in 0 .. EndOf("sell", i) : ExecuteSell(i, fill, slip)
            \/ \E fill \in 0 .. EndOf("buy", i) : ExecuteBuy(i, fill, slip)
    BY <1>2
  <2>2. PICK fill \in Nat : ExecuteSell(i, fill, slip) \/ ExecuteBuy(i, fill, slip)
    BY <2>1
  <2> QED
    BY <2>2 DEF ExecuteSell, ExecuteBuy, Abort, DelistsToday
<1>3. CASE \/ \E e \in Events : AccrueDividend(e) \/ PayDividend(e) \/ AdjustShares(e)
           \/ ActionsDone \/ RecordDay \/ Decide \/ NoBatch \/ PlanSells \/ PlanBuys
           \/ NetDemands \/ SellsDone \/ DropCrosses \/ AcceptCrosses \/ CrossesDone
           \/ BuysDone \/ DelistingsDone
           \/ \E i \in Instruments : \E seller \in Strategies :
                  \E buyer \in Strategies : SettleCross(i, seller, buyer)
  <2>1. pc' # "delist"
    BY <1>3 DEF AccrueDividend, PayDividend, AdjustShares, Item, ActionsDone, RecordDay,
       Decide, NoBatch, PlanSells, PlanBuys, NetDemands, SellsDone, DropCrosses,
       AcceptCrosses, CrossesDone, BuysDone, DelistingsDone, SettleCross, Abort
  <2> QED
    BY <2>1 DEF DelistsToday
<1>4. CASE Finished
  BY <1>4 DEF Finished, vars, batch, DelistsToday
<1>5. QED
  BY <1>1, <1>2, <1>3, <1>4 DEF Next

\* All that the refinement rests on, in every reachable state.
BrokerInv == RecInv /\ FrozenInv /\ ValuedInv /\ OrderInv

LEMMA BrokerInvariant == Spec => []BrokerInv
<1>1. Init => OrderInv
  BY DEF Init, OrderInv, PricedDemands, Trading, ListedDemands, OneSided, QueueOrdered,
     Ordering, NoneDue, DelistsToday
<1>2. ASSUME TypeInv, FrozenInv, OrderInv, [Next]_vars PROVE OrderInv'
  <2>1. CASE UNCHANGED vars
    BY <1>2, <2>1 DEF vars, batch, OrderInv, PricedDemands, RefPrice, ListedDemands, OneSided,
       QueueOrdered, NoneDue, DelistsToday, DelistEffective, EndOf
  <2>2. CASE Next
    <3>1. PricedDemands' /\ NoneDue' /\ DelistsToday'
      BY <1>2, <2>2, StepPriced, StepDue, StepDelists DEF OrderInv
    <3>2. CASE PlanSells \/ PlanBuys
      <4>1. pc' \in {"aborted", "demand"}
        BY <3>2 DEF PlanSells, PlanBuys, Abort
      <4>2. OneSided' /\ QueueOrdered'
        BY <4>1 DEF OneSided, QueueOrdered, Ordering
      <4> QED
        BY <1>2, <3>1, <3>2, <4>2, PlanListed DEF OrderInv
    <3>3. CASE NetDemands
      BY <1>2, <3>1, <3>3, NettingOrders DEF OrderInv
    <3>4. CASE ~ PlanSells /\ ~ PlanBuys /\ ~ NetDemands
      BY <1>2, <2>2, <3>1, <3>4, StepOrdered DEF OrderInv
    <3> QED
      BY <3>2, <3>3, <3>4
  <2> QED
    BY <1>2, <2>1, <2>2
<1>3. TypeInv /\ ValuedInv /\ [Next]_vars => ValuedInv'
  BY StepValued
<1> QED
  BY <1>1, <1>2, <1>3, TypeInvariant, FrozenInvariant, RecInvariant, InitValued, PTL
     DEF Spec, BrokerInv

-----------------------------------------------------------------------------
\* The master's books are what the sleeves have together.
SumsUp ==
    /\ CashTogether = cash[Master] /\ OwedTogether = receivable[Master]
    /\ EntitledTogether = entitled[Master] /\ HeldTogether = shares[Master]

LEMMA AccountIsMaster == RecInv => SumsUp
<1> SUFFICES ASSUME RecInv PROVE SumsUp
  OBVIOUS
<1>1. /\ receivable[Master] \in [Events -> Nat] /\ entitled[Master] \in [Events -> Nat]
      /\ shares[Master] \in [Instruments -> Nat]
  BY IndexSets DEF RecInv, TypeInv, TypeOK
<1>2. CashTogether = cash[Master]
  BY DEF RecInv, CashReconcile, CashTogether
<1>3. \A e \in Events : Together(receivable, e) = receivable[Master][e]
  BY DEF RecInv, ReceivablesReconcile, Together
<1>4. \A e \in Events : Together(entitled, e) = entitled[Master][e]
  BY DEF RecInv, EntitlementsReconcile, Together
<1>5. \A i \in Instruments : Together(shares, i) = shares[Master][i]
  BY DEF RecInv, PositionsReconcile, Together
<1>6. OwedTogether = receivable[Master]
  BY <1>1, <1>3 DEF OwedTogether
<1>7. EntitledTogether = entitled[Master]
  BY <1>1, <1>4 DEF EntitledTogether
<1>8. HeldTogether = shares[Master]
  BY <1>1, <1>5 DEF HeldTogether
<1> QED
  BY <1>2, <1>6, <1>7, <1>8 DEF SumsUp

\* An entry has a number of its own.
LEMMA EntriesApart ==
    ASSUME NEW x \in Events \X {"ex", "pay"}, NEW y \in Events \X {"ex", "pay"},
           EntryNumber(x) = EntryNumber(y)
    PROVE  x = y
<1>1. x[1] \in Nat /\ y[1] \in Nat
  BY ActionsAssumption
<1>2. x[1] = y[1] /\ x[2] = y[2]
  BY <1>1 DEF EntryNumber
<1> QED
  BY <1>2

\* What a day begins with.
LEMMA EntriesOfDay ==
    ASSUME NEW d
    PROVE  {x \in Events \X {"ex", "pay"} : EntryNumber(x) \in DueOn(d)} = Broker!Entries(d)
<1>1. \A e \in Events : e \in Nat
  BY ActionsAssumption
<1>2. ASSUME NEW e \in Events
      PROVE  /\ 2 * e - 1 \in DueOn(d) <=> Actions[e].ex = d
             /\ 2 * e \in DueOn(d) <=> Actions[e].kind = "dividend" /\ Actions[e].pay = d
  <2>1. \A f \in Events : 2 * e - 1 # 2 * f /\ (2 * e - 1 = 2 * f - 1 => e = f)
    BY <1>1
  <2>2. \A f \in Events : 2 * e # 2 * f - 1 /\ (2 * e = 2 * f => e = f)
    BY <1>1
  <2> QED
    BY <2>1, <2>2 DEF DueOn
<1>3. ASSUME NEW e \in Events
      PROVE  /\ <<e, "ex">> \in Broker!Entries(d) <=> Actions[e].ex = d
             /\ <<e, "pay">> \in Broker!Entries(d)
                   <=> Actions[e].kind = "dividend" /\ Actions[e].pay = d
  BY DEF Broker!Entries, Broker!Events, Events
<1>4. ASSUME NEW e \in Events
      PROVE  EntryNumber(<<e, "ex">>) = 2 * e - 1 /\ EntryNumber(<<e, "pay">>) = 2 * e
  BY DEF EntryNumber
<1>5. Broker!Entries(d) \subseteq Events \X {"ex", "pay"}
  BY DEF Broker!Entries, Broker!Events, Events
<1>6. ASSUME NEW x \in Events \X {"ex", "pay"}
      PROVE  EntryNumber(x) \in DueOn(d) <=> x \in Broker!Entries(d)
  <2>1. PICK e \in Events : x = <<e, "ex">> \/ x = <<e, "pay">>
    OBVIOUS
  <2> QED
    BY <1>2, <1>3, <1>4, <2>1
<1> QED
  BY <1>5, <1>6

\* An item that is taken off the numbers is taken off the entries.
LEMMA EntryBooked ==
    ASSUME NEW x \in Events \X {"ex", "pay"}, EntryNumber(x) \in due,
           due' = due \ {EntryNumber(x)}
    PROVE  x \in EntriesDue /\ EntriesDue' = EntriesDue \ {x}
BY EntriesApart DEF EntriesDue

-----------------------------------------------------------------------------
\* A rounded quotient is off by half a divisor at most.
LEMMA RoundedNear ==
    ASSUME NEW n \in Int, NEW d \in Nat \ {0}
    PROVE  2 * (RoundHalfEven(n, d) * d - n) \in -d .. d
<1>1. PICK q \in Int, m \in Nat : q = n \div d /\ m = n % d /\ m < d
  OBVIOUS
<1>2. PICK p \in Int : p = q * d
  OBVIOUS
<1>3. n = p + m
  BY <1>1, <1>2
<1>4. CASE RoundHalfEven(n, d) = q /\ 2 * m <= d
  BY <1>2, <1>3, <1>4
<1>5. CASE RoundHalfEven(n, d) = q + 1 /\ 2 * m >= d
  <2>1. (q + 1) * d = p + d
    BY <1>2
  <2>2. RoundHalfEven(n, d) * d = p + d
    BY <1>5, <2>1
  <2>3. PICK r \in Int : r = RoundHalfEven(n, d) * d
    BY <2>2
  <2> QED
    BY <1>1, <1>3, <1>5, <2>2, <2>3
<1> QED
  BY <1>1, <1>4, <1>5 DEF RoundHalfEven

\* The sleeves' adjustments together are off by half a share of each at most.
LEMMA RoundedTogether ==
    ASSUME TypeOK, NEW e \in Events, NEW n, n = Total(SleeveDelta(e)),
           NEW all, all = Together(entitled, e)
    PROVE  2 * (n * Actions[e].den - all * (Actions[e].num - Actions[e].den))
               \in -(NumStrategies * Actions[e].den) .. NumStrategies * Actions[e].den
<1>1. PICK den \in Nat \ {0}, gain \in Int :
          den = Actions[e].den /\ gain = Actions[e].num - Actions[e].den
  BY ActionsAssumption
<1> DEFINE S == Strategies
           held == [s \in S |-> entitled[s][e]]
           delta == SleeveDelta(e)
           f == [s \in S |-> delta[s] * den]
           g == [s \in S |-> held[s] * gain]
           h == [s \in S |-> f[s] - g[s]]
           k == [s \in S |-> h[s] * 2]
           one == [s \in S |-> 1]
           top == [s \in S |-> one[s] * den]
           low == [s \in S |-> one[s] * (-den)]
<1>2. IsFiniteSet(S) /\ held \in [S -> Nat] /\ delta \in [S -> Int] /\ one \in [S -> Int]
  BY ColumnTypes, IndexSets, DeltaType DEF Accounts
<1>3. ASSUME NEW s \in S
      PROVE  f[s] \in Int /\ g[s] \in Int /\ h[s] \in Int /\ k[s] \in -den .. den
  <2>1. PICK x \in Int : x = held[s] * gain
    BY <1>2
  <2>2. delta[s] = RoundHalfEven(x, den)
    BY <1>1, <2>1 DEF SleeveDelta
  <2>3. PICK y \in Int : y = delta[s] * den
    BY <1>2
  <2>4. 2 * (RoundHalfEven(x, den) * den - x) \in -den .. den
    BY RoundedNear
  <2>5. h[s] = y - x /\ k[s] = (y - x) * 2
    BY <2>1, <2>3
  <2>6. 2 * (y - x) \in -den .. den
    BY <2>2, <2>3, <2>4
  <2>7. f[s] = y /\ g[s] = x
    BY <2>1, <2>3
  <2> HIDE DEF f, g, h, k
  <2> QED
    BY <2>5, <2>6, <2>7
<1>4. /\ f \in [S -> Int] /\ g \in [S -> Int] /\ h \in [S -> Int] /\ k \in [S -> Int]
      /\ top \in [S -> Int] /\ low \in [S -> Int]
  <2>1. h \in [S -> Int] /\ k \in [S -> Int] /\ f \in [S -> Int] /\ g \in [S -> Int]
    BY <1>3
  <2> QED
    BY <2>1
<1>5. \A s \in S : low[s] <= k[s] /\ k[s] <= top[s]
  <2>1. \A s \in S : low[s] = -den /\ top[s] = den
    OBVIOUS
  <2> HIDE DEF low, top, k
  <2> QED
    BY <1>3, <2>1
<1>6. Total(delta) \in Int /\ Total(held) \in Int /\ Total(one) \in Int
      /\ Total(f) \in Int /\ Total(g) \in Int
  <2> HIDE DEF delta, held, one, f, g
  <2> QED
    BY <1>2, <1>4, TotalType
<1>7. Total(f) = Total(delta) * den /\ Total(g) = Total(held) * gain
  <2>1. (\A s \in S : f[s] = delta[s] * den) /\ (\A s \in S : g[s] = held[s] * gain)
    OBVIOUS
  <2> HIDE DEF delta, held, f, g
  <2> QED
    BY <1>2, <1>4, <2>1, TotalScale
<1>8. Total(h) = Total(f) - Total(g)
  <2>1. \A s \in S : h[s] = f[s] - g[s]
    OBVIOUS
  <2> HIDE DEF f, g, h
  <2> QED
    BY <1>2, <1>4, <2>1, TotalSubtract
<1>9. Total(k) = Total(h) * 2
  <2>1. PICK two \in Int : two = 2
    OBVIOUS
  <2>2. \A s \in S : k[s] = h[s] * two
    BY <2>1
  <2> HIDE DEF h, k
  <2>3. Total(k) = Total(h) * two
    BY <1>2, <1>4, <2>2, TotalScale
  <2> QED
    BY <2>1, <2>3
<1>10. Total(top) = Total(one) * den /\ Total(low) = Total(one) * (-den)
  <2>1. PICK neg \in Int : neg = -den
    OBVIOUS
  <2>2. (\A s \in S : top[s] = one[s] * den) /\ (\A s \in S : low[s] = one[s] * neg)
    BY <2>1
  <2>3. den \in Int
    OBVIOUS
  <2> HIDE DEF one, top, low
  <2>4. Total(top) = Total(one) * den
    BY <1>2, <1>4, <2>2, <2>3, TotalScale
  <2>5. Total(low) = Total(one) * neg
    BY <1>2, <1>4, <2>2, TotalScale
  <2> QED
    BY <2>1, <2>4, <2>5
<1>11. Total(low) <= Total(k) /\ Total(k) <= Total(top)
  <2> HIDE DEF k, top, low
  <2> QED
    BY <1>2, <1>4, <1>5, TotalMonotone
<1>12. Total(one) <= NumStrategies /\ NumStrategies \in Nat
  <2>1. Cardinality(S) = NumStrategies /\ NumStrategies \in Nat
    BY IndexSets, FS_Interval
  <2>2. Sum([s \in S |-> 1], S) <= Cardinality(S)
    BY <1>2, SumOfOnes
  <2>3. Total(one) = Sum([s \in S |-> 1], S)
    BY DEF Total
  <2> QED
    BY <2>1, <2>2, <2>3
<1>13. PICK N \in Nat, t \in Int, c \in Int : N = NumStrategies /\ t = Total(one) /\ t <= N
            /\ c = t * den
  BY <1>6, <1>12
<1>14. c <= N * den /\ t * (-den) = -c
  BY <1>13
<1>15. PICK u \in Int, v \in Int : u = Total(f) /\ v = Total(g)
  BY <1>6
<1>16. (u - v) * 2 \in -(N * den) .. N * den
  <2>1. PICK nd \in Int : nd = N * den
    OBVIOUS
  <2>2. -c <= (u - v) * 2 /\ (u - v) * 2 <= c
    BY <1>8, <1>9, <1>10, <1>11, <1>13, <1>14, <1>15
  <2> QED
    BY <1>13, <1>14, <2>1, <2>2
<1>17. n * den = u /\ all * gain = v
  <2>1. n = Total(delta) /\ all = Total(held)
    BY DEF Together
  <2> QED
    BY <1>7, <1>15, <2>1
<1> HIDE DEF delta, held, f, g, h, k, one, top, low
<1>18. 2 * (n * den - all * gain) = (u - v) * 2
  BY <1>17
<1> QED
  BY <1>1, <1>13, <1>16, <1>18

-----------------------------------------------------------------------------
(* The steps, seen from the broker.  Where nothing is said of the account,  *)
(* it is the master's books that stay as they are.                          *)

AccountKept == UNCHANGED <<day, cash[Master], receivable[Master], entitled[Master],
                           shares[Master], locked[Master], mark, frozen>>

LEMMA AccountStays ==
    ASSUME SumsUp, SumsUp', AccountKept
    PROVE  UNCHANGED <<day, Broker!account>>
BY DEF SumsUp, AccountKept, Broker!account

\* An abort leaves everything, and stops everything.
LEMMA AbortMaps ==
    ASSUME SumsUp, SumsUp', NEW reason, Abort(reason)
    PROVE  Broker!Next
<1>1. AccountKept /\ pc' = "aborted" /\ due' = due
  BY DEF Abort, ledger, book, AccountKept
<1>2. EntriesDue' = EntriesDue
  BY <1>1 DEF EntriesDue
<1>3. DayPhase' = "halted" /\ OpenToday' = {}
  BY <1>1 DEF DayPhase, OpenToday
<1>4. UNCHANGED <<day, Broker!account>>
  BY <1>1, AccountStays
<1>5. Broker!Halt
  BY <1>2, <1>3, <1>4 DEF Broker!Halt
<1> QED
  BY <1>5 DEF Broker!Next

\* What plans, nets, crosses and controls is not seen at all.
LEMMA NotSeen ==
    ASSUME SumsUp, SumsUp', AccountKept, due' = due, DayPhase' = DayPhase,
           OpenToday' = OpenToday
    PROVE  UNCHANGED Broker!vars
<1>1. EntriesDue' = EntriesDue
  BY DEF EntriesDue
<1>2. UNCHANGED <<day, Broker!account>>
  BY AccountStays
<1> QED
  BY <1>1, <1>2 DEF Broker!vars

\* Before the open every instrument can be traded.
LEMMA ItemMaps ==
    ASSUME NEW x \in Events \X {"ex", "pay"}, pc = "actions", EntryNumber(x) \in due,
           due' = due \ {EntryNumber(x)}, UNCHANGED <<day, pc>>
    PROVE  Broker!Book(x)
<1>1. x \in EntriesDue /\ EntriesDue' = EntriesDue \ {x}
  BY EntryBooked
<1>2. DayPhase = "day" /\ DayPhase' = "day"
  BY DEF DayPhase
<1>3. OpenToday = Instruments /\ OpenToday' = Instruments
  BY DEF OpenToday
<1> QED
  BY <1>1, <1>2, <1>3 DEF Broker!Book

\* The next item is one of those due.
LEMMA NextItem ==
    ASSUME TypeInv, due # {}
    PROVE  First(due) \in due
BY FirstMember DEF TypeInv, TypeOK

LEMMA AccrueMaps ==
    ASSUME RecInv, SumsUp, SumsUp', NEW e \in Events, AccrueDividend(e)
    PROVE  Broker!Next
<1> DEFINE x == <<e, "ex">>
<1>1. /\ pc = "actions" /\ due # {} /\ 2 * e - 1 = First(due)
      /\ due' = due \ {2 * e - 1} /\ UNCHANGED <<day, pc>>
  BY DEF AccrueDividend, Item
<1>2. x \in Events \X {"ex", "pay"} /\ EntryNumber(x) = 2 * e - 1
  BY DEF EntryNumber
<1>3. Broker!Book(x)
  <2> HIDE DEF x
  <2> QED
    BY <1>1, <1>2, NextItem, ItemMaps DEF RecInv
<1>4. entitled[Master][e] \in Nat /\ receivable[Master] \in [Events -> Nat]
      /\ Actions[e].perShare \in Nat
  BY IndexSets, ActionsAssumption DEF RecInv, TypeInv, TypeOK
<1>5. receivable'[Master] =
          [receivable[Master] EXCEPT ![e] = entitled[Master][e] * Actions[e].perShare]
  <2>1. receivable'[Master] = IF entitled[Master][e] > 0
            THEN [receivable[Master] EXCEPT ![e] = entitled[Master][e] * Actions[e].perShare]
            ELSE receivable[Master]
    BY IndexSets DEF AccrueDividend
  <2>2. CASE entitled[Master][e] > 0
    BY <2>1, <2>2
  <2>3. CASE entitled[Master][e] = 0
    <3>1. receivable[Master][e] = 0 /\ 0 * Actions[e].perShare = 0
      BY <1>4, <2>3, IndexSets DEF RecInv, OwedWhereEntitled
    <3> QED
      BY <1>4, <2>1, <2>3, <3>1
  <2> QED
    BY <1>4, <2>2, <2>3
<1>6. UNCHANGED <<cash, entitled, shares, locked, mark, frozen>>
  BY DEF AccrueDividend, book
<1>7. Actions[e].kind = "dividend"
  BY DEF AccrueDividend
<1>8. Broker!Accrue(e)
  BY <1>3, <1>5, <1>6, <1>7 DEF SumsUp, Broker!Accrue
<1> QED
  BY <1>8 DEF Broker!Next, Broker!Events, Events

LEMMA PayMaps ==
    ASSUME RecInv, SumsUp, SumsUp', NEW e \in Events, PayDividend(e)
    PROVE  Broker!Next
<1> DEFINE x == <<e, "pay">>
<1>1. /\ pc = "actions" /\ due # {} /\ 2 * e = First(due)
      /\ due' = due \ {2 * e} /\ UNCHANGED <<day, pc>>
  BY DEF PayDividend, Item
<1>2. x \in Events \X {"ex", "pay"} /\ EntryNumber(x) = 2 * e
  BY DEF EntryNumber
<1>3. Broker!Book(x)
  <2> HIDE DEF x
  <2> QED
    BY <1>1, <1>2, NextItem, ItemMaps DEF RecInv
<1>4. /\ cash'[Master] = cash[Master] + receivable[Master][e]
      /\ receivable'[Master] = [receivable[Master] EXCEPT ![e] = 0]
      /\ UNCHANGED <<entitled, shares, locked, mark, frozen>>
  BY IndexSets DEF PayDividend, book
<1>5. Broker!Pay(e)
  BY <1>3, <1>4 DEF SumsUp, Broker!Pay
<1> QED
  BY <1>5 DEF Broker!Next, Broker!Events, Events

LEMMA AdjustMaps ==
    ASSUME RecInv, RecInv', SumsUp, SumsUp', NEW e \in Events, AdjustShares(e)
    PROVE  Broker!Next
<1> DEFINE x == <<e, "ex">>
           i == Actions[e].code
<1>1. CASE ~ \A a \in Accounts : Adjustable(a, e)
  <2>1. Abort("action_exceeds_position")
    BY <1>1 DEF AdjustShares
  <2> QED
    BY <2>1, AbortMaps
<1>2. CASE \A a \in Accounts : Adjustable(a, e)
  <2>1. /\ Actions[e].kind = "adjust"
        /\ pc = "actions" /\ due # {} /\ First(due) = 2 * e - 1
        /\ due' = due \ {2 * e - 1} /\ UNCHANGED <<day, pc>>
        /\ shares' = [a \in Accounts |-> [shares[a] EXCEPT ![i] = @ + Delta(a, e)]]
        /\ UNCHANGED <<cash, receivable, entitled, locked, mark, frozen>>
    BY <1>2 DEF AdjustShares, book
  <2>2. x \in Events \X {"ex", "pay"} /\ EntryNumber(x) = 2 * e - 1
    BY DEF EntryNumber
  <2>3. Broker!Book(x)
    <3> HIDE DEF x
    <3> QED
      BY <2>1, <2>2, NextItem, ItemMaps DEF RecInv
  <2>4. /\ i \in Instruments /\ shares[Master] \in [Instruments -> Nat]
        /\ shares'[Master] \in [Instruments -> Nat] /\ entitled[Master][e] \in Nat
    BY IndexSets, ActionsAssumption DEF RecInv, TypeInv, TypeOK
  <2>5. PICK n : n = Delta(Master, e)
    OBVIOUS
  <2>6. n \in Int /\ (entitled[Master][e] = 0 => n = 0)
    BY <2>5, DeltaType, IndexSets DEF RecInv, TypeInv, Delta
  <2>7. shares'[Master] = [shares[Master] EXCEPT ![i] = @ + n]
    BY <2>1, <2>5, IndexSets
  <2>8. shares[Master][i] + n >= 0 /\ shares'[Master][i] - shares[Master][i] = n
    <3>1. shares'[Master][i] = shares[Master][i] + n
      BY <2>4, <2>7
    <3> HIDE DEF i
    <3> QED
      BY <2>4, <2>6, <3>1
  <2>9. Broker!Rounded(e, n)
    <3>1. n = Total(SleeveDelta(e))
      BY <2>5, DeltaTotal
    <3>2. PICK all : all = Together(entitled, e)
      OBVIOUS
    <3>3. all = EntitledTogether[e]
      BY <3>2 DEF EntitledTogether
    <3>4. TypeOK
      BY DEF RecInv, TypeInv
    <3>5. 2 * (n * Actions[e].den - all * (Actions[e].num - Actions[e].den))
              \in -(NumStrategies * Actions[e].den) .. NumStrategies * Actions[e].den
      BY <3>1, <3>2, <3>4, RoundedTogether
    <3> QED
      BY <3>3, <3>5 DEF Broker!Rounded
  <2>10. Broker!Adjust(e, n)
    BY <2>1, <2>3, <2>6, <2>7, <2>8, <2>9 DEF SumsUp, Broker!Adjust
  <2>11. HeldTogether'[i] - HeldTogether[i] = n
    BY <2>8 DEF SumsUp
  <2>12. Broker!Adjust(e, HeldTogether'[Actions[e].code] - HeldTogether[Actions[e].code])
    BY <2>10, <2>11
  <2> QED
    BY <2>12 DEF Broker!Next, Broker!Events, Events
<1> QED
  BY <1>1, <1>2

-----------------------------------------------------------------------------
\* The orders of the day.
ReferenceTable == IF Timing = "next_open" THEN OpenPrice ELSE ClosePrice

LEMMA ReferenceIs ==
    ASSUME TypeOK, NEW i \in Instruments
    PROVE  ReferenceTable[i][day] = RefPrice(i) /\ RefPrice(i) \in Nat
<1>1. ReferenceTable[i][day] = RefPrice(i)
  BY DEF ReferenceTable, RefPrice
<1>2. RefPrice(i) \in Nat
  BY PriceTypes
<1> QED
  BY <1>1, <1>2

\* Who has an order has a demand of some strategy, and so a price.
LEMMA OrderedPriced ==
    ASSUME TypeOK, PricedDemands, pc \in {"sell", "buy"}, NEW side \in Sides,
           NEW i \in Instruments, EndOf(side, i) > 0
    PROVE  RefPrice(i) > 0
<1>1. residual[side][i] \in [Strategies -> Nat] /\ RefPrice(i) \in Nat
  BY ReferenceIs DEF TypeOK
<1>2. CASE RefPrice(i) = 0
  <2>1. \A s \in Strategies : residual[side][i][s] = 0
    BY <1>2 DEF PricedDemands, Trading, Sides
  <2>2. PICK f \in [Strategies -> Int] : f = residual[side][i]
    BY <1>1
  <2>3. Total(f) = 0
    BY <2>1, <2>2, TotalZero
  <2> QED
    BY <2>2, <2>3 DEF EndOf
<1> QED
  BY <1>1, <1>2

\* The order the loop comes to is the only one in its instrument today.
LEMMA OrderMaps ==
    ASSUME BrokerInv, SumsUp, SumsUp', NEW side \in Sides, pc = side, queue # {},
           NEW i \in Instruments, i = First(queue), queue' = queue \ {i},
           UNCHANGED <<day, pc, due, residual, receivable, entitled, mark, frozen>>
    PROVE  Broker!Order(i)
<1>1. TypeInv /\ TypeOK
  BY DEF BrokerInv, RecInv, TypeInv
<1>2. i \in queue
  BY <1>1, IndexSets, FirstMember DEF TypeOK
<1>3. EndOf(side, i) > 0 /\ (side = "buy" => EndOf("sell", i) = 0)
  <2>1. EndOf(side, i) > 0
    BY <1>2 DEF BrokerInv, OrderInv, QueueOrdered, Sides
  <2>2. pc \in Ordering \ {"demand"}
    BY DEF Ordering, Sides
  <2> QED
    BY <2>1, <2>2 DEF BrokerInv, OrderInv, OneSided
<1>4. i \in OpenToday /\ OpenToday' = OpenToday \ {i}
  <2>1. EndOf(side, i) # 0
    BY <1>3
  <2>2. \A j \in Instruments : /\ EndOf("sell", j)' = EndOf("sell", j)
                               /\ EndOf("buy", j)' = EndOf("buy", j)
    BY DEF EndOf
  <2> QED
    BY <1>2, <1>3, <2>1, <2>2 DEF OpenToday, Sides
<1>5. DayPhase = "day" /\ DayPhase' = "day"
  BY DEF DayPhase, Sides
<1>6. EntriesDue = {} /\ EntriesDue' = EntriesDue
  BY DEF BrokerInv, OrderInv, NoneDue, EntriesDue, Sides
<1>7. i \notin frozen
  BY <1>2 DEF BrokerInv, FrozenInv, FrozenIdle, Sides
<1>8. ReferenceTable[i][day] > 0
  BY <1>1, <1>3, ReferenceIs, OrderedPriced DEF BrokerInv, OrderInv, Sides
<1> QED
  BY <1>4, <1>5, <1>6, <1>7, <1>8 DEF Broker!Order, SumsUp, ReferenceTable

\* A market sale is one order of the account, at the costs of the whole.
LEMMA SellMaps ==
    ASSUME BrokerInv, SumsUp, SumsUp', NEW i \in Instruments, NEW slip \in Slippage,
           NEW fill \in 0 .. EndOf("sell", i), ExecuteSell(i, fill, slip)
    PROVE  Broker!Next
<1> DEFINE sold == Allocation(fill, residual["sell"][i], SellLot(i))
           actual == Total(sold)
           price == RefPrice(i) - slip
           commission == Commission(actual * price)
           tax == (actual * price) \div SellTaxPer
           refused == \E s \in Strategies : sold[s] > Sellable(s, i)
<1>0. TypeInv /\ TypeOK
  BY DEF BrokerInv, RecInv, TypeInv
<1>1. CASE refused \/ actual > Sellable(Master, i)
  <2>1. \E r \in Outcomes : Abort(r)
    BY <1>1 DEF ExecuteSell, Outcomes, BookingFailures
  <2> QED
    BY <2>1, AbortMaps
<1>2. CASE ~refused /\ ~(actual > Sellable(Master, i))
  <2>1. /\ shares' = [a \in Accounts |->
                         [shares[a] EXCEPT ![i] = @ - Split(sold)[a]]]
        /\ cash'[Master] = cash[Master] + (actual * price - commission - tax)
        /\ queue' = queue \ {i} /\ pc = "sell" /\ queue # {} /\ i = First(queue)
        /\ UNCHANGED <<day, pc, due, receivable, locked, entitled, mark, frozen, residual>>
    BY <1>2, IndexSets DEF ExecuteSell, book
  <2>2. sold \in [Strategies -> Nat]
    BY <1>0, AllocationType, SellLotType DEF Sides
  <2>3. price \in Int /\ SellTaxPer \in Nat \ {0}
    BY <1>0, ConfigAssumption, PriceTypes
  <2>4. Broker!Order(i)
    <3>1. "sell" \in Sides
      BY DEF Sides
    <3> QED
      BY <2>1, <3>1, OrderMaps
  <2>5. actual \in Nat /\ commission \in Int /\ tax \in Int
    <3> HIDE DEF sold, price
    <3> QED
      BY <2>2, <2>3, SplitTypes
  <2>6. shares'[Master] = [shares[Master] EXCEPT ![i] = @ - actual]
    <3> HIDE DEF sold
    <3> QED
      BY <2>1, IndexSets DEF Split
  <2>7. actual \in 0 .. shares[Master][i] - locked[Master][i]
    <3> HIDE DEF actual
    <3>1. Sellable(Master, i) \in Nat
      BY <1>0, SellableType, IndexSets DEF TypeInv
    <3> QED
      BY <1>2, <2>5, <3>1 DEF Sellable
  <2>8. shares[Master][i] \in Nat /\ locked[Master][i] \in Nat /\ cash[Master] \in Int
    BY <1>0, IndexSets DEF TypeOK
  <2>9. actual * price \in Int
    <3> HIDE DEF actual, price
    <3> QED
      BY <2>3, <2>5
  <2>10. cash'[Master] = cash[Master] + actual * price - Broker!Commission(actual * price) - tax
    <3>1. PICK notional \in Int : notional = actual * price
      BY <2>9
    <3>2. Broker!Commission(notional) = Commission(notional)
      BY DEF Broker!Commission, Commission, Broker!MaxOf, MaxOf
    <3>3. Broker!Commission(notional) = commission
      BY <3>1, <3>2
    <3> HIDE DEF commission, tax, actual, price
    <3> QED
      BY <2>1, <2>5, <2>8, <3>1, <3>3
  <2>11. Broker!Sell(i, actual, price)
    <3> HIDE DEF actual, price
    <3> QED
      BY <2>1, <2>4, <2>6, <2>7, <2>10 DEF SumsUp, Broker!Sell, tax
  <2>12. actual \in 0 .. HeldTogether[i] /\ price = ReferenceTable[i][day] - slip
    <3>1. price = ReferenceTable[i][day] - slip
      BY <1>0, ReferenceIs
    <3> HIDE DEF actual
    <3> QED
      BY <2>5, <2>7, <2>8, <3>1 DEF SumsUp
  <2>13. \E n \in 0 .. HeldTogether[i] : Broker!Sell(i, n, ReferenceTable[i][day] - slip)
    <3> HIDE DEF actual, price
    <3> QED
      BY <2>11, <2>12
  <2> QED
    BY <2>13 DEF Broker!Next, ReferenceTable
<1> QED
  BY <1>1, <1>2

\* A market buy as well; what the strategies pay together is the whole cost.
LEMMA BuyMaps ==
    ASSUME BrokerInv, SumsUp, SumsUp', NEW i \in Instruments, NEW slip \in Slippage,
           NEW fill \in 0 .. EndOf("buy", i), ExecuteBuy(i, fill, slip)
    PROVE  Broker!Next
<1> DEFINE bought == Bought(i, fill, slip)
           price == RefPrice(i) + slip
           actual == Total(bought)
           total == BuyTotal(bought, price)
           refused == \E s \in Strategies : bought[s] > 0 /\ BuyCosts(bought, price)[s] > cash[s]
<1>0. TypeInv /\ TypeOK
  BY DEF BrokerInv, RecInv, TypeInv
<1>1. CASE refused
  <2>1. Abort("sleeve_overdrawn")
    BY <1>1 DEF ExecuteBuy, Bought, BuyCosts
  <2> QED
    BY <2>1, AbortMaps
<1>2. CASE ~refused /\ actual > 0 /\ total > cash[Master]
  <2>1. Abort("master_overdrawn")
    BY <1>2 DEF ExecuteBuy, Bought, BuyCosts, BuyTotal
  <2> QED
    BY <2>1, AbortMaps
<1>3. CASE ~refused /\ ~(actual > 0 /\ total > cash[Master])
  <2>1. /\ shares' = [a \in Accounts |->
                         [shares[a] EXCEPT ![i] = @ + Split(bought)[a]]]
        /\ locked' = [a \in Accounts |->
                         [locked[a] EXCEPT ![i] = @ + Locking(i) * Split(bought)[a]]]
        /\ cash'[Master] = cash[Master] - total
        /\ queue' = queue \ {i} /\ pc = "buy" /\ queue # {} /\ i = First(queue)
        /\ UNCHANGED <<day, pc, due, receivable, entitled, mark, frozen, residual>>
    <3>1. /\ shares' = [a \in Accounts |->
                           [shares[a] EXCEPT ![i] = @ + Split(bought)[a]]]
          /\ locked' = [a \in Accounts |->
                           [locked[a] EXCEPT ![i] = @ + Locking(i) * Split(bought)[a]]]
          /\ cash' = [a \in Accounts |-> cash[a] -
                         IF a = Master THEN total
                         ELSE bought[a] * price
                                + CostShare(Commission(Total(bought) * price), bought)[a]
                                + CostShare((Total(bought) * price) \div BuyTaxPer,
                                            bought)[a]]
          /\ queue' = queue \ {i} /\ pc = "buy" /\ queue # {} /\ i = First(queue)
          /\ UNCHANGED <<day, pc, due, receivable, book, residual>>
      BY <1>3 DEF ExecuteBuy, Bought, BuyCosts, BuyTotal
    <3>2. cash'[Master] = cash[Master] - total
      <4> HIDE DEF bought, price, total
      <4> QED
        BY <3>1, IndexSets
    <3> HIDE DEF bought, price, total
    <3> QED
      BY <3>1, <3>2 DEF book
  <2>2. bought \in [Strategies -> Nat] /\ price \in Int
    BY <1>0, BuyOutcome
  <2>3. Broker!Order(i)
    <3>1. "buy" \in Sides
      BY DEF Sides
    <3> QED
      BY <2>1, <3>1, OrderMaps
  <2>4. actual \in Nat /\ Split(bought)[Master] = actual
    <3> HIDE DEF bought
    <3> QED
      BY <2>2, TotalNat, IndexSets DEF Split
  <2>5. /\ shares'[Master] = [shares[Master] EXCEPT ![i] = @ + actual]
        /\ locked'[Master] = [locked[Master] EXCEPT ![i] = @ + Locking(i) * actual]
    <3> HIDE DEF bought, actual
    <3> QED
      BY <2>1, <2>4, IndexSets
  <2>6. Locking(i) * actual = actual * (IF day < NumDays THEN SellDelay[i] ELSE 0)
    <3>1. Locking(i) \in {0, 1}
      BY SizesAssumption DEF Locking
    <3> HIDE DEF actual
    <3>2. Locking(i) * actual = actual * Locking(i)
      BY <2>4, <3>1
    <3> QED
      BY <3>2 DEF Locking
  <2>7. day < DelistDay[i]
    <3>1. EndOf("buy", i) > 0
      <4>1. i \in queue
        BY <1>0, <2>1, IndexSets, FirstMember DEF TypeOK
      <4> QED
        BY <2>1, <4>1 DEF BrokerInv, OrderInv, QueueOrdered
    <3>2. PICK f \in [Strategies -> Int] : f = residual["buy"][i]
      BY <1>0 DEF TypeOK, Sides
    <3>3. CASE DelistEffective(i)
      <4>1. \A s \in Strategies : f[s] = 0
        BY <2>1, <3>2, <3>3 DEF BrokerInv, OrderInv, ListedDemands, Ordering
      <4>2. Total(f) = 0
        BY <4>1, TotalZero
      <4> QED
        BY <3>1, <3>2, <4>2 DEF EndOf
    <3>4. day \in Int /\ DelistDay[i] \in Int
      BY <1>0, SizesAssumption DEF TypeOK, Days
    <3> QED
      BY <3>3, <3>4 DEF DelistEffective
  <2>8. total \in Int /\ cash[Master] \in Int
    <3> HIDE DEF bought, price
    <3>1. Total(BuyCosts(bought, price)) \in Int
      BY <2>2, BuyCostsAddUp, TotalType, IndexSets
    <3> QED
      BY <1>0, <2>2, <3>1, BuyCostsAddUp, IndexSets DEF TypeOK
  <2>9. actual > 0 => total <= cash[Master]
    <3> HIDE DEF actual, total
    <3> QED
      BY <1>3, <2>8
  <2>10. total = actual * price + Broker!Commission(actual * price)
                   + (actual * price) \div BuyTaxPer
    <3>1. \A notional \in Int : Broker!Commission(notional) = Commission(notional)
      BY DEF Broker!Commission, Commission, Broker!MaxOf, MaxOf
    <3> HIDE DEF bought, price
    <3>2. actual * price \in Int
      BY <2>2, <2>4
    <3> QED
      BY <3>1, <3>2 DEF BuyTotal
  <2>11. Broker!Buy(i, actual, price)
    <3> HIDE DEF actual, price, total
    <3> QED
      BY <2>1, <2>3, <2>4, <2>5, <2>6, <2>7, <2>9, <2>10 DEF SumsUp, Broker!Buy
  <2>12. HeldTogether'[i] - HeldTogether[i] = actual
    <3>1. shares[Master] \in [Instruments -> Nat]
      BY <1>0, IndexSets DEF TypeOK
    <3> HIDE DEF actual
    <3>2. shares'[Master][i] = shares[Master][i] + actual
      BY <2>5, <3>1
    <3> QED
      BY <2>4, <3>1, <3>2 DEF SumsUp
  <2>13. price = ReferenceTable[i][day] + slip
    BY <1>0, ReferenceIs
  <2>14. Broker!Buy(i, HeldTogether'[i] - HeldTogether[i], ReferenceTable[i][day] + slip)
    <3> HIDE DEF actual, price
    <3> QED
      BY <2>11, <2>12, <2>13
  <2> QED
    BY <2>14 DEF Broker!Next, ReferenceTable
<1> QED
  BY <1>1, <1>2, <1>3

-----------------------------------------------------------------------------
\* The close and the night.
LEMMA CloseMarketMaps ==
    ASSUME BrokerInv, SumsUp, SumsUp', NoBatch \/ BuysDone
    PROVE  Broker!Next
<1>1. /\ pc \in {"trade", "buy"} /\ pc' = "close" /\ due' = due /\ AccountKept
  BY DEF NoBatch, BuysDone, ledger, book, AccountKept
<1>2. DayPhase = "day" /\ DayPhase' = "day" /\ OpenToday' = {}
  BY <1>1 DEF DayPhase, OpenToday
<1>3. EntriesDue = {} /\ EntriesDue' = EntriesDue
  BY <1>1 DEF BrokerInv, OrderInv, NoneDue, EntriesDue
<1>4. UNCHANGED <<day, Broker!account>>
  BY <1>1, AccountStays
<1>5. Broker!CloseMarket
  BY <1>2, <1>3, <1>4 DEF Broker!CloseMarket
<1> QED
  BY <1>5 DEF Broker!Next

\* Some strategy holds what the master holds.
LEMMA HeldByMaster ==
    ASSUME RecInv, NEW i \in Instruments
    PROVE  i \in HeldBySomeone <=> shares[Master][i] > 0
<1> DEFINE f == [s \in Strategies |-> shares[s][i]]
<1>1. f \in [Strategies -> Nat] /\ f \in [Strategies -> Int] /\ IsFiniteSet(Strategies)
  BY ColumnTypes, IndexSets DEF RecInv, TypeInv
<1>2. shares[Master][i] = Total(f)
  BY DEF RecInv, PositionsReconcile
<1>3. i \in HeldBySomeone <=> \E s \in Strategies : f[s] > 0
  BY DEF HeldBySomeone, Held
<1> HIDE DEF f
<1>4. Total(f) \in Nat /\ \A s \in Strategies : f[s] \in Nat /\ f[s] <= Total(f)
  BY <1>1, TotalNat
<1>5. CASE \E s \in Strategies : f[s] > 0
  BY <1>2, <1>3, <1>4, <1>5
<1>6. CASE \A s \in Strategies : f[s] = 0
  BY <1>1, <1>2, <1>3, <1>6, TotalZero
<1> QED
  BY <1>4, <1>5, <1>6

LEMMA CloseMaps ==
    ASSUME BrokerInv, SumsUp, SumsUp', MarkToMarket
    PROVE  Broker!Next
<1> DEFINE unmarked == \E i \in HeldBySomeone :
                           ~Observed(i) /\ (DelistEffective(i) => mark[i] = 0)
<1>1. CASE unmarked
  <2>1. Abort("no_valuation")
    BY <1>1 DEF MarkToMarket
  <2> QED
    BY <2>1, AbortMaps
<1>2. CASE ~unmarked
  <2>1. /\ mark' = [i \in Instruments |->
                  IF i \in HeldBySomeone /\ Observed(i)
                  THEN ClosePrice[i][day] ELSE mark[i]]
        /\ entitled' = [a \in Accounts |-> [e \in Events |-> Entitlement(a, e)]]
        /\ pc = "close" /\ pc' = "delist"
        /\ UNCHANGED <<day, due, cash, receivable, shares, locked, frozen>>
    BY <1>2 DEF MarkToMarket, ledger
  <2>2. DayPhase = "day" /\ DayPhase' = "night" /\ OpenToday = {} /\ OpenToday' = {}
    BY <2>1 DEF DayPhase, OpenToday
  <2>3. EntriesDue = {} /\ EntriesDue' = EntriesDue
    BY <2>1 DEF BrokerInv, OrderInv, NoneDue, EntriesDue
  <2>4. entitled'[Master] = [e \in Events |->
            IF Actions[e].record = day /\ shares[Master][Actions[e].code] > 0
            THEN shares[Master][Actions[e].code] ELSE entitled[Master][e]]
    BY <2>1, IndexSets DEF Entitlement
  <2>5. mark' = [i \in Instruments |->
            IF shares[Master][i] > 0 /\ i \notin frozen /\ ClosePrice[i][day] > 0
            THEN ClosePrice[i][day] ELSE mark[i]]
    <3>1. \A i \in Instruments : i \in HeldBySomeone <=> shares[Master][i] > 0
      BY HeldByMaster DEF BrokerInv
    <3> QED
      BY <2>1, <3>1 DEF Observed
  <2>6. Broker!Close
    BY <2>1, <2>2, <2>3, <2>4, <2>5 DEF SumsUp, Broker!Close, Broker!Events, Events
  <2> QED
    BY <2>6 DEF Broker!Next
<1> QED
  BY <1>1, <1>2

LEMMA DisposeMaps ==
    ASSUME BrokerInv, SumsUp, SumsUp', NEW i \in Instruments, Delist(i)
    PROVE  Broker!Next
<1>1. /\ pc = "delist" /\ pc' = pc /\ queue # {} /\ i = First(queue)
      /\ shares'[Master] = [shares[Master] EXCEPT ![i] = Kept(Master, i)]
      /\ locked'[Master] = [locked[Master] EXCEPT ![i] =
                                MinOf(locked[Master][i], Kept(Master, i))]
      /\ cash'[Master] = cash[Master] + Settlement(Master, i)
      /\ frozen' = frozen \union {i}
      /\ UNCHANGED <<day, due, receivable, entitled, mark>>
  BY IndexSets DEF Delist
<1>2. TypeOK /\ i \in queue
  BY <1>1, IndexSets, FirstMember DEF BrokerInv, RecInv, TypeInv, TypeOK
<1>3. DelistDay[i] = day /\ i \notin frozen
  BY <1>1, <1>2 DEF BrokerInv, OrderInv, DelistsToday, FrozenInv, FrozenIdle
<1>4. /\ DayPhase = "night" /\ DayPhase' = "night" /\ OpenToday' = OpenToday
      /\ EntriesDue' = EntriesDue
  BY <1>1 DEF DayPhase, OpenToday, EntriesDue
<1>5. /\ shares[Master] \in [Instruments -> Nat] /\ locked[Master] \in [Instruments -> Nat]
      /\ locked[Master][i] <= shares[Master][i] /\ cash[Master] \in Int
  BY <1>2, IndexSets DEF TypeOK, BrokerInv, RecInv, LocksCovered
<1>6. CASE DelistingPolicy = "carry_last_mark"
  <2>1. Kept(Master, i) = shares[Master][i] /\ Settlement(Master, i) = 0
    BY <1>6 DEF Kept, Settlement
  <2>2. shares'[Master] = shares[Master] /\ cash'[Master] = cash[Master]
    BY <1>1, <1>5, <2>1
  <2>3. locked'[Master] = locked[Master]
    BY <1>1, <1>5, <2>1 DEF MinOf
  <2>4. Broker!Dispose(i)
    BY <1>1, <1>3, <1>4, <1>6, <2>2, <2>3 DEF SumsUp, Broker!Dispose
  <2> QED
    BY <2>4 DEF Broker!Next
<1>7. CASE DelistingPolicy # "carry_last_mark"
  <2>1. Kept(Master, i) = 0 /\ MinOf(locked[Master][i], 0) = 0
    BY <1>5, <1>7 DEF Kept, MinOf
  <2>2. /\ shares'[Master] = [shares[Master] EXCEPT ![i] = 0]
        /\ locked'[Master] = [locked[Master] EXCEPT ![i] = 0]
    BY <1>1, <2>1
  <2>3. cash'[Master] = cash[Master] + IF DelistingPolicy = "cash_settle_last_close"
            THEN shares[Master][i] * ((mark[i] * RecoveryNum) \div RecoveryDen) ELSE 0
    BY <1>1 DEF Settlement
  <2>4. Broker!Dispose(i)
    BY <1>1, <1>3, <1>4, <1>7, <2>2, <2>3 DEF SumsUp, Broker!Dispose
  <2> QED
    BY <2>4 DEF Broker!Next
<1> QED
  BY <1>6, <1>7

LEMMA RecordMaps ==
    ASSUME BrokerInv, SumsUp, SumsUp', RecordDay
    PROVE  Broker!Next \/ UNCHANGED Broker!vars
<1> DEFINE negative == \E s \in Strategies : cash[s] < 0 \/ Worth(s, MarkOf) < 0
<1>1. CASE negative
  <2>1. Abort("negative_cash_or_nav")
    BY <1>1 DEF RecordDay
  <2> QED
    BY <2>1, AbortMaps
<1>2. CASE ~negative /\ day = NumDays
  <2>1. pc = "record" /\ pc' = "done" /\ due' = due /\ AccountKept
    BY <1>2 DEF RecordDay, ledger, book, AccountKept
  <2>2. DayPhase' = DayPhase /\ OpenToday' = OpenToday
    BY <2>1 DEF DayPhase, OpenToday
  <2> QED
    BY <2>1, <2>2, NotSeen
<1>3. CASE ~negative /\ day # NumDays
  <2>1. /\ pc = "record" /\ pc' = "actions" /\ day' = day + 1 /\ due' = DueOn(day + 1)
        /\ locked'[Master] = [i \in Instruments |-> 0]
        /\ UNCHANGED <<cash, receivable, shares, entitled, mark, frozen>>
    BY <1>3, IndexSets DEF RecordDay, book
  <2>2. day < NumDays
    BY <1>3, SizesAssumption DEF BrokerInv, RecInv, TypeInv, TypeOK, Days
  <2>3. {i \in Instruments : DelistDay[i] = day} \subseteq frozen
    BY <2>1 DEF BrokerInv, ValuedInv, FrozenOnceDue
  <2>4. EntriesDue' = Broker!Entries(day + 1)
    BY <2>1, EntriesOfDay DEF EntriesDue
  <2>5. DayPhase = "night" /\ DayPhase' = "day" /\ OpenToday' = Instruments
    BY <2>1 DEF DayPhase, OpenToday
  <2>6. Broker!NextDay
    BY <2>1, <2>2, <2>3, <2>4, <2>5 DEF SumsUp, Broker!NextDay
  <2> QED
    BY <2>6 DEF Broker!Next
<1> QED
  BY <1>1, <1>2, <1>3

-----------------------------------------------------------------------------
\* What goes on between the sleeves is not seen by the broker.
LEMMA PlansMap ==
    ASSUME SumsUp, SumsUp', ActionsDone \/ Decide \/ PlanSells \/ PlanBuys
    PROVE  Broker!Next \/ UNCHANGED Broker!vars
<1>1. CASE \E r \in Outcomes : Abort(r)
  BY <1>1, AbortMaps
<1>2. CASE ~ \E r \in Outcomes : Abort(r)
  <2>1. /\ due' = due /\ AccountKept
        /\ \/ pc = "actions" /\ pc' \in {"trade"}
           \/ pc = "actions" /\ pc' = "decide" /\ Timing = "same_close"
           \/ pc = "decide" /\ pc' = "trade" /\ Timing = "same_close"
           \/ pc = "decide" /\ pc' = "record" /\ Timing # "same_close"
           \/ pc \in {"trade", "demand"} /\ pc' = "demand"
    BY <1>2 DEF ActionsDone, Decide, PlanSells, PlanBuys, ledger, book, AccountKept, Outcomes
  <2>2. DayPhase' = DayPhase
    BY <2>1 DEF DayPhase
  <2>3. OpenToday' = OpenToday
    BY <2>1 DEF OpenToday
  <2> QED
    BY <2>1, <2>2, <2>3, NotSeen
<1> QED
  BY <1>1, <1>2

\* Every instrument gets a sell order that is due, or none, so all can still be traded.
LEMMA NettingMaps ==
    ASSUME TypeInv', SumsUp, SumsUp', NetDemands
    PROVE  UNCHANGED Broker!vars
<1>1. /\ pc = "demand" /\ pc' = "sell" /\ due' = due /\ AccountKept
      /\ queue' = {i \in Instruments :
                      Total(Residual(residual["sell"][i], residual["buy"][i])) > 0}
      /\ residual' =
            [sell |-> [i \in Instruments |-> Residual(residual["sell"][i], residual["buy"][i])],
             buy |-> [i \in Instruments |-> Residual(residual["buy"][i], residual["sell"][i])]]
  BY DEF NetDemands, ledger, book, AccountKept
<1>2. ASSUME NEW i \in Instruments PROVE EndOf("sell", i)' = 0 \/ i \in queue'
  <2>1. residual'["sell"][i] = Residual(residual["sell"][i], residual["buy"][i])
    BY <1>1
  <2>2. residual'["sell"][i] \in [Strategies -> Nat]
    BY DEF TypeInv, TypeOK, Sides
  <2>3. Total(residual'["sell"][i]) \in Nat
    BY <2>2, TotalNat, IndexSets
  <2> QED
    BY <1>1, <2>1, <2>3 DEF EndOf
<1>3. DayPhase' = DayPhase
  BY <1>1 DEF DayPhase
<1>4. OpenToday = Instruments /\ OpenToday' = Instruments
  BY <1>1, <1>2 DEF OpenToday
<1> QED
  BY <1>1, <1>3, <1>4, NotSeen

LEMMA CrossesMap ==
    ASSUME TypeInv, SumsUp, SumsUp',
           SellsDone \/ DropCrosses \/ AcceptCrosses \/ CrossesDone
    PROVE  Broker!Next \/ UNCHANGED Broker!vars
<1>1. CASE \E r \in Outcomes : Abort(r)
  BY <1>1, AbortMaps
<1>2. CASE ~ \E r \in Outcomes : Abort(r)
  <2>1. /\ due' = due /\ AccountKept /\ residual' = residual
        /\ \/ pc = "sell" /\ queue = {} /\ pc' = "cross"
           \/ pc = "cross" /\ pc' \in {"cross", "settle"}
           \/ /\ pc = "settle" /\ pc' = "buy"
              /\ queue' = {i \in Instruments : EndOf("buy", i) > 0}
    BY <1>2 DEF SellsDone, DropCrosses, AcceptCrosses, CrossesDone, ledger, book, batch,
       AccountKept, Outcomes, BookingFailures
  <2>2. ASSUME NEW i \in Instruments PROVE EndOf("buy", i) \in Nat
    <3>1. residual["buy"][i] \in [Strategies -> Nat]
      BY DEF TypeInv, TypeOK, Sides
    <3> QED
      BY <3>1, TotalNat, IndexSets DEF EndOf
  <2>3. \A i \in Instruments : /\ EndOf("sell", i)' = EndOf("sell", i)
                               /\ EndOf("buy", i)' = EndOf("buy", i)
    BY <2>1 DEF EndOf
  <2>4. OpenToday' = OpenToday
    BY <2>1, <2>2, <2>3 DEF OpenToday
  <2>5. DayPhase' = DayPhase
    BY <2>1 DEF DayPhase
  <2> QED
    BY <2>1, <2>4, <2>5, NotSeen
<1> QED
  BY <1>1, <1>2

\* A cross is between two sleeves: the master's books stay as they are.
LEMMA SettleMaps ==
    ASSUME TypeInv, SumsUp, SumsUp', NEW i \in Instruments, NEW seller \in Strategies,
           NEW buyer \in Strategies, SettleCross(i, seller, buyer)
    PROVE  UNCHANGED Broker!vars
<1> DEFINE n == crosses[i][seller][buyer]
<1>1. Master # seller /\ Master # buyer /\ Master \in Accounts
  BY IndexSets
<1>2. \A quantity : CrossMove(seller, buyer, quantity, Master) = 0
  BY <1>1 DEF CrossMove
<1>3. /\ shares[Master] \in [Instruments -> Nat] /\ cash[Master] \in Int
  BY <1>1 DEF TypeInv, TypeOK
<1>4. shares'[Master] = [shares[Master] EXCEPT ![i] = shares[Master][i] + 0]
  BY <1>1, <1>2 DEF SettleCross
<1>5. cash'[Master] = cash[Master] - 0
  BY <1>1, <1>2 DEF SettleCross
<1>6. locked'[Master] = locked[Master]
  BY <1>1 DEF SettleCross
<1>7. /\ pc' = pc /\ due' = due /\ residual' = residual /\ pc = "settle"
      /\ UNCHANGED <<day, receivable, entitled, mark, frozen>>
  BY DEF SettleCross, book
<1>8. AccountKept
  BY <1>3, <1>4, <1>5, <1>6, <1>7 DEF AccountKept
<1>9. DayPhase' = DayPhase /\ OpenToday' = OpenToday
  BY <1>7 DEF DayPhase, OpenToday, EndOf
<1> QED
  BY <1>7, <1>8, <1>9, NotSeen

-----------------------------------------------------------------------------
\* Every step of the ledger is one of the account's, or not seen by it.
LEMMA StepMaps ==
    ASSUME BrokerInv, BrokerInv', SumsUp, SumsUp', Next
    PROVE  Broker!Next \/ UNCHANGED Broker!vars
<1>0. RecInv /\ RecInv' /\ TypeInv /\ TypeInv'
  BY DEF BrokerInv, RecInv
<1>1. CASE \E e \in Events : AccrueDividend(e) \/ PayDividend(e) \/ AdjustShares(e)
  BY <1>0, <1>1, AccrueMaps, PayMaps, AdjustMaps
<1>2. CASE ActionsDone \/ Decide \/ PlanSells \/ PlanBuys
  BY <1>2, PlansMap
<1>3. CASE NetDemands
  BY <1>0, <1>3, NettingMaps
<1>4. CASE \E i \in Instruments : \E slip \in Slippage :
               \E fill \in 0 .. EndOf("sell", i) : ExecuteSell(i, fill, slip)
  BY <1>4, SellMaps
<1>5. CASE \E i \in Instruments : \E slip \in Slippage :
               \E fill \in 0 .. EndOf("buy", i) : ExecuteBuy(i, fill, slip)
  BY <1>5, BuyMaps
<1>6. CASE SellsDone \/ DropCrosses \/ AcceptCrosses \/ CrossesDone
  BY <1>0, <1>6, CrossesMap
<1>7. CASE \E i \in Instruments : \E seller \in Strategies : \E buyer \in Strategies :
               SettleCross(i, seller, buyer)
  BY <1>0, <1>7, SettleMaps
<1>8. CASE NoBatch \/ BuysDone
  BY <1>8, CloseMarketMaps
<1>9. CASE MarkToMarket
  BY <1>9, CloseMaps
<1>10. CASE \E i \in Instruments : Delist(i)
  BY <1>10, DisposeMaps
<1>11. CASE DelistingsDone
  <2>1. /\ pc = "delist" /\ due' = due /\ AccountKept
        /\ pc' = "record" \/ (pc' = "decide" /\ Timing # "same_close")
    BY <1>11 DEF DelistingsDone, ledger, book, AccountKept
  <2>2. DayPhase' = DayPhase /\ OpenToday' = OpenToday
    BY <2>1 DEF DayPhase, OpenToday
  <2> QED
    BY <2>1, <2>2, NotSeen
<1>12. CASE RecordDay
  BY <1>12, RecordMaps
<1>13. CASE UNCHANGED vars
  <2>1. due' = due /\ AccountKept /\ UNCHANGED <<pc, residual, queue>>
    BY <1>13 DEF vars, ledger, book, batch, AccountKept
  <2>2. DayPhase' = DayPhase /\ OpenToday' = OpenToday
    BY <2>1 DEF DayPhase, OpenToday, EndOf
  <2> QED
    BY <2>1, <2>2, NotSeen
<1> QED
  BY <1>1, <1>2, <1>3, <1>4, <1>5, <1>6, <1>7, <1>8, <1>9, <1>10, <1>11, <1>12, <1>13
     DEF Next, Finished

\* The ledger of several strategies is that of one cash account at a broker: whatever is
\* planned, netted, crossed and shared between the sleeves (zyquant.backtest.engine and
\* zyquant.portfolio.sleeve), all the sleeves have together changes by one order a day in
\* an instrument at the costs of the whole, by the dividends, adjustments and disposals of
\* what they hold together, and by nothing else.
THEOREM LedgerIsOneAccount == Spec => OneAccount
<1>1. Init /\ SumsUp => Broker!Init
  <2> SUFFICES ASSUME Init, SumsUp PROVE Broker!Init
    OBVIOUS
  <2>1. /\ day = 1 /\ pc = "actions" /\ due = DueOn(1)
        /\ cash[Master] = Total(InitialCash)
        /\ receivable[Master] = [e \in Events |-> 0] /\ entitled[Master] = receivable[Master]
        /\ shares[Master] = [i \in Instruments |-> 0] /\ locked[Master] = shares[Master]
        /\ mark = [i \in Instruments |-> 0] /\ frozen = {}
    BY IndexSets DEF Init
  <2>2. DayPhase = "day" /\ OpenToday = Instruments
    BY <2>1 DEF DayPhase, OpenToday
  <2>3. EntriesDue = Broker!Entries(1)
    BY <2>1, EntriesOfDay DEF EntriesDue
  <2> QED
    BY <2>1, <2>2, <2>3 DEF SumsUp, Broker!Init, Broker!Events, Events
<1>2. BrokerInv => SumsUp
  BY AccountIsMaster DEF BrokerInv
<1>3. BrokerInv /\ BrokerInv' /\ SumsUp /\ SumsUp' /\ [Next]_vars
        => [Broker!Next]_(Broker!vars)
  <2> SUFFICES ASSUME BrokerInv, BrokerInv', SumsUp, SumsUp', [Next]_vars
               PROVE  Broker!Next \/ UNCHANGED Broker!vars
    OBVIOUS
  <2>1. CASE Next
    BY <2>1, StepMaps
  <2>2. CASE UNCHANGED vars
    <3>1. due' = due /\ AccountKept /\ UNCHANGED <<pc, residual, queue>>
      BY <2>2 DEF vars, ledger, book, batch, AccountKept
    <3>2. DayPhase' = DayPhase /\ OpenToday' = OpenToday
      BY <3>1 DEF DayPhase, OpenToday, EndOf
    <3> QED
      BY <3>1, <3>2, NotSeen
  <2> QED
    BY <2>1, <2>2
<1> QED
  BY <1>1, <1>2, <1>3, BrokerInvariant, PTL DEF Spec, OneAccount, Broker!Spec
=============================================================================
