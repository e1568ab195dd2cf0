---------------------------- MODULE SleeveLedger ----------------------------
(***************************************************************************)
(* The daily ledger of zyquant.backtest.engine: several strategies, each   *)
(* with a virtual account of its own (a sleeve), trade through one real    *)
(* account (the master).  Every day runs corporate actions, the batch of   *)
(* target portfolios, the close, the delistings and the new decisions, in  *)
(* the order of BacktestEngine.run.                                        *)
(*                                                                         *)
(* Strategies and instruments are numbered in the sort order of their      *)
(* identifiers.  Money is an integer count of a unit in which every fee is *)
(* whole, so the floats of the code and their tolerances do not appear.    *)
(* The market is free: an order is filled by any whole number of lots, at  *)
(* any slippage of the given set.                                          *)
(***************************************************************************)
EXTENDS Netting

CONSTANTS
    NumStrategies, NumInstruments,
    NumDays,        \* trading days of the run; every date is one of 1..NumDays
    Timing,         \* execution.timing: next_open, next_close or same_close
    InitialCash,    \* cash of each strategy at the start
    Bootstrap,      \* strategies that decide once before the first day
    Schedule,       \* decision days of each strategy
    Targets,        \* target portfolios a strategy may decide on
    WeightUnit,     \* denominator of the target weights
    OpenPrice, ClosePrice, \* by instrument and day; 0 is a day without a bar
    LotSize,
    SellDelay,      \* 0 for T+0, 1 for T+1
    Slippage,       \* what a fill may be worse by, per share
    MinCommission, CommissionPer, SellTaxPer, BuyTaxPer,
    Actions,        \* the corporate-action table, in table order
    DelistDay,      \* first day not before the delist date; NumDays + 1 if none
    DelistingPolicy, RecoveryNum, RecoveryDen

Strategies == 1 .. NumStrategies
Instruments == 1 .. NumInstruments
Days == 1 .. NumDays
Master == 0
Accounts == {Master} \union Strategies
Events == DOMAIN Actions
NoTarget == [kind |-> "none"]
Sides == {"sell", "buy"}

\* Sizes are positive: lots, fee periods, days and the price of every bar.
ASSUME SizesAssumption ==
    /\ NumStrategies \in Nat /\ NumInstruments \in Nat
    /\ NumDays \in Nat \ {0} /\ WeightUnit \in Nat \ {0}
    /\ LotSize \in [Instruments -> Nat \ {0}]
    /\ SellDelay \in [Instruments -> {0, 1}]
    /\ OpenPrice \in [Instruments -> [Days -> Nat]]
    /\ ClosePrice \in [Instruments -> [Days -> Nat]]
    /\ DelistDay \in [Instruments -> 1 .. NumDays + 1]

\* The configuration the pydantic models accept.
ASSUME ConfigAssumption ==
    /\ Timing \in {"next_open", "next_close", "same_close"}
    /\ DelistingPolicy \in
            {"carry_last_mark", "write_off_zero", "cash_settle_last_close"}
    /\ InitialCash \in [Strategies -> Nat]
    /\ Schedule \in [Strategies -> SUBSET Days]
    /\ Bootstrap \subseteq Strategies
    /\ Bootstrap # {} => Timing = "next_open"
    /\ NoTarget \notin Targets
    /\ Slippage \subseteq Int
    /\ MinCommission \in Nat
    /\ CommissionPer \in Nat \ {0} /\ SellTaxPer \in Nat \ {0}
    /\ BuyTaxPer \in Nat \ {0}
    /\ RecoveryNum \in Nat /\ RecoveryDen \in Nat \ {0}

\* A target is a set of weights, or a list of instruments to sell off.
ASSUME TargetsAssumption ==
    \A t \in Targets : \/ t.kind = "weights" /\ t.weight \in [Instruments -> Nat]
                       \/ t.kind = "liquidate" /\ t.codes \subseteq Instruments

\* A cash dividend pays perShare; a split, merge or bonus turns den into num.
ASSUME ActionsAssumption ==
    /\ IsFiniteSet(Events) /\ Events \subseteq Nat \ {0}
    /\ \A e \in Events :
        /\ Actions[e].kind \in {"dividend", "adjust"}
        /\ Actions[e].code \in Instruments
        /\ Actions[e].perShare \in Nat
        /\ Actions[e].num \in Nat /\ Actions[e].den \in Nat \ {0}
        /\ Actions[e].record \in Nat /\ Actions[e].ex \in Nat
        /\ Actions[e].pay \in Nat

VARIABLES
    day,        \* the trading day
    pc,         \* the part of the day's work that comes next
    outcome,    \* why the run was aborted, "none" while it was not
    due,        \* ex (2e - 1) and pay (2e) entries of the day still to process
    pending,    \* the target of each strategy awaiting execution
    cash, receivable,
    shares,     \* quantity held, by account and instrument
    locked,     \* of these, bought today and not sellable before tomorrow
    entitled,   \* entitlements: quantity held on the record day
    mark,       \* valuation_marks: last close seen while held, 0 for none
    frozen,     \* _delisted_codes
    money,      \* remaining_cash while the batch is planned
    residual,   \* demands, then what netting leaves of them, by side
    queue,      \* instruments the current loop has still to visit
    crosses     \* internal crosses still to be applied: by instrument,
                \* seller and buyer, 0 for none

ledger == <<cash, receivable, shares, locked>>
book == <<entitled, mark, frozen>>
batch == <<money, residual, queue, crosses>>
vars == <<day, pc, outcome, due, pending, ledger, book, batch>>

NoDemand == [side \in Sides |-> [i \in Instruments |-> [s \in Strategies |-> 0]]]
NoCross == [i \in Instruments |->
                [s \in Strategies |-> [b \in Strategies |-> 0]]]
EndOf(side, i) == Total(residual[side][i])   \* size of the master order
First(S) == CHOOSE x \in S : \A y \in S : x <= y

\* BacktestError: the run ends without a result, whatever it had booked.
Abort(reason) ==
    /\ pc' = "aborted"
    /\ outcome' = reason
    /\ UNCHANGED <<day, due, pending, ledger, book, batch>>

\* _index_actions: the entries of day d.
DueOn(d) ==
    {2 * e - 1 : e \in {e \in Events : Actions[e].ex = d}}
    \union {2 * e : e \in {e \in Events : /\ Actions[e].kind = "dividend"
                                          /\ Actions[e].pay = d}}

Init ==
    /\ day = 1 /\ pc = "actions" /\ outcome = "none" /\ due = DueOn(1)
    /\ pending \in [Strategies -> Targets \union {NoTarget}]
    /\ \A s \in Strategies \ Bootstrap : pending[s] = NoTarget
    /\ cash = [a \in Accounts |->
                  IF a = Master THEN Total(InitialCash) ELSE InitialCash[a]]
    /\ receivable = [a \in Accounts |-> [e \in Events |-> 0]]
    /\ shares = [a \in Accounts |-> [i \in Instruments |-> 0]]
    /\ locked = shares
    /\ entitled = receivable
    /\ mark = [i \in Instruments |-> 0]
    /\ frozen = {}
    /\ money = [s \in Strategies |-> 0]
    /\ residual = NoDemand /\ queue = {} /\ crosses = NoCross
-----------------------------------------------------------------------------
(* Corporate actions, before the open.                                     *)

\* Items are taken in table order, an event's ex entry before its pay entry.
Item(n) == /\ pc = "actions" /\ due # {} /\ n = First(due)
           /\ due' = due \ {n}

AccrueDividend(e) ==
    /\ Item(2 * e - 1)
    /\ Actions[e].kind = "dividend"
    /\ receivable' = [a \in Accounts |->
          IF entitled[a][e] > 0
          THEN [receivable[a] EXCEPT ![e] = entitled[a][e] * Actions[e].perShare]
          ELSE receivable[a]]
    /\ UNCHANGED <<day, pc, outcome, pending, cash, shares, locked, book, batch>>

PayDividend(e) ==
    /\ Item(2 * e)
    /\ cash' = [a \in Accounts |-> cash[a] + receivable[a][e]]
    /\ receivable' = [a \in Accounts |-> [receivable[a] EXCEPT ![e] = 0]]
    /\ UNCHANGED <<day, pc, outcome, pending, shares, locked, book, batch>>

\* Shares added (or taken off) by event e: per sleeve on its own entitlement,
\* on the master what the sleeves get together.
SleeveDelta(e) ==
    [s \in Strategies |->
        RoundHalfEven(entitled[s][e] * (Actions[e].num - Actions[e].den),
                      Actions[e].den)]

Delta(a, e) == IF entitled[a][e] = 0 THEN 0
               ELSE IF a = Master THEN Total(SleeveDelta(e))
               ELSE SleeveDelta(e)[a]

\* adjust_shares refuses an account without lots, or with too few shares.
Adjustable(a, e) ==
    LET held == shares[a][Actions[e].code]
    IN  Delta(a, e) = 0 \/ (held > 0 /\ held + Delta(a, e) >= 0)

AdjustShares(e) ==
    /\ Actions[e].kind = "adjust"
    /\ pc = "actions" /\ due # {} /\ First(due) = 2 * e - 1
    /\ IF \A a \in Accounts : Adjustable(a, e)
       THEN /\ due' = due \ {2 * e - 1}
            /\ shares' = [a \in Accounts |->
                  [shares[a] EXCEPT ![Actions[e].code] = @ + Delta(a, e)]]
            /\ UNCHANGED <<day, pc, outcome, pending, cash, receivable, locked,
                           book, batch>>
       ELSE Abort("action_exceeds_position")

ActionsDone ==
    /\ pc = "actions" /\ due = {}
    /\ pc' = IF Timing = "same_close" /\ day > 1 THEN "decide" ELSE "trade"
    /\ UNCHANGED <<day, outcome, due, pending, ledger, book, batch>>
-----------------------------------------------------------------------------
(* Decisions: after the close for the next day, or, with same_close, just  *)
(* before the close on the information of the previous day.                *)

Held(s) == {i \in Instruments : shares[s][i] > 0}
Deciding == {s \in Strategies : day \in Schedule[s]}

\* _portfolio_view refuses a holding the price map of the cutoff lacks: that
\* map is yesterday's raw bars with same_close, else today's marks.
Unpriced == /\ Timing = "same_close"
            /\ \E s \in Deciding : \E i \in Held(s) : ClosePrice[i][day - 1] = 0

Decide ==
    /\ pc = "decide"
    /\ IF Unpriced THEN Abort("unpriced_holding")
       ELSE /\ pending' \in [Strategies -> Targets \union {NoTarget}]
            /\ \A s \in Strategies \ Deciding : pending'[s] = NoTarget
            /\ pc' = IF Timing = "same_close" THEN "trade" ELSE "record"
            /\ UNCHANGED <<day, outcome, due, ledger, book, batch>>
-----------------------------------------------------------------------------
(* The batch of targets: planned sells, then buys within the cash they     *)
(* leave, netting, market sells, internal crosses, market buys.            *)

RefPrice(i) == IF Timing = "next_open" THEN OpenPrice[i][day]
               ELSE ClosePrice[i][day]
DelistEffective(i) == day >= DelistDay[i]

\* Mutant: no mark stands in for a missing bar before the instrument is frozen.
ValuationPriceFromBars(i) ==
    IF i \in frozen /\ mark[i] > 0 THEN mark[i] ELSE RefPrice(i)

\* A frozen holding is valued at its mark, and so is one without a bar from
\* its delisting day on; 0 stands for no valuation.
ValuationPrice(i) ==
    IF i \in frozen /\ mark[i] > 0 THEN mark[i]
    ELSE IF RefPrice(i) > 0 THEN RefPrice(i)
    ELSE IF DelistEffective(i) THEN mark[i] ELSE 0

Worth(a, price(_)) ==
    cash[a] + Total(receivable[a])
            + Total([i \in Instruments |-> shares[a][i] * price(i)])

Targeted == {s \in Strategies : pending[s] # NoTarget}
Liquidates(s) == pending[s].kind = "liquidate"
Considered(s) == IF s \notin Targeted THEN {}
                 ELSE IF Liquidates(s) THEN pending[s].codes ELSE Instruments

Tradable(i) == i \notin frozen /\ RefPrice(i) > 0
Sellable(a, i) == shares[a][i] - locked[a][i]

Desired(s, i) ==
    IF Liquidates(s) THEN 0
    ELSE FloorTo((Worth(s, ValuationPrice) * pending[s].weight[i])
                    \div (WeightUnit * RefPrice(i)), LotSize[i])

SellDemand(s, i) ==
    IF i \notin Considered(s) \/ ~Tradable(i) THEN 0
    ELSE LET excess == MaxOf(0, shares[s][i] - Desired(s, i))
             able == MinOf(excess, Sellable(s, i))
         IN  IF Liquidates(s) THEN able ELSE FloorTo(able, LotSize[i])

NoBatch ==
    /\ pc = "trade" /\ Targeted = {}
    /\ pc' = "close"
    /\ UNCHANGED <<day, outcome, due, pending, ledger, book, batch>>

PlanSells ==
    /\ pc = "trade" /\ Targeted # {}
    /\ IF \E s \in Targeted : \E i \in Held(s) : ValuationPrice(i) = 0
       THEN Abort("unvalued_holding")
       ELSE LET sold == [i \in Instruments |->
                            [s \in Strategies |-> SellDemand(s, i)]]
            IN  /\ residual' = [residual EXCEPT !["sell"] = sold]
                /\ money' = [s \in Strategies |-> cash[s] +
                      Total([i \in Instruments |-> sold[i][s] * RefPrice(i)])]
                /\ queue' = Instruments
                /\ pc' = "demand"
                /\ UNCHANGED <<day, outcome, due, pending, ledger, book, crosses>>

\* What a strategy would spend on, and what its remaining cash affords: less
\* than nothing when the cash is negative, a demand net_sleeve_demands drops.
BuyQuantity(s, i) ==
    IF i \notin Considered(s) \/ ~Tradable(i) \/ DelistEffective(i) THEN 0
    ELSE IF Desired(s, i) <= shares[s][i] THEN 0
    ELSE MinOf(FloorTo(Desired(s, i) - shares[s][i], LotSize[i]),
               FloorTo(money[s] \div RefPrice(i), LotSize[i]))

PlanBuys ==
    /\ pc = "demand" /\ queue # {}
    /\ LET i == First(queue) IN
        /\ residual' = [residual EXCEPT !["buy"][i] =
                           [s \in Strategies |-> MaxOf(0, BuyQuantity(s, i))]]
        /\ money' = [s \in Strategies |->
                        money[s] - BuyQuantity(s, i) * RefPrice(i)]
        /\ queue' = queue \ {i}
    /\ UNCHANGED <<day, pc, outcome, due, pending, ledger, book, crosses>>

\* net_sleeve_demands, for every instrument.
NetDemands ==
    /\ pc = "demand" /\ queue = {}
    /\ LET sell == residual["sell"]
           buy == residual["buy"]
       IN  /\ crosses' = [i \in Instruments |-> [s \in Strategies |->
                 [b \in Strategies |-> CrossQuantity(buy[i], sell[i], s, b)]]]
           /\ residual' =
                 [sell |-> [i \in Instruments |-> Residual(sell[i], buy[i])],
                  buy |-> [i \in Instruments |-> Residual(buy[i], sell[i])]]
           /\ queue' = {i \in Instruments : Total(Residual(sell[i], buy[i])) > 0}
    /\ pc' = "sell"
    /\ UNCHANGED <<day, outcome, due, pending, ledger, book, money>>

Commission(notional) ==
    IF notional = 0 THEN 0 ELSE MaxOf(MinCommission, notional \div CommissionPer)

\* Shares bought today, by the market or a cross, wait for tomorrow under
\* T+1; the last day of the calendar has no tomorrow and locks nothing.
Locking(i) == IF day < NumDays THEN SellDelay[i] ELSE 0

\* The order takes the lot size of its first residual demand.
SellLot(i) ==
    LET first == First({s \in Strategies : residual["sell"][i][s] > 0})
    IN  IF Liquidates(first) THEN 1 ELSE LotSize[i]

\* A trade on every account: each sleeve its part, the master all of them.
Split(part) == [a \in Accounts |-> IF a = Master THEN Total(part) ELSE part[a]]

\* One market sell order: the fill, its split, the fees, and both accounts.
ExecuteSell(i, fill, slip) ==
    LET sold == Allocation(fill, residual["sell"][i], SellLot(i))
        actual == Total(sold)
        price == RefPrice(i) - slip
        commission == Commission(actual * price)
        tax == (actual * price) \div SellTaxPer
        fees == CostShare(commission, sold)
        taxes == CostShare(tax, sold)
    IN  /\ pc = "sell" /\ queue # {} /\ i = First(queue)
        /\ fill % SellLot(i) = 0
        /\ IF \E s \in Strategies : sold[s] > Sellable(s, i)
           THEN Abort("sleeve_oversold")
           ELSE IF actual > Sellable(Master, i) THEN Abort("master_oversold")
           ELSE /\ shares' = [a \in Accounts |->
                      [shares[a] EXCEPT ![i] = @ - Split(sold)[a]]]
                /\ cash' = [a \in Accounts |-> cash[a] +
                      IF a = Master THEN actual * price - commission - tax
                      ELSE sold[a] * price - fees[a] - taxes[a]]
                /\ queue' = queue \ {i}
                /\ UNCHANGED <<day, pc, outcome, due, pending, receivable, locked,
                               book, money, residual, crosses>>

SellsDone ==
    /\ pc = "sell" /\ queue = {}
    /\ pc' = "cross"
    /\ UNCHANGED <<day, outcome, due, pending, ledger, book, batch>>

\* What a cross is worth: the reference price, and no cost.
Flow(i, quantity) == quantity * RefPrice(i)

SoldIn(i, s) == Total(crosses[i][s])
BoughtIn(i, b) == Total([s \in Strategies |-> crosses[i][s][b]])

\* Mutant: only the proceeds are counted.
CashAfterSales(s) ==
    cash[s] + Total([i \in Instruments |-> Flow(i, SoldIn(i, s))])

\* cash_delta on top of the cash: what all pending crosses leave s with.
CashAfterCrosses(s) ==
    cash[s] + Total([i \in Instruments |-> Flow(i, SoldIn(i, s))])
            - Total([i \in Instruments |-> Flow(i, BoughtIn(i, s))])

\* Mutant: the crosses of the wrong party are rejected.
DropSellersCrosses ==
    LET negative == {s \in Strategies : CashAfterCrosses(s) < 0}
    IN  /\ pc = "cross" /\ crosses # NoCross /\ negative # {}
        /\ crosses' = [i \in Instruments |-> [s \in Strategies |->
              [b \in Strategies |-> IF s \in negative THEN 0
                                    ELSE crosses[i][s][b]]]]
        /\ UNCHANGED <<day, pc, outcome, due, pending, ledger, book,
                       money, residual, queue>>

\* One round of the loop that rejects the crosses of buyers without the cash;
\* it is left when no sleeve would be negative, or no cross remains.
DropCrosses ==
    LET negative == {s \in Strategies : CashAfterCrosses(s) < 0}
    IN  /\ pc = "cross" /\ crosses # NoCross /\ negative # {}
        /\ crosses' = [i \in Instruments |-> [s \in Strategies |->
              [b \in Strategies |-> IF b \in negative THEN 0
                                    ELSE crosses[i][s][b]]]]
        /\ UNCHANGED <<day, pc, outcome, due, pending, ledger, book,
                       money, residual, queue>>

AcceptCrosses ==
    /\ pc = "cross"
    /\ crosses = NoCross \/ \A s \in Strategies : CashAfterCrosses(s) >= 0
    /\ IF \E s \in Strategies : \E i \in Instruments :
             SoldIn(i, s) > Sellable(s, i)
       THEN Abort("cross_exceeds_sellable")
       ELSE /\ pc' = "settle"
            /\ UNCHANGED <<day, outcome, due, pending, ledger, book, batch>>

\* Mutant: the seller's side is booked on the master as well.
CrossMoveOnMaster(seller, buyer, n, a) ==
    (IF a = buyer THEN n ELSE 0) - (IF a \in {seller, Master} THEN n ELSE 0)

\* What a cross of n shares adds to the position of account a.
CrossMove(seller, buyer, n, a) ==
    (IF a = buyer THEN n ELSE 0) - (IF a = seller THEN n ELSE 0)

\* A cross moves shares one way and their reference value the other, between
\* sleeves only; the buyer's lot is new and locks like any purchase.
SettleCross(i, seller, buyer) ==
    LET n == crosses[i][seller][buyer]
    IN  /\ pc = "settle" /\ n > 0
        /\ shares' = [a \in Accounts |-> [shares[a] EXCEPT ![i] =
                         @ + CrossMove(seller, buyer, n, a)]]
        /\ locked' = [locked EXCEPT ![buyer][i] = @ + n * Locking(i)]
        /\ cash' = [a \in Accounts |->
                       cash[a] - CrossMove(seller, buyer, Flow(i, n), a)]
        /\ crosses' = [crosses EXCEPT ![i][seller][buyer] = 0]
        /\ UNCHANGED <<day, pc, outcome, due, pending, receivable, book,
                       money, residual, queue>>

CrossesDone ==
    /\ pc = "settle" /\ crosses = NoCross
    /\ pc' = "buy"
    /\ queue' = {i \in Instruments : EndOf("buy", i) > 0}
    /\ UNCHANGED <<day, outcome, due, pending, ledger, book, money, residual,
                   crosses>>

\* What a buy of one sleeve is estimated to cost: it is charged the whole
\* minimum commission here, though it will bear a share of it only.
Estimate(n, price) ==
    n * price + MaxOf(MinCommission, (n * price) \div CommissionPer)
              + (n * price) \div BuyTaxPer

\* A sleeve's part n of the fill, less the lots given back one by one until
\* its cash reaches; all of it when not even the last one is paid for.
Affordable(s, i, n, price) ==
    n - First({j \in 0 .. n : \/ j = n
                              \/ /\ j % LotSize[i] = 0
                                 /\ Estimate(n - j, price) <= cash[s]})

ExecuteBuy(i, fill, slip) ==
    LET offered == Allocation(fill, residual["buy"][i], LotSize[i])
        price == RefPrice(i) + slip
        bought == [s \in Strategies |-> Affordable(s, i, offered[s], price)]
        actual == Total(bought)
        commission == Commission(actual * price)
        tax == (actual * price) \div BuyTaxPer
        fees == CostShare(commission, bought)
        taxes == CostShare(tax, bought)
        cost(s) == bought[s] * price + fees[s] + taxes[s]
        total == actual * price + commission + tax
    IN  /\ pc = "buy" /\ queue # {} /\ i = First(queue)
        /\ fill % LotSize[i] = 0
        /\ IF \E s \in Strategies : bought[s] > 0 /\ cost(s) > cash[s]
           THEN Abort("sleeve_overdrawn")
           ELSE IF actual > 0 /\ total > cash[Master]
           THEN Abort("master_overdrawn")
           ELSE /\ shares' = [a \in Accounts |->
                      [shares[a] EXCEPT ![i] = @ + Split(bought)[a]]]
                /\ locked' = [a \in Accounts |->
                      [locked[a] EXCEPT ![i] = @ + Locking(i) * Split(bought)[a]]]
                /\ cash' = [a \in Accounts |->
                      cash[a] - IF a = Master THEN total ELSE cost(a)]
                /\ queue' = queue \ {i}
                /\ UNCHANGED <<day, pc, outcome, due, pending, receivable, book,
                               money, residual, crosses>>

BuysDone ==
    /\ pc = "buy" /\ queue = {}
    /\ pc' = "close"
    /\ pending' = [s \in Strategies |-> NoTarget]
    /\ money' = [s \in Strategies |-> 0]
    /\ residual' = NoDemand
    /\ UNCHANGED <<day, outcome, due, ledger, book, queue, crosses>>
-----------------------------------------------------------------------------
(* The close: marks, entitlements, delistings, the daily record.           *)

\* Mutant: only the sleeves have entitlements.
EntitlementOfSleeves(a, e) ==
    IF Actions[e].record = day /\ a # Master
    THEN shares[a][Actions[e].code] ELSE entitled[a][e]

\* _record_entitlements
Entitlement(a, e) ==
    IF Actions[e].record = day /\ shares[a][Actions[e].code] > 0
    THEN shares[a][Actions[e].code] ELSE entitled[a][e]

HeldBySomeone == UNION {Held(s) : s \in Strategies}
Observed(i) == i \notin frozen /\ ClosePrice[i][day] > 0

MarkToMarket ==
    /\ pc = "close"
    /\ IF \E i \in HeldBySomeone :
             ~Observed(i) /\ (DelistEffective(i) => mark[i] = 0)
       THEN Abort("no_valuation")
       ELSE /\ mark' = [i \in Instruments |->
                  IF i \in HeldBySomeone /\ Observed(i)
                  THEN ClosePrice[i][day] ELSE mark[i]]
            /\ entitled' = [a \in Accounts |->
                               [e \in Events |-> Entitlement(a, e)]]
            /\ queue' = {i \in Instruments : DelistDay[i] = day} \ frozen
            /\ pc' = "delist"
            /\ UNCHANGED <<day, outcome, due, pending, ledger, frozen,
                           money, residual, crosses>>

\* Mutant: the settlement is credited to the sleeves only.
SettlementOfSleeves(a, i) ==
    IF DelistingPolicy = "cash_settle_last_close" /\ a # Master
    THEN shares[a][i] * ((mark[i] * RecoveryNum) \div RecoveryDen) ELSE 0

\* The cash a delisted position turns into, at a recovery per share.
Settlement(a, i) ==
    IF DelistingPolicy = "cash_settle_last_close"
    THEN shares[a][i] * ((mark[i] * RecoveryNum) \div RecoveryDen) ELSE 0

\* Mutant: the disposal walks the sleeves and forgets the master.
KeptByMaster(a, i) ==
    IF DelistingPolicy = "carry_last_mark" \/ a = Master THEN shares[a][i] ELSE 0

\* Every policy but carrying removes all lots.
Kept(a, i) == IF DelistingPolicy = "carry_last_mark" THEN shares[a][i] ELSE 0

Delist(i) ==
    /\ pc = "delist" /\ queue # {} /\ i = First(queue)
    /\ shares' = [a \in Accounts |-> [shares[a] EXCEPT ![i] = Kept(a, i)]]
    /\ locked' = [a \in Accounts |->
                     [locked[a] EXCEPT ![i] = MinOf(@, Kept(a, i))]]
    /\ cash' = [a \in Accounts |-> cash[a] + Settlement(a, i)]
    /\ frozen' = frozen \union {i}
    /\ queue' = queue \ {i}
    /\ UNCHANGED <<day, pc, outcome, due, pending, receivable, entitled, mark,
                   money, residual, crosses>>

DelistingsDone ==
    /\ pc = "delist" /\ queue = {}
    /\ pc' = IF Timing # "same_close" /\ day < NumDays THEN "decide" ELSE "record"
    /\ UNCHANGED <<day, outcome, due, pending, ledger, book, batch>>

MarkOf(i) == mark[i]

\* _record_daily, and the turn of the day: what was locked becomes sellable.
RecordDay ==
    /\ pc = "record"
    /\ IF \E s \in Strategies : cash[s] < 0 \/ Worth(s, MarkOf) < 0
       THEN Abort("negative_cash_or_nav")
       ELSE IF day = NumDays
       THEN /\ pc' = "done"
            /\ UNCHANGED <<day, outcome, due, pending, ledger, book, batch>>
       ELSE /\ pc' = "actions"
            /\ day' = day + 1
            /\ due' = DueOn(day + 1)
            /\ locked' = [a \in Accounts |-> [i \in Instruments |-> 0]]
            /\ UNCHANGED <<outcome, pending, cash, receivable, shares, book, batch>>

Finished == pc \in {"done", "aborted"} /\ UNCHANGED vars

Next ==
    \/ \E e \in Events : AccrueDividend(e) \/ PayDividend(e) \/ AdjustShares(e)
    \/ ActionsDone \/ Decide
    \/ NoBatch \/ PlanSells \/ PlanBuys \/ NetDemands
    \/ \E i \in Instruments : \E slip \in Slippage :
          \/ \E fill \in 0 .. EndOf("sell", i) : ExecuteSell(i, fill, slip)
          \/ \E fill \in 0 .. EndOf("buy", i) : ExecuteBuy(i, fill, slip)
    \/ SellsDone
    \/ DropCrosses \/ AcceptCrosses
    \/ \E i \in Instruments : \E seller \in Strategies : \E buyer \in Strategies :
          SettleCross(i, seller, buyer)
    \/ CrossesDone \/ BuysDone
    \/ MarkToMarket \/ (\E i \in Instruments : Delist(i)) \/ DelistingsDone
    \/ RecordDay
    \/ Finished

Spec == Init /\ [][Next]_vars

\* The loop over the days is a sequential program: it always takes its next
\* step, and it waits for nothing.
FairSpec == Spec /\ WF_vars(Next)
-----------------------------------------------------------------------------
(* What the ledger promises.                                               *)

BookingFailures == {"sleeve_oversold", "master_oversold", "cross_exceeds_sellable",
                    "sleeve_overdrawn", "master_overdrawn"}
Outcomes == BookingFailures \union
    {"none", "action_exceeds_position", "unpriced_holding", "unvalued_holding",
     "no_valuation", "negative_cash_or_nav"}
Stages == {"actions", "decide", "trade", "demand", "sell", "cross", "settle",
           "buy", "close", "delist", "record", "done", "aborted"}

\* Every variable has its type; quantities are never negative.
TypeOK ==
    /\ day \in Days /\ pc \in Stages /\ outcome \in Outcomes
    /\ due \subseteq Nat
    /\ pending \in [Strategies -> Targets \union {NoTarget}]
    /\ cash \in [Accounts -> Int]
    /\ receivable \in [Accounts -> [Events -> Nat]]
    /\ shares \in [Accounts -> [Instruments -> Nat]]
    /\ locked \in [Accounts -> [Instruments -> Nat]]
    /\ entitled \in [Accounts -> [Events -> Nat]]
    /\ mark \in [Instruments -> Nat]
    /\ frozen \subseteq Instruments
    /\ money \in [Strategies -> Int]
    /\ residual \in [Sides -> [Instruments -> [Strategies -> Nat]]]
    /\ queue \subseteq Instruments
    /\ crosses \in [Instruments -> [Strategies -> [Strategies -> Nat]]]

\* The master's positions are those of the sleeves together, after every
\* event and not only where MasterAccount.reconcile looks.
PositionsReconcile ==
    \A i \in Instruments :
        shares[Master][i] = Total([s \in Strategies |-> shares[s][i]])

\* The master's cash is that of the sleeves together, whatever way fees, fills
\* and dividends were split.
CashReconcile == cash[Master] = Total([s \in Strategies |-> cash[s]])

\* The master's receivable on each event is that of the sleeves together.
ReceivablesReconcile ==
    \A e \in Events :
        receivable[Master][e] = Total([s \in Strategies |-> receivable[s][e]])

\* What was bought today is still there, in every account, and the master
\* holds no more of it back than the sleeves do: whatever the sleeves may
\* sell today the master may sell.
LocksCovered ==
    /\ \A a \in Accounts : \A i \in Instruments : locked[a][i] <= shares[a][i]
    /\ \A i \in Instruments :
          locked[Master][i] <= Total([s \in Strategies |-> locked[s][i]])

\* Planning leaves nothing for the booking to refuse: no fill, split or cross
\* exceeds a position that may be sold or the cash that must pay for it.
NoBookingFailure == outcome \notin BookingFailures

\* No sleeve is overdrawn: the crosses that reach the books, taken together,
\* are paid for, and so is every market order whatever the market filled.
SleevesSolvent == pc # "settle" => \A s \in Strategies : cash[s] >= 0

\* A position on the record day can always be adjusted on the ex day: the actions the
\* backtest supports (docs/architecture.md 988) do not end the run.
EntitlementsHonoured == outcome # "action_exceeds_position"

\* A holding can be valued whenever a decision or a batch needs it.
HoldingsPriced == outcome \notin {"unpriced_holding", "unvalued_holding"}

\* A delisted instrument is frozen: only corporate actions touch what is left
\* of it, and a policy that disposes of it leaves nothing in any account.
FrozenStaysFrozen ==
    [][/\ \A i \in frozen : \A a \in Accounts :
             pc = "actions" \/ shares'[a][i] = shares[a][i]
       /\ DelistingPolicy # "carry_last_mark" =>
             \A i \in frozen' : \A a \in Accounts : shares'[a][i] = 0]_vars

\* A cross is made at the reference price and free of charge: it changes no
\* sleeve's worth at that price, and nothing of the master.
CrossesKeepWorth ==
    [][pc = "settle" =>
         /\ \A s \in Strategies : Worth(s, RefPrice)' = Worth(s, RefPrice)
         /\ cash'[Master] = cash[Master] /\ shares'[Master] = shares[Master]]_vars

\* The run ends: with its result, or with an error that says why.
Termination == <>(pc \in {"done", "aborted"})
-----------------------------------------------------------------------------
(* Seen from the broker: one account, whatever goes on between the sleeves.*)

\* The entries of the day's corporate actions still to be booked.
EntryNumber(x) == IF x[2] = "ex" THEN 2 * x[1] - 1 ELSE 2 * x[1]
EntriesDue == {x \in Events \X {"ex", "pay"} : EntryNumber(x) \in due}

DayPhase ==
    IF pc = "aborted" THEN "halted"
    ELSE IF \/ pc \in {"delist", "record", "done"}
            \/ pc = "decide" /\ Timing # "same_close" THEN "night"
    ELSE "day"

\* What has no order yet, or has one that is still to be executed, can still be traded.
OpenToday ==
    {i \in Instruments :
        \/ pc \in {"actions", "trade", "demand"}
        \/ pc = "decide" /\ Timing = "same_close"
        \/ pc = "sell" /\ (EndOf("sell", i) = 0 \/ i \in queue)
        \/ pc \in {"cross", "settle"} /\ EndOf("sell", i) = 0
        \/ pc = "buy" /\ EndOf("sell", i) = 0 /\ (EndOf("buy", i) = 0 \/ i \in queue)}

\* What the sleeves have together.
Together(table, column) == Total([s \in Strategies |-> table[s][column]])
CashTogether == Total([s \in Strategies |-> cash[s]])
OwedTogether == [e \in Events |-> Together(receivable, e)]
EntitledTogether == [e \in Events |-> Together(entitled, e)]
HeldTogether == [i \in Instruments |-> Together(shares, i)]

Broker == INSTANCE BrokerAccount WITH
              Deposit <- Total(InitialCash), Owners <- NumStrategies,
              Reference <- IF Timing = "next_open" THEN OpenPrice ELSE ClosePrice,
              today <- day, phase <- DayPhase, due <- EntriesDue, open <- OpenToday,
              cash <- CashTogether, owed <- OwedTogether, entitled <- EntitledTogether,
              held <- HeldTogether, fresh <- locked[Master]

\* The sleeves together are one cash account: the market sees nothing but the master
\* account (docs/architecture.md:798).  Whatever they plan, net, cross and share, the
\* account has one order a day in an instrument, pays the costs of that order as a whole,
\* sells no share bought the same day, and gets the dividends of what it held on the
\* record day.
OneAccount == Broker!Spec
=============================================================================
