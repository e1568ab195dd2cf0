---------------------------- MODULE NettingLoop -----------------------------
(***************************************************************************)
(* The two loops of zyquant.portfolio.sleeve, step by step, for one        *)
(* instrument: net_sleeve_demands walks the sorted buyers and sellers with *)
(* two pointers, then allocate_fill_demands hands out the lots that the    *)
(* rounding of one side's fill left over.  They are shown to compute the   *)
(* closed forms of Netting, which the ledger is written with.              *)
(***************************************************************************)
EXTENDS Netting

CONSTANTS NumStrategies, MaxQuantity, Lot

ASSUME NettingAssumption == /\ NumStrategies \in Nat
                            /\ MaxQuantity \in Nat /\ Lot \in Nat \ {0}

Sleeves == 1 .. NumStrategies
Quantities == [Sleeves -> 0 .. MaxQuantity]

VARIABLES
    pc,         \* "net", "fill", "allocate" or "done"
    buy, sell,  \* the demands; a strategy is on one side of an instrument
    leftBuy, leftSell, \* the rest of each item of the sorted lists
    crossed,    \* quantity crossed so far, by seller and buyer
    requested,  \* the residual demands behind the master order
    lot, fill,  \* lot size of the order, and what the market gave
    allocated, remaining,
    visit       \* keys the allocation loop has still to look at

netting == <<leftBuy, leftSell, crossed>>
sharing == <<requested, lot, fill, allocated, remaining, visit>>
loopVars == <<pc, buy, sell, netting, sharing>>

Nothing == [s \in Sleeves |-> 0]
Lowest(S) == CHOOSE x \in S : \A y \in S : x <= y

\* Buys come in lots; a liquidation may sell any quantity.
LoopInit ==
    /\ pc = "net"
    /\ buy \in Quantities /\ sell \in Quantities
    /\ \A s \in Sleeves : buy[s] % Lot = 0 /\ (buy[s] = 0 \/ sell[s] = 0)
    /\ leftBuy = buy /\ leftSell = sell
    /\ crossed = [a \in Sleeves |-> Nothing]
    /\ requested = Nothing /\ allocated = Nothing
    /\ lot = Lot /\ fill = 0 /\ remaining = 0 /\ visit = {}

\* The items not used up are those the two indexes have not passed.
Buyers == {s \in Sleeves : leftBuy[s] > 0}
Sellers == {s \in Sleeves : leftSell[s] > 0}

\* The first buyer meets the first seller; one of them at least is used up.
CrossNext ==
    /\ pc = "net" /\ Buyers # {} /\ Sellers # {}
    /\ LET b == Lowest(Buyers)
           a == Lowest(Sellers)
           quantity == MinOf(leftBuy[b], leftSell[a])
       IN  /\ crossed' = [crossed EXCEPT ![a][b] = @ + quantity]
           /\ leftBuy' = [leftBuy EXCEPT ![b] = @ - quantity]
           /\ leftSell' = [leftSell EXCEPT ![a] = @ - quantity]
    /\ UNCHANGED <<pc, buy, sell, sharing>>

\* One side is exhausted; the other, if anything is left of it, is ordered.
\* A sell order has lot 1 when its first demand is a liquidation.
PlaceOrder ==
    /\ pc = "net" /\ (Buyers = {} \/ Sellers = {})
    /\ \E left \in {leftBuy, leftSell} :
          /\ Total(left) > 0
          /\ requested' = left
          /\ lot' \in IF left = leftSell THEN {1, Lot} ELSE {Lot}
    /\ pc' = "fill"
    /\ UNCHANGED <<buy, sell, netting, fill, allocated, remaining, visit>>

NoOrder ==
    /\ pc = "net" /\ Buyers = {} /\ Sellers = {}
    /\ pc' = "done"
    /\ UNCHANGED <<buy, sell, netting, sharing>>

\* The market answers with whole lots of the order, none included.
Fill ==
    /\ pc = "fill"
    /\ fill' \in {n \in 0 .. Total(requested) : n % lot = 0}
    /\ IF fill' = 0
       THEN /\ pc' = "done"
            /\ UNCHANGED <<allocated, remaining, visit>>
       ELSE /\ pc' = "allocate"
            /\ allocated' = BaseShare(fill', requested, lot)
            /\ remaining' = fill' - Total(allocated')
            /\ visit' = {s \in Sleeves : requested[s] > 0}
    /\ UNCHANGED <<buy, sell, netting, requested, lot>>

\* Mutant: ties go to the strategy that sorts last.
GoesBeforeLater(t, s) ==
    LET remainder(x) == fill * requested[x]
                          - BaseShare(fill, requested, lot)[x] * Total(requested)
    IN  remainder(t) > remainder(s) \/ (remainder(t) = remainder(s) /\ t > s)

\* The sort key of the loop: larger remainders first, then the identifier.
GoesBefore(t, s) ==
    LET remainder(x) == fill * requested[x]
                          - BaseShare(fill, requested, lot)[x] * Total(requested)
    IN  remainder(t) > remainder(s) \/ (remainder(t) = remainder(s) /\ t < s)

Fits(s) == allocated[s] + lot <= requested[s]

\* The next key takes one lot if its demand has room for it.
GiveNext ==
    /\ pc = "allocate" /\ visit # {} /\ remaining >= lot
    /\ LET s == CHOOSE x \in visit : \A y \in visit \ {x} : GoesBefore(x, y)
       IN  /\ visit' = visit \ {s}
           /\ IF Fits(s)
              THEN /\ allocated' = [allocated EXCEPT ![s] = @ + lot]
                   /\ remaining' = remaining - lot
              ELSE UNCHANGED <<allocated, remaining>>
    /\ UNCHANGED <<pc, buy, sell, netting, requested, lot, fill>>

Allocated ==
    /\ pc = "allocate" /\ (visit = {} \/ remaining < lot)
    /\ pc' = "done"
    /\ UNCHANGED <<buy, sell, netting, sharing>>

LoopNext == CrossNext \/ PlaceOrder \/ NoOrder \/ Fill \/ GiveNext \/ Allocated

LoopSpec == LoopInit /\ [][LoopNext]_loopVars
-----------------------------------------------------------------------------
\* The two-pointer walk hands over the overlaps of the two intervals, and
\* leaves each strategy what lies beyond the other side's total.
NetsAsSpecified ==
    pc # "net" =>
        /\ \A a \in Sleeves : \A b \in Sleeves :
              crossed[a][b] = CrossQuantity(buy, sell, a, b)
        /\ leftSell = Residual(sell, buy) /\ leftBuy = Residual(buy, sell)

\* The loop over the sorted remainders computes the closed form.
AllocatesAsSpecified ==
    pc = "done" => allocated = Allocation(fill, requested, lot)

=============================================================================
