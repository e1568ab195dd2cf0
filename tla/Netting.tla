------------------------------ MODULE Netting -------------------------------
(***************************************************************************)
(* The pure algorithms of zyquant.portfolio.sleeve: how the demands of the *)
(* sleeves for one instrument are crossed against each other, and how one  *)
(* market fill and its costs are shared between the sleeves behind it.     *)
(*                                                                         *)
(* A demand is a function from strategy number to a quantity (0 where the  *)
(* strategy asks for nothing); strategy numbers stand for the identifiers  *)
(* in their sort order, the order every tie in the code is broken by.      *)
(* The definitions are the closed forms of the code's loops; the loops     *)
(* themselves are NettingLoop, which is shown to compute these.            *)
(***************************************************************************)
EXTENDS LedgerMath

Total(f) == Sum(f, DOMAIN f)

\* What the strategies that sort before s ask for together.
Before(f, s) == Sum(f, 1 .. s - 1)

\* Mutant: every seller meets every buyer with all it has.
CrossQuantityOfAll(buy, sell, seller, buyer) == MinOf(sell[seller], buy[buyer])

(***************************************************************************)
(* Lay the sells end to end, lay the buys end to end: the seller hands the *)
(* buyer the length of the overlap of their two intervals.                 *)
(***************************************************************************)
CrossQuantity(buy, sell, seller, buyer) ==
    LET start == MaxOf(Before(sell, seller), Before(buy, buyer))
        end   == MinOf(Before(sell, seller) + sell[seller],
                       Before(buy, buyer) + buy[buyer])
    IN  MaxOf(0, end - start)

\* Mutant: a strategy whose demand is crossed keeps the overshoot.
ResidualUnclamped(own, other) ==
    [s \in DOMAIN own |-> MinOf(own[s], Before(own, s) + own[s] - Total(other))]

\* Mutant: what is crossed goes to the market as well.
ResidualOfAll(own, other) == [s \in DOMAIN own |-> own[s]]

\* What of its own demand a strategy keeps once the other side is used up.
Residual(own, other) ==
    [s \in DOMAIN own |->
        MaxOf(0, MinOf(own[s], Before(own, s) + own[s] - Total(other)))]

\* Every share rounded down to a whole lot.
BaseShare(fill, requested, lot) ==
    [s \in DOMAIN requested |->
        FloorTo((fill * requested[s]) \div Total(requested), lot)]

(***************************************************************************)
(* allocate_fill_demands: lots left over by the rounding go, one each, to  *)
(* the largest remainders that still have room, ties to the lower number.  *)
(***************************************************************************)
Allocation(fill, requested, lot) ==
    LET base == BaseShare(fill, requested, lot)
        spare == (fill - Total(base)) \div lot
        roomy == {s \in DOMAIN requested : base[s] + lot <= requested[s]}
        remainder(s) == fill * requested[s] - base[s] * Total(requested)
        goesBefore(t, s) == \/ remainder(t) > remainder(s)
                            \/ remainder(t) = remainder(s) /\ t < s
        lucky == {s \in roomy :
                    Cardinality({t \in roomy : goesBefore(t, s)}) < spare}
    IN  [s \in DOMAIN requested |->
            IF fill = 0 THEN 0
            ELSE IF s \in lucky THEN base[s] + lot ELSE base[s]]

(***************************************************************************)
(* cost_demand_allocations: an order's cost in proportion to the filled    *)
(* quantities; the last strategy with a fill takes what the rounding left. *)
(***************************************************************************)
CostShare(cost, filled) ==
    LET owners == {s \in DOMAIN filled : filled[s] > 0}
        last == CHOOSE s \in owners : \A t \in owners : t <= s
        share == [s \in DOMAIN filled |->
                    IF s \in owners /\ s # last
                    THEN (cost * filled[s]) \div Total(filled) ELSE 0]
    IN  [s \in DOMAIN filled |->
            IF owners # {} /\ s = last THEN cost - Total(share) ELSE share[s]]
=============================================================================
