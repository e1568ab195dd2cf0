------------------------------ MODULE MCLedger ------------------------------
(* Instances of SleeveLedger for TLC: the constants of each run.           *)
EXTENDS SleeveLedger

Flat(n, price) == [i \in 1 .. n |-> [d \in Days |-> price]]
Weigh(f) == [kind |-> "weights", weight |-> f]
SellOff(S) == [kind |-> "liquidate", codes |-> S]
NoActions == <<>>
OneLot == <<1>>
NextDay == <<1>>
Mixed == <<1, 0>>
NeverDelisted == [i \in Instruments |-> NumDays + 1]
-----------------------------------------------------------------------------
(* Crossing: three strategies of unequal cash rebalance one T+1 instrument *)
(* on days 1 to 3, so that one sells while another buys, the minimum       *)
(* commission is shared, and a buyer may lack the cash for its cross.      *)
CrossingCash == <<34, 24, 16>>
CrossingSchedule == <<{1, 2}, {1, 2}, {1}>>
CrossingTargets == {Weigh(<<0>>), Weigh(<<1>>), Weigh(<<2>>)}
FlatEight == Flat(1, 8)
-----------------------------------------------------------------------------
(* Lifecycle: two strategies hold one of two instruments each way round    *)
(* and swap, so that a sale the market does not fill leaves its sleeve     *)
(* without the cash for the cross planned on it.  A dividend and a bonus   *)
(* of one for two on instrument 2 go to the holdings of day 2 and take     *)
(* effect on day 4, after a day on which it is traded; only a liquidation  *)
(* sells the odd shares.  Over day 3 instrument 1 is merged two into one.  *)
(* Instrument 1 (T+1) has its last bar on day 3 and is disposed of on day  *)
(* 4, instrument 2 (T+0) is disposed of on day 5 and still has bars.       *)
LifecycleCash == <<9, 13>>
LifecycleSchedule == <<{2, 3, 4}, {2, 3, 4, 5}>>
LifecycleTargets == {Weigh(<<1, 0>>), Weigh(<<0, 1>>), SellOff({1, 2})}
LifecycleActions ==
    <<[kind |-> "dividend", code |-> 2, record |-> 2, ex |-> 4, pay |-> 5,
       perShare |-> 2, num |-> 1, den |-> 1],
      [kind |-> "adjust", code |-> 2, record |-> 2, ex |-> 4, pay |-> 0,
       perShare |-> 0, num |-> 3, den |-> 2],
      [kind |-> "adjust", code |-> 1, record |-> 3, ex |-> 4, pay |-> 0,
       perShare |-> 0, num |-> 1, den |-> 2]>>
LifecyclePrices == <<<<4, 4, 4, 0, 0>>, <<4, 4, 4, 4, 4>>>>
OneAndTwo == <<1, 2>>
DelistOnFourAndFive == <<4, 5>>
-----------------------------------------------------------------------------
(* Stuck: lots of two at four each cover a minimum commission of five, but *)
(* a liquidation trades single shares; two other strategies have a cross   *)
(* to settle at the moment a sleeve is negative for that reason.           *)
StuckCash == <<13, 13, 13>>
StuckSchedule == <<{1}, {1}, {1}>>
StuckTargets == {Weigh(<<1, 0>>), SellOff({1}), Weigh(<<0, 1>>), SellOff({2})}
FlatFours == Flat(2, 4)
TwoLotsEach == <<2, 2>>
=============================================================================
