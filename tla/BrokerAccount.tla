---------------------------- MODULE BrokerAccount ---------------------------
(***************************************************************************)
(* What the ledger of zyquant.backtest promises: however many strategies   *)
(* share it, it is one cash account at a broker.  Every change of the      *)
(* account is an order, charged as a whole, a dividend, an adjustment or   *)
(* a disposal.  Strategies, targets, netting and internal crosses do not   *)
(* appear; all they may leave is the rounding of an adjustment.            *)
(***************************************************************************)
EXTENDS LedgerMath

CONSTANTS
    Instruments, NumDays, Deposit,
    Owners,         \* how many the account is divided among
    Reference,      \* [instruments -> [days -> price orders are filled around]]
    ClosePrice,     \* [instruments -> [days -> Nat]], 0 is a day without a bar
    SellDelay, Slippage, MinCommission, CommissionPer, SellTaxPer, BuyTaxPer,
    Actions, DelistDay, DelistingPolicy, RecoveryNum, RecoveryDen

VARIABLES
    today,
    phase,      \* the "day" up to its close, the "night", or "halted" for good
    due,        \* entries of corporate actions still to be booked today
    open,       \* instruments that may still be traded today
    cash,
    owed,       \* dividends accrued and not paid, by event
    entitled,   \* holding on the record day, by event
    held,
    fresh,      \* of it, what cannot be sold before tomorrow
    mark,       \* last close seen while held, 0 for none
    frozen      \* delisted instruments

account == <<cash, owed, entitled, held, fresh, mark, frozen>>
vars == <<today, phase, due, open, account>>

Events == DOMAIN Actions
Entries(d) ==
    {<<e, "ex">> : e \in {e \in Events : Actions[e].ex = d}} \union
    {<<e, "pay">> : e \in {e \in Events : /\ Actions[e].kind = "dividend"
                                          /\ Actions[e].pay = d}}

Init ==
    /\ today = 1 /\ phase = "day" /\ due = Entries(1) /\ open = Instruments
    /\ cash = Deposit
    /\ owed = [e \in Events |-> 0] /\ entitled = owed
    /\ held = [i \in Instruments |-> 0] /\ fresh = held /\ mark = held
    /\ frozen = {}
-----------------------------------------------------------------------------
(* Every entry of the day is booked once, and before anything is traded.   *)
Book(entry) ==
    /\ phase = "day" /\ entry \in due
    /\ due' = due \ {entry}
    /\ UNCHANGED <<today, phase, open>>

\* A dividend is on what was held on the record day, and paid as it was accrued.
Accrue(e) ==
    /\ Book(<<e, "ex">>) /\ Actions[e].kind = "dividend"
    /\ owed' = [owed EXCEPT ![e] = entitled[e] * Actions[e].perShare]
    /\ UNCHANGED <<cash, entitled, held, fresh, mark, frozen>>

Pay(e) ==
    /\ Book(<<e, "pay">>)
    /\ cash' = cash + owed[e]
    /\ owed' = [owed EXCEPT ![e] = 0]
    /\ UNCHANGED <<entitled, held, fresh, mark, frozen>>

\* The n shares of an adjustment are its ratio of the shares held on the record day, but
\* for at most half a share of each owner: their parts are rounded one by one.
Rounded(e, n) ==
    LET exact == entitled[e] * (Actions[e].num - Actions[e].den)
    IN  2 * (n * Actions[e].den - exact)
            \in -(Owners * Actions[e].den) .. Owners * Actions[e].den

Adjust(e, n) ==
    /\ Book(<<e, "ex">>) /\ Actions[e].kind = "adjust"
    /\ n \in Int /\ Rounded(e, n) /\ (entitled[e] = 0 => n = 0)
    /\ held[Actions[e].code] + n >= 0
    /\ held' = [held EXCEPT ![Actions[e].code] = @ + n]
    /\ UNCHANGED <<cash, owed, entitled, fresh, mark, frozen>>
-----------------------------------------------------------------------------
(* One order a day in an instrument, a sale or a purchase: the account     *)
(* never trades with itself.  It may be filled in part, or not at all.     *)
Order(i) ==
    /\ phase = "day" /\ due = {} /\ i \in open
    /\ i \notin frozen /\ Reference[i][today] > 0
    /\ open' = open \ {i}
    /\ UNCHANGED <<today, phase, due, owed, entitled, mark, frozen>>

Commission(notional) ==
    IF notional = 0 THEN 0 ELSE MaxOf(MinCommission, notional \div CommissionPer)

\* A sale is of shares that were there before the day, or came without a delay.
Sell(i, n, price) ==
    LET notional == n * price
    IN  /\ Order(i)
        /\ n \in 0 .. held[i] - fresh[i]
        /\ held' = [held EXCEPT ![i] = @ - n]
        /\ cash' = cash + notional - Commission(notional) - notional \div SellTaxPer
        /\ UNCHANGED fresh

\* A purchase is paid for; with a delay it cannot be sold before tomorrow.
Buy(i, n, price) ==
    LET notional == n * price
        cost == notional + Commission(notional) + notional \div BuyTaxPer
    IN  /\ Order(i) /\ today < DelistDay[i]
        /\ n \in Nat /\ (n > 0 => cost <= cash)
        /\ held' = [held EXCEPT ![i] = @ + n]
        /\ fresh' = [fresh EXCEPT ![i] = @ + n * (IF today < NumDays THEN SellDelay[i] ELSE 0)]
        /\ cash' = cash - cost

CloseMarket ==
    /\ phase = "day" /\ due = {} /\ open' = {}
    /\ UNCHANGED <<today, phase, due, account>>
-----------------------------------------------------------------------------
\* The close: whoever holds on a record day is entitled, a holding is marked at its bar.
Close ==
    /\ phase = "day" /\ due = {} /\ open = {}
    /\ phase' = "night"
    /\ entitled' = [e \in Events |->
          IF Actions[e].record = today /\ held[Actions[e].code] > 0
          THEN held[Actions[e].code] ELSE entitled[e]]
    /\ mark' = [i \in Instruments |->
          IF held[i] > 0 /\ i \notin frozen /\ ClosePrice[i][today] > 0
          THEN ClosePrice[i][today] ELSE mark[i]]
    /\ UNCHANGED <<today, due, open, cash, owed, held, fresh, frozen>>

\* A delisted position is carried, or leaves the account, at its last mark or for nothing.
Dispose(i) ==
    /\ phase = "night" /\ DelistDay[i] = today /\ i \notin frozen
    /\ frozen' = frozen \union {i}
    /\ IF DelistingPolicy = "carry_last_mark" THEN UNCHANGED <<cash, held, fresh>>
       ELSE /\ held' = [held EXCEPT ![i] = 0] /\ fresh' = [fresh EXCEPT ![i] = 0]
            /\ cash' = cash + IF DelistingPolicy = "cash_settle_last_close"
                              THEN held[i] * ((mark[i] * RecoveryNum) \div RecoveryDen)
                              ELSE 0
    /\ UNCHANGED <<today, phase, due, open, owed, entitled, mark>>

\* No day ends with a delisting left, none begins with a share that is not sellable.
NextDay ==
    /\ phase = "night" /\ today < NumDays
    /\ {i \in Instruments : DelistDay[i] = today} \subseteq frozen
    /\ today' = today + 1 /\ phase' = "day"
    /\ due' = Entries(today + 1) /\ open' = Instruments
    /\ fresh' = [i \in Instruments |-> 0]
    /\ UNCHANGED <<cash, owed, entitled, held, mark, frozen>>

\* A failure stops everything, and leaves the account as it was.
Halt ==
    /\ phase' = "halted" /\ open' = {}
    /\ UNCHANGED <<today, due, account>>

\* The quantity of a purchase or an adjustment is whatever the holding changes by.
Next ==
    \/ \E e \in Events : \/ Accrue(e) \/ Pay(e)
                         \/ Adjust(e, held'[Actions[e].code] - held[Actions[e].code])
    \/ \E i \in Instruments : \E slip \in Slippage :
          \/ \E n \in 0 .. held[i] : Sell(i, n, Reference[i][today] - slip)
          \/ Buy(i, held'[i] - held[i], Reference[i][today] + slip)
    \/ CloseMarket \/ Close \/ (\E i \in Instruments : Dispose(i)) \/ NextDay
    \/ Halt

Spec == Init /\ [][Next]_vars
=============================================================================
