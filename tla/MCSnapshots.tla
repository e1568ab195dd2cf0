---------------------------- MODULE MCSnapshots -----------------------------
(***************************************************************************)
(* Small deliveries for SnapshotStore, of four kinds: statements that are  *)
(* late, missing, restated or repeated as comparatives; metric rows of a   *)
(* vendor; bars with corporate actions and vendor factors; rules and       *)
(* memberships.  One publisher publishes each once.  Two publishers race    *)
(* for one name with two plain deliveries.  Beside them a pull from JQData, *)
(* and the cache of the factors computed from a published snapshot; the    *)
(* three share no state.                                                   *)
(***************************************************************************)
EXTENDS SnapshotStore, JQDataPull, MCFactorCache

VARIABLE focus      \* what this behaviour is about

MCTradeDays == {1, 2, 3, 4, 6, 7}
MCPeriodEnd == <<1, 2, 3, 4, 5>>

UpTo(S, n) == UNION {kSubset(k, S) : k \in 0 .. n}
Rule(first, last) == [from |-> first, to |-> last]
Bar(day, close, pre) == [day |-> day, close |-> close, pre |-> pre]
Plain ==
    [statements |-> {}, capital |-> {}, metrics |-> {},
     bars |-> <<Bar(1, 10, 10)>>, actions |-> {}, vendor |-> None, mode |-> "use",
     rules |-> {Rule(1, None)}, members |-> {}]

-----------------------------------------------------------------------------
\* Income of five quarters, one of them missing; one more report of any quarter, kind
\* and day under either name of the item; balances, and two changes of share capital.
IncomeOf(id, kind, pub, period, item, value) ==
    [id |-> id, type |-> "income", kind |-> kind, pub |-> pub, period |-> period,
     items |-> [i \in {"total_operating_revenue", "operating_revenue"} |->
                    IF i = item THEN value ELSE None]]
BalanceOf(id, pub, period, value) ==
    [id |-> id, type |-> "balance", kind |-> "current", pub |-> pub, period |-> period,
     items |-> [i \in {"total_assets"} |-> value]]
Yearly == <<1, 3, 6, 10, 2>>
Filed(missing) ==
    {IncomeOf(q, "current", MCPeriodEnd[q], q, "operating_revenue", Yearly[q]) :
        q \in 1 .. 5 \ {missing}}
Capital == {[id |-> i, from |-> i, available |-> 5 - i, total |-> i] : i \in 1 .. 2}
StatementDeliveries ==
    {[Plain EXCEPT
        !.statements = Filed(missing) \union {BalanceOf(8, 4, 4, 7), BalanceOf(9, 5, 5, 7),
                            IncomeOf(id, kind, pub, q, item, 20)},
        !.capital = Capital] :
        missing \in {0, 1, 4}, id \in {0, 7}, kind \in {"current", "comparative"}, pub \in 1 .. 6,
        q \in 1 .. 5, item \in {"total_operating_revenue", "operating_revenue"}}

MetricDeliveries ==
    {[Plain EXCEPT !.metrics = rows] :
        rows \in UpTo({[code |-> "vendor", period |-> q, end |-> q, available |-> a,
                        value |-> <<q, a>>] : q \in 1 .. 3, a \in 2 .. 5}, 3)}

Action(id, type, ex, cash, ratio) ==
    [id |-> id, type |-> type, ex |-> ex, cash |-> cash, ratio |-> ratio, price |-> 4,
     announced |-> None, cancelled |-> id = 6]
MCActions ==
    {Action(1, "dividend", 3, 2, <<0, 1>>), Action(2, "bonus", 3, 0, <<1, 1>>),
     Action(3, "merge", 4, 0, <<1, 2>>), Action(4, "rights", 3, 0, <<1, 2>>),
     Action(5, "dividend", 4, 12, <<0, 1>>), Action(6, "bonus", 4, 0, <<1, 1>>)}
PriceDeliveries ==
    {[Plain EXCEPT
        !.bars = <<Bar(1, 10, 10), Bar(2 + gap, close, pre), Bar(4, 10, close)>>,
        !.actions = actions, !.vendor = vendor, !.mode = mode] :
        gap \in 0 .. 1, close \in {8, 12}, pre \in {5, 8, 10}, actions \in UpTo(MCActions, 2),
        vendor \in {None, <<1, 1, 1>>, <<1, 2, 2>>}, mode \in {"off", "use"}}

RuleDeliveries ==
    {[Plain EXCEPT !.rules = rules, !.members = rules] :
        rules \in UpTo({Rule(first, last) : first \in 1 .. 4, last \in {None} \union 2 .. 4}, 3)}

FileDeliveries ==
    {[Plain EXCEPT !.bars = <<Bar(1, close, 10)>>] : close \in {10, 11}}
MCDeliveries ==
    UNION {StatementDeliveries, MetricDeliveries, PriceDeliveries, RuleDeliveries,
           FileDeliveries}

Of(kind) ==
    CASE kind = "statements" -> StatementDeliveries
      [] kind = "metrics" -> MetricDeliveries
      [] kind = "prices" -> PriceDeliveries
      [] kind = "rules" -> RuleDeliveries
      [] kind = "files" -> FileDeliveries

-----------------------------------------------------------------------------
\* Two stocks, the second listed for a part of the request only or all the time, and a fund;
\* days 0 and 5 are outside the request, day 3 is no trade day.
MCPullDays == {1, 2, 4}
ServiceDays == 0 .. 5
Listing(first, last) ==
    [c \in 1 .. 3 |-> [from |-> IF c = 2 THEN first ELSE 0, to |-> IF c = 2 THEN last ELSE 9]]
\* The days of equal values as rows; the last goes on.
HistoryOf(f) ==
    {[code |-> c, value |-> f[c][b], from |-> b, to |-> IF e = 5 THEN None ELSE e] :
        <<c, b, e>> \in {t \in {1, 2} \X ServiceDays \X ServiceDays :
            /\ t[2] <= t[3] /\ \A d \in t[2] .. t[3] : f[t[1]][d] = f[t[1]][t[2]] /\ f[t[1]][d] # None
            /\ t[2] > 0 => f[t[1]][t[2] - 1] # f[t[1]][t[2]]
            /\ t[3] < 5 => f[t[1]][t[3] + 1] # f[t[1]][t[2]]}}
Service(first, last, index, industry, history, tables) ==
    [listed |-> Listing(first, last), stock |-> {1, 2}, index |-> index,
     unmarked |-> IF index[1] = {1, 2} THEN {3} ELSE {},
     industry |-> industry, history |-> IF history THEN HistoryOf(industry) ELSE None,
     bars |-> {<<c, d>> \in (1 .. 3) \X MCPullDays : c # 2 \/ (first <= d /\ d <= last)}, tables |-> tables]
Ordered(codes, scope, strict, financial, batch) ==
    [codes |-> codes, prices |-> scope, strict |-> strict, financial |-> financial, batch |-> batch]

EmptyTables == [t \in Tables |-> {}]
Lasting(first, last, v) ==
    [c \in {1, 2} |-> [d \in ServiceDays |-> IF c = 1 \/ (first <= d /\ d <= last) THEN v ELSE None]]
\* Day by day any members that are listed.
IndexPulls(first) ==
    {[service |-> Service(first, 2, index, Lasting(first, 2, "x"), history, EmptyTables),
      order |-> Ordered(codes, scope, FALSE, None, 1)] :
        index \in {i \in [MCPullDays -> SUBSET {1, 2}] :
                    \A d \in MCPullDays : 2 \in i[d] => first <= d /\ d <= 2},
        history \in BOOLEAN, codes \in {{1, 3}, {2}}, scope \in {"explicit", "universe"}}
IndustryPulls ==
    {[service |-> Service(0, 9, [d \in MCPullDays |-> {2}],
                         [c \in {1, 2} |-> IF c = 2 THEN Lasting(0, 9, "x")[2]
                                            ELSE [d \in ServiceDays |-> f[(d \div 2) + 1]]],
                         h, [EmptyTables EXCEPT !["actions"] = {[id |-> 1, code |-> 1, state |-> "done"]}]),
      order |-> Ordered({1}, "explicit", strict, None, 2)] :
        f \in [1 .. 3 -> {None, "x", "y"}], h \in BOOLEAN, strict \in BOOLEAN}
TablePulls ==
    {[service |-> Service(0, 9, [d \in MCPullDays |-> {1, 2}], Lasting(0, 9, "x"), TRUE,
                         [t \in Tables |-> {[id |-> i, code |-> 1 + (i % 2), state |-> state] :
                                               i \in 1 .. IF t \in {"actions", "income"} THEN n ELSE 2}]),
      order |-> Ordered(codes, scope, strict, "universe", batch)] :
        n \in {0, 1, 3, 4}, state \in {"done", "planned", "cancelled"}, codes \in {{1}, {3}},
        strict \in BOOLEAN, scope \in {"explicit", "universe"}, batch \in {1, 2}}
MCPulls == IndexPulls(0) \union IndexPulls(2) \union IndustryPulls \union TablePulls

-----------------------------------------------------------------------------
Idle == CHOOSE p \in MCPulls : TRUE
MCInit ==
    /\ focus \in {"statements", "metrics", "prices", "rules", "files", "pull", "cache"}
    /\ focus # "pull" => service = Idle.service /\ order = Idle.order
    /\ SnapshotInit /\ PullInit /\ Init

Alone == CHOOSE p \in Publishers : TRUE
MCBegin ==
    \E p \in Publishers, d \in Datasets, x \in Of(focus) :
        /\ focus # "files" => p = Alone /\ attempts[p] = 0
        /\ Begin(p, d, x)
MCStep ==
    \E p \in Publishers :
        \/ Accept(p) \/ Reject(p) \/ Sign(p) \/ Rename(p) \/ Abort(p) \/ KillPublisher(p)
        \/ \E name \in TableNames : Write(p, name)
MCNext ==
    /\ UNCHANGED focus
    /\ \/ /\ focus \notin {"pull", "cache"} /\ (MCBegin \/ MCStep)
          /\ UNCHANGED <<pullVars, vars>>
       \/ focus = "pull" /\ PullNext /\ UNCHANGED <<snapshotVars, vars>>
       \/ focus = "cache" /\ Next /\ UNCHANGED <<snapshotVars, pullVars>>

\* In the other topics no process has asked the cache for anything.
MCSpec == MCInit /\ [][MCNext]_<<snapshotVars, pullVars, vars, focus>> /\ Fairness
=============================================================================
