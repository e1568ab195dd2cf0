------------------------------ MODULE MCHermes -------------------------------
(***************************************************************************)
(* A Hermes job: what its controller and publisher do (HermesJob), or what  *)
(* it makes of its raw tables (HermesTables); a topic at a time, for the   *)
(* control of a job does not depend on what the tables hold.               *)
(*                                                                         *)
(* The raw tables are plain but for the ones a topic is on, of which every *)
(* small instance is taken.                                                *)
(***************************************************************************)
EXTENDS HermesJob, HermesTables, TLC

CONSTANT Topics     \* subset of {"job"} and of the topics of Job

VARIABLE topic

MCVars == <<vars, tablesVars, topic>>

MCOpen == [x \in Exchanges |-> {1, 2, 4, 5}]
OpenDays == {1, 2, 4, 5}

Security(sid, symbol, party, list, delist) ==
    [sid |-> sid, symbol |-> symbol, exchange |-> 1, party |-> party, list |-> list,
     delist |-> delist, updated |-> sid, name |-> 1]
Row(sid, d) == [sid |-> sid, day |-> d, close |-> 10 * d, pre |-> 10 * d - 5]
Plain ==
    [security |-> {Security(1, 1, 1, 1, None)}, repair |-> {}, symbols |-> {},
     identity |-> {}, changes |-> {}, states |-> {},
     types |-> {[id |-> 1, level |-> 1, parent |-> None]}, assignments |-> {},
     capital |-> {}, free |-> {}, dividends |-> {}, splits |-> {}, allotments |-> {},
     bars |-> {Row(1, d) : d \in OpenDays}, halts |-> {},
     bands |-> {1, 2} \X OpenDays,
     factors |-> {[sid |-> s, day |-> 1, factor |-> 1] : s \in {1, 2}},
     evals |-> {<<1, d>> : d \in OpenDays},
     ext |-> [k \in {"limit", "margin", "intraday"} |-> {}],
     policy |-> "repair_or_fail"]

\* Which days have a row, with which prices; halts, bands and the listing of one
\* security, beside another one that trades every day.
Prices == {"none", "full", "pre", "empty"}
Priced(d, p) ==
    [sid |-> 1, day |-> d, close |-> IF p = "full" THEN 10 * d ELSE None,
     pre |-> IF p = "empty" THEN None ELSE 10 * d - 5]
Halts == {{}} \union {{[sid |-> 1, begin |-> b, resume |-> e]} : b \in {1, 4}, e \in {4, 5, None}}
MarketJobs ==
    {[Plain EXCEPT !.bars = {Priced(d, p[d]) : d \in {e \in OpenDays : p[e] # "none"}}
                               \union {Row(2, d) : d \in OpenDays},
                   !.halts = h, !.bands = ({1} \X b) \union ({2} \X OpenDays),
                   !.security = {Security(1, 1, 1, l, x), Security(2, 2, 2, 1, None)}] :
        p \in [OpenDays -> Prices], h \in Halts, b \in {OpenDays, {1, 4, 5}},
        l \in {1, 2}, x \in {None, 5}}

FactorJobs ==
    {[Plain EXCEPT !.bars = {Row(1, d) : d \in b},
                   !.factors = {[sid |-> 1, day |-> d, factor |-> IF f[d] = "zero" THEN 0 ELSE d] :
                                   d \in {e \in OpenDays : f[e] # "none"}}] :
        b \in SUBSET OpenDays, f \in [OpenDays -> {"none", "given", "zero"}]}

StateJobs ==
    {[Plain EXCEPT !.states = {[id |-> n, sid |-> s[n], eff |-> e[n], pub |-> p, name |-> n] :
                                  n \in 1 .. 3}] :
        s \in [1 .. 3 -> {1, 9}], e \in [1 .. 3 -> {1, 2, 4}], p \in {None, 5}}

TypeJobs ==
    {[Plain EXCEPT !.types = {[id |-> n, level |-> l[n], parent |-> p[n]] : n \in 1 .. 3},
                   !.assignments = {[id |-> n, party |-> 1, type |-> n, into |-> 1, out |-> None] :
                                       n \in 2 .. 3}] :
        l \in [1 .. 3 -> {None, 1, 2}], p \in [1 .. 3 -> {None, 1, 2, 3}]}

\* Two or three securities of one or two parties, some without bars; rows of an
\* extension that name them or an unknown one; a security has one symbol.
ExtensionRows == [sid : {1, 2, 9}, symbol : {1, 2}, day : {2, 4}, updated : {None, 1, 5}]
RowPairs ==
    {e \in [{1, 2} -> ExtensionRows] :
        /\ e[1].updated = 1 /\ e[1].day = 2 /\ e[2].updated # 1
        /\ e[1].sid = e[2].sid => e[1].symbol = e[2].symbol}
AliasJobs ==
    {[Plain EXCEPT !.security = {Security(1, 1, 1, 1, None), Security(2, 2, q, 1, None),
                                 Security(3, 3, r, 1, None)},
                   !.bars = {Row(s, d) : s \in t, d \in OpenDays},
                   !.bands = (1 .. 3) \X OpenDays,
                   !.factors = {[sid |-> s, day |-> 1, factor |-> 1] : s \in 1 .. 3},
                   !.ext = [Plain.ext EXCEPT ![k] = {[id |-> n] @@ e[n] : n \in {1, 2}}],
                   !.policy = p] :
        q \in {1, 2, None}, r \in {1, 2}, t \in {{1}, {1, 3}},
        k \in {"limit", "margin", "intraday"}, e \in RowPairs,
        p \in {"repair_or_fail", "drop_with_quality"}}

\* A repair of a security the raw table lacks, or has under another number.
RepairJobs ==
    {[Plain EXCEPT !.security = {Security(1, 1, 1, 1, None)},
                   !.repair = {[from |-> 1, to |-> None, name |-> 1] @@ Security(n, m, 2, l, None)},
                   !.symbols = {[sid |-> n, symbol |-> m, exchange |-> 1, from |-> 1, to |-> None]},
                   !.changes = {[id |-> 1, sid |-> n, name |-> 1, from |-> 1, to |-> e,
                                 updated |-> 1]}] :
        n \in {1, 2}, m \in {1, 2}, l \in {1, 2}, e \in {None, 2}}

\* Changes of the share capital, announced before or after they take effect.
CapitalJobs ==
    {[Plain EXCEPT !.capital = {[id |-> n, party |-> 1, day |-> d[n], pub |-> p[n], shares |-> n] :
                                   n \in 1 .. 2},
                   !.free = {[id |-> 1, party |-> 1, day |-> 2, shares |-> 1]},
                   !.dividends = {[id |-> 1, sid |-> 1, cash |-> 1, ratio |-> 1, ex |-> 4,
                                   announced |-> p[1], record |-> 2, pay |-> 5, listed |-> 5]},
                   !.splits = {[id |-> 1, sid |-> 1, ratio |-> 50, base |-> 4, resumed |-> p[2],
                                announced |-> 2]},
                   !.allotments = {[id |-> n, sid |-> 1, allotted |-> n = 1, ratio |-> 1,
                                    price |-> p[2], ex |-> d[1], announced |-> 2, record |-> 2,
                                    begin |-> 5] : n \in 1 .. 2}] :
        d \in [1 .. 2 -> 1 .. 4], p \in [1 .. 2 -> {None, 1, 5}]}

Job ==
    CASE topic = "market" -> MarketJobs
      [] topic = "factor" -> FactorJobs
      [] topic = "state" -> StateJobs
      [] topic = "type" -> TypeJobs
      [] topic = "alias" -> AliasJobs
      [] topic = "repair" -> RepairJobs
      [] topic = "capital" -> CapitalJobs
      [] OTHER -> {Plain}

MCInit ==
    /\ topic \in Topics
    /\ raw \in Job
    /\ Init /\ TablesInit
    /\ topic # "job" => policy = CHOOSE p \in Policies : TRUE
MCNext ==
    /\ \/ topic = "job" /\ Next /\ UNCHANGED tablesVars
       \/ topic # "job" /\ TablesNext /\ UNCHANGED vars
    /\ UNCHANGED topic

\* In the other topics no controller runs.
MCSpec == MCInit /\ [][MCNext]_MCVars /\ Fairness
=============================================================================
