# Specifications of ZyQuant

TLA+ models of the parts of ZyQuant whose correctness is a matter of *order* and
*bookkeeping* rather than of numerical formulas, the TLC runs that check them,
and TLAPS proofs of what matters most. Paths below are relative to the
repository; `engine.py` without a directory is `src/zyquant/backtest/engine.py`.

## 1. The system

ZyQuant is a quantitative-research framework: connectors build an immutable data
*snapshot*, factors are computed from it into an on-disk cache, strategies turn
factors into target portfolios, the backtest trades them day by day, and
workflows record runs and search parameters.

| Component | State it keeps | Operations | Talks to | What is hard | What makes it correct |
|---|---|---|---|---|---|
| **Backtest ledger** `backtest/engine.py`, `types.py`, `ledger.py` | sleeves and master (cash, receivables, lots), pending targets, entitlements, valuation marks, frozen codes | `run`: corporate actions, decisions, batch of targets, close, delistings, daily record | strategies (targets), market executor (fills), netting | about fifteen kinds of step in a fixed daily order, several strategies through one account, two representations of every amount | master = Σ sleeves after every step; nobody overdrawn or oversold; dividends owed exactly between ex and pay; delisted stays frozen; the run ends |
| **Sleeve netting and allocation** `portfolio/sleeve.py` | none (pure) | `net_sleeve_demands`, `allocate_fill_demands`, `cost_demand_allocations` | ledger | rounding to lots, remainders, order of items | no share or cent lost; one-sided market orders; nobody gets more than it asked |
| **Market executor, cost model** `backtest/market.py` | none per order | `execute` | ledger | price limits, volume capacity | the fill is a number of lots, the price off by the slippage |
| **Factor engine and cache** `factors/engine.py`, `workflow.py` | a directory of data, metadata, temporary and lock files shared by processes | `compute`, `load_view`, purge | snapshot, strategies, workflows | several processes, crashes, stale locks, two-file publication, purge under readers | an entry that looks valid is valid; one producer per key; nobody waits for ever |
| **Hermes acquisition** `connectors/hermes/acquisition.py` | SQLite job and chunk rows, partial and final files | run, resume, verify, fetch with a thread pool | remote database, canonicalizer | crash between row and file, lost and damaged files, retries | what is marked acquired has every chunk, whole |
| **Hermes normalisation and publication** `connectors/hermes/normalize.py` | canonical tables and their marks, staging directory | about thirty table builders, publish | acquisition, publisher | aliases and repairs, halts without prices, carries across months, interrupted rewrites under a mark | tables agree with each other and with the raw rows; nothing is filled from the future; what is published is one canonicalization |
| **JQData connector** `connectors/jqdata.py` | none but the tables being built | `ingest`: a series of remote calls | JQData service, publisher | calls fail or time out, tables grow between pages, daily lists become intervals | intervals give the lists back; no row or instrument is missed |
| SQL, directory connectors | files | read tables | publisher | – | – |
| **Snapshot publisher and reader** `data/publisher.py`, `snapshot.py` | staging and final directories, manifest | publish, open, as-of queries | everything | crash before the rename, two publishers, two query paths | a published name never changes; reads as of a day see nothing later |
| **Data contracts, validation, adjustment, financials** `data/*.py` | none | validate, adjust, build reports, facts, metrics | publisher | revisions, comparatives, restatements, trailing sums, ambiguous intervals | what is built is accepted by the validator and adds up |
| **Run workflow, experiment store** `workflow.py`, `experiment/store.py` | run rows, result directories, artifacts | `run_backtest`, start/finish run, log artifact | ledger, snapshot | two processes with one fingerprint, crash between rename and row | a succeeded run has its directory; the result is that of the request |
| **Parameter search** `optimize/search.py` | trial rows, process pool | run, retry, reuse, interrupt | run workflow | pool failure, interruption, reuse of another search's trial | every trial accounted for; a success is kept; the search ends |
| **Portfolio constructors and constraints** `portfolio/constructors.py`, `constraints.py` | what a constructor selected last time | scores to weights to admissible weights | strategies | caps, redistribution, turnover interpolation, fall-backs | every target keeps the hard rules; budget is placed |
| **Strategy interface and pipeline** `strategy/*.py` | strategy state, previous target, queue of scheduled targets | decide | ledger, factors | policies when a step has nothing, cohorts with legs days ahead | no cohort is half entered or stranded |
| **ML pipeline and example strategy** `ml/pipeline.py`, `strategies/ml_ema20_momentum_v1` | model registry, staged models, prediction files, book of cohorts | sample, split, train, register, publish, signal | workflow, strategy | labels that reach ahead, suspensions, crash between publications | no model learns from what it is judged on |
| Factor library, analysis, CLI, configuration, plug-ins, benchmarks | none that outlives a call | – | – | numerical code, wiring | – |

The components are composed in the program by files and tables rather than by calls:
a connector (JQDataPull, or HermesJob with HermesMaster and HermesTables) delivers
tables, SnapshotStore checks and publishes them, PointInTime reads them, a strategy
(StrategyPipeline, Cohorts, fed by ModelTraining) turns them into targets, SleeveLedger
trades those, RunArchive and TrialSearch record the outcome. The modules meet at
these interfaces: what one is free to produce is what the next is free to receive.

`PROJECT.json` has the same list with the status of each part, and the hazards:
what in this code is hard to test, at the line where it bites.

## 2. Modules

```
LedgerMath ── Netting ──┬── NettingLoop ── MCStrategies     the loops compute the closed forms
                        └── SleeveLedger ── MCLedger        the daily ledger
LedgerMath ── BrokerAccount ─ ─ implemented by SleeveLedger (SleeveLedgerProofs)
FactorCache ── MCFactorCache ── MCSnapshots                 the shared cache
HermesJob ──────────────────────┬── MCHermes                acquisition, marks, publication
HermesMaster ── HermesTables ───┘                           what the canonical tables hold
Financials ── PointInTime ──┬── SnapshotStore ──┬── MCSnapshots
WriteOnce  ─ ─ implemented by ┘ (SnapshotProofs)│           data set from delivery to reader
                            └── JQDataPull ─────┘           the pull of a data set
ExperimentStore ──┬── RunArchive ──┬── Experiments ── MCArchive
                  └── TrialSearch ─┘                        runs, searches, their database
Orders ──┬── Constraints ── StrategyPipeline ──┐
         └── ModelTraining ────────────────────┼── MCStrategies   what decides what is traded
Cohorts ───────────────────────────────────────┘

Netting ── NettingProofs ──┬── NettingLoopProofs (NettingLoop)
                           └── SleeveLedgerProofs (SleeveLedger)
SnapshotStore, JQDataPull ── SnapshotProofs
HermesJob, HermesTables ── HermesProofs
FactorCache ── FactorCacheProofs
Experiments ── ArchiveProofs
StrategyPipeline, Cohorts, ModelTraining ── StrategyProofs
```

* **LedgerMath** – sums, flooring to a lot, Python's `round` (half to even).
  `Sum` is defined by counting pairs instead of recursively, so that theorems
  about it need no induction.
* **Netting** – what the three functions of `portfolio/sleeve.py` return, as
  closed forms: the shares of seller *a* that cross to buyer *b* are the overlap
  of their intervals when both sides are laid end to end (`CrossQuantity`); the
  residual is what the other side's total does not reach (`Residual`);
  `Allocation` floors everybody's share of a fill and gives the left-over lots
  away in the code's order; `CostShare` leaves the last owner what rounding left.
* **NettingLoop** – the same functions as the code runs them: the two-pointer
  loop and the remainder loop, one iteration per step, and the claims that they
  end with the closed forms.
* **SleeveLedger** – `BacktestEngine.run`. `pc` is the part of the day that comes
  next; a step is one item of one of the code's loops.
* **BrokerAccount** – the abstract specification of the ledger: one cash account at a
  broker, which knows no strategies, targets, netting or crosses. `OneAccount` is that
  `SleeveLedger` implements it.
* **FactorCache** – `FactorEngine.compute` run by several processes.
* **HermesJob** – the life of a Hermes job across launches, kills and lost files,
  from the chunk rows to the renamed data set.
* **HermesMaster** – the reference tables as operators on the raw rows: securities
  and their repairs, aliases, names, special-treatment windows, universe,
  industries, capital, corporate actions, extension tables.
* **HermesTables** – `HermesCanonicalizer.run`: the builders in order, the market
  tables month by month with last close and factor carried on.
* **Financials, PointInTime** – reports, facts and metrics from statements; as-of
  reads by both query paths, validity intervals, adjustment factors.
* **SnapshotStore** – `SnapshotPublisher.publish` by several processes, composed of
  the two above. **WriteOnce** is the abstract store it implements.
* **JQDataPull** – `JQDataAdapter.ingest` call by call, against a service that
  refuses, times out and adds rows.
* **ExperimentStore** – the methods of the experiment database, each one
  transaction; **RunArchive** and **TrialSearch** are its users, and **Experiments**
  puts the two on one database.
* **Orders** – `sorted` of a set without a sort: the nth is the member with n - 1 before it.
* **Constraints** – `ConstraintEngine.apply`; **StrategyPipeline** – universe,
  signals, constructors, constraints, policies, over several decisions with a
  market that may fill in part.
* **Cohorts** – scheduled targets: the queue and the two strategies that use it.
* **ModelTraining** – samples, splits, registration, publication, use of a model.
* **MC…** – the instances of the runs; MCSnapshots, MCStrategies and MCHermes compose
  components that share no state as alternatives of one run, so that each is checked as
  if by itself.
* **…Proofs** – sections 6 and 7.

### How SleeveLedger corresponds to the code

| State | Code |
|---|---|
| `cash`, `receivable`, `shares`, `locked` by account | `SleeveAccount` and the master (account 0); `locked` is the part of the lots whose sellable date is not reached |
| `due` | the day's entries of `_index_actions`: `2e - 1` the ex entry of event *e*, `2e` its pay entry |
| `pending` | `pending[day]` |
| `entitled`, `mark`, `frozen` | `entitlements`, `valuation_marks`, `_delisted_codes` |
| `money`, `residual`, `queue`, `crosses` | the locals of `_execute_targets` and `_apply_internal_crosses` |
| `outcome` | which `BacktestError` ended the run |

| Stage | Actions | Code |
|---|---|---|
| actions | `AccrueDividend`, `PayDividend`, `AdjustShares`, `ActionsDone` | `_process_actions_before` |
| decide | `Decide` | `_generate_decisions`; a strategy's decision is any target of the set, or none |
| trade, demand | `NoBatch`, `PlanSells`, `PlanBuys`, `NetDemands` | `_execute_targets` |
| sell, buy | `ExecuteSell`, `ExecuteBuy`, `SellsDone`, `BuysDone` | `_execute_order` |
| cross, settle | `DropCrosses`, `AcceptCrosses`, `SettleCross`, `CrossesDone` | `_apply_internal_crosses` |
| close, delist | `MarkToMarket`, `Delist`, `DelistingsDone` | close of `run`, `_record_entitlements`, `_process_delistings` |
| record | `RecordDay` | `_record_daily`, next day |

Where the model differs in form, and why that loses nothing:

* *Money* is an integer number of a unit, rates are divisors, and the tolerances
  of 1e-6 to 1e-9 that floats need disappear. Prices and rates of a run are
  chosen so that fees proportional to the amount are whole for every quantity;
  what then has to be rounded is a shared minimum commission, whose last owner
  takes the rest. (With a coarser unit the rest of a proportional fee could
  exceed the estimate of `Affordable`, which it cannot in the code.) The proofs
  do not depend on this.
  Recovery per share of a delisting is rounded down to the unit.
* *Fills* are free: any multiple of the order's lot up to the order, at a price
  off the reference by any member of `Slippage`. The price and capacity formulas
  of `market.py` only choose among these.
* *Crosses* are settled one at a time; the code removes all shares, moves all
  cash, then adds all lots. The settlements commute, and `SleevesSolvent` is
  asserted outside the stage only.
* *Buys* are planned instrument by instrument for all strategies, the code goes
  strategy by strategy; strategies share nothing while they plan.
* `MasterAccount.reconcile` is not a guard: its equations are the invariants
  `PositionsReconcile`, `CashReconcile` and `ReceivablesReconcile`, checked after
  every step and not only where the code calls it.
* *Aborting* leaves the books as they were before the step: the code may have
  changed some of them, but a run that raises returns no result.
* *Settlement delay* is T+0 or T+1, all the connectors produce. The sellable date
  is clamped to the last calendar day, so nothing is locked on that day (`Locking`).
* One target per strategy and day. Cohorts and scheduled targets are in `Cohorts`.

How `SleeveLedger` maps to `BrokerAccount`: cash, dividends owed, entitlements and holdings
are the sums over the sleeves, not the master's own books, so that the mapping says
something about both; what cannot be sold yet (`fresh`) is the master's `locked`. An entry
of `due` maps to the pair of its event and kind, the stages to the "day" up to its close, the
"night" after it, and "halted"; an instrument is `open` until its order of the day has been
executed or is known not to come. Planning, netting, demands and crosses are stutters, an
abort is `Halt`. The abstract account leaves one thing open: an adjustment may differ
from the exact ratio by half a share for every owner, because the sleeves' parts are rounded
one by one.

### How FactorCache corresponds to the code

`files` holds the data, metadata and temporary files that exist; `torn` those
whose content is not whole – the last process to truncate them has not finished –
or, for metadata, whose hash was taken of such data; `out` the file each process
is writing, wherever a rename has put it since; `lock` the lock files. A process
goes through `exact`, `scan`, `verify`/`load`, `lock` (and `break`, `reread`),
`compute`, `write`, `sign`, `publish_data`, `publish_meta`, `purge`, `unlock`.

* Every call of the operating system that another process can see is a step of
  its own: existence check, hashing, reading, lock creation, stat of a stale lock
  and its unlink, truncation, end of writing, each rename, each unlink.
  Searching the directory for a broader entry is one step with a free choice.
* The content of an entry is a function of its key (the code, the snapshot and
  the interval are in it), so two producers of a key write the same bytes.
* `lock_timeout` is not a number: a lock may be found stale when its creator is dead, or
  still at work and one of `Slow`, whose work may outlast the timeout; a waiter may reach
  its own deadline at any time.
* The process-local memory of verified hashes is left out: it only saves
  hashing a file of unchanged size and time.
* One snapshot, cutoff and universe, and one set of parameters per factor: other
  values have other keys or definitions and never meet, except in a listing that
  skips them. Legacy metadata (schema 1.0) and `load_view` are not modelled.

### How the Hermes modules correspond to the code

`HermesJob`: `job` and `row` are the two SQLite tables, `files` the chunk files, `canon`,
`meta` and `success` the canonical tables, their manifest and `_SUCCESS`, `pub` and
`published` the publisher's staging directory and the renamed one. `stage` is the
controller's position, `worker` that of the thread of a chunk.

| Actions | Code |
|---|---|
| `Launch` `Refuse` `Initialize` `AddChunks` `PrepareResume` `Begin` | `acquisition.py`: opening of the state database, plan, `prepare_resume`, start of `run` |
| `Start` `Place` `Succeed` `Retry` `Fail` | one thread of the pool: claim, extract and rename, row, transient error, last error |
| `Acquired` `AcquisitionFails` | end of the pool |
| `Normalize` `Unmark` `WriteTable` `WriteManifest` `Mark` `Normalized` `NormalizationFails` | `normalize.py` `HermesCanonicalizer.run`, and what its caller records |
| `Publish` `LinkTable` `HashTable` `Commit` `PublishFails` | the Hermes publisher |
| `Crash` `Lose` | environment |

A launch is free to `run` or `resume` the first time; later ones resume
(`Restarts = {"resume"}`), because a plain run after a kill takes no notice of chunks left
running (section 3, "Seen while modelling"). A publisher does not overlap a controller
(`Overlap = FALSE`): nothing in the code keeps them apart, no document promises it.

`HermesMaster` and `HermesTables`: `raw` is the job's files as sets of records, the other
variables are what the builders pass on, `builder` is the next of them. One action per phase of `run`; a month of the
market is one action because the code builds a month in memory and replaces its file.
Row fields that decide identity, order, visibility or membership are kept; a price is
`close` and `pre`, which stand for the five; of a valuation the shares it is joined with. A
string that is sorted is a number. Events are those of dividends, splits and allotments.

### How the snapshot modules correspond to the code

| State | Code |
|---|---|
| `published` | directories with a manifest; since a dataset is a function of what was delivered, the delivery itself is kept |
| `ppc`, `target`, `delivery`, `written` | locals of `publish`; its staging directory |
| `service`, `order` | JQData's data and the request |
| `stage`, `retried`, `today`, `queries`, `cursor` | position in `ingest`, the attempt, the day and page |
| `spans` | `open_intervals`, `current` |
| `members`, `industries`, `catalog`, `bars`, `fetched` | the tables being built |

`Begin` is the existence check, `Accept`/`Reject` the build and validation, `Write`,
`Sign`, `Rename`, `Abort` the rest of `publish`; `KillPublisher` a kill. A validator rule is
one conjunct of `Accepted`, in the validator's words and not the builder's. `Typed` is what
the data contract says of a delivery before any rule looks at it: row types, unique
identifiers of statements, the bars of an instrument sorted by day (`contracts.py` and the
connectors' sorting).

`JQDataPull` has one action per remote call: `Connect`, `ReadCalendar`, `ListMembers` (a
day), `ReadCatalog`, `LookUp` (a day), `ReadPrices` (a batch), `ReadPage`, `ReadHistory`,
`ReadIndustries` (a day), `Finish`; `CatalogDone`, `PricesDone`, `ActionsDone` and
`FinancialsDone` are the checks between them. `CallFails` ends the pull, `HistoryFails` only
changes the way; `TimeOut` uses up a retry, of the calls that get any: the errors of the
finance tables, of valuations and of authentication arrive as `DataContractError`, which
`_call` does not retry.

Simplifications: the request begins and ends on trade days; one flag stands for the two
`strict_permissions` and one number for the two batch sizes; two calls to the catalog for
two asset types are one; days and codes are numbers.

### How the archive modules correspond to the code

`ExperimentStore`'s `runs`, `metrics`, `artifacts` and `trials` are the tables, one operator
per method. `RunArchive` follows `WorkflowRunner.run_backtest`: `Call` (reads the row),
`Reuse`, `Start`, `Simulate`, `Compare`, `Replace` (`os.replace`), `Finish`, `Log` (one
artifact, if its file has not gone since it was listed), `Return`, `Fail`; `dir` holds, for a run, the request whose result is there.
`TrialSearch` follows `SearchEngine.run`: `List`, `Execute`, `Submit`, `Collect`, `GiveUp`,
`Retry`, `RetryBroken`, `Gather`, `Record`, `Conclude`, `Leave`; environment: `Interrupt`
(whose two transactions are two steps, `RecordInterrupt` the second), `LoseWorker`, `KillController`, `Kill`, `RemoveRun`. An objective is a function of the trial's
key (the key hashes everything it depends on); of equals the best is the first, as `max`
has it.

### How the strategy modules correspond to the code

`Constraints` is one operator per step of `ConstraintEngine.apply`, `Constrained` their
composition. The passes of the redistribution and the turns of a pass are recursive
functions; the largest holdings are those with fewer than the limit before them. Weights are whole parts of `Unit` = 5040 and divisions round down, so sums that
are equal in floats differ by at most `Slack`. `StrategyPipeline` has two actions: `Decide`
(universe, signals, constructor, constraints, policy, state – the whole of
`PipelineStrategy.decide`) and `Execute` (the market). `Cohorts`: `DecideCohorts`,
`ExecuteEntries`, `ExecuteExits`, `NextSession`, in the order of the engine's day at each of
the three timings. `ModelTraining`: `Train`, `Register` or `Stage`/`PublishModels`/`PublishPredictions`,
`TrainingEnds`, `TrainingFails`, `KillTrainer`, `TakeSignal`; the cutoff of a signal follows
from the execution timing (`Cutoff`, engine.py:412), and `InBook` looks at it no more than
the example strategy's book does.

## 3. What the runs check

| Run | Instance | Properties | Distinct states |
|---|---|---|---|
| `crossing` | three strategies with 34, 24 and 16 in cash, one T+1 instrument at 8, weights 0, ½, 1, three days at the next open, commission a quarter with a minimum of 5, taxes an eighth | `TypeOK`, `PositionsReconcile`, `NoBookingFailure` | 120 022 |
| `lifecycle` | two strategies, five days with `same_close`; a dividend and a bonus that go to the holdings of day 2 and take effect on day 4, a merge over night 3, delistings on days 4 and 5 settled at half the last close, lots of one and of two, T+0 and T+1 | `CashReconcile`, `HoldingsPriced`, `SleevesSolvent`, `ReceivablesReconcile`, `FrozenStaysFrozen`, `OneAccount`, `Termination` | 32 108 |
| `hermes` | a job of two chunks, two tables, two workers, two attempts, two policies, with three launches, two kills, one file lost or damaged. Or every job of seven families on five days in two months: halts × missing prices × bands × listings; factors; special-treatment events; industry trees with cycles; aliases × extensions × policies; repairs; capital changes, free float and allotments | `AcquiredIsComplete`, `PublishedIsSound`, `LaunchEnds`, `MembersAccounted`, `FillsAreCausal`, `FactorsCarried`, `WindowsPartition`, `ExtensionsSound` | 376 876 |
| `archive` | two processes, three calls, two fingerprints, directories removed; or a controller with three searches of two trials that share one, one search in a pool, one retry | `SucceededIsPublished`, `TrialsAccounted`, `SuccessesKept`, `SearchesEnd` | 399 273 |
| `snapshots` | every small delivery of four kinds: five quarters with one more report of any kind, day and item; vendor metrics; three bars with up to two of six actions and a vendor's factors; up to three intervals. Two publishers and one name. Or a pull from JQData: every index on three days, every industry history of two changes, four kinds of finance tables that grow by up to two rows, one retry. Or the factor cache: two processes of new code ask for overlapping intervals of a factor and its dependency, a `require` reader of old code for its old entry; one process may be killed anywhere | `NoLookAhead`, `PanelsAgree`, `BuiltIsValid`, `TrailingYearsAddUp`, `MembershipReadsBack`, `PullComplete`, `PublishedForGood`, `PublishedIntact`, `RequestsEnd` | 144 577 |
| `strategies` | the loops of `sleeve.py` on every demand of three strategies of up to four shares a side, lots of two, every fill. Or six constructors × five rule sets, two decisions on three days. Or two cohort strategies × three timings, five sessions, two codes. Or four training plans on nine sessions in three years, two instruments with a late listing or a suspension, three timings | `NetsAsSpecified`, `AllocatesAsSpecified`, `TargetsKeepRules`, `BudgetPlaced`, `CohortsComplete`, `NothingStranded`, `NoLeakage` | 176 276 |
| `stuck_cross` | three strategies, a small sale on a day with a cross | violates `Termination` | |
| `sold_before_ex` | `lifecycle` | violates `EntitlementsHonoured` | |
| `stale_lock` | three processes that want one entry, one kill | violates `OneProducer` | |
| `reused_run` | two calls that differ in the initial cash | violates `ReturnedAnswersRequest` | |
| `same_close_signal` | the training plans of `strategies` | violates `SignalsByCutoff` | |
| `equal_weights` | top-k of two or three without any rule that binds | violates `AdmissibleUnchanged` | |

Why the bounds are enough. *Ledger*: three strategies are the fewest for which one seller
meets two buyers, a left-over lot has a choice of owner, and the last owner of a
cost is not the only other one. Unequal cash makes some crosses unaffordable;
the minimum commission exceeds a small fill's proportional one, so splitting it
and estimating it differ. Three days cover buying, the T+1 lock, and selling on
the day after; five cover record, ex and pay days with trades between them and a disposal
on each of the last two. Two instruments let one be traded while the other is frozen, and
let the proceeds of one fund the other. *Cache*: two processes contend for a key
while a third reads what they purge; one request each is enough for every
action to be taken, and two overlapping intervals give the broader hits. Of two producers one
crash leaves a single waiter on the dead lock, the only situation in which its takeover is
sound: `PublishedIntact` passes in this instance and has to be read with that restriction
(`stale_lock` below).
*Hermes*: two chunks on two workers are the fewest for a job that is half done; three
launches allow a kill during the repair of an earlier kill; two tables allow a mark over one
of each launch. Five days in two months, one of them without trade, give carries across a
month, halts over its end and listings inside it; three securities an alias of an alias.
*Archive*: two processes on one fingerprint, a third call to reuse; two searches that share
a trial, in both orders, and a third launch to go on from either. *Snapshots*: five quarters
are the fewest with a trailing year across a year's end, one missing quarter and one extra
report at a time the fewest for each rule of revision and restatement. A page of three rows
and four rows in a table are the fewest with a full page, a page after it, and a row added
in between. *Strategies*: three codes in two industries and two asset types, where each cap
can bind alone; two decisions for state and previous target; five sessions for two cohorts
of the longest exit to overlap; nine sessions for three folds or three years.

Every bound is a constant of the .cfg; those that only limit a module are marked BOUND.
`hermes`, `archive`, `snapshots`, `strategies` and the violations that share their modules run
with deadlock checking off, because their systems come to rest; the ledger's never do without
having finished.

### What the violations show

* `stuck_cross` – the loop that rejects unaffordable crosses (engine.py:905) removes those
  whose *buyer* would be negative. When the negative sleeve buys nothing, nothing is
  removed and the loop never ends. docs/architecture.md:286 says that a rejection is
  recorded and the run goes on.
* `sold_before_ex` – where a day of trade lies between record day and ex day, a strategy can
  sell what it has been registered for, and the bonus finds fewer shares than it adjusts: the
  backtest aborts (engine.py:1394). docs/architecture.md:988 counts bonus shares, splits and
  merges among what is supported. In the trace a sleeve sells everything by a cross on day 3.
* `stale_lock` – `_acquire` unlinks whatever lock file has the name (factors/engine.py:622). Two
  waiters find the lock of a killed process stale; the first removes it and takes the lock, the
  second removes that one, and both compute. docs/architecture.md:503 promises one producer and a
  safe takeover. Two processes are enough where one of them is `Slow` and nobody is killed,
  because nothing refreshes the time of a lock at work. `PublishedIntact` breaks in both
  instances as well: the two write one temporary file, and one renames it while the other
  is still writing.
* `reused_run` – the fingerprint a run is found by leaves out the initial cash, the
  parameters of the capital allocator and the specification of a built-in pipeline; a call
  that differs there is answered with the archived result of another (workflow.py:284,
  engine.py:519-557).
* `same_close_signal` – with `same_close` the cutoff of a decision is the day before, so that
  nothing is used that the close of the day decides (docs/architecture.md:625). The example
  strategy takes the predictions of the signal's day all the same, whose features are of that
  day: its `PredictionBook` knows no cutoff (strategy.py:160, prediction.py:85), unlike
  `PredictionSignalGenerator` of the pipeline.
* `equal_weights` – `_redistribute_with_caps` takes each share of a pass from what is left in
  the pass but divides by the total at its start (constraints.py:206): two equal
  candidates come back as ⅔ and ⅓, with no change recorded.

### Seen while modelling, without a run

Ledger and strategies:

* A liquidation may sell single shares for less than the minimum commission; the sleeve's
  cash goes negative and the assertion at engine.py:1532 aborts the run.
* With `same_close` and `carry_last_mark` a strategy that holds a delisted instrument cannot
  be valued at the previous day's bars, which have no entry for it (engine.py:413, 1300).
  `HoldingsPriced` is therefore checked with cash settlement.
* Two targets of one cohort due at one phase make a duplicate demand and abort
  (engine.py:1033); two demands of one strategy in one order would each be checked against
  its whole cash (engine.py:1049, 1094); the sellable date is clamped to the last day
  (engine.py:1335); a pay date before the ex date is indexed as it is (engine.py:230).
* `TopKDropout`'s fill loop undoes `max_replacements` when fewer are kept
  (constructors.py:45); a constructor's state advances also when a policy replaces its
  target; interpolation towards a turnover limit drops holdings that are not eligible
  (constraints.py:143); the passes of the redistribution can run out with budget left;
  "skip" issues the previous target again.
* The example strategy's predictions exist only for rows whose future label is valid
  (train_xgb_walkforward.py:133); a crash between the publication of models and of
  predictions blocks the next training (train_xgb_walkforward.py:244).

Cache:

* A factor's identity holds its dependencies' cache keys and these hold intervals: publishing a
  second interval purges the first as if it were old code's (factors/engine.py:362, 484).
* A process that takes the lock after another has published computes again, harmlessly; the
  search for a broader entry can pick temporary metadata and fail when it is renamed.

Connectors:

* A plain run after a kill leaves chunks that were running as they are, passes them over and
  can mark the job acquired (acquisition.py:889-903). Two controllers of one live job write
  the same partial files (acquisition.py:420).
* A source row revised after the job's watermark is in no chunk read later
  (acquisition.py:723); the security master is not filtered by the watermark.
* A split without `RE_TRADE_DATE` gets its base date for ex day and record day (normalize.py:1391).
  The backtest books an ex entry before the open and registers holdings at the close
  (engine.py:403, 467), so that such a split is never applied.
* A factor before the first vendor value of its month is the first value, of a later day
  (normalize.py:1864).
* Valuations join share capital by its effective date and are visible on the trade date:
  capital announced later is seen early (normalize.py:1918-2044).
* In the JQData adapter `max_retries` does not reach the finance queries, whose errors are
  wrapped (jqdata.py:529, 753); fund dividends are matched by the bare symbol, so that a fund
  and a stock with one symbol collide (jqdata.py:1521); an instrument asked for by name that
  was listed and delisted strictly inside the request is reported missing (jqdata.py:815).

Data and archive:

* `list_snapshots` lists the staging directory of a killed publisher (publisher.py:278); an
  action on an ex date without a bar is skipped (adjustment.py:199).
* A crash between `finish_run` and the last artifact leaves a succeeded run that is never
  completed (workflow.py:385); the loser of two processes with one fingerprint marks the
  succeeded run failed (workflow.py:379-401). `SucceededIsPublished` allows both.
* `INSERT OR REPLACE` gives the row of a shared trial to the last search (store.py:240); a
  broken pool leaves trials "running" (search.py:280); a second training of a rolling model
  turns the succeeded record to failed (ml/pipeline.py:263, workflow.py:180).

## 4. Fairness

`SleeveLedger!FairSpec` is weak fairness of the whole next-state relation: a
sequential program that waits for nothing always takes its next step. What is
not fair is any *choice*: targets, fills and slippage are free. `FactorCache!Fairness`, which
the run `snapshots` assumes, is weak fairness of each live process separately: the operating
system runs them all. Crashes, new requests and the deadline of a wait are not fair, so
`RequestsEnd` does not lean on the timeout; a process that waits on a live lock holder is
simply not enabled.
`HermesJob!Fairness`, of the run `hermes`, is weak fairness of the controller alone: once
launched it goes on until it ends or is killed; nobody has to launch, lose a file or publish.
A retry is a choice the attempts bound. `MCArchive!MCFairSpec` is weak fairness of each search
controller's own work; interrupts, lost workers, kills and new searches are not promised. An
alternative that a composed run has not chosen is never enabled, so that fairness asks nothing
of it.
The other specifications state no fairness and no liveness.

## 5. Properties in words

*Ledger.* `PositionsReconcile`, `CashReconcile`, `ReceivablesReconcile`: two sets of
books, kept by different code paths (the master's share of a split is the sum of
the rounded parts, its cost the unsplit one), never drift apart. `NoBookingFailure`:
what is planned before any fill is known can be booked whatever the fills.
`SleevesSolvent`: neither crosses nor market orders overdraw a sleeve.
`EntitlementsHonoured` (violated): no trade between record and ex day makes an adjustment
impossible. `HoldingsPriced`: no decision or batch meets a holding without a value.
`FrozenStaysFrozen`: what a step may never do. `OneAccount`: whatever the strategies plan, net
and cross, all of them together are one account at the broker – one order a day in an
instrument, at the costs of the whole and filled within what the account holds or can pay,
dividends on what was held on the record day, and nothing else that moves cash or shares
(docs/architecture.md:798: the market sees a single master account). `Termination`.

*Netting loops.* `NetsAsSpecified`, `AllocatesAsSpecified`: the loops end with the closed
forms the ledger uses.

*Cache.* `OneProducer` (violated): an entry has one producer. `PublishedIntact`: what looks valid is
whole. `RequestsEnd`: whatever dies, who lives gets an answer.

*Hermes.* `AcquiredIsComplete`: from acquired on, every chunk is there and whole.
`PublishedIsSound`: a published data set is one canonicalization of the whole job, and its
hashes are its files'. `LaunchEnds`. `MembersAccounted`: a member has a bar or a
quarantine row on every open day, never both. `FillsAreCausal`: no filled price comes from
later. `FactorsCarried`: a factor is the vendor's last one, across months.
`WindowsPartition`: special-treatment windows do not overlap, and leave no gap.
`ExtensionsSound`: no extension row is visible before its last revision, duplicated or
lost.

*Snapshots.* `PublishedForGood`: the refinement of `WriteOnce`. `NoLookAhead`: what is read as
of a day is what would be read had nothing later existed. `PanelsAgree`: both query paths
agree. `BuiltIsValid`: the validator accepts what the processor builds.
`TrailingYearsAddUp`: trailing sums are those of the reports. `MembershipReadsBack`: the
intervals made of daily lists, or of a history, give every day's list back and do not
overlap. `PullComplete`: every row that was there when its query began is read, bars come
for all that is priced, and no member is missing from the catalog.

*Archive.* `SucceededIsPublished`, `ReturnedAnswersRequest` (violated), `TrialsAccounted`,
`SuccessesKept`, `SearchesEnd`, as stated beside them.

*Strategies.* `TargetsKeepRules`: every target the constraints return keeps the hard rules and
the turnover limit, or says that it does not; a fall-back (the previous target again, or none)
is not one of them. `BudgetPlaced`: cash is left only where every wanted code is at a
cap. `AdmissibleUnchanged` (violated): what meets all rules comes back. `CohortsComplete`,
`NothingStranded`: legs of a cohort go together, and what is held has an exit on its way.
`NoLeakage`: no model learns from a price of the days it is validated on, or from after the cutoff
of a strategy that acts on it. `SignalsByCutoff` (violated): nor are the features of a
prediction from after that cutoff.

## 6. What is proved

Every theorem holds for every value of the constants that meets the named assumptions of
its module; where it needs more, the hypothesis stands in its statement.

| Theorem | Statement |
|---|---|
| **`SleeveLedger`** | |
| `TypeCorrect` | `Spec => []TypeOK`: in particular no account ever holds a negative quantity |
| `PositionsReconciled`, `CashReconciled`, `ReceivablesReconciled` | the three reconciliations |
| `LocksStayCovered` | what T+1 holds back is held, and whatever the sleeves may sell the master may sell |
| `MasterNeverOversold`, `SalesNeverRefused` | the aborts for want of shares, of the master, of a sleeve or of a cross, are unreachable |
| `MasterNeverOverdrawn` | where the sleeves stay solvent, the abort "master_overdrawn" is unreachable |
| `CrossesAreFree` | `Spec => CrossesKeepWorth`: a cross changes no sleeve's worth and nothing of the master (no run checks it: `OneAccount` has what it means for the whole) |
| `LedgerIsOneAccount` | `Spec => OneAccount`: the ledger implements `BrokerAccount` |
| `DelistedForGood` | `Spec => FrozenStaysFrozen` |
| `EstimatesHold` | the abort "sleeve_overdrawn" is unreachable, if `WholeFees` |
| `SleevesStaySolvent`, `BookingNeverFails` | `[]SleevesSolvent`, `[]NoBookingFailure`, if `WholeFees` and `SalesPayFees` |
| `HoldingsArePriced` | `[]HoldingsPriced`, if `BarsUntilDelisted` and `CarriedKeepBars` |
| **`Netting`, `NettingLoop`** | |
| `SumAdd` | the sum of two functions is the sum of their sums |
| `AllocationWithinDemand` | a fill is split into natural parts, each within its demand, together within the fill |
| `CostShareTotal` | cost shares add up to the cost |
| `CrossingConserves` | what is crossed of a demand and what is left of it add up to it |
| `WalkMeetsOverlaps`, `SharingMeetsRemainders` | `[]NetsAsSpecified`, `[]AllocatesAsSpecified`: the loops compute the closed forms, for any number of strategies, demands, lot and fill |
| **`FactorCache`** | |
| `OneProducerUnlessLiveLockBroken`, `PublishedIsIntact` | `[]OneProducer`, `[]PublishedIntact` of every behaviour in which only locks of dead processes are unlinked by a takeover, for any number of processes and crashes |
| **`HermesJob`** | |
| `AcquiredCompletely` | `[]AcquiredIsComplete`, if `ResumesOnly` |
| `PublishedSoundly` | `[]PublishedIsSound`, if `ResumesOnly` and `OneAtATime` |
| **`HermesTables`** | |
| `FillsComeFromThePast`, `FactorsAreCarried` | `[]FillsAreCausal`, `[]FactorsCarried`, if `JobFiles` |
| `MembersAreAccounted` | `[]MembersAccounted`, if `JobFiles` and `OneRowADay` |
| `WindowsArePartitioned` | `[]WindowsPartition`, if `JobFiles` and `StateLog` |
| `ExtensionsAreSound` | `[]ExtensionsSound`, if `ExtensionFiles` |
| **`Experiments`** | |
| `SuccessIsPublished` | `[]SucceededIsPublished` |
| `SearchesAccountForTrials`, `RecordedSuccessStays` | `[]TrialsAccounted` and `SuccessesKept`, if `OneController`, `NoTrialTwice` and `SameConstraints` |
| **`StrategyPipeline`** | |
| `RulesAreKept` | `PipelineSpec => []TargetsKeepRules`, for any signals, constructors, holdings and moves of prices |
| **`Cohorts`, `ModelTraining`** | |
| `CohortsStayComplete`, `NoneStranded` | `CohortsSpec => []CohortsComplete`, `CohortsSpec => []NothingStranded` |
| `NothingLeaks` | `TrainingSpec => []NoLeakage` |
| **`SnapshotStore`** | |
| `SnapshotsAreWrittenOnce` | `SnapshotSpec => PublishedForGood`: the store implements `WriteOnce` |
| `QueryPathsAgree`, `NothingReadAhead` | `[]PanelsAgree`, `[]NoLookAhead` |
| `ProcessorPassesValidator`, `TrailingYearsSum` | `[]BuiltIsValid`, `[]TrailingYearsAddUp` |
| **`JQDataPull`** | |
| `PullReadsAll` | `PullSpec => []PullComplete`: no row that was there is lost between pages, no bar between batches, no former member between lookups |
| `MembershipKept` | `PullSpec => []MembershipReadsBack`: the intervals say what the daily answers said |

`PipelineSpec`, `CohortsSpec`, `TrainingSpec`, `SnapshotSpec`, `PullSpec` and `TablesSpec` are the
specifications the runs `strategies`, `snapshots` and `hermes` take steps of.

### From which assumptions

* *Ledger*: sizes are positive, rates are in the ranges the configuration accepts, a target is
  weights or a list to sell off, an event is a dividend or an adjustment.
  `MasterNeverOverdrawn` takes `[]SleevesSolvent` as a hypothesis: it says that the master
  adds no failure of its own. `LedgerIsOneAccount` needs no hypothesis: a step that cannot be
  booked is an abort, which the account knows. Five hypotheses are about the data and the configuration, and
  the code checks none of them:
  * `WholeFees` – every price after slippage is positive and the fees on one share are whole.
    It is the unit of money the module is written in, with no rounding of its own.
  * `SalesPayFees` – a lot sold brings the minimum commission and its tax. Without it a sale
    can cost a sleeve more than it has; `stuck_cross` is such an instance, where a liquidation
    sells single shares.
  * `BarsUntilDelisted`, `CarriedKeepBars` – every day before the delisting day has its bars,
    and where delisted positions are carried, `same_close` has them afterwards too. Without
    them the code does end the run (section 3), as it means to.

  The run `crossing` satisfies all of them, `lifecycle` all but `WholeFees`. That an entitlement
  is still covered on its ex day is no theorem: `sold_before_ex` refutes it.
* *Cache*: no takeover unlinks the lock of a live process (`[][OnlyDeadLocksBroken]_vars`). It is an
  assumption about what happens and not about the constants, because no instance with two
  producers beside a third, or with a slow one, excludes it; what the theorems say is that this
  step is the only way to two producers or to torn data. `stale_lock` shows that the code takes it.
* *Hermes*: `ResumesOnly` – a plain run passes over chunks that were running; `OneAtATime` –
  a controller can rewrite the tables under a publisher. Both are restrictions of use that
  the code leaves to the operator (section 3).
* *Hermes tables*: what the raw files hold is not bounded, but it is what the queries of a job
  and the keys of the source allow. `JobFiles` – bars are of the request's days, a listing has
  a day, a delisting a day or a null; `OneRowADay` – one bar of a security and day, the
  source's key; `StateLog` – finitely many changes, each with a number of its own and a day;
  `ExtensionFiles` – finitely many rows with days and numbers, and in the limit events one
  symbol for a security: two, neither security known, would be reduced to one row by the
  source key and the other symbol's instrument lost. A null is not a number. The jobs of
  `hermes` satisfy them all.
* *Archive*: `OneController`, because two that list one trial write its row over each other;
  `NoTrialTwice`, because a grid over distinct values and the random sampler have none;
  `SameConstraints`, because a trial's key says nothing of the constraints it is judged by;
  `RunsAreNotSearches`, because a backtest's identifier is cut out of a hash. The run
  `archive` satisfies them all.
* *Strategies*: codes are finitely many, and `Slack` is at least half their number, which is what
  rounding one weight of each can add up to; the rules are in the ranges `PortfolioConstraints` accepts
  (`PipelineAssumption`, `RulesAccepted`). Sessions are positive and names can be counted; horizons are positive, the other
  parameters of a split natural numbers.
* *Snapshots*: deliveries are `Typed`; the sentinel of a missing value is not a number;
  trade days and periods can be counted.
* *Pull*: what is taken for granted of the service (`ServiceKnows`) – a member of an index is
  listed, the rows of a finance table are numbered from one, and the history of industries
  says what the daily answers say (`HistoryAgrees`). The code relies on them and checks no more
  than that ids are whole numbers that grow from page to page; the services of the run
  `snapshots` satisfy them.

### The arguments

**Ledger.** `TypeOK` is not inductive. That a sale leaves a non-negative quantity follows from
the check against the sellable quantity only if the locked quantity is itself
within the holding; that a settled cross does, only if all crosses still to be
settled together fit what their seller may sell; that a day's corporate action
may shrink a position, only if nothing is locked before the open. So
`TypeInv` is `TypeOK /\ LocksHeld /\ OpenUnlocked /\ CrossesCovered`. The
non-trivial steps are `ExecuteSell`, `ExecuteBuy` and `SettleCross`, each with a
lemma of its own.

The reconciliations need more: the master's entitlement must be the sum of the
sleeves' (`EntitlementsReconcile`, for accruals), a holder on the record day must
have an entitlement until it is overwritten (`EntitledAfterRecord`) and a
receivable only where there is an entitlement (`OwedWhereEntitled`), because the
accrual skips accounts without one; and `LocksCovered`, without which the
master could be refused a sale that every sleeve may make. `RecInv` joins them
with `TypeInv`. Each action has one lemma; the shared pattern – every account
moves by its part, the master by the total – is stated once for positions, cash
and locks (`PositionsInStep`, `CashInStep`, `LocksInStep`).

`SalesInv` adds that until they are executed the sales planned, the orders and the crosses of
a sleeve together fit what it may sell (`SalesPlanned`), which `CrossingConserves` carries
through the netting. `FrozenInv` relates the frozen codes to the batch: nothing of a
frozen instrument is planned, ordered or crossed, and under every policy but carrying nothing
of it is held.

`SolventInv` has three parts: only what has a price is in the batch (`PricedDemands`), the
crosses still to be settled leave every sleeve solvent *together* (`CrossesPaid`: settling one
takes as much off what is pending as it moves in cash, `SettleKeepsCash`), and the sleeves are
solvent. A sale is covered because a sleeve sells at least a lot (`AllocationInLots`) and
bears of the fees at most the minimum or its own rate (`CommissionShare`): a cost in
proportion to the shares is split exactly (`ExactShare`), and nobody bears more than all of it
(`ShareBelow`). For the same reason a buy costs no more than its estimate (`EstimateCovers`),
and the master, who pays the sum, is solvent with its sleeves. `ValuedInv`: what is held
overnight has a mark, and what has reached its delisting day is frozen. Sums carry these
proofs. `Sum(f, S)` counts the pairs ⟨x, k⟩ with 1 ≤ k ≤ f[x] (and
those of −f for the negative part), so finiteness and additivity follow from
cardinality theorems of the library.

That the ledger is one account is `BrokerInv`: `RecInv`, `FrozenInv` and `ValuedInv`, joined with
`OrderInv`, which says what makes the day's orders the account's: netting leaves one side of an
instrument (`OneSideLeft`), the loops visit only what has an order and each of it once, nothing
is bought from the delisting day on, and all entries of the day are booked before the first
trade. By `RecInv` the sleeves add up to the master, so that the check of an order against the
master is the account's, and its cost, which is the master's, is what the sums change by. The one
step with arithmetic of its own is the adjustment: parts rounded to half a share each add up to
within half a share per owner (`RoundedTogether`). Crosses keep every sum because what one
sleeve loses another gets.

**Netting loops.** `WalkInv`: after *x* units have been crossed, seller *a* has handed buyer *b*
the overlap of their intervals cut off at *x*, and every demand is left with what lies beyond
*x*. `ShareInv`: the remainder given so far is whole lots, in the code's order, within each
demand. Each iteration moves *x*, or the remainder, on; where neither can, the closed form
has been reached.

**Cache.** `LockInv`: who produces an entry holds its lock, and an entry has one lock. It is
inductive as long as a process that breaks a lock finds a dead owner's: between seeing it stale
and unlinking it the lock may have become another's, which is what the hypothesis excludes and
no invariant of the code does. `WholeInv`: only temporary
files are torn, the process that has one open is its producer, and what a process has closed
is whole until it renames it.

**Hermes.** `AcquisitionInv` relates a thread's position to its chunk's row and file
(`ThreadsInStep`) and says what the verification before the start leaves (`ReadyToFetch`).
`PublicationInv` relates the controller's position to the tables it has written
(`TablesInStep`), a mark to its tables (`MarkedIsSound`) and a publisher's links and hashes to
the marked tables (`PublisherInStep`).

**Hermes tables.** `BuildInv`: the instruments are the ones references lead to, one for each,
and the months are passed in their order and all of them, so that what a month adds is later
than all that is there. `FillInv`: what is carried over as a last close is a price of a row of
an earlier month (`CloseKnown`); a fill takes that or an earlier row of its own month.
`MemberInv`: up to the next month every day of a member that the market has data for has a bar
or a quarantine row (`AccountedUpTo`) – the membership's last day and the days expected of the
market are computed from the delisting in two ways, which `MemberExpected` reconciles.
`FactorInv`: what is carried over as a factor is the vendor's last one of the bars so far
(`FactorKnown`). The loop over the days of a month is a recursive function; `FactorsForm` gives
its closed form by the least day on which they would differ. `WindowInv` and `ExtensionInv`
hold what the builder has written once; that a sort followed by "keep last" has a last row is
`MaximalExists`, for any finite set.

**Archive.** `ArchiveInv`: who is about to record a success has a directory, of itself or of
another process, unless a user removed it. `SearchInv`: a trial of the search is in
exactly one of the lists a controller keeps – still waiting, a future, completed, a result –
and its row agrees with that list; a success on record meets the constraints of whoever may
reuse it.

**Strategies.** `PipelineInv`: what is held and what is aimed at are portfolios – finitely many codes
with natural weights – and a target on record is within the rules it was made under. That a target
keeps the hard rules is the last check's doing, whatever the redistribution made of the
candidate; that they are the rules' caps, summed over an industry or asset type in the property's
words, and that the turnover's limit holds is arithmetic. Going only part of the way rounds each
weight down, so that it turns over at most one part per code more than the limit. It takes that
redistribution gives weights to codes of the candidate only, and that the library's fold and
the counting sum agree (`FoldIsSum`), so that sums can be split and compared.

`CohortInv`: a cohort bears the day of its decision, no leg of it is queued or
executed once one was skipped, what is held is in the book, and whatever is held has the exit
at its time in the queue. `TrainingInv`: samples have their last label day before the
validation of their fold, the cutoff of a model is not before the labels it has learnt from,
and the registry and the staged models hold what a fold was trained on.

**Snapshots.** `SnapshotInv`: a publisher that is writing or has signed holds a delivery that
was accepted. Acceptance is checked once, long before the rename; that no step in between
touches what was accepted, of this publisher or of another, is what the invariant says. Each
action then maps to a step of `WriteOnce` (`Rename`, which needs the free name) or to a
stutter. The four properties of the content are equalities between two ways of
computing: the rows eligible at the last boundary of a step function are those visible on the
day; the metrics of a cut-off past are the metrics available by then, and its
adjustment factors a prefix of the factors; the validator's and the processor's numbering of
revisions count sets in bijection; a trailing year is a telescoping sum of four quarters.

**Pull.** `PullInv`. Of a loop over the days it says what is written and what is open so far
(`ReadSoFar`): an open interval was seen on every day since its first, a closed one on each of
its days, two of one code do not overlap, and every answer so far lies in one of them. One day
more (`AnotherDay`) closes on the trade day before, whose distance is not known, only that no
trade day lies between; the last day turns `ReadSoFar` into `ReadBack`. Members and industries
use the same lemmas, the industries' history is shown to read back by itself
(`CutIndustries`). Of a paged query it says that every row that was there when the query began is
read or above the cursor (`ToCome`), which rows that are added meanwhile leave true; of the prices
that what is not read is in a batch to come (`QueriesCover`); of the lookups that whoever is
still missing is looked up on the first day as a member, on which the service lists it.

Where a proof needs a greatest or least element, or an induction over numbers, it takes the
least element of a set (`WFMin` with `NatLessThanWellFounded`): the library's induction
theorems themselves take an operator as parameter, which the provers do not instantiate.

### Only model-checked

* Liveness (`Termination`, `RequestsEnd`, `LaunchEnds`, `SearchesEnd`): the proof system handles
  neither `ENABLED` nor fairness.
* `BudgetPlaced`: how much is left in cash depends on how far the passes of the redistribution get,
  a recursion whose result for every input would take an induction over the data.

## 7. Running

`tlc -config crossing.cfg MCLedger.tla` and likewise for `lifecycle`, `stuck_cross` and
`sold_before_ex`; `stale_lock` with `MCFactorCache`, `hermes` with `MCHermes`, `archive` and
`reused_run` with `MCArchive`, `snapshots` with `MCSnapshots`, `strategies`,
`same_close_signal` and `equal_weights` with `MCStrategies`. The proofs: `tlapm` on each of `NettingProofs`, `NettingLoopProofs`,
`SleeveLedgerProofs`, `SnapshotProofs`, `HermesProofs`, `FactorCacheProofs`,
`ArchiveProofs` and `StrategyProofs`. Operators named in a comment as *Mutant* are
plausible bugs: replacing the definition that follows by one of them makes the
property listed with it in `PROJECT.json` fail.

## 8. Not modelled

* Numerical code: factor formulas, risk-parity and softmax weights, estimators and the
  feature search, performance metrics and attribution. No state, no order; their inputs
  and outputs are data in the modules.
* Parsing and wiring: command line, configuration, plug-ins, hashing and versioning
  helpers, benchmarks and scripts. The ranges the configuration accepts are the
  assumptions of the modules.
* Column mapping, units and type coercion of the connectors and contracts; the SQL and
  directory connectors, which read table after table without state.
* Of the modelled components: `ledger.py`'s audit frames; single lots within an instrument
  and their ageing; cohorts of several strategies that net against each other; the unused
  `allocate_fill_quantities` and `cost_allocations`; `load_view` and legacy metadata of the
  cache; the resource controller, inventory and diagnosis commands of the acquisition;
  the Hermes columns of valuation, margin and intraday data other than the shares joined in; hash verification and
  partition reads of snapshots; the result readers, comparison and reports; the samplers of
  the search and its heartbeat, whose time stamps nothing reads.

## 9. Plan

What would come next, in this order:

1. **CohortLedger** – cohorts in `SleeveLedger` itself, so that legs of several strategies
   net against each other and two of one strategy meet in one order.
2. **FactorCache** – `load_view`, and the views a process keeps of files that are purged.
3. **StrategyPipeline** – the fall-back targets of a rejected candidate under `TargetsKeepRules`,
   which speaks of what the constraints return.
4. **HermesJob** – two controllers, a plain run after a kill and a publisher beside a
   controller (the constants `Restarts` and `Overlap` are there), once the code says what it
   promises then.
