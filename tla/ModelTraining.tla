--------------------------- MODULE ModelTraining ----------------------------
(***************************************************************************)
(* The life of a model (zyquant.ml.pipeline, WorkflowRunner._run_model,    *)
(* the model commands of the command line): labelled samples, purged       *)
(* splits, one registered model per split, predictions, and the signals a  *)
(* strategy takes from them.  The example strategy builds its own panel    *)
(* and its folds by calendar year (strategies/ml_ema20_momentum_v1).       *)
(*                                                                         *)
(* A label is a return between two of the instrument's own rows, so a      *)
(* suspension stretches it.  Values of features, labels and scores are     *)
(* data and left out; what counts is on which days they were known.        *)
(***************************************************************************)
EXTENDS Orders, SequencesExt

CONSTANTS
    LastSession,    \* the calendar is 1 .. LastSession
    Traded,         \* sets of sessions an instrument may be traded in
    Instruments,
    Year,           \* [1 .. LastSession -> Int]
    TrainYears,     \* length of a training window in years
    Plans,          \* [entry, horizon, folds, embargo, panel, validation]: configurations
    Executions,     \* execution timings of the backtests that read the models
    Launches        \* BOUND: trainings

ASSUME TrainingAssumption ==
    /\ LastSession \in Nat \ {0} /\ \A T \in Traded : T \subseteq 1 .. LastSession
    /\ Year \in [1 .. LastSession -> Int] /\ TrainYears \in Nat
    /\ Executions \subseteq {"next_open", "next_close", "same_close"}
    /\ \A p \in Plans :
        /\ p.entry \in Nat /\ p.horizon \in Nat \ {0} /\ p.folds \in Nat \ {0}
        /\ p.embargo \in Nat /\ (p.panel => p.validation \in Nat \ {0})

VARIABLES
    bars,           \* [Instruments -> sessions with a row]
    plan,
    trainer,        \* the fold the training is at, what it has left and has staged, or idle
    registry,       \* models: [id -> model]
    predicted,      \* the example's prediction file exists
    record,         \* of the run in the experiment store
    launches,
    signals         \* predictions that a strategy took: [model, on, features, cutoff]

trainingVars == <<bars, plan, trainer, registry, predicted, record, launches, signals>>

NoModels == [i \in {} |-> 0]
Idle == [running |-> FALSE, fold |-> 0, left |-> <<>>, staged |-> NoModels]

TrainingInit ==
    /\ bars \in [Instruments -> Traded] /\ plan \in Plans
    /\ trainer = Idle /\ registry = NoModels /\ predicted = FALSE /\ record = "none"
    /\ launches = 0 /\ signals = {}

-----------------------------------------------------------------------------
(* Samples.                                                                 *)

Rows(c) == Ascending(bars[c])

\* DatasetBuilder.build: entry and exit are rows of the instrument, both known by the end.
Samples ==
    UNION {{[on |-> Rows(c)[i], code |-> c, first |-> Rows(c)[i + plan.entry],
             last |-> Rows(c)[i + plan.entry + plan.horizon]] :
               i \in 1 .. Cardinality(bars[c]) - plan.entry - plan.horizon} : c \in Instruments}

\* The panel of the example strategy: entry and exit are sessions of the calendar, and a
\* label without a price on both is not valid.
HasPanelLabel(c, d) == {d, d + 1, d + 2} \subseteq bars[c]
PanelSamples ==
    UNION {{[on |-> d, code |-> c, first |-> d + 1, last |-> d + 2] :
               d \in {e \in 1 .. LastSession : HasPanelLabel(c, e)}} : c \in Instruments}

-----------------------------------------------------------------------------
(* Splits: a set of training samples and the days validated on.             *)

\* np.array_split: the first chunks are longer by one.
ChunkSize(n, k, i) == n \div k + (IF i <= n % k THEN 1 ELSE 0)
ChunkStart(n, k, i) == (n \div k) * (i - 1) + Min({i - 1, n % k}) + 1
Chunk(s, k, i) ==
    SubSeq(s, ChunkStart(Len(s), k, i), ChunkStart(Len(s), k, i) + ChunkSize(Len(s), k, i) - 1)

\* Mutant: a sample is purged by its own day.
PurgedByDay(samples, start) == {s \in samples : s.on < start}
Purged(samples, start) == {s \in samples : s.on < start /\ s.last < start}

Embargo(days, start) ==
    LET before == Cardinality({i \in DOMAIN days : days[i] < start})
    IN  {days[i] : i \in Max({1, before - plan.embargo + 1}) .. before}

\* PurgedTimeSeriesSplitter.split
Split(samples, days, validation) ==
    [training |-> {s \in Purged(samples, Head(validation)) :
                        s.on \notin Embargo(days, Head(validation))},
     start |-> Head(validation)]

\* Splits without training samples are left out.
Trainable(splits) ==
    LET kept == Ascending({i \in DOMAIN splits : splits[i].training # {}})
    IN  [n \in DOMAIN kept |-> splits[kept[n]]]

PurgedSplits(samples) ==
    LET days == Ascending({s.on : s \in samples})
        chunks == Min({plan.folds, Len(days)})
        splits == [i \in 1 .. chunks - 1 |-> Split(samples, days, Chunk(days, chunks, i + 1))]
    IN  IF Len(days) < 2 THEN <<>>
        ELSE Trainable(splits)

\* rolling_year_folds: a model is frozen before its year begins, so a label must be known
\* by then; the first session of a year stands for January the first.
YearStart(y) == Min({d \in 1 .. LastSession : Year[d] = y})
YearSplit(samples, y) ==
    [training |-> Purged({s \in samples : Year[s.on] \in y - TrainYears .. y - 1}, YearStart(y)),
     start |-> YearStart(y)]
YearSplits(samples) ==
    LET years == {Year[d] : d \in 1 .. LastSession}
        tested == {y \in years : /\ y >= Min(years) + TrainYears
                                 /\ \E s \in samples : Year[s.on] = y}
        splits == [i \in 1 .. Cardinality(tested) |-> YearSplit(samples, Ascending(tested)[i])]
    IN  Trainable(splits)

Splits == IF plan.panel THEN YearSplits(PanelSamples) ELSE PurgedSplits(Samples)

-----------------------------------------------------------------------------
(* Training and registration.                                               *)

\* Where the example stops its rounds early: the last sessions of the training set are
\* validated on, those before are embargoed, and a label may not reach into them
\* (prepare_fold).
Fitted(training) ==
    LET days == Ascending({s.on : s \in training})
        start == days[Len(days) - plan.validation + 1]
    IN  [fit |-> {s \in Purged(training, start) : s.on \notin Embargo(days, start)},
         start |-> start]
TooFew(training) ==
    LET days == {s.on : s \in training}
    IN  Cardinality(days) <= plan.validation + plan.embargo \/ Fitted(training).fit = {}

\* RollingModelTrainer.train: the cutoff is the last day a label needs.
Model(split) ==
    [training |-> split.training, start |-> split.start,
     cutoff |-> Max({s.last : s \in split.training})]
IdOf(fold, split) == <<fold, Model(split).cutoff>>
With(models, fold, split) ==
    [i \in DOMAIN models \union {IdOf(fold, split)} |->
        IF i = IdOf(fold, split) THEN Model(split) ELSE models[i]]

\* The example does not train where its models or its predictions are.
Train ==
    /\ ~ trainer.running /\ launches < Launches
    /\ plan.panel => registry = NoModels /\ ~ predicted
    /\ launches' = launches + 1
    /\ trainer' = [Idle EXCEPT !.running = TRUE, !.fold = 1, !.left = Splits]
    /\ record' = IF record = "none" /\ ~ plan.panel THEN "running" ELSE record
    /\ UNCHANGED <<bars, plan, registry, predicted, signals>>

\* A model is immutable: a second registration fails.
Register ==
    /\ trainer.running /\ trainer.left # <<>> /\ ~ plan.panel
    /\ IdOf(trainer.fold, Head(trainer.left)) \notin DOMAIN registry
    /\ registry' = With(registry, trainer.fold, Head(trainer.left))
    /\ trainer' = [trainer EXCEPT !.left = Tail(@), !.fold = @ + 1]
    /\ UNCHANGED <<bars, plan, predicted, record, launches, signals>>

\* The example stages its models,
Stage ==
    /\ trainer.running /\ trainer.left # <<>> /\ plan.panel
    /\ ~ TooFew(Head(trainer.left).training)
    /\ trainer' = [trainer EXCEPT !.left = Tail(@), !.fold = @ + 1,
                                  !.staged = With(@, trainer.fold, Head(trainer.left))]
    /\ UNCHANGED <<bars, plan, registry, predicted, record, launches, signals>>

\* publishes them together,
PublishModels ==
    /\ trainer.running /\ trainer.left = <<>> /\ plan.panel /\ registry = NoModels
    /\ registry' = trainer.staged
    /\ UNCHANGED <<bars, plan, trainer, predicted, record, launches, signals>>

\* and then the predictions.
PublishPredictions ==
    /\ trainer.running /\ plan.panel /\ registry # NoModels
    /\ predicted' = TRUE /\ trainer' = Idle
    /\ UNCHANGED <<bars, plan, registry, record, launches, signals>>

\* The estimator fails, or the model exists; the record fails even if it had succeeded.
TrainingFails ==
    /\ trainer.running /\ trainer.left # <<>>
    /\ trainer' = Idle /\ record' = IF plan.panel THEN record ELSE "failed"
    /\ UNCHANGED <<bars, plan, registry, predicted, launches, signals>>

TrainingEnds ==
    /\ trainer.running /\ trainer.left = <<>> /\ ~ plan.panel
    /\ trainer' = Idle /\ record' = "succeeded"
    /\ UNCHANGED <<bars, plan, registry, predicted, launches, signals>>

KillTrainer ==
    /\ trainer.running
    /\ trainer' = Idle
    /\ UNCHANGED <<bars, plan, registry, predicted, record, launches, signals>>

-----------------------------------------------------------------------------
(* Predictions and signals.                                                 *)

\* validate_predictions and PredictionBook.load: for the features and the model of a row.
ValidPrediction(model, on, features) == features <= on /\ model.cutoff <= on

\* PredictionSignalGenerator: what the strategy may know.
Usable(model, on, features, cutoff) == features <= cutoff /\ model.cutoff <= cutoff

\* The example predicts the samples of a model's test year, with the features of their day;
\* its PredictionBook selects by the day of the signal and asks for no cutoff.
InBook(model, on, features) ==
    /\ predicted /\ features = on
    /\ Year[on] = Year[model.start]
    /\ \E c \in Instruments : HasPanelLabel(c, on)

\* A decision that is executed at the close of its own day may know the day before only.
Cutoff(on, execution) == IF execution = "same_close" THEN on - 1 ELSE on
Decides(on, execution) == IF execution = "same_close" THEN on > 1 ELSE on < LastSession

\* A model predicts with the cutoff it is registered with, and a decision on the day of the
\* signal takes the prediction.
TakeSignal(id, on, features, execution) ==
    LET model == registry[id]
    IN  /\ Decides(on, execution)
        /\ ValidPrediction(model, on, features)
        /\ IF plan.panel THEN InBook(model, on, features)
           ELSE Usable(model, on, features, Cutoff(on, execution))
        /\ signals' = signals \union {[model |-> id, on |-> on, features |-> features,
                                       cutoff |-> Cutoff(on, execution)]}
        /\ UNCHANGED <<bars, plan, trainer, registry, predicted, record, launches>>

\* BOUND: a behaviour ends with its first signal.
TrainingNext ==
    /\ signals = {}
    /\ \/ Train \/ Register \/ Stage \/ PublishModels \/ PublishPredictions
       \/ TrainingFails \/ TrainingEnds \/ KillTrainer
       \/ \E id \in DOMAIN registry, on \in 1 .. LastSession, features \in 1 .. LastSession,
             execution \in Executions : TakeSignal(id, on, features, execution)

TrainingSpec == TrainingInit /\ [][TrainingNext]_trainingVars

-----------------------------------------------------------------------------
\* The prices a training label needs: all rows of the instrument from its entry to its exit.
PricesOf(s) == {d \in bars[s.code] : s.first <= d /\ d <= s.last}

\* No model learns from a price of the days it is validated on, and no strategy acts on a
\* model that knows a price from after the strategy's cutoff, whatever the timing of the
\* execution (docs/architecture.md 7.5).
NoLeakage ==
    /\ \A id \in DOMAIN registry : \A s \in registry[id].training :
            \A d \in PricesOf(s) : d < registry[id].start
    /\ \A id \in DOMAIN trainer.staged :
            LET fitted == Fitted(trainer.staged[id].training)
            IN  \A s \in fitted.fit : \A d \in PricesOf(s) : d < fitted.start
    /\ \A g \in signals : \A s \in registry[g.model].training :
            \A d \in PricesOf(s) : d <= g.cutoff

\* A decision knows nothing from after its cutoff, which is the day before when it is
\* executed at the close of its own day (docs/architecture.md 625).
SignalsByCutoff == \A g \in signals : g.features <= g.cutoff
=============================================================================
