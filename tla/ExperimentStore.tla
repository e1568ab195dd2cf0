-------------------------- MODULE ExperimentStore --------------------------
(***************************************************************************)
(* The experiment database (zyquant.experiment.store): one row per run, the *)
(* metrics and artifact records of a run, one row per search trial.  Every *)
(* method is one committed transaction.  A method is an operator that says *)
(* what the tables are afterwards; the callers are in RunArchive and       *)
(* TrialSearch.                                                            *)
(***************************************************************************)
EXTENDS Integers, FiniteSets

CONSTANTS
    None,
    RunIds,         \* identifiers of backtest and search runs
    TrialKeys       \* content hashes of trials

ASSUME NoneAssumption == None \notin {"running", "succeeded", "failed", "interrupted"}

VARIABLES
    runs,           \* [RunIds -> status, or None when there is no row]
    metrics,        \* [RunIds -> what the recorded metrics were computed for, or None]
    artifacts,      \* [RunIds -> names of the recorded artifacts]
    trials          \* [TrialKeys -> row, or None]

storeVars == <<runs, metrics, artifacts, trials>>

StoreInit ==
    /\ runs = [r \in RunIds |-> None]
    /\ metrics = [r \in RunIds |-> None]
    /\ artifacts = [r \in RunIds |-> {}]
    /\ trials = [k \in TrialKeys |-> None]

\* Inserts the row; the primary key refuses a second one.
CanStartRun(r) == runs[r] = None
StartRun(r) ==
    /\ runs' = [runs EXCEPT ![r] = "running"]
    /\ UNCHANGED <<metrics, artifacts, trials>>

\* Metrics and status in one transaction, whatever the status was.
FinishRun(r, values) ==
    /\ metrics' = [metrics EXCEPT ![r] = values]
    /\ runs' = [runs EXCEPT ![r] = IF @ = None THEN None ELSE "succeeded"]
    /\ UNCHANGED <<artifacts, trials>>

FailRun(r, status) ==
    /\ runs' = [runs EXCEPT ![r] = IF @ = None THEN None ELSE status]
    /\ UNCHANGED <<metrics, artifacts, trials>>

LogArtifact(r, name) ==
    /\ artifacts' = [artifacts EXCEPT ![r] = @ \union {name}]
    /\ UNCHANGED <<runs, metrics, trials>>

\* INSERT OR REPLACE: the row is the caller's, whoever's it was.
TrialRow(search, status, attempts, value) ==
    [search |-> search, status |-> status, attempts |-> attempts, value |-> value]
UpsertTrial(k, row) ==
    /\ trials' = [trials EXCEPT ![k] = row]
    /\ UNCHANGED <<runs, metrics, artifacts>>

\* The trials of an interrupted search that were not done, and its run.
Interrupted(search) ==
    [k \in TrialKeys |->
        IF trials[k] = None THEN None
        ELSE IF trials[k].search = search /\ trials[k].status \in {"queued", "running"}
        THEN [trials[k] EXCEPT !.status = "interrupted"]
        ELSE trials[k]]
=============================================================================
