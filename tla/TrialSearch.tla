---------------------------- MODULE TrialSearch -----------------------------
(***************************************************************************)
(* SearchEngine.run (zyquant.optimize.search): a controller lists the       *)
(* trials of a search, runs those without a recorded success in the calling *)
(* process or in a process pool, retries the errors that are worth it, and  *)
(* records all outcomes when the last is in.                               *)
(*                                                                         *)
(* A trial is known by the hash of everything its metrics depend on, so its *)
(* objective is a function of the key; whether it succeeds is not.  The    *)
(* controllers share the database; a controller may be killed anywhere.    *)
(* Heartbeats only refresh a time stamp nothing reads and are left out.    *)
(***************************************************************************)
EXTENDS ExperimentStore, Sequences, SequencesExt

CONSTANTS
    Controllers,    \* processes that run searches
    Searches,       \* [RunIds -> keys of the search's parameters, in order]
    Objective,      \* [TrialKeys -> value of the objective, larger is better]
    Feasible,       \* [RunIds -> keys that meet the search's constraints]
    Retries,        \* retry_resource_errors
    Pooled,         \* searches run with workers > 1
    Launches        \* BOUND: searches a controller runs

ASSUME SearchAssumption ==
    /\ Retries \in Nat /\ Launches \in Nat /\ Pooled \subseteq RunIds
    /\ Objective \in [TrialKeys -> Nat]
    /\ DOMAIN Searches \subseteq RunIds
    /\ \A s \in DOMAIN Searches : Searches[s] \in Seq(TrialKeys)
    /\ Feasible \in [DOMAIN Searches -> SUBSET TrialKeys]

VARIABLES
    spc,            \* [Controllers -> where it is]
    search,         \* [Controllers -> run of the current or last search, or None]
    waiting,        \* [Controllers -> parameters to list, then trials to submit]
    futures,        \* [Controllers -> trials that run, with their attempt]
    completed,      \* [Controllers -> trials with an outcome, in the order of arrival]
    results,        \* [Controllers -> results of the search, in order]
    best,           \* [Controllers -> key of the best trial of a finished search, or None]
    broken,         \* controllers whose pool lost a worker
    launches        \* [Controllers -> searches so far]

searchVars ==
    <<spc, search, waiting, futures, completed, results, best, broken, launches>>
trialVars == <<storeVars, searchVars>>

SearchInit ==
    /\ spc = [c \in Controllers |-> "idle"]
    /\ search = [c \in Controllers |-> None]
    /\ waiting = [c \in Controllers |-> <<>>]
    /\ futures = [c \in Controllers |-> {}]
    /\ completed = [c \in Controllers |-> <<>>]
    /\ results = [c \in Controllers |-> <<>>]
    /\ best = [c \in Controllers |-> None]
    /\ broken = {}
    /\ launches = [c \in Controllers |-> 0]

At(c, there) == spc' = [spc EXCEPT ![c] = there]
Result(k, status) == [key |-> k, status |-> status]

-----------------------------------------------------------------------------
\* The run's row is inserted unless it is there, whatever its status.
Launch(c, s) ==
    /\ spc[c] = "idle" /\ launches[c] < Launches
    /\ launches' = [launches EXCEPT ![c] = @ + 1]
    /\ IF CanStartRun(s) THEN StartRun(s) ELSE UNCHANGED storeVars
    /\ search' = [search EXCEPT ![c] = s]
    /\ waiting' = [waiting EXCEPT ![c] = Searches[s]]
    /\ futures' = [futures EXCEPT ![c] = {}]
    /\ completed' = [completed EXCEPT ![c] = <<>>]
    /\ results' = [results EXCEPT ![c] = <<>>]
    /\ best' = [best EXCEPT ![c] = None]
    /\ broken' = broken \ {c}
    /\ At(c, "listing")

\* A trial with a recorded success is reused, any other is queued.
\* Mutants: any trial with an outcome is reused; none is.
ReusableWithOutcome(k) ==
    IF trials[k] = None THEN FALSE
    ELSE trials[k].status \in {"succeeded", "failed", "constrained"}
ReusableNever(k) == FALSE
Reusable(k) == IF trials[k] = None THEN FALSE ELSE trials[k].status = "succeeded"

Keys(c) == ToSet(Searches[search[c]])
List(c) ==
    /\ spc[c] = "listing" /\ waiting[c] # <<>>
    /\ LET k == Head(waiting[c])
       IN  IF Reusable(k)
           THEN /\ results' = [results EXCEPT ![c] = Append(@, Result(k, "succeeded"))]
                /\ UNCHANGED <<storeVars, completed>>
           ELSE /\ UpsertTrial(k, TrialRow(search[c], "queued", 0, None))
                /\ completed' = [completed EXCEPT ![c] = Append(@, k)]
                /\ UNCHANGED results
    /\ waiting' = [waiting EXCEPT ![c] = Tail(@)]
    /\ UNCHANGED <<spc, search, futures, best, broken, launches>>

\* "completed" has held the pending trials up to here.
Execute(c) ==
    /\ spc[c] = "listing" /\ waiting[c] = <<>>
    /\ waiting' = [waiting EXCEPT ![c] = completed[c]]
    /\ completed' = [completed EXCEPT ![c] = <<>>]
    /\ At(c, "executing")
    /\ UNCHANGED <<storeVars, search, futures, results, best, broken, launches>>

Running(c, k, n) == UpsertTrial(k, TrialRow(search[c], "running", n, None))

\* One trial at a time in the calling process, all of them in a pool.
Submit(c) ==
    /\ spc[c] = "executing" /\ waiting[c] # <<>>
    /\ search[c] \in Pooled \/ futures[c] = {}
    /\ Running(c, Head(waiting[c]), 1)
    /\ futures' = [futures EXCEPT ![c] = @ \union {[key |-> Head(waiting[c]), attempt |-> 1]}]
    /\ waiting' = [waiting EXCEPT ![c] = Tail(@)]
    /\ UNCHANGED <<spc, search, completed, results, best, broken, launches>>

\* Mutant: it always may.
MayRetryForever(f) == TRUE
MayRetry(f) == f.attempt <= Retries

\* BOUND: past the last attempt allowed, which no trial goes, the count starts again.
NextAttempt(n) == IF n > Retries THEN 1 ELSE n + 1

Collecting(c) == spc[c] = "executing" /\ (search[c] \in Pooled => waiting[c] = <<>>)

\* The runner returns metrics, or fails in a way a retry will not mend.
Collect(c, f, status) ==
    /\ Collecting(c) /\ c \notin broken
    /\ completed' = [completed EXCEPT ![c] =
            Append(@, [key |-> f.key, attempt |-> f.attempt, status |-> status])]
    /\ futures' = [futures EXCEPT ![c] = @ \ {f}]
    /\ UNCHANGED <<storeVars, spc, search, waiting, results, best, broken, launches>>

\* A resource or operating-system error, or a pool that lost a worker: once more, or
\* a failure like any other.
GiveUp(c, f) ==
    /\ Collecting(c) /\ ~ MayRetry(f)
    /\ completed' = [completed EXCEPT ![c] =
            Append(@, [key |-> f.key, attempt |-> f.attempt, status |-> "failed"])]
    /\ futures' = [futures EXCEPT ![c] = @ \ {f}]
    /\ UNCHANGED <<storeVars, spc, search, waiting, results, best, broken, launches>>

Retry(c, f) ==
    /\ Collecting(c) /\ c \notin broken /\ MayRetry(f)
    /\ Running(c, f.key, NextAttempt(f.attempt))
    /\ futures' = [futures EXCEPT ![c] =
            (@ \ {f}) \union {[f EXCEPT !.attempt = NextAttempt(@)]}]
    /\ UNCHANGED <<spc, search, waiting, completed, results, best, broken, launches>>

\* A broken pool refuses the retry, and the error leaves the search as it is.
RetryBroken(c, f) ==
    /\ Collecting(c) /\ c \in broken /\ MayRetry(f)
    /\ Running(c, f.key, NextAttempt(f.attempt))
    /\ At(c, "idle")
    /\ UNCHANGED <<search, waiting, futures, completed, results, best, broken, launches>>

LoseWorker(c) ==
    /\ search[c] \in Pooled /\ spc[c] = "executing" /\ futures[c] # {} /\ waiting[c] = <<>>
    /\ c \notin broken
    /\ broken' = broken \union {c}
    /\ UNCHANGED <<storeVars, spc, search, waiting, futures, completed, results, best, launches>>

\* Ctrl-C while trials run: what they have not finished is marked in one transaction,
\* the run in the next.
Interrupt(c) ==
    /\ spc[c] = "executing"
    /\ trials' = Interrupted(search[c])
    /\ At(c, "interrupting")
    /\ UNCHANGED <<runs, metrics, artifacts, search, waiting, futures, completed, results,
                   best, broken, launches>>

RecordInterrupt(c) ==
    /\ spc[c] = "interrupting"
    /\ FailRun(search[c], "interrupted")
    /\ At(c, "idle")
    /\ UNCHANGED <<search, waiting, futures, completed, results, best, broken, launches>>

Gather(c) ==
    /\ spc[c] = "executing" /\ waiting[c] = <<>> /\ futures[c] = {}
    /\ At(c, "recording")
    /\ UNCHANGED <<storeVars, search, waiting, futures, completed, results, best, broken,
                   launches>>

Outcome(c, o) ==
    IF o.status # "ok" THEN "failed"
    ELSE IF o.key \in Feasible[search[c]] THEN "succeeded" ELSE "constrained"

Record(c) ==
    /\ spc[c] = "recording" /\ completed[c] # <<>>
    /\ LET o == Head(completed[c])
           status == Outcome(c, o)
       IN  /\ UpsertTrial(o.key, TrialRow(search[c], status, o.attempt,
                  IF o.status = "ok" THEN Objective[o.key] ELSE None))
           /\ results' = [results EXCEPT ![c] = Append(@, Result(o.key, status))]
    /\ completed' = [completed EXCEPT ![c] = Tail(@)]
    /\ UNCHANGED <<spc, search, waiting, futures, best, broken, launches>>

\* The first of the best results.
Eligible(c) == {i \in DOMAIN results[c] : results[c][i].status = "succeeded"}
Value(c, i) == Objective[results[c][i].key]
IsFirstBest(c, i) ==
    \A j \in Eligible(c) :
        Value(c, i) > Value(c, j) \/ (Value(c, i) = Value(c, j) /\ i <= j)
Best(c) ==
    IF Eligible(c) = {} THEN None
    ELSE results[c][CHOOSE i \in Eligible(c) : IsFirstBest(c, i)].key

Conclude(c) ==
    /\ spc[c] = "recording" /\ completed[c] = <<>>
    /\ best' = [best EXCEPT ![c] = Best(c)]
    /\ FinishRun(search[c], Best(c))
    /\ At(c, "returned")
    /\ UNCHANGED <<search, waiting, futures, completed, results, broken, launches>>

\* The caller goes on with what it was returned.
Leave(c) ==
    /\ spc[c] = "returned"
    /\ At(c, "idle")
    /\ UNCHANGED <<storeVars, search, waiting, futures, completed, results, best, broken,
                   launches>>

KillController(c) ==
    /\ spc[c] \notin {"idle", "returned"}
    /\ At(c, "idle")
    /\ UNCHANGED <<storeVars, search, waiting, futures, completed, results, best, broken,
                   launches>>

Work(c) ==
    \/ List(c) \/ Execute(c) \/ Submit(c) \/ Gather(c) \/ Record(c) \/ Conclude(c) \/ Leave(c)
    \/ RecordInterrupt(c)
    \/ \E f \in futures[c] :
        \/ \E status \in {"ok", "failed"} : Collect(c, f, status)
        \/ GiveUp(c, f) \/ Retry(c, f) \/ RetryBroken(c, f)

SearchNext ==
    \E c \in Controllers :
        \/ \E s \in DOMAIN Searches : Launch(c, s)
        \/ Work(c) \/ LoseWorker(c) \/ Interrupt(c) \/ KillController(c)

-----------------------------------------------------------------------------
\* A search that returns has one result for every parameter it was given, of the
\* status on record, none tried more often than allowed, and the best of those that
\* succeeded, also when it goes on from a search that was killed or interrupted.
TrialsAccounted ==
    \A c \in Controllers : spc[c] = "returned" =>
        /\ Len(results[c]) = Len(Searches[search[c]])
        /\ {r.key : r \in ToSet(results[c])} = Keys(c)
        /\ \A r \in ToSet(results[c]) :
            /\ trials[r.key].status = r.status
            /\ trials[r.key].attempts \in 1 .. Retries + 1
            /\ r.status = "succeeded" => Objective[r.key] <= Objective[best[c]]
        /\ best[c] # None => best[c] \in Feasible[search[c]]

\* A recorded success is never run again nor lost (docs/architecture.md: the trials
\* that succeeded are reused).
SuccessesKept ==
    [][\A k \in TrialKeys :
        (IF trials[k] = None THEN FALSE ELSE trials[k].status = "succeeded")
            => trials'[k] = trials[k]]_trialVars

\* A search ends, however many of its trials fail and how often.
SearchesEnd == \A c \in Controllers : spc[c] # "idle" ~> spc[c] = "idle"
=============================================================================
