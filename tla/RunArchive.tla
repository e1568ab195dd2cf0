----------------------------- MODULE RunArchive -----------------------------
(***************************************************************************)
(* ExperimentRunner.run_backtest (zyquant.workflow): a backtest runs under *)
(* the fingerprint of what it was asked, its result is written to a staging *)
(* directory that a rename publishes, the database is told, and a run that *)
(* is there already is read back instead of computed.                      *)
(*                                                                         *)
(* Several processes share the output directory and the database.  A       *)
(* result is deterministic, so a directory is represented by the request   *)
(* it holds the result of.  A process may be killed between any two steps; *)
(* its staging directory is then never looked at again and is left out.    *)
(***************************************************************************)
EXTENDS ExperimentStore

CONSTANTS
    Runners,        \* processes
    Requests,       \* what a caller can ask for, see RunOf
    Files,          \* number of files of a run directory, logged in name order
    Calls           \* BOUND: calls of all processes together

ASSUME ArchiveAssumption ==
    /\ Files \in Nat \ {0} /\ Calls \in Nat
    /\ \A q \in Requests : q.hashed \in RunIds
    /\ None \notin Requests

VARIABLES
    dir,            \* [RunIds -> request whose result the directory holds, or None]
    removed,        \* runs whose directory a user removed
    incomplete,     \* runs with a directory below .incomplete
    rpc,            \* [Runners -> where the process is]
    ask,            \* [Runners -> request of the call, or None]
    seen,           \* [Runners -> the row get_run returned, read once]
    logged,         \* [Runners -> files logged as artifacts so far]
    answer,         \* [Runners -> request whose result the call returned, or None]
    calls           \* calls so far

runnerVars == <<dir, incomplete, removed, rpc, ask, seen, logged, answer, calls>>
ArchiveInit ==
    /\ dir = [r \in RunIds |-> None]
    /\ incomplete = {} /\ removed = {}
    /\ rpc = [p \in Runners |-> "idle"]
    /\ ask = [p \in Runners |-> None]
    /\ seen = [p \in Runners |-> None]
    /\ logged = [p \in Runners |-> 0]
    /\ answer = [p \in Runners |-> None]
    /\ calls = 0

\* run_id, a prefix of the fingerprint of what is hashed: dataset, dates, code and
\* parameters of the strategies, execution, seed.  The initial cash is not, nor are the
\* parameters of a capital allocator or the specification of a built-in pipeline; "cash"
\* stands for them.
RunOf(q) == q.hashed

-----------------------------------------------------------------------------
Goto(p, there) == rpc' = [rpc EXCEPT ![p] = there]
\* The call is over: with a result, or without.
End(p, result) ==
    /\ Goto(p, "idle")
    /\ answer' = [answer EXCEPT ![p] = result]
    /\ ask' = [ask EXCEPT ![p] = IF result = None THEN None ELSE @]
    /\ seen' = [seen EXCEPT ![p] = None]
    /\ logged' = [logged EXCEPT ![p] = 0]

\* A call reads the row of its run, once.
Call(p, q) ==
    /\ rpc[p] = "idle" /\ calls < Calls
    /\ calls' = calls + 1
    /\ ask' = [ask EXCEPT ![p] = q]
    /\ seen' = [seen EXCEPT ![p] = runs[RunOf(q)]]
    /\ answer' = [answer EXCEPT ![p] = None]
    /\ Goto(p, "called")
    /\ UNCHANGED <<storeVars, dir, incomplete, removed, logged>>

Run(p) == RunOf(ask[p])

\* A succeeded run with a directory is read back.
Archived(p) == seen[p] = "succeeded" /\ dir[Run(p)] # None
Reuse(p) ==
    /\ rpc[p] = "called" /\ Archived(p)
    /\ End(p, dir[Run(p)])
    /\ UNCHANGED <<storeVars, dir, incomplete, removed, calls>>

\* The strategies prepare themselves, then the row is inserted unless the call saw
\* one; an error of either is not recorded.
Start(p) ==
    /\ rpc[p] = "called" /\ ~ Archived(p)
    /\ IF seen[p] = None
       THEN CanStartRun(Run(p)) /\ StartRun(Run(p))
       ELSE UNCHANGED storeVars
    /\ incomplete' = incomplete \union {Run(p)}
    /\ Goto(p, "running")
    /\ UNCHANGED <<dir, removed, ask, seen, logged, answer, calls>>

CallFails(p) ==
    /\ rpc[p] = "called"
    /\ End(p, None)
    /\ UNCHANGED <<storeVars, dir, incomplete, removed, calls>>

\* Mutant: the run is finished before its directory is there.
SimulateAndFinish(p) ==
    /\ rpc[p] = "running"
    /\ FinishRun(Run(p), ask[p])
    /\ Goto(p, IF dir[Run(p)] = None THEN "replace" ELSE "compare")
    /\ UNCHANGED <<dir, incomplete, removed, ask, seen, logged, answer, calls>>

\* The engine runs and everything is written to the staging directory; then the
\* final directory is looked for.
Simulate(p) ==
    /\ rpc[p] = "running"
    /\ Goto(p, IF dir[Run(p)] = None THEN "replace" ELSE "compare")
    /\ UNCHANGED <<storeVars, dir, incomplete, removed, ask, seen, logged, answer, calls>>

\* A directory that is there must be of the same fingerprint; the new one is dropped.
Compare(p) ==
    /\ rpc[p] = "compare"
    /\ dir[Run(p)] # None /\ RunOf(dir[Run(p)]) = Run(p)
    /\ Goto(p, "finish")
    /\ UNCHANGED <<storeVars, dir, incomplete, removed, ask, seen, logged, answer, calls>>

\* The rename fails when the final directory has come to exist.
Replace(p) ==
    /\ rpc[p] = "replace" /\ dir[Run(p)] = None
    /\ dir' = [dir EXCEPT ![Run(p)] = ask[p]]
    /\ Goto(p, "finish")
    /\ UNCHANGED <<storeVars, incomplete, removed, ask, seen, logged, answer, calls>>

Finish(p) ==
    /\ rpc[p] = "finish"
    /\ FinishRun(Run(p), ask[p])
    /\ incomplete' = incomplete \ {Run(p)}
    /\ logged' = [logged EXCEPT ![p] = IF dir[Run(p)] = None THEN Files ELSE 0]
    /\ Goto(p, "log")
    /\ UNCHANGED <<dir, removed, ask, seen, answer, calls>>

\* The files of the final directory one by one, in the order they were listed, without
\* those that have gone since; then the caller's own result.
Log(p) ==
    /\ rpc[p] = "log" /\ logged[p] < Files
    /\ IF dir[Run(p)] # None
       THEN LogArtifact(Run(p), logged[p] + 1)
       ELSE UNCHANGED storeVars
    /\ logged' = [logged EXCEPT ![p] = @ + 1]
    /\ UNCHANGED <<dir, incomplete, removed, rpc, ask, seen, answer, calls>>

Return(p) ==
    /\ rpc[p] = "log" /\ logged[p] = Files
    /\ End(p, ask[p])
    /\ UNCHANGED <<storeVars, dir, incomplete, removed, calls>>

\* An error, or an interrupt, anywhere after the row was inserted.
Fail(p) ==
    /\ rpc[p] \in {"running", "compare", "replace", "finish", "log"}
    /\ \E status \in {"failed", "interrupted"} : FailRun(Run(p), status)
    /\ End(p, None)
    /\ UNCHANGED <<dir, incomplete, removed, calls>>

RunStep(p) ==
    \/ \E q \in Requests : Call(p, q)
    \/ Reuse(p) \/ Start(p) \/ CallFails(p) \/ Simulate(p) \/ Compare(p) \/ Replace(p)
    \/ Finish(p) \/ Log(p) \/ Return(p) \/ Fail(p)

\* What the rest of the world may do: the process is killed, a user removes the
\* directory of a run.
Kill(p) ==
    /\ rpc[p] # "idle"
    /\ End(p, None)
    /\ UNCHANGED <<storeVars, dir, incomplete, removed, calls>>

RemoveRun(r) ==
    /\ dir[r] # None
    /\ dir' = [dir EXCEPT ![r] = None]
    /\ removed' = removed \union {r}
    /\ UNCHANGED <<storeVars, incomplete, rpc, ask, seen, logged, answer, calls>>

RunNext ==
    \/ \E p \in Runners : RunStep(p) \/ Kill(p)
    \/ \E r \in RunIds : RemoveRun(r)

-----------------------------------------------------------------------------
\* What a call returns is the result of what it was asked, also when another process
\* computed it, when an earlier call failed or was killed, or when the directory was
\* removed in between (run_backtest).
ReturnedAnswersRequest ==
    \A p \in Runners : answer[p] # None => answer[p] = ask[p]

\* A run is recorded as succeeded only when its directory is there, whoever wrote either:
\* without a user's hand no directory goes away, and the status comes last (os.replace,
\* then finish_run).
SucceededIsPublished ==
    \A r \in {RunOf(q) : q \in Requests} :
        runs[r] = "succeeded" => dir[r] # None \/ r \in removed
=============================================================================
