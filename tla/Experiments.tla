---------------------------- MODULE Experiments -----------------------------
(***************************************************************************)
(* The users of one experiment database at the same time: processes that   *)
(* run backtests (RunArchive) and controllers that run searches            *)
(* (TrialSearch).                                                          *)
(***************************************************************************)
EXTENDS RunArchive, TrialSearch

\* The identifier of a backtest is cut out of a hash, that of a search is a name its user
\* chose (search_run_id): they share no run.
ASSUME RunsAreNotSearches == \A q \in Requests : RunOf(q) \notin DOMAIN Searches

vars == <<storeVars, runnerVars, searchVars>>

Init == StoreInit /\ ArchiveInit /\ SearchInit
Next ==
    \/ RunNext /\ UNCHANGED searchVars
    \/ SearchNext /\ UNCHANGED runnerVars

Spec == Init /\ [][Next]_vars
=============================================================================
