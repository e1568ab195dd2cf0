----------------------------- MODULE MCArchive ------------------------------
(***************************************************************************)
(* The users of one experiment database: either two processes that run     *)
(* backtests, or a controller that runs searches; a topic at a time, for   *)
(* their state spaces only multiply.                                       *)
(***************************************************************************)
EXTENDS Experiments

CONSTANTS Topics    \* subset of {"runs", "trials"}

VARIABLE topic

MCVars == <<vars, topic>>

\* Two requests that differ in what is hashed; with "cash" also one that does not.
MCRequests == [hashed : {"b1", "b2"}, cash : {1}]
MCRequestsOfCash == [hashed : {"b1"}, cash : 1 .. 2]

\* Two searches that share a trial; one runs in a pool.
MCSearches == [s \in {"s1", "s2"} |-> IF s = "s1" THEN <<"k1", "k2">> ELSE <<"k2", "k3">>]
MCObjective == [k \in TrialKeys |-> IF k = "k2" THEN 3 ELSE 2]
MCFeasible == [s \in {"s1", "s2"} |-> {"k1", "k2"}]

MCInit ==
    /\ topic \in Topics
    /\ Init
MCNext ==
    /\ \/ topic = "runs" /\ RunNext /\ UNCHANGED searchVars
       \/ topic = "trials" /\ SearchNext /\ UNCHANGED runnerVars
    /\ UNCHANGED topic
MCSpec == MCInit /\ [][MCNext]_MCVars

\* A controller that is not killed works on; interrupts, lost workers and new searches
\* are not promised.
MCFairSpec ==
    MCSpec /\ \A c \in Controllers : WF_vars(topic = "trials" /\ Work(c) /\ UNCHANGED <<runnerVars, topic>>)
=============================================================================
