--------------------------- MODULE ArchiveProofs ----------------------------
(***************************************************************************)
(* Proofs about Experiments: processes that run backtests and controllers  *)
(* that run searches on one database.                                      *)
(***************************************************************************)
EXTENDS Experiments, FiniteSetTheorems, WellFoundedInduction, TLAPS

-----------------------------------------------------------------------------
\* Part 1: a run that is recorded as succeeded has been published.

RunStatuses == {"running", "succeeded", "failed", "interrupted"}

RunTypes ==
    /\ runs \in [RunIds -> RunStatuses \union {None}]
    /\ dir \in [RunIds -> Requests \union {None}]
    /\ removed \subseteq RunIds
    /\ rpc \in [Runners ->
            {"idle", "called", "running", "compare", "replace", "finish", "log"}]
    /\ ask \in [Runners -> Requests \union {None}]

\* A controller at work has a search of its own.
SearchesKnown ==
    /\ spc \in [Controllers ->
            {"idle", "listing", "executing", "interrupting", "recording", "returned"}]
    /\ search \in [Controllers -> RunIds \union {None}]
    /\ \A c \in Controllers : spc[c] # "idle" => search[c] \in DOMAIN Searches

\* A directory was there, whatever a user did to it since.
WasPublished(r) == dir[r] # None \/ r \in removed

\* What a process is doing it was asked to do, and what it is about to record as finished
\* has been published, by itself or by another process.
RunnersInStep ==
    \A p \in Runners :
        /\ rpc[p] # "idle" => ask[p] \in Requests
        /\ rpc[p] = "finish" => WasPublished(Run(p))

ArchiveInv == RunTypes /\ SearchesKnown /\ RunnersInStep /\ SucceededIsPublished

LEMMA ArchiveInvInit == Init => ArchiveInv
  BY NoneAssumption DEF Init, StoreInit, ArchiveInit, SearchInit, ArchiveInv, RunTypes,
     SearchesKnown, RunnersInStep, SucceededIsPublished, RunOf

LEMMA RunKnown ==
    ASSUME RunTypes, RunnersInStep, NEW p \in Runners, rpc[p] # "idle"
    PROVE  ask[p] \in Requests /\ Run(p) \in RunIds
  BY ArchiveAssumption DEF RunTypes, RunnersInStep, Run, RunOf

LEMMA ArchiveInvRun ==
    ASSUME ArchiveInv, RunNext, UNCHANGED searchVars
    PROVE  ArchiveInv'
<1> USE DEF ArchiveInv
<1>1. SearchesKnown'
  BY DEF SearchesKnown, searchVars
<1>2. RunTypes' /\ RunnersInStep' /\ SucceededIsPublished'
  <2>1. ASSUME NEW p \in Runners, NEW q \in Requests, Call(p, q)
        PROVE  RunTypes' /\ RunnersInStep' /\ SucceededIsPublished'
    BY <2>1, ArchiveAssumption DEF Call, Goto, RunTypes, RunnersInStep,
       SucceededIsPublished, storeVars, WasPublished, Run, RunOf
  <2>2. ASSUME NEW p \in Runners,
               Reuse(p) \/ CallFails(p) \/ Return(p) \/ Kill(p)
        PROVE  RunTypes' /\ RunnersInStep' /\ SucceededIsPublished'
    <3>1. /\ UNCHANGED <<runs, dir, removed>>
          /\ \E result : End(p, result)
      BY <2>2 DEF Reuse, CallFails, Return, Kill, storeVars
    <3> QED
      BY <3>1, ArchiveAssumption DEF End, Goto, RunTypes, RunnersInStep,
         SucceededIsPublished, WasPublished, Run, RunOf
  <2>3. ASSUME NEW p \in Runners, Start(p)
        PROVE  RunTypes' /\ RunnersInStep' /\ SucceededIsPublished'
    <3>1. /\ UNCHANGED <<dir, removed, ask>>
          /\ Goto(p, "running")
          /\ runs' = [runs EXCEPT ![Run(p)] = "running"] \/ runs' = runs
      BY <2>3 DEF Start, StartRun, storeVars
    <3> QED
      BY <3>1, <2>3, RunKnown, ArchiveAssumption DEF Goto, Start, RunTypes, RunnersInStep,
         SucceededIsPublished, WasPublished, Run, RunOf, RunStatuses
  <2>4. ASSUME NEW p \in Runners, Simulate(p) \/ Compare(p)
        PROVE  RunTypes' /\ RunnersInStep' /\ SucceededIsPublished'
    BY <2>4, ArchiveAssumption DEF Simulate, Compare, Goto, RunTypes, RunnersInStep,
       SucceededIsPublished, storeVars, WasPublished, Run, RunOf
  <2>5. ASSUME NEW p \in Runners, Replace(p)
        PROVE  RunTypes' /\ RunnersInStep' /\ SucceededIsPublished'
    <3>1. ask[p] \in Requests /\ ask[p] # None /\ Run(p) \in RunIds
      BY <2>5, RunKnown, ArchiveAssumption DEF Replace
    <3> QED
      BY <2>5, <3>1, ArchiveAssumption DEF Replace, Goto, RunTypes, RunnersInStep,
         SucceededIsPublished, storeVars, WasPublished, Run, RunOf
  <2>6. ASSUME NEW p \in Runners, Finish(p)
        PROVE  RunTypes' /\ RunnersInStep' /\ SucceededIsPublished'
    <3>1. Run(p) \in RunIds /\ WasPublished(Run(p))
      BY <2>6, RunKnown DEF Finish, RunnersInStep
    <3> QED
      BY <2>6, <3>1, ArchiveAssumption DEF Finish, FinishRun, Goto, RunTypes, RunnersInStep,
         SucceededIsPublished, WasPublished, Run, RunOf, RunStatuses
  <2>7. ASSUME NEW p \in Runners, Log(p)
        PROVE  RunTypes' /\ RunnersInStep' /\ SucceededIsPublished'
    <3>1. UNCHANGED <<runs, dir, removed, rpc, ask>>
      BY <2>7 DEF Log, LogArtifact, storeVars
    <3> QED
      BY <3>1 DEF RunTypes, RunnersInStep, SucceededIsPublished, WasPublished, Run, RunOf
  <2>8. ASSUME NEW p \in Runners, Fail(p)
        PROVE  RunTypes' /\ RunnersInStep' /\ SucceededIsPublished'
    <3>1. PICK status \in {"failed", "interrupted"} : FailRun(Run(p), status)
      BY <2>8 DEF Fail
    <3>2. /\ runs' = [runs EXCEPT ![Run(p)] = IF @ = None THEN None ELSE status]
          /\ status \in RunStatuses /\ status # "succeeded"
      BY <3>1 DEF FailRun, RunStatuses
    <3>3. runs' \in [RunIds -> RunStatuses \union {None}]
      BY <3>2 DEF RunTypes
    <3>4. RunTypes'
      BY <2>8, <3>3 DEF Fail, End, Goto, RunTypes
    <3>5. \A r \in RunIds : runs'[r] = "succeeded" => runs[r] = "succeeded"
      BY <3>2, NoneAssumption DEF RunTypes
    <3>6. SucceededIsPublished'
      BY <2>8, <3>5, ArchiveAssumption DEF Fail, SucceededIsPublished, RunOf
    <3>7. RunnersInStep'
      BY <2>8 DEF Fail, End, Goto, RunTypes, RunnersInStep, WasPublished, Run, RunOf
    <3> QED
      BY <3>4, <3>6, <3>7
  <2>9. ASSUME NEW r \in RunIds, RemoveRun(r)
        PROVE  RunTypes' /\ RunnersInStep' /\ SucceededIsPublished'
    BY <2>9, ArchiveAssumption DEF RemoveRun, RunTypes, RunnersInStep,
       SucceededIsPublished, storeVars, WasPublished, Run, RunOf
  <2> QED
    BY <2>1, <2>2, <2>3, <2>4, <2>5, <2>6, <2>7, <2>8, <2>9 DEF RunNext, RunStep
<1> QED
  BY <1>1, <1>2

\* What a search does to the runs it does to its own.
LEMMA SearchKeepsRuns ==
    ASSUME ArchiveInv, SearchNext
    PROVE  /\ SearchesKnown'
           /\ runs' \in [RunIds -> RunStatuses \union {None}]
           /\ \A r \in RunIds \ DOMAIN Searches : runs'[r] = runs[r]
<1> USE DEF ArchiveInv
<1>1. PICK c \in Controllers :
        \/ \E s \in DOMAIN Searches : Launch(c, s)
        \/ Work(c) \/ LoseWorker(c) \/ Interrupt(c) \/ KillController(c)
  BY DEF SearchNext
<1>2. CASE \E s \in DOMAIN Searches : Launch(c, s)
  BY <1>2, SearchAssumption DEF Launch, StartRun, At, SearchesKnown, RunTypes, RunStatuses,
     storeVars
<1>3. CASE RecordInterrupt(c)
  <2>1. /\ runs' = [runs EXCEPT ![search[c]] = IF @ = None THEN None ELSE "interrupted"]
        /\ spc[c] = "interrupting" /\ spc' = [spc EXCEPT ![c] = "idle"]
        /\ UNCHANGED search
    BY <1>3 DEF RecordInterrupt, FailRun, At
  <2>2. search[c] \in DOMAIN Searches
    BY <2>1 DEF SearchesKnown
  <2> QED
    BY <2>1, <2>2, SearchAssumption DEF SearchesKnown, RunTypes, RunStatuses
<1>4. CASE Conclude(c)
  BY <1>4, SearchAssumption DEF Conclude, FinishRun, At, SearchesKnown, RunTypes, RunStatuses
<1>5. CASE \/ LoseWorker(c) \/ Interrupt(c) \/ KillController(c)
           \/ List(c) \/ Execute(c) \/ Submit(c) \/ Gather(c) \/ Record(c) \/ Leave(c)
  <2>1. UNCHANGED <<runs, search>>
    BY <1>5 DEF LoseWorker, Interrupt, KillController, List, Execute, Submit, Gather, Record,
       Leave, UpsertTrial, Running, storeVars
  <2>2. spc' = spc \/ spc' = [spc EXCEPT ![c] = "idle"]
        \/ (spc[c] # "idle" /\ \E there \in {"executing", "interrupting", "recording"} :
                spc' = [spc EXCEPT ![c] = there])
    BY <1>5 DEF LoseWorker, Interrupt, KillController, List, Execute, Submit, Gather, Record,
       Leave, At
  <2> QED
    BY <2>1, <2>2 DEF SearchesKnown, RunTypes
<1>6. ASSUME NEW f \in futures[c],
             \/ \E status \in {"ok", "failed"} : Collect(c, f, status)
             \/ GiveUp(c, f) \/ Retry(c, f) \/ RetryBroken(c, f)
      PROVE  /\ UNCHANGED <<runs, search>>
             /\ spc' = spc \/ spc' = [spc EXCEPT ![c] = "idle"]
  BY <1>6 DEF Collect, GiveUp, Retry, RetryBroken, Running, UpsertTrial, storeVars, At
<1>7. CASE \E f \in futures[c] :
            \/ \E status \in {"ok", "failed"} : Collect(c, f, status)
            \/ GiveUp(c, f) \/ Retry(c, f) \/ RetryBroken(c, f)
  BY <1>6, <1>7 DEF SearchesKnown, RunTypes
<1> QED
  BY <1>1, <1>2, <1>3, <1>4, <1>5, <1>7 DEF Work

LEMMA ArchiveInvSearch ==
    ASSUME ArchiveInv, SearchNext, UNCHANGED runnerVars
    PROVE  ArchiveInv'
<1>1. /\ SearchesKnown'
      /\ runs' \in [RunIds -> RunStatuses \union {None}]
      /\ \A r \in RunIds \ DOMAIN Searches : runs'[r] = runs[r]
  BY SearchKeepsRuns
<1>2. UNCHANGED <<dir, removed, rpc, ask>>
  BY DEF runnerVars
<1>3. RunTypes' /\ RunnersInStep'
  BY <1>1, <1>2 DEF ArchiveInv, RunTypes, RunnersInStep, WasPublished, Run, RunOf
<1>4. SucceededIsPublished'
  BY <1>1, <1>2, ArchiveAssumption, RunsAreNotSearches DEF ArchiveInv,
     SucceededIsPublished, RunOf
<1> QED
  BY <1>1, <1>3, <1>4 DEF ArchiveInv

LEMMA ArchiveInvStep == ArchiveInv /\ [Next]_vars => ArchiveInv'
<1>1. ASSUME ArchiveInv, UNCHANGED vars PROVE ArchiveInv'
  BY <1>1 DEF vars, storeVars, runnerVars, searchVars, ArchiveInv, RunTypes, SearchesKnown,
     RunnersInStep, SucceededIsPublished, WasPublished, Run, RunOf
<1> QED
  BY <1>1, ArchiveInvRun, ArchiveInvSearch DEF Next

\* A run is recorded as succeeded only when its directory is there or was removed by a
\* user, whatever the processes and the searches do at the same time (os.replace, then
\* finish_run).
THEOREM SuccessIsPublished == Spec => []SucceededIsPublished
<1>1. ArchiveInv => SucceededIsPublished
  BY DEF ArchiveInv
<1> QED
  BY ArchiveInvInit, ArchiveInvStep, <1>1, PTL DEF Spec

-----------------------------------------------------------------------------
\* Part 2: a search accounts for its trials and a success on record stays.

\* A controller at a time uses the database, as in the archive run: two that list the same
\* trial write its row over each other.
OneController == \A c, d \in Controllers : c = d

\* No search lists a trial twice: RandomSampler drops what it has seen, a grid over
\* distinct values has no two equal points.
NoTrialTwice ==
    \A s \in DOMAIN Searches : \A i, j \in DOMAIN Searches[s] :
        Searches[s][i] = Searches[s][j] => i = j

\* Searches that share a trial agree on whether it meets their constraints: the key of a
\* trial says nothing of them (SearchEngine.run).
SameConstraints ==
    \A s, t \in DOMAIN Searches :
        \A k \in ToSet(Searches[s]) \intersect ToSet(Searches[t]) :
            k \in Feasible[s] <=> k \in Feasible[t]

Allowed == 1 .. Retries + 1
TrialStatuses ==
    {"queued", "running", "succeeded", "failed", "constrained", "interrupted"}
TrialRows ==
    [search : RunIds, status : TrialStatuses, attempts : Nat, value : Nat \union {None}]
Attempts == [key : TrialKeys, attempt : Allowed]
Outcomes == [key : TrialKeys, attempt : Allowed, status : {"ok", "failed"}]
Results == [key : TrialKeys, status : TrialStatuses]

SearchTypes ==
    /\ trials \in [TrialKeys -> TrialRows \union {None}]
    /\ waiting \in [Controllers -> Seq(TrialKeys)]
    /\ futures \in [Controllers -> SUBSET Attempts]
    /\ DOMAIN completed = Controllers
    /\ results \in [Controllers -> Seq(Results)]
    /\ DOMAIN best = Controllers

Succeeded(k) == IF trials[k] = None THEN FALSE ELSE trials[k].status = "succeeded"

Distinct(s) == \A i, j \in DOMAIN s : s[i] = s[j] => i = j
KeysOf(s) == {s[i].key : i \in DOMAIN s}
DistinctKeys(s) == \A i, j \in DOMAIN s : s[i].key = s[j].key => i = j

\* What is on record as a success was tried as often as is allowed, and meets the
\* constraints of whoever may reuse it.
SuccessesSound ==
    \A k \in TrialKeys : Succeeded(k) =>
        /\ trials[k].attempts \in Allowed
        /\ \A s \in DOMAIN Searches : k \in ToSet(Searches[s]) => k \in Feasible[s]

\* The results so far stand in the database.
ResultsOnRecord(c) ==
    \A i \in DOMAIN results[c] :
        LET r == results[c][i] IN
        /\ r.key \in Keys(c)
        /\ trials[r.key].status = r.status
        /\ trials[r.key].attempts \in Allowed
        /\ r.status = "succeeded" => r.key \in Feasible[search[c]]

Listing(c) ==
    /\ futures[c] = {}
    /\ completed[c] \in Seq(TrialKeys)
    /\ Distinct(completed[c]) /\ Distinct(waiting[c])
    /\ ToSet(completed[c]) \intersect ToSet(waiting[c]) = {}
    /\ KeysOf(results[c]) \intersect (ToSet(completed[c]) \union ToSet(waiting[c])) = {}
    /\ KeysOf(results[c]) \union ToSet(completed[c]) \union ToSet(waiting[c]) = Keys(c)
    /\ Len(results[c]) + Len(completed[c]) + Len(waiting[c]) = Len(Searches[search[c]])
    /\ \A k \in ToSet(completed[c]) : ~ Succeeded(k)

FutureKeys(c) == {f.key : f \in futures[c]}
Executing(c) ==
    /\ completed[c] \in Seq(Outcomes)
    /\ IsFiniteSet(futures[c])
    /\ Distinct(waiting[c]) /\ DistinctKeys(completed[c])
    /\ \A f, g \in futures[c] : f.key = g.key => f = g
    /\ ToSet(waiting[c]) \intersect FutureKeys(c) = {}
    /\ ToSet(waiting[c]) \intersect KeysOf(completed[c]) = {}
    /\ FutureKeys(c) \intersect KeysOf(completed[c]) = {}
    /\ KeysOf(results[c])
         \intersect (ToSet(waiting[c]) \union FutureKeys(c) \union KeysOf(completed[c])) = {}
    /\ KeysOf(results[c]) \union ToSet(waiting[c]) \union FutureKeys(c)
         \union KeysOf(completed[c]) = Keys(c)
    /\ Len(results[c]) + Len(waiting[c]) + Cardinality(futures[c]) + Len(completed[c])
         = Len(Searches[search[c]])
    /\ \A k \in ToSet(waiting[c]) \union FutureKeys(c) \union KeysOf(completed[c]) :
         ~ Succeeded(k)

Recording(c) ==
    /\ completed[c] \in Seq(Outcomes)
    /\ DistinctKeys(completed[c])
    /\ KeysOf(results[c]) \intersect KeysOf(completed[c]) = {}
    /\ KeysOf(results[c]) \union KeysOf(completed[c]) = Keys(c)
    /\ Len(results[c]) + Len(completed[c]) = Len(Searches[search[c]])
    /\ \A k \in KeysOf(completed[c]) : ~ Succeeded(k)

Returned(c) ==
    /\ KeysOf(results[c]) = Keys(c)
    /\ Len(results[c]) = Len(Searches[search[c]])
    /\ best[c] = Best(c)

SearchInStep ==
    \A c \in Controllers :
        /\ spc[c] \notin {"idle", "interrupting"} => ResultsOnRecord(c)
        /\ spc[c] = "listing" => Listing(c)
        /\ spc[c] = "executing" => Executing(c)
        /\ spc[c] = "recording" => Recording(c)
        /\ spc[c] = "returned" => Returned(c)

SearchInv == SearchesKnown /\ SearchTypes /\ SuccessesSound /\ SearchInStep

-----------------------------------------------------------------------------
\* Sequences without repetition, of values and of records with a key.

LEMMA ToSetAppend ==
    ASSUME NEW S, NEW s \in Seq(S), NEW x \in S
    PROVE  /\ ToSet(Append(s, x)) = ToSet(s) \union {x}
           /\ Distinct(s) /\ x \notin ToSet(s) => Distinct(Append(s, x))
<1>1. /\ DOMAIN s = 1 .. Len(s) /\ DOMAIN Append(s, x) = 1 .. Len(s) + 1 /\ Len(s) \in Nat
      /\ \A i \in 1 .. Len(s) : Append(s, x)[i] = s[i]
      /\ Append(s, x)[Len(s) + 1] = x
  OBVIOUS
<1>2. ToSet(Append(s, x)) = ToSet(s) \union {x}
  <2>1. \A i \in DOMAIN Append(s, x) : i \in DOMAIN s \/ i = Len(s) + 1
    BY <1>1
  <2>2. Len(s) + 1 \in DOMAIN Append(s, x) /\ \A i \in DOMAIN s : i \in DOMAIN Append(s, x)
    BY <1>1
  <2>3. ToSet(Append(s, x)) \subseteq ToSet(s) \union {x}
    BY <1>1, <2>1 DEF ToSet
  <2>4. x \in ToSet(Append(s, x)) /\ ToSet(s) \subseteq ToSet(Append(s, x))
    BY <1>1, <2>2 DEF ToSet
  <2> QED
    BY <2>3, <2>4
<1>3. ASSUME Distinct(s), x \notin ToSet(s) PROVE Distinct(Append(s, x))
  BY <1>1, <1>3 DEF Distinct, ToSet
<1> QED
  BY <1>2, <1>3

LEMMA ToSetTail ==
    ASSUME NEW S, NEW s \in Seq(S), s # <<>>
    PROVE  /\ Head(s) \in S /\ Tail(s) \in Seq(S) /\ Len(Tail(s)) = Len(s) - 1
           /\ Distinct(s) => Distinct(Tail(s)) /\ ToSet(Tail(s)) = ToSet(s) \ {Head(s)}
           /\ Head(s) \in ToSet(s)
<1>1. /\ Tail(s) \in Seq(S) /\ Len(Tail(s)) = Len(s) - 1 /\ Len(s) \in Nat \ {0}
      /\ \A i \in 1 .. Len(s) - 1 : Tail(s)[i] = s[i + 1]
      /\ Head(s) = s[1] /\ s[1] \in S
      /\ DOMAIN s = 1 .. Len(s) /\ DOMAIN Tail(s) = 1 .. Len(s) - 1
  OBVIOUS
<1>2. Head(s) \in ToSet(s)
  BY <1>1 DEF ToSet
<1>3. ASSUME Distinct(s) PROVE Distinct(Tail(s))
  <2> SUFFICES ASSUME NEW i \in 1 .. Len(s) - 1, NEW j \in 1 .. Len(s) - 1,
                      Tail(s)[i] = Tail(s)[j]
               PROVE  i = j
    BY <1>1 DEF Distinct
  <2>1. s[i + 1] = s[j + 1] /\ i + 1 \in DOMAIN s /\ j + 1 \in DOMAIN s
    BY <1>1
  <2> QED
    BY <2>1, <1>3 DEF Distinct
<1>4. ASSUME Distinct(s) PROVE ToSet(Tail(s)) = ToSet(s) \ {Head(s)}
  <2>1. ASSUME NEW i \in 1 .. Len(s) - 1
        PROVE  Tail(s)[i] \in ToSet(s) \ {Head(s)}
    <3>1. Tail(s)[i] = s[i + 1] /\ i + 1 \in DOMAIN s /\ 1 \in DOMAIN s /\ i + 1 # 1
      BY <1>1
    <3> QED
      BY <3>1, <1>1, <1>4 DEF ToSet, Distinct
  <2>2. ASSUME NEW i \in DOMAIN s, s[i] # Head(s)
        PROVE  s[i] \in ToSet(Tail(s))
    <3>1. i # 1 /\ i - 1 \in 1 .. Len(s) - 1
      BY <2>2, <1>1
    <3>2. s[i] = Tail(s)[i - 1]
      BY <3>1, <1>1
    <3>3. i - 1 \in DOMAIN Tail(s)
      BY <3>1, <1>1
    <3>4. Tail(s)[i - 1] \in ToSet(Tail(s))
      BY <3>3 DEF ToSet
    <3> QED
      BY <3>2, <3>4
  <2>3. ToSet(Tail(s)) \subseteq ToSet(s) \ {Head(s)}
    BY <2>1, <1>1 DEF ToSet
  <2>4. ToSet(s) \ {Head(s)} \subseteq ToSet(Tail(s))
    <3> SUFFICES ASSUME NEW x \in ToSet(s) \ {Head(s)} PROVE x \in ToSet(Tail(s))
      OBVIOUS
    <3>1. PICK i \in DOMAIN s : x = s[i]
      BY DEF ToSet
    <3> QED
      BY <3>1, <2>2
  <2> QED
    BY <2>3, <2>4
<1> QED
  BY <1>1, <1>2, <1>3, <1>4

LEMMA KeysAppend ==
    ASSUME NEW S, NEW s \in Seq(S), NEW x \in S
    PROVE  /\ KeysOf(Append(s, x)) = KeysOf(s) \union {x.key}
           /\ DistinctKeys(s) /\ x.key \notin KeysOf(s) => DistinctKeys(Append(s, x))
<1>1. /\ DOMAIN s = 1 .. Len(s) /\ DOMAIN Append(s, x) = 1 .. Len(s) + 1 /\ Len(s) \in Nat
      /\ \A i \in 1 .. Len(s) : Append(s, x)[i] = s[i]
      /\ Append(s, x)[Len(s) + 1] = x
  OBVIOUS
<1>2. KeysOf(Append(s, x)) = KeysOf(s) \union {x.key}
  <2>1. \A i \in DOMAIN Append(s, x) : i \in DOMAIN s \/ i = Len(s) + 1
    BY <1>1
  <2>2. Len(s) + 1 \in DOMAIN Append(s, x) /\ \A i \in DOMAIN s : i \in DOMAIN Append(s, x)
    BY <1>1
  <2>3. KeysOf(Append(s, x)) \subseteq KeysOf(s) \union {x.key}
    BY <1>1, <2>1 DEF KeysOf
  <2>4. x.key \in KeysOf(Append(s, x))
    BY <1>1, <2>2 DEF KeysOf
  <2>5. KeysOf(s) \subseteq KeysOf(Append(s, x))
    BY <1>1, <2>2 DEF KeysOf
  <2> QED
    BY <2>3, <2>4, <2>5
<1>3. ASSUME DistinctKeys(s), x.key \notin KeysOf(s) PROVE DistinctKeys(Append(s, x))
  <2> SUFFICES ASSUME NEW i \in 1 .. Len(s) + 1, NEW j \in 1 .. Len(s) + 1,
                      Append(s, x)[i].key = Append(s, x)[j].key
               PROVE  i = j
    BY <1>1 DEF DistinctKeys
  <2>1. CASE i \in DOMAIN s /\ j \in DOMAIN s
    BY <2>1, <1>1, <1>3 DEF DistinctKeys
  <2>2. CASE i \notin DOMAIN s /\ j \notin DOMAIN s
    BY <2>2, <1>1
  <2>3. CASE i \in DOMAIN s /\ j \notin DOMAIN s
    <3>1. Append(s, x)[i] = s[i] /\ Append(s, x)[j] = x
      BY <2>3, <1>1
    <3> QED
      BY <3>1, <2>3, <1>3 DEF KeysOf
  <2>4. CASE i \notin DOMAIN s /\ j \in DOMAIN s
    <3>1. Append(s, x)[j] = s[j] /\ Append(s, x)[i] = x
      BY <2>4, <1>1
    <3> QED
      BY <3>1, <2>4, <1>3 DEF KeysOf
  <2> QED
    BY <2>1, <2>2, <2>3, <2>4
<1> QED
  BY <1>2, <1>3

LEMMA KeysTail ==
    ASSUME NEW S, NEW s \in Seq(S), s # <<>>
    PROVE  /\ Head(s) \in S /\ Tail(s) \in Seq(S) /\ Len(Tail(s)) = Len(s) - 1
           /\ DistinctKeys(s) =>
                DistinctKeys(Tail(s)) /\ KeysOf(Tail(s)) = KeysOf(s) \ {Head(s).key}
           /\ Head(s).key \in KeysOf(s)
<1>1. /\ Tail(s) \in Seq(S) /\ Len(Tail(s)) = Len(s) - 1 /\ Len(s) \in Nat \ {0}
      /\ \A i \in 1 .. Len(s) - 1 : Tail(s)[i] = s[i + 1]
      /\ Head(s) = s[1] /\ s[1] \in S
      /\ DOMAIN s = 1 .. Len(s) /\ DOMAIN Tail(s) = 1 .. Len(s) - 1
  OBVIOUS
<1>2. Head(s).key \in KeysOf(s)
  BY <1>1 DEF KeysOf
<1>3. ASSUME DistinctKeys(s) PROVE DistinctKeys(Tail(s))
  <2> SUFFICES ASSUME NEW i \in 1 .. Len(s) - 1, NEW j \in 1 .. Len(s) - 1,
                      Tail(s)[i].key = Tail(s)[j].key
               PROVE  i = j
    BY <1>1 DEF DistinctKeys
  <2>1. /\ Tail(s)[i] = s[i + 1] /\ Tail(s)[j] = s[j + 1]
        /\ i + 1 \in DOMAIN s /\ j + 1 \in DOMAIN s
    BY <1>1
  <2>2. i + 1 = j + 1
    BY <2>1, <1>3 DEF DistinctKeys
  <2> QED
    BY <2>2
<1>4. ASSUME DistinctKeys(s) PROVE KeysOf(Tail(s)) = KeysOf(s) \ {Head(s).key}
  <2>1. ASSUME NEW i \in 1 .. Len(s) - 1
        PROVE  Tail(s)[i].key \in KeysOf(s) \ {Head(s).key}
    <3>1. Tail(s)[i] = s[i + 1] /\ i + 1 \in DOMAIN s /\ 1 \in DOMAIN s /\ i + 1 # 1
      BY <1>1
    <3> QED
      BY <3>1, <1>1, <1>4 DEF KeysOf, DistinctKeys
  <2>2. ASSUME NEW i \in DOMAIN s, s[i].key # Head(s).key
        PROVE  s[i].key \in KeysOf(Tail(s))
    <3>1. i # 1 /\ i - 1 \in 1 .. Len(s) - 1
      BY <2>2, <1>1
    <3>2. s[i] = Tail(s)[i - 1]
      BY <3>1, <1>1
    <3> QED
      BY <3>1, <3>2, <1>1 DEF KeysOf
  <2> QED
    BY <2>1, <2>2, <1>1 DEF KeysOf
<1> QED
  BY <1>1, <1>2, <1>3, <1>4

-----------------------------------------------------------------------------
\* One step of a controller.

\* Writing the row of a trial that has not succeeded.
LEMMA Upsert ==
    ASSUME SearchTypes, SuccessesSound, NEW k \in TrialKeys, NEW row \in TrialRows,
           trials' = [trials EXCEPT ![k] = row], ~ Succeeded(k),
           row.status = "succeeded" =>
              /\ row.attempts \in Allowed
              /\ \A s \in DOMAIN Searches : k \in ToSet(Searches[s]) => k \in Feasible[s]
    PROVE  /\ trials' \in [TrialKeys -> TrialRows \union {None}]
           /\ SuccessesSound'
           /\ trials'[k] = row
           /\ row.status # "succeeded" => ~ Succeeded(k)'
           /\ \A j \in TrialKeys : j # k =>
                trials'[j] = trials[j] /\ (~ Succeeded(j) => ~ Succeeded(j)')
           /\ \A j \in TrialKeys : Succeeded(j) => trials'[j] = trials[j]
<1>1. trials' \in [TrialKeys -> TrialRows \union {None}]
  BY DEF SearchTypes
<1>2. /\ trials'[k] = row
      /\ \A j \in TrialKeys : j # k => trials'[j] = trials[j]
  BY DEF SearchTypes
<1>3. row.status # "succeeded" => ~ Succeeded(k)'
  BY <1>2 DEF Succeeded
<1>4. \A j \in TrialKeys : j # k => (Succeeded(j)' <=> Succeeded(j))
  BY <1>2 DEF Succeeded
<1>5. SuccessesSound'
  <2> SUFFICES ASSUME NEW j \in TrialKeys, Succeeded(j)'
               PROVE  /\ trials'[j].attempts \in Allowed
                      /\ \A s \in DOMAIN Searches :
                            j \in ToSet(Searches[s]) => j \in Feasible[s]
    BY DEF SuccessesSound
  <2>1. CASE j = k
    BY <2>1, <1>2, <1>3
  <2>2. CASE j # k
    BY <2>2, <1>2, <1>4 DEF SuccessesSound
  <2> QED
    BY <2>1, <2>2
<1> QED
  BY <1>1, <1>2, <1>3, <1>4, <1>5

\* Such a row leaves the results so far on record.
LEMMA UpsertKeepsResults ==
    ASSUME SearchTypes, NEW c \in Controllers, ResultsOnRecord(c), NEW k \in TrialKeys,
           k \notin KeysOf(results[c]),
           \A j \in TrialKeys : j # k => trials'[j] = trials[j],
           results' = results, search' = search
    PROVE  ResultsOnRecord(c)'
<1> SUFFICES ASSUME NEW i \in DOMAIN results[c]
             PROVE  LET r == results[c][i] IN
                    /\ r.key \in Keys(c)
                    /\ trials'[r.key].status = r.status
                    /\ trials'[r.key].attempts \in Allowed
                    /\ r.status = "succeeded" => r.key \in Feasible[search[c]]
  BY DEF ResultsOnRecord, Keys
<1>1. results[c][i].key \in TrialKeys /\ results[c][i].key # k
  <2>1. results[c] \in Seq(Results)
    BY DEF SearchTypes
  <2>2. results[c][i] \in Results
    BY <2>1
  <2>3. results[c][i].key \in KeysOf(results[c])
    BY DEF KeysOf
  <2> QED
    BY <2>2, <2>3 DEF Results
<1> QED
  BY <1>1 DEF ResultsOnRecord

LEMMA SearchKeys ==
    ASSUME SearchesKnown, NEW c \in Controllers, spc[c] # "idle"
    PROVE  /\ search[c] \in DOMAIN Searches /\ search[c] \in RunIds
           /\ Searches[search[c]] \in Seq(TrialKeys)
           /\ Keys(c) \subseteq TrialKeys
<1>1. /\ search[c] \in DOMAIN Searches /\ search[c] \in RunIds
      /\ Searches[search[c]] \in Seq(TrialKeys)
  BY SearchAssumption DEF SearchesKnown
<1> QED
  BY <1>1 DEF Keys, ToSet

LEMMA LaunchStep ==
    ASSUME OneController, NoTrialTwice, SearchInv,
           NEW c \in Controllers, NEW s \in DOMAIN Searches, Launch(c, s)
    PROVE  SearchTypes' /\ SuccessesSound' /\ SearchInStep' /\ UNCHANGED trials
<1> USE DEF SearchInv
<1>1. UNCHANGED trials
  BY DEF Launch, StartRun, storeVars
<1>2. Searches[s] \in Seq(TrialKeys) /\ s \in RunIds
  BY SearchAssumption
<1>3. /\ spc' = [spc EXCEPT ![c] = "listing"]
      /\ search' = [search EXCEPT ![c] = s]
      /\ waiting' = [waiting EXCEPT ![c] = Searches[s]]
      /\ futures' = [futures EXCEPT ![c] = {}]
      /\ completed' = [completed EXCEPT ![c] = <<>>]
      /\ results' = [results EXCEPT ![c] = <<>>]
      /\ best' = [best EXCEPT ![c] = None]
  BY DEF Launch, At
<1>4. SearchTypes'
  BY <1>1, <1>2, <1>3 DEF SearchTypes
<1>5. SuccessesSound'
  BY <1>1 DEF SuccessesSound, Succeeded
<1>6. /\ spc'[c] = "listing" /\ search'[c] = s /\ waiting'[c] = Searches[s]
      /\ futures'[c] = {} /\ completed'[c] = <<>> /\ results'[c] = <<>>
  BY <1>3 DEF SearchTypes, SearchesKnown
<1>7. ResultsOnRecord(c)'
  BY <1>6 DEF ResultsOnRecord
<1>8. Listing(c)'
  <2>1. Distinct(Searches[s]) /\ Distinct(<<>>)
    BY <1>2 DEF NoTrialTwice, Distinct
  <2>2. ToSet(<<>>) = {} /\ KeysOf(<<>>) = {} /\ <<>> \in Seq(TrialKeys) /\ Len(<<>>) = 0
    BY DEF ToSet, KeysOf
  <2>3. Keys(c)' = ToSet(Searches[s])
    BY <1>6 DEF Keys
  <2>4. Len(Searches[s]) \in Nat
    BY <1>2
  <2> QED
    BY <1>6, <2>1, <2>2, <2>3, <2>4 DEF Listing
<1> QED
  BY <1>1, <1>4, <1>5, <1>6, <1>7, <1>8 DEF OneController, SearchInStep

\* One key goes from a part of a partition to another.
LEMMA MovedKey ==
    ASSUME NEW K, NEW R, NEW A, NEW W, NEW k \in W,
           A \intersect W = {}, R \intersect (A \union W) = {}, R \union A \union W = K
    PROVE  /\ (A \union {k}) \intersect (W \ {k}) = {}
           /\ R \intersect ((A \union {k}) \union (W \ {k})) = {}
           /\ R \union (A \union {k}) \union (W \ {k}) = K
OBVIOUS

LEMMA ListStep ==
    ASSUME OneController, SearchInv, NEW c \in Controllers, List(c)
    PROVE  /\ SearchTypes' /\ SuccessesSound' /\ SearchInStep'
           /\ \A k \in TrialKeys : Succeeded(k) => trials'[k] = trials[k]
<1> USE DEF SearchInv
<1>0. PICK k, rest : k = Head(waiting[c]) /\ rest = Tail(waiting[c])
  OBVIOUS
<1>1. /\ spc[c] = "listing" /\ waiting[c] # <<>>
      /\ waiting' = [waiting EXCEPT ![c] = rest]
      /\ UNCHANGED <<spc, search, futures, best>>
  BY <1>0 DEF List
<1>2. ResultsOnRecord(c) /\ Listing(c)
  BY <1>1 DEF SearchInStep
<1>3. waiting[c] \in Seq(TrialKeys) /\ results[c] \in Seq(Results)
  BY DEF SearchTypes
<1>4. /\ k \in TrialKeys /\ rest \in Seq(TrialKeys) /\ Len(rest) = Len(waiting[c]) - 1
      /\ Distinct(rest) /\ ToSet(rest) = ToSet(waiting[c]) \ {k} /\ k \in ToSet(waiting[c])
  BY <1>0, <1>1, <1>2, <1>3, ToSetTail DEF Listing
<1>5. waiting'[c] = rest /\ spc'[c] = "listing" /\ futures'[c] = {} /\ Keys(c)' = Keys(c)
      /\ search'[c] = search[c]
  BY <1>1, <1>2 DEF SearchTypes, Listing, Keys
<1>6. /\ Len(waiting[c]) \in Nat /\ Len(results[c]) \in Nat /\ Len(completed[c]) \in Nat
      /\ k \in Keys(c) /\ k \notin KeysOf(results[c]) /\ k \notin ToSet(completed[c])
  BY <1>2, <1>3, <1>4 DEF Listing
<1>7. /\ search[c] \in DOMAIN Searches /\ search[c] \in RunIds
      /\ Len(results[c]) + Len(completed[c]) + Len(waiting[c]) = Len(Searches[search[c]])
  BY <1>2, SearchKeys, <1>1 DEF Listing
<1>8. PICK l \in Nat, m \in Nat, n \in Nat :
            /\ Len(results[c]) = l /\ Len(completed[c]) = m /\ Len(waiting[c]) = n
            /\ l + m + n = Len(Searches[search[c]])
            /\ Len(rest) = n - 1
  BY <1>4, <1>6, <1>7
<1>9. CASE Reusable(k)
  <2>0. PICK r : r = Result(k, "succeeded")
    OBVIOUS
  <2>1. /\ results' = [results EXCEPT ![c] = Append(@, r)]
        /\ UNCHANGED <<trials, completed>>
    BY <1>0, <2>0, <1>9 DEF List, storeVars
  <2>2. Succeeded(k)
    BY <1>9 DEF Reusable, Succeeded
  <2>3. r \in Results /\ r.key = k /\ r.status = "succeeded"
    BY <1>4, <2>0 DEF Result, Results, TrialStatuses
  <2>4. /\ results'[c] = Append(results[c], r) /\ results'[c] \in Seq(Results)
        /\ Len(results'[c]) = Len(results[c]) + 1
        /\ KeysOf(results'[c]) = KeysOf(results[c]) \union {k}
    <3>1. results'[c] = Append(results[c], r)
      BY <2>1 DEF SearchTypes
    <3> QED
      BY <3>1, <1>3, <2>3, KeysAppend
  <2>5. SearchTypes'
    BY <1>1, <1>3, <1>4, <2>1, <2>3 DEF SearchTypes
  <2>6. SuccessesSound'
    BY <2>1 DEF SuccessesSound, Succeeded
  <2>7. ResultsOnRecord(c)'
    <3> SUFFICES ASSUME NEW i \in DOMAIN results'[c]
                 PROVE  LET q == results'[c][i] IN
                        /\ q.key \in Keys(c)
                        /\ trials[q.key].status = q.status
                        /\ trials[q.key].attempts \in Allowed
                        /\ q.status = "succeeded" => q.key \in Feasible[search[c]]
      BY <1>5, <2>1 DEF ResultsOnRecord
    <3>1. CASE i \in DOMAIN results[c]
      <4>1. results'[c][i] = results[c][i]
        BY <3>1, <2>4, <1>3, <2>3
      <4> QED
        BY <4>1, <3>1, <1>2 DEF ResultsOnRecord
    <3>2. CASE i \notin DOMAIN results[c]
      <4>1. results'[c][i] = r
        BY <3>2, <2>4, <1>3, <2>3
      <4>2. trials[k].status = "succeeded" /\ trials[k].attempts \in Allowed
        BY <2>2, <1>4 DEF Succeeded, SuccessesSound
      <4>3. k \in Feasible[search[c]]
        BY <2>2, <1>4, <1>6, <1>7 DEF SuccessesSound, Keys
      <4> QED
        BY <4>1, <4>2, <4>3, <2>3, <1>6
    <3> QED
      BY <3>1, <3>2
  <2>8. Listing(c)'
    <3>1. completed'[c] = completed[c]
      BY <2>1
    <3>2. \A j \in ToSet(completed[c]) : ~ Succeeded(j)'
      BY <1>2, <2>1 DEF Listing, Succeeded
    <3>3. Len(results'[c]) + Len(completed[c]) + Len(rest) = Len(Searches[search[c]])
      <4>1. Len(results'[c]) = l + 1
        BY <1>8, <2>4
      <4>2. (l + 1) + m + (n - 1) = l + m + n
        OBVIOUS
      <4> QED
        BY <1>8, <4>1, <4>2
    <3> QED
      BY <1>2, <1>4, <1>5, <1>6, <2>4, <3>1, <3>2, <3>3 DEF Listing
  <2> QED
    BY <1>5, <2>1, <2>5, <2>6, <2>7, <2>8 DEF OneController, SearchInStep
<1>10. CASE ~ Reusable(k)
  <2>0. PICK row : row = TrialRow(search[c], "queued", 0, None)
    OBVIOUS
  <2>1. /\ trials' = [trials EXCEPT ![k] = row]
        /\ completed' = [completed EXCEPT ![c] = Append(@, k)]
        /\ UNCHANGED results
    BY <1>0, <2>0, <1>10 DEF List, UpsertTrial
  <2>2. ~ Succeeded(k)
    BY <1>10 DEF Reusable, Succeeded
  <2>3. row \in TrialRows /\ row.status # "succeeded"
    BY <1>7, <2>0 DEF TrialRow, TrialRows, TrialStatuses
  <2>4. /\ trials' \in [TrialKeys -> TrialRows \union {None}]
        /\ SuccessesSound'
        /\ ~ Succeeded(k)'
        /\ \A j \in TrialKeys : j # k =>
             trials'[j] = trials[j] /\ (~ Succeeded(j) => ~ Succeeded(j)')
        /\ \A j \in TrialKeys : Succeeded(j) => trials'[j] = trials[j]
    BY <1>4, <2>1, <2>2, <2>3, Upsert
  <2>5. completed'[c] = Append(completed[c], k)
    BY <2>1 DEF SearchTypes
  <2>6. SearchTypes'
    BY <1>1, <1>4, <2>1, <2>4 DEF SearchTypes
  <2>7. ResultsOnRecord(c)'
    BY <1>1, <1>2, <1>4, <1>6, <2>1, <2>4, UpsertKeepsResults
  <2>8. Listing(c)'
    <3>1. completed[c] \in Seq(TrialKeys) /\ Distinct(completed[c])
      BY <1>2 DEF Listing
    <3>2. /\ ToSet(completed'[c]) = ToSet(completed[c]) \union {k}
          /\ Distinct(completed'[c])
          /\ completed'[c] \in Seq(TrialKeys) /\ Len(completed'[c]) = Len(completed[c]) + 1
      BY <3>1, <2>5, <1>4, <1>6, ToSetAppend
    <3>3. ToSet(completed[c]) \subseteq TrialKeys
      BY <3>1 DEF ToSet
    <3>4. \A j \in ToSet(completed'[c]) : ~ Succeeded(j)'
      <4> SUFFICES ASSUME NEW j \in ToSet(completed[c]) PROVE ~ Succeeded(j)'
        BY <2>4, <3>2
      <4>1. ~ Succeeded(j) /\ j \in TrialKeys
        BY <1>2, <3>3 DEF Listing
      <4> QED
        BY <4>1, <2>4
    <3>5. Len(results[c]) + Len(completed'[c]) + Len(rest) = Len(Searches[search[c]])
      <4>1. Len(completed'[c]) = m + 1
        BY <1>8, <3>2
      <4>2. l + (m + 1) + (n - 1) = l + m + n
        OBVIOUS
      <4> QED
        BY <1>8, <4>1, <4>2
    <3>6. /\ ToSet(completed'[c]) \intersect ToSet(rest) = {}
          /\ KeysOf(results[c]) \intersect (ToSet(completed'[c]) \union ToSet(rest)) = {}
          /\ KeysOf(results[c]) \union ToSet(completed'[c]) \union ToSet(rest) = Keys(c)
      <4>1. /\ ToSet(completed[c]) \intersect ToSet(waiting[c]) = {}
            /\ KeysOf(results[c]) \intersect (ToSet(completed[c]) \union ToSet(waiting[c])) = {}
            /\ KeysOf(results[c]) \union ToSet(completed[c]) \union ToSet(waiting[c]) = Keys(c)
        BY <1>2 DEF Listing
      <4> HIDE DEF SearchInv
      <4>2. /\ (ToSet(completed[c]) \union {k}) \intersect (ToSet(waiting[c]) \ {k}) = {}
            /\ KeysOf(results[c]) \intersect ((ToSet(completed[c]) \union {k})
                                                 \union (ToSet(waiting[c]) \ {k})) = {}
            /\ KeysOf(results[c]) \union (ToSet(completed[c]) \union {k})
                                 \union (ToSet(waiting[c]) \ {k}) = Keys(c)
        BY ONLY <4>1, <1>4, MovedKey
      <4> QED
        BY ONLY <4>2, <3>2, <1>4
    <3>7. results'[c] = results[c]
      BY <2>1
    <3> HIDE DEF SearchInv
    <3> QED
      BY ONLY <1>4, <1>5, <3>2, <3>4, <3>5, <3>6, <3>7 DEF Listing
  <2> QED
    BY <1>5, <2>4, <2>6, <2>7, <2>8 DEF OneController, SearchInStep
<1> QED
  BY <1>9, <1>10

LEMMA ExecuteStep ==
    ASSUME OneController, SearchInv, NEW c \in Controllers, Execute(c)
    PROVE  SearchTypes' /\ SuccessesSound' /\ SearchInStep' /\ UNCHANGED trials
<1> USE DEF SearchInv
<1>1. /\ spc[c] = "listing" /\ waiting[c] = <<>>
      /\ waiting' = [waiting EXCEPT ![c] = completed[c]]
      /\ completed' = [completed EXCEPT ![c] = <<>>]
      /\ spc' = [spc EXCEPT ![c] = "executing"]
      /\ UNCHANGED <<trials, search, futures, results, best>>
  BY DEF Execute, At, storeVars
<1>2. ResultsOnRecord(c) /\ Listing(c)
  BY <1>1 DEF SearchInStep
<1>3. SearchTypes'
  BY <1>1, <1>2 DEF SearchTypes, Listing
<1>4. SuccessesSound'
  BY <1>1 DEF SuccessesSound, Succeeded
<1>5. ResultsOnRecord(c)'
  BY <1>1, <1>2 DEF ResultsOnRecord, Keys
<1>6. /\ waiting'[c] = completed[c] /\ completed'[c] = <<>> /\ futures'[c] = {}
      /\ spc'[c] = "executing" /\ Keys(c)' = Keys(c)
  BY <1>1, <1>2 DEF SearchTypes, SearchesKnown, Listing, Keys
<1>7. Executing(c)'
  <2>1. KeysOf(<<>>) = {} /\ ToSet(<<>>) = {} /\ DistinctKeys(<<>>)
        /\ <<>> \in Seq(Outcomes) /\ Len(<<>>) = 0
    BY DEF KeysOf, ToSet, DistinctKeys
  <2>2. FutureKeys(c)' = {} /\ IsFiniteSet({}) /\ Cardinality({}) = 0
    BY <1>6, FS_EmptySet DEF FutureKeys
  <2>3. PICK l \in Nat, m \in Nat : l = Len(results[c]) /\ m = Len(completed[c])
    <3>1. results[c] \in Seq(Results) /\ completed[c] \in Seq(TrialKeys)
      BY <1>2 DEF SearchTypes, Listing
    <3> QED
      BY <3>1
  <2>4. Len(results'[c]) + Len(waiting'[c]) + Cardinality(futures'[c]) + Len(completed'[c])
          = Len(Searches[search[c]])
    <3>1. l + m + 0 = Len(Searches[search[c]])
      BY <1>1, <1>2, <2>1, <2>3 DEF Listing
    <3>2. l + m + 0 + 0 = l + m + 0
      OBVIOUS
    <3> QED
      BY <1>1, <1>6, <2>1, <2>2, <2>3, <3>1, <3>2
  <2>5. \A k \in ToSet(completed[c]) : ~ Succeeded(k)'
    BY <1>1, <1>2 DEF Listing, Succeeded
  <2> QED
    BY <1>1, <1>2, <1>6, <2>1, <2>2, <2>4, <2>5 DEF Executing, Listing
<1> QED
  BY <1>1, <1>3, <1>4, <1>5, <1>6, <1>7 DEF OneController, SearchInStep

LEMMA SubmitStep ==
    ASSUME OneController, SearchInv, NEW c \in Controllers, Submit(c)
    PROVE  /\ SearchTypes' /\ SuccessesSound' /\ SearchInStep'
           /\ \A k \in TrialKeys : Succeeded(k) => trials'[k] = trials[k]
<1> USE DEF SearchInv
<1>0. PICK k, rest, f, row :
        /\ k = Head(waiting[c]) /\ rest = Tail(waiting[c])
        /\ f = [key |-> k, attempt |-> 1]
        /\ row = TrialRow(search[c], "running", 1, None)
  OBVIOUS
<1>1. /\ spc[c] = "executing" /\ waiting[c] # <<>>
      /\ trials' = [trials EXCEPT ![k] = row]
      /\ futures' = [futures EXCEPT ![c] = @ \union {f}]
      /\ waiting' = [waiting EXCEPT ![c] = rest]
      /\ UNCHANGED <<spc, search, completed, results, best>>
  BY <1>0 DEF Submit, Running, UpsertTrial
<1>2. ResultsOnRecord(c) /\ Executing(c)
  BY <1>1 DEF SearchInStep
<1>3. waiting[c] \in Seq(TrialKeys)
  BY DEF SearchTypes
<1>4. /\ k \in TrialKeys /\ rest \in Seq(TrialKeys) /\ Len(rest) = Len(waiting[c]) - 1
      /\ Distinct(rest) /\ ToSet(rest) = ToSet(waiting[c]) \ {k} /\ k \in ToSet(waiting[c])
  BY <1>0, <1>1, <1>2, <1>3, ToSetTail DEF Executing
<1>5. /\ f \in Attempts /\ f.key = k
      /\ row \in TrialRows /\ row.status # "succeeded"
  <2>1. search[c] \in RunIds
    BY <1>1, SearchKeys
  <2> QED
    BY <1>0, <1>4, <2>1, SearchAssumption
    DEF Attempts, Allowed, TrialRow, TrialRows, TrialStatuses
<1>6. k \notin FutureKeys(c) /\ k \notin KeysOf(completed[c]) /\ k \notin KeysOf(results[c])
      /\ ~ Succeeded(k)
  BY <1>2, <1>4 DEF Executing
<1>7. /\ trials' \in [TrialKeys -> TrialRows \union {None}]
      /\ SuccessesSound'
      /\ ~ Succeeded(k)'
      /\ \A j \in TrialKeys : j # k =>
           trials'[j] = trials[j] /\ (~ Succeeded(j) => ~ Succeeded(j)')
      /\ \A j \in TrialKeys : Succeeded(j) => trials'[j] = trials[j]
  BY <1>1, <1>4, <1>5, <1>6, Upsert
<1>8. SearchTypes'
  BY <1>1, <1>4, <1>5, <1>7 DEF SearchTypes
<1>9. ResultsOnRecord(c)'
  BY <1>1, <1>2, <1>4, <1>6, <1>7, UpsertKeepsResults
<1>10. /\ waiting'[c] = rest /\ completed'[c] = completed[c]
       /\ futures'[c] = futures[c] \union {f}
       /\ FutureKeys(c)' = FutureKeys(c) \union {k}
       /\ Keys(c)' = Keys(c) /\ spc'[c] = "executing"
  <2>1. futures'[c] = futures[c] \union {f}
    BY <1>1 DEF SearchTypes
  <2>2. FutureKeys(c)' = FutureKeys(c) \union {k}
    BY <2>1, <1>5 DEF FutureKeys
  <2> QED
    BY <1>1, <2>1, <2>2 DEF SearchTypes, Keys
<1>11. Executing(c)'
  <2>1. f \notin futures[c]
    BY <1>5, <1>6 DEF FutureKeys
  <2>2. /\ IsFiniteSet(futures'[c])
        /\ Cardinality(futures'[c]) = Cardinality(futures[c]) + 1
        /\ Cardinality(futures[c]) \in Nat
    BY <1>2, <1>10, <2>1, FS_AddElement, FS_CardinalityType DEF Executing
  <2>3. \A g, h \in futures'[c] : g.key = h.key => g = h
    BY <1>2, <1>5, <1>6, <1>10 DEF Executing, FutureKeys
  <2>4. Len(results'[c]) + Len(waiting'[c]) + Cardinality(futures'[c]) + Len(completed'[c])
          = Len(Searches[search[c]])
    <3>1. PICK l \in Nat, n \in Nat, m \in Nat, d \in Nat :
            /\ Len(results[c]) = l /\ Len(waiting[c]) = n /\ Len(completed[c]) = m
            /\ Cardinality(futures[c]) = d
      <4>1. /\ results[c] \in Seq(Results) /\ waiting[c] \in Seq(TrialKeys)
            /\ completed[c] \in Seq(Outcomes)
        BY <1>2 DEF SearchTypes, Executing
      <4>2. /\ Len(results[c]) \in Nat /\ Len(waiting[c]) \in Nat
            /\ Len(completed[c]) \in Nat
        BY <4>1
      <4>3. Cardinality(futures[c]) \in Nat
        BY <2>2
      <4> QED
        BY <4>2, <4>3
    <3>2. l + n + d + m = Len(Searches[search[c]])
      BY <1>2, <3>1 DEF Executing
    <3>3. l + (n - 1) + (d + 1) + m = l + n + d + m
      OBVIOUS
    <3> QED
      BY <1>1, <1>4, <1>10, <2>2, <3>1, <3>2, <3>3
  <2>5. \A j \in ToSet(rest) \union FutureKeys(c)' \union KeysOf(completed[c]) : ~ Succeeded(j)'
    <3> SUFFICES ASSUME NEW j \in ToSet(rest) \union FutureKeys(c) \union KeysOf(completed[c])
                 PROVE  ~ Succeeded(j)'
      BY <1>7, <1>10
    <3>1. ~ Succeeded(j)
      BY <1>2, <1>4 DEF Executing
    <3>2. j \in TrialKeys
      <4>1. Keys(c) \subseteq TrialKeys
        BY <1>1, SearchKeys
      <4> QED
        BY <4>1, <1>2, <1>4 DEF Executing
    <3> QED
      BY <1>7, <3>1, <3>2
  <2>6. /\ ToSet(waiting'[c]) \intersect FutureKeys(c)' = {}
        /\ ToSet(waiting'[c]) \intersect KeysOf(completed'[c]) = {}
        /\ FutureKeys(c)' \intersect KeysOf(completed'[c]) = {}
    BY <1>2, <1>4, <1>6, <1>10 DEF Executing
  <2>7. /\ KeysOf(results[c])
             \intersect (ToSet(rest) \union FutureKeys(c)' \union KeysOf(completed[c])) = {}
        /\ KeysOf(results[c]) \union ToSet(rest) \union FutureKeys(c)'
             \union KeysOf(completed[c]) = Keys(c)
    BY <1>2, <1>4, <1>6, <1>10 DEF Executing
  <2>8. completed[c] \in Seq(Outcomes) /\ DistinctKeys(completed[c])
    BY <1>2 DEF Executing
  <2> QED
    BY <1>1, <1>4, <1>10, <2>2, <2>3, <2>4, <2>5, <2>6, <2>7, <2>8 DEF Executing
<1> QED
  BY <1>7, <1>8, <1>9, <1>10, <1>11 DEF OneController, SearchInStep

LEMMA CollectStep ==
    ASSUME OneController, SearchInv, NEW c \in Controllers, NEW f \in futures[c],
           (\E status \in {"ok", "failed"} : Collect(c, f, status)) \/ GiveUp(c, f)
    PROVE  SearchTypes' /\ SuccessesSound' /\ SearchInStep' /\ UNCHANGED trials
<1> USE DEF SearchInv
<1>0. PICK o : /\ \E status \in {"ok", "failed"} :
                    o = [key |-> f.key, attempt |-> f.attempt, status |-> status]
               /\ completed' = [completed EXCEPT ![c] = Append(@, o)]
  BY DEF Collect, GiveUp
<1>1. /\ spc[c] = "executing"
      /\ futures' = [futures EXCEPT ![c] = @ \ {f}]
      /\ UNCHANGED <<trials, spc, search, waiting, results, best>>
  BY DEF Collect, GiveUp, Collecting, storeVars
<1>2. ResultsOnRecord(c) /\ Executing(c)
  BY <1>1 DEF SearchInStep
<1>3. f \in Attempts /\ o \in Outcomes /\ o.key = f.key
  BY <1>0 DEF SearchTypes, Attempts, Outcomes
<1>4. f.key \in FutureKeys(c)
  BY DEF FutureKeys
<1>5. /\ completed'[c] = Append(completed[c], o) /\ futures'[c] = futures[c] \ {f}
      /\ waiting'[c] = waiting[c] /\ results'[c] = results[c] /\ Keys(c)' = Keys(c)
      /\ spc'[c] = "executing"
  BY <1>0, <1>1 DEF SearchTypes, Keys
<1>6. completed[c] \in Seq(Outcomes) /\ DistinctKeys(completed[c])
  BY <1>2 DEF Executing
<1>7. /\ KeysOf(completed'[c]) = KeysOf(completed[c]) \union {f.key}
      /\ DistinctKeys(completed'[c])
      /\ completed'[c] \in Seq(Outcomes) /\ Len(completed'[c]) = Len(completed[c]) + 1
  <2>1. o.key \notin KeysOf(completed[c])
    BY <1>2, <1>3, <1>4 DEF Executing
  <2> QED
    BY <1>3, <1>5, <1>6, <2>1, KeysAppend
<1>8. FutureKeys(c)' = FutureKeys(c) \ {f.key}
  BY <1>2, <1>5 DEF FutureKeys, Executing
<1>9. SearchTypes'
  BY <1>0, <1>1 DEF SearchTypes
<1>10. SuccessesSound'
  BY <1>1 DEF SuccessesSound, Succeeded
<1>11. ResultsOnRecord(c)'
  BY <1>1, <1>2 DEF ResultsOnRecord, Keys
<1>12. Executing(c)'
  <2>1. /\ IsFiniteSet(futures'[c])
        /\ Cardinality(futures'[c]) = Cardinality(futures[c]) - 1
        /\ Cardinality(futures[c]) \in Nat
    BY <1>2, <1>5, FS_RemoveElement, FS_CardinalityType DEF Executing
  <2>2. Len(results'[c]) + Len(waiting'[c]) + Cardinality(futures'[c]) + Len(completed'[c])
          = Len(Searches[search[c]])
    <3>1. PICK l \in Nat, n \in Nat, m \in Nat, d \in Nat :
            /\ Len(results[c]) = l /\ Len(waiting[c]) = n /\ Len(completed[c]) = m
            /\ Cardinality(futures[c]) = d
      <4>1. /\ results[c] \in Seq(Results) /\ waiting[c] \in Seq(TrialKeys)
            /\ completed[c] \in Seq(Outcomes)
        BY <1>2 DEF SearchTypes, Executing
      <4> QED
        BY <4>1, <2>1
    <3>2. l + n + d + m = Len(Searches[search[c]])
      BY <1>2, <3>1 DEF Executing
    <3>3. l + n + (d - 1) + (m + 1) = l + n + d + m
      OBVIOUS
    <3> QED
      BY <1>1, <1>5, <1>7, <2>1, <3>1, <3>2, <3>3
  <2>3. /\ ToSet(waiting[c]) \intersect FutureKeys(c)' = {}
        /\ ToSet(waiting[c]) \intersect KeysOf(completed'[c]) = {}
        /\ FutureKeys(c)' \intersect KeysOf(completed'[c]) = {}
    BY <1>2, <1>4, <1>7, <1>8 DEF Executing
  <2>4. ToSet(waiting[c]) \union FutureKeys(c)' \union KeysOf(completed'[c])
          = ToSet(waiting[c]) \union FutureKeys(c) \union KeysOf(completed[c])
    BY <1>4, <1>7, <1>8
  <2>5. /\ KeysOf(results[c])
             \intersect (ToSet(waiting[c]) \union FutureKeys(c)' \union KeysOf(completed'[c]))
             = {}
        /\ KeysOf(results[c]) \union ToSet(waiting[c]) \union FutureKeys(c)'
             \union KeysOf(completed'[c]) = Keys(c)
    BY <1>2, <2>4 DEF Executing
  <2>6. \A j \in ToSet(waiting[c]) \union FutureKeys(c)' \union KeysOf(completed'[c]) :
           ~ Succeeded(j)'
    BY <1>1, <1>2, <2>4 DEF Executing, Succeeded
  <2>7. Distinct(waiting[c]) /\ \A g, h \in futures'[c] : g.key = h.key => g = h
    BY <1>2, <1>5 DEF Executing
  <2> QED
    BY <1>1, <1>5, <1>7, <2>1, <2>2, <2>3, <2>5, <2>6, <2>7 DEF Executing
<1> QED
  BY <1>1, <1>5, <1>9, <1>10, <1>11, <1>12 DEF OneController, SearchInStep

LEMMA RetryStep ==
    ASSUME OneController, SearchInv, NEW c \in Controllers, NEW f \in futures[c],
           Retry(c, f) \/ RetryBroken(c, f)
    PROVE  /\ SearchTypes' /\ SuccessesSound' /\ SearchInStep'
           /\ \A k \in TrialKeys : Succeeded(k) => trials'[k] = trials[k]
<1> USE DEF SearchInv
<1>0. PICK k, g, row :
        /\ k = f.key /\ g = [f EXCEPT !.attempt = NextAttempt(@)]
        /\ row = TrialRow(search[c], "running", NextAttempt(f.attempt), None)
  OBVIOUS
<1>1. /\ spc[c] = "executing" /\ f.attempt <= Retries
      /\ trials' = [trials EXCEPT ![k] = row]
      /\ UNCHANGED <<search, waiting, completed, results, best>>
  BY <1>0 DEF Retry, RetryBroken, Collecting, Running, UpsertTrial, MayRetry
<1>2. ResultsOnRecord(c) /\ Executing(c)
  BY <1>1 DEF SearchInStep
<1>3. f \in Attempts /\ k \in TrialKeys /\ k \in FutureKeys(c)
  BY <1>0 DEF SearchTypes, Attempts, FutureKeys
<1>4. NextAttempt(f.attempt) \in Allowed
  BY <1>1, <1>3, SearchAssumption DEF NextAttempt, Allowed, Attempts
<1>5. /\ g \in Attempts /\ g.key = k
      /\ row \in TrialRows /\ row.status # "succeeded"
  <2>1. search[c] \in RunIds
    BY <1>1, SearchKeys
  <2>2. g \in Attempts /\ g.key = k
    BY <1>0, <1>3, <1>4 DEF Attempts
  <2>3. row \in TrialRows /\ row.status # "succeeded"
    BY <1>0, <1>4, <2>1, SearchAssumption DEF Allowed, TrialRow, TrialRows, TrialStatuses
  <2> QED
    BY <2>2, <2>3
<1>6. k \notin KeysOf(results[c]) /\ k \notin ToSet(waiting[c]) /\ k \notin KeysOf(completed[c])
      /\ ~ Succeeded(k)
  BY <1>2, <1>3 DEF Executing
<1>7. /\ trials' \in [TrialKeys -> TrialRows \union {None}]
      /\ SuccessesSound'
      /\ ~ Succeeded(k)'
      /\ \A j \in TrialKeys : j # k =>
           trials'[j] = trials[j] /\ (~ Succeeded(j) => ~ Succeeded(j)')
      /\ \A j \in TrialKeys : Succeeded(j) => trials'[j] = trials[j]
  BY <1>1, <1>3, <1>5, <1>6, Upsert
<1>8. CASE RetryBroken(c, f)
  <2>1. spc'[c] = "idle" /\ futures' = futures
    BY <1>8 DEF RetryBroken, At, SearchesKnown
  <2>2. SearchTypes'
    BY <1>1, <1>7, <2>1 DEF SearchTypes
  <2> QED
    BY <1>7, <2>1, <2>2 DEF OneController, SearchInStep
<1>9. CASE Retry(c, f)
  <2>1. /\ futures' = [futures EXCEPT ![c] = (@ \ {f}) \union {g}]
        /\ UNCHANGED spc
    BY <1>0, <1>9 DEF Retry
  <2>2. SearchTypes'
    BY <1>1, <1>5, <1>7, <2>1 DEF SearchTypes
  <2>3. ResultsOnRecord(c)'
    BY <1>1, <1>2, <1>3, <1>6, <1>7, UpsertKeepsResults
  <2>4. /\ waiting'[c] = waiting[c] /\ completed'[c] = completed[c]
        /\ results'[c] = results[c] /\ Keys(c)' = Keys(c)
        /\ futures'[c] = (futures[c] \ {f}) \union {g} /\ spc'[c] = "executing"
    BY <1>1, <2>1 DEF SearchTypes, Keys
  <2>5. FutureKeys(c)' = FutureKeys(c)
    <3>1. FutureKeys(c)' = {h.key : h \in (futures[c] \ {f}) \union {g}}
      BY <2>4 DEF FutureKeys
    <3>2. {h.key : h \in (futures[c] \ {f}) \union {g}} = {h.key : h \in futures[c]}
      BY <1>0, <1>5
    <3> QED
      BY <3>1, <3>2 DEF FutureKeys
  <2>6. g \notin futures[c] \ {f}
    BY <1>0, <1>2, <1>5 DEF Executing
  <2>7. /\ IsFiniteSet(futures'[c])
        /\ Cardinality(futures'[c]) = Cardinality(futures[c])
    <3>1. /\ IsFiniteSet(futures[c] \ {f})
          /\ Cardinality(futures[c] \ {f}) = Cardinality(futures[c]) - 1
          /\ Cardinality(futures[c]) \in Nat
      BY <1>2, FS_RemoveElement, FS_CardinalityType DEF Executing
    <3>2. /\ IsFiniteSet((futures[c] \ {f}) \union {g})
          /\ Cardinality((futures[c] \ {f}) \union {g}) = Cardinality(futures[c] \ {f}) + 1
      BY <3>1, <2>6, FS_AddElement
    <3> QED
      BY <2>4, <3>1, <3>2
  <2>8. \A x, y \in futures'[c] : x.key = y.key => x = y
    BY <1>0, <1>2, <1>5, <2>4 DEF Executing
  <2>9. \A j \in ToSet(waiting[c]) \union FutureKeys(c) \union KeysOf(completed[c]) :
            ~ Succeeded(j)'
    <3> SUFFICES ASSUME NEW j \in ToSet(waiting[c]) \union FutureKeys(c)
                                   \union KeysOf(completed[c])
                 PROVE  ~ Succeeded(j)'
      OBVIOUS
    <3>1. ~ Succeeded(j)
      BY <1>2 DEF Executing
    <3>2. j \in TrialKeys
      <4>1. Keys(c) \subseteq TrialKeys
        BY <1>1, SearchKeys
      <4> QED
        BY <4>1, <1>2 DEF Executing
    <3> QED
      BY <1>7, <3>1, <3>2
  <2>10. Executing(c)'
    BY <1>1, <1>2, <2>4, <2>5, <2>7, <2>8, <2>9 DEF Executing
  <2> QED
    BY <1>7, <2>2, <2>3, <2>4, <2>10 DEF OneController, SearchInStep
<1> QED
  BY <1>8, <1>9

\* The steps that leave the tables and the trials of the search alone.
LEMMA QuietStep ==
    ASSUME OneController, SearchInv, NEW c \in Controllers,
           \/ LoseWorker(c) \/ Gather(c) \/ Leave(c) \/ KillController(c)
           \/ RecordInterrupt(c)
    PROVE  SearchTypes' /\ SuccessesSound' /\ SearchInStep' /\ UNCHANGED trials
<1> USE DEF SearchInv
<1>1. UNCHANGED <<trials, search, waiting, futures, completed, results, best>>
  BY DEF LoseWorker, Gather, Leave, KillController, RecordInterrupt, FailRun, storeVars
<1>2. SearchTypes' /\ SuccessesSound'
  BY <1>1 DEF SearchTypes, SuccessesSound, Succeeded
<1>3. CASE LoseWorker(c)
  <2>1. UNCHANGED spc
    BY <1>3 DEF LoseWorker
  <2>2. /\ ResultsOnRecord(c)' <=> ResultsOnRecord(c)
        /\ Listing(c)' <=> Listing(c)
        /\ Executing(c)' <=> Executing(c)
        /\ Recording(c)' <=> Recording(c)
        /\ Returned(c)' <=> Returned(c)
    <3> USE <1>1 DEF Keys, FutureKeys, Succeeded
    <3>1. (ResultsOnRecord(c)' <=> ResultsOnRecord(c)) /\ (Listing(c)' <=> Listing(c))
      BY DEF ResultsOnRecord, Listing
    <3>2. (Executing(c)' <=> Executing(c)) /\ (Recording(c)' <=> Recording(c))
      BY DEF Executing, Recording
    <3>3. Returned(c)' <=> Returned(c)
      BY DEF Returned, Best, Eligible, IsFirstBest, Value
    <3> QED
      BY <3>1, <3>2, <3>3
  <2> QED
    BY <1>1, <1>2, <2>1, <2>2 DEF OneController, SearchInStep
<1>4. CASE Gather(c)
  <2>1. /\ spc[c] = "executing" /\ spc'[c] = "recording"
        /\ waiting[c] = <<>> /\ futures[c] = {}
    BY <1>4 DEF Gather, At, SearchesKnown
  <2>2. ResultsOnRecord(c) /\ Executing(c)
    BY <2>1 DEF SearchInStep
  <2>3. ResultsOnRecord(c)'
    BY <1>1, <2>2 DEF ResultsOnRecord, Keys
  <2>4. Recording(c)'
    <3>1. ToSet(waiting[c]) = {} /\ FutureKeys(c) = {} /\ Len(waiting[c]) = 0
          /\ Cardinality(futures[c]) = 0
      BY <2>1, FS_EmptySet DEF ToSet, FutureKeys
    <3>2. PICK l \in Nat, m \in Nat : l = Len(results[c]) /\ m = Len(completed[c])
      <4>1. results[c] \in Seq(Results) /\ completed[c] \in Seq(Outcomes)
        BY <2>2 DEF SearchTypes, Executing
      <4> QED
        BY <4>1
    <3>3. l + 0 + 0 + m = Len(Searches[search[c]])
      BY <2>2, <3>1, <3>2 DEF Executing
    <3>4. l + 0 + 0 + m = l + m
      OBVIOUS
    <3>5. Len(results[c]) + Len(completed[c]) = Len(Searches[search[c]])
      BY <3>2, <3>3, <3>4
    <3>6. /\ KeysOf(results[c]) \intersect KeysOf(completed[c]) = {}
          /\ KeysOf(results[c]) \union KeysOf(completed[c]) = Keys(c)
          /\ completed[c] \in Seq(Outcomes) /\ DistinctKeys(completed[c])
          /\ \A k \in KeysOf(completed[c]) : ~ Succeeded(k)
      BY <2>2, <3>1 DEF Executing
    <3>7. Keys(c)' = Keys(c) /\ \A k \in KeysOf(completed[c]) : ~ Succeeded(k)'
      BY <1>1, <3>6 DEF Keys, Succeeded
    <3> QED
      BY <1>1, <3>5, <3>6, <3>7 DEF Recording
  <2> QED
    BY <1>1, <1>2, <2>1, <2>3, <2>4 DEF OneController, SearchInStep
<1>5. CASE Leave(c) \/ KillController(c) \/ RecordInterrupt(c)
  <2>1. spc'[c] = "idle"
    BY <1>5 DEF Leave, KillController, RecordInterrupt, At, SearchesKnown
  <2> QED
    BY <1>1, <1>2, <2>1 DEF OneController, SearchInStep
<1> QED
  BY <1>3, <1>4, <1>5

LEMMA InterruptStep ==
    ASSUME OneController, SearchInv, NEW c \in Controllers, Interrupt(c)
    PROVE  /\ SearchTypes' /\ SuccessesSound' /\ SearchInStep'
           /\ \A k \in TrialKeys : Succeeded(k) => trials'[k] = trials[k]
<1> USE DEF SearchInv
<1>1. /\ trials' = Interrupted(search[c]) /\ spc' = [spc EXCEPT ![c] = "interrupting"]
      /\ UNCHANGED <<search, waiting, futures, completed, results, best>>
  BY DEF Interrupt, At
<1>2. ASSUME NEW k \in TrialKeys
      PROVE  /\ trials'[k] \in TrialRows \union {None}
             /\ Succeeded(k) => trials'[k] = trials[k]
             /\ Succeeded(k)' => Succeeded(k)
  <2>1. CASE trials[k] = None
    BY <1>1, <2>1 DEF Interrupted, Succeeded
  <2>2. CASE trials[k] # None /\ trials'[k] = trials[k]
    BY <2>2 DEF SearchTypes, Succeeded
  <2>3. CASE trials[k] # None /\ trials'[k] # trials[k]
    <3>1. /\ trials'[k] = [trials[k] EXCEPT !.status = "interrupted"]
          /\ trials[k].status \in {"queued", "running"} /\ trials[k] \in TrialRows
      BY <1>1, <2>3 DEF Interrupted, SearchTypes
    <3>2. trials'[k] \in TrialRows /\ trials'[k].status = "interrupted"
      BY <3>1 DEF TrialRows, TrialStatuses
    <3> QED
      BY <2>3, <3>1, <3>2 DEF Succeeded
  <2> QED
    BY <2>1, <2>2, <2>3
<1>3. trials' \in [TrialKeys -> TrialRows \union {None}]
  <2>1. trials' = [k \in TrialKeys |-> trials'[k]]
    BY <1>1 DEF Interrupted
  <2> QED
    BY <1>2, <2>1
<1>4. SearchTypes'
  BY <1>1, <1>3 DEF SearchTypes
<1>5. SuccessesSound'
  BY <1>2 DEF SuccessesSound
<1>6. SearchInStep'
  <2>1. spc'[c] = "interrupting"
    BY <1>1 DEF SearchesKnown
  <2> QED
    BY <2>1 DEF OneController, SearchInStep
<1> QED
  BY <1>2, <1>4, <1>5, <1>6

LEMMA RecordStep ==
    ASSUME OneController, SameConstraints, SearchInv, NEW c \in Controllers, Record(c)
    PROVE  /\ SearchTypes' /\ SuccessesSound' /\ SearchInStep'
           /\ \A k \in TrialKeys : Succeeded(k) => trials'[k] = trials[k]
<1> USE DEF SearchInv
<1>0. PICK o, k, rest, status, row, r :
        /\ o = Head(completed[c]) /\ k = o.key /\ rest = Tail(completed[c])
        /\ status = Outcome(c, o)
        /\ row = TrialRow(search[c], status, o.attempt,
                          IF o.status = "ok" THEN Objective[k] ELSE None)
        /\ r = Result(k, status)
  OBVIOUS
<1>1. /\ spc[c] = "recording" /\ completed[c] # <<>>
      /\ trials' = [trials EXCEPT ![k] = row]
      /\ results' = [results EXCEPT ![c] = Append(@, r)]
      /\ completed' = [completed EXCEPT ![c] = rest]
      /\ UNCHANGED <<spc, search, waiting, futures, best>>
  BY <1>0 DEF Record, UpsertTrial
<1>2. ResultsOnRecord(c) /\ Recording(c)
  BY <1>1 DEF SearchInStep
<1>3. completed[c] \in Seq(Outcomes) /\ results[c] \in Seq(Results)
  BY <1>2 DEF SearchTypes, Recording
<1>4. /\ o \in Outcomes /\ rest \in Seq(Outcomes) /\ Len(rest) = Len(completed[c]) - 1
      /\ DistinctKeys(rest) /\ KeysOf(rest) = KeysOf(completed[c]) \ {k}
      /\ k \in KeysOf(completed[c])
  BY <1>0, <1>1, <1>2, <1>3, KeysTail DEF Recording
<1>5. /\ k \in TrialKeys /\ o.attempt \in Allowed
      /\ search[c] \in DOMAIN Searches /\ search[c] \in RunIds
  BY <1>0, <1>1, <1>4, SearchKeys DEF Outcomes
<1>6. /\ status \in {"succeeded", "failed", "constrained"}
      /\ status = "succeeded" => k \in Feasible[search[c]]
  BY <1>0 DEF Outcome
<1>7. /\ row \in TrialRows /\ row.status = status /\ row.attempts \in Allowed
      /\ r \in Results /\ r.key = k /\ r.status = status
  <2>1. /\ (IF o.status = "ok" THEN Objective[k] ELSE None) \in Nat \union {None}
        /\ o.attempt \in Nat
    BY <1>5, SearchAssumption DEF Allowed
  <2> QED
    BY <1>0, <1>5, <1>6, <2>1
    DEF TrialRow, TrialRows, TrialStatuses, Result, Results
<1>8. k \in Keys(c) /\ k \notin KeysOf(results[c]) /\ ~ Succeeded(k)
  BY <1>2, <1>4 DEF Recording
<1>9. status = "succeeded" =>
        \A s \in DOMAIN Searches : k \in ToSet(Searches[s]) => k \in Feasible[s]
  BY <1>5, <1>6, <1>8 DEF SameConstraints, Keys
<1>10. /\ trials' \in [TrialKeys -> TrialRows \union {None}]
       /\ SuccessesSound'
       /\ trials'[k] = row
       /\ \A j \in TrialKeys : j # k =>
            trials'[j] = trials[j] /\ (~ Succeeded(j) => ~ Succeeded(j)')
       /\ \A j \in TrialKeys : Succeeded(j) => trials'[j] = trials[j]
  BY <1>1, <1>5, <1>7, <1>8, <1>9, Upsert
<1>11. SearchTypes'
  BY <1>1, <1>7, <1>10 DEF SearchTypes
<1>12. /\ results'[c] = Append(results[c], r) /\ completed'[c] = rest
       /\ Keys(c)' = Keys(c) /\ spc'[c] = "recording" /\ search'[c] = search[c]
  BY <1>1 DEF SearchTypes, Keys
<1>13. /\ KeysOf(results'[c]) = KeysOf(results[c]) \union {k}
       /\ Len(results'[c]) = Len(results[c]) + 1
  BY <1>3, <1>7, <1>12, KeysAppend
<1>14. ResultsOnRecord(c)'
  <2> SUFFICES ASSUME NEW i \in DOMAIN results'[c]
               PROVE  LET q == results'[c][i] IN
                      /\ q.key \in Keys(c)
                      /\ trials'[q.key].status = q.status
                      /\ trials'[q.key].attempts \in Allowed
                      /\ q.status = "succeeded" => q.key \in Feasible[search[c]]
    BY <1>12 DEF ResultsOnRecord
  <2>1. CASE i \in DOMAIN results[c]
    <3>1. results'[c][i] = results[c][i]
      BY <2>1, <1>3, <1>7, <1>12
    <3>2. results[c][i] \in Results /\ results[c][i].key # k
      <4>1. results[c][i].key \in KeysOf(results[c])
        BY <2>1 DEF KeysOf
      <4>2. results[c][i] \in Results
        BY <2>1, <1>3
      <4> QED
        BY <4>1, <4>2, <1>8
    <3>3. trials'[results[c][i].key] = trials[results[c][i].key]
      BY <1>10, <3>2 DEF Results
    <3> QED
      BY <2>1, <3>1, <3>3, <1>2 DEF ResultsOnRecord
  <2>2. CASE i \notin DOMAIN results[c]
    <3>1. results'[c][i] = r
      BY <2>2, <1>3, <1>7, <1>12
    <3> QED
      BY <3>1, <1>6, <1>7, <1>8, <1>10
  <2> QED
    BY <2>1, <2>2
<1>15. Recording(c)'
  <2>1. Len(results'[c]) + Len(completed'[c]) = Len(Searches[search[c]])
    <3>1. PICK l \in Nat, m \in Nat : Len(results[c]) = l /\ Len(completed[c]) = m
      BY <1>3
    <3>2. l + m = Len(Searches[search[c]])
      BY <1>2, <3>1 DEF Recording
    <3>3. (l + 1) + (m - 1) = l + m
      OBVIOUS
    <3> QED
      BY <1>4, <1>12, <1>13, <3>1, <3>2, <3>3
  <2>2. /\ KeysOf(results'[c]) \intersect KeysOf(rest) = {}
        /\ KeysOf(results'[c]) \union KeysOf(rest) = Keys(c)
    BY <1>2, <1>4, <1>13 DEF Recording
  <2>3. \A j \in KeysOf(rest) : ~ Succeeded(j)'
    <3> SUFFICES ASSUME NEW j \in KeysOf(rest) PROVE ~ Succeeded(j)'
      OBVIOUS
    <3>1. ~ Succeeded(j) /\ j # k
      BY <1>2, <1>4 DEF Recording
    <3>2. j \in TrialKeys
      <4>1. Keys(c) \subseteq TrialKeys
        BY <1>1, SearchKeys
      <4> QED
        BY <4>1, <2>2
    <3> QED
      BY <1>10, <3>1, <3>2
  <2> QED
    BY <1>1, <1>4, <1>12, <2>1, <2>2, <2>3 DEF Recording
<1> QED
  BY <1>10, <1>11, <1>12, <1>14, <1>15 DEF OneController, SearchInStep

LEMMA ConcludeStep ==
    ASSUME OneController, SearchInv, NEW c \in Controllers, Conclude(c)
    PROVE  SearchTypes' /\ SuccessesSound' /\ SearchInStep' /\ UNCHANGED trials
<1> USE DEF SearchInv
<1>1. /\ spc[c] = "recording" /\ completed[c] = <<>>
      /\ best' = [best EXCEPT ![c] = Best(c)]
      /\ spc' = [spc EXCEPT ![c] = "returned"]
      /\ UNCHANGED <<trials, search, waiting, futures, completed, results>>
  BY DEF Conclude, FinishRun, At
<1>2. ResultsOnRecord(c) /\ Recording(c)
  BY <1>1 DEF SearchInStep
<1>3. SearchTypes' /\ SuccessesSound'
  BY <1>1 DEF SearchTypes, SuccessesSound, Succeeded
<1>4. /\ ResultsOnRecord(c)' /\ spc'[c] = "returned" /\ best'[c] = Best(c)
      /\ Keys(c)' = Keys(c)
  BY <1>1, <1>2 DEF ResultsOnRecord, Keys, SearchTypes, SearchesKnown
<1>5. Best(c)' = Best(c)
  BY <1>1 DEF Best, Eligible, IsFirstBest, Value
<1>6. Returned(c)'
  <2>1. KeysOf(<<>>) = {} /\ Len(<<>>) = 0
    BY DEF KeysOf
  <2>2. KeysOf(results[c]) = Keys(c)
    BY <1>1, <1>2, <2>1 DEF Recording
  <2>3. Len(results[c]) = Len(Searches[search[c]])
    <3>1. PICK l \in Nat : l = Len(results[c])
      BY DEF SearchTypes
    <3>2. l + 0 = Len(Searches[search[c]])
      BY <1>1, <1>2, <2>1, <3>1 DEF Recording
    <3> QED
      BY <3>1, <3>2
  <2> QED
    BY <1>1, <1>4, <1>5, <2>2, <2>3 DEF Returned
<1> QED
  BY <1>1, <1>3, <1>4, <1>6 DEF OneController, SearchInStep

-----------------------------------------------------------------------------
\* Induction on the natural numbers, for a set of them.

LEMMA LessThanPairs == \A x, y \in Nat : x < y => <<x, y>> \in OpToRel(<, Nat)
  BY Zenon DEF OpToRel

LEMMA LeastOfNat ==
    ASSUME NEW T \in SUBSET Nat, T # {}
    PROVE  \E x \in T : \A y \in T : x <= y
<1> DEFINE R == OpToRel(<, Nat)
<1>1. IsWellFoundedOn(R, Nat)
  BY NatLessThanWellFounded
<1>2. \A x, y \in Nat : x < y => <<x, y>> \in R
  BY LessThanPairs
<1> HIDE DEF R
<1>3. PICK x \in T : \A y \in T : ~ (<<y, x>> \in R)
  BY <1>1, WFMin
<1>4. ASSUME NEW y \in T PROVE x <= y
  <2>1. x \in Nat /\ y \in Nat
    OBVIOUS
  <2>2. ~ (y < x)
    BY <1>2, <1>3, <2>1
  <2> QED
    BY <2>1, <2>2
<1> QED
  BY <1>4

LEMMA NatInductionOnSets ==
    ASSUME NEW T \in SUBSET Nat, 0 \in T, \A n \in T : n + 1 \in T
    PROVE  T = Nat
<1> SUFFICES ASSUME Nat \ T # {} PROVE FALSE
  OBVIOUS
<1>1. PICK x \in Nat \ T : \A y \in Nat \ T : x <= y
  BY LeastOfNat
<1>2. x - 1 \in Nat /\ x - 1 \notin Nat \ T
  BY <1>1
<1> QED
  BY <1>2

-----------------------------------------------------------------------------
\* Among the results that count there is a first best one.

LEMMA FirstBestExists ==
    ASSUME SearchTypes, NEW c \in Controllers, Eligible(c) # {}
    PROVE  \E i \in Eligible(c) : IsFirstBest(c, i)
<1>1. /\ Len(results[c]) \in Nat /\ DOMAIN results[c] = 1 .. Len(results[c])
      /\ \A i \in DOMAIN results[c] : results[c][i] \in Results
  BY DEF SearchTypes
<1>2. Eligible(c) \subseteq 1 .. Len(results[c])
  BY <1>1 DEF Eligible
<1>3. \A i \in Eligible(c) : Value(c, i) \in Nat
  BY <1>1, SearchAssumption DEF Eligible, Value, Results
<1> DEFINE Upto(n) == Eligible(c) \intersect 1 .. n
           Leads(i, n) == \A j \in Upto(n) :
               Value(c, i) > Value(c, j) \/ (Value(c, i) = Value(c, j) /\ i <= j)
           T == {n \in Nat : Upto(n) = {} \/ \E i \in Upto(n) : Leads(i, n)}
<1>4. 0 \in T
  OBVIOUS
<1>5. ASSUME NEW n \in T PROVE n + 1 \in T
  <2>1. n \in Nat /\ n + 1 \in Nat
    OBVIOUS
  <2>2. CASE n + 1 \notin Eligible(c)
    <3>1. Upto(n + 1) = Upto(n)
      BY <2>1, <2>2
    <3> QED
      BY <2>1, <3>1
  <2>3. CASE n + 1 \in Eligible(c)
    <3>1. Upto(n + 1) = Upto(n) \union {n + 1}
      BY <2>1, <2>3
    <3>2. CASE Upto(n) = {}
      <4>1. Leads(n + 1, n + 1)
        BY <2>1, <3>1, <3>2
      <4> QED
        BY <2>1, <3>1, <4>1
    <3>3. CASE Upto(n) # {}
      <4>1. PICK i \in Upto(n) : Leads(i, n)
        BY <3>3
      <4>2. /\ Value(c, i) \in Nat /\ Value(c, n + 1) \in Nat /\ i \in 1 .. n
            /\ \A j \in Upto(n) : Value(c, j) \in Nat /\ j \in 1 .. n
        BY <1>3, <2>3, <4>1
      <4>3. CASE Value(c, i) >= Value(c, n + 1)
        <5>1. Leads(i, n + 1)
          BY <2>1, <3>1, <4>1, <4>2, <4>3
        <5> QED
          BY <2>1, <3>1, <4>1, <5>1
      <4>4. CASE Value(c, n + 1) > Value(c, i)
        <5>1. Leads(n + 1, n + 1)
          BY <2>1, <3>1, <4>1, <4>2, <4>4
        <5> QED
          BY <2>1, <3>1, <5>1
      <4> QED
        BY <4>2, <4>3, <4>4
    <3> QED
      BY <3>2, <3>3
  <2> QED
    BY <2>2, <2>3
<1>6. T = Nat
  <2>1. T \in SUBSET Nat
    OBVIOUS
  <2> HIDE DEF T
  <2> QED
    BY <1>4, <1>5, <2>1, NatInductionOnSets
<1>7. Upto(Len(results[c])) = Eligible(c)
  BY <1>2
<1>8. Len(results[c]) \in T
  BY <1>1, <1>6
<1> QED
  BY <1>7, <1>8 DEF IsFirstBest

-----------------------------------------------------------------------------
\* The theorems about searches.

LEMMA SearchInvInit == Init => SearchInv
<1> SUFFICES ASSUME Init PROVE SearchInv
  OBVIOUS
<1>1. SearchesKnown /\ SearchInStep
  BY DEF Init, SearchInit, SearchesKnown, SearchInStep
<1>2. SearchTypes
  BY DEF Init, SearchInit, StoreInit, SearchTypes
<1>3. SuccessesSound
  BY DEF Init, StoreInit, SuccessesSound, Succeeded
<1> QED
  BY <1>1, <1>2, <1>3 DEF SearchInv

\* What backtests do leaves the trials alone.
LEMMA RunsKeepTrials == RunNext => UNCHANGED trials
  BY DEF RunNext, RunStep, Call, Reuse, Start, CallFails, Simulate, Compare, Replace, Finish,
     Log, Return, Fail, Kill, RemoveRun, StartRun, FinishRun, FailRun, LogArtifact, storeVars

LEMMA SearchInvQuiet ==
    ASSUME SearchInv, UNCHANGED <<trials, searchVars>>
    PROVE  SearchInv'
<1>1. SearchesKnown' /\ SearchTypes' /\ SuccessesSound'
  BY DEF SearchInv, searchVars, SearchesKnown, SearchTypes, SuccessesSound, Succeeded
<1>2. ASSUME NEW c \in Controllers
      PROVE  /\ ResultsOnRecord(c)' <=> ResultsOnRecord(c)
             /\ Listing(c)' <=> Listing(c)
             /\ Executing(c)' <=> Executing(c)
             /\ Recording(c)' <=> Recording(c)
             /\ Returned(c)' <=> Returned(c)
  <2> USE DEF searchVars, Keys, FutureKeys, Succeeded
  <2>1. (ResultsOnRecord(c)' <=> ResultsOnRecord(c)) /\ (Listing(c)' <=> Listing(c))
    BY DEF ResultsOnRecord, Listing
  <2>2. (Executing(c)' <=> Executing(c)) /\ (Recording(c)' <=> Recording(c))
    BY DEF Executing, Recording
  <2>3. Returned(c)' <=> Returned(c)
    BY DEF Returned, Best, Eligible, IsFirstBest, Value
  <2> QED
    BY <2>1, <2>2, <2>3
<1>3. SearchInStep'
  BY <1>2 DEF SearchInv, searchVars, SearchInStep
<1> QED
  BY <1>1, <1>3 DEF SearchInv

LEMMA SearchInvStep ==
    ASSUME OneController, NoTrialTwice, SameConstraints, ArchiveInv, SearchInv, [Next]_vars
    PROVE  SearchInv' /\ \A k \in TrialKeys : Succeeded(k) => trials'[k] = trials[k]
<1>1. CASE UNCHANGED vars
  BY <1>1, SearchInvQuiet DEF vars, storeVars
<1>2. CASE RunNext /\ UNCHANGED searchVars
  BY <1>2, RunsKeepTrials, SearchInvQuiet
<1>3. CASE SearchNext /\ UNCHANGED runnerVars
  <2>1. SearchesKnown'
    BY <1>3, SearchKeepsRuns
  <2>2. PICK c \in Controllers :
          \/ \E s \in DOMAIN Searches : Launch(c, s)
          \/ Work(c) \/ LoseWorker(c) \/ Interrupt(c) \/ KillController(c)
    BY <1>3 DEF SearchNext
  <2>3. /\ SearchTypes' /\ SuccessesSound' /\ SearchInStep'
        /\ \A k \in TrialKeys : Succeeded(k) => trials'[k] = trials[k]
    BY <2>2, LaunchStep, ListStep, ExecuteStep, SubmitStep, CollectStep, RetryStep, QuietStep,
       InterruptStep, RecordStep, ConcludeStep DEF Work
  <2> QED
    BY <2>1, <2>3 DEF SearchInv
<1> QED
  BY <1>1, <1>2, <1>3 DEF Next

LEMMA AccountedFromInv == SearchInv => TrialsAccounted
<1> SUFFICES ASSUME SearchInv, NEW c \in Controllers, spc[c] = "returned"
             PROVE  /\ Len(results[c]) = Len(Searches[search[c]])
                    /\ {r.key : r \in ToSet(results[c])} = Keys(c)
                    /\ \A r \in ToSet(results[c]) :
                        /\ trials[r.key].status = r.status
                        /\ trials[r.key].attempts \in 1 .. Retries + 1
                        /\ r.status = "succeeded" => Objective[r.key] <= Objective[best[c]]
                    /\ best[c] # None => best[c] \in Feasible[search[c]]
  BY DEF TrialsAccounted
<1>1. ResultsOnRecord(c) /\ Returned(c) /\ SearchTypes
  BY DEF SearchInv, SearchInStep
<1>2. {r.key : r \in ToSet(results[c])} = KeysOf(results[c])
  BY DEF ToSet, KeysOf
<1>3. ASSUME Eligible(c) # {}
      PROVE  \E i \in Eligible(c) :
                best[c] = results[c][i].key /\ IsFirstBest(c, i)
  <2>1. \E i \in Eligible(c) : IsFirstBest(c, i)
    BY <1>1, <1>3, FirstBestExists
  <2> DEFINE b == CHOOSE i \in Eligible(c) : IsFirstBest(c, i)
  <2>2. b \in Eligible(c) /\ IsFirstBest(c, b)
    BY <2>1
  <2>3. best[c] = results[c][b].key
    BY <1>1, <1>3 DEF Returned, Best
  <2> HIDE DEF b
  <2> QED
    BY <2>2, <2>3
<1>4. ASSUME NEW i \in DOMAIN results[c], results[c][i].status = "succeeded"
      PROVE  Objective[results[c][i].key] <= Objective[best[c]]
  <2>1. i \in Eligible(c)
    BY <1>4 DEF Eligible
  <2>2. PICK b \in Eligible(c) : best[c] = results[c][b].key /\ IsFirstBest(c, b)
    BY <1>3, <2>1
  <2>3. Value(c, b) \in Nat /\ Value(c, i) \in Nat
    <3>1. \A j \in Eligible(c) : results[c][j] \in Results
      BY <1>1 DEF SearchTypes, Eligible
    <3> QED
      BY <2>1, <3>1, SearchAssumption DEF Value, Results
  <2>4. Value(c, i) <= Value(c, b)
    BY <2>1, <2>2, <2>3 DEF IsFirstBest
  <2> QED
    BY <2>2, <2>4 DEF Value
<1>5. ASSUME best[c] # None PROVE best[c] \in Feasible[search[c]]
  <2>1. Eligible(c) # {}
    BY <1>1, <1>5 DEF Returned, Best
  <2>2. PICK b \in Eligible(c) : best[c] = results[c][b].key
    BY <1>3, <2>1
  <2> QED
    BY <1>1, <2>2 DEF Eligible, ResultsOnRecord
<1>6. ASSUME NEW r \in ToSet(results[c])
      PROVE  /\ trials[r.key].status = r.status
             /\ trials[r.key].attempts \in 1 .. Retries + 1
             /\ r.status = "succeeded" => Objective[r.key] <= Objective[best[c]]
  <2>1. PICK i \in DOMAIN results[c] : r = results[c][i]
    BY DEF ToSet
  <2> QED
    BY <1>1, <1>4, <2>1 DEF ResultsOnRecord, Allowed
<1> QED
  BY <1>1, <1>2, <1>5, <1>6 DEF Returned

\* A search that returns has one result for every parameter, of the status on record, none
\* tried more often than allowed, and names the best, whatever searches were killed or
\* interrupted before it and whatever backtests run at the same time (SearchEngine.run).
THEOREM SearchesAccountForTrials ==
    ASSUME OneController, NoTrialTwice, SameConstraints
    PROVE  Spec => []TrialsAccounted
<1>1. Init => ArchiveInv /\ SearchInv
  BY ArchiveInvInit, SearchInvInit
<1>2. ArchiveInv /\ SearchInv /\ [Next]_vars => ArchiveInv' /\ SearchInv'
  BY ArchiveInvStep, SearchInvStep
<1> QED
  BY <1>1, <1>2, AccountedFromInv, PTL DEF Spec

\* A recorded success is never run again nor lost (the reuse of succeeded trials in
\* SearchEngine.run).
THEOREM RecordedSuccessStays ==
    ASSUME OneController, NoTrialTwice, SameConstraints
    PROVE  Spec => SuccessesKept
<1>1. Init => ArchiveInv /\ SearchInv
  BY ArchiveInvInit, SearchInvInit
<1>2. ArchiveInv /\ SearchInv /\ [Next]_vars => ArchiveInv' /\ SearchInv'
  BY ArchiveInvStep, SearchInvStep
<1>3. ArchiveInv /\ SearchInv /\ [Next]_vars =>
        [\A k \in TrialKeys :
            (IF trials[k] = None THEN FALSE ELSE trials[k].status = "succeeded")
                => trials'[k] = trials[k]]_trialVars
  BY SearchInvStep DEF Succeeded
<1> QED
  BY <1>1, <1>2, <1>3, PTL DEF Spec, SuccessesKept
=============================================================================
