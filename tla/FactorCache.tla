----------------------------- MODULE FactorCache -----------------------------
(***************************************************************************)
(* The on-disk cache of zyquant.factors.engine.FactorEngine.compute:       *)
(* processes share a directory per factor, without a server.  An entry is  *)
(* a data file and a metadata file named by its key; a lock file per key   *)
(* is meant to let one process compute while the others wait; publishing   *)
(* renames two temporary files; then the entries of older code are purged. *)
(*                                                                         *)
(* The content of a data file is a function of its key, so all that is     *)
(* recorded of a content is whether it is whole.  One snapshot, cutoff and *)
(* universe, and one set of parameters per factor: entries that differ in  *)
(* these have keys of their own and are never purged.                      *)
(***************************************************************************)
EXTENDS Integers, Sequences, FiniteSets

CONSTANTS
    Procs,
    Source,         \* the code version of the factors each process runs
    Policy,         \* cache_policy of each process: compute or require
    Factors,
    Upstream,       \* the dependency of each factor, NoFactor for none
    Lookback,       \* the days of history a factor needs of its dependency
    NumDays,
    Requests,       \* what a process may ask for: factor, first and last day
    Leftover,       \* entries earlier runs have published
    Slow,           \* processes whose work on an entry may outlast lock_timeout
    MaxRequests, MaxCrashes,  \* bounds: requests per process, crashes in all
    NoFactor, NoKey, NoFile

ASSUME CacheAssumption ==
    /\ Policy \in [Procs -> {"compute", "require"}] /\ Slow \subseteq Procs
    /\ Upstream \in [Factors -> Factors \union {NoFactor}]
    /\ \A f \in Factors : Upstream[f] # NoFactor => Upstream[Upstream[f]] = NoFactor
    /\ Lookback \in [Factors -> Nat]
    /\ Requests \subseteq [factor : Factors, first : 1 .. NumDays, last : 1 .. NumDays]
    /\ MaxRequests \in Nat /\ MaxCrashes \in Nat

VARIABLES
    files,      \* the files that exist, lock files apart
    torn,       \* of these, data not wholly written or metadata of such data
    lock,       \* the lock files, with the process that created each
    pc, plan,   \* what each process does next, and the nodes it has to resolve
    dep,        \* cache key of the dependency resolved before
    from,       \* the metadata file a process reads or purges
    out,        \* the data file a process is the last to have opened
    todo,       \* metadata files still to look at by a purge
    result, asked,
    crashes

disk == <<files, torn, out>>
mind == <<plan, dep, from, todo, result, asked>>
vars == <<disk, lock, pc, mind, crashes>>

Data(k) == [key |-> k, kind |-> "parquet"]
Meta(k) == [key |-> k, kind |-> "json"]
\* Mutant: the data is written in place.
TmpDataInPlace(k) == Data(k)
TmpData(k) == [key |-> k, kind |-> "tmp.parquet"]
TmpMeta(k) == [key |-> k, kind |-> "tmp.json"]

\* glob("*.json") finds temporary metadata as well.
IsMeta(f) == f.kind \in {"json", "tmp.json"}

\* The key of an entry holds the interval, its identity does not; but it holds
\* the key of the dependency, and so the dependency's interval.
Identity(k) == <<k.factor, k.source, k.dep>>
Covers(k, w) == /\ Identity(k) = Identity(w)
                /\ k.first <= w.first /\ w.last <= k.last

\* A request resolves the factor's dependency first, some days further back.
Plan(r) ==
    LET start == r.first - Lookback[r.factor]
        history == [factor |-> Upstream[r.factor],
                    first |-> IF start < 1 THEN 1 ELSE start, last |-> r.last]
    IN  IF Upstream[r.factor] = NoFactor THEN <<r>> ELSE <<history, r>>

\* cache_key of the node that p resolves.
Wanted(p) ==
    LET node == Head(plan[p])
    IN  [factor |-> node.factor, source |-> Source[p], dep |-> dep[p],
         first |-> node.first, last |-> node.last]

Init ==
    /\ files = {Data(k) : k \in Leftover} \union {Meta(k) : k \in Leftover}
    /\ torn = {} /\ lock = {} /\ crashes = 0
    /\ out = [p \in Procs |-> NoFile]
    /\ pc = [p \in Procs |-> "idle"]
    /\ plan = [p \in Procs |-> <<>>]
    /\ dep = [p \in Procs |-> NoKey]
    /\ from = [p \in Procs |-> NoFile]
    /\ todo = [p \in Procs |-> {}]
    /\ result = [p \in Procs |-> "none"]
    /\ asked = [p \in Procs |-> 0]

Goto(p, stage) == pc' = [pc EXCEPT ![p] = stage]
Locked(k) == \E l \in lock : l.key = k

\* A file that is unlinked or replaced lives on for who has it open.
Unlink(S) ==
    /\ files' = files \ S
    /\ torn' = torn \ S
    /\ out' = [p \in Procs |-> IF out[p] \in S THEN NoFile ELSE out[p]]

\* os.replace
Replace(old, new) ==
    /\ files' = (files \ {old}) \union {new}
    /\ torn' = (torn \ {old, new}) \union (IF old \in torn THEN {new} ELSE {})
    /\ out' = [p \in Procs |-> IF out[p] = old THEN new
                               ELSE IF out[p] = new THEN NoFile ELSE out[p]]

\* The node is resolved with the entry of key k: the next one, or the answer.
Deliver(p, k, how) ==
    /\ plan' = [plan EXCEPT ![p] = Tail(@)]
    /\ dep' = [dep EXCEPT ![p] = k]
    /\ result' = [result EXCEPT ![p] = how]
    /\ Goto(p, IF Len(plan[p]) = 1 THEN "idle" ELSE "exact")

\* An exception leaves compute().
GiveUp(p, reason) ==
    /\ plan' = [plan EXCEPT ![p] = <<>>]
    /\ result' = [result EXCEPT ![p] = reason]
    /\ Goto(p, "idle")
    /\ UNCHANGED dep

Ask(p) ==
    /\ pc[p] = "idle" /\ asked[p] < MaxRequests
    /\ \E r \in Requests : plan' = [plan EXCEPT ![p] = Plan(r)]
    /\ dep' = [dep EXCEPT ![p] = NoKey]
    /\ result' = [result EXCEPT ![p] = "none"]
    /\ asked' = [asked EXCEPT ![p] = @ + 1]
    /\ Goto(p, "exact")
    /\ UNCHANGED <<disk, lock, from, todo, crashes>>
-----------------------------------------------------------------------------
(* Looking for the entry, or for one of the same identity that covers it.  *)

LookForEntry(p) ==
    LET w == Wanted(p) IN
    /\ pc[p] = "exact"
    /\ IF {Data(w), Meta(w)} \subseteq files
       THEN Goto(p, "verify") /\ from' = [from EXCEPT ![p] = Meta(w)]
       ELSE Goto(p, "scan") /\ UNCHANGED from
    /\ UNCHANGED <<disk, lock, plan, dep, todo, result, asked, crashes>>

Broader(p) == {f \in files : /\ IsMeta(f) /\ Covers(f.key, Wanted(p))
                             /\ Data(f.key) \in files}

FindBroader(p) ==
    /\ pc[p] = "scan"
    /\ \E f \in Broader(p) : from' = [from EXCEPT ![p] = f]
    /\ Goto(p, "verify")
    /\ UNCHANGED <<disk, lock, plan, dep, todo, result, asked, crashes>>

Miss(p) ==
    /\ pc[p] = "scan" /\ Broader(p) = {}
    /\ IF Policy[p] = "require" THEN GiveUp(p, "miss")
       ELSE Goto(p, "lock") /\ UNCHANGED <<plan, dep, result>>
    /\ UNCHANGED <<disk, lock, from, todo, asked, crashes>>

\* _read_cache, after its existence checks: the metadata is read and the data
\* hashed, and then the data is read once more.
ReadError(p) ==
    IF from[p] \notin files \/ Data(from[p].key) \notin files THEN "vanished"
    ELSE IF {from[p], Data(from[p].key)} \intersect torn # {} THEN "corrupt"
    ELSE "none"

Verify(p) ==
    /\ pc[p] = "verify"
    /\ IF ReadError(p) # "none" THEN GiveUp(p, ReadError(p))
       ELSE Goto(p, "load") /\ UNCHANGED <<plan, dep, result>>
    /\ UNCHANGED <<disk, lock, from, todo, asked, crashes>>

Load(p) ==
    LET data == Data(from[p].key) IN
    /\ pc[p] = "load"
    /\ IF data \notin files THEN GiveUp(p, "vanished")
       ELSE IF data \in torn THEN GiveUp(p, "corrupt")
       ELSE Deliver(p, from[p].key, "hit")
    /\ UNCHANGED <<disk, lock, from, todo, asked, crashes>>
-----------------------------------------------------------------------------
(* The lock: _acquire.                                                     *)

Completed(k) == Meta(k) \in files

\* Mutant: a lock never expires.
StaleNever(k) == FALSE

\* A lock may be older than lock_timeout once its creator has died, or is slow.
Stale(k) == \E l \in lock : l.key = k /\ (pc[l.owner] = "dead" \/ l.owner \in Slow)

TryLock(p) ==
    /\ pc[p] = "lock" /\ ~Locked(Wanted(p))
    /\ lock' = lock \union {[key |-> Wanted(p), owner |-> p]}
    /\ Goto(p, "compute")
    /\ UNCHANGED <<disk, mind, crashes>>

SeeCompleted(p) ==
    /\ pc[p] = "lock" /\ Locked(Wanted(p)) /\ Completed(Wanted(p))
    /\ Goto(p, "reread")
    /\ UNCHANGED <<disk, lock, mind, crashes>>

SeeStale(p) ==
    /\ pc[p] = "lock" /\ ~Completed(Wanted(p)) /\ Stale(Wanted(p))
    /\ Goto(p, "break")
    /\ UNCHANGED <<disk, lock, mind, crashes>>

\* The unlink takes the lock file that is there now, stale or not.
Break(p) ==
    /\ pc[p] = "break"
    /\ lock' = {l \in lock : l.key # Wanted(p)}
    /\ Goto(p, "lock")
    /\ UNCHANGED <<disk, mind, crashes>>

\* The wait has its own deadline: a lock that came up during it may be younger.
GiveUpWaiting(p) ==
    /\ pc[p] = "lock" /\ Locked(Wanted(p)) /\ ~Completed(Wanted(p))
    /\ GiveUp(p, "timeout")
    /\ UNCHANGED <<disk, lock, from, todo, asked, crashes>>

Reread(p) ==
    LET w == Wanted(p) IN
    /\ pc[p] = "reread"
    /\ IF {Data(w), Meta(w)} \subseteq files
       THEN /\ Goto(p, "verify") /\ from' = [from EXCEPT ![p] = Meta(w)]
            /\ UNCHANGED <<plan, dep, result>>
       ELSE GiveUp(p, "no_output") /\ UNCHANGED from
    /\ UNCHANGED <<disk, lock, todo, asked, crashes>>
-----------------------------------------------------------------------------
(* Computing and publishing, and the purge, under the lock.                *)

Raise(p, reason) ==
    /\ Goto(p, "cleanup")
    /\ result' = [result EXCEPT ![p] = reason]

\* The factor raises, or its frame is refused.
ComputeFails(p) ==
    /\ pc[p] = "compute"
    /\ Raise(p, "failed")
    /\ UNCHANGED <<disk, lock, plan, dep, from, todo, asked, crashes>>

\* to_parquet truncates the temporary file, whoever else is writing it ...
Open(p) ==
    LET tmp == TmpData(Wanted(p)) IN
    /\ pc[p] = "compute"
    /\ files' = files \union {tmp} /\ torn' = torn \union {tmp}
    /\ out' = [q \in Procs |-> IF q = p THEN tmp
                               ELSE IF out[q] = tmp THEN NoFile ELSE out[q]]
    /\ Goto(p, "write")
    /\ UNCHANGED <<lock, mind, crashes>>

\* ... and who truncated it last leaves it whole, wherever it is by then.
Close(p) ==
    /\ pc[p] = "write"
    /\ torn' = torn \ {out[p]}
    /\ out' = [out EXCEPT ![p] = NoFile]
    /\ Goto(p, "sign")
    /\ UNCHANGED <<files, lock, mind, crashes>>

\* The hash of the temporary file goes into temporary metadata.
Describe(p) ==
    LET w == Wanted(p) IN
    /\ pc[p] = "sign"
    /\ IF TmpData(w) \notin files
       THEN Raise(p, "vanished") /\ UNCHANGED <<files, torn>>
       ELSE /\ files' = files \union {TmpMeta(w)}
            /\ torn' = IF TmpData(w) \in torn THEN torn \union {TmpMeta(w)}
                       ELSE torn \ {TmpMeta(w)}
            /\ Goto(p, "publish_data") /\ UNCHANGED result
    /\ UNCHANGED <<out, lock, plan, dep, from, todo, asked, crashes>>

PublishData(p) ==
    LET w == Wanted(p) IN
    /\ pc[p] = "publish_data"
    /\ IF TmpData(w) \notin files THEN Raise(p, "vanished") /\ UNCHANGED disk
       ELSE /\ Replace(TmpData(w), Data(w))
            /\ Goto(p, "publish_meta") /\ UNCHANGED result
    /\ UNCHANGED <<lock, plan, dep, from, todo, asked, crashes>>

\* With the metadata in place the purge lists the directory of the factor.
Outdated(f, w) == /\ IsMeta(f) /\ f.key.factor = w.factor
                  /\ Identity(f.key) # Identity(w)

PublishMeta(p) ==
    LET w == Wanted(p) IN
    /\ pc[p] = "publish_meta"
    /\ IF TmpMeta(w) \notin files
       THEN Raise(p, "vanished") /\ UNCHANGED <<disk, todo>>
       ELSE /\ Replace(TmpMeta(w), Meta(w))
            /\ todo' = [todo EXCEPT ![p] = {f \in files : Outdated(f, w)}]
            /\ Goto(p, "purge") /\ UNCHANGED result
    /\ UNCHANGED <<lock, plan, dep, from, asked, crashes>>

\* An outdated entry loses its data first, then its metadata.
PurgeData(p) ==
    /\ pc[p] = "purge"
    /\ \E f \in todo[p] :
          /\ todo' = [todo EXCEPT ![p] = @ \ {f}]
          /\ IF f \notin files THEN UNCHANGED <<disk, from, pc>>
             ELSE /\ Unlink({Data(f.key)})
                  /\ from' = [from EXCEPT ![p] = f]
                  /\ Goto(p, "purge_meta")
    /\ UNCHANGED <<lock, plan, dep, result, asked, crashes>>

PurgeMeta(p) ==
    /\ pc[p] = "purge_meta"
    /\ Unlink({from[p]})
    /\ Goto(p, "purge")
    /\ UNCHANGED <<lock, mind, crashes>>

Purged(p) ==
    /\ pc[p] = "purge" /\ todo[p] = {}
    /\ result' = [result EXCEPT ![p] = "computed"]
    /\ Goto(p, "unlock")
    /\ UNCHANGED <<disk, lock, plan, dep, from, todo, asked, crashes>>

Cleanup(p) ==
    /\ pc[p] = "cleanup"
    /\ Unlink({TmpData(Wanted(p)), TmpMeta(Wanted(p))})
    /\ Goto(p, "unlock")
    /\ UNCHANGED <<lock, mind, crashes>>

\* finally: the lock file goes, whoever created the one that is there.
Unlock(p) ==
    /\ pc[p] = "unlock"
    /\ lock' = {l \in lock : l.key # Wanted(p)}
    /\ IF result[p] = "computed" THEN Deliver(p, Wanted(p), "computed")
       ELSE GiveUp(p, result[p])
    /\ UNCHANGED <<disk, from, todo, asked, crashes>>
-----------------------------------------------------------------------------
\* The process is killed: its files and its lock stay as they are.
Crash(p) ==
    /\ pc[p] \notin {"idle", "dead"} /\ crashes < MaxCrashes
    /\ crashes' = crashes + 1
    /\ Goto(p, "dead")
    /\ out' = [out EXCEPT ![p] = NoFile]
    /\ UNCHANGED <<files, torn, lock, mind>>

\* All a process does by itself, without the deadline of a wait.
Proceed(p) ==
    \/ LookForEntry(p) \/ FindBroader(p) \/ Miss(p) \/ Verify(p) \/ Load(p)
    \/ TryLock(p) \/ SeeCompleted(p) \/ SeeStale(p) \/ Break(p) \/ Reread(p)
    \/ ComputeFails(p) \/ Open(p) \/ Close(p) \/ Describe(p)
    \/ PublishData(p) \/ PublishMeta(p)
    \/ PurgeData(p) \/ PurgeMeta(p) \/ Purged(p)
    \/ Cleanup(p) \/ Unlock(p)

Next == \E p \in Procs : Ask(p) \/ Proceed(p) \/ GiveUpWaiting(p) \/ Crash(p)

Spec == Init /\ [][Next]_vars

\* The operating system runs every live process; nothing is assumed of crashes,
\* of new requests, or of deadlines.
Fairness == \A p \in Procs : WF_vars(Proceed(p))
FairSpec == Spec /\ Fairness
-----------------------------------------------------------------------------
(* What the cache promises.                                                *)

Producing == {"compute", "write", "sign", "publish_data", "publish_meta",
              "purge", "purge_meta", "cleanup", "unlock"}
\* One process at a time produces an entry (docs/architecture.md:503).
OneProducer ==
    \A p, q \in Procs :
        /\ p # q /\ pc[p] \in Producing /\ pc[q] \in Producing
        => Wanted(p) # Wanted(q)

\* A data file with its metadata is whole, and so is what the hash was taken
\* of: no crash, failure or second producer leaves an entry that looks valid
\* and is not.
PublishedIntact ==
    \A f \in files : IsMeta(f) /\ Data(f.key) \in files =>
        {f, Data(f.key)} \intersect torn = {}

\* Every request of a live process is answered, without the help of deadlines:
\* a lock whose creator died does not keep anyone waiting.
RequestsEnd == \A p \in Procs : pc[p] # "idle" ~> pc[p] \in {"idle", "dead"}
=============================================================================
