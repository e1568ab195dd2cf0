------------------------------ MODULE HermesJob ------------------------------
(***************************************************************************)
(* A Hermes job from the database to the published data set: acquisition   *)
(* (zyquant.connectors.hermes.acquisition), canonicalization and           *)
(* publication (zyquant.connectors.hermes.normalize).                      *)
(*                                                                         *)
(* A controller fetches the chunks of the source tables with a pool of     *)
(* worker threads, keeps their state in a SQLite database, writes the      *)
(* canonical tables from the files and marks them with _SUCCESS.  It may   *)
(* be killed at any point and launched again, to run or to resume.  A      *)
(* publisher links the canonical files into a staging directory and        *)
(* renames it.                                                             *)
(*                                                                         *)
(* One controller of a job at a time.  Of a chunk's file only the presence *)
(* and integrity are recorded, not what the source held when it was read:  *)
(* a row revised after the job's watermark is missing from a chunk read    *)
(* later.  What a canonical table holds is determined by the chunks that   *)
(* were there and by the resolution policy of the request.                 *)
(***************************************************************************)
EXTENDS Integers, FiniteSets

CONSTANTS
    Chunks,         \* the extraction chunks of the plan
    NumTables,      \* canonical tables, written in the order of their number
    Policies,       \* instrument_resolution_policy, not part of the job's identity
    Workers,        \* max_connections of the request
    MaxRetries,     \* attempts at a chunk in one launch, 3 in the code
    Restarts,       \* how a job is launched again: run, resume or both
    Overlap,        \* whether a publisher may run beside a controller
    MaxLaunches, MaxCrashes, MaxLosses,     \* bounds
    NoTable

ASSUME HermesAssumption ==
    /\ IsFiniteSet(Chunks) /\ Policies # {}
    /\ NumTables \in Nat /\ Workers \in Nat \ {0} /\ MaxRetries \in Nat \ {0}
    /\ Restarts \subseteq {"run", "resume"} /\ Overlap \in BOOLEAN
    /\ MaxLaunches \in Nat /\ MaxCrashes \in Nat /\ MaxLosses \in Nat

VARIABLES
    job,        \* status of the job row, "none" before there is one
    row,        \* status of each chunk row
    files,      \* the chunk files: none, whole or damaged
    stage,      \* what the controller does next, "off" when none runs
    mode, policy,           \* action and policy of the launch
    pending, worker, tries, \* chunks to fetch, their threads and attempts
    written,    \* canonical tables written by the launch
    canon, meta,    \* what the canonical tables and their manifest hold
    success,    \* the _SUCCESS file
    pub,        \* the publisher and its staging directory
    published,  \* the data set directory, once renamed
    launches, crashes, losses

state == <<job, row>>
pool == <<pending, worker, tries>>
canonical == <<canon, meta, success, written>>
launch == <<mode, policy, launches>>
publication == <<pub, published>>
vars == <<state, files, stage, launch, pool, canonical, publication, crashes, losses>>

Tables == 1 .. NumTables
NotPublishing == [at |-> "idle", table |-> 0, link |-> [t \in Tables |-> NoTable],
                  sha |-> [t \in Tables |-> NoTable], meta |-> NoTable]

Init ==
    /\ job = "none" /\ row = [c \in Chunks |-> "absent"]
    /\ files = [c \in Chunks |-> "none"]
    /\ stage = "off" /\ mode = "run" /\ policy \in Policies
    /\ pending = {} /\ worker = [c \in Chunks |-> "idle"]
    /\ tries = [c \in Chunks |-> 0]
    /\ written = 0 /\ canon = [t \in Tables |-> NoTable] /\ meta = NoTable
    /\ success = FALSE
    /\ pub = NotPublishing /\ published = NotPublishing
    /\ launches = 0 /\ crashes = 0 /\ losses = 0

-----------------------------------------------------------------------------
(* Acquisition.                                                             *)

Launch(action) ==
    /\ stage = "off" /\ launches < MaxLaunches
    /\ Overlap \/ pub.at = "idle"
    /\ job = "none" \/ action \in Restarts
    /\ launches' = launches + 1 /\ mode' = action /\ policy' \in Policies
    /\ stage' = "open" /\ written' = 0
    /\ UNCHANGED <<state, files, pool, canon, meta, success, publication, crashes, losses>>

\* A source schema, request or chunk that is not the job's any more is refused,
\* and so is a launch without a connection.
Refuse ==
    /\ stage \in {"open", "plan"} /\ stage' = "off"
    /\ UNCHANGED <<state, files, launch, pool, canonical, publication, crashes, losses>>

Initialize ==
    /\ stage = "open" /\ stage' = "plan"
    /\ job' = IF job = "none" THEN "queued" ELSE job
    /\ UNCHANGED <<row, files, launch, pool, canonical, publication, crashes, losses>>

AddChunks ==
    /\ stage = "plan"
    /\ stage' = IF mode = "resume" THEN "verify" ELSE "begin"
    /\ row' = [c \in Chunks |-> IF row[c] = "absent" THEN "queued" ELSE row[c]]
    /\ UNCHANGED <<job, files, launch, pool, canonical, publication, crashes, losses>>

\* Mutant: a resume trusts the rows.
IntactOrRecorded(c) == TRUE
Intact(c) == files[c] = "whole"

Requeued(c) == row[c] = "running" \/ (row[c] = "succeeded" /\ ~ Intact(c))

\* One transaction: files that are gone or changed, and chunks that were running.
PrepareResume ==
    /\ stage = "verify" /\ stage' = "begin"
    /\ row' = [c \in Chunks |-> IF Requeued(c) THEN "queued" ELSE row[c]]
    /\ UNCHANGED <<job, files, launch, pool, canonical, publication, crashes, losses>>

Begin ==
    /\ stage = "begin" /\ stage' = "fetch"
    /\ job' = "running"
    /\ pending' = {c \in Chunks : row[c] # "succeeded"}
    /\ worker' = [c \in Chunks |-> "idle"] /\ tries' = [c \in Chunks |-> 0]
    /\ UNCHANGED <<row, files, launch, canonical, publication, crashes, losses>>

Busy == {c \in Chunks : worker[c] \in {"fetching", "placed"}}

Startable(c) == row[c] \in {"queued", "failed"}

\* A thread takes a chunk; one that cannot be started is passed over.
Start(c) ==
    /\ stage = "fetch" /\ c \in pending /\ worker[c] = "idle"
    /\ Cardinality(Busy) < Workers
    /\ row' = [row EXCEPT ![c] = IF Startable(c) THEN "running" ELSE @]
    /\ worker' = [worker EXCEPT ![c] = IF Startable(c) THEN "fetching" ELSE "passed"]
    /\ UNCHANGED <<job, files, stage, launch, pending, tries, canonical, publication,
                   crashes, losses>>

\* The temporary file is complete and closed, and renamed.
Place(c) ==
    /\ stage = "fetch" /\ worker[c] = "fetching"
    /\ files' = [files EXCEPT ![c] = "whole"]
    /\ worker' = [worker EXCEPT ![c] = "placed"]
    /\ UNCHANGED <<state, stage, launch, pending, tries, canonical, publication,
                   crashes, losses>>

Succeed(c) ==
    /\ stage = "fetch" /\ worker[c] = "placed"
    /\ row' = [row EXCEPT ![c] = "succeeded"]
    /\ worker' = [worker EXCEPT ![c] = "done"]
    /\ UNCHANGED <<job, files, stage, launch, pending, tries, canonical, publication,
                   crashes, losses>>

MayRetry(c) == tries[c] < MaxRetries - 1

\* A transient error, of the connection or of the disk, before or after the rename.
Retry(c) ==
    /\ stage = "fetch" /\ worker[c] \in {"fetching", "placed"} /\ MayRetry(c)
    /\ tries' = [tries EXCEPT ![c] = @ + 1]
    /\ worker' = [worker EXCEPT ![c] = "fetching"]
    /\ UNCHANGED <<state, files, stage, launch, pending, canonical, publication,
                   crashes, losses>>

\* Another error, or the last attempt.
Fail(c) ==
    /\ stage = "fetch" /\ worker[c] \in {"fetching", "placed"}
    /\ row' = [row EXCEPT ![c] = "failed"]
    /\ worker' = [worker EXCEPT ![c] = "failed"]
    /\ UNCHANGED <<job, files, stage, launch, pending, tries, canonical, publication,
                   crashes, losses>>

Gathered == \A c \in pending : worker[c] \in {"done", "passed"}

Acquired ==
    /\ stage = "fetch" /\ Gathered
    /\ job' = "acquired" /\ stage' = "normalize"
    /\ UNCHANGED <<row, files, launch, pool, canonical, publication, crashes, losses>>

\* Mutant: the first failure is looked for when all have failed.
SettledByFailure == \A c \in pending : worker[c] = "failed"
Settled == \A c \in pending : worker[c] \in {"done", "passed", "failed"}

AcquisitionFails ==
    /\ stage = "fetch" /\ Settled
    /\ \E c \in pending : worker[c] = "failed"
    /\ job' = "failed" /\ stage' = "off"
    /\ UNCHANGED <<row, files, launch, pool, canonical, publication, crashes, losses>>

-----------------------------------------------------------------------------
(* Canonicalization.                                                        *)

Normalize ==
    /\ stage = "normalize"
    /\ job \in {"acquired", "normalizing", "normalized", "failed"}
    /\ job' = "normalizing" /\ stage' = "unmark"
    /\ UNCHANGED <<row, files, launch, pool, canonical, publication, crashes, losses>>

\* Mutant: the mark of the previous canonicalization is kept until the end.
UnmarkLater == success
Unmarked == FALSE

Unmark ==
    /\ stage = "unmark" /\ stage' = "write"
    /\ success' = Unmarked
    /\ UNCHANGED <<state, files, launch, pool, canon, meta, written, publication,
                   crashes, losses>>

\* A table is made of the chunk files found; one that cannot be read is an error.
Found == {c \in Chunks : files[c] # "none"}
WriteTable ==
    /\ stage = "write" /\ written < NumTables
    /\ \A c \in Chunks : files[c] # "damaged"
    /\ canon' = [canon EXCEPT ![written + 1] = [policy |-> policy, have |-> Found]]
    /\ written' = written + 1
    /\ UNCHANGED <<state, files, stage, launch, pool, meta, success, publication,
                   crashes, losses>>

\* Any DataContractError: unresolved instruments, quarantine above tolerance, ...
NormalizationFails ==
    /\ stage \in {"unmark", "write"}
    /\ job' = "failed" /\ stage' = "off"
    /\ UNCHANGED <<row, files, launch, pool, canonical, publication, crashes, losses>>

WriteManifest ==
    /\ stage = "write" /\ written = NumTables
    /\ meta' = [policy |-> policy, have |-> Found]
    /\ stage' = "mark"
    /\ UNCHANGED <<state, files, launch, pool, canon, success, written, publication,
                   crashes, losses>>

Mark ==
    /\ stage = "mark" /\ stage' = "finish"
    /\ success' = TRUE
    /\ UNCHANGED <<state, files, launch, pool, canon, meta, written, publication,
                   crashes, losses>>

Normalized ==
    /\ stage = "finish" /\ stage' = "off"
    /\ job' = "normalized"
    /\ UNCHANGED <<row, files, launch, pool, canonical, publication, crashes, losses>>

-----------------------------------------------------------------------------
(* Publication.                                                             *)

\* What a killed publisher has left in the staging directory is removed.
Publish ==
    /\ pub.at = "idle" /\ published.at = "idle"
    /\ success
    /\ Overlap \/ stage = "off"
    /\ pub' = [NotPublishing EXCEPT !.at = "link", !.table = 1, !.meta = meta]
    /\ UNCHANGED <<state, files, stage, launch, pool, canonical, published, crashes, losses>>

LinkTable ==
    /\ pub.at = "link"
    /\ pub' = [pub EXCEPT !.link[pub.table] = canon[pub.table], !.at = "hash"]
    /\ UNCHANGED <<state, files, stage, launch, pool, canonical, published, crashes, losses>>

\* The canonical file is hashed, not its link.
HashTable ==
    /\ pub.at = "hash"
    /\ pub' = [pub EXCEPT !.sha[pub.table] = canon[pub.table],
                          !.table = @ + 1,
                          !.at = IF pub.table = NumTables THEN "rename" ELSE "link"]
    /\ UNCHANGED <<state, files, stage, launch, pool, canonical, published, crashes, losses>>

\* The manifest is written and the staging directory renamed.
Commit ==
    /\ pub.at = "rename"
    /\ published' = [pub EXCEPT !.at = "done"]
    /\ pub' = NotPublishing
    /\ UNCHANGED <<state, files, stage, launch, pool, canonical, crashes, losses>>

\* An incomplete or inconsistent set of tables is refused, or the publisher is killed.
PublishFails ==
    /\ pub.at # "idle" /\ crashes < MaxCrashes /\ crashes' = crashes + 1
    /\ pub' = NotPublishing
    /\ UNCHANGED <<state, files, stage, launch, pool, canonical, published, losses>>

-----------------------------------------------------------------------------
(* The environment.                                                         *)

Crash ==
    /\ stage # "off" /\ crashes < MaxCrashes
    /\ stage' = "off" /\ crashes' = crashes + 1
    /\ UNCHANGED <<state, files, launch, pool, canonical, publication, losses>>

\* Between two launches a chunk file is lost or damaged.
Lose(c) ==
    /\ stage = "off" /\ losses < MaxLosses /\ files[c] = "whole"
    /\ \E what \in {"none", "damaged"} : files' = [files EXCEPT ![c] = what]
    /\ losses' = losses + 1
    /\ UNCHANGED <<state, stage, launch, pool, canonical, publication, crashes>>

Fetch == \E c \in Chunks : Start(c) \/ Place(c) \/ Succeed(c) \/ Retry(c) \/ Fail(c)
Controller ==
    \/ Refuse \/ Initialize \/ AddChunks \/ PrepareResume \/ Begin \/ Fetch
    \/ Acquired \/ AcquisitionFails
    \/ Normalize \/ Unmark \/ WriteTable \/ NormalizationFails \/ WriteManifest
    \/ Mark \/ Normalized
Publisher == Publish \/ LinkTable \/ HashTable \/ Commit \/ PublishFails

Next ==
    \/ Controller \/ Publisher \/ Crash
    \/ \E action \in {"run", "resume"} : Launch(action)
    \/ \E c \in Chunks : Lose(c)

Spec == Init /\ [][Next]_vars

\* A launched controller keeps running; nobody has to launch or publish.
Fairness == WF_vars(Controller)
FairSpec == Spec /\ Fairness

-----------------------------------------------------------------------------
\* Once the chunks count as acquired and the canonical tables are made from
\* them, every chunk has succeeded and its file is whole: whatever was
\* interrupted, failed, lost or damaged before was fetched again.
Normalizing == stage \in {"normalize", "unmark", "write", "mark", "finish"}
AcquiredIsComplete ==
    Normalizing => \A c \in Chunks : row[c] = "succeeded" /\ files[c] = "whole"

\* The tables of a published data set and the manifest beside them come from
\* one canonicalization of the whole job, and the hashes are the files'.
PublishedIsSound ==
    published.at = "done" =>
        \E p \in Policies : \A t \in Tables :
            LET whole == [policy |-> p, have |-> Chunks]
            IN  /\ published.link[t] = whole /\ published.sha[t] = whole
                /\ published.meta = whole

\* A launch ends, in success or failure.
LaunchEnds == stage # "off" ~> stage = "off"
=============================================================================
