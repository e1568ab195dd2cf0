---------------------------- MODULE HermesProofs ----------------------------
(***************************************************************************)
(* The safety of a Hermes job and of the tables made from its files.       *)
(*                                                                         *)
(* The job, for any number of chunks, tables, workers, attempts, launches, *)
(* kills and losses: what is normalized was acquired completely, and what  *)
(* is published is one canonicalization of it.  Two restrictions come from *)
(* the code.  A job that was interrupted is taken up by resume and not by  *)
(* a plain run, which passes over the chunks that were running; and no     *)
(* publisher runs beside a controller, which may rewrite the tables under  *)
(* it.                                                                     *)
(*                                                                         *)
(* The tables, for any raw tables: prices that are filled in come from the *)
(* past, every member of the universe is accounted for on every open day,  *)
(* adjustment factors are carried over months, special-treatment windows   *)
(* partition the days, and extension tables are complete and not ahead of  *)
(* their last revision.  What is assumed of the raw tables is what their   *)
(* source and the queries of the job give, and stands in each theorem.     *)
(***************************************************************************)
EXTENDS HermesJob, HermesTables, FiniteSetTheorems, WellFoundedInduction, TLAPS

-----------------------------------------------------------------------------
(* The job.                                                                *)

ResumesOnly == Restarts \subseteq {"resume"}

Stages == {"off", "open", "plan", "verify", "begin", "fetch", "normalize", "unmark",
           "write", "mark", "finish"}
Jobs == {"none", "queued", "running", "acquired", "normalizing", "normalized", "failed"}
Rows == {"absent", "queued", "running", "succeeded", "failed"}
Positions == {"idle", "fetching", "placed", "done", "passed", "failed"}

AcquisitionTypeOK ==
    /\ job \in Jobs /\ row \in [Chunks -> Rows]
    /\ files \in [Chunks -> {"none", "whole", "damaged"}]
    /\ stage \in Stages /\ mode \in {"run", "resume"}
    /\ pending \subseteq Chunks /\ worker \in [Chunks -> Positions]

\* A job without a row has no chunk rows, and a plain run starts from none.
NothingYet == \A c \in Chunks : row[c] = "absent"
FreshRun ==
    /\ job = "none" => NothingYet /\ stage \in {"off", "open"}
    /\ stage \in {"open", "plan"} /\ mode = "run" => NothingYet

\* Before the threads start, no chunk is left over from a killed controller and every
\* success on record has its file.
ReadyToFetch ==
    /\ stage = "verify" => \A c \in Chunks : row[c] # "absent"
    /\ stage = "begin" => \A c \in Chunks :
            /\ row[c] \in {"queued", "failed", "succeeded"}
            /\ row[c] = "succeeded" => files[c] = "whole"

\* Where a thread is tells what the row of its chunk says, and what there is of the file.
ThreadsInStep ==
    stage = "fetch" => \A c \in Chunks :
        /\ c \notin pending => row[c] = "succeeded" /\ worker[c] = "idle"
        /\ row[c] = "succeeded" => files[c] = "whole"
        /\ worker[c] # "passed"
        /\ worker[c] = "idle" /\ c \in pending => row[c] \in {"queued", "failed"}
        /\ worker[c] = "placed" => files[c] = "whole"
        /\ worker[c] = "done" => row[c] = "succeeded"

AcquisitionInv ==
    AcquisitionTypeOK /\ FreshRun /\ ReadyToFetch /\ ThreadsInStep /\ AcquiredIsComplete

LEMMA AcquisitionInit == Init => AcquisitionInv
BY DEF Init, AcquisitionInv, AcquisitionTypeOK, FreshRun, NothingYet, ReadyToFetch,
       ThreadsInStep, AcquiredIsComplete, Normalizing, Stages, Jobs, Rows, Positions

LEMMA AcquisitionStep ==
    ASSUME ResumesOnly PROVE AcquisitionInv /\ [Next]_vars => AcquisitionInv'
<1> SUFFICES ASSUME AcquisitionInv, [Next]_vars PROVE AcquisitionInv'
  OBVIOUS
<1> USE DEF AcquisitionInv, AcquisitionTypeOK, FreshRun, NothingYet, ReadyToFetch,
            ThreadsInStep, AcquiredIsComplete, Normalizing, Stages, Jobs, Rows, Positions,
            vars, state, launch, pool, canonical, publication
<1>1. ASSUME NEW action \in {"run", "resume"}, Launch(action) PROVE AcquisitionInv'
  BY <1>1 DEF Launch, ResumesOnly
<1>2. CASE Refuse \/ Crash
  BY <1>2 DEF Refuse, Crash
<1>3. CASE Initialize
  BY <1>3 DEF Initialize
<1>4. CASE AddChunks
  BY <1>4 DEF AddChunks
<1>5. CASE PrepareResume
  BY <1>5 DEF PrepareResume, Requeued, Intact
<1>6. CASE Begin
  BY <1>6 DEF Begin
<1>7. ASSUME NEW c \in Chunks, Start(c) PROVE AcquisitionInv'
  BY <1>7 DEF Start, Startable
<1>8. ASSUME NEW c \in Chunks, Place(c) \/ Succeed(c) PROVE AcquisitionInv'
  BY <1>8 DEF Place, Succeed
<1>9. ASSUME NEW c \in Chunks, Retry(c) \/ Fail(c) PROVE AcquisitionInv'
  BY <1>9 DEF Retry, Fail
<1>10. CASE Acquired
  BY <1>10 DEF Acquired, Gathered
<1>11. CASE AcquisitionFails \/ NormalizationFails
  BY <1>11 DEF AcquisitionFails, NormalizationFails
<1>12. CASE Normalize \/ Unmark \/ WriteTable \/ WriteManifest \/ Mark \/ Normalized
  BY <1>12 DEF Normalize, Unmark, WriteTable, WriteManifest, Mark, Normalized
<1>13. CASE Publisher
  BY <1>13 DEF Publisher, Publish, LinkTable, HashTable, Commit, PublishFails
<1>14. ASSUME NEW c \in Chunks, Lose(c) PROVE AcquisitionInv'
  BY <1>14 DEF Lose
<1>15. CASE UNCHANGED vars
  BY <1>15
<1> QED
  BY <1>1, <1>2, <1>3, <1>4, <1>5, <1>6, <1>7, <1>8, <1>9, <1>10, <1>11, <1>12, <1>13,
     <1>14, <1>15 DEF Next, Controller, Fetch

\* However often a job is killed, fails, loses files and is resumed: from the moment it
\* counts as acquired, every chunk has succeeded and its file is whole.
THEOREM AcquiredCompletely ==
    ASSUME ResumesOnly PROVE Spec => []AcquiredIsComplete
<1>1. AcquisitionInv => AcquiredIsComplete
  BY DEF AcquisitionInv
<1> QED
  BY <1>1, AcquisitionInit, AcquisitionStep, PTL DEF Spec

-----------------------------------------------------------------------------
(* Publication.                                                             *)

OneAtATime == Overlap = FALSE

Content == [policy : Policies, have : SUBSET Chunks]
Whole(p) == [policy |-> p, have |-> Chunks]
Link == [Tables -> Content \union {NoTable}]
PublisherStates ==
    [at : {"idle", "link", "hash", "rename", "done"}, table : Nat, link : Link, sha : Link,
     meta : Content \union {NoTable}]

PublicationTypeOK ==
    /\ policy \in Policies /\ written \in Nat /\ success \in BOOLEAN
    /\ canon \in Link /\ meta \in Content \union {NoTable}
    /\ pub \in PublisherStates /\ published \in PublisherStates

\* The tables that are written are all of the launch's policy and of the whole job; from
\* the first of them to the mark there is no mark.
TablesInStep ==
    /\ stage \in {"open", "plan", "verify", "begin", "fetch", "normalize", "unmark"}
            => written = 0
    /\ stage \in {"write", "mark"} => ~ success
    /\ stage \in {"write", "mark", "finish"} =>
            \A t \in Tables : t <= written => canon[t] = Whole(policy)
    /\ stage \in {"mark", "finish"} => written = NumTables /\ meta = Whole(policy)

\* What is marked is one canonicalization of the whole job.
Sound(p) == meta = Whole(p) /\ \A t \in Tables : canon[t] = Whole(p)
MarkedIsSound == success => \E p \in Policies : Sound(p)

\* A publisher works alone, on tables that stay marked; what it has linked and hashed so
\* far is what they hold.
PublisherInStep ==
    /\ pub.at # "done"
    /\ pub.at # "idle" =>
        /\ stage = "off" /\ success /\ pub.meta = meta
        /\ \A t \in Tables :
            /\ t < pub.table => pub.link[t] = canon[t] /\ pub.sha[t] = canon[t]
            /\ t = pub.table /\ pub.at = "hash" => pub.link[t] = canon[t]
    /\ pub.at = "rename" => pub.table = NumTables + 1

PublicationInv ==
    PublicationTypeOK /\ TablesInStep /\ MarkedIsSound /\ PublisherInStep /\ PublishedIsSound

LEMMA PublicationInit == Init => PublicationInv
<1> SUFFICES ASSUME Init PROVE PublicationInv
  OBVIOUS
<1>1. NotPublishing \in PublisherStates /\ NotPublishing.at = "idle"
  BY DEF NotPublishing, PublisherStates, Link
<1> QED
  BY <1>1 DEF Init, PublicationInv, PublicationTypeOK, TablesInStep, MarkedIsSound,
              PublisherInStep, PublishedIsSound, Link, Tables

\* Every step of the controller: the tables are made of what was acquired.
LEMMA ControllerPublication ==
    ASSUME OneAtATime, AcquisitionInv, PublicationInv,
           Controller \/ Crash \/ (\E c \in Chunks : Lose(c))
                      \/ (\E action \in {"run", "resume"} : Launch(action))
    PROVE  PublicationInv'
<1> USE HermesAssumption DEF PublicationInv, PublicationTypeOK, TablesInStep, MarkedIsSound, Sound,
        PublisherInStep, PublishedIsSound, state, launch, pool, canonical, publication
<1>1. ASSUME NEW action \in {"run", "resume"}, Launch(action) PROVE PublicationInv'
  BY <1>1 DEF Launch, OneAtATime
<1>2. CASE Refuse \/ Crash \/ Initialize \/ AddChunks \/ PrepareResume \/ Begin \/ Acquired
           \/ AcquisitionFails \/ Normalize \/ NormalizationFails \/ Normalized
  BY <1>2 DEF Refuse, Crash, Initialize, AddChunks, PrepareResume, Begin, Acquired,
              AcquisitionFails, Normalize, NormalizationFails, Normalized
<1>3. CASE Fetch \/ \E c \in Chunks : Lose(c)
  <2>1. PICK c \in Chunks : Start(c) \/ Place(c) \/ Succeed(c) \/ Retry(c) \/ Fail(c) \/ Lose(c)
    BY <1>3 DEF Fetch
  <2>2. UNCHANGED <<stage, policy, written, success, canon, meta, pub, published>>
    BY ONLY <2>1 DEF Start, Place, Succeed, Retry, Fail, Lose, launch, canonical, publication
  <2> QED
    BY <2>2
<1>4. CASE Unmark
  <2>1. success' \in BOOLEAN /\ ~ success'
    BY <1>4 DEF Unmark, Unmarked
  <2>2. \A t \in Tables : ~ t <= 0
    BY DEF Tables
  <2>3. /\ stage = "unmark" /\ stage' = "write" /\ pub.at = "idle"
        /\ UNCHANGED <<job, row, files, policy, canon, meta, written, pub, published>>
    BY <1>4 DEF Unmark
  <2>4. PublishedIsSound'
    BY <2>3
  <2>5. written = 0 /\ TablesInStep'
    BY <2>1, <2>2, <2>3
  <2> QED
    BY <2>1, <2>3, <2>4, <2>5
<1>5. stage \in {"write"} => Found = Chunks
  BY DEF AcquisitionInv, AcquiredIsComplete, Normalizing, Found
<1>6. CASE WriteTable
  <2>1. written + 1 \in Tables /\ [policy |-> policy, have |-> Found] = Whole(policy)
    BY <1>5, <1>6 DEF WriteTable, Tables, Whole
  <2>2. Whole(policy) \in Content
    BY DEF Whole, Content
  <2>3. canon' = [canon EXCEPT ![written + 1] = Whole(policy)] /\ written' = written + 1
    BY <1>6, <2>1 DEF WriteTable
  <2>4. /\ stage' = "write" /\ stage = "write" /\ canon' \in Link
        /\ \A t \in Tables : t <= written' => canon'[t] = Whole(policy)
    BY <1>6, <2>1, <2>2, <2>3 DEF WriteTable, Link, Tables
  <2> QED
    BY <1>6, <2>3, <2>4 DEF WriteTable
<1>7. CASE WriteManifest
  <2>1. meta' = Whole(policy) /\ Whole(policy) \in Content
    BY <1>5, <1>7 DEF WriteManifest, Whole, Content
  <2> QED
    BY <1>7, <2>1 DEF WriteManifest
<1>8. CASE Mark
  BY <1>8 DEF Mark, Tables
<1> QED
  BY <1>1, <1>2, <1>3, <1>4, <1>6, <1>7, <1>8 DEF Controller

\* Every step of the publisher.
LEMMA PublisherPublication ==
    ASSUME OneAtATime, PublicationInv, Publisher PROVE PublicationInv'
<1> USE HermesAssumption DEF PublicationInv, PublicationTypeOK, TablesInStep, MarkedIsSound, Sound,
        PublisherInStep, PublishedIsSound, state, launch, pool, canonical, publication
<1>0. NotPublishing \in PublisherStates /\ NotPublishing.at = "idle"
  BY DEF NotPublishing, PublisherStates, Link
<1>1. CASE Publish
  <2>1. /\ pub' \in PublisherStates /\ pub'.at = "link" /\ pub'.table = 1 /\ pub'.meta = meta
    BY <1>1, <1>0 DEF Publish, PublisherStates
  <2> QED
    BY <1>1, <2>1 DEF Publish, OneAtATime, Tables
<1>2. CASE LinkTable
  <2>1. /\ pub' \in PublisherStates /\ pub'.at = "hash" /\ pub'.table = pub.table
        /\ pub'.meta = pub.meta /\ pub'.sha = pub.sha
        /\ \A t \in Tables : pub'.link[t] = IF t = pub.table THEN canon[t] ELSE pub.link[t]
    BY <1>2 DEF LinkTable, PublisherStates, Link
  <2>2. UNCHANGED <<stage, policy, written, success, canon, meta, published>> /\ pub.at = "link"
    BY <1>2 DEF LinkTable
  <2>3. PublicationTypeOK' /\ TablesInStep' /\ MarkedIsSound' /\ PublishedIsSound'
    BY <2>1, <2>2
  <2>4. PublisherInStep'
    <3>1. \A t \in Tables : t < pub.table => pub'.link[t] = canon[t] /\ pub'.sha[t] = canon[t]
      <4>1. pub.table \in Nat /\ \A t \in Tables : t \in Nat
        BY DEF PublisherStates, Tables
      <4> QED
        BY <2>1, <2>2, <4>1
    <3> QED
      BY <2>1, <2>2, <3>1
  <2> QED
    BY <2>3, <2>4
<1>3. CASE HashTable
  <2>1. /\ pub' \in PublisherStates /\ pub'.table = pub.table + 1
        /\ pub'.at = IF pub.table = NumTables THEN "rename" ELSE "link"
        /\ pub'.meta = pub.meta /\ pub'.link = pub.link
        /\ \A t \in Tables : pub'.sha[t] = IF t = pub.table THEN canon[t] ELSE pub.sha[t]
    <3>1. pub.table + 1 \in Nat /\ [pub.sha EXCEPT ![pub.table] = canon[pub.table]] \in Link
      <4>1. pub.table \in Nat /\ pub.sha \in Link /\ canon \in Link
        BY DEF PublisherStates
      <4>2. CASE pub.table \in Tables
        BY <4>1, <4>2 DEF Link
      <4>3. CASE pub.table \notin Tables
        <5>1. [pub.sha EXCEPT ![pub.table] = canon[pub.table]] = pub.sha
          BY <4>1, <4>3 DEF Link
        <5> QED
          BY <4>1, <5>1
      <4> QED
        BY <4>2, <4>3
    <3>2. pub' = [at |-> IF pub.table = NumTables THEN "rename" ELSE "link",
                  table |-> pub.table + 1, link |-> pub.link,
                  sha |-> [pub.sha EXCEPT ![pub.table] = canon[pub.table]],
                  meta |-> pub.meta]
      BY <1>3 DEF HashTable, PublisherStates
    <3> QED
      BY <3>1, <3>2 DEF PublisherStates, Link
  <2> QED
    BY <1>3, <2>1 DEF HashTable, PublisherStates, Tables
<1>4. CASE Commit
  <2>1. /\ published' \in PublisherStates /\ published'.link = pub.link
        /\ published'.sha = pub.sha /\ published'.meta = pub.meta
    BY <1>4 DEF Commit, PublisherStates
  <2>2. \A t \in Tables : pub.link[t] = canon[t] /\ pub.sha[t] = canon[t]
    BY <1>4 DEF Commit, Tables
  <2> QED
    <3>1. PICK p \in Policies : Sound(p)
      BY <1>4 DEF Commit
    <3>2. /\ published'.meta = Whole(p)
          /\ \A t \in Tables : published'.link[t] = Whole(p) /\ published'.sha[t] = Whole(p)
      BY <1>4, <2>1, <2>2, <3>1 DEF Commit
    <3>3. PublishedIsSound'
      BY <3>2 DEF Whole
    <3> QED
      BY <1>4, <1>0, <2>1, <3>3 DEF Commit
<1>5. CASE PublishFails
  BY <1>5, <1>0 DEF PublishFails
<1> QED
  BY <1>1, <1>2, <1>3, <1>4, <1>5 DEF Publisher

\* Whatever failed, was killed or was published before: a published data set is one
\* canonicalization of the whole job, its manifest is of the same, and its hashes are its
\* files'.
THEOREM PublishedSoundly ==
    ASSUME ResumesOnly, OneAtATime PROVE Spec => []PublishedIsSound
<1>1. AcquisitionInv /\ PublicationInv /\ [Next]_vars => PublicationInv'
  <2>1. CASE UNCHANGED vars
    BY <2>1 DEF PublicationInv, PublicationTypeOK, TablesInStep, MarkedIsSound, Sound,
                PublisherInStep, PublishedIsSound, vars, state, launch, pool, canonical,
                publication
  <2> QED
    BY <2>1, ControllerPublication, PublisherPublication DEF Next
<1>2. PublicationInv => PublishedIsSound
  BY DEF PublicationInv
<1> QED
  BY <1>1, <1>2, AcquisitionInit, AcquisitionStep, PublicationInit, PTL DEF Spec

-----------------------------------------------------------------------------
(* Least, greatest and maximal elements.                                   *)

LEMMA LessThanPairs == \A x, y \in Nat : x < y => <<x, y>> \in OpToRel(<, Nat)
BY Zenon DEF OpToRel

\* A set of naturals that is not empty has a least element, and Min is it.
LEMMA LeastOfNat ==
  ASSUME NEW T \in SUBSET Nat, T # {}
  PROVE  /\ \E x \in T : \A y \in T : x <= y
         /\ Min(T) \in T /\ \A y \in T : Min(T) <= y
<1> DEFINE R == OpToRel(<, Nat)
<1>1. IsWellFoundedOn(R, Nat)
  BY NatLessThanWellFounded
<1>2. \A x, y \in Nat : x < y => <<x, y>> \in R
  BY LessThanPairs
<1> HIDE DEF R
<1>3. PICK x \in T : \A y \in T : ~ (<<y, x>> \in R)
  BY <1>1, WFMin
<1>4. ASSUME NEW y \in T PROVE x <= y
  <2>1. x \in Nat /\ y \in Nat
    OBVIOUS
  <2>2. ~ (y < x)
    BY <1>2, <1>3, <2>1
  <2> QED
    BY <2>1, <2>2
<1>5. \E m \in T : \A y \in T : m <= y
  BY <1>4
<1>6. Min(T) \in T /\ \A y \in T : Min(T) =< y
  BY <1>5 DEF Min
<1> QED
  BY <1>5, <1>6

\* One that is bounded has a greatest, and Max is it.
LEMMA GreatestUpTo ==
  ASSUME NEW n \in Nat, NEW T \in SUBSET (0 .. n), T # {}
  PROVE  Max(T) \in T /\ \A y \in T : y <= Max(T)
<1> DEFINE U == {n - x : x \in T}
<1>1. U \in SUBSET Nat /\ U # {}
  <2>1. \A x \in T : n - x \in Nat
    OBVIOUS
  <2> QED
    BY <2>1
<1>2. PICK u \in U : \A v \in U : u <= v
  BY <1>1, LeastOfNat
<1>3. PICK x \in T : u = n - x
  OBVIOUS
<1>4. ASSUME NEW y \in T PROVE x >= y
  <2>1. n - y \in U
    OBVIOUS
  <2>2. n - x <= n - y
    BY <1>2, <1>3, <2>1
  <2> QED
    BY <2>2
<1>5. Max(T) \in T /\ \A y \in T : Max(T) >= y
  BY <1>4 DEF Max
<1> QED
  BY <1>5

\* In a finite set that is not empty some element has none above it, whatever the strict
\* order R: one with the fewest above it.
LEMMA MaximalExists ==
  ASSUME NEW T, IsFiniteSet(T), T # {}, NEW R,
         \A x, y, z \in T : <<x, y>> \in R /\ <<y, z>> \in R => <<x, z>> \in R,
         \A x \in T : <<x, x>> \notin R
  PROVE  \E x \in T : \A y \in T : <<x, y>> \notin R
<1> DEFINE Above(x) == {y \in T : <<x, y>> \in R}
           size == [x \in T |-> Cardinality(Above(x))]
           U == {size[x] : x \in T}
<1>1. \A x \in T : IsFiniteSet(Above(x)) /\ Cardinality(Above(x)) \in Nat
  BY FS_Subset, FS_CardinalityType
<1>2. \A x \in T : size[x] \in U /\ size[x] = Cardinality(Above(x))
  OBVIOUS
<1>3. PICK u \in U : \A v \in U : u <= v
  <2>1. U # {}
    BY <1>2
  <2>2. U \in SUBSET Nat
    <3>1. size \in [T -> Nat]
      BY <1>1
    <3> HIDE DEF size
    <3> QED
      BY <3>1
  <2> HIDE DEF U
  <2> QED
    BY <2>1, <2>2, LeastOfNat
<1>4. PICK x \in T : u = Cardinality(Above(x))
  BY <1>2
<1>5. ASSUME NEW y \in T, <<x, y>> \in R PROVE FALSE
  <2>1. Above(y) \in SUBSET Above(x) /\ y \in Above(x) /\ y \notin Above(y)
    BY <1>5
  <2>2. /\ Cardinality(Above(y)) <= Cardinality(Above(x))
        /\ Cardinality(Above(y)) # Cardinality(Above(x))
    BY <1>1, <2>1, FS_Subset
  <2>3. Cardinality(Above(x)) <= Cardinality(Above(y))
    <3> HIDE DEF U
    <3> QED
      BY <1>2, <1>3, <1>4
  <2> QED
    BY <1>1, <2>2, <2>3
<1> QED
  BY <1>5

-----------------------------------------------------------------------------
(* Sort orders, months and the last of some records.                       *)

\* A record sorts before another by one number, or by the second of two.
LEMMA PrecedesOne ==
  ASSUME NEW a \in Int, NEW b \in Int
  PROVE  Precedes(<<a>>, <<b>>) <=> a < b
<1> DEFINE s == <<a>>
           t == <<b>>
<1>1. DOMAIN s = {1} /\ s[1] = a /\ t[1] = b /\ 1 .. 1 - 1 = {}
  OBVIOUS
<1> HIDE DEF s, t
<1>2. Precedes(s, t) <=> s[1] < t[1]
  BY <1>1 DEF Precedes
<1> QED
  BY <1>1, <1>2 DEF s, t

LEMMA PrecedesTwo ==
  ASSUME NEW a \in Int, NEW b \in Int, NEW c \in Int, NEW d \in Int
  PROVE  Precedes(<<a, b>>, <<c, d>>) <=> a < c \/ (a = c /\ b < d)
<1>1. DOMAIN <<a, b>> = {1, 2} /\ 1 .. 1 - 1 = {} /\ 1 .. 2 - 1 = {1}
  OBVIOUS
<1> QED
  BY <1>1 DEF Precedes

\* The latest of some records of the request is one of them, and none is of a later day.
LEMMA LatestOf ==
  ASSUME NEW S, S # {}, \A y \in S : y.day \in StartDate .. EndDate
  PROVE  Latest(S) \in S /\ \A y \in S : y.day <= Latest(S).day
<1> DEFINE T == {y.day : y \in S}
<1>1. T \in SUBSET (0 .. EndDate) /\ T # {} /\ EndDate \in Nat
  BY MasterAssumption
<1>2. \A y \in S : y.day \in Int /\ y.day \in T
  BY MasterAssumption
<1>3. PICK x \in S : x.day = Max(T) /\ \A y \in S : y.day <= x.day
  <2>1. \A t \in T : \E y \in S : y.day = t
    OBVIOUS
  <2> HIDE DEF T
  <2>2. Max(T) \in T /\ \A t \in T : t <= Max(T)
    BY <1>1, GreatestUpTo
  <2> QED
    BY <1>2, <2>1, <2>2
<1> HIDE DEF T
<1>4. ASSUME NEW y \in S PROVE ~ Precedes(<<x.day>>, <<y.day>>)
  BY <1>2, <1>3, PrecedesOne
<1>5. Latest(S) \in S /\ \A y \in S : ~ Precedes(<<Latest(S).day>>, <<y.day>>)
  BY <1>4 DEF Latest, Last
<1>6. ASSUME NEW y \in S PROVE y.day <= Latest(S).day
  <2>1. PICK m \in Int, n \in Int : m = Latest(S).day /\ n = y.day
    BY <1>2, <1>5
  <2>2. ~ Precedes(<<m>>, <<n>>)
    BY <1>5, <2>1
  <2> QED
    BY <2>1, <2>2, PrecedesOne
<1> QED
  BY <1>5, <1>6

\* A later day is not of an earlier month.
LEMMA MonthMonotone ==
  ASSUME NEW a \in Int, NEW b \in Int, a <= b
  PROVE  Month(a) \in Int /\ Month(b) \in Int /\ Month(a) <= Month(b)
<1>1. PICK n \in Nat \ {0} : n = DaysPerMonth
  BY TablesAssumption
<1>2. PICK x \in Int, y \in Int : x = a - StartDate /\ y = b - StartDate /\ x <= y
  BY MasterAssumption
<1>3. PICK p \in Int, q \in Int : p = x \div n /\ q = y \div n
  OBVIOUS
<1>4. n * p <= x /\ y < n * q + n
  BY <1>3
<1>5. ASSUME p > q PROVE FALSE
  <2>1. PICK k \in Nat : p = q + 1 + k
    BY <1>5, p - (q + 1) \in Nat
  <2>2. n * p = n * q + n + n * k /\ n * k \in Nat
    BY <2>1
  <2> QED
    BY <1>2, <1>4, <2>2
<1> QED
  BY <1>1, <1>2, <1>3, <1>5 DEF Month

LEMMA LaterMonth ==
  ASSUME NEW a \in Int, NEW b \in Int, Month(a) < Month(b)
  PROVE  a < b
<1>1. Month(a) \in Int /\ Month(b) \in Int
  BY MonthMonotone
<1>2. ~ (b <= a)
  BY <1>1, MonthMonotone
<1> QED
  BY <1>2

LEMMA MonthOfRequest ==
  ASSUME NEW d \in StartDate .. EndDate
  PROVE  Month(d) \in Int /\ 1 <= Month(d) /\ Month(d) <= Month(EndDate)
<1>1. d \in Int /\ StartDate \in Int /\ EndDate \in Int /\ StartDate <= d /\ d <= EndDate
  BY MasterAssumption
<1>2. Month(StartDate) = 1
  <2>1. PICK n \in Nat \ {0} : n = DaysPerMonth
    BY TablesAssumption
  <2>2. StartDate - StartDate = 0 /\ 0 \div n = 0
    BY <1>1
  <2> QED
    BY <2>1, <2>2 DEF Month
<1> QED
  BY <1>1, <1>2, MonthMonotone

-----------------------------------------------------------------------------
(* The tables a builder writes and the ones it reads.                      *)

\* The files of a job: what a query between the dates of the request returns.
JobFiles ==
    /\ \A b \in raw.bars : b.day \in StartDate .. EndDate
    /\ \A s \in raw.security \union raw.repair :
            s.list \in Int /\ s.delist \in Int \union {None}

Builders == {"instruments", "preflight", "reference", "market", "valuation", "extension",
             "done", "failed"}
Mastered == builder \in {"preflight", "reference", "market", "valuation", "extension", "done"}

\* Every reference is to an instrument, and no two securities to the same.
Referenced ==
    /\ \A x \in instruments : /\ x.exchange \in Exchanges /\ x.list \in Int
                              /\ x.delist \in Int \union {None}
    /\ \A x, y \in instruments : x.id = y.id => x = y
    /\ \A s \in DOMAIN bySecurity : bySecurity[s] \in Ids
    /\ \A s, t \in DOMAIN bySecurity : bySecurity[s] = bySecurity[t] => s = t

\* The market tables are empty until their builder runs.
NoMarket ==
    builder \in {"instruments", "preflight", "reference"} =>
        /\ bars = {} /\ quarantine = {} /\ post = {} /\ month = 1
        /\ builder # "instruments" => \A i \in Ids : close[i] = None /\ factor[i] = None

\* The months are passed in their order, and all of them.
MonthInOrder ==
    /\ builder = "market" => month \in 1 .. Month(EndDate) + 1
    /\ Built => month = Month(EndDate) + 1

BuildInv ==
    JobFiles /\ builder \in Builders /\ (Mastered => Referenced) /\ NoMarket /\ MonthInOrder

LEMMA MasterReferenced ==
  ASSUME JobFiles, BuildInstruments
  PROVE  Referenced'
<1>1. instruments' = Instruments /\ bySecurity' = BySecurity
  BY DEF BuildInstruments
<1>2. \A s, t \in Kept : Identity(s) = Identity(t) => s = t
  BY DEF Kept, Master
<1>3. \A s \in Kept : /\ s.exchange \in Exchanges /\ s.list \in Int
                      /\ s.delist \in Int \union {None}
  BY DEF Kept, Master, Repaired, JobFiles
<1>4. \A x \in Instruments : \E s \in Kept : /\ x.id = Identity(s) /\ x.exchange = s.exchange
                                  /\ x.list = s.list /\ x.delist = s.delist
                                  /\ x.name = HistoricalName(s)
  BY DEF Instruments
<1>5. \A x, y \in Instruments : x.id = y.id => x = y
  <2>1. SUFFICES ASSUME NEW s \in Kept, NEW t \in Kept, Identity(s) = Identity(t)
                 PROVE  s = t
    BY DEF Instruments
  <2> QED
    BY <1>2, <2>1
<1>6. ASSUME NEW s \in Kept PROVE \E x \in Instruments : x.id = Identity(s)
  <2> DEFINE x == [id |-> Identity(s), exchange |-> s.exchange, list |-> s.list,
                   delist |-> s.delist, name |-> HistoricalName(s)]
  <2>1. x \in Instruments
    BY DEF Instruments
  <2>2. x.id = Identity(s)
    OBVIOUS
  <2> HIDE DEF x
  <2> QED
    BY <2>1, <2>2
<1> DEFINE record(n) == CHOOSE s \in Kept : s.sid = n
           sids == {s.sid : s \in Kept}
<1>7. \A n \in sids : record(n) \in Kept /\ record(n).sid = n
  <2>1. ASSUME NEW n \in sids PROVE \E s \in Kept : s.sid = n
    OBVIOUS
  <2> QED
    BY <2>1
<1>8. BySecurity = [n \in sids |-> Identity(record(n))]
  BY DEF BySecurity
<1> HIDE DEF record, sids
<1>9. /\ DOMAIN bySecurity' = sids
      /\ \A n \in sids : bySecurity'[n] = Identity(record(n))
  BY <1>1, <1>8
<1>10. \A n \in sids : bySecurity'[n] \in Ids'
  <2>1. ASSUME NEW n \in sids PROVE \E x \in instruments' : x.id = Identity(record(n))
    BY <1>1, <1>6, <1>7
  <2> QED
    BY <1>9, <2>1 DEF Ids
<1>11. \A n, m \in sids : bySecurity'[n] = bySecurity'[m] => n = m
  BY <1>2, <1>7, <1>9
<1> QED
  BY <1>1, <1>3, <1>4, <1>5, <1>9, <1>10, <1>11 DEF Referenced

LEMMA BuildInit == ASSUME JobFiles, TablesInit PROVE BuildInv
BY DEF BuildInv, TablesInit, Builders, Mastered, NoMarket, MonthInOrder, Built

LEMMA BuildStep == ASSUME BuildInv, [TablesNext]_tablesVars PROVE BuildInv'
<1> USE DEF BuildInv, Builders, Mastered
<1>1. raw' = raw
  BY DEF TablesNext, BuildInstruments, RejectMaster, Preflight, BuildReference, PassMonth,
         BuildMonth, MarketDone, BuildValuation, BuildExtensions, tablesVars
<1>2. JobFiles'
  BY <1>1 DEF JobFiles
<1>3. CASE BuildInstruments
  <2>1. Referenced'
    BY <1>3, MasterReferenced
  <2>2. builder' = "preflight" /\ UNCHANGED <<bars, quarantine, post, month>>
        /\ builder = "instruments"
    BY <1>3 DEF BuildInstruments
  <2>3. \A i \in Ids' : close'[i] = None /\ factor'[i] = None
    BY <1>3 DEF BuildInstruments, Ids
  <2> QED
    BY <1>2, <2>1, <2>2, <2>3 DEF NoMarket, MonthInOrder, Built
<1>4. CASE RejectMaster \/ Preflight \/ BuildReference \/ BuildValuation \/ BuildExtensions
  <2>1. UNCHANGED <<instruments, bySecurity, market>>
    BY <1>4 DEF RejectMaster, Preflight, BuildReference, BuildValuation, BuildExtensions,
                maps, reference
  <2>2. Mastered' => Mastered
    BY <1>4 DEF RejectMaster, Preflight, BuildReference, BuildValuation, BuildExtensions
  <2>3. Mastered' => Referenced'
    BY <2>1, <2>2 DEF Referenced, Ids
  <2>4. builder' \in Builders /\ NoMarket'
    BY <1>4, <2>1 DEF RejectMaster, Preflight, BuildReference, BuildValuation,
                      BuildExtensions, NoMarket, market, Ids
  <2>5. MonthInOrder'
    <3>1. month' = month
      BY <2>1 DEF market
    <3>2. CASE BuildReference
      <4>1. Month(EndDate) \in Int /\ 1 <= Month(EndDate)
        <5>1. EndDate \in StartDate .. EndDate
          BY MasterAssumption
        <5> QED
          BY <5>1, MonthOfRequest
      <4> QED
        BY <3>1, <3>2, <4>1 DEF BuildReference, MonthInOrder, Built, NoMarket
    <3>3. CASE ~ BuildReference
      BY <1>4, <3>1, <3>3 DEF RejectMaster, Preflight, BuildValuation, BuildExtensions,
                              MonthInOrder, Built
    <3> QED
      BY <3>2, <3>3
  <2> QED
    BY <1>2, <2>3, <2>4, <2>5
<1>5. CASE PassMonth \/ BuildMonth \/ MarketDone
  <2>1. UNCHANGED <<instruments, bySecurity>> /\ builder = "market"
    BY <1>5 DEF PassMonth, BuildMonth, MarketDone, maps, reference
  <2>2. builder' \in {"market", "valuation", "failed"}
    BY <1>5, <2>1 DEF PassMonth, BuildMonth, MarketDone
  <2>3. Referenced'
    BY <2>1 DEF Referenced, Ids
  <2>4. MonthInOrder'
    <3>1. Month(EndDate) \in Int /\ month \in Int
      BY <2>1, MonthMonotone, MasterAssumption DEF MonthInOrder
    <3>2. CASE MarketDone
      BY <2>1, <3>1, <3>2 DEF MarketDone, MonthInOrder, Built, Months, market
    <3>3. CASE (PassMonth \/ BuildMonth) /\ month' = month + 1 /\ builder' = "market"
      BY <2>1, <3>1, <3>3 DEF PassMonth, BuildMonth, MonthInOrder, Built, Months
    <3>4. CASE BuildMonth /\ builder' = "failed"
      BY <3>4 DEF MonthInOrder, Built
    <3> QED
      BY <1>5, <2>1, <3>2, <3>3, <3>4 DEF PassMonth, BuildMonth
  <2> QED
    BY <1>2, <2>2, <2>3, <2>4 DEF NoMarket
<1>6. CASE UNCHANGED tablesVars
  BY <1>2, <1>6 DEF tablesVars, reference, market, maps, Referenced, Ids, NoMarket, MonthInOrder, Built
<1> QED
  BY <1>3, <1>4, <1>5, <1>6 DEF TablesNext

-----------------------------------------------------------------------------
(* The bars of a month.                                                    *)

\* A row of the month is a row of the job, of an instrument and in the request.
LEMMA SourceRow ==
  ASSUME JobFiles, Referenced, NEW b \in Source
  PROVE  /\ b \in raw.bars /\ b.day \in StartDate .. EndDate /\ b.day \in Int
         /\ Month(b.day) = month
         /\ Of(b) \in Ids /\ b.sid \in DOMAIN bySecurity /\ Of(b) = bySecurity[b.sid]
<1>1. b \in raw.bars /\ Month(b.day) = month /\ Of(b) # None
  BY DEF Source, Of
<1>2. b.sid \in DOMAIN bySecurity /\ Of(b) = bySecurity[b.sid]
  BY <1>1 DEF Of, SecurityOf, At
<1> QED
  BY <1>1, <1>2, MasterAssumption DEF JobFiles, Referenced

\* Between the first and the last row of the month it is the month, and the request.
LEMMA SpanInMonth ==
  ASSUME JobFiles, Referenced, Source # {}, NEW d \in Int,
         Min({b.day : b \in Source}) <= d, d <= Max({b.day : b \in Source})
  PROVE  Month(d) = month /\ d \in StartDate .. EndDate
<1> DEFINE T == {b.day : b \in Source}
<1>1. T \in SUBSET (0 .. EndDate) /\ T # {} /\ EndDate \in Nat
  <2>1. ASSUME NEW b \in Source PROVE b.day \in 0 .. EndDate
    BY SourceRow, MasterAssumption
  <2> QED
    BY <2>1, MasterAssumption
<1>2. \A e \in T : Month(e) = month /\ e \in StartDate .. EndDate /\ e \in Int
  BY SourceRow
<1> HIDE DEF T
<1>3. Min(T) \in T /\ Max(T) \in T
  <2>1. T \in SUBSET Nat
    BY <1>1
  <2>2. Min(T) \in T
    BY <1>1, <2>1, LeastOfNat
  <2>3. Max(T) \in T
    BY <1>1, GreatestUpTo
  <2> QED
    BY <2>2, <2>3
<1>4. Month(Min(T)) = month /\ Month(Max(T)) = month
  BY <1>2, <1>3
<1>5. Min(T) \in Int /\ Max(T) \in Int /\ Min(T) <= d /\ d <= Max(T)
  BY <1>2, <1>3 DEF T
<1>6. Month(Min(T)) <= Month(d) /\ Month(d) <= Month(Max(T)) /\ Month(d) \in Int
  BY <1>5, MonthMonotone
<1>7. month \in Int
  BY <1>4, <1>5, MonthMonotone
<1> QED
  BY <1>2, <1>3, <1>4, <1>5, <1>6, <1>7, MasterAssumption

\* A day on which an instrument should have a bar.
LEMMA ExpectedDay ==
  ASSUME JobFiles, Referenced, Source # {}, NEW x \in instruments, NEW d \in Expected(x)
  PROVE  /\ d \in Int /\ Month(d) = month /\ d \in StartDate .. EndDate
         /\ d \in Open[x.exchange]
<1>1. /\ d \in Open[x.exchange] /\ Min({b.day : b \in Source}) <= d
      /\ d <= Max({b.day : b \in Source})
  BY DEF Expected
<1>2. d \in Int
  BY <1>1, MasterAssumption DEF Referenced
<1> QED
  BY <1>1, <1>2, SpanInMonth

\* What is carried over as the last close of an instrument is a price of an earlier month.
CloseKnown ==
    builder = "market" => \A i \in Ids :
        close[i] # None => \E b \in raw.bars :
            /\ SecurityOf(b.sid) = i /\ Month(b.day) < month
            /\ close[i] = b.close \/ close[i] = b.pre

\* A bar has the prices of its row, or those of an earlier one.
Own(c) ==
    \E b \in raw.bars : SecurityOf(b.sid) = c.inst /\ b.day = c.day
                        /\ c.close = b.close /\ c.pre = b.pre
Lent(c) ==
    /\ c.paused
    /\ \E b \in raw.bars : /\ SecurityOf(b.sid) = c.inst
                           /\ \/ b.day < c.day /\ c.close = b.close
                              \/ b.day <= c.day /\ c.close = b.pre

FillInv == FillsAreCausal /\ CloseKnown

\* The bar of a source row.
LEMMA BarGrounded ==
  ASSUME BuildInv, builder = "market", CloseKnown, NEW b \in Source
  PROVE  /\ Own(Bar(b)) \/ Lent(Bar(b))
         /\ Bar(b).inst = Of(b) /\ Bar(b).day = b.day
<1>1. Referenced /\ JobFiles
  BY DEF BuildInv, Mastered
<1>2. /\ b \in raw.bars /\ b.day \in Int /\ Month(b.day) = month
      /\ Of(b) \in Ids /\ SecurityOf(b.sid) = Of(b)
  BY <1>1, SourceRow DEF Of
<1> DEFINE price == IF b.pre # None THEN b.pre ELSE close[Of(b)]
           fill == Fillable(b) /\ price # None
           c == Bar(b)
<1>3. /\ c.inst = Of(b) /\ c.day = b.day /\ c.paused = Halted(Of(b), b.day)
      /\ c.close = IF fill THEN price ELSE b.close
      /\ c.pre = IF fill THEN price ELSE b.pre
  BY DEF Bar
<1> HIDE DEF c
<1>4. CASE ~ fill
  <2>1. c.close = b.close /\ c.pre = b.pre
    BY <1>3, <1>4
  <2> QED
    BY <1>2, <1>3, <2>1 DEF Own, c
<1>5. CASE fill
  <2>1. c.paused /\ c.close = price
    BY <1>3, <1>5 DEF Fillable
  <2>2. CASE b.pre # None
    BY <1>2, <1>3, <2>1, <2>2 DEF Lent, c
  <2>3. CASE b.pre = None
    <3>1. close[Of(b)] # None /\ c.close = close[Of(b)]
      BY <1>5, <2>1, <2>3
    <3>2. PICK e \in raw.bars : /\ SecurityOf(e.sid) = Of(b) /\ Month(e.day) < month
                                /\ close[Of(b)] = e.close \/ close[Of(b)] = e.pre
      BY <1>2, <3>1 DEF CloseKnown
    <3>3. e.day < b.day
      <4>1. e.day \in Int
        BY <1>1, MasterAssumption DEF JobFiles
      <4> QED
        BY <1>2, <3>2, <4>1, LaterMonth
    <3>4. e.day <= b.day
      BY <1>1, <1>2, <3>3, MasterAssumption DEF JobFiles
    <3> QED
      BY <1>3, <2>1, <3>1, <3>2, <3>3, <3>4 DEF Lent, c
  <2> QED
    BY <2>2, <2>3
<1> QED
  BY <1>3, <1>4, <1>5 DEF c

\* The bar of a day an instrument was halted without a row.
LEMMA FilledGrounded ==
  ASSUME BuildInv, builder = "market", CloseKnown, Source # {},
         NEW x \in instruments, NEW c \in Filled(x)
  PROVE  /\ Lent(c) /\ c.inst = x.id /\ c.day \in Missing(x)
         /\ Halted(x.id, c.day) /\ LastPrice(x, c.day) # None
<1>1. Referenced /\ JobFiles
  BY DEF BuildInv, Mastered
<1>2. PICK d \in Missing(x) :
        /\ c.inst = x.id /\ c.day = d /\ c.close = LastPrice(x, d) /\ c.paused
        /\ Halted(x.id, d) /\ LastPrice(x, d) # None
  BY DEF Filled
<1>3. d \in Int /\ Month(d) = month
  BY <1>1, <1>2, ExpectedDay DEF Missing
<1> DEFINE past == {b \in RowsOf(x.id) : b.day < d /\ b.close # None /\ b.day \in Expected(x)}
<1>4. LastPrice(x, d) = IF past = {} THEN close[x.id] ELSE Latest(past).close
  BY DEF LastPrice
<1>5. CASE past = {}
  <2>1. close[x.id] # None /\ c.close = close[x.id] /\ x.id \in Ids
    BY <1>2, <1>4, <1>5 DEF Ids
  <2>2. PICK e \in raw.bars : /\ SecurityOf(e.sid) = x.id /\ Month(e.day) < month
                              /\ close[x.id] = e.close \/ close[x.id] = e.pre
    BY <2>1 DEF CloseKnown
  <2>3. e.day \in Int
    BY <1>1, MasterAssumption DEF JobFiles
  <2>4. e.day < d
    BY <1>3, <2>2, <2>3, LaterMonth
  <2> QED
    BY <1>2, <1>3, <2>1, <2>2, <2>3, <2>4 DEF Lent
<1>6. CASE past # {}
  <2>1. \A y \in past : y.day \in StartDate .. EndDate /\ y \in Source /\ Of(y) = x.id
    <3>1. \A y \in past : y \in Source /\ Of(y) = x.id
      BY DEF RowsOf
    <3> QED
      BY <1>1, <3>1, SourceRow
  <2>2. Latest(past) \in past
    <3> HIDE DEF past
    <3> QED
      BY <1>6, <2>1, LatestOf
  <2>3. PICK b \in past : b = Latest(past)
    BY <2>2
  <2>4. b.day < d /\ b \in raw.bars /\ SecurityOf(b.sid) = x.id /\ c.close = b.close
    BY <1>1, <1>2, <1>4, <1>6, <2>1, <2>3, SourceRow DEF Of
  <2> QED
    BY <1>2, <2>4 DEF Lent
<1> QED
  BY <1>2, <1>5, <1>6

LEMMA MonthGrounded ==
  ASSUME BuildInv, builder = "market", CloseKnown, Source # {}, NEW c \in MonthBars
  PROVE  /\ Own(c) \/ Lent(c)
         /\ c.inst \in Ids /\ Month(c.day) = month /\ c.day \in StartDate .. EndDate
<1>1. Referenced /\ JobFiles
  BY DEF BuildInv, Mastered
<1>2. CASE \E b \in Source : c = Bar(b)
  <2>1. PICK b \in Source : c = Bar(b)
    BY <1>2
  <2> QED
    BY <1>1, <2>1, BarGrounded, SourceRow
<1>3. CASE \E x \in instruments : c \in Filled(x)
  <2>1. PICK x \in instruments : c \in Filled(x)
    BY <1>3
  <2>2. Lent(c) /\ c.inst = x.id /\ c.day \in Expected(x)
    BY <2>1, FilledGrounded DEF Missing
  <2> QED
    BY <1>1, <2>2, ExpectedDay DEF Ids
<1> QED
  BY <1>2, <1>3 DEF MonthBars

\* The prices carried out of a month.
LEMMA CloseCarried ==
  ASSUME BuildInv, builder = "market", CloseKnown, Source # {}, NEW i \in Ids,
         NEW last, last = IF i \in {c.inst : c \in MonthBars} THEN LastOf(MonthBars, i).close
                          ELSE close[i],
         last # None
  PROVE  \E b \in raw.bars : /\ SecurityOf(b.sid) = i /\ Month(b.day) <= month
                             /\ last = b.close \/ last = b.pre
<1>1. Referenced /\ JobFiles
  BY DEF BuildInv, Mastered
<1>2. PICK m \in Int : m = month
  BY MonthMonotone, MasterAssumption DEF BuildInv, MonthInOrder
<1>3. CASE i \notin {c.inst : c \in MonthBars}
  <2>1. PICK b \in raw.bars : /\ SecurityOf(b.sid) = i /\ Month(b.day) < month
                              /\ last = b.close \/ last = b.pre
    BY <1>3 DEF CloseKnown
  <2>2. Month(b.day) \in Int
    BY <1>1, MonthOfRequest DEF JobFiles
  <2> QED
    BY <1>2, <2>1, <2>2
<1>4. CASE i \in {c.inst : c \in MonthBars}
  <2> DEFINE own == {r \in MonthBars : r.inst = i}
  <2>1. \A r \in own : r.day \in Int /\ r.day \in StartDate .. EndDate
    BY MonthGrounded, MasterAssumption
  <2>2. own # {} /\ last = Latest(own).close
    BY <1>4 DEF LastOf
  <2>3. Latest(own) \in own
    <3> HIDE DEF own
    <3> QED
      BY <2>1, <2>2, LatestOf
  <2>4. PICK c \in own : c = Latest(own)
    BY <2>3
  <2>5. c \in MonthBars /\ c.inst = i /\ last = c.close
    BY <2>2, <2>4
  <2>6. (Own(c) \/ Lent(c)) /\ Month(c.day) = month /\ c.day \in Int
    BY <2>5, MonthGrounded, MasterAssumption
  <2>7. PICK b \in raw.bars : /\ SecurityOf(b.sid) = i /\ b.day <= c.day
                              /\ last = b.close \/ last = b.pre
    BY <1>1, <2>5, <2>6, MasterAssumption DEF Own, Lent, JobFiles
  <2>8. Month(b.day) <= Month(c.day)
    BY <1>1, <2>6, <2>7, MonthMonotone, MasterAssumption DEF JobFiles
  <2> QED
    BY <2>6, <2>7, <2>8
<1> QED
  BY <1>3, <1>4


\* What one month of market data writes.
LEMMA MonthWritten ==
  ASSUME BuildInv, BuildMonth
  PROVE  /\ builder = "market" /\ Source # {} /\ month \in Months /\ Mastered
         /\ UNCHANGED <<raw, bySecurity, instruments, universe, special>>
         /\ \/ builder' = "failed" /\ UNCHANGED <<bars, quarantine, post>>
            \/ /\ builder' = "market" /\ month' = month + 1
               /\ bars' = bars \union MonthBars
               /\ quarantine' = quarantine \union MonthQuarantine
               /\ post' = post \union PostOf(MonthBars)
               /\ close' = [i \in Ids |-> IF i \in {c.inst : c \in MonthBars}
                                         THEN LastOf(MonthBars, i).close ELSE close[i]]
               /\ factor' = [i \in Ids |-> IF i \in {c.inst : c \in MonthBars}
                                          THEN LastOf(PostOf(MonthBars), i).factor
                                          ELSE factor[i]]
<1>1. builder = "market" /\ Source # {} /\ month \in Months
  BY DEF BuildMonth
<1>2. UNCHANGED <<raw, bySecurity, instruments, universe, special>>
  BY DEF BuildMonth, maps, reference
<1>3. CASE \E p \in PostOf(MonthBars) : p.factor \in {None, 0}
  BY <1>1, <1>2, <1>3 DEF BuildMonth, market, Mastered
<1>4. CASE ~ \E p \in PostOf(MonthBars) : p.factor \in {None, 0}
  BY <1>1, <1>2, <1>4 DEF BuildMonth, Mastered
<1> QED
  BY <1>3, <1>4

\* The steps that write no market data.
LEMMA QuietBuilders ==
  ASSUME BuildInv, [TablesNext]_tablesVars, ~ BuildMonth
  PROVE  /\ raw' = raw
         /\ bars # {} \/ post # {} => bySecurity' = bySecurity
         /\ bars' = bars /\ post' = post /\ quarantine' = quarantine
         /\ builder' = "market" =>
              \/ BuildReference /\ Ids' = Ids /\ UNCHANGED <<bySecurity, month, close, factor>>
              \/ /\ builder = "market" /\ Ids' = Ids
                 /\ UNCHANGED <<bySecurity, close, factor, instruments, universe, special>>
                 /\ month' = month \/ (month' = month + 1 /\ Source = {})
<1>1. CASE BuildInstruments
  BY <1>1 DEF BuildInstruments, BuildInv, NoMarket
<1>2. CASE RejectMaster \/ Preflight \/ MarketDone \/ BuildValuation \/ BuildExtensions
  BY <1>2 DEF RejectMaster, Preflight, MarketDone, BuildValuation, BuildExtensions, maps, market
<1>3. CASE BuildReference
  BY <1>3 DEF BuildReference, maps, market, Ids
<1>4. CASE PassMonth
  BY <1>4 DEF PassMonth, maps, reference, Ids
<1>5. CASE UNCHANGED tablesVars
  BY <1>5 DEF tablesVars, maps, reference, market, Ids
<1> QED
  BY <1>1, <1>2, <1>3, <1>4, <1>5 DEF TablesNext

LEMMA FillStep ==
  ASSUME BuildInv, FillInv, [TablesNext]_tablesVars
  PROVE  FillInv'
<1>1. BuildInv'
  BY BuildStep
<1>2. CASE ~ BuildMonth
  <2>1. FillsAreCausal'
    <3>1. bars # {} => raw' = raw /\ bySecurity' = bySecurity
      BY <1>2, QuietBuilders
    <3>2. bars' = bars
      BY <1>2, QuietBuilders
    <3> QED
      BY <3>1, <3>2 DEF FillInv, FillsAreCausal, SecurityOf, At
  <2>2. CloseKnown'
    <3> SUFFICES ASSUME builder' = "market", NEW i \in Ids', close'[i] # None
                 PROVE  \E b \in raw'.bars :
                           /\ SecurityOf(b.sid)' = i /\ Month(b.day)' < month'
                           /\ close'[i] = b.close \/ close'[i] = b.pre
      BY DEF CloseKnown
    <3>1. raw' = raw
      BY <1>2, QuietBuilders
    <3>2. CASE BuildReference /\ Ids' = Ids /\ UNCHANGED <<bySecurity, month, close, factor>>
      BY <3>2 DEF BuildReference, BuildInv, NoMarket
    <3>3. CASE /\ builder = "market" /\ Ids' = Ids
               /\ UNCHANGED <<bySecurity, close, factor, instruments, universe, special>>
               /\ month' = month \/ (month' = month + 1 /\ Source = {})
      <4>1. PICK b \in raw.bars : /\ SecurityOf(b.sid) = i /\ Month(b.day) < month
                                  /\ close[i] = b.close \/ close[i] = b.pre
        BY <3>3 DEF FillInv, CloseKnown
      <4>2. SecurityOf(b.sid)' = i /\ Month(b.day)' = Month(b.day)
        BY <3>3, <4>1 DEF SecurityOf, At, Month
      <4>3. Month(b.day) < month'
        <5>1. Month(b.day) \in Int
          BY MonthOfRequest DEF BuildInv, JobFiles
        <5>2. month \in Int
          BY <3>3, MonthMonotone, MasterAssumption DEF BuildInv, MonthInOrder
        <5> QED
          BY <3>3, <4>1, <5>1, <5>2
      <4> QED
        BY <3>1, <3>3, <4>1, <4>2, <4>3
    <3> QED
      BY <1>2, <3>2, <3>3, QuietBuilders
  <2> QED
    BY <2>1, <2>2 DEF FillInv
<1>3. CASE BuildMonth
  <2>1. /\ builder = "market" /\ Source # {} /\ UNCHANGED <<raw, bySecurity, instruments>>
        /\ Ids' = Ids
    BY <1>3, MonthWritten DEF Ids
  <2>2. CASE builder' = "failed" /\ bars' = bars
    BY <2>1, <2>2 DEF FillInv, FillsAreCausal, CloseKnown, SecurityOf, At
  <2>3. CASE /\ month' = month + 1 /\ bars' = bars \union MonthBars
             /\ close' = [i \in Ids |-> IF i \in {c.inst : c \in MonthBars}
                                       THEN LastOf(MonthBars, i).close ELSE close[i]]
    <3>1. FillsAreCausal'
      <4>1. \A c \in MonthBars : Own(c) \/ Lent(c)
        BY <2>1, MonthGrounded DEF FillInv
      <4>2. \A c \in bars : Own(c) \/ Lent(c)
        BY DEF FillInv, FillsAreCausal, Own, Lent
      <4>3. \A c \in bars' : Own(c) \/ Lent(c)
        BY <2>3, <4>1, <4>2
      <4> QED
        BY <2>1, <4>3 DEF FillsAreCausal, Own, Lent, SecurityOf, At
    <3>2. CloseKnown'
      <4>1. SUFFICES ASSUME NEW i \in Ids, close'[i] # None
                     PROVE  \E b \in raw'.bars :
                           /\ SecurityOf(b.sid)' = i /\ Month(b.day)' < month'
                           /\ close'[i] = b.close \/ close'[i] = b.pre
        BY <2>1 DEF CloseKnown
      <4>2. close'[i] = IF i \in {c.inst : c \in MonthBars} THEN LastOf(MonthBars, i).close
                        ELSE close[i]
        BY <2>3
      <4>3. PICK b \in raw.bars : /\ SecurityOf(b.sid) = i /\ Month(b.day) <= month
                                  /\ close'[i] = b.close \/ close'[i] = b.pre
        BY <2>1, <4>1, <4>2, CloseCarried DEF FillInv
      <4>4. SecurityOf(b.sid)' = i /\ Month(b.day)' = Month(b.day)
        BY <2>1, <4>3 DEF SecurityOf, At, Month
      <4>5. Month(b.day) < month'
        <5>1. Month(b.day) \in Int
          BY MonthOfRequest DEF BuildInv, JobFiles
        <5>2. month \in Int
          BY <2>1, MonthMonotone, MasterAssumption DEF BuildInv, MonthInOrder
        <5> QED
          BY <2>3, <4>3, <5>1, <5>2
      <4> QED
        BY <2>1, <4>3, <4>4, <4>5
    <3> QED
      BY <3>1, <3>2 DEF FillInv
  <2> QED
    BY <1>3, <2>2, <2>3, MonthWritten
<1> QED
  BY <1>2, <1>3

\* A bar that was filled in has a price of an earlier day, and every other bar those of its
\* own row, whatever the rows, halts and listings of a job (the rows are those of the
\* request's dates): nothing is made up and nothing is taken from the future.
THEOREM FillsComeFromThePast == JobFiles /\ TablesSpec => []FillsAreCausal
<1>1. JobFiles /\ TablesInit => BuildInv /\ FillInv
  BY BuildInit DEF TablesInit, FillInv, FillsAreCausal, CloseKnown
<1>2. BuildInv /\ FillInv /\ [TablesNext]_tablesVars => (BuildInv /\ FillInv)'
  BY BuildStep, FillStep
<1>3. FillInv => FillsAreCausal
  BY DEF FillInv
<1> QED
  BY <1>1, <1>2, <1>3, PTL DEF TablesSpec

-----------------------------------------------------------------------------
(* Membership and market data agree.                                       *)

\* A source has one row of a security and a day.
OneRowADay ==
    \A a, b \in raw.bars : a.sid = b.sid /\ a.day = b.day => a = b

InMarket == builder \in {"market", "valuation", "extension", "done"}

MembersOfMaster ==
    InMarket => \A u \in universe : \E x \in instruments :
        u.id = x.id /\ u.exchange = x.exchange /\ u.from = x.list /\ u.to = LastDay(x)

HasBar(i, d) == \E c \in bars : c.inst = i /\ c.day = d
HasHold(i, d) == \E q \in quarantine : q.inst = i /\ q.day = d

\* The market tables hold the months that were built, and account for them.
MonthsBuilt ==
    InMarket => /\ \A c \in bars : Month(c.day) \in Int /\ Month(c.day) < month
                /\ \A q \in quarantine : Month(q.day) \in Int /\ Month(q.day) < month
AccountedUpTo ==
    InMarket => \A u \in universe : \A d \in Open[u.exchange] :
        Covers(u.from, u.to, d) /\ MonthSpan(d) /\ Month(d) < month =>
            (HasBar(u.id, d) <=> ~ HasHold(u.id, d))

MemberInv == OneRowADay /\ MembersOfMaster /\ MonthsBuilt /\ AccountedUpTo

\* A row of the month and the instrument it is of.
LEMMA OneSourceRow ==
  ASSUME JobFiles, Referenced, OneRowADay, NEW a \in Source, NEW b \in Source,
         Of(a) = Of(b), a.day = b.day
  PROVE  a = b
<1>1. a.sid = b.sid /\ a \in raw.bars /\ b \in raw.bars
  BY SourceRow DEF Referenced
<1> QED
  BY <1>1 DEF OneRowADay

\* A member should have a bar on every open day between two rows of the month.
LEMMA MemberExpected ==
  ASSUME None \notin Int, JobFiles, Referenced, NEW x \in instruments,
         NEW d \in Open[x.exchange],
         Covers(x.list, LastDay(x), d), MonthSpan(d), Month(d) = month
  PROVE  Source # {} /\ d \in Expected(x)
<1>1. d \in Int /\ x.list \in Int /\ x.delist \in Int \union {None}
      /\ Open[x.exchange] \in SUBSET (StartDate .. EndDate)
  <2>1. x.exchange \in Exchanges /\ x.list \in Int /\ x.delist \in Int \union {None}
    BY DEF Referenced
  <2>2. Open[x.exchange] \in SUBSET (StartDate .. EndDate)
    BY <2>1, MasterAssumption
  <2> QED
    BY <2>1, <2>2, MasterAssumption
<1>2. Source = {r \in raw.bars : SecurityOf(r.sid) # None /\ Month(r.day) = Month(d)}
  BY DEF Source
<1>3. /\ {b.day : b \in Source} # {}
      /\ Min({b.day : b \in Source}) <= d /\ d <= Max({b.day : b \in Source})
  BY <1>2 DEF MonthSpan
<1>4. x.list <= d
  BY DEF Covers
<1>5. ASSUME x.delist # None PROVE d < x.delist
  <2> DEFINE earlier == {e \in Open[x.exchange] : e < x.delist}
  <2>1. x.delist \in Int
    BY <1>1, <1>5
  <2>2. CASE earlier = {}
    <3>1. LastDay(x) = x.delist - 1
      BY <1>5, <2>2 DEF LastDay
    <3>2. x.delist - 1 # None
      BY <2>1
    <3>3. d <= x.delist - 1
      BY <3>1, <3>2 DEF Covers
    <3> QED
      BY <1>1, <2>1, <3>3
  <2>3. CASE earlier # {}
    <3>1. LastDay(x) = Max(earlier)
      BY <1>5, <2>3 DEF LastDay
    <3>2. earlier \in SUBSET (0 .. EndDate) /\ EndDate \in Nat
      BY <1>1, MasterAssumption
    <3>3. Max(earlier) \in earlier
      <4> HIDE DEF earlier
      <4> QED
        BY <2>3, <3>2, GreatestUpTo
    <3>4. PICK e \in Int : e = Max(earlier) /\ e < x.delist
      <4>1. \A e \in earlier : e \in Int /\ e < x.delist
        BY <3>2
      <4> HIDE DEF earlier
      <4> QED
        BY <3>3, <4>1
    <3>5. e # None
      BY <3>4
    <3>6. d <= e
      BY <3>1, <3>4, <3>5 DEF Covers
    <3> QED
      BY <1>1, <2>1, <3>4, <3>6
  <2> QED
    BY <2>2, <2>3
<1> QED
  BY <1>3, <1>4, <1>5 DEF Expected

\* A day of an instrument with a row has its bar or a row in quarantine, and a day without
\* one is filled in or held back.
LEMMA MonthAccounts ==
  ASSUME BuildInv, OneRowADay, builder = "market", Source # {},
         NEW x \in instruments, NEW d \in Expected(x)
  PROVE  (\E c \in MonthBars : c.inst = x.id /\ c.day = d)
            <=> ~ (\E q \in MonthQuarantine : q.inst = x.id /\ q.day = d)
<1>1. Referenced /\ JobFiles
  BY DEF BuildInv, Mastered
<1>2. \A y \in instruments : y.id = x.id => y = x
  BY <1>1 DEF Referenced
<1>3. \A b \in Source : Bar(b).inst = Of(b) /\ Bar(b).day = b.day
  BY DEF Bar
<1>4. \A y \in instruments : \A c \in Filled(y) :
          /\ c.inst = y.id /\ c.day \in Missing(y)
          /\ Halted(y.id, c.day) /\ LastPrice(y, c.day) # None
  BY DEF Filled
<1>5. \A y \in instruments : \A q \in Unexplained(y) :
          /\ q.inst = y.id /\ q.day \in Missing(y)
          /\ ~ Halted(y.id, q.day) \/ LastPrice(y, q.day) = None
  BY DEF Unexplained
<1>6. ASSUME NEW c \in MonthBars
      PROVE  \/ \E b \in Source : c = Bar(b) /\ ~ Rejected(Bar(b))
             \/ \E y \in instruments : c \in Filled(y)
  BY <1>6 DEF MonthBars
<1>7. ASSUME NEW q \in MonthQuarantine
      PROVE  \/ \E b \in Source : /\ q.inst = Bar(b).inst /\ q.day = Bar(b).day
                                  /\ Rejected(Bar(b))
             \/ \E y \in instruments : q \in Unexplained(y)
  BY <1>7 DEF MonthQuarantine
<1>8. CASE d \in RowDays(x.id)
  <2>1. PICK b \in Source : Of(b) = x.id /\ b.day = d
    BY <1>8 DEF RowDays, RowsOf
  <2>2. \A e \in Source : Of(e) = x.id /\ e.day = d => e = b
    BY <1>1, <2>1, OneSourceRow
  <2>3. d \notin Missing(x)
    BY <1>8 DEF Missing
  <2>4. CASE Rejected(Bar(b))
    <3>1. \E q \in MonthQuarantine : q.inst = x.id /\ q.day = d
      <4> DEFINE q == [inst |-> Bar(b).inst, day |-> Bar(b).day, reason |-> "missing_core"]
      <4>1. q \in MonthQuarantine
        BY <2>4 DEF MonthQuarantine
      <4>2. q.inst = x.id /\ q.day = d
        BY <1>3, <2>1
      <4> HIDE DEF q
      <4> QED
        BY <4>1, <4>2
    <3>2. ~ \E c \in MonthBars : c.inst = x.id /\ c.day = d
      BY <1>2, <1>3, <1>4, <1>6, <2>2, <2>3, <2>4
    <3> QED
      BY <3>1, <3>2
  <2>5. CASE ~ Rejected(Bar(b))
    <3>1. Bar(b) \in MonthBars /\ Bar(b).inst = x.id /\ Bar(b).day = d
      BY <1>3, <2>1, <2>5 DEF MonthBars
    <3>2. ~ \E q \in MonthQuarantine : q.inst = x.id /\ q.day = d
      BY <1>2, <1>3, <1>5, <1>7, <2>2, <2>3, <2>5
    <3> QED
      BY <3>1, <3>2
  <2> QED
    BY <2>4, <2>5
<1>9. CASE d \notin RowDays(x.id)
  <2>1. \A b \in Source : ~ (Of(b) = x.id /\ b.day = d)
    BY <1>9 DEF RowDays, RowsOf
  <2>2. d \in Missing(x)
    BY <1>9 DEF Missing
  <2>3. CASE Halted(x.id, d) /\ LastPrice(x, d) # None
    <3>1. \E c \in MonthBars : c.inst = x.id /\ c.day = d
      <4> DEFINE c == [inst |-> x.id, day |-> d, close |-> LastPrice(x, d),
                       pre |-> LastPrice(x, d), paused |-> TRUE]
      <4>1. c \in Filled(x)
        BY <2>2, <2>3 DEF Filled
      <4>2. c.inst = x.id /\ c.day = d
        OBVIOUS
      <4> HIDE DEF c
      <4>3. c \in MonthBars
        BY <4>1 DEF MonthBars
      <4> QED
        BY <4>2, <4>3
    <3>2. ~ \E q \in MonthQuarantine : q.inst = x.id /\ q.day = d
      BY <1>2, <1>3, <1>5, <1>7, <2>1, <2>3
    <3> QED
      BY <3>1, <3>2
  <2>4. CASE ~ (Halted(x.id, d) /\ LastPrice(x, d) # None)
    <3>1. \E q \in MonthQuarantine : q.inst = x.id /\ q.day = d
      <4> DEFINE q == [inst |-> x.id, day |-> d,
                       reason |-> IF Halted(x.id, d) THEN "no_previous_close" ELSE "missing_bar"]
      <4>1. q \in Unexplained(x)
        BY <2>2, <2>4 DEF Unexplained
      <4>2. q.inst = x.id /\ q.day = d
        OBVIOUS
      <4> HIDE DEF q
      <4>3. q \in MonthQuarantine
        BY <4>1 DEF MonthQuarantine
      <4> QED
        BY <4>2, <4>3
    <3>2. ~ \E c \in MonthBars : c.inst = x.id /\ c.day = d
      BY <1>2, <1>3, <1>4, <1>6, <2>1, <2>4
    <3> QED
      BY <3>1, <3>2
  <2> QED
    BY <2>3, <2>4
<1> QED
  BY <1>8, <1>9

\* What a month writes is of the month.
LEMMA MonthDays ==
  ASSUME BuildInv, builder = "market", Source # {}
  PROVE  /\ \A c \in MonthBars : Month(c.day) = month
         /\ \A q \in MonthQuarantine : Month(q.day) = month
<1>1. Referenced /\ JobFiles
  BY DEF BuildInv, Mastered
<1>2. \A b \in Source : Bar(b).day = b.day /\ Month(b.day) = month
  BY <1>1, SourceRow DEF Bar
<1>3. \A x \in instruments : \A d \in Missing(x) : Month(d) = month
  BY <1>1, ExpectedDay DEF Missing
<1>4. ASSUME NEW c \in MonthBars PROVE Month(c.day) = month
  <2>1. \/ \E b \in Source : c = Bar(b)
        \/ \E x \in instruments : c \in Filled(x)
    BY DEF MonthBars
  <2>2. \A x \in instruments : c \in Filled(x) => c.day \in Missing(x)
    BY DEF Filled
  <2> QED
    BY <1>2, <1>3, <2>1, <2>2
<1>5. ASSUME NEW q \in MonthQuarantine PROVE Month(q.day) = month
  <2>1. \/ \E b \in Source : q.day = Bar(b).day
        \/ \E x \in instruments : q \in Unexplained(x)
    BY DEF MonthQuarantine
  <2>2. \A x \in instruments : q \in Unexplained(x) => q.day \in Missing(x)
    BY DEF Unexplained
  <2> QED
    BY <1>2, <1>3, <2>1, <2>2
<1> QED
  BY <1>4, <1>5

LEMMA MemberStep ==
  ASSUME None \notin Int, BuildInv, MemberInv, [TablesNext]_tablesVars
  PROVE  MemberInv'
<1>1. BuildInv' /\ raw' = raw
  BY BuildStep, MonthWritten, QuietBuilders
<1>2. OneRowADay'
  BY <1>1 DEF MemberInv, OneRowADay
<1>3. CASE BuildReference
  <2>1. /\ builder = "reference" /\ instruments' = instruments
        /\ UNCHANGED <<bySecurity, month, bars, quarantine>>
        /\ universe' = Universe(instruments)
    BY <1>3 DEF BuildReference, maps, market
  <2>2. bars' = {} /\ quarantine' = {} /\ month' = 1
    BY <2>1 DEF BuildInv, NoMarket
  <2>3. \A u \in universe' : \E x \in instruments' :
          u.id = x.id /\ u.exchange = x.exchange /\ u.from = x.list /\ u.to = LastDay(x)
    <3>1. ASSUME NEW u \in universe'
          PROVE  \E x \in instruments :
                   u.id = x.id /\ u.exchange = x.exchange /\ u.from = x.list /\ u.to = LastDay(x)
      BY <2>1 DEF Universe
    <3> QED
      BY <2>1, <3>1
  <2>4. MembersOfMaster'
    BY <2>3 DEF MembersOfMaster, LastDay
  <2>5. AccountedUpTo'
    <3>1. SUFFICES ASSUME NEW u \in universe', NEW d \in Open[u.exchange], Month(d)' < month'
                   PROVE  FALSE
      BY DEF AccountedUpTo
    <3>2. PICK x \in instruments : u.exchange = x.exchange
      BY <2>1, <2>3
    <3>3. u.exchange \in Exchanges
      BY <2>1, <3>2 DEF BuildInv, Mastered, Referenced
    <3>4. d \in StartDate .. EndDate
      BY <3>1, <3>3, MasterAssumption
    <3>5. 1 <= Month(d) /\ Month(d) \in Int /\ Month(d)' = Month(d)
      BY <3>4, MonthOfRequest DEF Month
    <3> QED
      BY <2>2, <3>1, <3>5
  <2> QED
    BY <1>2, <2>2, <2>4, <2>5 DEF MemberInv, MonthsBuilt
<1>4. CASE BuildMonth /\ builder' # "failed"
  <2>1. /\ builder = "market" /\ Source # {} /\ month' = month + 1 /\ InMarket
        /\ UNCHANGED <<raw, bySecurity, instruments, universe>>
        /\ bars' = bars \union MonthBars /\ quarantine' = quarantine \union MonthQuarantine
    BY <1>4, MonthWritten DEF InMarket
  <2>2. month \in Int /\ Month(EndDate) \in Int
    BY <2>1, MonthMonotone, MasterAssumption DEF BuildInv, MonthInOrder
  <2>3. MembersOfMaster'
    BY <2>1 DEF MemberInv, MembersOfMaster, LastDay
  <2>4. /\ \A c \in MonthBars : Month(c.day) = month
        /\ \A q \in MonthQuarantine : Month(q.day) = month
    BY <2>1, MonthDays
  <2>5. /\ \A c \in bars : Month(c.day) \in Int /\ Month(c.day) < month
        /\ \A q \in quarantine : Month(q.day) \in Int /\ Month(q.day) < month
    BY <2>1 DEF MemberInv, MonthsBuilt
  <2>6. MonthsBuilt'
    <3>1. \A c \in bars' : Month(c.day) = month \/ Month(c.day) < month
      BY <2>1, <2>4, <2>5
    <3>2. \A q \in quarantine' : Month(q.day) = month \/ Month(q.day) < month
      BY <2>1, <2>4, <2>5
    <3>3. \A k : (k = month \/ (k < month)) /\ k \in Int => k < month'
      BY <2>1, <2>2
    <3>4. \A c \in bars' : Month(c.day) \in Int
      <4>1. \A c \in MonthBars : Month(c.day) \in Int
        BY <2>2, <2>4
      <4>2. \A c \in bars : Month(c.day) \in Int
        BY <2>5
      <4> QED
        BY <2>1, <4>1, <4>2
    <3>5. \A q \in quarantine' : Month(q.day) \in Int
      <4>1. \A q \in MonthQuarantine : Month(q.day) \in Int
        BY <2>2, <2>4
      <4>2. \A q \in quarantine : Month(q.day) \in Int
        BY <2>5
      <4> QED
        BY <2>1, <4>1, <4>2
    <3> QED
      BY <3>1, <3>2, <3>3, <3>4, <3>5 DEF MonthsBuilt, Month
  <2>7. AccountedUpTo'
    <3>1. SUFFICES ASSUME NEW u \in universe, NEW d \in Open[u.exchange],
                          Covers(u.from, u.to, d), MonthSpan(d)', Month(d)' < month'
                   PROVE  HasBar(u.id, d)' <=> ~ HasHold(u.id, d)'
      BY <2>1 DEF AccountedUpTo, Covers
    <3>2. MonthSpan(d)' = MonthSpan(d) /\ Month(d)' = Month(d)
      BY <2>1 DEF MonthSpan, SecurityOf, At, Month
    <3>3. PICK x \in instruments :
            u.id = x.id /\ u.exchange = x.exchange /\ u.from = x.list /\ u.to = LastDay(x)
      BY <2>1 DEF MemberInv, MembersOfMaster
    <3>4. Referenced /\ JobFiles /\ OneRowADay
      BY <2>1 DEF BuildInv, Mastered, MemberInv
    <3>5. Month(d) \in Int
      <4>1. x.exchange \in Exchanges
        BY <3>4 DEF Referenced
      <4>2. d \in StartDate .. EndDate
        BY <3>1, <3>3, <4>1, MasterAssumption
      <4> QED
        BY <4>2, MonthOfRequest
    <3>6. /\ HasBar(u.id, d)' <=> HasBar(u.id, d)
                                  \/ \E c \in MonthBars : c.inst = u.id /\ c.day = d
          /\ HasHold(u.id, d)' <=> HasHold(u.id, d)
                                  \/ \E q \in MonthQuarantine : q.inst = u.id /\ q.day = d
      BY <2>1 DEF HasBar, HasHold
    <3>7. CASE Month(d) = month
      <4>1. Source # {} /\ d \in Expected(x)
        BY <3>1, <3>2, <3>3, <3>4, <3>7, MemberExpected
      <4>2. (\E c \in MonthBars : c.inst = x.id /\ c.day = d)
              <=> ~ (\E q \in MonthQuarantine : q.inst = x.id /\ q.day = d)
        BY <2>1, <3>4, <4>1, MonthAccounts
      <4>3. ~ (Month(d) < month)
        BY <2>2, <3>7
      <4>4. ~ HasBar(u.id, d) /\ ~ HasHold(u.id, d)
        BY <2>5, <4>3 DEF HasBar, HasHold
      <4> QED
        BY <3>3, <3>6, <4>2, <4>4
    <3>8. CASE Month(d) # month
      <4>1. Month(d) < month
        BY <2>1, <2>2, <3>1, <3>2, <3>5, <3>8
      <4>2. HasBar(u.id, d) <=> ~ HasHold(u.id, d)
        BY <2>1, <3>1, <3>2, <4>1 DEF MemberInv, AccountedUpTo
      <4>3. /\ ~ \E c \in MonthBars : c.inst = u.id /\ c.day = d
            /\ ~ \E q \in MonthQuarantine : q.inst = u.id /\ q.day = d
        BY <2>4, <3>8
      <4> QED
        BY <3>6, <4>2, <4>3
    <3> QED
      BY <3>7, <3>8
  <2> QED
    BY <1>2, <2>3, <2>6, <2>7 DEF MemberInv
<1>5. CASE PassMonth
  <2>1. /\ builder = "market" /\ Source = {} /\ month' = month + 1 /\ InMarket
        /\ UNCHANGED <<raw, bySecurity, instruments, universe, bars, quarantine>>
    BY <1>5 DEF PassMonth, InMarket, maps, reference
  <2>2. month \in Int
    BY <2>1, MonthMonotone, MasterAssumption DEF BuildInv, MonthInOrder
  <2>3. MembersOfMaster'
    BY <2>1 DEF MemberInv, MembersOfMaster, LastDay
  <2>4. MonthsBuilt'
    <3>1. \A n \in Int : n < month => n < month'
      BY <2>1, <2>2
    <3>2. /\ \A c \in bars : Month(c.day) \in Int /\ Month(c.day) < month
          /\ \A q \in quarantine : Month(q.day) \in Int /\ Month(q.day) < month
      BY <2>1 DEF MemberInv, MonthsBuilt
    <3> QED
      BY <2>1, <3>1, <3>2 DEF MonthsBuilt, Month
  <2>5. AccountedUpTo'
    <3>1. SUFFICES ASSUME NEW u \in universe, NEW d \in Open[u.exchange],
                          Covers(u.from, u.to, d), MonthSpan(d)', Month(d)' < month'
                   PROVE  HasBar(u.id, d)' <=> ~ HasHold(u.id, d)'
      BY <2>1 DEF AccountedUpTo, Covers
    <3>2. MonthSpan(d)' = MonthSpan(d) /\ Month(d)' = Month(d)
      BY <2>1 DEF MonthSpan, SecurityOf, At, Month
    <3>3. Month(d) # month
      <4> SUFFICES ASSUME Month(d) = month PROVE FALSE
        OBVIOUS
      <4>1. {r \in raw.bars : SecurityOf(r.sid) # None /\ Month(r.day) = Month(d)} = Source
        BY DEF Source
      <4> QED
        BY <2>1, <3>1, <3>2, <4>1 DEF MonthSpan
    <3>4. Month(d) \in Int
      <4>1. PICK x \in instruments : u.exchange = x.exchange
        BY <2>1 DEF MemberInv, MembersOfMaster
      <4>2. u.exchange \in Exchanges
        BY <2>1, <4>1 DEF BuildInv, Mastered, Referenced
      <4>3. d \in StartDate .. EndDate
        BY <3>1, <4>2, MasterAssumption
      <4> QED
        BY <4>3, MonthOfRequest
    <3>5. Month(d) < month
      BY <2>1, <2>2, <3>1, <3>2, <3>3, <3>4
    <3> QED
      BY <2>1, <3>1, <3>2, <3>5 DEF MemberInv, AccountedUpTo, HasBar, HasHold
  <2> QED
    BY <1>2, <2>3, <2>4, <2>5 DEF MemberInv
<1>6. CASE ~ InMarket'
  BY <1>2, <1>6 DEF MemberInv, MembersOfMaster, MonthsBuilt, AccountedUpTo
<1>7. CASE InMarket' /\ ~ BuildReference /\ ~ BuildMonth /\ ~ PassMonth
  <2>1. UNCHANGED <<raw, bySecurity, instruments, universe, bars, quarantine, month>> /\ InMarket
    BY <1>7 DEF TablesNext, BuildInstruments, RejectMaster, Preflight, MarketDone,
                BuildValuation, BuildExtensions, InMarket, maps, reference, market, tablesVars
  <2>2. MembersOfMaster' /\ MonthsBuilt'
    BY <2>1 DEF MemberInv, MembersOfMaster, MonthsBuilt, LastDay, Month
  <2>3. AccountedUpTo'
    <3>1. SUFFICES ASSUME NEW u \in universe, NEW d \in Open[u.exchange],
                          Covers(u.from, u.to, d), MonthSpan(d)', Month(d)' < month'
                   PROVE  HasBar(u.id, d)' <=> ~ HasHold(u.id, d)'
      BY <2>1 DEF AccountedUpTo, Covers
    <3>2. MonthSpan(d)' = MonthSpan(d) /\ Month(d)' = Month(d)
      BY <2>1 DEF MonthSpan, SecurityOf, At, Month
    <3> QED
      BY <2>1, <3>1, <3>2 DEF MemberInv, AccountedUpTo, HasBar, HasHold
  <2> QED
    BY <1>2, <2>2, <2>3 DEF MemberInv
<1> QED
  BY <1>3, <1>4, <1>5, <1>6, <1>7 DEF InMarket

LEMMA MembersFromInv ==
  ASSUME BuildInv, MemberInv
  PROVE  MembersAccounted
<1>1. SUFFICES ASSUME Built, NEW u \in universe, NEW d \in Open[u.exchange],
                      Covers(u.from, u.to, d), MonthSpan(d)
               PROVE  HasBar(u.id, d) # HasHold(u.id, d)
  BY DEF MembersAccounted, HasBar, HasHold
<1>2. InMarket /\ Mastered /\ month = Month(EndDate) + 1
  BY <1>1 DEF Built, InMarket, Mastered, BuildInv, MonthInOrder
<1>3. PICK x \in instruments : u.exchange = x.exchange
  BY <1>2 DEF MemberInv, MembersOfMaster
<1>4. u.exchange \in Exchanges
  BY <1>2, <1>3 DEF BuildInv, Referenced
<1>5. d \in StartDate .. EndDate
  BY <1>1, <1>4, MasterAssumption
<1>6. Month(d) \in Int /\ Month(EndDate) \in Int /\ Month(d) <= Month(EndDate)
  BY <1>5, MonthOfRequest, MonthMonotone, MasterAssumption
<1>7. HasBar(u.id, d) <=> ~ HasHold(u.id, d)
  BY <1>1, <1>2, <1>6 DEF MemberInv, AccountedUpTo
<1> QED
  BY <1>7 DEF HasBar, HasHold

\* If the source has one row of a security and a day, every member of the universe has a bar
\* or a row in quarantine, and not both, on every open day for which there is market data:
\* for any listings, halts, missing rows and prices.
THEOREM MembersAreAccounted ==
  ASSUME None \notin Int
  PROVE  JobFiles /\ OneRowADay /\ TablesSpec => []MembersAccounted
<1>1. JobFiles /\ OneRowADay /\ TablesInit => BuildInv /\ MemberInv
  BY BuildInit DEF TablesInit, MemberInv, MembersOfMaster, MonthsBuilt, AccountedUpTo, InMarket
<1>2. BuildInv /\ MemberInv /\ [TablesNext]_tablesVars => (BuildInv /\ MemberInv)'
  BY BuildStep, MemberStep
<1>3. BuildInv /\ MemberInv => MembersAccounted
  BY MembersFromInv
<1> QED
  BY <1>1, <1>2, <1>3, PTL DEF TablesSpec

-----------------------------------------------------------------------------
(* Post-adjustment: the loop over the days of a month, in closed form.     *)

\* The days up to one with a factor of the vendor's.
Given(i, days, d) == {e \in days : e <= d /\ Vendor(i, e) # None}

\* The last such factor; without one what was carried over and, failing that, the first
\* factor of the month.
FactorOn(i, days, d) ==
    IF Given(i, days, d) # {} THEN Vendor(i, Max(Given(i, days, d)))
    ELSE IF Carried(i) # None \/ (\A e \in days : e > d) THEN Carried(i)
    ELSE FirstFactor(i)

\* The next day of the loop.
FactorNext(i, days, prev, d) ==
    IF d < StartDate THEN Carried(i)
    ELSE IF d \notin days THEN prev
    ELSE IF Vendor(i, d) # None THEN Vendor(i, d)
    ELSE IF prev # None THEN prev ELSE FirstFactor(i)

LEMMA FactorOnNext ==
  ASSUME NEW i, NEW days \in SUBSET (StartDate .. EndDate), NEW d \in StartDate .. EndDate
  PROVE  FactorOn(i, days, d) = FactorNext(i, days, FactorOn(i, days, d - 1), d)
<1>1. d \in Int /\ ~ (d < StartDate) /\ \A e \in days : e \in Int /\ e \in 0 .. EndDate
  BY MasterAssumption
<1>2. CASE d \notin days
  <2>1. \A e \in days : (e <= d <=> e <= d - 1) /\ (e > d <=> e > d - 1)
    BY <1>1, <1>2
  <2>2. Given(i, days, d) = Given(i, days, d - 1)
    BY <2>1 DEF Given
  <2> QED
    BY <1>1, <1>2, <2>1, <2>2 DEF FactorOn, FactorNext
<1>3. CASE d \in days /\ Vendor(i, d) # None
  <2>1. d \in Given(i, days, d) /\ \A e \in Given(i, days, d) : e <= d
    BY <1>1, <1>3 DEF Given
  <2>2. Max(Given(i, days, d)) = d
    <3>1. Given(i, days, d) \in SUBSET (0 .. EndDate) /\ EndDate \in Nat
      BY <1>1, MasterAssumption DEF Given
    <3>2. /\ Max(Given(i, days, d)) \in Given(i, days, d)
          /\ \A e \in Given(i, days, d) : e <= Max(Given(i, days, d))
      BY <2>1, <3>1, GreatestUpTo
    <3>3. Max(Given(i, days, d)) \in Int
      BY <3>1, <3>2
    <3> QED
      BY <1>1, <2>1, <3>2, <3>3
  <2> QED
    BY <1>1, <1>3, <2>1, <2>2 DEF FactorOn, FactorNext
<1>4. CASE d \in days /\ Vendor(i, d) = None
  <2>1. Given(i, days, d) = Given(i, days, d - 1)
    <3>1. ASSUME NEW e \in days, Vendor(i, e) # None PROVE e <= d <=> e <= d - 1
      <4>1. e # d
        BY <1>4, <3>1
      <4> QED
        BY <1>1, <4>1
    <3> QED
      BY <3>1 DEF Given
  <2>2. ~ \A e \in days : e > d
    BY <1>1, <1>4
  <2>3. CASE Given(i, days, d) # {}
    <3> DEFINE G == Given(i, days, d)
    <3>1. G \in SUBSET (0 .. EndDate) /\ EndDate \in Nat /\ \A e \in G : Vendor(i, e) # None
      BY <1>1, MasterAssumption DEF Given
    <3>2. FactorOn(i, days, d) = Vendor(i, Max(G)) /\ FactorOn(i, days, d - 1) = Vendor(i, Max(G))
      BY <2>1, <2>3 DEF FactorOn
    <3> HIDE DEF G
    <3>3. Max(G) \in G
      BY <2>3, <3>1, GreatestUpTo DEF G
    <3> QED
      BY <1>1, <1>4, <3>1, <3>2, <3>3 DEF FactorNext
  <2>4. CASE Given(i, days, d) = {}
    BY <1>1, <1>4, <2>1, <2>2, <2>4 DEF FactorOn, FactorNext
  <2> QED
    BY <2>3, <2>4
<1> QED
  BY <1>2, <1>3, <1>4

\* The loop gives every day its factor.
LEMMA FactorsForm ==
  ASSUME NEW i, NEW days \in SUBSET (StartDate .. EndDate)
  PROVE  Factors(i, days) = [d \in days |-> FactorOn(i, days, d)]
<1> DEFINE D == StartDate - 1 .. EndDate
           Loop(f) == [d \in D |-> IF d < StartDate THEN Carried(i)
                                   ELSE IF d \notin days THEN f[d - 1]
                                   ELSE IF Vendor(i, d) # None THEN Vendor(i, d)
                                   ELSE IF f[d - 1] # None THEN f[d - 1] ELSE FirstFactor(i)]
           last == CHOOSE f : f = Loop(f)
           g == [d \in D |-> FactorOn(i, days, d)]
<1>1. Factors(i, days) = [d \in days |-> last[d]]
  BY DEF Factors
<1>2. /\ StartDate \in Int /\ EndDate \in Int /\ StartDate <= EndDate
      /\ \A d \in D : d \in Int /\ d <= EndDate
      /\ \A d \in D : ~ (d < StartDate) => d \in StartDate .. EndDate /\ d - 1 \in D
      /\ \A d \in D : d < StartDate => d = StartDate - 1
      /\ \A d \in days : d \in D /\ d \in Int /\ ~ (d < StartDate)
  BY MasterAssumption
<1>3. FactorOn(i, days, StartDate - 1) = Carried(i)
  <2>1. \A e \in days : e > StartDate - 1 /\ ~ (e <= StartDate - 1)
    BY <1>2
  <2> QED
    BY <2>1 DEF FactorOn, Given
<1>4. \A f : Loop(f) = [d \in D |-> FactorNext(i, days, f[d - 1], d)]
  BY DEF FactorNext
<1> HIDE DEF Loop
<1>5. g = Loop(g)
  <2>1. ASSUME NEW d \in D PROVE g[d] = FactorNext(i, days, g[d - 1], d)
    <3>1. CASE d < StartDate
      BY <1>2, <1>3, <3>1 DEF FactorNext
    <3>2. CASE ~ (d < StartDate)
      <4>1. d \in StartDate .. EndDate /\ d - 1 \in D
        BY <1>2, <3>2
      <4>2. g[d] = FactorOn(i, days, d) /\ g[d - 1] = FactorOn(i, days, d - 1)
        BY <4>1
      <4> QED
        BY <4>1, <4>2, FactorOnNext
    <3> QED
      BY <3>1, <3>2
  <2>2. g = [d \in D |-> g[d]]
    OBVIOUS
  <2> HIDE DEF g
  <2> QED
    BY <1>4, <2>1, <2>2
<1>6. last = Loop(last)
  <2> HIDE DEF g
  <2> QED
    BY <1>5
<1> HIDE DEF last
<1>7. \A d \in D : last[d] = FactorNext(i, days, last[d - 1], d)
  BY <1>4, <1>6
<1>8. ASSUME NEW d \in D, last[d] # FactorOn(i, days, d) PROVE FALSE
  <2> DEFINE T == {n \in Nat : StartDate - 1 + n \in D
                      /\ last[StartDate - 1 + n] # FactorOn(i, days, StartDate - 1 + n)}
  <2>1. T \in SUBSET Nat /\ T # {}
    <3>1. d - (StartDate - 1) \in Nat /\ StartDate - 1 + (d - (StartDate - 1)) = d
      BY <1>2
    <3>2. d - (StartDate - 1) \in T
      BY <1>8, <3>1
    <3> QED
      BY <3>2
  <2>2. PICK n \in T : \A m \in T : n <= m
    <3> HIDE DEF T
    <3> QED
      BY <2>1, LeastOfNat
  <2>3. PICK e \in D : e = StartDate - 1 + n /\ last[e] # FactorOn(i, days, e) /\ n \in Nat
    OBVIOUS
  <2>4. CASE e < StartDate
    BY <1>2, <1>3, <1>7, <2>3, <2>4 DEF FactorNext
  <2>5. CASE ~ (e < StartDate)
    <3>1. e \in StartDate .. EndDate /\ e - 1 \in D
      BY <1>2, <2>5
    <3>2. n - 1 \in Nat /\ e - 1 = StartDate - 1 + (n - 1) /\ ~ (n <= n - 1)
      BY <1>2, <2>3, <2>5
    <3>3. n - 1 \notin T
      <4> HIDE DEF T
      <4> QED
        BY <2>2, <3>2
    <3>4. last[e - 1] = FactorOn(i, days, e - 1)
      BY <3>1, <3>2, <3>3
    <3> QED
      BY <1>7, <2>3, <3>1, <3>4, FactorOnNext
  <2> QED
    BY <2>4, <2>5
<1>9. \A d \in days : last[d] = FactorOn(i, days, d)
  BY <1>2, <1>8
<1> QED
  BY <1>1, <1>9

\* The days of an instrument's bars.
DaysOf(table, i) == {c.day : c \in {b \in table : b.inst = i}}

\* The days, up to one, of an instrument's bars that have a factor of the vendor's.
Known(i, day) == {d \in Day : d <= day /\ Vendor(i, d) # None /\ HasBar(i, d)}

\* The same once the bars of the month are added.
KnownWith(i, day) ==
    {d \in Day : /\ d <= day /\ Vendor(i, d) # None
                 /\ HasBar(i, d) \/ d \in DaysOf(MonthBars, i)}

\* What is carried over is the vendor's last factor of the bars so far.
FactorKnown ==
    builder = "market" => \A i \in Ids :
        Known(i, EndDate) # {} => factor[i] = Vendor(i, Max(Known(i, EndDate)))
BarDays ==
    \A c \in bars : c.day \in Day /\ (builder = "market" => Month(c.day) < month)
PostOfBars == {<<p.inst, p.day>> : p \in post} = {<<c.inst, c.day>> : c \in bars}
PostKnown ==
    \A p \in post : Known(p.inst, p.day) # {} =>
        p.factor = Vendor(p.inst, Max(Known(p.inst, p.day)))

FactorInv == FactorKnown /\ BarDays /\ PostOfBars /\ PostKnown

\* The greatest of some days of which the later ones are apart.
LEMMA GreatestOfLater ==
  ASSUME NEW A \in SUBSET Day, NEW B \in SUBSET Day, B # {}, \A a \in A, b \in B : a < b
  PROVE  Max(A \union B) = Max(B)
<1>1. EndDate \in Nat /\ Day \in SUBSET (0 .. EndDate)
  BY MasterAssumption DEF Day
<1>2. Max(B) \in B /\ \A b \in B : b <= Max(B)
  BY <1>1, GreatestUpTo
<1>3. Max(A \union B) \in A \union B /\ \A c \in A \union B : c <= Max(A \union B)
  <2>1. A \union B \in SUBSET (0 .. EndDate) /\ A \union B # {}
    BY <1>1
  <2> QED
    BY <1>1, <2>1, GreatestUpTo
<1>4. PICK m \in Int : m = Max(B)
  <2>1. Max(B) \in 0 .. EndDate
    BY <1>1, <1>2
  <2> QED
    BY <1>1, <2>1
<1>5. PICK n \in Int : n = Max(A \union B)
  <2>1. Max(A \union B) \in 0 .. EndDate
    BY <1>1, <1>3
  <2> QED
    BY <1>1, <2>1
<1>6. m <= n
  BY <1>2, <1>3, <1>4, <1>5
<1>7. n <= m
  <2>1. n \notin A
    BY <1>2, <1>4, <1>5, <1>6
  <2> QED
    BY <1>2, <1>3, <1>4, <1>5, <2>1
<1> QED
  BY <1>4, <1>5, <1>6, <1>7

\* The days of a month's bars are of the month and later than every bar so far.
LEMMA NewDays ==
  ASSUME BuildInv, FillInv, BarDays, builder = "market", Source # {}, NEW i,
         NEW d \in DaysOf(MonthBars, i)
  PROVE  /\ d \in Day /\ Month(d) = month /\ i \in Ids
         /\ \A c \in bars : c.day < d
<1>1. PICK b \in MonthBars : b.inst = i /\ b.day = d
  BY DEF DaysOf
<1>2. d \in Day /\ Month(d) = month /\ i \in Ids
  BY <1>1, MonthGrounded DEF FillInv, Day
<1>3. ASSUME NEW c \in bars PROVE c.day < d
  BY <1>2, LaterMonth, MasterAssumption DEF BarDays, Day
<1> QED
  BY <1>2, <1>3

\* The factor of a new bar is the vendor's last one of the bars so far and of the month.
LEMMA NewFactor ==
  ASSUME BuildInv, FillInv, FactorInv, builder = "market", Source # {},
         NEW i \in Ids, NEW d \in DaysOf(MonthBars, i), KnownWith(i, d) # {}
  PROVE  FactorOn(i, DaysOf(MonthBars, i), d) = Vendor(i, Max(KnownWith(i, d)))
<1> DEFINE K == KnownWith(i, d)
           days == DaysOf(MonthBars, i)
           old == Known(i, EndDate)
           new == Given(i, days, d)
<1>1. \A e \in days : e \in Day /\ e \in Int /\ \A c \in bars : c.day < e
  BY NewDays, MasterAssumption DEF FactorInv, Day
<1>2. d \in Int /\ d \in Day
  BY <1>1
<1>3. /\ \A e \in old : e \in Day /\ e \in Int /\ e <= d /\ Vendor(i, e) # None /\ HasBar(i, e)
      /\ \A e \in old, f \in days : e < f
  <2>1. ASSUME NEW e \in old PROVE e \in Day /\ e \in Int /\ Vendor(i, e) # None /\ HasBar(i, e)
    BY MasterAssumption DEF Known, Day
  <2>2. ASSUME NEW e \in old, NEW f \in days PROVE e < f
    BY <1>1, <2>1 DEF HasBar
  <2>3. ASSUME NEW e \in old PROVE e <= d
    BY <1>2, <2>1, <2>2
  <2> QED
    BY <2>1, <2>2, <2>3
<1>4. K = old \union new
  <2>1. ASSUME NEW e \in K PROVE e \in old \union new
    <3>1. e <= EndDate
      BY MasterAssumption DEF Day, KnownWith
    <3> QED
      BY <3>1 DEF Known, Given, KnownWith
  <2>2. ASSUME NEW e \in old PROVE e \in K
    BY <1>3 DEF KnownWith
  <2>3. ASSUME NEW e \in new PROVE e \in K
    BY <1>1 DEF Given, KnownWith
  <2> QED
    BY <2>1, <2>2, <2>3
<1>5. CASE new # {}
  <2>1. old \in SUBSET Day /\ new \in SUBSET Day /\ \A a \in old, b \in new : a < b
    BY <1>1, <1>3 DEF Given
  <2>2. Max(old \union new) = Max(new)
    <3> HIDE DEF old, new
    <3> QED
      BY <1>5, <2>1, GreatestOfLater
  <2>3. FactorOn(i, days, d) = Vendor(i, Max(new))
    BY <1>5 DEF FactorOn
  <2> QED
    BY <1>4, <2>2, <2>3
<1>6. CASE new = {}
  <2>1. K = old /\ old # {}
    BY <1>4, <1>6
  <2>2. factor[i] = Vendor(i, Max(old))
    BY <2>1 DEF FactorInv, FactorKnown
  <2>3. Max(old) \in old
    <3>1. old \in SUBSET (0 .. EndDate) /\ EndDate \in Nat
      BY MasterAssumption DEF Known, Day
    <3> HIDE DEF old
    <3> QED
      BY <2>1, <3>1, GreatestUpTo
  <2>4. Carried(i) = Vendor(i, Max(K)) /\ Carried(i) # None
    BY <1>3, <2>1, <2>2, <2>3 DEF Carried
  <2>5. FactorOn(i, days, d) = Carried(i)
    BY <1>6, <2>4 DEF FactorOn
  <2> QED
    BY <2>4, <2>5
<1> QED
  BY <1>5, <1>6

\* The post-adjusted rows of a month.
LEMMA PostRows ==
  ASSUME BuildInv, FillInv, FactorInv, builder = "market", Source # {}
  PROVE  /\ \A p \in PostOf(MonthBars) :
              /\ p.day \in DaysOf(MonthBars, p.inst)
              /\ p.factor = FactorOn(p.inst, DaysOf(MonthBars, p.inst), p.day)
         /\ \A c \in MonthBars : \E p \in PostOf(MonthBars) : p.inst = c.inst /\ p.day = c.day
<1> DEFINE Of1(i) == LET f == Factors(i, DaysOf(MonthBars, i))
                     IN  {[inst |-> i, day |-> d, factor |-> f[d]] : d \in DOMAIN f}
           traded == {c.inst : c \in MonthBars}
<1>1. PostOf(MonthBars) = UNION {Of1(i) : i \in traded}
  BY DEF PostOf, DaysOf
<1>2. ASSUME NEW i PROVE Of1(i) = {[inst |-> i, day |-> d,
                                    factor |-> FactorOn(i, DaysOf(MonthBars, i), d)] :
                                       d \in DaysOf(MonthBars, i)}
  <2>1. DaysOf(MonthBars, i) \in SUBSET (StartDate .. EndDate)
    BY NewDays DEF FactorInv, Day
  <2>2. Factors(i, DaysOf(MonthBars, i))
           = [d \in DaysOf(MonthBars, i) |-> FactorOn(i, DaysOf(MonthBars, i), d)]
    BY <2>1, FactorsForm
  <2> QED
    BY <2>2
<1> HIDE DEF Of1
<1>3. ASSUME NEW p \in PostOf(MonthBars)
      PROVE  /\ p.day \in DaysOf(MonthBars, p.inst)
             /\ p.factor = FactorOn(p.inst, DaysOf(MonthBars, p.inst), p.day)
  <2>1. PICK i \in traded : p \in Of1(i)
    BY <1>1
  <2>2. PICK d \in DaysOf(MonthBars, i) :
           p = [inst |-> i, day |-> d, factor |-> FactorOn(i, DaysOf(MonthBars, i), d)]
    BY <1>2, <2>1
  <2> QED
    BY <2>2
<1>4. ASSUME NEW c \in MonthBars
      PROVE  \E p \in PostOf(MonthBars) : p.inst = c.inst /\ p.day = c.day
  <2>1. c.day \in DaysOf(MonthBars, c.inst) /\ c.inst \in traded
    BY DEF DaysOf
  <2> DEFINE p == [inst |-> c.inst, day |-> c.day,
                   factor |-> FactorOn(c.inst, DaysOf(MonthBars, c.inst), c.day)]
  <2>2. p \in Of1(c.inst)
    BY <1>2, <2>1
  <2>3. p \in PostOf(MonthBars)
    BY <1>1, <2>1, <2>2
  <2>4. p.inst = c.inst /\ p.day = c.day
    OBVIOUS
  <2> HIDE DEF p
  <2> QED
    BY <2>3, <2>4
<1> QED
  BY <1>3, <1>4

\* The factor that is carried out of a month is that of the last bar.
LEMMA LastFactor ==
  ASSUME BuildInv, FillInv, FactorInv, builder = "market", Source # {},
         NEW i \in {c.inst : c \in MonthBars}
  PROVE  \E d \in DaysOf(MonthBars, i) :
            /\ \A e \in DaysOf(MonthBars, i) : e <= d
            /\ LastOf(PostOf(MonthBars), i).factor = FactorOn(i, DaysOf(MonthBars, i), d)
<1> DEFINE own == {r \in PostOf(MonthBars) : r.inst = i}
<1>1. \A r \in own : /\ r.day \in DaysOf(MonthBars, i) /\ r.day \in StartDate .. EndDate
                     /\ r.factor = FactorOn(i, DaysOf(MonthBars, i), r.day)
  BY PostRows, NewDays DEF FactorInv, Day
<1>2. \A e \in DaysOf(MonthBars, i) : \E r \in own : r.day = e
  BY PostRows DEF DaysOf
<1>3. own # {}
  BY <1>2 DEF DaysOf
<1>4. LastOf(PostOf(MonthBars), i) = Latest(own)
  BY DEF LastOf
<1> HIDE DEF own
<1>5. Latest(own) \in own /\ \A r \in own : r.day <= Latest(own).day
  BY <1>1, <1>3, LatestOf
<1>6. \A e \in DaysOf(MonthBars, i) : e <= Latest(own).day
  BY <1>2, <1>5
<1> QED
  BY <1>1, <1>4, <1>5, <1>6

\* A month of market data preserves the invariant.
LEMMA FactorMonth ==
  ASSUME BuildInv, FillInv, FactorInv, BuildMonth
  PROVE  FactorInv'
<1>1. /\ builder = "market" /\ Source # {} /\ UNCHANGED <<raw, bySecurity, instruments>>
      /\ Ids' = Ids /\ Day' = Day
      /\ \A i, d : Vendor(i, d)' = Vendor(i, d)
      /\ \A d : Month(d)' = Month(d)
  BY MonthWritten DEF Ids, Day, Vendor, SecurityOf, At, Month
<1>2. CASE builder' = "failed" /\ UNCHANGED <<bars, quarantine, post>>
  <2>1. FactorKnown' /\ BarDays'
    BY <1>1, <1>2 DEF FactorKnown, BarDays, FactorInv
  <2>2. PostOfBars'
    BY <1>2 DEF PostOfBars, FactorInv
  <2>3. \A i, d : Known(i, d)' = Known(i, d)
    BY <1>1, <1>2 DEF Known, HasBar
  <2>4. PostKnown'
    BY <1>1, <1>2, <2>3 DEF PostKnown, FactorInv
  <2> QED
    BY <2>1, <2>2, <2>4 DEF FactorInv
<1>3. CASE /\ builder' = "market" /\ month' = month + 1 /\ bars' = bars \union MonthBars
           /\ post' = post \union PostOf(MonthBars)
           /\ factor' = [i \in Ids |-> IF i \in {c.inst : c \in MonthBars}
                                      THEN LastOf(PostOf(MonthBars), i).factor
                                      ELSE factor[i]]
  <2>1. \A i, d : HasBar(i, d)' <=> HasBar(i, d) \/ d \in DaysOf(MonthBars, i)
    BY <1>3 DEF HasBar, DaysOf
  <2>2. \A i, d : Known(i, d)' = KnownWith(i, d)
    <3> SUFFICES ASSUME NEW i, NEW d, NEW e
                 PROVE  e \in Known(i, d)' <=> e \in KnownWith(i, d)
      OBVIOUS
    <3>1. e \in Known(i, d)' <=> e \in Day /\ e <= d /\ Vendor(i, e)' # None /\ HasBar(i, e)'
      BY <1>1 DEF Known
    <3>2. e \in KnownWith(i, d) <=>
             /\ e \in Day /\ e <= d /\ Vendor(i, e) # None
             /\ HasBar(i, e) \/ e \in DaysOf(MonthBars, i)
      BY DEF KnownWith
    <3>3. Vendor(i, e)' = Vendor(i, e)
      BY <1>1
    <3>4. HasBar(i, e)' <=> HasBar(i, e) \/ e \in DaysOf(MonthBars, i)
      BY <2>1
    <3> QED
      BY <3>1, <3>2, <3>3, <3>4
  <2>3. BarDays'
    <3>1. \A c \in MonthBars : c.day \in Day /\ Month(c.day) = month
      BY <1>1, MonthGrounded DEF FillInv, Day
    <3>2. \A c \in bars : c.day \in Day /\ Month(c.day) < month
      BY <1>1 DEF FactorInv, BarDays
    <3>3. month \in Int /\ \A d \in Day : Month(d) \in Int
      BY <1>1, MonthMonotone, MonthOfRequest, MasterAssumption DEF BuildInv, MonthInOrder, Day
    <3>4. ASSUME NEW c \in bars' PROVE c.day \in Day /\ Month(c.day) < month + 1
      <4>1. CASE c \in bars
        BY <3>2, <3>3, <4>1
      <4>2. CASE c \in MonthBars
        BY <3>1, <3>3, <4>2
      <4> QED
        BY <1>3, <4>1, <4>2
    <3> QED
      BY <1>1, <1>3, <3>4 DEF BarDays
  <2>4. PostOfBars'
    <3>1. \A c \in MonthBars : \E p \in PostOf(MonthBars) : p.inst = c.inst /\ p.day = c.day
      BY <1>1, PostRows
    <3>2. \A p \in PostOf(MonthBars) : \E c \in MonthBars : p.inst = c.inst /\ p.day = c.day
      BY <1>1, PostRows DEF DaysOf
    <3>3. {<<p.inst, p.day>> : p \in PostOf(MonthBars)}
             = {<<c.inst, c.day>> : c \in MonthBars}
      BY <3>1, <3>2
    <3>4. {<<p.inst, p.day>> : p \in post'}
             = {<<p.inst, p.day>> : p \in post} \union {<<p.inst, p.day>> : p \in PostOf(MonthBars)}
      BY <1>3
    <3>5. {<<c.inst, c.day>> : c \in bars'}
             = {<<c.inst, c.day>> : c \in bars} \union {<<c.inst, c.day>> : c \in MonthBars}
      BY <1>3
    <3> QED
      BY <3>3, <3>4, <3>5 DEF PostOfBars, FactorInv
  <2>5. PostKnown'
    <3>1. SUFFICES ASSUME NEW p \in post', Known(p.inst, p.day)' # {}
                   PROVE  p.factor = Vendor(p.inst, Max(Known(p.inst, p.day)'))
      BY <1>1 DEF PostKnown
    <3>2. CASE p \in PostOf(MonthBars)
      <4>1. /\ p.day \in DaysOf(MonthBars, p.inst)
            /\ p.factor = FactorOn(p.inst, DaysOf(MonthBars, p.inst), p.day)
        BY <1>1, <3>2, PostRows
      <4>2. p.inst \in Ids
        BY <1>1, <4>1, NewDays DEF FactorInv
      <4> QED
        BY <1>1, <2>2, <3>1, <4>1, <4>2, NewFactor
    <3>3. CASE p \in post
      <4>1. PICK c \in bars : c.inst = p.inst /\ c.day = p.day
        <5>1. <<p.inst, p.day>> \in {<<c.inst, c.day>> : c \in bars}
          BY <3>3 DEF FactorInv, PostOfBars
        <5> QED
          BY <5>1
      <4>2. \A e \in DaysOf(MonthBars, p.inst) : p.day < e /\ p.day \in Int /\ e \in Int
        BY <1>1, <4>1, NewDays, MasterAssumption DEF FactorInv, BarDays, Day
      <4>3. \A e \in DaysOf(MonthBars, p.inst) : ~ (e <= p.day)
        BY <4>2
      <4>4. Known(p.inst, p.day)' = Known(p.inst, p.day)
        BY <2>2, <4>3 DEF Known, KnownWith
      <4> QED
        BY <3>1, <3>3, <4>4 DEF FactorInv, PostKnown
    <3> QED
      BY <1>3, <3>1, <3>2, <3>3
  <2>6. FactorKnown'
    <3>1. SUFFICES ASSUME NEW i \in Ids, Known(i, EndDate)' # {}
                   PROVE  factor'[i] = Vendor(i, Max(Known(i, EndDate)'))
      BY <1>1 DEF FactorKnown
    <3>2. CASE i \in {c.inst : c \in MonthBars}
      <4>1. PICK d \in DaysOf(MonthBars, i) :
               /\ \A e \in DaysOf(MonthBars, i) : e <= d
               /\ LastOf(PostOf(MonthBars), i).factor = FactorOn(i, DaysOf(MonthBars, i), d)
        BY <1>1, <3>2, LastFactor
      <4>2. factor'[i] = FactorOn(i, DaysOf(MonthBars, i), d)
        BY <1>3, <3>2, <4>1
      <4>3. d \in Day /\ d \in Int /\ d <= EndDate /\ \A c \in bars : c.day < d /\ c.day \in Int
        BY <1>1, <4>1, NewDays, MasterAssumption DEF FactorInv, BarDays, Day
      <4>4. \A e \in Day : HasBar(i, e) => e <= d
        BY <4>3 DEF HasBar
      <4>5. \A e \in Day : e <= EndDate
        BY DEF Day
      <4>6. KnownWith(i, EndDate) = KnownWith(i, d)
        BY <4>1, <4>4, <4>5 DEF KnownWith
      <4> QED
        BY <1>1, <2>2, <3>1, <4>1, <4>2, <4>6, NewFactor
    <3>3. CASE i \notin {c.inst : c \in MonthBars}
      <4>1. DaysOf(MonthBars, i) = {}
        BY <3>3 DEF DaysOf
      <4>2. Known(i, EndDate)' = Known(i, EndDate)
        BY <2>2, <4>1 DEF Known, KnownWith
      <4>3. factor'[i] = factor[i]
        BY <1>3, <3>3
      <4> QED
        BY <1>1, <3>1, <4>2, <4>3 DEF FactorInv, FactorKnown
    <3> QED
      BY <3>2, <3>3
  <2> QED
    BY <2>3, <2>4, <2>5, <2>6 DEF FactorInv
<1> QED
  BY <1>2, <1>3, MonthWritten

LEMMA FactorStep ==
  ASSUME BuildInv, FillInv, FactorInv, [TablesNext]_tablesVars
  PROVE  FactorInv'
<1>1. CASE BuildMonth
  BY <1>1, FactorMonth
<1>2. CASE ~ BuildMonth
  <2>1. /\ raw' = raw /\ bars' = bars /\ post' = post
        /\ bars # {} \/ post # {} => bySecurity' = bySecurity
    BY <1>2, QuietBuilders
  <2>2. PostOfBars'
    BY <2>1 DEF FactorInv, PostOfBars
  <2>3. CASE bars = {}
    <3>1. post = {}
      BY <2>3 DEF FactorInv, PostOfBars
    <3>2. \A i, d : Known(i, d)' = {}
      BY <2>1, <2>3 DEF Known, HasBar
    <3> QED
      BY <2>1, <2>2, <2>3, <3>1, <3>2 DEF FactorInv, FactorKnown, BarDays, PostKnown
  <2>4. CASE bars # {}
    <3>1. /\ \A i, d : Vendor(i, d)' = Vendor(i, d)
          /\ \A d : Month(d)' = Month(d)
      <4>1. raw' = raw /\ bySecurity' = bySecurity
        BY <2>1, <2>4
      <4> QED
        BY <4>1 DEF Vendor, SecurityOf, At, Month
    <3>2. \A i, d : Known(i, d)' = Known(i, d)
      BY <2>1, <3>1 DEF Known, HasBar, Day
    <3>3. PostKnown'
      BY <2>1, <3>1, <3>2 DEF FactorInv, PostKnown
    <3>4. ASSUME builder' = "market"
          PROVE  /\ builder = "market" /\ Ids' = Ids /\ UNCHANGED factor
                 /\ month' = month \/ month' = month + 1
      <4>1. ~ BuildReference
        BY <2>4 DEF BuildReference, BuildInv, NoMarket
      <4> QED
        BY <1>2, <3>4, <4>1, QuietBuilders
    <3>5. FactorKnown'
      BY <3>1, <3>2, <3>4 DEF FactorInv, FactorKnown
    <3>6. BarDays'
      <4>1. ASSUME NEW c \in bars PROVE c.day \in Day /\ (builder' = "market" => Month(c.day) < month')
        <5>1. c.day \in Day /\ (builder = "market" => Month(c.day) < month)
          BY DEF FactorInv, BarDays
        <5>2. Month(c.day) \in Int
          BY <5>1, MonthOfRequest DEF Day
        <5>3. builder = "market" => month \in Int
          BY MonthMonotone, MasterAssumption DEF BuildInv, MonthInOrder
        <5> QED
          BY <3>4, <5>1, <5>2, <5>3
      <4> QED
        BY <2>1, <3>1, <4>1 DEF BarDays, Day
    <3> QED
      BY <2>2, <3>3, <3>5, <3>6 DEF FactorInv
  <2> QED
    BY <2>3, <2>4
<1> QED
  BY <1>1, <1>2

\* The post-adjusted table has the bars of the raw one, each with the vendor's factor of the
\* day or of the last earlier day with a bar that has one, however many months without a
\* factor or without a bar lie between.
THEOREM FactorsAreCarried == JobFiles /\ TablesSpec => []FactorsCarried
<1>1. JobFiles /\ TablesInit => BuildInv /\ FillInv /\ FactorInv
  <2>1. TablesInit => FillInv
    BY DEF TablesInit, FillInv, FillsAreCausal, CloseKnown
  <2>2. TablesInit => FactorInv
    BY DEF TablesInit, FactorInv, FactorKnown, BarDays, PostOfBars, PostKnown
  <2> QED
    BY <2>1, <2>2, BuildInit
<1>2. BuildInv /\ FillInv /\ FactorInv /\ [TablesNext]_tablesVars
         => (BuildInv /\ FillInv /\ FactorInv)'
  BY BuildStep, FillStep, FactorStep
<1>3. FactorInv => FactorsCarried
  BY DEF FactorInv, FactorsCarried, PostOfBars, PostKnown, Known, HasBar
<1> QED
  BY <1>1, <1>2, <1>3, PTL DEF TablesSpec

-----------------------------------------------------------------------------
(* Special-treatment windows.                                              *)

\* The log of changes is finite, its rows have numbers of their own and days.
StateLog ==
    /\ IsFiniteSet(raw.states)
    /\ \A t \in raw.states : t.eff \in Nat /\ t.id \in Int
    /\ \A s, t \in raw.states : s.id = t.id => s = t

\* One of some records has the highest number.
LEMMA HighestIdOf ==
  ASSUME NEW S, IsFiniteSet(S), S # {}, \A y \in S : y.id \in Int
  PROVE  HighestId(S) \in S /\ \A y \in S : y.id <= HighestId(S).id
<1> DEFINE R == {p \in S \X S : p[1].id < p[2].id}
<1>1. \A x, y \in S : <<x, y>> \in R <=> x.id < y.id
  OBVIOUS
<1>2. /\ \A x, y, z \in S : <<x, y>> \in R /\ <<y, z>> \in R => <<x, z>> \in R
      /\ \A x \in S : <<x, x>> \notin R
  <2> HIDE DEF R
  <2> QED
    BY <1>1
<1>3. PICK x \in S : \A y \in S : <<x, y>> \notin R
  <2> HIDE DEF R
  <2> QED
    BY <1>2, MaximalExists
<1>4. ASSUME NEW y \in S PROVE ~ Precedes(<<x.id>>, <<y.id>>)
  BY <1>1, <1>3, PrecedesOne
<1>5. HighestId(S) \in S /\ \A y \in S : ~ Precedes(<<HighestId(S).id>>, <<y.id>>)
  BY <1>4 DEF HighestId, Last
<1>6. ASSUME NEW y \in S PROVE y.id <= HighestId(S).id
  <2>1. PICK m \in Int, n \in Int : m = HighestId(S).id /\ n = y.id
    BY <1>5
  <2>2. ~ Precedes(<<m>>, <<n>>)
    BY <1>5, <2>1
  <2> QED
    BY <2>1, <2>2, PrecedesOne
<1> QED
  BY <1>5, <1>6

\* One of some changes is the last, by its day and then by its number.
LEMMA LastChangeOf ==
  ASSUME NEW S, IsFiniteSet(S), S # {}, \A y \in S : y.eff \in Int /\ y.id \in Int
  PROVE  /\ LastChange(S) \in S
         /\ \A y \in S : \/ y.eff < LastChange(S).eff
                         \/ y.eff = LastChange(S).eff /\ y.id <= LastChange(S).id
<1> DEFINE R == {p \in S \X S : \/ p[1].eff < p[2].eff
                                \/ p[1].eff = p[2].eff /\ p[1].id < p[2].id}
<1>1. \A x, y \in S : <<x, y>> \in R <=> x.eff < y.eff \/ (x.eff = y.eff /\ x.id < y.id)
  OBVIOUS
<1>2. /\ \A x, y, z \in S : <<x, y>> \in R /\ <<y, z>> \in R => <<x, z>> \in R
      /\ \A x \in S : <<x, x>> \notin R
  <2> HIDE DEF R
  <2> QED
    BY <1>1
<1>3. PICK x \in S : \A y \in S : <<x, y>> \notin R
  <2> HIDE DEF R
  <2> QED
    BY <1>2, MaximalExists
<1>4. ASSUME NEW y \in S PROVE ~ Precedes(<<x.eff, x.id>>, <<y.eff, y.id>>)
  BY <1>1, <1>3, PrecedesTwo
<1> DEFINE z == LastChange(S)
<1>5. z \in S /\ \A y \in S : ~ Precedes(<<z.eff, z.id>>, <<y.eff, y.id>>)
  BY <1>4 DEF LastChange, Last
<1> HIDE DEF z
<1>6. ASSUME NEW y \in S
      PROVE  y.eff < z.eff \/ (y.eff = z.eff /\ y.id <= z.id)
  <2>1. /\ z.eff \in Int /\ z.id \in Int /\ y.eff \in Int /\ y.id \in Int
        /\ ~ Precedes(<<z.eff, z.id>>, <<y.eff, y.id>>)
    BY <1>5
  <2>2. ~ (z.eff < y.eff \/ (z.eff = y.eff /\ z.id < y.id))
    BY <2>1, PrecedesTwo
  <2> QED
    BY <2>1, <2>2
<1> QED
  BY <1>5, <1>6 DEF z

\* The window of a transition.
WindowOf(t, i) ==
    [name |-> t.name, from |-> t.eff,
     to |-> IF Following(t, i) = {} THEN None ELSE Min(Following(t, i)),
     known |-> IF t.pub = None THEN t.eff ELSE t.pub]
InWindow(w, d) == w.from <= d /\ (w.to = None \/ d < w.to)

\* A transition is the change of its day with the highest number.
LEMMA TransitionOf ==
  ASSUME StateLog, NEW i, NEW t \in Transitions(i)
  PROVE  /\ t \in raw.states /\ SecurityOf(t.sid) = i /\ t.eff \in Nat /\ t.id \in Int
         /\ \A u \in raw.states : SecurityOf(u.sid) = i /\ u.eff = t.eff => u.id <= t.id
<1> DEFINE own == {u \in raw.states : SecurityOf(u.sid) = i}
           same == {o \in own : o.eff = t.eff}
<1>1. t \in own /\ t = HighestId(same)
  BY DEF Transitions
<1>2. IsFiniteSet(same) /\ same # {} /\ \A y \in same : y.id \in Int
  <2>1. same \in SUBSET raw.states /\ t \in same
    BY <1>1
  <2> QED
    BY <2>1, FS_Subset DEF StateLog
<1>3. \A y \in same : y.id <= t.id
  <2> HIDE DEF same
  <2> QED
    BY <1>1, <1>2, HighestIdOf
<1> QED
  BY <1>1, <1>3 DEF StateLog

LEMMA LastIsTransition ==
  ASSUME StateLog, NEW i, NEW t \in raw.states, SecurityOf(t.sid) = i,
         \A u \in raw.states : SecurityOf(u.sid) = i /\ u.eff = t.eff => u.id <= t.id
  PROVE  t \in Transitions(i)
<1> DEFINE own == {u \in raw.states : SecurityOf(u.sid) = i}
           same == {o \in own : o.eff = t.eff}
<1>1. IsFiniteSet(same) /\ same # {} /\ \A y \in same : y.id \in Int
  <2>1. same \in SUBSET raw.states /\ t \in same
    OBVIOUS
  <2> QED
    BY <2>1, FS_Subset DEF StateLog
<1>2. HighestId(same) \in same /\ \A y \in same : y.id <= HighestId(same).id
  <2> HIDE DEF same
  <2> QED
    BY <1>1, HighestIdOf
<1>3. PICK h \in same : h = HighestId(same)
  BY <1>2
<1>4. h.id \in Int /\ t.id \in Int /\ h.id <= t.id /\ t.id <= h.id /\ h \in raw.states
  BY <1>2, <1>3 DEF StateLog
<1>5. t = h
  BY <1>4 DEF StateLog
<1> QED
  BY <1>3, <1>5 DEF Transitions

\* On a day one window is open, that of the last change, once there was one.
LEMMA OneWindow ==
  ASSUME None \notin Int, StateLog, NEW i, NEW d \in Int,
         NEW open, open = {w \in Windows(i) : InWindow(w, d)},
         NEW past, past = {t \in raw.states : SecurityOf(t.sid) = i /\ t.eff <= d}
  PROVE  IF past = {} THEN open = {}
         ELSE Cardinality(open) = 1 /\ \A w \in open : w.name = LastChange(past).name
<1>1. Windows(i) = {WindowOf(t, i) : t \in Transitions(i)}
  BY DEF Windows, WindowOf
<1>2. \A t \in Transitions(i) : /\ WindowOf(t, i).from = t.eff /\ WindowOf(t, i).name = t.name
                                /\ WindowOf(t, i).to = IF Following(t, i) = {} THEN None
                                                       ELSE Min(Following(t, i))
  BY DEF WindowOf
<1>3. \A t \in Transitions(i) : InWindow(WindowOf(t, i), d) => t \in past
  BY <1>2, TransitionOf DEF InWindow
<1>4. ASSUME past = {} PROVE open = {}
  BY <1>1, <1>3, <1>4
<1>5. ASSUME past # {}
      PROVE  Cardinality(open) = 1 /\ \A w \in open : w.name = LastChange(past).name
  <2>1. IsFiniteSet(past) /\ \A y \in past : y.eff \in Int /\ y.id \in Int
    BY FS_Subset DEF StateLog
  <2>2. PICK c \in past : /\ c = LastChange(past)
                          /\ \A y \in past : \/ y.eff < c.eff
                                             \/ y.eff = c.eff /\ y.id <= c.id
    BY <1>5, <2>1, LastChangeOf
  <2>3. c \in raw.states /\ SecurityOf(c.sid) = i /\ c.eff \in Nat /\ c.id \in Int /\ c.eff <= d
    BY DEF StateLog
  <2>4. c \in Transitions(i)
    <3>1. ASSUME NEW u \in raw.states, SecurityOf(u.sid) = i, u.eff = c.eff PROVE u.id <= c.id
      <4>1. u \in past
        BY <2>3, <3>1
      <4> QED
        BY <2>2, <2>3, <3>1, <4>1
    <3> QED
      BY <2>3, <3>1, LastIsTransition
  <2>5. \A t \in Transitions(i) :
           /\ Following(t, i) \in SUBSET Nat
           /\ \A u \in Transitions(i) : u.eff > t.eff => u.eff \in Following(t, i)
           /\ \A e \in Following(t, i) : \E u \in Transitions(i) : e = u.eff /\ u.eff > t.eff
    BY TransitionOf DEF Following
  <2>6. \A t \in Transitions(i) : Following(t, i) # {} =>
           /\ Min(Following(t, i)) \in Following(t, i)
           /\ \A e \in Following(t, i) : Min(Following(t, i)) <= e
    BY <2>5, LeastOfNat
  <2>7. InWindow(WindowOf(c, i), d)
    <3>1. ASSUME NEW e \in Following(c, i) PROVE d < e
      <4>1. PICK u \in Transitions(i) : e = u.eff /\ u.eff > c.eff
        BY <2>4, <2>5
      <4>2. u \in raw.states /\ SecurityOf(u.sid) = i /\ u.eff \in Nat
        BY TransitionOf
      <4>3. u \notin past
        BY <2>2, <2>3, <4>1, <4>2
      <4> QED
        BY <4>1, <4>2, <4>3
    <3> QED
      BY <1>2, <2>3, <2>4, <2>6, <3>1 DEF InWindow
  <2>8. ASSUME NEW t \in Transitions(i), InWindow(WindowOf(t, i), d) PROVE t = c
    <3>1. t \in past /\ t.eff \in Nat /\ t.id \in Int /\ t \in raw.states
      BY <1>3, <2>8, TransitionOf
    <3>2. ~ (t.eff < c.eff)
      <4> SUFFICES ASSUME t.eff < c.eff PROVE FALSE
        OBVIOUS
      <4>1. c.eff \in Following(t, i)
        BY <2>3, <2>4, <2>5
      <4>2. /\ Min(Following(t, i)) \in Nat /\ Min(Following(t, i)) <= c.eff
            /\ WindowOf(t, i).to = Min(Following(t, i))
        BY <1>2, <2>5, <2>6, <4>1
      <4> QED
        BY <2>3, <2>8, <4>2 DEF InWindow
    <3>3. t.eff = c.eff /\ t.id <= c.id
      BY <2>2, <3>1, <3>2
    <3>4. c.id <= t.id
      BY <2>3, <3>3, TransitionOf
    <3>5. t.id = c.id
      BY <2>3, <3>1, <3>3, <3>4
    <3> QED
      BY <2>3, <3>1, <3>5 DEF StateLog
  <2>9. open = {WindowOf(c, i)}
    BY <1>1, <2>4, <2>7, <2>8
  <2>10. WindowOf(c, i).name = LastChange(past).name
    BY <1>2, <2>2, <2>4
  <2> QED
    BY <2>9, <2>10, FS_Singleton
<1> QED
  BY <1>4, <1>5

\* The windows open on a day and the changes up to it.
OpenOn(i, d) == {w \in special[i] : InWindow(w, d)}
PastOf(i, d) == {t \in raw.states : SecurityOf(t.sid) = i /\ t.eff <= d}
Partition(open, past) ==
    IF past = {} THEN open = {}
    ELSE Cardinality(open) = 1 /\ \A w \in open : w.name = LastChange(past).name

WindowInv ==
    /\ StateLog
    /\ builder = "market" => \A i \in DOMAIN special : \A d \in Day :
           Partition(OpenOn(i, d), PastOf(i, d))

LEMMA WindowStep ==
  ASSUME None \notin Int, BuildInv, WindowInv, [TablesNext]_tablesVars
  PROVE  WindowInv'
<1>1. raw' = raw /\ Day' = Day
  <2>1. CASE BuildMonth
    BY <2>1, MonthWritten DEF Day
  <2> QED
    BY <2>1, QuietBuilders DEF Day
<1>2. StateLog'
  BY <1>1 DEF StateLog, WindowInv
<1>3. CASE builder' # "market"
  BY <1>2, <1>3 DEF WindowInv
<1>4. CASE BuildReference
  <2>1. ASSUME NEW i \in DOMAIN special', NEW d \in Day
        PROVE  Partition(OpenOn(i, d)', PastOf(i, d)')
    <3>1. special'[i] = Windows(i) /\ bySecurity' = bySecurity
      BY <1>4 DEF BuildReference, SpecialTreatment, maps
    <3>2. d \in Int
      BY MasterAssumption DEF Day
    <3>3. OpenOn(i, d)' = {w \in Windows(i) : InWindow(w, d)}
      BY <3>1 DEF OpenOn, InWindow
    <3>4. PastOf(i, d)' = {t \in raw.states : SecurityOf(t.sid) = i /\ t.eff <= d}
      BY <1>1, <3>1 DEF PastOf, SecurityOf, At
    <3>5. PICK o : o = {w \in Windows(i) : InWindow(w, d)}
      OBVIOUS
    <3>6. PICK p : p = {t \in raw.states : SecurityOf(t.sid) = i /\ t.eff <= d}
      OBVIOUS
    <3>7. IF p = {} THEN o = {}
          ELSE Cardinality(o) = 1 /\ \A w \in o : w.name = LastChange(p).name
      BY <3>2, <3>5, <3>6, OneWindow DEF WindowInv
    <3>8. Partition(o, p)
      BY ONLY <3>7 DEF Partition
    <3>9. OpenOn(i, d)' = o /\ PastOf(i, d)' = p
      BY <3>3, <3>4, <3>5, <3>6
    <3> QED
      BY ONLY <3>8, <3>9
  <2> QED
    BY <1>1, <1>2, <2>1 DEF WindowInv, Partition
<1>5. CASE builder' = "market" /\ ~ BuildReference
  <2>1. builder = "market" /\ special' = special /\ bySecurity' = bySecurity
    <3>1. CASE BuildMonth
      BY <3>1, MonthWritten
    <3> QED
      BY <1>5, <3>1, QuietBuilders
  <2>2. \A i, d : OpenOn(i, d)' = OpenOn(i, d)
    BY <2>1 DEF OpenOn, InWindow
  <2>3. \A i, d : PastOf(i, d)' = PastOf(i, d)
    BY <1>1, <2>1 DEF PastOf, SecurityOf, At
  <2> QED
    BY <1>1, <1>2, <2>1, <2>2, <2>3 DEF WindowInv, Partition
<1> QED
  BY <1>3, <1>4, <1>5

\* On every day at most one special-treatment window of an instrument is in force, the one
\* that the last change up to that day opened, whatever the order and the number of the
\* changes, several of one day included.
THEOREM WindowsArePartitioned ==
  ASSUME None \notin Int
  PROVE  JobFiles /\ StateLog /\ TablesSpec => []WindowsPartition
<1>1. JobFiles /\ StateLog /\ TablesInit => BuildInv /\ WindowInv
  BY BuildInit DEF TablesInit, WindowInv
<1>2. BuildInv /\ WindowInv /\ [TablesNext]_tablesVars => (BuildInv /\ WindowInv)'
  BY BuildStep, WindowStep
<1>3. WindowInv => WindowsPartition
  BY DEF WindowInv, WindowsPartition, Partition, OpenOn, PastOf, InWindow
<1> QED
  BY <1>1, <1>2, <1>3, PTL DEF TablesSpec

-----------------------------------------------------------------------------
(* Daily extension tables.                                                 *)

\* The rows of a source: finitely many, with their days and numbers; a limit event names
\* one symbol for a security.
ExtensionFiles ==
    /\ DOMAIN raw.ext \subseteq {"limit", "margin", "intraday"}
    /\ \A k \in DOMAIN raw.ext :
         /\ IsFiniteSet(raw.ext[k])
         /\ \A e \in raw.ext[k] :
              e.day \in Int /\ e.id \in Int /\ e.updated \in Int \union {None}
    /\ "limit" \in DOMAIN raw.ext =>
         \A e, f \in raw.ext["limit"] : e.sid = f.sid => e.symbol = f.symbol

\* One of some rows is the last revision.
LEMMA LastRevisionOf ==
  ASSUME NEW S, IsFiniteSet(S), S # {},
         \A y \in S : y.updated \in Int \union {None} /\ y.id \in Int
  PROVE  LastRevision(S) \in S
<1> DEFINE at(y) == NullLast(y.updated)
           R == {p \in S \X S : at(p[1]) < at(p[2]) \/ (at(p[1]) = at(p[2]) /\ p[1].id < p[2].id)}
<1>1. \A y \in S : at(y) \in Int /\ y.id \in Int
  BY MasterAssumption DEF NullLast
<1> HIDE DEF at
<1>2. \A x, y \in S : <<x, y>> \in R <=> at(x) < at(y) \/ (at(x) = at(y) /\ x.id < y.id)
  OBVIOUS
<1>3. /\ \A x, y, z \in S : <<x, y>> \in R /\ <<y, z>> \in R => <<x, z>> \in R
      /\ \A x \in S : <<x, x>> \notin R
  <2> HIDE DEF R
  <2> QED
    BY <1>1, <1>2
<1>4. PICK x \in S : \A y \in S : <<x, y>> \notin R
  <2> HIDE DEF R
  <2> QED
    BY <1>3, MaximalExists
<1>5. ASSUME NEW y \in S PROVE ~ Precedes(<<at(x), x.id>>, <<at(y), y.id>>)
  BY <1>1, <1>2, <1>4, PrecedesTwo
<1> QED
  BY <1>5 DEF LastRevision, Last, at

\* What makes a stored table sound.
Timely(k, table) ==
    \A x \in table : \E e \in raw.ext[k] :
        e.id = x.source /\ x.available >= e.day
        /\ (e.updated # None => x.available >= e.updated)
Complete(k, table) ==
    \A e \in raw.ext[k] : Referred(k, e) # None =>
        \E x \in table : x.inst = Referred(k, e) /\ x.day = e.day

\* Rows of one key are of one instrument.
LEMMA KeyRefers ==
  ASSUME ExtensionFiles, NEW k \in DOMAIN raw.ext, NEW e \in raw.ext[k], NEW f \in raw.ext[k],
         SourceKey(k, e) = SourceKey(k, f)
  PROVE  Referred(k, e) = Referred(k, f) /\ e.day = f.day
<1>1. CASE k = "limit"
  <2>1. e.sid = f.sid /\ e.day = f.day
    BY <1>1 DEF SourceKey
  <2>2. e.symbol = f.symbol
    BY <1>1, <2>1 DEF ExtensionFiles
  <2> QED
    BY <1>1, <2>1, <2>2 DEF Referred, LimitReference
<1>2. CASE k = "margin"
  BY <1>2 DEF SourceKey, Referred, MarginReference
<1>3. CASE k = "intraday"
  BY <1>3 DEF SourceKey, Referred, IntradayReference
<1> QED
  BY <1>1, <1>2, <1>3 DEF ExtensionFiles

LEMMA ExtensionTimely ==
  ASSUME ExtensionFiles, NEW k \in DOMAIN raw.ext
  PROVE  Timely(k, Extension(k))
<1>1. SUFFICES ASSUME NEW x \in Extension(k)
               PROVE  \E e \in raw.ext[k] : e.id = x.source /\ x.available >= e.day
                                            /\ (e.updated # None => x.available >= e.updated)
  BY DEF Timely
<1>2. PICK e \in raw.ext[k] : x.source = e.id /\ x.available = Available(e)
  <2>1. PICK e \in Resolved(k) : x = [inst |-> Referred(k, e), day |-> e.day,
                                      available |-> Available(e), source |-> e.id]
    BY DEF Extension
  <2> QED
    BY <2>1 DEF Resolved
<1>3. e.day \in Int /\ e.updated \in Int \union {None}
  BY DEF ExtensionFiles
<1>4. Available(e) >= e.day /\ (e.updated # None => Available(e) >= e.updated)
  BY <1>3 DEF Available
<1> QED
  BY <1>2, <1>4

LEMMA ExtensionComplete ==
  ASSUME ExtensionFiles, NEW k \in DOMAIN raw.ext
  PROVE  Complete(k, Extension(k))
<1>1. SUFFICES ASSUME NEW e \in raw.ext[k], Referred(k, e) # None
               PROVE  \E x \in Extension(k) : x.inst = Referred(k, e) /\ x.day = e.day
  BY DEF Complete
<1> DEFINE same == {o \in raw.ext[k] : SourceKey(k, o) = SourceKey(k, e)}
<1>2. same # {} /\ IsFiniteSet(same) /\ \A y \in same : y.updated \in Int \union {None} /\ y.id \in Int
  <2>1. same \in SUBSET raw.ext[k] /\ e \in same
    OBVIOUS
  <2> QED
    BY <2>1, FS_Subset DEF ExtensionFiles
<1>3. LastRevision(same) \in same
  <2> HIDE DEF same
  <2> QED
    BY <1>2, LastRevisionOf
<1>4. PICK l \in raw.ext[k] : l = LastRevision(same) /\ SourceKey(k, l) = SourceKey(k, e)
  BY <1>3
<1>5. l \in Revised(k)
  <2>1. same = {o \in raw.ext[k] : SourceKey(k, o) = SourceKey(k, l)}
    BY <1>4
  <2> QED
    BY <1>4, <2>1 DEF Revised
<1>6. Referred(k, l) = Referred(k, e) /\ l.day = e.day
  BY <1>4, KeyRefers
<1>7. l \in Resolved(k)
  BY <1>1, <1>6 DEF Resolved, Unresolved
<1> DEFINE x == [inst |-> Referred(k, l), day |-> l.day, available |-> Available(l),
                 source |-> l.id]
<1>8. x \in Extension(k) /\ x.inst = Referred(k, l) /\ x.day = l.day
  BY <1>5, <1>7 DEF Extension
<1> HIDE DEF x
<1> QED
  BY <1>6, <1>8

ExtensionInv ==
    /\ ExtensionFiles
    /\ builder = "done" => \A k \in DOMAIN raw.ext :
           /\ ~ Duplicated(extension[k])
           /\ Timely(k, extension[k]) /\ Complete(k, extension[k])

LEMMA ExtensionStep ==
  ASSUME ExtensionInv, [TablesNext]_tablesVars
  PROVE  ExtensionInv'
<1>1. raw' = raw
  BY DEF TablesNext, BuildInstruments, RejectMaster, Preflight, BuildReference, PassMonth,
         BuildMonth, MarketDone, BuildValuation, BuildExtensions, tablesVars
<1>2. ExtensionFiles'
  BY <1>1 DEF ExtensionFiles, ExtensionInv
<1>3. CASE BuildExtensions
  <2>1. /\ UNCHANGED <<bySecurity, bySymbol>>
        /\ extension' = [k \in DOMAIN raw.ext |-> Extension(k)]
        /\ builder' = "done" => \A k \in DOMAIN raw.ext : ~ Duplicated(Extension(k))
    BY <1>3 DEF BuildExtensions, maps
  <2>2. SUFFICES ASSUME builder' = "done", NEW k \in DOMAIN raw.ext
                 PROVE  /\ ~ Duplicated(extension'[k])
                        /\ Timely(k, extension[k])' /\ Complete(k, extension[k])'
    BY <1>1, <1>2 DEF ExtensionInv, Duplicated
  <2>3. PICK table : table = Extension(k)
    OBVIOUS
  <2>4. extension'[k] = table
    BY <2>1, <2>3
  <2>5. ~ Duplicated(table) /\ Timely(k, table) /\ Complete(k, table)
    BY <2>1, <2>2, <2>3, ExtensionTimely, ExtensionComplete DEF ExtensionInv
  <2>6. \A e : Referred(k, e)' = Referred(k, e)
    BY <2>1 DEF Referred, LimitReference, MarginReference, IntradayReference, SecurityOf,
                SymbolOf, At
  <2>7. Timely(k, extension[k])'
    BY <1>1, <2>4, <2>5 DEF Timely
  <2>8. Complete(k, extension[k])'
    BY <1>1, <2>4, <2>5, <2>6 DEF Complete
  <2> QED
    BY <2>4, <2>5, <2>7, <2>8
<1>4. CASE UNCHANGED tablesVars
  <2>1. UNCHANGED <<raw, bySecurity, bySymbol, builder, extension>>
    BY <1>4 DEF tablesVars, maps
  <2>2. \A k, e : Referred(k, e)' = Referred(k, e)
    BY <2>1 DEF Referred, LimitReference, MarginReference, IntradayReference, SecurityOf,
                SymbolOf, At
  <2> QED
    BY <1>2, <2>1, <2>2 DEF ExtensionInv, Timely, Complete, Duplicated
<1>5. CASE TablesNext /\ ~ BuildExtensions
  <2>1. builder' # "done"
    BY <1>5 DEF TablesNext, BuildInstruments, RejectMaster, Preflight, BuildReference,
                PassMonth, BuildMonth, MarketDone, BuildValuation
  <2> QED
    BY <1>2, <2>1 DEF ExtensionInv
<1> QED
  BY <1>3, <1>4, <1>5

\* What is stored of an extension table is never visible before its last revision, has one
\* row of an instrument and a day, and stands for every source row an instrument was found
\* for, however often and in whatever order the rows were revised.
THEOREM ExtensionsAreSound == ExtensionFiles /\ TablesSpec => []ExtensionsSound
<1>1. ExtensionFiles /\ TablesInit => ExtensionInv
  BY DEF TablesInit, ExtensionInv
<1>2. ExtensionInv /\ [TablesNext]_tablesVars => ExtensionInv'
  BY ExtensionStep
<1>3. ExtensionInv => ExtensionsSound
  BY DEF ExtensionInv, ExtensionsSound, Timely, Complete
<1> QED
  BY <1>1, <1>2, <1>3, PTL DEF TablesSpec

=============================================================================
