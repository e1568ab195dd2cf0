------------------------- MODULE FactorCacheProofs --------------------------
(***************************************************************************)
(* The locking of the factor cache, for any number of processes, factors   *)
(* and requests: an entry has one producer at a time, and what looks       *)
(* published is whole.                                                     *)
(*                                                                         *)
(* Both hold as long as nobody unlinks the lock of a process that lives:   *)
(* whatever fails, is killed, purges, waits or takes over, and however     *)
(* many processes there are, it takes a broken live lock to have two       *)
(* producers of one entry.  The code can break one, by the race of the run *)
(* stale_lock or when a computation outlasts lock_timeout.                 *)
(***************************************************************************)
EXTENDS FactorCache, TLAPS

\* A lock that p breaks is that of a dead process.
TakesFromTheDead(p) ==
    Break(p) => \A l \in lock : l.key = Wanted(p) => pc[l.owner] = "dead"
OnlyDeadLocksBroken == \A p \in Procs : TakesFromTheDead(p)

Stages == {"idle", "exact", "scan", "verify", "load", "lock", "break", "reread", "dead"}
            \union Producing
\* f is a function of the processes.
PerProcess(f) == f = [p \in Procs |-> f[p]]

CacheTypeOK ==
    /\ pc \in [Procs -> Stages]
    /\ PerProcess(plan) /\ PerProcess(dep) /\ PerProcess(out)
    /\ PerProcess(from) /\ PerProcess(todo)
    /\ crashes \in 0 .. MaxCrashes

Holding(p) == [key |-> Wanted(p), owner |-> p]

\* A producer holds the lock of its entry, and there is one lock of an entry.
ProducersHold == \A p \in Procs : pc[p] \in Producing => Holding(p) \in lock
OneLock == \A l, m \in lock : l.key = m.key => l = m

LockInv == CacheTypeOK /\ ProducersHold /\ OneLock

LEMMA LockInit == Init => LockInv
BY CacheAssumption
   DEF Init, LockInv, CacheTypeOK, PerProcess, ProducersHold, OneLock, Stages, Producing

\* Of two that hold the locks of one entry, there is one.
LEMMA OneHolder == LockInv => OneProducer
<1> SUFFICES ASSUME LockInv, NEW p \in Procs, NEW q \in Procs, p # q,
                    pc[p] \in Producing, pc[q] \in Producing
             PROVE  Wanted(p) # Wanted(q)
  BY DEF OneProducer
<1>1. Holding(p) \in lock /\ Holding(q) \in lock
  BY DEF LockInv, ProducersHold
<1>2. Holding(p) # Holding(q)
  BY DEF Holding
<1> QED
  BY <1>1, <1>2 DEF LockInv, OneLock, Holding

\* A step that moves one process and leaves the locks alone.
LEMMA QuietStep ==
    ASSUME LockInv, NEW p \in Procs, CacheTypeOK', UNCHANGED lock,
           \A q \in Procs \ {p} : pc'[q] = pc[q] /\ plan'[q] = plan[q] /\ dep'[q] = dep[q],
           pc'[p] \in Producing => pc[p] \in Producing /\ plan'[p] = plan[p] /\ dep'[p] = dep[p]
    PROVE  LockInv'
<1>1. \A q \in Procs : pc'[q] \in Producing => pc[q] \in Producing /\ Holding(q)' = Holding(q)
  BY DEF Holding, Wanted
<1>2. ProducersHold'
  BY <1>1 DEF LockInv, ProducersHold
<1>3. OneLock'
  BY DEF LockInv, OneLock
<1> QED
  BY <1>2, <1>3 DEF LockInv

\* What a process does between its locks.
LEMMA QuietSteps ==
    ASSUME LockInv, NEW p \in Procs,
           \/ Ask(p) \/ LookForEntry(p) \/ FindBroader(p) \/ Miss(p) \/ Verify(p) \/ Load(p)
           \/ SeeCompleted(p) \/ SeeStale(p) \/ Reread(p) \/ GiveUpWaiting(p) \/ ComputeFails(p)
           \/ Open(p) \/ Close(p) \/ Describe(p) \/ PublishData(p) \/ PublishMeta(p)
           \/ PurgeData(p) \/ PurgeMeta(p) \/ Purged(p) \/ Cleanup(p) \/ Crash(p)
    PROVE  LockInv'
<1> USE CacheAssumption DEF LockInv, CacheTypeOK, PerProcess, Stages, Producing, Goto, disk, mind
<1>1. CASE Ask(p) \/ LookForEntry(p) \/ FindBroader(p)
  <2>1. CacheTypeOK'
    BY <1>1 DEF Ask, LookForEntry, FindBroader
  <2> QED
    BY <1>1, <2>1, QuietStep DEF Ask, LookForEntry, FindBroader
<1>2. CASE Miss(p) \/ GiveUpWaiting(p)
  <2>1. CacheTypeOK'
    BY <1>2 DEF Miss, GiveUpWaiting, GiveUp
  <2>2. pc'[p] \in {"idle", "lock"}
    BY <1>2 DEF Miss, GiveUpWaiting, GiveUp
  <2> QED
    BY <1>2, <2>1, <2>2, QuietStep DEF Miss, GiveUpWaiting, GiveUp
<1>3. CASE Verify(p) \/ Load(p) \/ Reread(p)
  <2>1. CacheTypeOK' /\ pc'[p] \in {"idle", "load", "exact", "verify"}
    <3>1. CASE Verify(p)
      BY <3>1 DEF Verify, GiveUp
    <3>2. CASE Load(p)
      BY <3>2 DEF Load, GiveUp, Deliver
    <3>3. CASE Reread(p)
      BY <3>3 DEF Reread, GiveUp, Deliver
    <3> QED
      BY <1>3, <3>1, <3>2, <3>3
  <2>2. /\ UNCHANGED <<lock, crashes>> /\ pc[p] # "dead"
        /\ \A q \in Procs \ {p} : pc'[q] = pc[q] /\ plan'[q] = plan[q] /\ dep'[q] = dep[q]
    <3>1. CASE Verify(p)
      BY <3>1 DEF Verify, GiveUp
    <3>2. CASE Load(p)
      BY <3>2 DEF Load, GiveUp, Deliver
    <3>3. CASE Reread(p)
      BY <3>3 DEF Reread, GiveUp, Deliver
    <3> QED
      BY <1>3, <3>1, <3>2, <3>3
  <2> QED
    BY <2>1, <2>2, QuietStep
<1>4. CASE SeeCompleted(p)
  <2>1. CacheTypeOK'
    BY <1>4 DEF SeeCompleted
  <2> QED
    BY <1>4, <2>1, QuietStep DEF SeeCompleted
<1>5. CASE SeeStale(p)
  <2>1. CacheTypeOK'
    BY <1>5 DEF SeeStale
  <2> QED
    BY <1>5, <2>1, QuietStep DEF SeeStale
<1>6. CASE ComputeFails(p) \/ Purged(p)
  <2>1. CacheTypeOK'
    BY <1>6 DEF ComputeFails, Purged, Raise
  <2> QED
    BY <1>6, <2>1, QuietStep DEF ComputeFails, Purged, Raise
<1>7. CASE Open(p) \/ Close(p)
  <2>1. CacheTypeOK'
    BY <1>7 DEF Open, Close
  <2> QED
    BY <1>7, <2>1, QuietStep DEF Open, Close
<1>8. CASE Describe(p) \/ PublishData(p) \/ PublishMeta(p)
  <2>1. CacheTypeOK' /\ pc[p] \in Producing /\ pc'[p] \in Producing
    BY <1>8 DEF Describe, PublishData, PublishMeta, Raise, Replace
  <2> QED
    BY <1>8, <2>1, QuietStep DEF Describe, PublishData, PublishMeta, Raise
<1>9. CASE PurgeData(p) \/ PurgeMeta(p) \/ Cleanup(p)
  <2>1. CacheTypeOK' /\ pc[p] \in Producing /\ pc'[p] \in Producing
    BY <1>9 DEF PurgeData, PurgeMeta, Cleanup, Unlink
  <2>2. /\ \A q \in Procs \ {p} : pc'[q] = pc[q]
        /\ UNCHANGED <<lock, plan, dep, crashes>>
    BY <1>9 DEF PurgeData, PurgeMeta, Cleanup
  <2> QED
    BY <2>1, <2>2, QuietStep
<1>10. CASE Crash(p)
  <2>1. crashes' \in 0 .. MaxCrashes /\ pc' \in [Procs -> Stages]
    BY <1>10 DEF Crash
  <2>2. CacheTypeOK'
    BY <1>10, <2>1 DEF Crash
  <2> QED
    BY <1>10, <2>1, <2>2, QuietStep DEF Crash
<1> QED
  BY <1>1, <1>2, <1>3, <1>4, <1>5, <1>6, <1>7, <1>8, <1>9, <1>10

\* A lock is created only where there is none of the entry.
LEMMA TryLockStep ==
    ASSUME LockInv, NEW p \in Procs, TryLock(p) PROVE LockInv'
<1> USE CacheAssumption DEF LockInv, CacheTypeOK, PerProcess, Stages, Producing, Goto
<1>1. UNCHANGED <<plan, dep, out, from, todo, crashes>>
  BY DEF TryLock, disk, mind
<1>2. CacheTypeOK'
  BY <1>1 DEF TryLock
<1>3. \A q \in Procs : Holding(q)' = Holding(q)
  BY <1>1 DEF Holding, Wanted
<1>4. lock' = lock \union {Holding(p)} /\ \A l \in lock : l.key # Wanted(p)
  BY DEF TryLock, Holding, Locked
<1>5. ProducersHold'
  BY <1>3, <1>4 DEF ProducersHold, TryLock
<1>6. OneLock'
  BY <1>4 DEF OneLock, Holding
<1> QED
  BY <1>2, <1>5, <1>6

\* Who removes the locks of an entry is alone with it: nobody else produces it.
LEMMA RemovingStep ==
    ASSUME LockInv, NEW p \in Procs, CacheTypeOK',
           lock' = {l \in lock : l.key # Wanted(p)},
           \A q \in Procs \ {p} : pc'[q] = pc[q] /\ plan'[q] = plan[q] /\ dep'[q] = dep[q],
           \A q \in Procs \ {p} : pc[q] \in Producing => Wanted(q) # Wanted(p),
           pc'[p] \notin Producing
    PROVE  LockInv'
<1> USE DEF LockInv, Producing
<1>1. \A q \in Procs \ {p} : Holding(q)' = Holding(q) /\ Wanted(q)' = Wanted(q)
  BY DEF Holding, Wanted
<1>2. ProducersHold'
  BY <1>1 DEF ProducersHold, Holding
<1>3. OneLock'
  BY DEF OneLock
<1> QED
  BY <1>2, <1>3

\* Where the owners of an entry's lock are dead, nobody produces the entry.
LEMMA BreakStep ==
    ASSUME LockInv, NEW p \in Procs, Break(p), TakesFromTheDead(p) PROVE LockInv'
<1> USE CacheAssumption DEF LockInv, CacheTypeOK, PerProcess, Stages, Producing, Goto
<1>1. UNCHANGED <<plan, dep, out, from, todo, crashes>> /\ CacheTypeOK'
  BY DEF Break, disk, mind
<1>2. \A q \in Procs \ {p} : pc[q] \in Producing => Wanted(q) # Wanted(p)
  BY DEF TakesFromTheDead, ProducersHold, Holding
<1> QED
  BY <1>1, <1>2, RemovingStep DEF Break

LEMMA UnlockStep ==
    ASSUME LockInv, NEW p \in Procs, Unlock(p) PROVE LockInv'
<1> USE CacheAssumption DEF LockInv, CacheTypeOK, PerProcess, Stages, Producing, Goto
<1>1. UNCHANGED <<out, from, todo, crashes>> /\ CacheTypeOK'
  BY DEF Unlock, disk, Deliver, GiveUp
<1>2. pc[p] = "unlock" /\ pc'[p] \in {"idle", "exact"}
  BY DEF Unlock, Deliver, GiveUp
<1>3. \A q \in Procs \ {p} : pc[q] \in Producing => Wanted(q) # Wanted(p)
  BY <1>2, OneHolder DEF OneProducer
<1>4. \A q \in Procs \ {p} : pc'[q] = pc[q] /\ plan'[q] = plan[q] /\ dep'[q] = dep[q]
  BY DEF Unlock, Deliver, GiveUp
<1> QED
  BY <1>1, <1>2, <1>3, <1>4, RemovingStep DEF Unlock

LEMMA LockStep ==
    LockInv /\ [Next /\ OnlyDeadLocksBroken]_vars => LockInv'
<1> SUFFICES ASSUME LockInv, [Next /\ OnlyDeadLocksBroken]_vars PROVE LockInv'
  OBVIOUS
<1>1. CASE UNCHANGED vars
  BY <1>1 DEF vars, disk, mind, LockInv, CacheTypeOK, PerProcess, ProducersHold, OneLock,
              Holding, Wanted
<1> QED
  BY <1>1, QuietSteps, TryLockStep, BreakStep, UnlockStep DEF Next, Proceed, OnlyDeadLocksBroken

\* It takes a broken live lock to have two producers of one entry: failures, kills, purges,
\* waits and takeovers of dead locks never do, among any number of processes (_acquire).
THEOREM OneProducerUnlessLiveLockBroken ==
    Spec /\ [][OnlyDeadLocksBroken]_vars => []OneProducer
<1>1. [Next]_vars /\ [OnlyDeadLocksBroken]_vars => [Next /\ OnlyDeadLocksBroken]_vars
  OBVIOUS
<1> QED
  BY <1>1, OneHolder, LockInit, LockStep, PTL DEF Spec

-----------------------------------------------------------------------------
(* What looks published is whole.                                           *)

\* Only temporary data is ever torn; it is its producer's who writes it, and whole from
\* the moment the producer has closed it.
TornIsTemporary == \A f \in torn : f.kind = "tmp.parquet"
WriterHasItOpen == \A p \in Procs : pc[p] = "write" => out[p] = TmpData(Wanted(p))
ClosedIsWhole ==
    \A p \in Procs : pc[p] \in {"sign", "publish_data"} => TmpData(Wanted(p)) \notin torn
PurgesMetadata ==
    \A p \in Procs :
        /\ \A f \in todo[p] : IsMeta(f)
        /\ pc[p] = "purge_meta" => IsMeta(from[p])

WholeInv == TornIsTemporary /\ WriterHasItOpen /\ ClosedIsWhole /\ PurgesMetadata

LEMMA PurgesMeta ==
    ASSUME WholeInv, NEW p \in Procs
    PROVE  (\A f \in todo[p] : IsMeta(f)) /\ (pc[p] = "purge_meta" => IsMeta(from[p]))
BY DEF WholeInv, PurgesMetadata

LEMMA WholeInit == Init => WholeInv
BY DEF Init, WholeInv, TornIsTemporary, WriterHasItOpen, ClosedIsWhole, PurgesMetadata

LEMMA WholeIsIntact == WholeInv => PublishedIntact
BY DEF WholeInv, TornIsTemporary, PublishedIntact, IsMeta, Data

\* A step of p that tears nothing and closes nothing.
LEMMA WholeStays ==
    ASSUME WholeInv, NEW p \in Procs, CacheTypeOK, torn' \subseteq torn,
           \A q \in Procs \ {p} :
                /\ pc'[q] = pc[q] /\ plan'[q] = plan[q] /\ dep'[q] = dep[q]
                /\ from'[q] = from[q] /\ todo'[q] = todo[q]
                /\ pc[q] = "write" => out'[q] = out[q],
           pc'[p] # "write",
           pc'[p] \in {"sign", "publish_data"} => TmpData(Wanted(p)') \notin torn',
           \A f \in todo'[p] : IsMeta(f), pc'[p] = "purge_meta" => IsMeta(from'[p])
    PROVE  WholeInv'
<1>1. \A q \in Procs \ {p} : Wanted(q)' = Wanted(q)
  BY DEF Wanted
<1>2. TornIsTemporary'
  BY DEF WholeInv, TornIsTemporary
<1>3. WriterHasItOpen'
  BY <1>1 DEF WholeInv, WriterHasItOpen, TmpData
<1>4. ClosedIsWhole'
  BY <1>1 DEF WholeInv, ClosedIsWhole, TmpData
<1>5. PurgesMetadata'
  BY DEF WholeInv, PurgesMetadata, IsMeta
<1> QED
  BY <1>2, <1>3, <1>4, <1>5 DEF WholeInv

\* Steps that touch no file but, at a kill, what the process had open.
LEMMA FilelessSteps ==
    ASSUME LockInv, WholeInv, NEW p \in Procs,
           \/ Ask(p) \/ LookForEntry(p) \/ FindBroader(p) \/ Miss(p) \/ Verify(p) \/ Load(p)
           \/ TryLock(p) \/ SeeCompleted(p) \/ SeeStale(p) \/ Break(p) \/ Reread(p)
           \/ GiveUpWaiting(p) \/ ComputeFails(p) \/ Purged(p) \/ Unlock(p) \/ Crash(p)
    PROVE  WholeInv'
<1> USE DEF LockInv, CacheTypeOK, PerProcess, Goto, disk, mind
<1>0. \A f \in todo[p] : IsMeta(f)
  BY PurgesMeta
<1>1. CASE Ask(p) \/ LookForEntry(p) \/ FindBroader(p)
  BY <1>0, <1>1, WholeStays DEF Ask, LookForEntry, FindBroader
<1>2. CASE Miss(p) \/ GiveUpWaiting(p)
  BY <1>0, <1>2, WholeStays DEF Miss, GiveUpWaiting, GiveUp
<1>3. CASE Verify(p) \/ Load(p) \/ Reread(p)
  BY <1>0, <1>3, WholeStays DEF Verify, Load, Reread, GiveUp, Deliver
<1>4. CASE TryLock(p) \/ SeeCompleted(p) \/ SeeStale(p) \/ Break(p)
  BY <1>0, <1>4, WholeStays DEF TryLock, SeeCompleted, SeeStale, Break
<1>5. CASE ComputeFails(p) \/ Purged(p)
  BY <1>0, <1>5, WholeStays DEF ComputeFails, Purged, Raise
<1>6. CASE Unlock(p)
  BY <1>0, <1>6, WholeStays DEF Unlock, Deliver, GiveUp
<1>7. CASE Crash(p)
  BY <1>0, <1>7, WholeStays DEF Crash
<1> QED
  BY <1>1, <1>2, <1>3, <1>4, <1>5, <1>6, <1>7

\* Opening truncates no other producer's file; closing makes the producer's own whole.
LEMMA OpenStep ==
    ASSUME LockInv, WholeInv, NEW p \in Procs, Open(p) PROVE WholeInv'
<1> USE DEF LockInv, CacheTypeOK, PerProcess, Goto, disk, mind, WholeInv
<1>1. /\ pc[p] = "compute" /\ pc' = [pc EXCEPT ![p] = "write"]
      /\ torn' = torn \union {TmpData(Wanted(p))}
      /\ out'[p] = TmpData(Wanted(p)) /\ UNCHANGED <<plan, dep, from, todo>>
      /\ \A q \in Procs \ {p} : out[q] # TmpData(Wanted(p)) => out'[q] = out[q]
  BY DEF Open
<1>2. \A q \in Procs : Wanted(q)' = Wanted(q)
  BY <1>1 DEF Wanted
<1>3. \A q \in Procs \ {p} :
        pc[q] \in Producing => TmpData(Wanted(q)) # TmpData(Wanted(p))
  BY <1>1, OneHolder DEF OneProducer, TmpData, Producing
<1>4. TornIsTemporary'
  BY <1>1 DEF TornIsTemporary, TmpData
<1>5. WriterHasItOpen'
  BY <1>1, <1>2, <1>3 DEF WriterHasItOpen, TmpData, Producing
<1>6. ClosedIsWhole'
  BY <1>1, <1>2, <1>3 DEF ClosedIsWhole, TmpData, Producing
<1>7. PurgesMetadata'
  BY <1>1 DEF PurgesMetadata, IsMeta
<1> QED
  BY <1>4, <1>5, <1>6, <1>7

LEMMA CloseStep ==
    ASSUME LockInv, WholeInv, NEW p \in Procs, Close(p) PROVE WholeInv'
<1> USE DEF LockInv, CacheTypeOK, PerProcess, Goto, disk, mind
<1>1. Wanted(p)' = Wanted(p)
  BY DEF Close, Wanted
<1>2. TmpData(Wanted(p)) \notin torn'
  BY DEF Close, WholeInv, WriterHasItOpen
<1>3. \A f \in todo[p] : IsMeta(f)
  BY PurgesMeta
<1> QED
  BY <1>1, <1>2, <1>3, WholeStays DEF Close

\* What is signed and renamed is whole.
LEMMA PublishSteps ==
    ASSUME LockInv, WholeInv, NEW p \in Procs,
           Describe(p) \/ PublishData(p) \/ PublishMeta(p)
    PROVE  WholeInv'
<1> USE DEF LockInv, CacheTypeOK, PerProcess, Goto, disk, mind
<1> DEFINE w == Wanted(p)
<1>0. \A f \in todo[p] : IsMeta(f)
  BY PurgesMeta
<1>1. \A q \in Procs \ {p} : pc[q] = "write" =>
        /\ out[q] = TmpData(Wanted(q))
        /\ pc[p] \in Producing => TmpData(Wanted(q)) # TmpData(w)
        /\ TmpData(Wanted(q)) \notin {Data(w), Meta(w), TmpMeta(w)}
  BY OneHolder DEF OneProducer, WholeInv, WriterHasItOpen, TmpData, Data, Meta, TmpMeta, Producing
<1>2. TmpMeta(w) \notin torn
  BY DEF WholeInv, TornIsTemporary, TmpMeta
<1>3. CASE Describe(p)
  <2>1. TmpData(w) \notin torn
    BY <1>3 DEF Describe, WholeInv, ClosedIsWhole
  <2>2. torn' \subseteq torn /\ UNCHANGED <<plan, dep, out, from, todo>>
    BY <1>3, <2>1 DEF Describe, Raise
  <2>3. Wanted(p)' = w
    BY <2>2 DEF Wanted
  <2>4. pc'[p] \in {"publish_data", "cleanup"} /\ \A q \in Procs \ {p} : pc'[q] = pc[q]
    BY <1>3 DEF Describe, Raise
  <2> QED
    BY <1>0, <2>1, <2>2, <2>3, <2>4, WholeStays
<1>4. CASE PublishData(p)
  <2>1. TmpData(w) \notin torn /\ pc[p] \in Producing
    BY <1>4 DEF PublishData, WholeInv, ClosedIsWhole, Producing
  <2>2. torn' \subseteq torn /\ UNCHANGED <<plan, dep, from, todo>>
    BY <1>4, <2>1 DEF PublishData, Raise, Replace
  <2>3. \A q \in Procs \ {p} : pc[q] = "write" => out'[q] = out[q]
    BY <1>1, <1>4, <2>1 DEF PublishData, Raise, Replace
  <2>4. pc'[p] \in {"publish_meta", "cleanup"} /\ \A q \in Procs \ {p} : pc'[q] = pc[q]
    BY <1>4 DEF PublishData, Raise
  <2> QED
    BY <1>0, <2>1, <2>2, <2>3, <2>4, WholeStays
<1>5. CASE PublishMeta(p)
  <2>1. pc[p] \in Producing
    BY <1>5 DEF PublishMeta, Producing
  <2>2. torn' \subseteq torn /\ UNCHANGED <<plan, dep, from>>
    BY <1>2, <1>5 DEF PublishMeta, Raise, Replace
  <2>3. \A q \in Procs \ {p} : pc[q] = "write" => out'[q] = out[q]
    BY <1>1, <1>5, <2>1 DEF PublishMeta, Raise, Replace
  <2>4. /\ pc'[p] \in {"purge", "cleanup"}
        /\ \A q \in Procs \ {p} : pc'[q] = pc[q] /\ todo'[q] = todo[q]
        /\ \A f \in todo'[p] : IsMeta(f)
    BY <1>0, <1>5 DEF PublishMeta, Raise, Outdated
  <2> QED
    BY <2>1, <2>2, <2>3, <2>4, WholeStays
<1> QED
  BY <1>3, <1>4, <1>5

\* What is removed is never what another producer has open.
LEMMA RemovalSteps ==
    ASSUME LockInv, WholeInv, NEW p \in Procs, PurgeData(p) \/ PurgeMeta(p) \/ Cleanup(p)
    PROVE  WholeInv'
<1> USE DEF LockInv, CacheTypeOK, PerProcess, Goto, disk, mind
<1>0. \A f \in todo[p] : IsMeta(f)
  BY PurgesMeta
<1>1. \A q \in Procs \ {p} : pc[q] = "write" =>
        /\ out[q].kind = "tmp.parquet"
        /\ pc[p] \in Producing => out[q] # TmpData(Wanted(p))
  BY OneHolder DEF OneProducer, WholeInv, WriterHasItOpen, TmpData, Producing
<1>2. CASE PurgeData(p)
  <2>1. PICK f \in todo[p] :
          /\ todo' = [todo EXCEPT ![p] = @ \ {f}]
          /\ IF f \notin files THEN UNCHANGED <<disk, from, pc>>
             ELSE /\ Unlink({Data(f.key)})
                  /\ from' = [from EXCEPT ![p] = f]
                  /\ Goto(p, "purge_meta")
    BY <1>2 DEF PurgeData
  <2>2. torn' \subseteq torn
    BY <2>1 DEF Unlink
  <2>3. \A q \in Procs \ {p} : pc[q] = "write" => out'[q] = out[q]
    BY <1>1, <2>1 DEF Unlink, Data
  <2>4. /\ UNCHANGED <<plan, dep>> /\ pc[p] = "purge" /\ pc'[p] \in {"purge", "purge_meta"}
        /\ \A q \in Procs \ {p} : pc'[q] = pc[q] /\ todo'[q] = todo[q] /\ from'[q] = from[q]
    BY <1>2, <2>1 DEF PurgeData
  <2>5. todo'[p] \subseteq todo[p] /\ (pc'[p] = "purge_meta" => from'[p] = f)
    BY <2>1, <2>4
  <2> QED
    BY <1>0, <2>2, <2>3, <2>4, <2>5, WholeStays
<1>3. CASE PurgeMeta(p)
  <2>1. IsMeta(from[p])
    BY <1>3, PurgesMeta DEF PurgeMeta
  <2>2. \A q \in Procs \ {p} : pc[q] = "write" => out'[q] = out[q]
    BY <1>1, <1>3, <2>1 DEF PurgeMeta, Unlink, IsMeta
  <2> QED
    BY <1>0, <1>3, <2>2, WholeStays DEF PurgeMeta, Unlink
<1>4. CASE Cleanup(p)
  <2>1. \A q \in Procs \ {p} : pc[q] = "write" => out'[q] = out[q]
    BY <1>1, <1>4 DEF Cleanup, Unlink, TmpMeta, Producing
  <2> QED
    BY <1>0, <1>4, <2>1, WholeStays DEF Cleanup, Unlink
<1> QED
  BY <1>2, <1>3, <1>4

\* An entry that looks valid is whole: no failure, kill, purge or other producer leaves
\* torn data under a name that readers take, unless a live lock is broken.
THEOREM PublishedIsIntact ==
    Spec /\ [][OnlyDeadLocksBroken]_vars => []PublishedIntact
<1>1. LockInv /\ WholeInv /\ [Next]_vars => WholeInv'
  <2>1. CASE UNCHANGED vars
    BY <2>1 DEF vars, disk, mind, WholeInv, TornIsTemporary, WriterHasItOpen, ClosedIsWhole,
                PurgesMetadata, Wanted
  <2> QED
    BY <2>1, FilelessSteps, OpenStep, CloseStep, PublishSteps, RemovalSteps DEF Next, Proceed
<1>2. [Next]_vars /\ [OnlyDeadLocksBroken]_vars => [Next /\ OnlyDeadLocksBroken]_vars
  OBVIOUS
<1> QED
  BY <1>1, <1>2, WholeIsIntact, WholeInit, LockInit, LockStep, PTL DEF Spec
=============================================================================
