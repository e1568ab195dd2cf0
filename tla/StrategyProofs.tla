--------------------------- MODULE StrategyProofs ---------------------------
(***************************************************************************)
(* Proofs about the strategies.                                            *)
(*                                                                         *)
(* Part 1, Cohorts: for both strategies, every timing, any calendar, any   *)
(* delay of sales and any fills, no cohort is half entered; and the        *)
(* example strategy never holds what has no exit on its way.               *)
(*                                                                         *)
(* Part 2, ModelTraining: for either way to split, any calendar and any    *)
(* suspension, no model learns from the days it is judged on, and no       *)
(* signal of any timing rests on a model from after its cutoff.            *)
(*                                                                         *)
(* Part 3, StrategyPipeline: whatever a constructor proposes and whatever  *)
(* is held, a target keeps the rules of the portfolio.                     *)
(***************************************************************************)
EXTENDS StrategyPipeline, Cohorts, ModelTraining, NettingProofs

-----------------------------------------------------------------------------
\* Part 1.  The inductive invariant of the cohorts.

Steps == {"open", "close", "decide", "night"}

\* The decision of the session is over.
Decided == step = "night" \/ (timing = "same_close" /\ step = "close")

\* A cohort bears the day of its signal: today's is there once it is decided.
Issued(c) == c \in 1 .. session /\ (c = session => Decided)

CohortTypeOK ==
    /\ kind \in {"guide", "ema20"}
    /\ timing \in {"next_open", "next_close", "same_close"}
    /\ session \in 1 .. Sessions /\ step \in Steps

\* No leg of a cohort is queued or executed if one was skipped.
LegsTogether ==
    /\ \A l \in queue : Issued(l.cohort) /\ l.cohort \notin skipped
    /\ \A c \in entered \union skipped : Issued(c)
    /\ entered \intersect skipped = {}

\* The book of the example strategy: a cohort is entered a session after its
\* signal and left the session after that, and no two want the same code.
BookKept ==
    /\ skipped = {}
    /\ \A c \in DOMAIN book :
          /\ Issued(c)
          /\ book[c] = [entry |-> c + 1, exit |-> c + 2, symbols |-> book[c].symbols]
          /\ c + 2 <= Sessions
    /\ \A c, d \in DOMAIN book :
          c # d => book[c].symbols \intersect book[d].symbols = {}

\* What is held is in the book, and entries are queued for the coming open only.
HeldInBook ==
    /\ \A k \in DOMAIN held :
          /\ k = <<k[1], k[2]>> /\ k[1] < session
          /\ k[1] \in DOMAIN book /\ k[2] \in book[k[1]].symbols
    /\ \A l \in queue : l.phase = "open" =>
          /\ l.cohort \in DOMAIN book /\ l.on = l.cohort + 1
          /\ l.codes \subseteq book[l.cohort].symbols
          /\ l.on >= session /\ (step # "open" => l.on > session)

\* Cohort c has an exit of code x queued for a session.
ExitQueued(c, x, on) ==
    \E l \in queue : l.cohort = c /\ l.phase = "close" /\ x \in l.codes /\ l.on = on

\* Before its first exit a cohort has that exit queued; once decided, whatever
\* is held has an exit after this session, and at the next open still has it.
ExitsAhead ==
    /\ \A c \in DOMAIN book : \A x \in book[c].symbols :
          session < c + 2 => ExitQueued(c, x, c + 2)
    /\ Decided /\ session < Sessions =>
          \A k \in DOMAIN held : \/ ExitQueued(k[1], k[2], session + 1)
                                 \/ session < k[1] + 2
    /\ step = "open" =>
          \A k \in DOMAIN held : \/ ExitQueued(k[1], k[2], session)
                                 \/ ExitQueued(k[1], k[2], k[1] + 2)

Ema20Inv == kind = "ema20" => BookKept /\ HeldInBook /\ ExitsAhead
CohortInv == CohortTypeOK /\ LegsTogether /\ Ema20Inv

LEMMA CohortsInitInv == CohortsInit => CohortInv
BY CohortsAssumption
   DEF CohortsInit, CohortInv, CohortTypeOK, LegsTogether, Ema20Inv, BookKept,
       HeldInBook, ExitsAhead, Steps, Decided

\* The day goes on, and a decision once taken stays taken for the day.
LEMMA StepFollows ==
  ASSUME CohortTypeOK, step # "night", step' = Following, UNCHANGED <<kind, timing, session>>
  PROVE  /\ CohortTypeOK' /\ step' # "open"
         /\ Decided => Decided'
         /\ step # "decide" => (Decided' => Decided)
         /\ step = "decide" => Decided' /\ ~ Decided
<1>1. CASE step = "open"
  BY <1>1 DEF CohortTypeOK, Following, Steps, Decided
<1>2. CASE step = "decide"
  BY <1>2 DEF CohortTypeOK, Following, Steps, Decided
<1>3. CASE step = "close"
  BY <1>3 DEF CohortTypeOK, Following, Steps, Decided
<1>4. QED
  BY <1>1, <1>2, <1>3 DEF CohortTypeOK, Steps

\* A step that executes the legs that are due in a phase.
LEMMA ExecutionInv ==
  ASSUME CohortInv, NEW phase \in {"open", "close"}, step = phase,
         step' = Following, queue' = queue \ Due(phase),
         entered' = entered \union {l.cohort : l \in Due(phase)},
         UNCHANGED <<kind, timing, session, book, skipped>>
  PROVE  /\ CohortTypeOK' /\ LegsTogether'
         /\ kind = "ema20" => BookKept'
         /\ step' # "open" /\ (Decided' => Decided)
         /\ \A c : Issued(c) => Issued(c)'
<1>1. /\ CohortTypeOK' /\ step' # "open" /\ (Decided => Decided') /\ (Decided' => Decided)
  BY StepFollows DEF CohortInv
<1>2. \A c : Issued(c) => Issued(c)'
  BY <1>1 DEF Issued
<1>3. \A l \in Due(phase) : l \in queue
  BY DEF Due
<1>4. LegsTogether'
  BY <1>2, <1>3 DEF CohortInv, LegsTogether
<1>5. kind = "ema20" => BookKept'
  BY <1>2 DEF CohortInv, Ema20Inv, BookKept
<1>6. QED
  BY <1>1, <1>2, <1>4, <1>5

\* Entries fill the books of the cohorts they were decided for.
LEMMA EntriesInv ==
  ASSUME CohortInv, ExecuteEntries
  PROVE  CohortInv'
<1>1. PICK fill \in [UNION {{<<l.cohort, c>> : c \in l.codes} : l \in Due("open")} -> 0 .. Lots] :
          held' = [k \in DOMAIN held \union {j \in DOMAIN fill : fill[j] > 0} |->
                        IF k \in DOMAIN fill THEN fill[k] ELSE held[k]]
  BY DEF ExecuteEntries
<1>2. /\ step = "open" /\ step' = Following /\ queue' = queue \ Due("open")
      /\ entered' = entered \union {l.cohort : l \in Due("open")}
      /\ UNCHANGED <<kind, timing, session, book, skipped>>
  BY DEF ExecuteEntries
<1>3. /\ CohortTypeOK' /\ LegsTogether' /\ (kind = "ema20" => BookKept')
      /\ step' # "open" /\ (Decided' => Decided) /\ \A c : Issued(c) => Issued(c)'
  BY <1>2, ExecutionInv
<1>4. ASSUME kind = "ema20" PROVE HeldInBook' /\ ExitsAhead'
  <2>0. BookKept /\ HeldInBook /\ ExitsAhead /\ session \in Nat
    BY <1>4 DEF CohortInv, Ema20Inv, CohortTypeOK
  <2>1. ASSUME NEW k \in DOMAIN held'
        PROVE  /\ k = <<k[1], k[2]>> /\ k[1] < session
               /\ k[1] \in DOMAIN book /\ k[2] \in book[k[1]].symbols
    <3>1. CASE k \in DOMAIN held
      BY <2>0, <3>1 DEF HeldInBook
    <3>2. CASE k \in DOMAIN fill
      <4>1. PICK l \in Due("open") : \E c \in l.codes : k = <<l.cohort, c>>
        BY <3>2
      <4>2. PICK c \in l.codes : k = <<l.cohort, c>>
        BY <4>1
      <4>3. l \in queue /\ l.phase = "open" /\ l.on = session
        BY DEF Due
      <4>4. /\ l.cohort \in DOMAIN book /\ l.on = l.cohort + 1
            /\ l.codes \subseteq book[l.cohort].symbols
        BY <2>0, <4>3 DEF HeldInBook
      <4>5. l.cohort \in Nat
        BY <2>0, <4>4 DEF BookKept, Issued
      <4>6. l.cohort < session
        BY <4>3, <4>4, <4>5
      <4>7. QED
        BY <4>2, <4>4, <4>6
    <3>3. QED
      BY <1>1, <3>1, <3>2
  <2>2. ASSUME NEW l \in queue', l.phase = "open"
        PROVE  /\ l.cohort \in DOMAIN book /\ l.on = l.cohort + 1
               /\ l.codes \subseteq book[l.cohort].symbols
               /\ l.on > session /\ l.on >= session
    <3>1. l \in queue /\ l \notin Due("open")
      BY <1>2
    <3>2. /\ l.cohort \in DOMAIN book /\ l.on = l.cohort + 1 /\ l.on >= session
          /\ l.codes \subseteq book[l.cohort].symbols
      BY <2>0, <2>2, <3>1 DEF HeldInBook
    <3>3. l.on # session
      BY <2>2, <3>1 DEF Due
    <3>4. l.cohort \in Nat
      BY <2>0, <3>2 DEF BookKept, Issued
    <3>5. QED
      BY <2>0, <3>2, <3>3, <3>4
  <2>3. HeldInBook'
    BY <1>2, <2>1, <2>2 DEF HeldInBook
  <2>4. ASSUME NEW c \in DOMAIN book, NEW x \in book[c].symbols, session < c + 2
        PROVE  ExitQueued(c, x, c + 2)'
    <3>1. ExitQueued(c, x, c + 2)
      BY <2>0, <2>4 DEF ExitsAhead
    <3>2. PICK l \in queue : /\ l.cohort = c /\ l.phase = "close" /\ x \in l.codes
                             /\ l.on = c + 2
      BY <3>1 DEF ExitQueued
    <3>3. l \in queue'
      BY <1>2, <3>2 DEF Due
    <3>4. QED
      BY <3>2, <3>3 DEF ExitQueued
  <2>5. ~ Decided'
    BY <1>2, <1>3 DEF Decided
  <2>6. ExitsAhead'
    BY <1>2, <1>3, <2>4, <2>5 DEF ExitsAhead
  <2>7. QED
    BY <2>3, <2>6
<1>5. QED
  BY <1>2, <1>3, <1>4 DEF CohortInv, Ema20Inv

\* Exits only take from what is held, and leave the exits of later sessions.
LEMMA ExitsInv ==
  ASSUME CohortInv, ExecuteExits
  PROVE  CohortInv'
<1>1. DOMAIN held' \subseteq DOMAIN held
  BY DEF ExecuteExits, RestrictValues, Restrict
<1>2. /\ step = "close" /\ step' = Following /\ queue' = queue \ Due("close")
      /\ entered' = entered \union {l.cohort : l \in Due("close")}
      /\ UNCHANGED <<kind, timing, session, book, skipped>>
  BY DEF ExecuteExits
<1>3. /\ CohortTypeOK' /\ LegsTogether' /\ (kind = "ema20" => BookKept')
      /\ step' # "open" /\ (Decided' => Decided) /\ \A c : Issued(c) => Issued(c)'
  BY <1>2, ExecutionInv
<1>4. ASSUME kind = "ema20" PROVE HeldInBook' /\ ExitsAhead'
  <2>0. BookKept /\ HeldInBook /\ ExitsAhead /\ session \in Nat
    BY <1>4 DEF CohortInv, Ema20Inv, CohortTypeOK
  <2>1. HeldInBook'
    BY <1>1, <1>2, <2>0 DEF HeldInBook
  <2>2. ASSUME NEW c, NEW x, NEW t \in Nat, session < t, ExitQueued(c, x, t)
        PROVE  ExitQueued(c, x, t)'
    <3>1. PICK l \in queue : /\ l.cohort = c /\ l.phase = "close" /\ x \in l.codes
                             /\ l.on = t
      BY <2>2 DEF ExitQueued
    <3>2. l.on # session
      BY <2>0, <2>2, <3>1
    <3>3. l \in queue'
      BY <1>2, <3>1, <3>2 DEF Due
    <3>4. QED
      BY <3>1, <3>3 DEF ExitQueued
  <2>3. ASSUME NEW c \in DOMAIN book, NEW x \in book[c].symbols, session < c + 2
        PROVE  ExitQueued(c, x, c + 2)'
    <3>1. c + 2 \in Nat
      BY <2>0 DEF BookKept, Issued
    <3>2. ExitQueued(c, x, c + 2)
      BY <2>0, <2>3 DEF ExitsAhead
    <3>3. QED
      BY <2>2, <2>3, <3>1, <3>2
  <2>4. ASSUME Decided', session < Sessions, NEW k \in DOMAIN held'
        PROVE  \/ \E t \in {session + 1} : ExitQueued(k[1], k[2], t)'
               \/ session < k[1] + 2
    <3>1. PICK t \in Nat : t = session + 1
      BY <2>0
    <3>2. ExitQueued(k[1], k[2], t) \/ session < k[1] + 2
      BY <1>1, <1>3, <2>0, <2>4, <3>1 DEF ExitsAhead
    <3>3. session < t
      BY <2>0, <3>1
    <3>4. QED
      BY <2>2, <3>1, <3>2, <3>3
  <2>5. ExitsAhead'
    <3>1. session' = session /\ book' = book
      BY <1>2
    <3>2. Decided' /\ session' < Sessions =>
              \A k \in DOMAIN held' :
                  \/ ExitQueued(k[1], k[2], session + 1)'
                  \/ session' < k[1] + 2
      BY <2>4, <3>1 DEF ExitQueued
    <3>3. \A c \in DOMAIN book' : \A x \in book'[c].symbols :
              session' < c + 2 => ExitQueued(c, x, c + 2)'
      BY <2>3, <3>1
    <3>4. QED
      BY <1>3, <3>2, <3>3 DEF ExitsAhead
  <2>6. QED
    BY <2>1, <2>5
<1>5. QED
  BY <1>2, <1>3, <1>4 DEF CohortInv, Ema20Inv

\* Legs that all have a session left are all queued.
LEMMA AllQueued ==
  ASSUME NEW legs, \A l \in legs : l.on <= Sessions
  PROVE  Queued(legs) = legs
BY DEF Queued

\* The strategy of the guide: both legs of a decision, or none.
LEMMA GuideInv ==
  ASSUME CohortInv, step = "decide", GuideDecides, step' = Following,
         UNCHANGED <<kind, timing, session, held, entered>>
  PROVE  CohortInv'
<1>1. CohortTypeOK' /\ Decided' /\ ~ Decided /\ session \in 1 .. session
  BY StepFollows DEF CohortInv, CohortTypeOK
<1>2. PICK codes \in SUBSET Names, exit \in Exits :
          Enqueue(IF codes = {} THEN {}
                  ELSE {Leg(session, session + 1, "open", codes),
                        Leg(session, session + exit, "close", codes)})
  BY DEF GuideDecides
<1>3. PICK legs : /\ Enqueue(legs) /\ \A l \in legs : l.cohort = session
  BY <1>2 DEF Leg
<1>4. Queued(legs) = legs \/ Queued(legs) = {}
  BY <1>3 DEF Queued
<1>5. \A c : Issued(c) => Issued(c)' /\ c # session
  BY <1>1 DEF Issued
<1>6. Issued(session)'
  BY <1>1 DEF Issued
<1>7. session \notin skipped \union entered
  BY <1>5 DEF CohortInv, LegsTogether
<1>8. LegsTogether'
  <2>1. CASE Queued(legs) = legs
    <3>1. queue' = queue \union legs /\ skipped' = skipped
      BY <1>3, <2>1 DEF Enqueue
    <3>2. QED
      BY <1>3, <1>5, <1>6, <1>7, <3>1 DEF CohortInv, LegsTogether
  <2>2. CASE Queued(legs) = {}
    <3>1. queue' = queue /\ skipped' \subseteq skipped \union {session}
      BY <1>3, <2>2 DEF Enqueue
    <3>2. QED
      BY <1>5, <1>6, <1>7, <3>1 DEF CohortInv, LegsTogether
  <2>3. QED
    BY <1>4, <2>1, <2>2
<1>9. kind' # "ema20"
  BY DEF GuideDecides
<1>10. QED
  BY <1>1, <1>8, <1>9 DEF CohortInv, Ema20Inv

\* The example strategy enters only what has sessions for both legs, so all its
\* legs are queued; what of a cohort is still held stays in the book, and an
\* exit that has not been enough is tried again in the next session.
LEMMA Ema20Step ==
  ASSUME CohortInv, step = "decide", Ema20Decides
  PROVE  \E codes \in SUBSET Names :
            /\ codes \intersect HeldCodes = {}
            /\ codes # {} => session + 2 <= Sessions
            /\ queue' = queue \union Retries \union
                  (IF codes = {} THEN {}
                   ELSE {Leg(session, session + 1, "open", codes),
                         Leg(session, session + 2, "close", codes)})
            /\ skipped' = skipped
            /\ DOMAIN book' = Remaining \union (IF codes = {} THEN {} ELSE {session})
            /\ \A c \in Remaining : book'[c] = Kept(c)
            /\ codes # {} /\ session \notin Remaining =>
                  book'[session] = [entry |-> session + 1, exit |-> session + 2,
                                    symbols |-> codes]
<1>1. session \in Nat /\ Sessions \in Nat
  BY CohortsAssumption DEF CohortInv, CohortTypeOK
<1>2. PICK codes \in SUBSET (Names \ HeldCodes) :
        /\ Cardinality(codes) <= (IF session + 2 <= Sessions THEN Slots ELSE 0)
        /\ book' = [c \in Remaining \union (IF codes = {} THEN {} ELSE {session}) |->
                      IF c \in Remaining THEN [d \in Remaining |-> Kept(d)][c]
                      ELSE [entry |-> session + 1, exit |-> session + 2, symbols |-> codes]]
        /\ Enqueue(Retries \union
                  (IF codes = {} THEN {}
                   ELSE {Leg(session, session + 1, "open", codes),
                         Leg(session, session + 2, "close", codes)}))
  BY Zenon DEF Ema20Decides
<1>3. codes # {} => session + 2 <= Sessions
  <2> SUFFICES ASSUME codes # {}, ~ (session + 2 <= Sessions) PROVE FALSE
    OBVIOUS
  <2>1. IsFiniteSet(codes)
    BY CohortsAssumption, FS_Subset
  <2>2. Cardinality(codes) \in Nat /\ Cardinality(codes) # 0
    BY <2>1, FS_CardinalityType, FS_EmptySet
  <2>3. QED
    BY <1>2, <2>2
<1> DEFINE new == IF codes = {} THEN {}
                  ELSE {Leg(session, session + 1, "open", codes),
                        Leg(session, session + 2, "close", codes)}
<1>4. \A l \in Retries \union new : l.on <= Sessions
  <2>1. \A l \in Retries : l.on <= Sessions
    BY DEF Retries, Leg
  <2>2. \A l \in new : l.on <= Sessions
    BY <1>1, <1>3 DEF Leg
  <2>3. QED
    BY <2>1, <2>2
<1> HIDE DEF new
<1>5. queue' = queue \union Retries \union new /\ skipped' = skipped
  <2>1. Queued(Retries \union new) = Retries \union new
    BY <1>4, AllQueued
  <2>2. Enqueue(Retries \union new)
    BY <1>2 DEF new
  <2>3. QED
    BY <2>1, <2>2 DEF Enqueue
<1>6. QED
  BY <1>2, <1>3, <1>5 DEF new

\* At a decision every cohort of the book has been entered.
LEMMA KeptBook ==
  ASSUME CohortInv, step = "decide", kind = "ema20"
  PROVE  /\ \A c \in DOMAIN book : c \in Nat /\ c < session
         /\ \A c \in DOMAIN book :
              Kept(c) = [entry |-> c + 1, exit |-> c + 2,
                         symbols |-> book[c].symbols \intersect HeldCodes]
         /\ Remaining = {c \in DOMAIN book : book[c].symbols \intersect HeldCodes # {}}
<1>1. session \in Nat /\ BookKept /\ ~ Decided
  BY DEF CohortInv, CohortTypeOK, Ema20Inv, Decided
<1>2. \A c \in DOMAIN book : c \in Nat /\ c < session
  BY <1>1 DEF BookKept, Issued
<1>3. ASSUME NEW c \in DOMAIN book
      PROVE  /\ ~ (session < book[c].entry)
             /\ Kept(c) = [entry |-> c + 1, exit |-> c + 2,
                           symbols |-> book[c].symbols \intersect HeldCodes]
  <2>1. PICK symbols : book[c] = [entry |-> c + 1, exit |-> c + 2, symbols |-> symbols]
    BY <1>1 DEF BookKept
  <2>2. book[c].entry = c + 1 /\ book[c].symbols = symbols
    BY <2>1
  <2>3. ~ (session < book[c].entry)
    BY <1>1, <1>2, <2>2
  <2>4. Kept(c) = [book[c] EXCEPT !.symbols = symbols \intersect HeldCodes]
    BY <2>2, <2>3 DEF Kept
  <2>5. QED
    BY <2>1, <2>2, <2>3, <2>4
<1>4. QED
  BY <1>2, <1>3 DEF Remaining

LEMMA Ema20DecidesInv ==
  ASSUME CohortInv, step = "decide", Ema20Decides, step' = Following,
         UNCHANGED <<kind, timing, session, held, entered>>
  PROVE  CohortInv'
<1>0. /\ session \in Nat /\ Sessions \in Nat /\ session <= Sessions /\ kind = "ema20"
      /\ BookKept /\ HeldInBook /\ ExitsAhead /\ LegsTogether
  BY CohortsAssumption DEF CohortInv, CohortTypeOK, Ema20Inv, Ema20Decides
<1>1. CohortTypeOK' /\ step' # "open" /\ Decided' /\ ~ Decided
  BY StepFollows DEF CohortInv
<1>2. \A c : Issued(c) => Issued(c)' /\ c \in Nat /\ c < session
  BY <1>0, <1>1 DEF Issued
<1>3. session \in 1 .. session
  BY DEF CohortInv, CohortTypeOK
<1>4. Issued(session)'
  BY <1>1, <1>3 DEF Issued
<1>5. /\ \A c \in DOMAIN book :
           Kept(c) = [entry |-> c + 1, exit |-> c + 2,
                      symbols |-> book[c].symbols \intersect HeldCodes]
      /\ Remaining = {c \in DOMAIN book : book[c].symbols \intersect HeldCodes # {}}
  BY <1>0, KeptBook
<1>6. PICK codes \in SUBSET Names :
            /\ codes \intersect HeldCodes = {}
            /\ codes # {} => session + 2 <= Sessions
            /\ queue' = queue \union Retries \union
                  (IF codes = {} THEN {}
                   ELSE {Leg(session, session + 1, "open", codes),
                         Leg(session, session + 2, "close", codes)})
            /\ skipped' = skipped
            /\ DOMAIN book' = Remaining \union (IF codes = {} THEN {} ELSE {session})
            /\ \A c \in Remaining : book'[c] = Kept(c)
            /\ codes # {} /\ session \notin Remaining =>
                  book'[session] = [entry |-> session + 1, exit |-> session + 2,
                                    symbols |-> codes]
  BY Ema20Step
<1>7. session \notin DOMAIN book /\ session \notin Remaining
  BY <1>0, <1>2, <1>5 DEF BookKept
<1>8. ASSUME NEW c \in Remaining
      PROVE  /\ c \in DOMAIN book /\ c \in DOMAIN book'
             /\ book'[c] = [entry |-> c + 1, exit |-> c + 2, symbols |-> book'[c].symbols]
             /\ book'[c].symbols = book[c].symbols \intersect HeldCodes
  BY <1>5, <1>6
<1>9. ASSUME NEW c \in DOMAIN book', c \notin Remaining
      PROVE  /\ c = session /\ codes # {} /\ session + 2 <= Sessions
             /\ book'[c] = [entry |-> c + 1, exit |-> c + 2, symbols |-> codes]
  BY <1>6, <1>7, <1>9
<1>10. ASSUME NEW l \in Retries
       PROVE  l.cohort \in Remaining /\ l.on = session + 1 /\ l.phase = "close"
  BY DEF Retries, Leg
<1>11. ASSUME NEW l \in queue', l \notin queue, l \notin Retries
       PROVE  /\ l.cohort = session /\ l.codes = codes /\ session \in DOMAIN book'
              /\ l.phase = "open" => l.on = session + 1
  BY <1>6, <1>11 DEF Leg
<1>12. LegsTogether'
  <2>1. ASSUME NEW l \in queue' PROVE Issued(l.cohort)'
    <3>1. CASE l \in queue
      BY <1>0, <1>2, <3>1 DEF LegsTogether
    <3>2. CASE l \in Retries
      BY <1>0, <1>2, <1>8, <1>10, <3>2 DEF BookKept
    <3>3. CASE l \notin queue /\ l \notin Retries
      BY <1>4, <1>11, <3>3
    <3>4. QED
      BY <3>1, <3>2, <3>3
  <2>2. skipped' = {}
    BY <1>0, <1>6 DEF BookKept
  <2>3. QED
    BY <1>0, <1>2, <2>1, <2>2 DEF LegsTogether
<1>13. BookKept'
  <2>1. ASSUME NEW c \in DOMAIN book'
        PROVE  /\ Issued(c)' /\ c + 2 <= Sessions
               /\ book'[c] = [entry |-> c + 1, exit |-> c + 2, symbols |-> book'[c].symbols]
    <3>1. CASE c \in Remaining
      BY <1>0, <1>2, <1>8, <3>1 DEF BookKept
    <3>2. CASE c \notin Remaining
      BY <1>4, <1>9, <3>2
    <3>3. QED
      BY <3>1, <3>2
  <2>2. ASSUME NEW c \in DOMAIN book', NEW d \in DOMAIN book', c # d
        PROVE  book'[c].symbols \intersect book'[d].symbols = {}
    <3>1. CASE c \in Remaining /\ d \in Remaining
      <4>1. book[c].symbols \intersect book[d].symbols = {}
        BY <1>0, <1>8, <2>2, <3>1 DEF BookKept
      <4>2. /\ book'[c].symbols \subseteq book[c].symbols
            /\ book'[d].symbols \subseteq book[d].symbols
        BY <1>8, <3>1
      <4>3. QED
        BY <4>1, <4>2
    <3>2. CASE c \notin Remaining /\ d \in Remaining
      BY <1>6, <1>8, <1>9, <3>2
    <3>3. CASE c \in Remaining /\ d \notin Remaining
      BY <1>6, <1>8, <1>9, <3>3
    <3>4. CASE c \notin Remaining /\ d \notin Remaining
      BY <1>9, <2>2, <3>4
    <3>5. QED
      BY <3>1, <3>2, <3>3, <3>4
  <2>3. QED
    BY <1>0, <1>6, <2>1, <2>2 DEF BookKept
<1>14. ASSUME NEW k \in DOMAIN held
       PROVE  /\ k[1] \in Remaining /\ k[2] \in book[k[1]].symbols
              /\ k[2] \in book'[k[1]].symbols
  <2>1. k[1] \in DOMAIN book /\ k[2] \in book[k[1]].symbols
    BY <1>0 DEF HeldInBook
  <2>2. k[2] \in HeldCodes
    BY DEF HeldCodes
  <2>3. QED
    BY <1>5, <1>8, <2>1, <2>2
<1>15. HeldInBook'
  <2>1. ASSUME NEW k \in DOMAIN held'
        PROVE  /\ k = <<k[1], k[2]>> /\ k[1] < session'
               /\ k[1] \in DOMAIN book' /\ k[2] \in book'[k[1]].symbols
    BY <1>0, <1>8, <1>14 DEF HeldInBook
  <2>2. ASSUME NEW l \in queue', l.phase = "open"
        PROVE  /\ l.cohort \in DOMAIN book' /\ l.on = l.cohort + 1
               /\ l.codes \subseteq book'[l.cohort].symbols
               /\ l.on >= session' /\ l.on > session'
    <3>1. l \notin queue
      <4> SUFFICES ASSUME l \in queue PROVE FALSE
        OBVIOUS
      <4>1. l.cohort \in DOMAIN book /\ l.on = l.cohort + 1 /\ l.on > session
        BY <1>0, <2>2 DEF HeldInBook
      <4>2. l.cohort \in Nat /\ l.cohort < session
        BY <1>0, <1>2, <4>1 DEF BookKept
      <4>3. QED
        BY <1>0, <4>1, <4>2
    <3>2. l \notin Retries
      BY <1>10, <2>2
    <3>3. /\ l.cohort = session /\ l.codes = codes /\ session \in DOMAIN book'
          /\ l.on = session + 1
      BY <1>11, <2>2, <3>1, <3>2
    <3>4. book'[session].symbols = codes
      BY <1>7, <1>9, <3>3
    <3>5. QED
      BY <1>0, <3>3, <3>4
  <2>3. QED
    BY <2>1, <2>2 DEF HeldInBook
<1>16. ASSUME NEW c, NEW x, NEW t, ExitQueued(c, x, t)
       PROVE  ExitQueued(c, x, t)'
  BY <1>6, <1>16 DEF ExitQueued
<1>17. ASSUME NEW c \in DOMAIN book', NEW x \in book'[c].symbols, session < c + 2
       PROVE  ExitQueued(c, x, c + 2)'
  <2>1. CASE c \in Remaining
    <3>1. c \in DOMAIN book /\ x \in book[c].symbols
      BY <1>8, <2>1
    <3>2. ExitQueued(c, x, c + 2)
      BY <1>0, <1>17, <3>1 DEF ExitsAhead
    <3>3. QED
      BY <1>16, <3>2
  <2>2. CASE c \notin Remaining
    <3>1. c = session /\ codes # {} /\ x \in codes
      BY <1>9, <2>2
    <3>2. Leg(session, session + 2, "close", codes) \in queue'
      BY <1>6, <3>1
    <3>3. PICK l \in queue' : l.cohort = c /\ l.phase = "close" /\ l.codes = codes
                              /\ l.on = c + 2
      BY <3>1, <3>2 DEF Leg
    <3>4. QED
      BY <3>1, <3>3 DEF ExitQueued
  <2>3. QED
    BY <2>1, <2>2
<1>18. ASSUME session < Sessions, NEW k \in DOMAIN held
       PROVE  \/ \E t \in {session + 1} : ExitQueued(k[1], k[2], t)'
              \/ session < k[1] + 2
  <2>1. k[1] \in Remaining /\ k[1] \in DOMAIN book /\ k[2] \in Kept(k[1]).symbols
    BY <1>5, <1>6, <1>8, <1>14
  <2>2. CASE OnItsWay(book[k[1]])
    <3>1. book[k[1]].exit = k[1] + 2
      BY <1>0, <2>1 DEF BookKept
    <3>2. QED
      BY <2>2, <3>1 DEF OnItsWay
  <2>3. CASE ~ OnItsWay(book[k[1]])
    <3>1. session + 1 <= Sessions
      BY <1>0, <1>18
    <3>2. Leg(k[1], session + 1, "close", Kept(k[1]).symbols) \in Retries
      BY <2>1, <2>3, <3>1 DEF Retries
    <3>3. PICK l \in queue' : l.cohort = k[1] /\ l.phase = "close"
                              /\ k[2] \in l.codes /\ l.on = session + 1
      BY <1>6, <2>1, <3>2 DEF Leg
    <3>4. PICK t \in Nat : t = session + 1
      BY <1>0
    <3>5. ExitQueued(k[1], k[2], t)'
      BY <3>3, <3>4 DEF ExitQueued
    <3>6. QED
      BY <3>4, <3>5
  <2>4. QED
    BY <2>2, <2>3
<1>19. ExitsAhead'
  <2>1. session' < Sessions =>
            \A k \in DOMAIN held' : \/ ExitQueued(k[1], k[2], session + 1)'
                                    \/ session' < k[1] + 2
    BY <1>18 DEF ExitQueued
  <2>2. \A c \in DOMAIN book' : \A x \in book'[c].symbols :
            session' < c + 2 => ExitQueued(c, x, c + 2)'
    BY <1>17
  <2>3. QED
    BY <1>1, <2>1, <2>2 DEF ExitsAhead
<1>20. QED
  BY <1>0, <1>1, <1>12, <1>13, <1>15, <1>19 DEF CohortInv, Ema20Inv

\* A day without a decision is one on which nothing is in the book, or the last.
LEMMA NoDecisionInv ==
  ASSUME CohortInv, step = "decide", ~ DecisionDay, step' = Following,
         UNCHANGED <<kind, timing, session, held, entered, queue, skipped, book>>
  PROVE  CohortInv'
<1>1. CohortTypeOK' /\ step' # "open" /\ Decided' /\ ~ Decided
  BY StepFollows DEF CohortInv
<1>2. session \in Nat /\ session <= Sessions /\ Sessions \in Nat
  BY CohortsAssumption DEF CohortInv, CohortTypeOK
<1>3. \A c : Issued(c) => Issued(c)'
  BY <1>1 DEF Issued
<1>4. LegsTogether'
  BY <1>3 DEF CohortInv, LegsTogether
<1>5. ASSUME kind = "ema20" PROVE BookKept' /\ HeldInBook' /\ ExitsAhead'
  <2>0. BookKept /\ HeldInBook /\ ExitsAhead
    BY <1>5 DEF CohortInv, Ema20Inv
  <2>1. BookKept'
    BY <1>3, <2>0 DEF BookKept
  <2>2. HeldInBook'
    BY <2>0 DEF HeldInBook
  <2>3. session < Sessions => DOMAIN held = {}
    <3> SUFFICES ASSUME session < Sessions, NEW k \in DOMAIN held PROVE FALSE
      OBVIOUS
    <3>1. timing = "same_close" /\ session <= 1
      BY <1>2 DEF DecisionDay
    <3>2. k[1] \in DOMAIN book
      BY <2>0 DEF HeldInBook
    <3>3. Issued(k[1])
      BY <2>0, <3>2 DEF BookKept
    <3>4. QED
      BY <1>1, <1>2, <3>1, <3>3 DEF Issued
  <2>4. ExitsAhead'
    BY <1>1, <2>0, <2>3 DEF ExitsAhead, ExitQueued
  <2>5. QED
    BY <2>1, <2>2, <2>4
<1>6. QED
  BY <1>1, <1>4, <1>5 DEF CohortInv, Ema20Inv

LEMMA NextSessionInv ==
  ASSUME CohortInv, NextSession
  PROVE  CohortInv'
<1>0. /\ session \in Nat /\ Sessions \in Nat /\ session < Sessions /\ Decided
      /\ step' = "open" /\ session' = session + 1
      /\ UNCHANGED <<kind, timing, queue, held, cash, book, entered, skipped>>
  BY CohortsAssumption DEF CohortInv, CohortTypeOK, NextSession, Decided
<1>1. CohortTypeOK' /\ ~ Decided'
  BY <1>0 DEF CohortInv, CohortTypeOK, Decided, Steps
<1>2. \A c : Issued(c) => Issued(c)' /\ c \in Nat /\ c <= session
  BY <1>0, <1>1 DEF Issued
<1>3. LegsTogether'
  BY <1>0, <1>2 DEF CohortInv, LegsTogether
<1>4. ASSUME kind = "ema20" PROVE BookKept' /\ HeldInBook' /\ ExitsAhead'
  <2>0. BookKept /\ HeldInBook /\ ExitsAhead /\ step # "open"
    BY <1>4 DEF CohortInv, Ema20Inv, NextSession
  <2>1. BookKept'
    BY <1>0, <1>2, <2>0 DEF BookKept
  <2>2. ASSUME NEW k \in DOMAIN held PROVE k[1] \in Nat /\ k[1] < session'
    BY <1>0, <1>2, <2>0 DEF HeldInBook, BookKept
  <2>3. ASSUME NEW l \in queue, l.phase = "open" PROVE l.on >= session'
    <3>1. l.cohort \in DOMAIN book /\ l.on = l.cohort + 1 /\ l.on > session
      BY <2>0, <2>3 DEF HeldInBook
    <3>2. l.on \in Nat
      BY <1>2, <2>0, <3>1 DEF BookKept
    <3>3. QED
      BY <1>0, <3>1, <3>2
  <2>4. HeldInBook'
    BY <1>0, <2>0, <2>2, <2>3 DEF HeldInBook
  <2>5. ASSUME NEW c \in DOMAIN book, NEW x \in book[c].symbols, session' < c + 2
        PROVE  ExitQueued(c, x, c + 2)'
    <3>1. session < c + 2
      BY <1>0, <1>2, <2>0, <2>5 DEF BookKept
    <3>2. QED
      BY <1>0, <2>0, <3>1 DEF ExitsAhead, ExitQueued
  <2>6. ASSUME NEW k \in DOMAIN held
        PROVE  \/ ExitQueued(k[1], k[2], session + 1)
               \/ ExitQueued(k[1], k[2], k[1] + 2)
    <3>1. k[1] \in DOMAIN book /\ k[2] \in book[k[1]].symbols
      BY <2>0 DEF HeldInBook
    <3>2. QED
      BY <1>0, <2>0, <3>1 DEF ExitsAhead
  <2>7. ExitsAhead'
    <3>1. \A k \in DOMAIN held' : \/ ExitQueued(k[1], k[2], session)'
                                  \/ ExitQueued(k[1], k[2], k[1] + 2)'
      BY <1>0, <2>6 DEF ExitQueued
    <3>2. QED
      BY <1>0, <1>1, <2>5, <3>1 DEF ExitsAhead
  <2>8. QED
    BY <2>1, <2>4, <2>7
<1>5. QED
  BY <1>0, <1>1, <1>3, <1>4 DEF CohortInv, Ema20Inv

LEMMA CohortInvariant == CohortsSpec => []CohortInv
<1>1. CohortInv /\ [CohortsNext]_cohortVars => CohortInv'
  <2> SUFFICES ASSUME CohortInv, [CohortsNext]_cohortVars PROVE CohortInv'
    OBVIOUS
  <2>1. CASE ExecuteEntries \/ ExecuteExits \/ NextSession
    BY <2>1, EntriesInv, ExitsInv, NextSessionInv
  <2>2. CASE DecideCohorts
    <3>1. /\ step = "decide" /\ step' = Following
          /\ UNCHANGED <<kind, timing, session, held, entered>>
          /\ \/ DecisionDay /\ (GuideDecides \/ Ema20Decides)
             \/ ~ DecisionDay /\ UNCHANGED <<queue, skipped, book>>
      BY <2>2 DEF DecideCohorts
    <3>2. QED
      BY <3>1, GuideInv, Ema20DecidesInv, NoDecisionInv
  <2>3. CASE UNCHANGED cohortVars
    BY <2>3 DEF cohortVars, CohortInv, CohortTypeOK, LegsTogether, Ema20Inv, BookKept,
                HeldInBook, ExitsAhead, ExitQueued, Issued, Decided
  <2>4. QED
    BY <2>1, <2>2, <2>3 DEF CohortsNext
<1>2. QED
  BY <1>1, CohortsInitInv, PTL DEF CohortsSpec

\* For either strategy, any calendar and any delays: a cohort of which a leg
\* was skipped is never entered nor left.
THEOREM CohortsStayComplete == CohortsSpec => []CohortsComplete
<1>1. CohortInv => CohortsComplete
  BY DEF CohortInv, LegsTogether, CohortsComplete
<1>2. QED
  BY <1>1, CohortInvariant, PTL

\* For the example strategy: no code is held by two cohorts, and from its first
\* exit on a holding has an exit at the next close.
THEOREM NoneStranded == CohortsSpec => []NothingStranded
<1>1. ASSUME CohortInv PROVE NothingStranded
  <2> SUFFICES ASSUME kind = "ema20"
               PROVE  /\ \A k, j \in DOMAIN held : k[2] = j[2] => k = j
                      /\ step = "open" =>
                          \A k \in DOMAIN held :
                            \E l \in queue : /\ l.cohort = k[1] /\ l.phase = "close"
                                             /\ k[2] \in l.codes
                                             /\ l.on <= Max({session, k[1] + 2})
    BY DEF NothingStranded
  <2>0. BookKept /\ HeldInBook /\ ExitsAhead /\ session \in Nat
    BY <1>1 DEF CohortInv, Ema20Inv, CohortTypeOK
  <2>1. ASSUME NEW k \in DOMAIN held, NEW j \in DOMAIN held, k[2] = j[2] PROVE k = j
    <3>1. /\ k = <<k[1], k[2]>> /\ k[1] \in DOMAIN book /\ k[2] \in book[k[1]].symbols
          /\ j = <<j[1], j[2]>> /\ j[1] \in DOMAIN book /\ j[2] \in book[j[1]].symbols
      BY <2>0 DEF HeldInBook
    <3>2. k[1] = j[1]
      BY <2>0, <2>1, <3>1 DEF BookKept
    <3>3. QED
      BY <2>1, <3>1, <3>2
  <2>2. ASSUME step = "open", NEW k \in DOMAIN held
        PROVE  \E l \in queue : /\ l.cohort = k[1] /\ l.phase = "close" /\ k[2] \in l.codes
                                /\ l.on <= Max({session, k[1] + 2})
    <3>1. PICK t \in {session, k[1] + 2} : ExitQueued(k[1], k[2], t)
      BY <2>0, <2>2 DEF ExitsAhead
    <3>2. PICK l \in queue : /\ l.cohort = k[1] /\ l.phase = "close" /\ k[2] \in l.codes
                             /\ l.on = t
      BY <3>1 DEF ExitQueued
    <3>3. k[1] + 2 \in Nat
      BY <2>0 DEF HeldInBook, BookKept, Issued
    <3>4. t <= Max({session, k[1] + 2}) /\ Max({session, k[1] + 2}) \in Nat
      <4>1. PICK u \in Nat : u = k[1] + 2
        BY <3>3
      <4>2. \E m \in {session, u} : \A y \in {session, u} : m >= y
        BY <2>0
      <4>3. Max({session, u}) \in {session, u}
            /\ \A y \in {session, u} : Max({session, u}) >= y
        BY <4>2 DEF Max
      <4>4. QED
        BY <2>0, <3>1, <4>1, <4>3
    <3>5. QED
      BY <3>2, <3>4
  <2>3. QED
    BY <2>1, <2>2
<1>2. QED
  BY <1>1, CohortInvariant, PTL

-----------------------------------------------------------------------------
(* Part 2.                                                                  *)
(* Least and greatest of sets of sessions, and sets put in order.           *)

LEMMA LessThanPairs == \A x, y \in Nat : x < y => <<x, y>> \in OpToRel(<, Nat)
  BY Zenon DEF OpToRel

\* A set of naturals that is not empty has a least element, and Min is it.
LEMMA LeastOfNat ==
    ASSUME NEW T \in SUBSET Nat, T # {}
    PROVE  /\ \E x \in T : \A y \in T : x <= y
           /\ Min(T) \in T /\ \A y \in T : Min(T) <= y
<1> DEFINE R == OpToRel(<, Nat)
<1>1. IsWellFoundedOn(R, Nat)
  BY NatLessThanWellFounded
<1>2. \A x, y \in Nat : x < y => <<x, y>> \in R
  BY LessThanPairs
<1> HIDE DEF R
<1>3. PICK x \in T : \A y \in T : ~ (<<y, x>> \in R)
  BY <1>1, WFMin
<1>4. ASSUME NEW y \in T PROVE x <= y
  <2>1. x \in Nat /\ y \in Nat
    OBVIOUS
  <2>2. ~ (y < x)
    BY <1>2, <1>3, <2>1
  <2> QED
    BY <2>1, <2>2
<1>5. \E m \in T : \A y \in T : m <= y
  BY <1>4
<1>6. Min(T) \in T /\ \A y \in T : Min(T) =< y
  BY <1>5 DEF Min
<1> QED
  BY <1>5, <1>6

\* One that is bounded has a greatest.
LEMMA GreatestUpTo ==
    ASSUME NEW n \in Nat, NEW T \in SUBSET (1 .. n), T # {}
    PROVE  Max(T) \in T /\ \A y \in T : y <= Max(T)
<1> DEFINE U == {n - x : x \in T}
<1>1. U \in SUBSET Nat /\ U # {}
  <2>1. \A x \in T : n - x \in Nat
    OBVIOUS
  <2> QED
    BY <2>1
<1>2. PICK u \in U : \A v \in U : u <= v
  BY <1>1, LeastOfNat
<1>3. PICK x \in T : u = n - x
  OBVIOUS
<1>4. ASSUME NEW y \in T PROVE x >= y
  <2>1. n - y \in U
    OBVIOUS
  <2>2. n - x <= n - y
    BY <1>2, <1>3, <2>1
  <2> QED
    BY <2>2
<1>5. Max(T) \in T /\ \A y \in T : Max(T) >= y
  BY <1>4 DEF Max
<1> QED
  BY <1>5

\* Of a finite set of numbers, the one with n - 1 before it is in the set.
LEMMA AscendingType ==
    ASSUME NEW S \in SUBSET Int, IsFiniteSet(S)
    PROVE  /\ Cardinality(S) \in Nat
           /\ DOMAIN Ascending(S) = 1 .. Cardinality(S)
           /\ \A n \in 1 .. Cardinality(S) : Ascending(S)[n] \in S
<1> DEFINE Below(d) == {e \in S : e < d}
           N == Cardinality(S)
           f == [d \in S |-> Cardinality(Below(d))]
<1>1. N \in Nat
  BY FS_CardinalityType
<1>2. \A d \in S : IsFiniteSet(Below(d)) /\ Cardinality(Below(d)) \in Nat
  <2> TAKE d \in S
  <2>1. Below(d) \in SUBSET S
    OBVIOUS
  <2>2. IsFiniteSet(Below(d))
    BY <2>1, FS_Subset
  <2> QED
    BY <2>2, FS_CardinalityType
<1>3. ASSUME NEW c \in S, NEW d \in S, c < d
      PROVE  Cardinality(Below(c)) < Cardinality(Below(d))
  <2>1. c \notin Below(c) /\ Below(c) \cup {c} \in SUBSET Below(d)
    <3>1. c \in Int /\ d \in Int /\ \A e \in S : e \in Int
      OBVIOUS
    <3>2. \A e \in S : e < c => e < d
      BY <1>3, <3>1
    <3>3. ~ (c < c)
      BY <3>1
    <3> QED
      BY <1>3, <3>2, <3>3
  <2>2. Cardinality(Below(c) \cup {c}) = Cardinality(Below(c)) + 1
    BY <1>2, <2>1, FS_AddElement
  <2>3. Cardinality(Below(c) \cup {c}) <= Cardinality(Below(d))
    BY <1>2, <2>1, FS_Subset
  <2> QED
    BY <1>2, <2>2, <2>3
<1>4. ASSUME NEW d \in S PROVE Cardinality(Below(d)) \in 0 .. N - 1
  <2>1. d \notin Below(d) /\ Below(d) \cup {d} \in SUBSET S
    OBVIOUS
  <2>2. Cardinality(Below(d) \cup {d}) = Cardinality(Below(d)) + 1
    BY <1>2, <2>1, FS_AddElement
  <2>3. Cardinality(Below(d) \cup {d}) <= N
    BY <2>1, FS_Subset
  <2> QED
    BY <1>1, <1>2, <2>2, <2>3
<1>5. f \in Injection(S, 0 .. N - 1)
  <2>1. f \in [S -> 0 .. N - 1]
    BY <1>4
  <2>2. ASSUME NEW c \in S, NEW d \in S, f[c] = f[d] PROVE c = d
    <3>1. ~ (c < d) /\ ~ (d < c)
      BY <1>2, <1>3, <2>2
    <3> QED
      BY <3>1
  <2> HIDE DEF f
  <2>3. DOMAIN f = S
    BY <2>1
  <2>4. IsInjective(f)
    BY <2>2, <2>3 DEF IsInjective
  <2> QED
    BY <2>1, <2>4 DEF Injection
<1>6. IsFiniteSet(0 .. N - 1) /\ Cardinality(0 .. N - 1) = N
  BY <1>1, FS_Interval
<1> HIDE DEF f
<1>7. f \in Surjection(S, 0 .. N - 1)
  BY <1>5, <1>6, FS_Injection
<1> USE DEF f
<1>8. ASSUME NEW n \in 1 .. N PROVE Ascending(S)[n] \in S
  <2>1. n - 1 \in 0 .. N - 1
    BY <1>1
  <2>2. \E d \in S : f[d] = n - 1
    BY <1>7, <2>1 DEF Surjection
  <2>3. \E d \in S : Cardinality(Below(d)) = n - 1
    BY <2>2
  <2>4. (CHOOSE d \in S : Cardinality(Below(d)) = n - 1) \in S
    BY <2>3
  <2> QED
    BY <2>4 DEF Ascending
<1>9. DOMAIN Ascending(S) = 1 .. Cardinality(S)
  BY DEF Ascending
<1> QED
  BY <1>1, <1>8, <1>9

-----------------------------------------------------------------------------
(* Samples and splits.                                                      *)

\* What is known of a labelled sample: its days are sessions.
Labelled == [on : 1 .. LastSession, code : Instruments, first : Int, last : 1 .. LastSession]

\* A split whose labels all end before its validation starts,
PurgedSplit == {s \in [training : SUBSET Labelled, start : 1 .. LastSession] :
                    \A t \in s.training : t.last < s.start}
\* one to train on, and a model trained on it.
SoundSplit == {s \in PurgedSplit : s.training # {}}
SoundModel == {m \in [training : SUBSET Labelled, start : 1 .. LastSession,
                      cutoff : 1 .. LastSession] :
                    /\ m.cutoff < m.start
                    /\ \A t \in m.training : t.last < m.start /\ t.last <= m.cutoff}

\* The day a model of the example is frozen on is the first session of its year.
StartsYear(start) == \A d \in 1 .. LastSession : Year[d] = Year[start] => start <= d

SamplingOK == bars \in [Instruments -> Traded] /\ plan \in Plans

LEMMA SessionsFinite == IsFiniteSet(1 .. LastSession)
BY TrainingAssumption, FS_Interval

LEMMA SamplesLabelled ==
    ASSUME SamplingOK
    PROVE  Samples \subseteq Labelled /\ PanelSamples \subseteq Labelled
<1>1. plan.entry \in Nat /\ plan.horizon \in Nat
  BY TrainingAssumption DEF SamplingOK
<1>2. ASSUME NEW c \in Instruments PROVE bars[c] \in SUBSET (1 .. LastSession)
  BY TrainingAssumption DEF SamplingOK
<1>3. ASSUME NEW c \in Instruments,
             NEW i \in 1 .. Cardinality(bars[c]) - plan.entry - plan.horizon
      PROVE  [on |-> Rows(c)[i], code |-> c, first |-> Rows(c)[i + plan.entry],
              last |-> Rows(c)[i + plan.entry + plan.horizon]] \in Labelled
  <2>1. IsFiniteSet(1 .. LastSession)
    BY SessionsFinite
  <2>2. IsFiniteSet(bars[c])
    BY <1>2, <2>1, FS_Subset
  <2>3. bars[c] \in SUBSET Int
    BY <1>2
  <2>4. /\ Cardinality(bars[c]) \in Nat
        /\ \A n \in 1 .. Cardinality(bars[c]) : Ascending(bars[c])[n] \in bars[c]
    BY <2>2, <2>3, AscendingType
  <2>5. {i, i + plan.entry, i + plan.entry + plan.horizon} \subseteq 1 .. Cardinality(bars[c])
    BY <1>1, <2>4
  <2>6. \A n \in {i, i + plan.entry, i + plan.entry + plan.horizon} :
            Rows(c)[n] \in 1 .. LastSession
    BY <1>2, <2>4, <2>5 DEF Rows
  <2>7. \A n \in 1 .. LastSession : n \in Int
    OBVIOUS
  <2> QED
    BY <2>6, <2>7 DEF Labelled
<1>4. ASSUME NEW c \in Instruments, NEW d \in 1 .. LastSession, HasPanelLabel(c, d)
      PROVE  [on |-> d, code |-> c, first |-> d + 1, last |-> d + 2] \in Labelled
  <2>1. d + 2 \in 1 .. LastSession /\ d + 1 \in Int
    BY <1>2, <1>4 DEF HasPanelLabel
  <2> QED
    BY <2>1 DEF Labelled
<1>5. Samples \subseteq Labelled
  BY <1>3 DEF Samples
<1>6. PanelSamples \subseteq Labelled
  BY <1>4 DEF PanelSamples
<1> QED
  BY <1>5, <1>6

LEMMA DaysFinite ==
    ASSUME NEW samples \in SUBSET Labelled
    PROVE  /\ {s.on : s \in samples} \in SUBSET (1 .. LastSession)
           /\ {s.on : s \in samples} \in SUBSET Int
           /\ IsFiniteSet({s.on : s \in samples})
<1>1. {s.on : s \in samples} \in SUBSET (1 .. LastSession)
  BY DEF Labelled
<1>2. IsFiniteSet(1 .. LastSession)
  BY SessionsFinite
<1>3. IsFiniteSet({s.on : s \in samples})
  BY <1>1, <1>2, FS_Subset
<1> QED
  BY <1>1, <1>3

\* Of purged splits, those with training samples are sound.
LEMMA TrainableSound ==
    ASSUME NEW n \in Nat, NEW splits \in [1 .. n -> PurgedSplit]
    PROVE  /\ Trainable(splits) \in Seq(SoundSplit)
           /\ \A j \in DOMAIN Trainable(splits) :
                  \E i \in 1 .. n : Trainable(splits)[j] = splits[i]
<1> DEFINE I == {i \in DOMAIN splits : splits[i].training # {}}
<1>1. I \in SUBSET (1 .. n)
  OBVIOUS
<1> HIDE DEF I
<1>2. I \in SUBSET Int /\ IsFiniteSet(I)
  <2>1. IsFiniteSet(1 .. n)
    BY FS_Interval
  <2>2. I \in SUBSET Int
    BY <1>1
  <2> QED
    BY <1>1, <2>1, <2>2, FS_Subset
<1>3. /\ Cardinality(I) \in Nat /\ DOMAIN Ascending(I) = 1 .. Cardinality(I)
      /\ \A j \in 1 .. Cardinality(I) : Ascending(I)[j] \in I
  BY <1>2, AscendingType
<1>4. \A i \in I : splits[i] \in SoundSplit
  BY DEF I, SoundSplit
<1>5. Trainable(splits) = [j \in 1 .. Cardinality(I) |-> splits[Ascending(I)[j]]]
  BY <1>3 DEF Trainable, I
<1>6. [j \in 1 .. Cardinality(I) |-> splits[Ascending(I)[j]]]
        \in [1 .. Cardinality(I) -> SoundSplit]
  BY <1>3, <1>4
<1>7. \A j \in DOMAIN Trainable(splits) : Trainable(splits)[j] = splits[Ascending(I)[j]]
  BY <1>5
<1>8. \A j \in DOMAIN Trainable(splits) : Ascending(I)[j] \in 1 .. n
  BY <1>1, <1>3, <1>5
<1>9. Trainable(splits) \in Seq(SoundSplit)
  BY <1>3, <1>5, <1>6
<1> QED
  BY <1>7, <1>8, <1>9

LEMMA EmptySeqSound == <<>> \in Seq(SoundSplit)
OBVIOUS

\* The first of two numbers.
LEMMA MinOfTwo ==
    ASSUME NEW a \in Nat, NEW b \in Nat
    PROVE  Min({a, b}) \in {a, b} /\ Min({a, b}) <= a /\ Min({a, b}) <= b
<1>1. {a, b} \in SUBSET Nat /\ {a, b} # {}
  OBVIOUS
<1> QED
  BY <1>1, LeastOfNat

\* Every chunk of array_split begins inside the sequence and has an element.
LEMMA ChunkInside ==
    ASSUME NEW n \in Nat, NEW k \in 1 .. n, NEW i \in 1 .. k
    PROVE  /\ ChunkStart(n, k, i) \in 1 .. n
           /\ ChunkSize(n, k, i) \in Nat \ {0}
<1> DEFINE q == n \div k
           r == n % k
<1>1. q \in Nat /\ r \in 0 .. k - 1 /\ n = k * q + r
  OBVIOUS
<1>2. q # 0
  BY <1>1
<1>3. Min({i - 1, r}) \in Nat /\ Min({i - 1, r}) <= r
  <2>1. i - 1 \in Nat /\ r \in Nat
    BY <1>1
  <2> HIDE DEF r
  <2>2. Min({i - 1, r}) \in {i - 1, r} /\ Min({i - 1, r}) <= r
    BY <2>1, MinOfTwo
  <2> QED
    BY <2>1, <2>2
<1>4. q * (i - 1) \in Nat /\ q * (i - 1) <= q * (k - 1) /\ k * q = q * (k - 1) + q
  <2> HIDE DEF q
  <2>1. q \in Nat /\ i - 1 \in Nat /\ k - i \in Nat
    BY <1>1
  <2>2. q * (i - 1) \in Nat /\ q * (k - i) \in Nat
    BY <2>1
  <2>3. q * (k - 1) = q * (i - 1) + q * (k - i)
    BY <2>1
  <2> QED
    BY <2>1, <2>2, <2>3
<1>5. ChunkStart(n, k, i) = q * (i - 1) + Min({i - 1, r}) + 1
  BY DEF ChunkStart
<1>6. ChunkSize(n, k, i) = q + (IF i <= r THEN 1 ELSE 0)
  BY DEF ChunkSize
<1> HIDE DEF q, r
<1> QED
  BY <1>1, <1>2, <1>3, <1>4, <1>5, <1>6

LEMMA PurgedKept ==
    ASSUME NEW samples \in SUBSET Labelled, NEW start \in 1 .. LastSession,
           NEW T \in SUBSET Purged(samples, start)
    PROVE  [training |-> T, start |-> start] \in PurgedSplit
<1>1. T \in SUBSET Labelled /\ \A t \in T : t.last < start
  BY DEF Purged
<1> QED
  BY <1>1 DEF PurgedSplit

LEMMA FunctionsAreSequences ==
    ASSUME NEW m \in Nat, NEW X, NEW f \in [1 .. m -> X]
    PROVE  f \in Seq(X) /\ Len(f) = m
OBVIOUS

\* The days in ascending order are a sequence as long as there are days.
LEMMA AscendingIsFunction ==
    ASSUME NEW S
    PROVE  Ascending(S) = [i \in 1 .. Cardinality(S) |-> Ascending(S)[i]]
<1> DEFINE nth(i) == CHOOSE d \in S : Cardinality({e \in S : e < d}) = i - 1
<1>1. Ascending(S) = [i \in 1 .. Cardinality(S) |-> nth(i)]
  BY Zenon DEF Ascending
<1> HIDE DEF nth
<1>2. QED
  BY <1>1, Zenon

LEMMA PurgedSplitsSound ==
    ASSUME plan \in Plans, NEW samples \in SUBSET Labelled
    PROVE  PurgedSplits(samples) \in Seq(SoundSplit)
<1> DEFINE D == {s.on : s \in samples}
           days == Ascending(D)
           n == Cardinality(D)
           k == Min({plan.folds, n})
           splits == [i \in 1 .. k - 1 |-> Split(samples, days, Chunk(days, k, i + 1))]
<1>1. D \in SUBSET (1 .. LastSession) /\ D \in SUBSET Int /\ IsFiniteSet(D)
  BY DaysFinite
<1> HIDE DEF D
<1>2. /\ n \in Nat /\ DOMAIN days = 1 .. n
      /\ \A i \in 1 .. n : days[i] \in 1 .. LastSession
  BY <1>1, AscendingType
<1>3. days \in Seq(1 .. LastSession) /\ Len(days) = n
  <2>1. days = [i \in 1 .. n |-> days[i]]
    BY AscendingIsFunction
  <2>2. days \in [1 .. n -> 1 .. LastSession]
    BY <1>2, <2>1
  <2> HIDE DEF days, n
  <2> QED
    BY <1>2, <2>2, FunctionsAreSequences
<1> HIDE DEF days, n
<1>4. CASE n < 2
  BY <1>3, <1>4, EmptySeqSound DEF PurgedSplits, days, D
<1>5. CASE ~ (n < 2)
  <2>1. k \in 1 .. n
    <3>1. plan.folds \in Nat \ {0}
      BY TrainingAssumption
    <3>2. k \in {plan.folds, n} /\ k <= n
      BY <1>2, <3>1, MinOfTwo
    <3> QED
      BY <1>2, <1>5, <3>1, <3>2
  <2> HIDE DEF k
  <2>2. ASSUME NEW i \in 1 .. k - 1
        PROVE  Split(samples, days, Chunk(days, k, i + 1)) \in PurgedSplit
    <3> DEFINE a == ChunkStart(n, k, i + 1)
               m == ChunkSize(n, k, i + 1)
    <3>1. a \in 1 .. n /\ m \in Nat \ {0}
      <4>1. i + 1 \in 1 .. k
        BY <2>1
      <4> QED
        BY <1>2, <2>1, <4>1, ChunkInside
    <3>2. Chunk(days, k, i + 1) = SubSeq(days, a, a + m - 1)
      BY <1>3 DEF Chunk
    <3> HIDE DEF a, m
    <3>3. Head(SubSeq(days, a, a + m - 1)) = days[a]
      BY <1>2, <1>3, <3>1
    <3>4. days[a] \in 1 .. LastSession
      BY <1>2, <3>1
    <3>5. Split(samples, days, Chunk(days, k, i + 1))
            = [training |-> {s \in Purged(samples, days[a]) : s.on \notin Embargo(days, days[a])},
               start |-> days[a]]
      BY <3>2, <3>3 DEF Split
    <3> QED
      BY <3>4, <3>5, PurgedKept
  <2>3. splits \in [1 .. k - 1 -> PurgedSplit] /\ k - 1 \in Nat
    BY <1>2, <2>1, <2>2
  <2>4. PurgedSplits(samples) = Trainable(splits)
    BY <1>3, <1>5 DEF PurgedSplits, days, D, k
  <2> HIDE DEF splits
  <2> QED
    BY <2>3, <2>4, TrainableSound
<1> QED
  BY <1>4, <1>5

LEMMA YearStartInside ==
    ASSUME NEW y \in {Year[d] : d \in 1 .. LastSession}
    PROVE  YearStart(y) \in 1 .. LastSession /\ StartsYear(YearStart(y))
<1> DEFINE T == {d \in 1 .. LastSession : Year[d] = y}
<1>1. T \in SUBSET Nat /\ T # {}
  OBVIOUS
<1>2. Min(T) \in T /\ \A d \in T : Min(T) <= d
  BY <1>1, LeastOfNat
<1> QED
  BY <1>2 DEF YearStart, StartsYear

LEMMA YearSplitsSound ==
    ASSUME NEW samples \in SUBSET Labelled
    PROVE  /\ YearSplits(samples) \in Seq(SoundSplit)
           /\ \A j \in DOMAIN YearSplits(samples) : StartsYear(YearSplits(samples)[j].start)
<1> DEFINE years == {Year[d] : d \in 1 .. LastSession}
           tested == {y \in years : /\ y >= Min(years) + TrainYears
                                    /\ \E s \in samples : Year[s.on] = y}
           n == Cardinality(tested)
           splits == [i \in 1 .. n |-> YearSplit(samples, Ascending(tested)[i])]
<1>1. IsFiniteSet(years)
  <2>1. [d \in 1 .. LastSession |-> Year[d]] \in Surjection(1 .. LastSession, years)
    BY DEF Surjection
  <2> QED
    BY <2>1, SessionsFinite, FS_Surjection
<1>2. tested \in SUBSET years /\ tested \in SUBSET Int
  BY TrainingAssumption
<1>3. IsFiniteSet(tested)
  BY <1>1, <1>2, FS_Subset
<1> HIDE DEF years, tested
<1>4. n \in Nat /\ \A i \in 1 .. n : Ascending(tested)[i] \in tested
  BY <1>2, <1>3, AscendingType
<1> HIDE DEF n
<1>5. ASSUME NEW y \in tested
      PROVE  YearSplit(samples, y) \in PurgedSplit /\ StartsYear(YearSplit(samples, y).start)
  <2>1. YearStart(y) \in 1 .. LastSession /\ StartsYear(YearStart(y))
    BY <1>2, YearStartInside DEF years
  <2>2. {s \in samples : Year[s.on] \in y - TrainYears .. y - 1} \in SUBSET Labelled
    OBVIOUS
  <2> QED
    BY <2>1, <2>2, PurgedKept DEF YearSplit
<1>6. splits \in [1 .. n -> PurgedSplit] /\ \A i \in 1 .. n : StartsYear(splits[i].start)
  BY <1>4, <1>5
<1>7. YearSplits(samples) = Trainable(splits)
  BY DEF YearSplits, tested, years, n
<1> HIDE DEF splits
<1> QED
  BY <1>4, <1>6, <1>7, TrainableSound

LEMMA SplitsSound ==
    ASSUME SamplingOK
    PROVE  /\ Splits \in Seq(SoundSplit)
           /\ plan.panel => \A j \in DOMAIN Splits : StartsYear(Splits[j].start)
<1>1. CASE plan.panel
  BY <1>1, SamplesLabelled, YearSplitsSound DEF Splits
<1>2. CASE ~ plan.panel
  BY <1>2, SamplesLabelled, PurgedSplitsSound DEF Splits, SamplingOK
<1> QED
  BY <1>1, <1>2
-----------------------------------------------------------------------------
(* Models.                                                                  *)

\* The cutoff of a model is the last day a label of its training needs.
LEMMA ModelSound ==
    ASSUME NEW split \in SoundSplit
    PROVE  /\ Model(split) \in SoundModel /\ Model(split).training = split.training
           /\ Model(split).start = split.start
<1> DEFINE T == {s.last : s \in split.training}
<1>1. /\ split.training \in SUBSET Labelled /\ split.training # {}
      /\ split.start \in 1 .. LastSession /\ \A t \in split.training : t.last < split.start
  BY DEF SoundSplit, PurgedSplit
<1>2. T \in SUBSET (1 .. LastSession) /\ T # {}
  BY <1>1 DEF Labelled
<1>3. Max(T) \in T /\ \A y \in T : y <= Max(T)
  BY <1>2, GreatestUpTo, TrainingAssumption
<1>4. Model(split) = [training |-> split.training, start |-> split.start, cutoff |-> Max(T)]
  BY DEF Model
<1>5. \A t \in split.training : t.last <= Max(T)
  BY <1>3
<1>6. Max(T) \in 1 .. LastSession /\ Max(T) < split.start
  BY <1>1, <1>2, <1>3
<1> HIDE DEF T
<1> QED
  BY <1>1, <1>4, <1>5, <1>6 DEF SoundModel

\* What the example trains on has days to validate on.
LEMMA FittedStart ==
    ASSUME SamplingOK, plan.panel, NEW training \in SUBSET Labelled, ~ TooFew(training)
    PROVE  Fitted(training).start \in 1 .. LastSession
<1> DEFINE D == {s.on : s \in training}
           n == Cardinality(D)
<1>1. D \in SUBSET (1 .. LastSession) /\ D \in SUBSET Int /\ IsFiniteSet(D)
  BY DaysFinite
<1>2. Cardinality(D) > plan.validation + plan.embargo \/ Cardinality(D) \notin Nat
  BY TrainingAssumption DEF TooFew, SamplingOK
<1> HIDE DEF D
<1>3. /\ n \in Nat /\ DOMAIN Ascending(D) = 1 .. n
      /\ \A i \in 1 .. n : Ascending(D)[i] \in 1 .. LastSession
  BY <1>1, AscendingType
<1>4. Len(Ascending(D)) = n
  <2>1. Ascending(D) = [i \in 1 .. n |-> Ascending(D)[i]]
    BY DEF Ascending
  <2>2. Ascending(D) \in [1 .. n -> 1 .. LastSession]
    BY <1>3, <2>1
  <2> HIDE DEF n
  <2> QED
    BY <1>3, <2>2, FunctionsAreSequences
<1>5. plan.validation \in Nat \ {0} /\ plan.embargo \in Nat
  BY TrainingAssumption DEF SamplingOK
<1>6. n - plan.validation + 1 \in 1 .. n
  BY <1>2, <1>3, <1>5
<1>7. Fitted(training).start = Ascending(D)[n - plan.validation + 1]
  BY <1>4 DEF Fitted, D
<1> QED
  BY <1>3, <1>6, <1>7

\* Staged models have passed the check of prepare_fold.
StagedSound ==
    \A id \in DOMAIN trainer.staged :
        /\ trainer.staged[id] \in SoundModel /\ plan.panel
        /\ ~ TooFew(trainer.staged[id].training)

TrainerOK ==
    /\ trainer = [running |-> trainer.running, fold |-> trainer.fold, left |-> trainer.left,
                  staged |-> trainer.staged]
    /\ trainer.left \in Seq(SoundSplit)

\* The models of the example, those to come included, are frozen where a year begins.
YearlyModels ==
    plan.panel =>
        /\ \A j \in DOMAIN trainer.left : StartsYear(trainer.left[j].start)
        /\ \A id \in DOMAIN trainer.staged : StartsYear(trainer.staged[id].start)
        /\ \A id \in DOMAIN registry : StartsYear(registry[id].start)

\* A signal rests on no label from after its cutoff.
SignalsSound ==
    \A g \in signals :
        /\ g.cutoff \in Int
        /\ g.model \in DOMAIN registry /\ registry[g.model].cutoff <= g.cutoff

TrainingInv ==
    /\ SamplingOK /\ TrainerOK /\ StagedSound /\ YearlyModels
    /\ \A id \in DOMAIN registry : registry[id] \in SoundModel
    /\ SignalsSound

\* Whether a training set is too small depends on the plan alone, which never changes.
LEMMA TooFewStays ==
    ASSUME plan' = plan, NEW T
    PROVE  TooFew(T)' <=> TooFew(T)
<1>1. \A days, start : Embargo(days, start)' = Embargo(days, start)
  BY DEF Embargo
<1>2. Fitted(T)' = Fitted(T)
  BY <1>1 DEF Fitted
<1> QED
  BY <1>2 DEF TooFew

LEMMA StagedStays ==
    ASSUME StagedSound, UNCHANGED plan, trainer'.staged = trainer.staged
    PROVE  StagedSound'
BY TooFewStays DEF StagedSound

LEMMA TrainingInitInv == TrainingInit => TrainingInv
<1> SUFFICES ASSUME TrainingInit PROVE TrainingInv
  OBVIOUS
<1>1. SamplingOK /\ TrainerOK
  BY EmptySeqSound DEF TrainingInit, SamplingOK, TrainerOK, Idle
<1>2. StagedSound /\ SignalsSound /\ \A id \in DOMAIN registry : registry[id] \in SoundModel
  BY DEF TrainingInit, StagedSound, SignalsSound, Idle, NoModels
<1>3. YearlyModels
  BY DEF TrainingInit, YearlyModels, Idle, NoModels
<1> QED
  BY <1>1, <1>2, <1>3 DEF TrainingInv

\* The trainer stops, and starts afresh.
LEMMA IdleInv ==
    ASSUME TrainingInv, trainer' = Idle, UNCHANGED <<bars, plan, registry, signals>>
    PROVE  TrainingInv'
<1>1. SamplingOK' /\ TrainerOK'
  BY EmptySeqSound DEF TrainingInv, SamplingOK, TrainerOK, Idle
<1>2. /\ StagedSound' /\ SignalsSound'
      /\ (\A id \in DOMAIN registry : registry[id] \in SoundModel)'
  BY DEF TrainingInv, StagedSound, SignalsSound, Idle, NoModels
<1>3. YearlyModels'
  BY DEF TrainingInv, YearlyModels, StartsYear, Idle, NoModels
<1> QED
  BY <1>1, <1>2, <1>3 DEF TrainingInv

LEMMA TrainInv ==
    ASSUME TrainingInv, Train PROVE TrainingInv'
<1>1. trainer' = [running |-> TRUE, fold |-> 1, left |-> Splits, staged |-> NoModels]
  BY DEF Train, Idle
<1>2. UNCHANGED <<bars, plan, registry, signals>>
  BY DEF Train
<1>3. /\ Splits \in Seq(SoundSplit)
      /\ plan.panel => \A j \in DOMAIN Splits : StartsYear(Splits[j].start)
  BY SplitsSound DEF TrainingInv
<1>4. SamplingOK' /\ TrainerOK'
  BY <1>1, <1>2, <1>3 DEF TrainingInv, SamplingOK, TrainerOK
<1>5. /\ StagedSound' /\ SignalsSound'
      /\ (\A id \in DOMAIN registry : registry[id] \in SoundModel)'
  BY <1>1, <1>2 DEF TrainingInv, StagedSound, SignalsSound, NoModels
<1>6. YearlyModels'
  BY <1>1, <1>2, <1>3 DEF TrainingInv, YearlyModels, StartsYear, NoModels
<1> QED
  BY <1>4, <1>5, <1>6 DEF TrainingInv

\* What With adds to sound models is sound.
LEMMA WithSound ==
    ASSUME NEW models, NEW fold, NEW split \in SoundSplit,
           \A id \in DOMAIN models : models[id] \in SoundModel
    PROVE  \A id \in DOMAIN With(models, fold, split) :
                /\ With(models, fold, split)[id] \in SoundModel
                /\ \/ id \in DOMAIN models /\ With(models, fold, split)[id] = models[id]
                   \/ /\ With(models, fold, split)[id].training = split.training
                      /\ With(models, fold, split)[id].start = split.start
BY ModelSound DEF With

LEMMA NextSplit ==
    ASSUME TrainingInv, trainer.left # <<>>
    PROVE  Head(trainer.left) \in SoundSplit /\ Tail(trainer.left) \in Seq(SoundSplit)
BY DEF TrainingInv, TrainerOK

LEMMA RegisterInv ==
    ASSUME TrainingInv, Register, signals = {} PROVE TrainingInv'
<1>1. Head(trainer.left) \in SoundSplit /\ Tail(trainer.left) \in Seq(SoundSplit)
  BY NextSplit DEF Register
<1>2. trainer' = [running |-> trainer.running, fold |-> trainer.fold + 1,
                  left |-> Tail(trainer.left), staged |-> trainer.staged]
  <2>1. trainer = [running |-> trainer.running, fold |-> trainer.fold,
                   left |-> trainer.left, staged |-> trainer.staged]
    BY DEF TrainingInv, TrainerOK
  <2>2. trainer' = [trainer EXCEPT !.left = Tail(@), !.fold = @ + 1]
    BY DEF Register
  <2> QED
    BY <2>1, <2>2
<1>3. registry' = With(registry, trainer.fold, Head(trainer.left))
      /\ UNCHANGED <<bars, plan, signals>>
  BY DEF Register
<1>4. (\A id \in DOMAIN registry : registry[id] \in SoundModel)'
  BY <1>1, <1>3, WithSound DEF TrainingInv
<1>5. SamplingOK' /\ TrainerOK'
  BY <1>1, <1>2, <1>3 DEF TrainingInv, SamplingOK, TrainerOK
<1>6. StagedSound' /\ SignalsSound'
  BY <1>2, <1>3, StagedStays DEF TrainingInv, SignalsSound
<1>7. YearlyModels'
  BY <1>3 DEF Register, YearlyModels
<1> QED
  BY <1>4, <1>5, <1>6, <1>7 DEF TrainingInv

LEMMA StageInv ==
    ASSUME TrainingInv, Stage PROVE TrainingInv'
<1>1. Head(trainer.left) \in SoundSplit /\ Tail(trainer.left) \in Seq(SoundSplit)
  BY NextSplit DEF Stage
<1>2. trainer' = [running |-> trainer.running, fold |-> trainer.fold + 1,
                  left |-> Tail(trainer.left),
                  staged |-> With(trainer.staged, trainer.fold, Head(trainer.left))]
  <2>1. trainer = [running |-> trainer.running, fold |-> trainer.fold,
                   left |-> trainer.left, staged |-> trainer.staged]
    BY DEF TrainingInv, TrainerOK
  <2>2. trainer' = [trainer EXCEPT !.left = Tail(@), !.fold = @ + 1,
                                   !.staged = With(@, trainer.fold, Head(trainer.left))]
    BY DEF Stage
  <2> QED
    BY <2>1, <2>2
<1>3. UNCHANGED <<bars, plan, registry, signals>>
  BY DEF Stage
<1>4. plan.panel /\ ~ TooFew(Head(trainer.left).training)
  BY DEF Stage
<1>5. SamplingOK' /\ TrainerOK' /\ SignalsSound'
      /\ (\A id \in DOMAIN registry : registry[id] \in SoundModel)'
  BY <1>1, <1>2, <1>3 DEF TrainingInv, SamplingOK, TrainerOK, SignalsSound
<1>6. ASSUME NEW id \in DOMAIN trainer'.staged
      PROVE  trainer'.staged[id] \in SoundModel /\ ~ TooFew(trainer'.staged[id].training)
  <2>1. \A i \in DOMAIN trainer.staged :
            trainer.staged[i] \in SoundModel /\ ~ TooFew(trainer.staged[i].training)
    BY DEF TrainingInv, StagedSound
  <2>2. trainer'.staged = With(trainer.staged, trainer.fold, Head(trainer.left))
    BY <1>2
  <2>3. /\ trainer'.staged[id] \in SoundModel
        /\ \/ id \in DOMAIN trainer.staged /\ trainer'.staged[id] = trainer.staged[id]
           \/ trainer'.staged[id].training = Head(trainer.left).training
    BY <1>1, <2>1, <2>2, WithSound
  <2> QED
    BY <1>4, <2>1, <2>3
<1>7. StagedSound'
  BY <1>3, <1>4, <1>6, TooFewStays DEF StagedSound
<1>8. YearlyModels'
  <2>1. /\ \A j \in DOMAIN trainer.left : StartsYear(trainer.left[j].start)
        /\ \A id \in DOMAIN trainer.staged : StartsYear(trainer.staged[id].start)
        /\ \A id \in DOMAIN registry : StartsYear(registry[id].start)
    BY <1>4 DEF TrainingInv, YearlyModels
  <2>2. trainer.left \in Seq(SoundSplit) /\ trainer.left # <<>>
    BY DEF TrainingInv, TrainerOK, Stage
  <2>3. /\ \A j \in DOMAIN Tail(trainer.left) : StartsYear(Tail(trainer.left)[j].start)
        /\ StartsYear(Head(trainer.left).start)
    BY <2>1, <2>2
  <2>4. \A i \in DOMAIN trainer.staged : trainer.staged[i] \in SoundModel
    BY DEF TrainingInv, StagedSound
  <2>5. \A id \in DOMAIN trainer'.staged : StartsYear(trainer'.staged[id].start)
    BY <1>1, <1>2, <2>1, <2>3, <2>4, WithSound
  <2> QED
    BY <1>2, <1>3, <2>1, <2>3, <2>5 DEF YearlyModels, StartsYear
<1> QED
  BY <1>5, <1>7, <1>8 DEF TrainingInv

LEMMA TakeSignalInv ==
    ASSUME TrainingInv, NEW id \in DOMAIN registry, NEW on \in 1 .. LastSession,
           NEW features \in 1 .. LastSession, NEW execution \in Executions,
           TakeSignal(id, on, features, execution)
    PROVE  TrainingInv'
<1>1. /\ signals' = signals \union {[model |-> id, on |-> on, features |-> features,
                                     cutoff |-> Cutoff(on, execution)]}
      /\ UNCHANGED <<bars, plan, trainer, registry>>
  BY DEF TakeSignal
<1>2. Cutoff(on, execution) \in Int /\ Cutoff(on, execution) \in {on, on - 1}
  BY DEF Cutoff
<1>3. registry[id].cutoff <= Cutoff(on, execution)
  <2>1. CASE plan.panel
    <3>1. Year[on] = Year[registry[id].start]
      BY <2>1 DEF TakeSignal, InBook
    <3>2. registry[id].start <= on
      BY <2>1, <3>1 DEF TrainingInv, YearlyModels, StartsYear
    <3>3. /\ registry[id].start \in Int /\ registry[id].cutoff \in Int
          /\ registry[id].cutoff < registry[id].start
      BY DEF TrainingInv, SoundModel
    <3> QED
      BY <1>2, <3>2, <3>3
  <2>2. CASE ~ plan.panel
    BY <2>2 DEF TakeSignal, Usable
  <2> QED
    BY <2>1, <2>2
<1>4. SignalsSound'
  BY <1>1, <1>2, <1>3 DEF TrainingInv, SignalsSound
<1>5. SamplingOK' /\ TrainerOK' /\ StagedSound' /\ YearlyModels'
      /\ (\A i \in DOMAIN registry : registry[i] \in SoundModel)'
  BY <1>1, StagedStays DEF TrainingInv, SamplingOK, TrainerOK, YearlyModels, StartsYear
<1> QED
  BY <1>4, <1>5 DEF TrainingInv

LEMMA TrainingStepInv == TrainingInv /\ [TrainingNext]_trainingVars => TrainingInv'
<1> SUFFICES ASSUME TrainingInv, [TrainingNext]_trainingVars PROVE TrainingInv'
  OBVIOUS
<1>1. CASE TrainingFails \/ TrainingEnds \/ KillTrainer \/ PublishPredictions
  <2>1. trainer' = Idle /\ UNCHANGED <<bars, plan, registry, signals>>
    BY <1>1 DEF TrainingFails, TrainingEnds, KillTrainer, PublishPredictions
  <2> QED
    BY <2>1, IdleInv
<1>2. CASE PublishModels /\ signals = {}
  <2>1. registry' = trainer.staged /\ UNCHANGED <<bars, plan, trainer, signals>>
    BY <1>2 DEF PublishModels
  <2>2. SamplingOK' /\ TrainerOK' /\ StagedSound'
    BY <2>1, StagedStays DEF TrainingInv, SamplingOK, TrainerOK
  <2>3. SignalsSound' /\ (\A id \in DOMAIN registry : registry[id] \in SoundModel)'
    BY <1>2, <2>1 DEF TrainingInv, StagedSound, SignalsSound
  <2>4. YearlyModels'
    BY <2>1 DEF TrainingInv, YearlyModels, StartsYear
  <2> QED
    BY <2>2, <2>3, <2>4 DEF TrainingInv
<1>3. CASE UNCHANGED trainingVars
  <2>1. YearlyModels'
    BY <1>3 DEF trainingVars, TrainingInv, YearlyModels, StartsYear
  <2> QED
    BY <1>3, <2>1, StagedStays DEF trainingVars, TrainingInv, SamplingOK, TrainerOK, SignalsSound
<1> QED
  BY <1>1, <1>2, <1>3, TrainInv, RegisterInv, StageInv, TakeSignalInv DEF TrainingNext

\* No label of a model's training needs a price of the days the model is judged on, and no
\* signal one from after its cutoff.
LEMMA PricesInside ==
    ASSUME SamplingOK, NEW s \in Labelled, NEW d \in PricesOf(s)
    PROVE  d \in Int /\ s.last \in Int /\ d <= s.last
<1>1. bars[s.code] \in SUBSET (1 .. LastSession) /\ s.last \in Int
  BY TrainingAssumption DEF SamplingOK, Labelled
<1> QED
  BY <1>1 DEF PricesOf

\* For either way to split, any calendar, suspensions, plans and timings: no model learns
\* from a price of the days it is validated on, before or inside its training set, and no
\* signal rests on a model that knows a price from after the cutoff of the decision.
THEOREM NothingLeaks == TrainingSpec => []NoLeakage
<1>1. ASSUME TrainingInv PROVE NoLeakage
  <2>1. SamplingOK
    BY <1>1 DEF TrainingInv
  <2>2. ASSUME NEW id \in DOMAIN registry, NEW s \in registry[id].training, NEW d \in PricesOf(s)
        PROVE  d < registry[id].start /\ d \in Int /\ d <= registry[id].cutoff
               /\ registry[id].cutoff \in Int
    <3>1. /\ s \in Labelled /\ s.last < registry[id].start /\ registry[id].start \in Int
          /\ s.last <= registry[id].cutoff /\ registry[id].cutoff \in Int
      BY <1>1 DEF TrainingInv, SoundModel
    <3>2. d \in Int /\ s.last \in Int /\ d <= s.last
      BY <2>1, <3>1, PricesInside
    <3> QED
      BY <3>1, <3>2
  <2>3. ASSUME NEW id \in DOMAIN trainer.staged,
               NEW s \in Fitted(trainer.staged[id].training).fit, NEW d \in PricesOf(s)
        PROVE  d < Fitted(trainer.staged[id].training).start
    <3> DEFINE training == trainer.staged[id].training
               start == Fitted(training).start
    <3>1. training \in SUBSET Labelled /\ plan.panel /\ ~ TooFew(training)
      BY <1>1 DEF TrainingInv, StagedSound, SoundModel
    <3>2. start \in 1 .. LastSession
      BY <2>1, <3>1, FittedStart
    <3>3. s \in Purged(training, start)
      BY DEF Fitted
    <3> HIDE DEF start, training
    <3>4. s \in Labelled /\ s.last < start
      BY <3>1, <3>3 DEF Purged
    <3>5. d \in Int /\ s.last \in Int /\ d <= s.last
      BY <2>1, <3>4, PricesInside
    <3>6. d < start
      BY <3>2, <3>4, <3>5
    <3> QED
      BY <3>6 DEF start, training
  <2>4. ASSUME NEW g \in signals
        PROVE  \A s \in registry[g.model].training : \A d \in PricesOf(s) : d <= g.cutoff
    <3>1. /\ g.cutoff \in Int
          /\ g.model \in DOMAIN registry /\ registry[g.model].cutoff <= g.cutoff
      BY <1>1 DEF TrainingInv, SignalsSound
    <3> QED
      BY <2>2, <3>1
  <2> QED
    BY <2>2, <2>3, <2>4 DEF NoLeakage
<1>2. TrainingSpec => []TrainingInv
  BY TrainingInitInv, TrainingStepInv, PTL DEF TrainingSpec
<1> QED
  BY <1>1, <1>2, PTL

-----------------------------------------------------------------------------
(* Part 3.                                                                  *)
(* Steps that stay in a set, one after the other.                           *)

Iterated(N, X, start, move) ==
    \E g \in [0 .. N -> X] : g[0] = start /\ \A n \in 1 .. N : g[n] = move[n][g[n - 1]]

\* There is a function that takes each step from where the last one led.
LEMMA IteratesExist ==
    ASSUME NEW N \in Nat, NEW X, NEW start \in X, NEW move \in [1 .. N -> [X -> X]]
    PROVE  Iterated(N, X, start, move)
<1> USE DEF Iterated
<1> DEFINE Upto(k, g) == /\ g \in [0 .. k -> X] /\ g[0] = start
                         /\ \A n \in 1 .. k : g[n] = move[n][g[n - 1]]
           Missing == {k \in 0 .. N : \A g \in [0 .. k -> X] : ~ Upto(k, g)}
<1>1. SUFFICES ASSUME Missing # {} PROVE FALSE
  <2>1. N \in 0 .. N
    OBVIOUS
  <2> QED
    BY <2>1
<1>2. Missing \in SUBSET Nat
  OBVIOUS
<1>3. PICK k \in Missing : \A l \in Missing : k <= l
  BY <1>1, <1>2, NatMinimum
<1>4. CASE k = 0
  <2> DEFINE g == [n \in 0 .. 0 |-> start]
  <2>1. g \in [0 .. 0 -> X] /\ g[0] = start
    OBVIOUS
  <2>2. Upto(0, g)
    BY <2>1
  <2> HIDE DEF g
  <2> QED
    BY <1>3, <1>4, <2>1, <2>2
<1>5. CASE k # 0
  <2>0. k \in 0 .. N
    OBVIOUS
  <2>1. k - 1 \in 0 .. N /\ k \in 1 .. N /\ k - 1 \notin Missing
    <3> HIDE DEF Missing
    <3> QED
      BY <1>3, <1>5, <2>0
  <2>2. PICK g \in [0 .. k - 1 -> X] : Upto(k - 1, g)
    BY <2>1
  <2> DEFINE h == [n \in 0 .. k |-> IF n = k THEN move[k][g[k - 1]] ELSE g[n]]
  <2>3. move[k] \in [X -> X] /\ g[k - 1] \in X
    BY <2>1
  <2>4. move[k][g[k - 1]] \in X
    BY <2>3
  <2>5. h \in [0 .. k -> X]
    <3>1. ASSUME NEW n \in 0 .. k PROVE h[n] \in X
      <4>1. CASE n = k
        BY <2>4, <4>1
      <4>2. CASE n # k
        <5>1. n \in 0 .. k - 1
          BY <2>1, <4>2
        <5> QED
          BY <4>2, <5>1
      <4> QED
        BY <4>1, <4>2
    <3> QED
      BY <3>1
  <2>6. h[0] = start
    BY <2>1, <2>2
  <2>7. ASSUME NEW n \in 1 .. k PROVE h[n] = move[n][h[n - 1]]
    <3>1. n - 1 \in 0 .. k - 1 /\ n - 1 # k /\ n - 1 \in 0 .. k /\ n \in 0 .. k
      BY <2>1
    <3>2. h[n - 1] = g[n - 1]
      BY <3>1
    <3>3. CASE n = k
      BY <3>1, <3>2, <3>3
    <3>4. CASE n # k
      <4>1. n \in 1 .. k - 1
        BY <2>1, <3>4
      <4>2. h[n] = g[n]
        BY <3>1, <3>4
      <4> QED
        BY <2>2, <3>2, <4>1, <4>2
    <3> QED
      BY <3>3, <3>4
  <2>8. Upto(k, h)
    <3> HIDE DEF h
    <3> QED
      BY <2>5, <2>6, <2>7
  <2> HIDE DEF h
  <2> QED
    BY <1>3, <2>5, <2>8
<1> QED
  BY <1>4, <1>5

\* What one step keeps, all keep.
LEMMA IteratesStay ==
    ASSUME NEW N \in Nat, NEW X, NEW g, g[0] \in X,
           \A n \in 1 .. N : g[n - 1] \in X => g[n] \in X
    PROVE  \A n \in 0 .. N : g[n] \in X
<1> DEFINE Out == {n \in 0 .. N : g[n] \notin X}
<1>1. SUFFICES ASSUME Out # {} PROVE FALSE
  OBVIOUS
<1>2. Out \in SUBSET Nat
  OBVIOUS
<1>3. PICK n \in Out : \A l \in Out : n <= l
  BY <1>1, <1>2, NatMinimum
<1>4. n # 0
  OBVIOUS
<1>5. n \in 1 .. N /\ n - 1 \in 0 .. N /\ n - 1 \notin Out
  BY <1>2, <1>3, <1>4
<1> QED
  BY <1>5

-----------------------------------------------------------------------------
(* Books.                                                                   *)

\* A portfolio: no weight is negative.
Books == UNION {[D -> Nat] : D \in SUBSET Codes}

LEMMA CodesFinite == IsFiniteSet(Codes) /\ \A D \in SUBSET Codes : IsFiniteSet(D)
BY PipelineAssumption, FS_Subset

LEMMA BookOf ==
    ASSUME NEW b \in Books
    PROVE  DOMAIN b \in SUBSET Codes /\ b \in [DOMAIN b -> Nat] /\ b \in [DOMAIN b -> Int]
<1>1. PICK D \in SUBSET Codes : b \in [D -> Nat]
  BY DEF Books
<1>2. DOMAIN b = D
  BY <1>1
<1> QED
  BY <1>1, <1>2

\* The sums of weights are numbers.
LEMMA WeighedType ==
    ASSUME NEW D \in SUBSET Codes, NEW b \in [D -> Int]
    PROVE  /\ Invested(b) = Sum(b, D) /\ Invested(b) \in Int
           /\ \A f, group : GroupWeight(b, f, group) \in Int
<1>1. IsFiniteSet(D) /\ DOMAIN b = D
  BY CodesFinite
<1>2. Invested(b) = Sum(b, D) /\ Invested(b) \in Int
  <2>1. D \in SUBSET D
    OBVIOUS
  <2> QED
    BY <1>1, <2>1, FoldIsSum DEF Invested, SumFunction
<1>3. ASSUME NEW f, NEW group PROVE GroupWeight(b, f, group) \in Int
  <2> DEFINE members == {c \in DOMAIN b \intersect DOMAIN f : f[c] = group}
  <2>1. members \in SUBSET D
    BY <1>1
  <2> HIDE DEF members
  <2>2. SumFunctionOnSet(b, members) \in Int
    BY <1>1, <2>1, FoldIsSum
  <2> QED
    BY <2>2 DEF GroupWeight, members
<1> QED
  BY <1>2, <1>3

\* A group nobody belongs to holds nothing.
LEMMA NoMembers ==
    ASSUME NEW D \in SUBSET Codes, NEW b \in [D -> Int], NEW f, NEW group,
           \A c \in D \intersect DOMAIN f : f[c] # group
    PROVE  GroupWeight(b, f, group) = 0
<1>1. IsFiniteSet(D) /\ DOMAIN b = D /\ {} \in SUBSET D
  BY CodesFinite
<1>2. {c \in DOMAIN b \intersect DOMAIN f : f[c] = group} = {}
  BY <1>1
<1>3. Sum(b, {}) = 0
  <2> DEFINE none == [x \in D |-> IF x \in {} THEN b[x] ELSE 0]
  <2>1. none \in [D -> Int] /\ \A x \in D : none[x] = 0
    OBVIOUS
  <2>2. Sum(none, D) = 0
    BY <2>1, SumZero
  <2> QED
    BY <1>1, <2>2, SumMask
<1> QED
  BY <1>1, <1>2, <1>3, FoldIsSum DEF GroupWeight

-----------------------------------------------------------------------------
(* The redistribution gives to the codes of the candidate only.             *)

\* At most one number.
Single(A) == A = {} \/ \E x \in Int : A = {x}

LEMMA MinWithSingles ==
    ASSUME NEW a \in Int, NEW A, NEW B, Single(A), Single(B)
    PROVE  Min({a} \union A \union B) \in Int
<1>1. PICK m \in Int : m \in {a} \union A /\ \A y \in {a} \union A : m <= y
  <2>1. CASE A = {}
    BY <2>1
  <2>2. ASSUME NEW x \in Int, A = {x}
        PROVE  \E m \in Int : m \in {a} \union A /\ \A y \in {a} \union A : m <= y
    <3>1. CASE a <= x
      BY <2>2, <3>1
    <3>2. CASE x <= a
      BY <2>2, <3>2
    <3> QED
      BY <3>1, <3>2
  <2> QED
    BY <2>1, <2>2 DEF Single
<1> DEFINE S == {a} \union A \union B
<1>2. \E l \in S : l \in Int /\ \A y \in S : l <= y
  <2>1. CASE B = {}
    BY <1>1, <2>1
  <2>2. ASSUME NEW x \in Int, B = {x}
        PROVE  \E l \in S : l \in Int /\ \A y \in S : l <= y
    <3>1. \A y \in {a} \union A : y \in Int
      BY DEF Single
    <3>2. CASE m <= x
      BY <1>1, <2>2, <3>2
    <3>3. CASE x <= m
      <4>1. \A y \in {a} \union A : x <= y
        BY <1>1, <3>1, <3>3
      <4> QED
        BY <2>2, <4>1
    <3> QED
      BY <3>2, <3>3
  <2> QED
    BY <2>1, <2>2 DEF Single
<1>3. S \in SUBSET Int
  BY DEF Single
<1>4. Min(S) \in S
  <2> HIDE DEF S
  <2> QED
    BY <1>2 DEF Min
<1> QED
  BY <1>3, <1>4

LEMMA RulesKnown ==
    ASSUME NEW r \in RuleSets
    PROVE  /\ r.maxCash \in Int /\ r.minCash \in Int /\ 0 <= r.minCash /\ r.minCash <= r.maxCash
           /\ r.maxCash <= Unit /\ Unit \in Nat \ {0}
           /\ r.maxInstrument \in Nat
           /\ r.maxIndustry # None => r.maxIndustry \in Nat
           /\ r.maxTurnover # None => r.maxTurnover \in Nat \ {0}
           /\ \A t \in DOMAIN r.maxAsset : r.maxAsset[t] \in Nat
<1>1. RulesAccepted(r) /\ Unit \in Nat \ {0}
  BY PipelineAssumption, ConstraintsAssumption
<1> QED
  BY <1>1 DEF RulesAccepted

LEMMA RoomType ==
    ASSUME NEW r \in RuleSets, NEW D \in SUBSET Codes, NEW b \in [D -> Int], NEW c \in D
    PROVE  Room(r, b, c) \in Int
<1> DEFINE A == IF r.maxIndustry = None THEN {}
                ELSE {r.maxIndustry - GroupWeight(b, Industry, Industry[c])}
           B == {r.maxAsset[t] - GroupWeight(b, AssetType, t) :
                    t \in DOMAIN r.maxAsset \intersect {AssetType[c]}}
<1>1. Single(A)
  <2>1. CASE r.maxIndustry = None
    BY <2>1 DEF Single
  <2>2. CASE r.maxIndustry # None
    <3>1. PICK x : x = GroupWeight(b, Industry, Industry[c])
      OBVIOUS
    <3>2. x \in Int
      BY <3>1, WeighedType
    <3>3. r.maxIndustry - x \in Int
      BY <2>2, <3>2, RulesKnown
    <3> QED
      BY <2>2, <3>1, <3>3 DEF Single
  <2> QED
    BY <2>1, <2>2
<1>2. Single(B)
  <2>1. CASE AssetType[c] \notin DOMAIN r.maxAsset
    <3>1. B = {}
      BY <2>1
    <3> QED
      BY <3>1 DEF Single
  <2>2. CASE AssetType[c] \in DOMAIN r.maxAsset
    <3>1. PICK x : x = GroupWeight(b, AssetType, AssetType[c])
      OBVIOUS
    <3>2. x \in Int
      BY <3>1, WeighedType
    <3>3. PICK y : y = r.maxAsset[AssetType[c]]
      OBVIOUS
    <3>4. y \in Int
      BY <2>2, <3>3, RulesKnown
    <3>5. B = {y - x}
      BY <2>2, <3>1, <3>3
    <3>6. y - x \in Int
      BY <3>2, <3>4
    <3> QED
      BY <3>5, <3>6 DEF Single
  <2> QED
    BY <2>1, <2>2
<1>3. r.maxInstrument - b[c] \in Int
  BY RulesKnown
<1>4. Min({r.maxInstrument - b[c]} \union A \union B) \in Int
  <2> HIDE DEF A, B
  <2> QED
    BY <1>1, <1>2, <1>3, MinWithSingles
<1> QED
  BY <1>4 DEF Room

LEMMA GrantType ==
    ASSUME NEW room \in Int, NEW proposed \in Int
    PROVE  Grant(room, proposed) \in Int
<1>1. \E m \in {0, room} : \A y \in {0, room} : m >= y
  <2>1. CASE room <= 0
    BY <2>1
  <2>2. CASE room >= 0
    BY <2>2
  <2> QED
    BY <2>1, <2>2
<1>2. Max({0, room}) \in {0, room}
  BY <1>1 DEF Max
<1>3. PICK m \in Int : m = Max({0, room})
  BY <1>2
<1>4. \E l \in {m, proposed} : \A y \in {m, proposed} : l <= y
  <2>1. CASE m <= proposed
    BY <2>1
  <2>2. CASE proposed <= m
    BY <2>2
  <2> QED
    BY <2>1, <2>2
<1>5. Min({m, proposed}) \in {m, proposed}
  BY <1>4 DEF Min
<1> QED
  BY <1>3, <1>5 DEF Grant

\* What a pass works on.
Stages(D) == [book : [D -> Int], remaining : Int, active : SUBSET D, progressed : BOOLEAN]

LEMMA GiveToType ==
    ASSUME NEW r \in RuleSets, NEW D \in SUBSET Codes, NEW w \in [D -> Int],
           NEW base \in Nat \ {0}, NEW s \in Stages(D), NEW c \in D
    PROVE  GiveTo(r, w, base, s, c) \in Stages(D)
<1>1. /\ s.book \in [D -> Int] /\ s.remaining \in Int /\ s.active \in SUBSET D
      /\ s.progressed \in BOOLEAN
  BY DEF Stages
<1>2. PICK proposed \in Int : proposed = (s.remaining * w[c]) \div base
  <2>1. w[c] \in Int
    OBVIOUS
  <2>2. PICK m \in Int : m = s.remaining * w[c]
    BY <1>1, <2>1
  <2>3. m \div base \in Int
    OBVIOUS
  <2> QED
    BY <2>2, <2>3
<1>3. PICK room \in Int : room = Room(r, s.book, c)
  BY <1>1, RoomType
<1>4. PICK added \in Int : added = Grant(room, proposed)
  BY GrantType
<1> DEFINE given == [book |-> [s.book EXCEPT ![c] = @ + added],
                     remaining |-> s.remaining - added,
                     active |-> IF room <= proposed THEN s.active \ {c} ELSE s.active,
                     progressed |-> s.progressed \/ added > 0]
<1>5. [s.book EXCEPT ![c] = @ + added] \in [D -> Int]
  BY <1>1
<1>6. given \in Stages(D)
  BY <1>1, <1>5 DEF Stages
<1>7. GiveTo(r, w, base, s, c) = given
  BY <1>2, <1>3, <1>4 DEF GiveTo
<1> QED
  BY <1>6, <1>7

\* The total of weights that are all positive.
LEMMA PositiveBase ==
    ASSUME NEW D \in SUBSET Codes, NEW w \in [D -> Nat \ {0}], NEW T \in SUBSET D, T # {}
    PROVE  SumFunctionOnSet(w, T) \in Nat \ {0}
<1>1. IsFiniteSet(D) /\ w \in [D -> Int]
  BY CodesFinite
<1>2. SumFunctionOnSet(w, T) = Sum(w, T)
  BY <1>1, FoldIsSum
<1> DEFINE m == [x \in D |-> IF x \in T THEN w[x] ELSE 0]
<1>3. m \in [D -> Nat]
  OBVIOUS
<1>4. Sum(w, T) = Sum(m, D)
  BY <1>1, SumMask
<1>5. PICK x \in T : m[x] = w[x] /\ w[x] \in Nat \ {0} /\ x \in D
  OBVIOUS
<1> HIDE DEF m
<1>6. Sum(m, D) \in Nat /\ m[x] <= Sum(m, D)
  BY <1>1, <1>3, <1>5, SumNat
<1> QED
  BY <1>2, <1>4, <1>5, <1>6

LEMMA PassType ==
    ASSUME NEW r \in RuleSets, NEW D \in SUBSET Codes, NEW w \in [D -> Nat \ {0}],
           NEW s \in Stages(D), s.active # {}
    PROVE  Pass(r, w, s) \in Stages(D)
<1>1. s.active \in SUBSET D /\ s.active \in SUBSET Int /\ IsFiniteSet(s.active)
  BY CodesFinite, PipelineAssumption DEF Stages
<1>2. PICK N \in Nat : N = Cardinality(s.active)
  BY <1>1, FS_CardinalityType
<1>3. PICK turns : turns = Ascending(s.active) /\ \A n \in 1 .. N : turns[n] \in D
  BY <1>1, <1>2, AscendingType
<1>4. PICK base \in Nat \ {0} : base = SumFunctionOnSet(w, s.active)
  BY <1>1, PositiveBase
<1>5. PICK start \in Stages(D) : start = [s EXCEPT !.progressed = FALSE]
  BY DEF Stages
<1> DEFINE Follow(n, t) == GiveTo(r, w, base, t, turns[n])
           steps == [n \in 1 .. N |-> [t \in Stages(D) |-> Follow(n, t)]]
           Given(g) == [n \in 0 .. N |-> IF n = 0 THEN start ELSE Follow(n, g[n - 1])]
<1>6. ASSUME NEW n \in 1 .. N, NEW t \in Stages(D) PROVE Follow(n, t) \in Stages(D)
  <2>1. w \in [D -> Int] /\ turns[n] \in D
    BY <1>3
  <2> QED
    BY <2>1, GiveToType
<1> HIDE DEF Follow
<1>7. steps \in [1 .. N -> [Stages(D) -> Stages(D)]]
  BY <1>6
<1>8. PICK g \in [0 .. N -> Stages(D)] :
         g[0] = start /\ \A n \in 1 .. N : g[n] = steps[n][g[n - 1]]
  <2> HIDE DEF steps
  <2> QED
    <3>1. Iterated(N, Stages(D), start, steps)
      BY <1>7, IteratesExist
    <3> QED
      BY <3>1 DEF Iterated
<1>9. g = Given(g)
  <2>1. ASSUME NEW n \in 0 .. N, n # 0 PROVE g[n] = Follow(n, g[n - 1])
    <3>1. n \in 1 .. N /\ n - 1 \in 0 .. N
      BY <2>1
    <3>2. g[n - 1] \in Stages(D)
      BY <3>1
    <3> QED
      BY <1>8, <3>1, <3>2
  <2> QED
    BY <1>8, <2>1
<1> DEFINE h == CHOOSE f : f = Given(f)
<1>10. h = Given(h)
  <2> HIDE DEF Given
  <2> QED
    BY <1>9
<1>11. Pass(r, w, s) = h[N]
  BY <1>2, <1>3, <1>4, <1>5 DEF Pass, Follow
<1> HIDE DEF h
<1>12. ASSUME NEW n \in 1 .. N, h[n - 1] \in Stages(D) PROVE h[n] \in Stages(D)
  <2>1. h[n] = Follow(n, h[n - 1])
    BY <1>10
  <2> QED
    BY <1>6, <1>12, <2>1
<1>13. h[0] \in Stages(D)
  BY <1>10
<1>14. \A n \in 0 .. N : h[n] \in Stages(D)
  BY <1>12, <1>13, IteratesStay
<1> QED
  BY <1>11, <1>14

\* What is left of a book when what weighs nothing is out.
LEMMA PositiveType ==
    ASSUME NEW b, \A c \in DOMAIN b : b[c] \in Int
    PROVE  LET E == {c \in DOMAIN b : b[c] > 0}
           IN  Positive(b) \in [E -> Nat \ {0}] /\ \A c \in E : Positive(b)[c] = b[c]
<1> DEFINE E == {c \in DOMAIN b : b[c] > 0}
<1>1. Positive(b) = [c \in E |-> b[c]]
  BY DEF Positive, RestrictValues, Restrict
<1>2. \A c \in E : b[c] \in Nat \ {0}
  OBVIOUS
<1> QED
  BY <1>1, <1>2

LEMMA RedistributedType ==
    ASSUME NEW r \in RuleSets, NEW D \in SUBSET Codes, NEW w \in [D -> Nat \ {0}],
           NEW target \in Int
    PROVE  \E E \in SUBSET D : Redistributed(r, w, target) \in [E -> Nat \ {0}]
<1>1. DOMAIN w = D /\ IsFiniteSet(D)
  BY CodesFinite
<1>2. PICK N \in Nat : N = Passes(w)
  <2>1. Cardinality(D) \in Nat
    BY <1>1, FS_CardinalityType
  <2> QED
    BY <1>1, <2>1 DEF Passes
<1> DEFINE start == [book |-> [c \in DOMAIN w |-> 0], remaining |-> target,
                     active |-> DOMAIN w, progressed |-> TRUE]
           Follow(s) == IF s.remaining <= 0 \/ s.active = {} \/ ~ s.progressed THEN s
                       ELSE Pass(r, w, s)
           steps == [n \in 1 .. N |-> [t \in Stages(D) |-> Follow(t)]]
           Passed(g) == [n \in 0 .. N |-> IF n = 0 THEN start ELSE Follow(g[n - 1])]
<1>3. start \in Stages(D)
  <2>1. [c \in DOMAIN w |-> 0] \in [D -> Int]
    BY <1>1
  <2> QED
    BY <1>1, <2>1 DEF Stages
<1>4. ASSUME NEW t \in Stages(D) PROVE Follow(t) \in Stages(D)
  BY PassType
<1> HIDE DEF Follow
<1>5. steps \in [1 .. N -> [Stages(D) -> Stages(D)]]
  BY <1>4
<1>6. PICK g \in [0 .. N -> Stages(D)] :
         g[0] = start /\ \A n \in 1 .. N : g[n] = steps[n][g[n - 1]]
  <2> HIDE DEF steps, start
  <2> QED
    <3>1. Iterated(N, Stages(D), start, steps)
      BY <1>3, <1>5, IteratesExist
    <3> QED
      BY <3>1 DEF Iterated
<1>7. g = Passed(g)
  <2> HIDE DEF start
  <2>1. ASSUME NEW n \in 0 .. N, n # 0 PROVE g[n] = Follow(g[n - 1])
    <3>1. n \in 1 .. N /\ n - 1 \in 0 .. N
      BY <2>1
    <3>2. g[n - 1] \in Stages(D)
      BY <3>1
    <3> QED
      BY <1>6, <3>1, <3>2
  <2> QED
    BY <1>6, <2>1
<1> DEFINE h == CHOOSE f : f = Passed(f)
<1>8. h = Passed(h)
  <2> HIDE DEF Passed
  <2> QED
    BY <1>7
<1>9. Redistributed(r, w, target) = Positive(h[N].book)
  BY <1>2 DEF Redistributed, Follow
<1> HIDE DEF h, start
<1>10. ASSUME NEW n \in 1 .. N, h[n - 1] \in Stages(D) PROVE h[n] \in Stages(D)
  <2>1. h[n] = Follow(h[n - 1])
    BY <1>8
  <2> QED
    BY <1>4, <1>10, <2>1
<1>11. h[0] \in Stages(D)
  BY <1>3, <1>8
<1>12. \A n \in 0 .. N : h[n] \in Stages(D)
  BY <1>10, <1>11, IteratesStay
<1>13. PICK b \in [D -> Int] : b = h[N].book
  BY <1>12 DEF Stages
<1> DEFINE E == {c \in DOMAIN b : b[c] > 0}
<1>14. E \in SUBSET D /\ Positive(b) \in [E -> Nat \ {0}]
  BY PositiveType
<1> QED
  BY <1>9, <1>13, <1>14

LEMMA ScaledType ==
    ASSUME NEW r \in RuleSets, NEW D \in SUBSET Codes, NEW b \in [D -> Nat \ {0}]
    PROVE  \E E \in SUBSET D : Scaled(r, b) \in [E -> Nat \ {0}]
<1>1. PICK budget \in Nat : budget = Unit - r.minCash
  BY RulesKnown
<1>2. PICK sum \in Int : sum = Invested(b)
  <2>1. b \in [D -> Int]
    OBVIOUS
  <2> QED
    BY <2>1, WeighedType
<1>3. CASE sum > budget
  <2> DEFINE f == [c \in DOMAIN b |-> (b[c] * budget) \div sum]
             E == {c \in DOMAIN f : f[c] > 0}
  <2>1. sum \in Nat \ {0}
    BY <1>3
  <2>2. \A c \in DOMAIN f : f[c] \in Int
    <3> TAKE c \in DOMAIN f
    <3>1. b[c] \in Nat
      OBVIOUS
    <3>2. PICK m \in Nat : m = b[c] * budget
      BY <3>1
    <3>3. m \div sum \in Int
      BY <2>1
    <3> QED
      BY <3>2, <3>3
  <2>3. E \in SUBSET D
    OBVIOUS
  <2>4. Scaled(r, b) = Positive(f)
    BY <1>1, <1>2, <1>3 DEF Scaled
  <2> HIDE DEF f
  <2>5. Positive(f) \in [E -> Nat \ {0}]
    BY <2>2, PositiveType
  <2> QED
    BY <2>3, <2>4, <2>5
<1>4. CASE ~ (sum > budget)
  <2>1. Scaled(r, b) = b
    BY <1>1, <1>2, <1>4 DEF Scaled
  <2> QED
    BY <2>1
<1> QED
  BY <1>3, <1>4

\* What is dropped for the number of holdings, or for its size, is dropped as a whole.
LEMMA DroppedType ==
    ASSUME NEW r \in RuleSets, NEW D \in SUBSET Codes, NEW b \in [D -> Nat \ {0}]
    PROVE  /\ \E E \in SUBSET D : Largest(r, b) \in [E -> Nat \ {0}]
           /\ \E E \in SUBSET D : WithoutFragments(r, b) \in [E -> Nat \ {0}]
<1>1. ASSUME NEW E \in SUBSET D PROVE Restrict(b, E) \in [E -> Nat \ {0}]
  BY DEF Restrict
<1>2. \E E \in SUBSET D : Largest(r, b) \in [E -> Nat \ {0}]
  <2> DEFINE kept == {c \in DOMAIN b : Cardinality(Heavier(b, c)) < r.maxHoldings}
  <2>1. kept \in SUBSET D
    OBVIOUS
  <2>2. Largest(r, b) = b \/ Largest(r, b) = Restrict(b, kept)
    BY DEF Largest, RestrictDomain
  <2> HIDE DEF kept
  <2> QED
    BY <1>1, <2>1, <2>2
<1>3. \E E \in SUBSET D : WithoutFragments(r, b) \in [E -> Nat \ {0}]
  <2> DEFINE kept == {c \in DOMAIN b : b[c] >= r.minTarget}
  <2>1. kept \in SUBSET D
    OBVIOUS
  <2>2. WithoutFragments(r, b) = Restrict(b, kept)
    BY DEF WithoutFragments, RestrictValues
  <2> HIDE DEF kept
  <2> QED
    BY <1>1, <2>1, <2>2
<1> QED
  BY <1>2, <1>3

LEMMA ShapedType ==
    ASSUME NEW r \in RuleSets, NEW D \in SUBSET Codes, NEW w \in [D -> Nat \ {0}]
    PROVE  \E E \in SUBSET D : Shaped(r, w) \in [E -> Nat \ {0}]
<1>1. PICK sum \in Int : sum = Invested(w)
  <2>1. w \in [D -> Int]
    OBVIOUS
  <2> QED
    BY <2>1, WeighedType
<1>2. PICK D1 \in SUBSET D : Redistributed(r, w, sum) \in [D1 -> Nat \ {0}]
  BY RedistributedType
<1>3. PICK b1 \in [D1 -> Nat \ {0}] : b1 = Redistributed(r, w, sum)
  BY <1>2
<1>4. D1 \in SUBSET Codes
  OBVIOUS
<1>5. PICK D2 \in SUBSET D1 : Largest(r, b1) \in [D2 -> Nat \ {0}]
  BY <1>4, DroppedType
<1>6. PICK b2 \in [D2 -> Nat \ {0}] : b2 = Largest(r, b1)
  BY <1>5
<1>7. D2 \in SUBSET Codes
  OBVIOUS
<1>8. PICK D3 \in SUBSET D2 : WithoutFragments(r, b2) \in [D3 -> Nat \ {0}]
  BY <1>7, DroppedType
<1>9. Shaped(r, w) = WithoutFragments(r, b2)
  BY <1>1, <1>3, <1>6 DEF Shaped
<1> QED
  BY <1>8, <1>9

-----------------------------------------------------------------------------
(* The turnover.                                                            *)

\* A quotient that rounds down is off by less than one.
LEMMA RoundedDown ==
    ASSUME NEW n \in Int, NEW d \in Nat \ {0}, NEW q \in Int, q = n \div d
    PROVE  d * q <= n /\ n < d * q + d
OBVIOUS

ShiftBounds(T, M, x, q) ==
    IF q >= 0 THEN x >= 0 /\ T * q <= 2 * M * x
    ELSE x < 0 /\ T * (-q) <= 2 * M * (-x) + T

LEMMA ShiftRounded ==
    ASSUME NEW T \in Nat \ {0}, NEW M \in Nat \ {0}, NEW x \in Int
    PROVE  ShiftBounds(T, M, x, (2 * M * x) \div T)
<1>1. PICK n \in Int : n = 2 * M * x
  OBVIOUS
<1>2. PICK q \in Int : q = n \div T
  OBVIOUS
<1>3. PICK p \in Int : p = T * q
  OBVIOUS
<1>4. p <= n /\ n < p + T
  BY <1>2, <1>3, RoundedDown
<1>5. T * (-q) = -p /\ 2 * M * (-x) = -n
  BY <1>1, <1>3
<1>6. CASE q >= 0
  <2>1. p >= 0
    BY <1>3, <1>6
  <2>2. x >= 0
    <3> SUFFICES ASSUME x < 0 PROVE FALSE
      OBVIOUS
    <3>1. n < 0
      BY <1>1
    <3> QED
      BY <1>4, <2>1, <3>1
  <2> QED
    BY <1>1, <1>2, <1>3, <1>4, <1>6, <2>2 DEF ShiftBounds
<1>7. CASE ~ (q >= 0)
  <2>1. p + T <= 0
    <3>1. q + 1 <= 0
      BY <1>7
    <3>2. T * (q + 1) <= 0
      BY <3>1
    <3>3. T * (q + 1) = p + T
      BY <1>3
    <3> QED
      BY <3>2, <3>3
  <2>2. x < 0
    <3> SUFFICES ASSUME x >= 0 PROVE FALSE
      OBVIOUS
    <3>1. n >= 0
      BY <1>1
    <3> QED
      BY <1>4, <2>1, <3>1
  <2> QED
    BY <1>1, <1>2, <1>4, <1>5, <1>7, <2>2 DEF ShiftBounds
<1> QED
  BY <1>6, <1>7

\* What a code contributes to a turnover.
Distance(b, c, other) ==
    LET d == Weight(b, c) - Weight(other, c) IN IF d < 0 THEN -d ELSE d

LEMMA WeightType ==
    ASSUME NEW b \in Books, NEW c
    PROVE  Weight(b, c) \in Nat
BY BookOf DEF Weight

\* Codes in neither book may be counted or not.
LEMMA TurnoverSum ==
    ASSUME NEW b \in Books, NEW other \in Books, NEW U \in SUBSET Codes,
           DOMAIN b \union DOMAIN other \subseteq U
    PROVE  /\ [c \in U |-> Distance(b, c, other)] \in [U -> Nat]
           /\ Turnover(b, other) = Sum([c \in U |-> Distance(b, c, other)], U)
           /\ Turnover(b, other) \in Nat
<1> DEFINE V == DOMAIN b \union DOMAIN other
           f == [c \in V |-> Distance(b, c, other)]
           g == [c \in U |-> Distance(b, c, other)]
<1>1. \A c : Distance(b, c, other) \in Nat
  <2> TAKE c
  <2>1. Weight(b, c) \in Nat /\ Weight(other, c) \in Nat
    BY WeightType
  <2> QED
    BY <2>1 DEF Distance
<1>2. f \in [V -> Int] /\ g \in [U -> Int] /\ g \in [U -> Nat] /\ V \in SUBSET U
  BY <1>1
<1>3. IsFiniteSet(V) /\ IsFiniteSet(U)
  BY <1>2, CodesFinite, FS_Subset
<1>4. Turnover(b, other) = SumFunctionOnSet(f, V)
  BY DEF Turnover, SumFunction, Distance
<1>5. SumFunctionOnSet(f, V) = Sum(f, V)
  <2>1. V \in SUBSET V
    OBVIOUS
  <2> HIDE DEF f, V
  <2> QED
    BY <1>2, <1>3, <2>1, FoldIsSum
<1>6. Sum(f, V) = Sum(g, V)
  <2>1. \A c \in V : f[c] = g[c]
    BY <1>2
  <2> HIDE DEF f, g, V
  <2> QED
    BY <2>1 DEF Sum, Units, Negated
<1>7. \A c \in U \ V : g[c] = 0
  BY DEF Distance, Weight
<1>8. [c \in U |-> IF c \in V THEN g[c] ELSE 0] = g
  BY <1>2, <1>7
<1> HIDE DEF f, g, V
<1>9. Sum(g, V) = Sum(g, U)
  BY <1>2, <1>8, SumMask
<1>10. Sum(g, U) \in Nat
  BY <1>2, <1>3, SumNat
<1> QED
  BY <1>2, <1>4, <1>5, <1>6, <1>9, <1>10 DEF g

\* Where a code comes to on the way from a book to a target.
OnTheWay(r, target, other, c) ==
    Weight(other, c) + (2 * r.maxTurnover * (Weight(target, c) - Weight(other, c)))
                           \div Turnover(target, other)

LEMMA NearerType ==
    ASSUME NEW r \in RuleSets, r.maxTurnover # None,
           NEW target \in Books, NEW other \in Books, NEW eligible \in SUBSET Codes,
           Turnover(target, other) > 2 * r.maxTurnover
    PROVE  /\ \A c : OnTheWay(r, target, other, c) \in Int
           /\ Interpolated(r, target, eligible, other) \in Books
           /\ DOMAIN Interpolated(r, target, eligible, other) \subseteq eligible
           /\ \A c \in (DOMAIN target \union DOMAIN other) \intersect eligible :
                 Weight(Interpolated(r, target, eligible, other), c) =
                    IF OnTheWay(r, target, other, c) > 0 THEN OnTheWay(r, target, other, c) ELSE 0
<1>1. PICK M \in Nat \ {0} : M = r.maxTurnover
  BY RulesKnown
<1>2. PICK T \in Nat \ {0} : T = Turnover(target, other)
  <2>1. DOMAIN target \union DOMAIN other \in SUBSET Codes
    BY BookOf
  <2>2. Turnover(target, other) \in Nat
    BY <2>1, TurnoverSum
  <2> QED
    BY <1>1, <2>2
<1>3. ASSUME NEW c PROVE OnTheWay(r, target, other, c) \in Int
  <2>1. PICK v \in Nat, w \in Nat : v = Weight(other, c) /\ w = Weight(target, c)
    BY WeightType
  <2>2. PICK n \in Int : n = 2 * M * (w - v)
    OBVIOUS
  <2>3. n \div T \in Int
    OBVIOUS
  <2> QED
    BY <1>1, <1>2, <2>1, <2>2, <2>3 DEF OnTheWay
<1> DEFINE D == (DOMAIN target \union DOMAIN other) \intersect eligible
           f == [c \in D |-> OnTheWay(r, target, other, c)]
           E == {c \in DOMAIN f : f[c] > 0}
<1>4. Interpolated(r, target, eligible, other) = Positive(f)
  BY DEF Interpolated, OnTheWay
<1>5. \A c \in DOMAIN f : f[c] \in Int
  BY <1>3
<1>6. E \in SUBSET Codes /\ E \subseteq eligible /\ E \subseteq D
  OBVIOUS
<1>7. \A c \in D : f[c] = OnTheWay(r, target, other, c) /\ (c \in E <=> f[c] > 0)
  OBVIOUS
<1> HIDE DEF f, D
<1>8. Positive(f) \in [E -> Nat \ {0}] /\ \A c \in E : Positive(f)[c] = f[c]
  BY <1>5, PositiveType
<1>9. PICK p : p = Positive(f)
  OBVIOUS
<1> HIDE DEF E
<1>10. DOMAIN p = E /\ p \in [E -> Nat]
  BY <1>8, <1>9
<1>11. p \in Books
  BY <1>6, <1>10 DEF Books
<1>12. \A c \in D : Weight(p, c) = IF f[c] > 0 THEN f[c] ELSE 0
  BY <1>7, <1>8, <1>9, <1>10 DEF Weight
<1> QED
  BY <1>3, <1>4, <1>6, <1>7, <1>9, <1>10, <1>11, <1>12 DEF D

\* The rounding adds at most one part of Unit to what a code contributes.
LEMMA NearerDistance ==
    ASSUME NEW v \in Nat, NEW w \in Nat, NEW T \in Nat \ {0}, NEW M \in Nat \ {0},
           NEW q \in Int, q = (2 * M * (w - v)) \div T,
           NEW new \in Nat, new = (IF v + q > 0 THEN v + q ELSE 0),
           NEW was \in Nat, was = (IF w - v < 0 THEN -(w - v) ELSE w - v),
           NEW now \in Nat, now = (IF new - v < 0 THEN -(new - v) ELSE new - v)
    PROVE  T * now <= 2 * M * was + T
<1>1. PICK x \in Int : x = w - v
  OBVIOUS
<1>2. ShiftBounds(T, M, x, q)
  <2>1. q = (2 * M * x) \div T
    BY <1>1
  <2>2. ShiftBounds(T, M, x, (2 * M * x) \div T)
    BY ShiftRounded, Zenon
  <2> QED
    BY <2>1, <2>2, Zenon
<1>3. CASE q >= 0
  <2>1. x >= 0 /\ T * q <= 2 * M * x
    BY <1>2, <1>3 DEF ShiftBounds
  <2>2. now = q /\ was = x
    BY <1>1, <1>3, <2>1
  <2> QED
    BY <2>1, <2>2
<1>4. CASE ~ (q >= 0)
  <2>1. x < 0 /\ T * (-q) <= 2 * M * (-x) + T
    BY <1>2, <1>4 DEF ShiftBounds
  <2>2. was = -x
    BY <1>1, <2>1
  <2>3. now <= -q
    <3>1. CASE v + q > 0
      BY <1>4, <3>1
    <3>2. CASE ~ (v + q > 0)
      <4>1. new = 0 /\ now = v
        BY <3>2
      <4> QED
        BY <3>2, <4>1
    <3> QED
      BY <3>1, <3>2
  <2>4. PICK p \in Nat : p = -q
    BY <1>4
  <2>5. T * now <= T * p
    BY <2>3, <2>4
  <2>6. T * p <= 2 * M * was + T
    BY <2>1, <2>2, <2>4
  <2>7. T * now \in Int /\ T * p \in Int /\ 2 * M * was + T \in Int
    OBVIOUS
  <2> QED
    BY <2>5, <2>6, <2>7
<1> QED
  BY <1>3, <1>4

\* What is multiplied by a positive number and not positive is not positive.
LEMMA Cancelled ==
    ASSUME NEW T \in Nat \ {0}, NEW z \in Int, T * z <= 0
    PROVE  z <= 0
<1> SUFFICES ASSUME z >= 1 PROVE FALSE
  OBVIOUS
<1>1. T * z >= T
  OBVIOUS
<1> QED
  BY <1>1

\* A book on the way turns over no more than the limit, but for the rounding.
LEMMA NearerTurnover ==
    ASSUME NEW r \in RuleSets, r.maxTurnover # None,
           NEW target \in Books, NEW other \in Books, NEW eligible \in SUBSET Codes,
           Turnover(target, other) > 2 * r.maxTurnover,
           DOMAIN target \subseteq eligible, DOMAIN other \subseteq eligible
    PROVE  Turnover(Interpolated(r, target, eligible, other), other) <= 2 * (r.maxTurnover + Slack)
<1> DEFINE U == DOMAIN target \union DOMAIN other
<1>1. PICK M \in Nat \ {0} : M = r.maxTurnover
  BY RulesKnown
<1>2. PICK T \in Nat \ {0} : T = Turnover(target, other)
  <2>1. DOMAIN target \union DOMAIN other \in SUBSET Codes
    BY BookOf
  <2>2. Turnover(target, other) \in Nat
    BY <2>1, TurnoverSum
  <2> QED
    BY <1>1, <2>2
<1>3. PICK nearer \in Books : nearer = Interpolated(r, target, eligible, other)
  BY NearerType
<1>4. /\ \A c : OnTheWay(r, target, other, c) \in Int
      /\ \A c \in U :
            Weight(nearer, c) =
                IF OnTheWay(r, target, other, c) > 0 THEN OnTheWay(r, target, other, c) ELSE 0
  <2>1. U \intersect eligible = U
    OBVIOUS
  <2> HIDE DEF U
  <2> QED
    BY <1>3, <2>1, NearerType DEF U
<1>5. DOMAIN nearer \subseteq U
  BY <1>3 DEF Interpolated, Positive, RestrictValues, Restrict
<1>6. U \in SUBSET Codes /\ IsFiniteSet(U)
  BY BookOf, CodesFinite
<1> DEFINE now == [c \in U |-> Distance(nearer, c, other)]
           was == [c \in U |-> Distance(target, c, other)]
           one == [c \in U |-> 1]
<1>7. now \in [U -> Nat] /\ Turnover(nearer, other) = Sum(now, U) /\ Sum(now, U) \in Nat
  <2>1. DOMAIN nearer \union DOMAIN other \subseteq U
    BY <1>5
  <2> HIDE DEF U
  <2> QED
    BY <1>6, <2>1, TurnoverSum
<1>8. was \in [U -> Nat] /\ T = Sum(was, U)
  <2>1. DOMAIN target \union DOMAIN other \subseteq U
    OBVIOUS
  <2> HIDE DEF U
  <2> QED
    BY <1>2, <1>6, <2>1, TurnoverSum
<1>9. ASSUME NEW c \in U PROVE now[c] * T <= was[c] * (2 * M) + T
  <2>1. PICK v \in Nat, w \in Nat : v = Weight(other, c) /\ w = Weight(target, c)
    BY WeightType
  <2>2. PICK q \in Int : q = (2 * M * (w - v)) \div T
    <3>1. PICK n \in Int : n = 2 * M * (w - v)
      OBVIOUS
    <3>2. n \div T \in Int
      OBVIOUS
    <3> QED
      BY <3>1, <3>2
  <2>3. OnTheWay(r, target, other, c) = v + q
    BY <1>1, <1>2, <2>1, <2>2 DEF OnTheWay
  <2>4. PICK new \in Nat : new = Weight(nearer, c)
    BY WeightType
  <2>5. new = IF v + q > 0 THEN v + q ELSE 0
    BY <1>4, <2>3, <2>4
  <2>6. PICK a \in Nat, b \in Nat : a = now[c] /\ b = was[c]
    BY <1>7, <1>8
  <2>7. b = IF w - v < 0 THEN -(w - v) ELSE w - v
    BY <2>1, <2>6 DEF Distance
  <2>8. a = IF new - v < 0 THEN -(new - v) ELSE new - v
    BY <2>1, <2>4, <2>6 DEF Distance
  <2>9. T * a <= 2 * M * b + T
    BY ONLY v \in Nat, w \in Nat, T \in Nat \ {0}, M \in Nat \ {0}, q \in Int, new \in Nat,
            a \in Nat, b \in Nat, <2>2, <2>5, <2>7, <2>8, NearerDistance
  <2>10. T * a = a * T /\ 2 * M * b = b * (2 * M)
    OBVIOUS
  <2> QED
    BY <2>6, <2>9, <2>10
<1> HIDE DEF U, now, was, one
<1>10. now \in [U -> Int] /\ was \in [U -> Int] /\ one \in [U -> Int]
  BY <1>7, <1>8 DEF one
<1> DEFINE nowT == [c \in U |-> now[c] * T]
           was2M == [c \in U |-> was[c] * (2 * M)]
           oneT == [c \in U |-> one[c] * T]
           bound == [c \in U |-> was2M[c] + oneT[c]]
<1>11. 2 * M \in Int /\ T \in Int
  OBVIOUS
<1>12. Sum(nowT, U) = Sum(now, U) * T
  BY <1>6, <1>10, <1>11, SumScale
<1>13. Sum(was2M, U) = T * (2 * M)
  BY <1>6, <1>8, <1>10, <1>11, SumScale
<1>14. Sum(oneT, U) = Sum(one, U) * T
  BY <1>6, <1>10, <1>11, SumScale
<1>15. was2M \in [U -> Int] /\ oneT \in [U -> Int] /\ nowT \in [U -> Int]
  BY <1>10, <1>11
<1>16. Sum(bound, U) = Sum(was2M, U) + Sum(oneT, U)
  <2> HIDE DEF was2M, oneT
  <2> QED
    BY <1>6, <1>15, SumAdd
<1>17. \A c \in U : nowT[c] <= bound[c]
  BY <1>9 DEF one
<1>18. bound \in [U -> Int]
  <2> HIDE DEF was2M, oneT
  <2> QED
    BY <1>15
<1>19. Sum(nowT, U) <= Sum(bound, U)
  <2> HIDE DEF nowT, bound
  <2> QED
    BY <1>6, <1>15, <1>17, <1>18, SumMonotone
<1> HIDE DEF nowT, was2M, oneT, bound
<1>20. PICK k \in Nat, all \in Nat : /\ k = Cardinality(U) /\ all = Cardinality(Codes)
                                    /\ k <= all /\ Sum(one, U) <= k
  BY <1>6, SumOfOnes, CodesFinite, FS_Subset, FS_CardinalityType DEF one
<1>21. PICK s \in Nat, o \in Int : s = Sum(now, U) /\ o = Sum(one, U) /\ o <= k
  BY <1>6, <1>7, <1>10, <1>20, SumType
<1>22. s * T <= T * (2 * M) + o * T
  BY <1>12, <1>13, <1>14, <1>16, <1>19, <1>21
<1>23. T * (s - 2 * M - o) <= 0
  <2>1. T * (s - 2 * M - o) = s * T - T * (2 * M) - o * T
    OBVIOUS
  <2> QED
    BY <1>22, <2>1
<1>24. s - 2 * M - o <= 0
  BY <1>23, Cancelled
<1>25. all <= 2 * Slack /\ Slack \in Nat
  BY <1>20, PipelineAssumption, ConstraintsAssumption
<1>26. s <= 2 * (M + Slack)
  BY <1>20, <1>21, <1>24, <1>25
<1> QED
  BY <1>1, <1>3, <1>7, <1>21, <1>26

-----------------------------------------------------------------------------
(* What the constraints return.                                             *)

\* A book that keeps the rules r, made from the codes eligible when other was held.
WithinRules(r, b, eligible, other, overridden) ==
    /\ b \in Books /\ DOMAIN b \subseteq eligible
    /\ HardValid(r, b) /\ Unit - Invested(b) <= r.maxCash + Slack
    /\ r.maxTurnover # None =>
        \/ Turnover(b, other) <= 2 * (r.maxTurnover + Slack)
        \/ overridden
        \/ ~ (DOMAIN other \subseteq eligible)

LEMMA SteeredKept ==
    ASSUME NEW r \in RuleSets, NEW target \in Books, NEW other \in Books,
           NEW eligible \in SUBSET Codes, DOMAIN target \subseteq eligible,
           NEW s, s = Steered(r, target, eligible, other),
           Verdict(r, s).outcome = "ok"
    PROVE  /\ Verdict(r, s) = [outcome |-> "ok", book |-> s.book, overridden |-> s.overridden]
           /\ WithinRules(r, s.book, eligible, other, s.overridden)
<1>1. /\ Verdict(r, s) = [outcome |-> "ok", book |-> s.book, overridden |-> s.overridden]
      /\ HardValid(r, s.book) /\ ~ (Unit - Invested(s.book) > r.maxCash + Slack)
  BY Zenon DEF Verdict
<1>2. s.book \in Books /\ DOMAIN s.book \subseteq eligible /\
      (r.maxTurnover # None =>
        \/ Turnover(s.book, other) <= 2 * (r.maxTurnover + Slack)
        \/ s.overridden
        \/ ~ (DOMAIN other \subseteq eligible))
  <2>1. CASE r.maxTurnover = None
    <3>1. s = [book |-> target, overridden |-> FALSE]
      BY <2>1 DEF Steered
    <3> QED
      BY <2>1, <3>1
  <2>2. CASE r.maxTurnover # None /\ ~ (Turnover(target, other) > 2 * r.maxTurnover)
    <3>1. s = [book |-> target, overridden |-> FALSE]
      BY <2>2 DEF Steered
    <3>2. PICK T \in Nat : T = Turnover(target, other)
      <4>1. DOMAIN target \union DOMAIN other \in SUBSET Codes
        BY BookOf
      <4> QED
        BY <4>1, TurnoverSum
    <3>3. r.maxTurnover \in Nat /\ Slack \in Nat
      BY <2>2, RulesKnown, ConstraintsAssumption
    <3>4. T <= 2 * (r.maxTurnover + Slack)
      BY <2>2, <3>2, <3>3
    <3> QED
      BY <3>1, <3>2, <3>4
  <2>3. CASE r.maxTurnover # None /\ Turnover(target, other) > 2 * r.maxTurnover
    <3> DEFINE nearer == Interpolated(r, target, eligible, other)
    <3>1. nearer \in Books /\ DOMAIN nearer \subseteq eligible
      BY <2>3, NearerType
    <3>2. DOMAIN other \subseteq eligible => Turnover(nearer, other) <= 2 * (r.maxTurnover + Slack)
      BY <2>3, NearerTurnover
    <3>3. \/ s = [book |-> nearer, overridden |-> FALSE]
          \/ s = [book |-> target, overridden |-> TRUE]
      BY <2>3 DEF Steered
    <3> HIDE DEF nearer
    <3> QED
      BY <3>1, <3>2, <3>3
  <2> QED
    BY <2>1, <2>2, <2>3
<1>3. Unit - Invested(s.book) <= r.maxCash + Slack
  <2>1. PICK b \in Books : b = s.book
    BY <1>2
  <2>2. Invested(b) \in Int
    BY BookOf, WeighedType
  <2>3. Unit \in Nat /\ Slack \in Nat /\ r.maxCash \in Int
    BY RulesKnown, ConstraintsAssumption
  <2> QED
    BY <1>1, <2>1, <2>2, <2>3
<1> QED
  BY <1>1, <1>2, <1>3 DEF WithinRules

LEMMA ConstrainedKept ==
    ASSUME NEW r \in RuleSets, NEW wanted, NEW free, NEW other \in Books,
           NEW eligible \in SUBSET Codes,
           NEW report, report = Constrained(r, wanted, free, eligible, other),
           report.outcome = "ok"
    PROVE  WithinRules(r, report.book, eligible, other, report.overridden)
<1> DEFINE target == Shaped(r, Scaled(r, Positive(wanted)))
           s == Steered(r, target, eligible, other)
<1>1. ~ ProtocolError(wanted, free, eligible) /\ report = Verdict(r, s)
  BY DEF Constrained
<1>2. DOMAIN wanted \subseteq eligible /\ \A c \in DOMAIN wanted : wanted[c] \in Int
  BY <1>1 DEF ProtocolError
<1>3. PICK D \in SUBSET eligible : Positive(wanted) \in [D -> Nat \ {0}]
  <2> DEFINE E == {c \in DOMAIN wanted : wanted[c] > 0}
  <2>1. Positive(wanted) \in [E -> Nat \ {0}]
    BY <1>2, PositiveType
  <2>2. E \in SUBSET eligible
    BY <1>2
  <2> QED
    BY <2>1, <2>2
<1>4. PICK b \in [D -> Nat \ {0}] : b = Positive(wanted)
  BY <1>3
<1>5. D \in SUBSET Codes
  OBVIOUS
<1>6. PICK E \in SUBSET D : Scaled(r, b) \in [E -> Nat \ {0}]
  BY <1>5, ScaledType
<1>7. PICK w \in [E -> Nat \ {0}] : w = Scaled(r, b)
  BY <1>6
<1>8. PICK F \in SUBSET E : Shaped(r, w) \in [F -> Nat \ {0}]
  <2>1. E \in SUBSET Codes
    BY <1>5
  <2> QED
    BY <2>1, ShapedType
<1>9. target = Shaped(r, w)
  BY <1>4, <1>7
<1> HIDE DEF target
<1>10. target \in [F -> Nat] /\ DOMAIN target = F
  BY <1>8, <1>9
<1>11. target \in Books /\ DOMAIN target \subseteq eligible
  BY <1>5, <1>10 DEF Books
<1> HIDE DEF s
<1>12. s = Steered(r, target, eligible, other)
  BY DEF s
<1>13. Verdict(r, s).outcome = "ok"
  BY <1>1
<1>14. /\ Verdict(r, s) = [outcome |-> "ok", book |-> s.book, overridden |-> s.overridden]
       /\ WithinRules(r, s.book, eligible, other, s.overridden)
  BY <1>11, <1>12, <1>13, SteeredKept
<1>15. report.book = s.book /\ report.overridden = s.overridden
  BY <1>1, <1>14
<1> QED
  BY <1>14, <1>15

-----------------------------------------------------------------------------
(* The run.                                                                 *)

\* What is held, and what was and is aimed at, are portfolios; a target keeps the rules.
PipelineInv ==
    /\ rules \in RuleSets
    /\ current \in Books /\ (previous # None => previous \in Books)
    /\ last.outcome \in {"target", "fallback"} => last.book \in Books
    /\ Targeted => WithinRules(rules, last.book, last.eligible, last.held, last.overridden)
    /\ Targeted => last.eligible \in SUBSET Codes

LEMMA EmptyIsBook == Empty \in Books
<1>1. Empty \in [{} -> Nat] /\ {} \in SUBSET Codes
  BY DEF Empty
<1> QED
  BY <1>1 DEF Books

\* What a policy makes of a failure is no target, and aims at a portfolio.
LEMMA FallbackType ==
    ASSUME PipelineInv, NEW policy, NEW state, NEW eligible,
           NEW d, d = Fallback(policy, state, eligible)
    PROVE  /\ d.outcome \in {"failed", "fallback", "skipped"}
           /\ d.outcome = "fallback" => d.book \in Books
<1>1. \/ d = Outcome("failed", None, state, eligible)
      \/ d = Outcome("fallback", previous, state, eligible) /\ previous # None
      \/ d = Outcome("skipped", None, state, eligible)
      \/ d = Outcome("fallback", Empty, state, eligible)
  BY DEF Fallback
<1> QED
  BY <1>1, EmptyIsBook DEF Outcome, PipelineInv

LEMMA DecisionType ==
    ASSUME PipelineInv, NEW scored, NEW eligible \in SUBSET Codes,
           NEW d, d = Decision(scored, eligible)
    PROVE  /\ d.outcome \in {"target", "fallback"} => d.book \in Books
           /\ d.outcome = "target" =>
                /\ WithinRules(rules, d.book, d.eligible, d.held, d.overridden)
                /\ d.eligible = eligible
<1>1. ASSUME NEW policy, NEW state, d = Fallback(policy, state, eligible)
      PROVE  d.outcome # "target" /\ (d.outcome = "fallback" => d.book \in Books)
  BY <1>1, FallbackType
<1>2. ASSUME NEW state, d = Outcome("failed", None, state, eligible)
      PROVE  d.outcome = "failed"
  BY <1>2 DEF Outcome
<1>3. ASSUME NEW candidate, d = Constructed(candidate, eligible)
      PROVE  /\ d.outcome \in {"target", "fallback"} => d.book \in Books
             /\ d.outcome = "target" =>
                  /\ WithinRules(rules, d.book, d.eligible, d.held, d.overridden)
                  /\ d.eligible = eligible
  <2> DEFINE report == Constrained(rules, candidate.book, candidate.cash, eligible, current)
  <2>1. report.outcome \in {"protocol", "infeasible", "ok"}
    BY DEF Constrained, Verdict
  <2>2. \/ d = Outcome("failed", None, selected, eligible)
        \/ d = Fallback(strategy.noCandidate, candidate.state, eligible)
        \/ d = Judged(candidate, eligible, report)
    BY <1>3 DEF Constructed
  <2>3. ASSUME d = Judged(candidate, eligible, report)
        PROVE  \/ d = Outcome("failed", None, selected, eligible)
               \/ \E policy : d = Fallback(policy, candidate.state, eligible)
               \/ /\ report.outcome = "ok"
                  /\ d = [Outcome("target", report.book, candidate.state, eligible) EXCEPT
                            !.candidate = candidate.book, !.overridden = report.overridden]
    <3> HIDE DEF report
    <3>1. CASE report.outcome = "protocol"
      BY <2>3, <3>1 DEF Judged
    <3>2. CASE report.outcome = "infeasible"
      BY <2>3, <3>2 DEF Judged
    <3>3. CASE report.outcome = "ok"
      BY <2>3, <3>3 DEF Judged
    <3> QED
      BY <2>1, <3>1, <3>2, <3>3
  <2>4. ASSUME report.outcome = "ok",
               d = [Outcome("target", report.book, candidate.state, eligible) EXCEPT
                            !.candidate = candidate.book, !.overridden = report.overridden]
        PROVE  /\ d.book \in Books /\ d.eligible = eligible
               /\ WithinRules(rules, d.book, d.eligible, d.held, d.overridden)
    <3>1. WithinRules(rules, report.book, eligible, current, report.overridden)
      <4>1. PICK r \in RuleSets, other \in Books : r = rules /\ other = current
        BY DEF PipelineInv
      <4>2. PICK wanted, free : wanted = candidate.book /\ free = candidate.cash
        OBVIOUS
      <4>3. PICK rep : rep = Constrained(r, wanted, free, eligible, other)
        OBVIOUS
      <4>4. rep = report
        BY <4>1, <4>2, <4>3
      <4> HIDE DEF report
      <4>5. WithinRules(r, rep.book, eligible, other, rep.overridden)
        BY <2>4, <4>3, <4>4, ConstrainedKept
      <4> QED
        BY <4>1, <4>4, <4>5
    <3> HIDE DEF report
    <3>2. /\ d.book = report.book /\ d.eligible = eligible /\ d.held = current
          /\ d.overridden = report.overridden
      BY <2>4 DEF Outcome
    <3> QED
      BY <3>1, <3>2 DEF WithinRules
  <2> HIDE DEF report
  <2> QED
    BY <1>1, <1>2, <2>2, <2>3, <2>4
<1>4. \/ d = Fallback(strategy.noCandidate, selected, eligible)
      \/ d = Constructed(Construct(Ranked(scored), scored), eligible)
  BY DEF Decision
<1> QED
  BY <1>1, <1>3, <1>4

\* Prices move what is held; weights stay whole parts.
LEMMA MovedType ==
    ASSUME NEW b \in Books, NEW code
    PROVE  Moved(b, code) \in Books
<1>1. DOMAIN b \in SUBSET Codes /\ b \in [DOMAIN b -> Nat] /\ Unit \in Nat \ {0}
  BY BookOf, ConstraintsAssumption
<1>2. CASE code \notin DOMAIN b
  BY <1>2 DEF Moved
<1>3. CASE code \in DOMAIN b
  <2>1. PICK whole \in Nat \ {0} : whole = Unit + b[code]
    BY <1>1, <1>3
  <2>2. ASSUME NEW c \in DOMAIN b
        PROVE  (b[c] * (IF c = code THEN 2 ELSE 1) * Unit) \div whole \in Nat
    <3>1. PICK factor \in Nat, v \in Nat : factor = (IF c = code THEN 2 ELSE 1) /\ v = b[c]
      BY <1>1
    <3>2. PICK n \in Nat : n = v * factor * Unit
      <4>1. v * factor \in Nat
        BY <3>1
      <4> QED
        BY <1>1, <4>1
    <3>3. n \div whole \in Nat
      OBVIOUS
    <3> QED
      BY <3>1, <3>2, <3>3
  <2>3. Moved(b, code) =
          [c \in DOMAIN b |-> (b[c] * (IF c = code THEN 2 ELSE 1) * Unit) \div whole]
    BY <1>3, <2>1 DEF Moved
  <2>4. Moved(b, code) \in [DOMAIN b -> Nat]
    BY <2>2, <2>3
  <2> QED
    BY <1>1, <2>4 DEF Books
<1> QED
  BY <1>2, <1>3

LEMMA ExecuteInv ==
    ASSUME PipelineInv, NEW code, Execute(code)
    PROVE  PipelineInv'
<1> DEFINE f == [c \in DOMAIN current |-> Min({current[c], Weight(last.book, c)})]
           sold == Positive(f)
           E == {c \in DOMAIN f : f[c] > 0}
<1>1. PICK b \in Books : b = last.book
  BY DEF PipelineInv, Execute
<1>2. PICK other \in Books : other = current
  BY DEF PipelineInv
<1>3. sold \in Books
  <2>1. ASSUME NEW c \in DOMAIN other PROVE Min({other[c], Weight(b, c)}) \in Int
    <3>1. other[c] \in Nat /\ Weight(b, c) \in Nat
      BY BookOf, WeightType
    <3>2. PICK v \in Nat, w \in Nat : v = other[c] /\ w = Weight(b, c)
      BY <3>1
    <3>3. Min({v, w}) \in {v, w}
      BY MinOfTwo
    <3> QED
      BY <3>2, <3>3
  <2>2. DOMAIN f = DOMAIN other /\ \A c \in DOMAIN f : f[c] \in Int
    BY <1>1, <1>2, <2>1
  <2>3. DOMAIN f \in SUBSET Codes
    BY <2>2, BookOf
  <2> HIDE DEF f
  <2>4. Positive(f) \in [E -> Nat \ {0}] /\ E \in SUBSET Codes
    BY <2>2, <2>3, PositiveType
  <2>5. Positive(f) \in [E -> Nat]
    BY <2>4
  <2> QED
    BY <2>4, <2>5 DEF Books
<1>4. PICK s \in Books : s = sold
  BY <1>3
<1>5. current' \in {Moved(b, code), Moved(s, code)} /\ last' = NoDecision /\ UNCHANGED <<rules, previous>>
  BY <1>1, <1>4 DEF Execute
<1>6. current' \in Books
  BY <1>5, MovedType
<1>7. last'.outcome = "none"
  BY <1>5 DEF NoDecision
<1> QED
  BY <1>5, <1>6, <1>7 DEF PipelineInv, Targeted

LEMMA DecideInv ==
    ASSUME PipelineInv, NEW on, NEW scored, Decide(on, scored)
    PROVE  PipelineInv'
<1>1. PICK eligible : eligible = Eligible(on, on - Lag)
  OBVIOUS
<1>2. eligible \in SUBSET Codes
  BY <1>1 DEF Eligible
<1>3. PICK d : d = Decision(scored, eligible)
  OBVIOUS
<1>4. /\ last' = d
      /\ previous' = IF d.outcome \in {"target", "fallback"} THEN d.book ELSE previous
      /\ UNCHANGED <<rules, current>>
  BY <1>1, <1>3 DEF Decide
<1>5. /\ d.outcome \in {"target", "fallback"} => d.book \in Books
      /\ d.outcome = "target" =>
           /\ WithinRules(rules, d.book, d.eligible, d.held, d.overridden)
           /\ d.eligible = eligible
  BY <1>2, <1>3, DecisionType
<1>6. previous' # None => previous' \in Books
  BY <1>4, <1>5 DEF PipelineInv
<1>7. Targeted' => WithinRules(rules', last'.book, last'.eligible, last'.held, last'.overridden)
  BY <1>4, <1>5 DEF Targeted
<1>8. Targeted' => last'.eligible \in SUBSET Codes
  BY <1>2, <1>4, <1>5 DEF Targeted
<1>9. last'.outcome \in {"target", "fallback"} => last'.book \in Books
  BY <1>4, <1>5
<1>10. rules' \in RuleSets /\ current' \in Books
  BY <1>4 DEF PipelineInv
<1>11. Targeted' => WithinRules(rules, last.book, last.eligible, last.held, last.overridden)'
  BY <1>7 DEF WithinRules
<1> QED
  BY <1>6, <1>8, <1>9, <1>10, <1>11 DEF PipelineInv

LEMMA PipelineInvariant == PipelineSpec => []PipelineInv
<1>1. PipelineInit => PipelineInv
  BY EmptyIsBook DEF PipelineInit, PipelineInv, NoDecision, Targeted
<1>2. PipelineInv /\ [PipelineNext]_pipelineVars => PipelineInv'
  <2> SUFFICES ASSUME PipelineInv, [PipelineNext]_pipelineVars PROVE PipelineInv'
    OBVIOUS
  <2>1. ASSUME NEW on \in Days, NEW scored, Decide(on, scored) PROVE PipelineInv'
    BY <2>1, DecideInv
  <2>2. ASSUME NEW code, Execute(code) PROVE PipelineInv'
    BY <2>2, ExecuteInv
  <2>3. CASE UNCHANGED pipelineVars
    BY <2>3 DEF pipelineVars, PipelineInv, Targeted, WithinRules
  <2> QED
    BY <2>1, <2>2, <2>3 DEF PipelineNext
<1> QED
  BY <1>1, <1>2, PTL DEF PipelineSpec

\* What the last check of the engine says of a book is what a reader of the rules expects.
LEMMA RulesRead ==
    ASSUME PipelineInv, Targeted
    PROVE  HardRules(last.book)
<1>1. PICK r \in RuleSets, b \in Books : r = rules /\ b = last.book
  BY DEF PipelineInv, Targeted
<1>2. WithinRules(r, b, last.eligible, last.held, last.overridden)
  BY <1>1 DEF PipelineInv
<1>3. /\ \A c \in DOMAIN b : b[c] \in 0 .. r.maxInstrument
      /\ Invested(b) <= Unit - r.minCash /\ WithinGroups(r, b)
      /\ DOMAIN b \subseteq last.eligible /\ Unit - Invested(b) <= r.maxCash + Slack
  BY <1>2 DEF WithinRules, HardValid
<1>4. PICK sum \in Int : sum = Invested(b)
  BY BookOf, WeighedType
<1>5. /\ r.minCash \in Int /\ r.maxCash \in Int /\ Unit \in Nat /\ Slack \in Nat
      /\ r.maxInstrument \in Nat
  BY RulesKnown, ConstraintsAssumption
<1>6. Unit - Invested(b) \in r.minCash .. r.maxCash + Slack
  BY <1>3, <1>4, <1>5
<1>7. ASSUME r.maxIndustry # None, NEW i PROVE GroupWeight(b, Industry, i) <= r.maxIndustry
  <2>1. CASE \E c \in DOMAIN b : Industry[c] = i
    BY <1>3, <1>7, <2>1 DEF WithinGroups
  <2>2. CASE \A c \in DOMAIN b : Industry[c] # i
    <3>1. GroupWeight(b, Industry, i) = 0
      BY <2>2, BookOf, NoMembers
    <3>2. r.maxIndustry \in Nat
      BY <1>7, RulesKnown
    <3> QED
      BY <3>1, <3>2
  <2> QED
    BY <2>1, <2>2
<1>8. \A t \in DOMAIN r.maxAsset : GroupWeight(b, AssetType, t) <= r.maxAsset[t]
  BY <1>3 DEF WithinGroups
<1>9. \A c \in DOMAIN b : b[c] <= r.maxInstrument
  BY <1>3, <1>5
<1> QED
  BY <1>1, <1>3, <1>6, <1>7, <1>8, <1>9 DEF HardRules

\* Whatever a constructor makes of whatever signals, whatever is held and however prices
\* move it: a target keeps the hard rules, and the limit of the turnover but for its
\* rounding, unless the report says so or a holding is no longer eligible
\* (ConstraintEngine.apply).
THEOREM RulesAreKept == PipelineSpec => []TargetsKeepRules
<1>1. PipelineInv => TargetsKeepRules
  <2> SUFFICES ASSUME PipelineInv, Targeted PROVE TargetsKeepRules
    BY DEF TargetsKeepRules
  <2>1. HardRules(last.book)
    BY RulesRead
  <2>2. WithinRules(rules, last.book, last.eligible, last.held, last.overridden)
    BY DEF PipelineInv
  <2> QED
    BY <2>1, <2>2 DEF TargetsKeepRules, WithinRules
<1> QED
  BY <1>1, PipelineInvariant, PTL

=============================================================================
