------------------------- MODULE BulkJobCountProofs -------------------------
(***************************************************************************)
(* The counters and the credits of a job under any number of concurrent    *)
(* requests, while no API process dies in the middle of a handler (and,    *)
(* for the counters, no write of cache hits fails).                        *)
(***************************************************************************)
EXTENDS BulkJobSoloProofs

\* An event of the environment that is used up does not come back.
LEMMA BudgetStays ==
  ASSUME TypeOK, NEW e \in Events, budget[e] = 0, [Next]_vars
  PROVE  budget'[e] = 0
<1>1. budget'[e] <= budget[e] /\ budget'[e] \in Nat
  BY BudgetFalls
<1>2. QED
  BY <1>1

-----------------------------------------------------------------------------
(* How many rows there are.                                                *)

LEMMA RecordedCount ==
  ASSUME TypeOK
  PROVE  /\ Cardinality(rows) \in Nat
         /\ Recorded \in SUBSET Emails
         /\ Cardinality(Recorded) <= Cardinality(rows)
         /\ OneRowPerAddress => Cardinality(Recorded) = Cardinality(rows)
<1> DEFINE f == [r \in rows |-> r.email]
<1>1. f \in Surjection(rows, Recorded)
  BY DEF Recorded, Surjection
<1>2. IsFiniteSet(rows)
  BY DEF TypeOK
<1>3. OneRowPerAddress => f \in Injection(rows, Recorded)
  BY <1>1 DEF OneRowPerAddress, Injection, IsInjective, Surjection
<1>4. Recorded \in SUBSET Emails
  BY DEF TypeOK, Recorded, Row
<1> HIDE DEF f
<1>5. QED
  BY <1>1, <1>2, <1>3, <1>4, FS_Surjection, FS_CardinalityType

LEMMA RowsForCount ==
  ASSUME NEW found \in SUBSET Result, NEW g \in Nat,
         NEW by \in {"cache", "worker"}
  PROVE  Cardinality(RowsFor(found, g, by)) = Cardinality(found)
<1> DEFINE R == RowsFor(found, g, by)
           h == [x \in found |-> [email |-> x.email, verdict |-> x.verdict,
                                  gen |-> g, by |-> by]]
<1>1. h \in Surjection(found, R)
  BY DEF Surjection, RowsFor
<1>2. ASSUME NEW x \in found, NEW y \in found, h[x] = h[y]
      PROVE  x = y
  <2>1. x \in Result /\ y \in Result
    OBVIOUS
  <2>2. h[x].email = x.email /\ h[x].verdict = x.verdict
    OBVIOUS
  <2>3. h[y].email = y.email /\ h[y].verdict = y.verdict
    OBVIOUS
  <2>4. QED
    BY <1>2, <2>1, <2>2, <2>3 DEF Result
<1>3. h \in Injection(found, R)
  BY <1>1, <1>2 DEF Injection, IsInjective, Surjection
<1>4. IsFiniteSet(found)
  BY RowsForFinite
<1> HIDE DEF h, R
<1>5. Cardinality(R) = Cardinality(found)
  BY <1>1, <1>3, <1>4, FS_Surjection
<1>6. QED
  BY <1>5 DEF R

LEMMA RowsForUnknowns ==
  ASSUME NEW found \in SUBSET Result, NEW g \in Nat,
         NEW by \in {"cache", "worker"}
  PROVE  Unknowns(RowsFor(found, g, by)) = Unknowns(found)
<1> DEFINE part == {x \in found : x.verdict = "unknown"}
<1>1. {r \in RowsFor(found, g, by) : r.verdict = "unknown"}
        = RowsFor(part, g, by)
  BY DEF RowsFor
<1>2. part \in SUBSET Result
  OBVIOUS
<1>3. Cardinality(RowsFor(part, g, by)) = Cardinality(part)
  BY <1>2, RowsForCount
<1>4. QED
  BY <1>1, <1>3 DEF Unknowns

LEMMA DisjointUnion ==
  ASSUME NEW S, IsFiniteSet(S), NEW T, IsFiniteSet(T), S \cap T = {}
  PROVE  Cardinality(S \cup T) = Cardinality(S) + Cardinality(T)
<1> DEFINE common == Cardinality(S \cap T)
<1>1. Cardinality(S) \in Nat /\ Cardinality(T) \in Nat
  BY FS_CardinalityType
<1>2. Cardinality(S \cup T) = Cardinality(S) + Cardinality(T) - common
  BY FS_Union
<1>3. common = 0
  BY FS_EmptySet
<1> HIDE DEF common
<1>4. QED
  BY <1>1, <1>2, <1>3

LEMMA DisjointUnknowns ==
  ASSUME NEW S, IsFiniteSet(S), NEW T, IsFiniteSet(T), S \cap T = {}
  PROVE  Unknowns(S \cup T) = Unknowns(S) + Unknowns(T)
<1> DEFINE U(X) == {x \in X : x.verdict = "unknown"}
<1>1. U(S \cup T) = U(S) \cup U(T) /\ U(S) \cap U(T) = {}
  OBVIOUS
<1>2. IsFiniteSet(U(S)) /\ IsFiniteSet(U(T))
  BY FS_Subset
<1>3. Cardinality(U(S) \cup U(T)) = Cardinality(U(S)) + Cardinality(U(T))
  <2> HIDE DEF U
  <2>1. QED
    BY <1>1, <1>2, DisjointUnion
<1>4. QED
  BY <1>1, <1>3 DEF Unknowns

(* The rows a set of results adds, counted.                                *)
LEMMA AddedCount ==
  ASSUME TypeOK, NEW found \in SUBSET Result, NEW g \in Nat,
         NEW by \in {"cache", "worker"},
         rows \cap RowsFor(found, g, by) = {},
         rows' = rows \cup RowsFor(found, g, by)
  PROVE  /\ Cardinality(rows') = Cardinality(rows) + Cardinality(found)
         /\ Unknowns(rows') = Unknowns(rows) + Unknowns(found)
<1> DEFINE R == RowsFor(found, g, by)
<1>1. IsFiniteSet(rows) /\ IsFiniteSet(R)
  BY RowsForFinite DEF TypeOK
<1>2. Cardinality(R) = Cardinality(found) /\ Unknowns(R) = Unknowns(found)
  BY RowsForCount, RowsForUnknowns
<1>3. rows \cap R = {} /\ rows' = rows \cup R
  OBVIOUS
<1> HIDE DEF R
<1>4. QED
  BY <1>1, <1>2, <1>3, DisjointUnion, DisjointUnknowns

\* Hits are new rows: the handler wrote none of them before.
LEMMA HitsAreNew ==
  ASSUME TypeOK, RowInv, NEW p \in Runners, PersistHits(p)
  PROVE  \E c \in Unwritten(p) : \E hits \in Outcomes(Hits(p, c)) :
           /\ PersistHitsOf(p, c, hits)
           /\ hits \in SUBSET Result
           /\ proc[p].gen \in Nat
           /\ rows \cap RowsFor(hits, proc[p].gen, "cache") = {}
<1>1. PICK c \in Unwritten(p) : \E hits \in Outcomes(Hits(p, c)) :
        PersistHitsOf(p, c, hits)
  BY DEF PersistHits
<1>2. PICK hits \in Outcomes(Hits(p, c)) : PersistHitsOf(p, c, hits)
  BY <1>1
<1>3. Hits(p, c) \in SUBSET Emails /\ proc[p].gen \in Nat
  BY DEF Hits, Unwritten, TypeOK, Proc, Chunks
<1>4. hits \in SUBSET Result
  BY <1>3, OutcomesType
<1>5. \A r \in RowsFor(hits, proc[p].gen, "cache") :
        r.gen = proc[p].gen /\ r.email \in Hits(p, c)
  BY OutcomesOnce, RowsForOnce
<1>6. ASSUME NEW r \in rows, r \in RowsFor(hits, proc[p].gen, "cache")
      PROVE  FALSE
  <2>1. r.gen = proc[p].gen /\ r.email \in proc[p].hits /\ r.email \in c
    BY <1>5, <1>6 DEF Hits
  <2>2. PICK d \in proc[p].wrote : r.email \in d
    BY <2>1 DEF RowInv, RowsKnown
  <2>3. c \in proc[p].chunks /\ c \notin proc[p].wrote
    BY DEF Unwritten
  <2>4. d = c
    BY <2>1, <2>2, <2>3 DEF RowInv, DisjointChunks
  <2>5. QED
    BY <2>2, <2>3, <2>4
<1>7. QED
  BY <1>2, <1>3, <1>4, <1>6

LEMMA FreshIsNew ==
  ASSUME TypeOK, NEW m \in msgs
  PROVE  /\ Fresh(m) \in SUBSET Result
         /\ rows \cap RowsFor(Fresh(m), gen, "worker") = {}
  BY DEF TypeOK, Message, Fresh, RowsFor, Recorded

-----------------------------------------------------------------------------
(* The counters of the job are those of its rows.                          *)

\* No API process dies, no write of prepare or of cache hits fails.
NoLoss == budget["crash"] = 0 /\ budget["persist"] = 0

(* The count of the rows holds as long as no address has two of them: a    *)
(* requeue caps it at the size of the list.  A delete is exempt from the   *)
(* moment it removes the rows.                                             *)
Counts ==
  /\ risky = Unknowns(rows)
  /\ OneRowPerAddress => processed = InvalidSyntax + Cardinality(rows)

Dropping == \E c \in Clients : proc[c].step = "drop"

CountInv == NoLoss /\ (Dropping \/ ~Live \/ Counts)

NoRollback == \A p \in Runners : proc[p].step # "rollback"

LEMMA NoLossStep ==
  ASSUME TypeOK, NoLoss, [Next]_vars
  PROVE  /\ NoLoss'
         /\ ~PrepareTasksFail
         /\ \A p \in Runners : ~Crash(p) /\ ~PersistHitsFail(p)
<1>1. {"crash", "persist"} \subseteq Events
  BY DEF Events
<1>2. NoLoss'
  BY <1>1, BudgetStays DEF NoLoss
<1>3. QED
  BY <1>2 DEF NoLoss, PrepareTasksFail, Crash, PersistHitsFail, Spend

\* Without failed writes nothing is rolled back.
LEMMA NoRollbackStep ==
  ASSUME TypeOK, NoLoss, NoRollback, [Next]_vars
  PROVE  NoRollback'
<1>0. /\ ~PrepareTasksFail
      /\ \A p \in Runners : ~Crash(p) /\ ~PersistHitsFail(p)
  BY NoLossStep
<1>1. ASSUME NEW p \in Runners, NEW w, proc' = [proc EXCEPT ![p] = w],
             w.step # "rollback"
      PROVE  NoRollback'
  BY <1>1 DEF NoRollback, TypeOK
<1>2. ASSUME NEW p \in Runners, NEW s, Goto(p, s), s # "rollback"
      PROVE  NoRollback'
  BY <1>2, StepAfter DEF NoRollback
<1>3. ASSUME NEW p \in Runners, Finish(p)
      PROVE  NoRollback'
  BY <1>3, StepAfter DEF NoRollback
<1>4. ASSUME proc' = proc
      PROVE  NoRollback'
  BY <1>4 DEF NoRollback
<1>5. CASE PrepareMessage \/ PrepareHandler \/ PrepareSlotBusy
  <2>1. Preparer \in Runners
    BY RunnersDiffer
  <2>2. CASE PrepareTasks
    <3>1. PICK cut, hits :
            proc' = [proc EXCEPT ![Preparer] =
                       Working("enqueue", gen + 1, TRUE, cut, hits)]
      BY <2>2 DEF PrepareTasks
    <3>2. Working("enqueue", gen + 1, TRUE, cut, hits).step = "enqueue"
      BY DEF Working
    <3>3. QED
      BY <1>1, <2>1, <3>1, <3>2
  <2>3. CASE ~PrepareTasks
    BY <1>2, <1>3, <1>4, <1>5, <2>1, <2>3 DEF PrepareMessage,
       PrepareHandler, PrepareSkip, PrepareStart, FailPreparingRead,
       FailPreparingJob, PrepareSlotBusy, PrepareCheck, PrepareClaimed,
       MarkPending
  <2>4. QED
    BY <2>2, <2>3
<1>6. ASSUME NEW p \in Runners, Enqueue(p) \/ EnqueueError(p)
      PROVE  NoRollback'
  <2>1. CASE EnqueueChunk(p)
    <3>1. PICK c : proc' = [proc EXCEPT ![p].sent = @ \cup {c}]
      BY <2>1 DEF EnqueueChunk
    <3>2. [proc[p] EXCEPT !.sent = @ \cup {c}].step = proc[p].step
      BY DEF TypeOK, Proc
    <3>3. QED
      BY <1>1, <3>1, <3>2 DEF NoRollback
  <2>2. CASE PersistHits(p)
    <3>1. PICK c : proc' = [proc EXCEPT ![p].wrote = @ \cup {c}]
      BY <2>2 DEF PersistHits, PersistHitsOf
    <3>2. [proc[p] EXCEPT !.wrote = @ \cup {c}].step = proc[p].step
      BY DEF TypeOK, Proc
    <3>3. QED
      BY <1>1, <3>1, <3>2 DEF NoRollback
  <2>3. CASE ~EnqueueChunk(p) /\ ~PersistHits(p)
    BY <1>0, <1>2, <1>3, <1>6, <2>3 DEF Enqueue, EnqueueError, RollbackHits,
       RefundEnqueue, RestoreFlag, RestorePaused, EnqueueFails, Return
  <2>4. QED
    BY <2>1, <2>2, <2>3
<1>7. ASSUME NEW c \in Clients, Request(c) \/ Continue(c)
      PROVE  NoRollback'
  <2>0. c \in Runners
    BY RunnersDiffer
  <2>1. CASE RequeueTasks(c)
    <3>1. PICK cut, hits :
            proc' = [proc EXCEPT ![c] = Working("clearFlag", gen + 1,
                                                proc[c].charge, cut, hits)]
      BY <2>1 DEF RequeueTasks
    <3>2. Working("clearFlag", gen + 1, proc[c].charge, cut, hits).step
            = "clearFlag"
      BY DEF Working
    <3>3. QED
      BY <1>1, <2>0, <3>1, <3>2
  <2>2. ASSUME NEW charge, RequeueJob(c, charge)
        PROVE  NoRollback'
    <3>1. Working("purge", 0, charge, {}, {}).step = "purge"
      BY DEF Working
    <3>2. QED
      BY <1>1, <2>0, <2>2, <3>1 DEF RequeueJob
  <2>3. CASE ~RequeueTasks(c) /\ \A charge \in BOOLEAN : ~RequeueJob(c, charge)
    BY <1>2, <1>3, <1>7, <2>0, <2>3 DEF Request, PauseJob, DeleteJob,
       Continue, PauseSetFlag, PauseUpdate, PauseUndo, RequeuePurge,
       RequeueNothing, RequeueRefused, RequeueClearFlag, RequeueDone,
       DeleteResults, DropJob, DeleteSetFlag, CancelPaused, CancelRefused
  <2>4. QED
    BY <2>1, <2>2, <2>3
<1>8. QED
  BY <1>0, <1>4, <1>5, <1>6, <1>7, WorkerLocal
  DEF Next, LockExpires, PauseCacheExpires, vars

\* A deleted job is not touched again.
LEMMA DeletedStays ==
  ASSUME ~Live, [Next]_vars
  PROVE  ~Live'
<1>1. CASE PrepareMessage \/ PrepareHandler \/ PrepareSlotBusy
           \/ PrepareTasksFail
  BY <1>1 DEF PrepareMessage, PrepareHandler, PrepareSkip, PrepareStart,
     FailPreparingRead, FailPreparingJob, PrepareSlotBusy, PrepareTasksFail,
     PrepareTasks, PrepareCheck, PrepareClaimed, MarkPending, RefundJob,
     jobVars, Live
<1>2. ASSUME NEW p \in Runners, Enqueue(p) \/ EnqueueError(p) \/ Crash(p)
      PROVE  ~Live'
  BY <1>2 DEF Enqueue, EnqueueError, Crash, EnqueueChunk, PersistHits,
     PersistHitsOf, RollbackHits, RefundEnqueue, RestoreFlag, RestorePaused,
     EnqueueFails, PersistHitsFail, RefundJob, jobVars, Live
<1>3. ASSUME NEW c \in Clients, Request(c) \/ Continue(c)
      PROVE  ~Live'
  BY <1>3 DEF Request, PauseJob, DeleteJob, RequeueJob, Requests, Continue,
     PauseSetFlag, PauseUpdate, PauseUndo, RequeuePurge, RequeueTasks,
     RequeueNothing, RequeueRefused, RequeueClearFlag, RequeueDone,
     DeleteResults, DropJob, DeleteSetFlag, CancelPaused, CancelRefused,
     Expected, jobVars, Live
<1>4. ASSUME NEW m \in msgs, WorkerStep(m) \/ WorkerError(m)
      PROVE  ~Live'
  BY <1>4, ReportLeaves DEF Accepts, Live
<1>5. CASE LockExpires \/ PauseCacheExpires \/ UNCHANGED vars
  BY <1>5 DEF LockExpires, PauseCacheExpires, vars, jobVars, Live
<1>6. QED
  BY <1>1, <1>2, <1>3, <1>4, <1>5 DEF Next

\* A delete that has removed the rows goes on to drop the job.
LEMMA DroppingStays ==
  ASSUME TypeOK, NoLoss, Dropping, [Next]_vars
  PROVE  Dropping' \/ ~Live'
<1>0. /\ Preparer \in Runners /\ Clients \subseteq Runners
      /\ Preparer \notin Clients
      /\ \A p \in Runners : ~Crash(p)
  BY RunnersDiffer, NoLossStep
<1>1. PICK d \in Clients : proc[d].step = "drop"
  BY DEF Dropping
<1>2. ASSUME proc'[d] = proc[d]
      PROVE  Dropping'
  BY <1>1, <1>2 DEF Dropping
<1>3. CASE PrepareMessage \/ PrepareHandler \/ PrepareSlotBusy
           \/ PrepareTasksFail
  <2>1. proc'[d] = proc[d]
    BY <1>0, <1>3 DEF PrepareMessage, PrepareHandler, PrepareSkip,
       PrepareStart, FailPreparingRead, FailPreparingJob, PrepareSlotBusy,
       PrepareTasksFail, PrepareTasks, PrepareCheck, PrepareClaimed,
       MarkPending, Goto, Finish, TypeOK
  <2>2. QED
    BY <1>2, <2>1
<1>4. ASSUME NEW p \in Runners, Enqueue(p) \/ EnqueueError(p) \/ Crash(p)
      PROVE  Dropping'
  <2>1. p # d
    BY <1>0, <1>1, <1>4 DEF Enqueue, EnqueueError, EnqueueChunk,
       PersistHits, RollbackHits, RefundEnqueue, RestoreFlag,
       RestorePaused, EnqueueFails, PersistHitsFail
  <2>2. proc'[d] = proc[d]
    BY <1>0, <1>4, <2>1, RunnerLocal
  <2>3. QED
    BY <1>2, <2>2
<1>5. ASSUME NEW c \in Clients, Request(c) \/ Continue(c)
      PROVE  Dropping' \/ ~Live'
  <2>1. CASE c = d
    <3>1. DropJob(c)
      BY <1>1, <1>5, <2>1 DEF Request, PauseJob, DeleteJob, RequeueJob,
         Requests, Continue, PauseSetFlag, PauseUpdate, PauseUndo,
         RequeuePurge, RequeueTasks, RequeueNothing, RequeueRefused,
         RequeueClearFlag, RequeueDone, DeleteResults, DeleteSetFlag,
         CancelPaused, CancelRefused
    <3>2. QED
      BY <3>1 DEF DropJob, Live
  <2>2. CASE c # d
    <3>1. proc'[d] = proc[d]
      BY <1>0, <1>5, <2>2, ClientLocal
    <3>2. QED
      BY <1>2, <3>1
  <2>3. QED
    BY <2>1, <2>2
<1>6. QED
  BY <1>2, <1>3, <1>4, <1>5, WorkerLocal
  DEF Next, LockExpires, PauseCacheExpires, vars

LEMMA ProgressCounts ==
  ASSUME NEW n, NEW u, Progress(n, u)
  PROVE  processed' = processed + n /\ risky' = risky + u
  BY DEF Progress, ProgressOf

\* Rows are added together with their count.
LEMMA GrowKeepsCounts ==
  ASSUME TypeOK, Counts, NEW found \in SUBSET Result, NEW g \in Nat,
         NEW by \in {"cache", "worker"},
         rows \cap RowsFor(found, g, by) = {},
         rows' = rows \cup RowsFor(found, g, by),
         Progress(Cardinality(found), Unknowns(found))
  PROVE  Counts'
<1>1. /\ Cardinality(rows') = Cardinality(rows) + Cardinality(found)
      /\ Unknowns(rows') = Unknowns(rows) + Unknowns(found)
  BY AddedCount
<1>2. /\ processed' = processed + Cardinality(found)
      /\ risky' = risky + Unknowns(found)
  BY ProgressCounts
<1>3. OneRowPerAddress' => OneRowPerAddress
  BY DEF OneRowPerAddress
<1>4. Cardinality(rows) \in Nat /\ Cardinality(found) \in Nat
  BY RecordedCount, RowsForFinite
<1>5. QED
  BY <1>1, <1>2, <1>3, <1>4, ConstantsAssumption DEF Counts

LEMMA SameKeepsCounts ==
  ASSUME Counts, UNCHANGED <<processed, risky, rows>>
  PROVE  Counts'
  BY DEF Counts, OneRowPerAddress

\* A requeue counts the rows anew; the cap of the count does not bite.
LEMMA RequeueKeepsCounts ==
  ASSUME TypeOK, Counts, processed' = Counted, UNCHANGED <<risky, rows>>
  PROVE  Counts'
<1>1. ASSUME OneRowPerAddress
      PROVE  Counted = InvalidSyntax + Cardinality(rows)
  <2>1. Cardinality(Recorded) = Cardinality(rows) /\ Cardinality(rows) \in Nat
        /\ Recorded \in SUBSET Emails
    BY <1>1, RecordedCount
  <2>2. Cardinality(Recorded) <= Cardinality(Emails)
    BY <2>1, FS_Subset, ConstantsAssumption
  <2>3. Cardinality(Emails) \in Nat
    BY SubsetsCount
  <2>4. QED
    BY <2>1, <2>2, <2>3, ConstantsAssumption DEF Counted, Capped, Total
<1>2. QED
  BY <1>1 DEF Counts, OneRowPerAddress

LEMMA CountStep ==
  ASSUME TypeOK, RowInv, CountInv, NoRollback, [Next]_vars
  PROVE  CountInv'
<1>0. /\ NoLoss /\ NoLoss'
      /\ ~PrepareTasksFail
      /\ \A p \in Runners : ~Crash(p) /\ ~PersistHitsFail(p)
  BY NoLossStep DEF CountInv
<1> SUFFICES ASSUME Counts, Live
             PROVE  Dropping' \/ ~Live' \/ Counts'
  BY <1>0, DroppingStays, DeletedStays DEF CountInv
<1>1. CASE PrepareMessage \/ PrepareHandler \/ PrepareSlotBusy
  BY <1>1, SameKeepsCounts DEF PrepareMessage, PrepareHandler, PrepareSkip,
     PrepareStart, FailPreparingRead, FailPreparingJob, PrepareSlotBusy,
     PrepareTasks, PrepareCheck, PrepareClaimed, MarkPending, RefundJob,
     jobVars
<1>2. ASSUME NEW p \in Runners, Enqueue(p) \/ EnqueueError(p)
      PROVE  Counts'
  <2>1. CASE PersistHits(p)
    <3>1. PICK c, hits :
            /\ PersistHitsOf(p, c, hits)
            /\ hits \in SUBSET Result
            /\ proc[p].gen \in Nat
            /\ rows \cap RowsFor(hits, proc[p].gen, "cache") = {}
      BY <2>1, HitsAreNew
    <3>2. QED
      BY <3>1, GrowKeepsCounts DEF PersistHitsOf
  <2>2. CASE ~PersistHits(p)
    BY <1>0, <1>2, <2>2, SameKeepsCounts DEF Enqueue, EnqueueError,
       EnqueueChunk, RollbackHits, RefundEnqueue, RestoreFlag,
       RestorePaused, EnqueueFails, RefundJob, jobVars, NoRollback
  <2>3. QED
    BY <2>1, <2>2
<1>3. ASSUME NEW c \in Clients, Request(c) \/ Continue(c)
      PROVE  Dropping' \/ ~Live' \/ Counts'
  <2>1. CASE RequeueTasks(c) \/ RequeueNothing(c)
    BY <2>1, RequeueKeepsCounts DEF RequeueTasks, RequeueNothing
  <2>2. CASE DeleteResults(c)
    BY <2>2, RunnersDiffer, StepAfter DEF DeleteResults, Dropping
  <2>3. CASE DropJob(c) \/ CancelPaused(c)
    BY <2>3 DEF DropJob, CancelPaused, Live
  <2>4. CASE ~(\/ RequeueTasks(c) \/ RequeueNothing(c) \/ DeleteResults(c)
               \/ DropJob(c) \/ CancelPaused(c))
    BY <1>3, <2>4, SameKeepsCounts DEF Request, PauseJob, DeleteJob,
       RequeueJob, Requests, Continue, PauseSetFlag, PauseUpdate, PauseUndo,
       RequeuePurge, RequeueRefused, RequeueClearFlag, RequeueDone,
       DeleteSetFlag, CancelRefused, jobVars
  <2>5. QED
    BY <2>1, <2>2, <2>3, <2>4
<1>4. ASSUME NEW m \in msgs, WorkerStep(m) \/ WorkerError(m)
      PROVE  Counts'
  <2>1. CASE Report(m) \/ ReportUnanswered(m)
    <3>1. ReportTaskResults(m)
      BY <2>1 DEF Report, ReportUnanswered
    <3>2. CASE Accepts(m) /\ Fresh(m) # {}
      BY <3>1, <3>2, FreshIsNew, GrowKeepsCounts
      DEF ReportTaskResults, TypeOK
    <3>3. CASE ~(Accepts(m) /\ Fresh(m) # {})
      BY <3>1, <3>3, SameKeepsCounts DEF ReportTaskResults, jobVars
    <3>4. QED
      BY <3>2, <3>3
  <2>2. CASE ~(Report(m) \/ ReportUnanswered(m))
    BY <1>4, <2>2, SameKeepsCounts DEF WorkerStep, WorkerError, SkipChunk,
       StartChunk, FinishChunk, StopChunk, ChunkFails, ReportRefused,
       DeadLetterLost, jobVars
  <2>3. QED
    BY <2>1, <2>2
<1>5. CASE LockExpires \/ PauseCacheExpires \/ UNCHANGED vars
  BY <1>5, SameKeepsCounts DEF LockExpires, PauseCacheExpires, vars, jobVars
<1>6. QED
  BY <1>0, <1>1, <1>2, <1>3, <1>4, <1>5 DEF Next

LEMMA CountInit ==
  ASSUME Limits["crash"] = 0, Limits["persist"] = 0
  PROVE  Init => CountInv /\ NoRollback
<1>1. Cardinality({}) = 0 /\ Unknowns({}) = 0
  BY FS_EmptySet DEF Unknowns
<1>2. QED
  BY <1>1, ConstantsAssumption
  DEF Init, CountInv, NoLoss, Counts, NoRollback, Idle, Working

(* Where no handler dies and no write of prepare or of cache hits fails,   *)
(* the counters of a job are those of its rows, however many requests are  *)
(* served at once and whatever their enqueues and chunks do.               *)
THEOREM CountersAreRows ==
  ASSUME Limits["crash"] = 0, Limits["persist"] = 0
  PROVE  Spec => []CountersMatchRows
<1>1. CountInv => CountersMatchRows
  BY RunnersDiffer DEF CountInv, Dropping, Counts, CountersMatchRows, Live
<1>2. CountInv /\ NoRollback /\ TypeOK /\ RowInv /\ [Next]_vars
        => CountInv' /\ NoRollback'
  BY CountStep, NoRollbackStep DEF CountInv
<1>3. QED
  BY TypeCorrect, RowInit, RowStep, CountInit, <1>1, <1>2, PTL DEF Spec

-----------------------------------------------------------------------------
(* Prepare, while no handler dies.                                         *)

NoCrash == budget["crash"] = 0

PrepareSteps == {"idle", "loaded", "checked", "enqueue", "rollback", "refund"}

(* While a job is in preparation nobody but prepare acts on it, and no     *)
(* message is out before prepare has replaced the tasks; so what prepare   *)
(* and its error handler read of the status is still true when they act.   *)
PrepInv ==
  /\ NoCrash
  /\ proc[Preparer].step # "idle" => prep.phase = "active"
  /\ proc[Preparer].step \in PrepareSteps
  /\ proc[Preparer].step = "enqueue" => proc[Preparer].charge
  /\ status = "preparing" =>
       /\ \A c \in Clients : proc[c].step = "idle"
       /\ proc[Preparer].step \in {"idle", "loaded", "checked"} => msgs = {}
  /\ proc[Preparer].step \in {"loaded", "checked"} => status = "preparing"
  /\ prep.phase = "failing" => status = "preparing"

LEMMA NoCrashStep ==
  ASSUME TypeOK, NoCrash, [Next]_vars
  PROVE  NoCrash' /\ \A p \in Runners : ~Crash(p)
<1>1. "crash" \in Events
  BY DEF Events
<1>2. NoCrash'
  BY <1>1, BudgetStays DEF NoCrash
<1>3. QED
  BY <1>2 DEF NoCrash, Crash, Spend

LEMMA PrepPrepare ==
  ASSUME TypeOK, PrepInv, NoCrash',
         \/ PrepareMessage \/ PrepareHandler
         \/ PrepareSlotBusy \/ PrepareTasksFail
  PROVE  PrepInv'
<1>0. /\ Preparer \in Runners /\ Clients \subseteq Runners
      /\ Preparer \notin Clients
  BY RunnersDiffer
<1>1. \A c \in Clients : proc'[c] = proc[c]
  BY <1>0 DEF PrepareMessage, PrepareHandler, PrepareSkip, PrepareStart,
     FailPreparingRead, FailPreparingJob, PrepareSlotBusy, PrepareTasksFail,
     PrepareTasks, PrepareCheck, PrepareClaimed, MarkPending, Goto, Finish,
     TypeOK
<1>2. CASE PrepareSkip \/ PrepareSlotBusy \/ FailPreparingRead
  <2>1. UNCHANGED <<status, proc, msgs>>
    BY <1>2 DEF PrepareSkip, PrepareSlotBusy, FailPreparingRead, jobVars
  <2>2. proc[Preparer].step = "idle"
    BY <1>2 DEF PrepareSkip, PrepareSlotBusy, FailPreparingRead, PrepInv
  <2>3. prep'.phase = "failing" => status = "preparing"
    BY <1>2 DEF PrepareSkip, PrepareSlotBusy, FailPreparingRead,
       PrepareFailed, PrepareDone, TypeOK
  <2>4. QED
    BY <2>1, <2>2, <2>3 DEF PrepInv
<1>3. CASE PrepareStart
  <2>1. proc[Preparer].step = "idle"
    BY <1>3 DEF PrepareStart, PrepInv
  <2>2. UNCHANGED <<status, msgs>> /\ status = "preparing"
        /\ Goto(Preparer, "loaded") /\ prep'.phase = "active"
    BY <1>3 DEF PrepareStart, jobVars, TypeOK
  <2>3. proc'[Preparer].step = "loaded"
    BY <1>0, <2>2, StepAfter
  <2>4. QED
    BY <1>1, <2>1, <2>2, <2>3 DEF PrepInv, PrepareSteps
<1>4. CASE PrepareTasks
  <2>1. proc'[Preparer].step = "enqueue" /\ proc'[Preparer].charge
    BY <1>0, <1>4 DEF PrepareTasks, TypeOK, Working
  <2>2. UNCHANGED <<status, prep>> /\ proc[Preparer].step = "checked"
    BY <1>4 DEF PrepareTasks, jobVars
  <2>3. QED
    BY <1>1, <2>1, <2>2 DEF PrepInv, PrepareSteps
<1>5. CASE PrepareClaimed \/ MarkPending \/ PrepareTasksFail
  <2>1. proc'[Preparer].step = "idle"
    BY <1>0, <1>5, StepAfter DEF PrepareClaimed, MarkPending, PrepareTasksFail
  <2>2. status' # "preparing"
    BY <1>5 DEF PrepareClaimed, MarkPending, PrepareTasksFail, RefundJob,
       Live, jobVars
  <2>3. prep'.phase # "failing"
    BY <1>5 DEF PrepareClaimed, MarkPending, PrepareTasksFail, PrepareDone,
       PrepareFailed, TypeOK
  <2>4. QED
    BY <2>1, <2>2, <2>3 DEF PrepInv, PrepareSteps
<1>6. CASE FailPreparingJob
  <2>1. proc' = proc /\ proc[Preparer].step = "idle"
    BY <1>6 DEF FailPreparingJob, PrepInv
  <2>2. status' # "preparing" /\ prep'.phase = "gone"
    BY <1>6 DEF FailPreparingJob, RefundJob, Live, PrepareDone, TypeOK
  <2>3. QED
    BY <2>1, <2>2 DEF PrepInv
<1>7. CASE PrepareCheck
  <2>1. proc'[Preparer].step = "checked"
    BY <1>0, <1>7, StepAfter DEF PrepareCheck
  <2>2. UNCHANGED <<status, prep, msgs>> /\ proc[Preparer].step = "loaded"
    BY <1>7 DEF PrepareCheck, jobVars
  <2>3. QED
    BY <1>1, <2>1, <2>2 DEF PrepInv, PrepareSteps
<1>8. QED
  BY <1>2, <1>3, <1>4, <1>5, <1>6, <1>7 DEF PrepareMessage, PrepareHandler

\* Once the job has left preparing, the steps of others cannot disturb it.
LEMMA PrepLeft ==
  ASSUME PrepInv, NoCrash', status # "preparing", status' # "preparing",
         proc'[Preparer] = proc[Preparer],
         \/ prep' = prep
         \/ prep.phase = "queued" /\ prep'.phase = "gone"
  PROVE  PrepInv'
  BY DEF PrepInv

LEMMA PrepRunner ==
  ASSUME TypeOK, PrepInv, NoCrash', NEW p \in Runners,
         Enqueue(p) \/ EnqueueError(p)
  PROVE  PrepInv'
<1>0. /\ Preparer \in Runners /\ Clients \subseteq Runners
      /\ Preparer \notin Clients
  BY RunnersDiffer
<1>1. /\ proc[p].step # "idle"
      /\ \A q \in Runners \ {p} : proc'[q] = proc[q]
  BY RunnerLocal
<1>2. status' = "preparing" => status = "preparing" /\ ~PersistHits(p)
  <2>1. CASE PersistHits(p)
    BY <2>1, PersistHitsLeaves, ProgressLeaves
    DEF PersistHits, PersistHitsOf, Live, jobVars
  <2>2. CASE ~PersistHits(p)
    BY <2>2 DEF Enqueue, EnqueueError, EnqueueChunk, RollbackHits,
       RefundEnqueue, RestoreFlag, RestorePaused, EnqueueFails,
       PersistHitsFail, RefundJob, Live, jobVars
  <2>3. QED
    BY <2>1, <2>2
<1>3. CASE p \in Clients
  <2>1. status # "preparing" /\ status' # "preparing"
    BY <1>1, <1>2, <1>3 DEF PrepInv
  <2>2. prep' = prep
    BY <1>0, <1>3 DEF Enqueue, EnqueueError, EnqueueChunk, PersistHits,
       RollbackHits, RefundEnqueue, RestoreFlag, RestorePaused,
       EnqueueFails, PersistHitsFail, Return
  <2>3. QED
    BY <1>0, <1>1, <1>3, <2>1, <2>2, PrepLeft
<1>4. CASE p = Preparer
  <2>1. \A c \in Clients : proc'[c] = proc[c]
    BY <1>0, <1>1, <1>4
  <2>2. CASE EnqueueChunk(p)
    <3>1. proc'[p].step = proc[p].step /\ proc'[p].charge = proc[p].charge
      BY <2>2 DEF EnqueueChunk, TypeOK, Proc
    <3>2. UNCHANGED <<status, prep>> /\ proc[p].step = "enqueue"
      BY <2>2 DEF EnqueueChunk, jobVars
    <3>3. QED
      BY <1>4, <2>1, <3>1, <3>2 DEF PrepInv, PrepareSteps
  <2>3. CASE PersistHits(p)
    <3>1. proc'[p].step = proc[p].step /\ proc'[p].charge = proc[p].charge
      BY <2>3 DEF PersistHits, PersistHitsOf, TypeOK, Proc
    <3>2. prep' = prep /\ proc[p].step = "enqueue" /\ status' # "preparing"
      BY <1>2, <2>3 DEF PersistHits
    <3>3. QED
      BY <1>4, <2>1, <3>1, <3>2 DEF PrepInv, PrepareSteps
  <2>4. CASE EnqueueFails(p) \/ PersistHitsFail(p)
    <3>1. proc[p].step = "enqueue" /\ proc[p].charge
      BY <1>4, <2>4 DEF EnqueueFails, PersistHitsFail, PrepInv
    <3>2. proc'[p].step \in {"refund", "rollback"}
      <4>1. CASE EnqueueFails(p)
        BY <3>1, <4>1, StepAfter DEF EnqueueFails
      <4>2. CASE PersistHitsFail(p)
        BY <3>1, <4>2 DEF PersistHitsFail, Recount, TypeOK
      <4>3. QED
        BY <2>4, <4>1, <4>2
    <3>3. UNCHANGED <<status, prep>>
      BY <2>4 DEF EnqueueFails, PersistHitsFail, jobVars
    <3>4. QED
      BY <1>4, <2>1, <3>1, <3>2, <3>3 DEF PrepInv, PrepareSteps
  <2>5. CASE RollbackHits(p)
    <3>1. proc'[p].step = "refund" /\ proc[p].step = "rollback"
      BY <2>5, StepAfter DEF RollbackHits
    <3>2. prep' = prep /\ (status' = "preparing" => status = "preparing")
      BY <1>2, <2>5 DEF RollbackHits
    <3>3. QED
      BY <1>4, <2>1, <3>1, <3>2 DEF PrepInv, PrepareSteps
  <2>6. CASE RefundEnqueue(p)
    <3>1. proc'[p].step = "idle" /\ prep'.phase = "gone"
      BY <1>4, <2>6, StepAfter DEF RefundEnqueue, Return, PrepareDone, TypeOK
    <3>2. status' # "preparing"
      BY <2>6 DEF RefundEnqueue, RefundJob, Live
    <3>3. QED
      BY <1>4, <3>1, <3>2 DEF PrepInv, PrepareSteps
  <2>7. ~RestoreFlag(p) /\ ~RestorePaused(p)
    BY <1>4 DEF RestoreFlag, RestorePaused, PrepInv, PrepareSteps
  <2>8. QED
    BY <2>2, <2>3, <2>4, <2>5, <2>6, <2>7 DEF Enqueue, EnqueueError
<1>5. QED
  BY <1>3, <1>4 DEF Runners

LEMMA PrepClient ==
  ASSUME TypeOK, PrepInv, NoCrash', NEW c \in Clients,
         Request(c) \/ Continue(c)
  PROVE  PrepInv'
<1>1. status # "preparing"
  <2>1. CASE Request(c)
    BY <2>1 DEF Request, PauseJob, DeleteJob, RequeueJob
  <2>2. CASE Continue(c)
    BY <2>2 DEF Continue, PauseSetFlag, PauseUpdate, PauseUndo, RequeuePurge,
       RequeueTasks, RequeueNothing, RequeueRefused, RequeueClearFlag,
       RequeueDone, DeleteResults, DropJob, DeleteSetFlag, CancelPaused,
       CancelRefused, PrepInv
  <2>3. QED
    BY <2>1, <2>2
<1>2. status' # "preparing"
  BY <1>1 DEF Request, PauseJob, DeleteJob, RequeueJob, Requests, Continue,
     PauseSetFlag, PauseUpdate, PauseUndo, RequeuePurge, RequeueTasks,
     RequeueNothing, RequeueRefused, RequeueClearFlag, RequeueDone,
     DeleteResults, DropJob, DeleteSetFlag, CancelPaused, CancelRefused,
     jobVars
<1>3. proc'[Preparer] = proc[Preparer]
  BY RunnersDiffer, ClientLocal
<1>4. prep' = prep \/ (prep.phase = "queued" /\ prep'.phase = "gone")
  BY DEF Request, PauseJob, DeleteJob, RequeueJob, Requests, Continue,
     PauseSetFlag, PauseUpdate, PauseUndo, RequeuePurge, RequeueTasks,
     RequeueNothing, RequeueRefused, RequeueClearFlag, RequeueDone,
     DeleteResults, DropJob, DeleteSetFlag, CancelPaused, CancelRefused,
     TypeOK
<1>5. QED
  BY <1>1, <1>2, <1>3, <1>4, PrepLeft

LEMMA PrepStep ==
  ASSUME TypeOK, PrepInv, [Next]_vars
  PROVE  PrepInv'
<1>0. NoCrash' /\ \A p \in Runners : ~Crash(p)
  BY NoCrashStep DEF PrepInv
<1>1. ASSUME NEW m \in msgs, WorkerStep(m) \/ WorkerError(m)
      PROVE  PrepInv'
  <2>1. UNCHANGED <<proc, prep>>
    BY <1>1, WorkerLocal
  <2>2. proc[Preparer].step \notin {"loaded", "checked"}
        /\ prep.phase # "failing"
    BY DEF PrepInv
  <2>3. status' = "preparing" => status = "preparing"
    BY <1>1, ReportLeaves
  <2>4. QED
    BY <1>0, <2>1, <2>2, <2>3 DEF PrepInv
<1>2. CASE LockExpires \/ PauseCacheExpires \/ UNCHANGED vars
  BY <1>0, <1>2 DEF LockExpires, PauseCacheExpires, vars, jobVars, PrepInv
<1>3. QED
  BY <1>0, <1>1, <1>2, PrepPrepare, PrepRunner, PrepClient DEF Next

LEMMA PrepInit ==
  ASSUME Limits["crash"] = 0
  PROVE  Init => PrepInv
  BY RunnersDiffer DEF Init, PrepInv, NoCrash, PrepareSteps, Idle, Working

-----------------------------------------------------------------------------
(* A completed job stays completed.                                        *)

\* A job is complete when its count has reached the list's, never before.
DoneInv == status = "completed" => processed >= Total

LEMMA TotalNat == Cardinality(Emails) \in Nat /\ Total \in Nat
  BY SubsetsCount, ConstantsAssumption DEF Total

LEMMA ProgressDone ==
  ASSUME TypeOK, DoneInv, NEW n \in Nat, NEW u, Progress(n, u)
  PROVE  /\ DoneInv'
         /\ status = "completed" => status' = "completed"
<1>1. processed \in Nat /\ Total \in Nat
  BY TotalNat DEF TypeOK
<1>2. processed' = processed + n
  BY ProgressCounts
<1>3. status' = "completed" <=> processed + n >= Total
  BY DEF Progress, ProgressOf
<1>4. QED
  BY <1>1, <1>2, <1>3 DEF DoneInv

LEMMA PersistHitsDone ==
  ASSUME TypeOK, DoneInv, NEW p \in Runners, PersistHits(p)
  PROVE  /\ DoneInv'
         /\ status = "completed" => status' = "completed"
<1>1. PICK c \in Unwritten(p) : \E hits \in Outcomes(Hits(p, c)) :
        PersistHitsOf(p, c, hits)
  BY DEF PersistHits
<1>2. PICK hits \in Outcomes(Hits(p, c)) : PersistHitsOf(p, c, hits)
  BY <1>1
<1>3. Hits(p, c) \in SUBSET Emails
  BY DEF Hits, Unwritten, TypeOK, Proc, Chunks
<1>4. hits \in SUBSET Result
  BY <1>3, OutcomesType
<1>5. Cardinality(hits) \in Nat
  BY <1>4, RowsForFinite
<1>6. CASE Live
  BY <1>2, <1>5, <1>6, ProgressDone DEF PersistHitsOf
<1>7. CASE ~Live
  BY <1>2, <1>7 DEF PersistHitsOf, jobVars, Live, DoneInv
<1>8. QED
  BY <1>6, <1>7

LEMMA WorkerDone ==
  ASSUME TypeOK, DoneInv, NEW m \in msgs, WorkerStep(m) \/ WorkerError(m)
  PROVE  /\ DoneInv'
         /\ status = "completed" => status' = "completed"
<1>1. CASE Report(m) \/ ReportUnanswered(m)
  <2>1. ReportTaskResults(m)
    BY <1>1 DEF Report, ReportUnanswered
  <2>2. Cardinality(Fresh(m)) \in Nat
    BY FreshIsNew, RowsForFinite
  <2>3. CASE Accepts(m) /\ Fresh(m) # {}
    BY <2>1, <2>2, <2>3, ProgressDone DEF ReportTaskResults
  <2>4. CASE ~(Accepts(m) /\ Fresh(m) # {})
    BY <2>1, <2>4 DEF ReportTaskResults, jobVars, DoneInv
  <2>5. QED
    BY <2>3, <2>4
<1>2. CASE ~(Report(m) \/ ReportUnanswered(m))
  BY <1>2 DEF WorkerStep, WorkerError, SkipChunk, StartChunk, FinishChunk,
     StopChunk, ChunkFails, ReportRefused, DeadLetterLost, jobVars, DoneInv
<1>3. QED
  BY <1>1, <1>2

LEMMA DoneStep ==
  ASSUME TypeOK, DoneInv, [Next]_vars
  PROVE  DoneInv'
<1>1. CASE PrepareMessage \/ PrepareHandler \/ PrepareSlotBusy
           \/ PrepareTasksFail
  BY <1>1 DEF PrepareMessage, PrepareHandler, PrepareSkip, PrepareStart,
     FailPreparingRead, FailPreparingJob, PrepareSlotBusy, PrepareTasksFail,
     PrepareTasks, PrepareCheck, PrepareClaimed, MarkPending, RefundJob,
     jobVars, DoneInv
<1>2. ASSUME NEW p \in Runners, Enqueue(p) \/ EnqueueError(p) \/ Crash(p),
             ~PersistHits(p)
      PROVE  DoneInv'
  BY <1>2 DEF Enqueue, EnqueueError, Crash, EnqueueChunk, RollbackHits,
     RefundEnqueue, RestoreFlag, RestorePaused, EnqueueFails,
     PersistHitsFail, RefundJob, jobVars, DoneInv
<1>3. ASSUME NEW c \in Clients, RequeueNothing(c)
      PROVE  DoneInv'
  <2>1. Recorded = Emails
    BY <1>3, RecordedCount DEF RequeueNothing, Remaining
  <2>2. Cardinality(rows) >= Cardinality(Emails) /\ Cardinality(rows) \in Nat
    BY <2>1, RecordedCount, TotalNat
  <2>3. Counted = Total
    BY <2>2, TotalNat, ConstantsAssumption DEF Counted, Capped, Total
  <2>4. QED
    BY <1>3, <2>3, TotalNat DEF RequeueNothing, DoneInv
<1>4. ASSUME NEW c \in Clients, Request(c) \/ Continue(c), ~RequeueNothing(c)
      PROVE  DoneInv'
  BY <1>4 DEF Request, PauseJob, DeleteJob, RequeueJob, Requests, Continue,
     PauseSetFlag, PauseUpdate, PauseUndo, RequeuePurge, RequeueTasks,
     RequeueRefused, RequeueClearFlag, RequeueDone, DeleteResults, DropJob,
     DeleteSetFlag, CancelPaused, CancelRefused, jobVars, DoneInv
<1>5. CASE LockExpires \/ PauseCacheExpires \/ UNCHANGED vars
  BY <1>5 DEF LockExpires, PauseCacheExpires, vars, jobVars, DoneInv
<1>6. QED
  BY <1>1, <1>2, <1>3, <1>4, <1>5, PersistHitsDone, WorkerDone DEF Next

\* One step of CompletedStays.
CompletedStep ==
  status = "completed" =>
    \/ status' \in {"completed", "deleted"}
    \/ status' = "paused" /\ \E p \in Runners : proc[p].step = "restore"
    \/ /\ status' = "failed"
       /\ \E p \in Runners : proc[p].step \in {"rollback", "refund"}

LEMMA CompletedStepHolds ==
  ASSUME TypeOK, PrepInv, DoneInv, [Next]_vars
  PROVE  CompletedStep
<1> SUFFICES ASSUME status = "completed",
                    status' \notin {"completed", "deleted"}
             PROVE  \/ /\ status' = "paused"
                       /\ \E p \in Runners : proc[p].step = "restore"
                    \/ /\ status' = "failed"
                       /\ \E p \in Runners :
                            proc[p].step \in {"rollback", "refund"}
  BY DEF CompletedStep
<1>1. ASSUME PrepareMessage \/ PrepareHandler \/ PrepareSlotBusy
             \/ PrepareTasksFail
      PROVE  FALSE
  BY <1>1 DEF PrepareMessage, PrepareHandler, PrepareSkip, PrepareStart,
     FailPreparingRead, FailPreparingJob, PrepareSlotBusy, PrepareTasksFail,
     PrepareTasks, PrepareCheck, PrepareClaimed, MarkPending, jobVars, PrepInv
<1>2. ASSUME NEW p \in Runners, Enqueue(p) \/ EnqueueError(p) \/ Crash(p)
      PROVE  \/ status' = "paused" /\ proc[p].step = "restore"
             \/ /\ status' = "failed"
                /\ proc[p].step \in {"rollback", "refund"}
  BY <1>2, PersistHitsDone DEF Enqueue, EnqueueError, Crash, EnqueueChunk,
     RollbackHits, RefundEnqueue, RestoreFlag, RestorePaused, EnqueueFails,
     PersistHitsFail, RefundJob, jobVars, Live
<1>3. ASSUME NEW c \in Clients, Request(c) \/ Continue(c)
      PROVE  FALSE
  BY <1>3 DEF Request, PauseJob, DeleteJob, RequeueJob, Requests, Continue,
     PauseSetFlag, PauseUpdate, PauseUndo, RequeuePurge, RequeueTasks,
     RequeueNothing, RequeueRefused, RequeueClearFlag, RequeueDone,
     DeleteResults, DropJob, DeleteSetFlag, CancelPaused, CancelRefused,
     Expected, jobVars
<1>4. ASSUME NEW m \in msgs, WorkerStep(m) \/ WorkerError(m)
      PROVE  FALSE
  BY <1>4, WorkerDone
<1>5. CASE LockExpires \/ PauseCacheExpires \/ UNCHANGED vars
  BY <1>5 DEF LockExpires, PauseCacheExpires, vars, jobVars
<1>6. QED
  BY <1>1, <1>2, <1>3, <1>4, <1>5 DEF Next

(* Where no handler dies, a completed job is never worked on again: not by *)
(* a late report, a late write of cache hits or an exhausted prepare.  The *)
(* resume or retry whose enqueue fails is the exception the property names.*)
THEOREM CompletedNeverRuns ==
  ASSUME Limits["crash"] = 0
  PROVE  Spec => CompletedStays
<1>1. Init => DoneInv
  BY DEF Init, DoneInv
<1>2. TypeOK /\ DoneInv /\ [Next]_vars => DoneInv'
  BY DoneStep
<1>3. TypeOK /\ PrepInv /\ [Next]_vars => PrepInv'
  BY PrepStep
<1>4. TypeOK /\ PrepInv /\ DoneInv /\ [Next]_vars => [CompletedStep]_vars
  BY CompletedStepHolds
<1>5. Spec => [][CompletedStep]_vars
  BY TypeCorrect, PrepInit, <1>1, <1>2, <1>3, <1>4, PTL DEF Spec
<1>6. QED
  BY <1>5 DEF CompletedStays, CompletedStep

-----------------------------------------------------------------------------
(* A failed job is free.                                                   *)

(* A handler that has charged a list and not sent all of it yet owns the   *)
(* credits of that list: it will give them back if it cannot go on.        *)
Owner(p) == proc[p].charge /\ Unsent(p) # {}

(* While it lives, what the job cost and has not got back is the list of   *)
(* its owner.  All but the first owner find a refund on the job's record,  *)
(* so that no unknown is refunded meanwhile.                               *)
Owned(p) ==
  /\ status # "failed"
  /\ ledger.charged = ledger.refunded + Cardinality(Listed(p))
  /\ p = Preparer \/ ledger.refunds > 0

OneOwner == \A p, q \in Runners : Owner(p) /\ Owner(q) => p = q
RefundOwned == \A p \in Runners : proc[p].step = "refund" => Owner(p)

FreeInv ==
  /\ OneOwner /\ RefundOwned
  /\ \A p \in Runners : Owner(p) /\ Live => Owned(p)
  /\ status = "failed" =>
       ledger.charged = ledger.refunded /\ ledger.refunds > 0
  /\ status = "preparing" =>
       ledger = [charged |-> Cardinality(Emails), refunded |-> 0,
                 refunds |-> 0]

(* While prepare holds tasks, every row is of its generation.              *)
PrepRows == proc[Preparer].gen > 0 => \A r \in rows : r.gen = gen

\* So no report slips in between its check and its tasks.
LEMMA AnsweredIsRecorded ==
  ASSUME SoloInv, PrepRows, NEW p \in Runners, Solo(p), proc[p].gen > 0
  PROVE  Answered(p) = Recorded
<1>1. proc[p].gen = gen /\ gen \in Nat
  BY DEF SoloInv, TypeOK, OpenInv, PlanOpen
<1>2. \A r \in rows : ~Late(p, r)
  BY <1>1 DEF Late, PrepRows, SoloInv, TypeOK, Row
<1>3. QED
  BY <1>2 DEF Answered, Recorded

LEMMA NoPlanOwnsNothing ==
  ASSUME NEW p \in Runners, NoPlan(proc[p])
  PROVE  ~Owner(p)
  BY DEF NoPlan, Owner, Unsent

\* What a step may do to the owners without more being known of it.
OwnersKept ==
  \A q \in Runners :
    /\ Owner(q)' => Owner(q) /\ Listed(q)' = Listed(q)
    /\ proc'[q].step = "refund" => Owner(q)'

LEMMA SameOwner ==
  ASSUME NEW q \in Runners, SamePlan(proc'[q], proc[q]),
         proc'[q].charge = proc[q].charge
  PROVE  (Owner(q)' <=> Owner(q)) /\ Listed(q)' = Listed(q)
<1>1. \A c : Misses(q, c)' = Misses(q, c)
  BY DEF SamePlan, Misses
<1>2. Unsent(q)' = Unsent(q)
  BY <1>1 DEF SamePlan, Unsent
<1>3. QED
  BY <1>2 DEF SamePlan, Owner, Listed

LEMMA SameOwners ==
  ASSUME RefundOwned, proc' = proc
  PROVE  OwnersKept
  BY SameOwner DEF RefundOwned, OwnersKept, SamePlan

LEMMA OwnersAssign ==
  ASSUME TypeOK, RefundOwned, NEW p \in Runners, NEW w,
         proc' = [proc EXCEPT ![p] = w],
         \/ NoPlan(w) /\ w.step # "refund"
         \/ /\ SamePlan(w, proc[p]) /\ w.charge = proc[p].charge
            /\ w.step # "refund" \/ Owner(p)
  PROVE  OwnersKept
<1>1. proc'[p] = w /\ \A q \in Runners \ {p} : proc'[q] = proc[q]
  BY DEF TypeOK
<1>2. ASSUME NEW q \in Runners \ {p}
      PROVE  /\ Owner(q)' => Owner(q) /\ Listed(q)' = Listed(q)
             /\ proc'[q].step = "refund" => Owner(q)'
  BY <1>1, <1>2, SameOwner DEF RefundOwned, SamePlan
<1>3. CASE NoPlan(w) /\ w.step # "refund"
  <2>1. ~Owner(p)'
    BY <1>1, <1>3 DEF NoPlan, Owner, Unsent
  <2>2. QED
    BY <1>1, <1>2, <1>3, <2>1 DEF OwnersKept
<1>4. CASE /\ SamePlan(w, proc[p]) /\ w.charge = proc[p].charge
           /\ w.step # "refund" \/ Owner(p)
  BY <1>1, <1>2, <1>4, SameOwner DEF OwnersKept
<1>5. QED
  BY <1>3, <1>4

LEMMA OwnersGoto ==
  ASSUME TypeOK, RefundOwned, NEW p \in Runners, NEW s, Goto(p, s),
         s # "refund" \/ Owner(p)
  PROVE  OwnersKept
<1>1. proc' = [proc EXCEPT ![p] = [proc[p] EXCEPT !.step = s]]
  BY DEF Goto, TypeOK
<1> DEFINE w == [proc[p] EXCEPT !.step = s]
<1>2. SamePlan(w, proc[p]) /\ w.charge = proc[p].charge /\ w.step = s
  BY DEF TypeOK, Proc, SamePlan
<1> HIDE DEF w
<1>3. QED
  BY <1>1, <1>2, OwnersAssign DEF w

LEMMA OwnersFinish ==
  ASSUME TypeOK, RefundOwned, NEW p \in Runners, Finish(p)
  PROVE  OwnersKept
<1>1. NoPlan(Idle) /\ Idle.step # "refund"
  BY DEF NoPlan, Idle, Working
<1>2. QED
  BY <1>1, OwnersAssign DEF Finish

\* A step that moves no credits and fails nothing.
LEMMA KeepFree ==
  ASSUME FreeInv, OwnersKept, ledger' = ledger, Live' => Live,
         status' = status \/ status' \notin {"failed", "preparing"}
  PROVE  FreeInv'
<1>1. OneOwner' /\ RefundOwned'
  BY DEF FreeInv, OwnersKept, OneOwner, RefundOwned
<1>2. ASSUME NEW p \in Runners, Owner(p)', Live'
      PROVE  Owned(p)'
  <2>1. Owner(p) /\ Live /\ Listed(p)' = Listed(p)
    BY <1>2 DEF OwnersKept
  <2>2. Owned(p)
    BY <2>1 DEF FreeInv
  <2>3. QED
    BY <2>1, <2>2 DEF Owned
<1>3. QED
  BY <1>1, <1>2 DEF FreeInv

LEMMA PrepRowsQuiet ==
  ASSUME Quiet, PrepRows
  PROVE  PrepRows'
<1>1. proc'[Preparer].gen > 0 => proc[Preparer].gen > 0
  BY RunnersDiffer DEF Quiet, PlansKept, NoPlan, SamePlan
<1>2. QED
  BY <1>1 DEF Quiet, PrepRows

LEMMA PrepRowsIdle ==
  ASSUME proc'[Preparer].gen = 0
  PROVE  PrepRows'
  BY DEF PrepRows

\* While a request is at work, prepare holds no tasks.
LEMMA RequestAlone ==
  ASSUME SoloInv, NEW c \in Clients, proc[c].step # "idle"
  PROVE  proc[Preparer].step = "idle" /\ NoPlan(proc[Preparer])
  BY RunnersDiffer, IdleHasNoPlan DEF SoloInv, TurnInv, TakeTurns

LEMMA PrepRowsRunner ==
  ASSUME SoloInv, PrepRows, NEW p \in Runners,
         Enqueue(p) \/ EnqueueError(p) \/ Crash(p)
  PROVE  PrepRows'
<1>0. TypeOK /\ RowInv /\ Preparer \in Runners
  BY RunnersDiffer DEF SoloInv
<1>1. CASE p \in Clients
  <2>1. proc[p].step # "idle" /\ proc'[Preparer] = proc[Preparer]
    BY <1>0, <1>1, RunnerLocal, RunnersDiffer
  <2>2. QED
    BY <1>1, <2>1, RequestAlone, PrepRowsIdle DEF NoPlan
<1>2. CASE p = Preparer /\ EnqueueChunk(p)
  <2>1. proc'[p].gen = proc[p].gen
    BY <1>0, <1>2 DEF EnqueueChunk, TypeOK, Proc
  <2>2. gen' = gen /\ rows' = rows
    BY <1>2 DEF EnqueueChunk
  <2>3. QED
    BY <1>2, <2>1, <2>2 DEF PrepRows
<1>3. CASE p = Preparer /\ PersistHits(p)
  <2>1. PICK c, hits : PersistHitsOf(p, c, hits)
    BY <1>3 DEF PersistHits
  <2>2. /\ proc'[p].gen = proc[p].gen /\ gen' = gen
        /\ rows' = rows \cup RowsFor(hits, proc[p].gen, "cache")
    BY <1>0, <1>3, <2>1 DEF PersistHits, PersistHitsOf, TypeOK, Proc
  <2>3. \A r \in RowsFor(hits, proc[p].gen, "cache") : r.gen = proc[p].gen
    BY DEF RowsFor
  <2>4. proc[p].gen > 0 => proc[p].gen = gen
    BY <1>3 DEF SoloInv, OpenInv, PlanOpen, Solo
  <2>5. QED
    BY <1>3, <2>2, <2>3, <2>4 DEF PrepRows
<1>4. CASE ~EnqueueChunk(p) /\ ~PersistHits(p)
  BY <1>0, <1>4, QuietRunner, PrepRowsQuiet DEF Enqueue
<1>5. QED
  BY <1>1, <1>2, <1>3, <1>4 DEF Runners

LEMMA PrepRowsStep ==
  ASSUME SoloInv, PrepInv, PrepRows, [Next]_vars
  PROVE  PrepRows'
<1>0. TypeOK /\ RowInv
  BY DEF SoloInv
<1>1. CASE PrepareTasks
  BY <1>1 DEF PrepareTasks, PrepInv, SoloInv, TurnInv, FreshJob, PrepRows
<1>2. CASE \/ PrepareMessage \/ PrepareSlotBusy \/ PrepareTasksFail
           \/ PrepareHandler /\ ~PrepareTasks
  BY <1>0, <1>2, QuietPrepare, PrepRowsQuiet DEF PrepareHandler
<1>3. ASSUME NEW c \in Clients, Request(c) \/ Continue(c)
      PROVE  PrepRows'
  <2>1. CASE RequeueTasks(c)
    <3>1. proc'[Preparer] = proc[Preparer] /\ proc[c].step # "idle"
      BY <1>0, <2>1, <1>3, ClientLocal, RunnersDiffer DEF RequeueTasks
    <3>2. QED
      BY <3>1, RequestAlone, PrepRowsIdle DEF NoPlan
  <2>2. CASE ~RequeueTasks(c)
    BY <1>0, <1>3, <2>2, QuietRequest, QuietContinue, PrepRowsQuiet
  <2>3. QED
    BY <2>1, <2>2
<1>4. ASSUME NEW m \in msgs, WorkerStep(m) \/ WorkerError(m)
      PROVE  PrepRows'
  <2>1. UNCHANGED <<proc, gen>>
    BY <1>4, WorkerLocal
  <2>2. \A r \in rows' : r \in rows \/ r.gen = gen
    <3>1. CASE Report(m) \/ ReportUnanswered(m)
      <4>1. rows' = rows \/ rows' = rows \cup RowsFor(Fresh(m), gen, "worker")
        BY <3>1 DEF Report, ReportUnanswered, ReportTaskResults
      <4>2. \A r \in RowsFor(Fresh(m), gen, "worker") : r.gen = gen
        BY DEF RowsFor
      <4>3. QED
        BY <4>1, <4>2
    <3>2. CASE ~(Report(m) \/ ReportUnanswered(m))
      BY <1>4, <3>2 DEF WorkerStep, WorkerError, SkipChunk, StartChunk,
         FinishChunk, StopChunk, ChunkFails, ReportRefused, DeadLetterLost
    <3>3. QED
      BY <3>1, <3>2
  <2>3. QED
    BY <2>1, <2>2 DEF PrepRows
<1>5. CASE LockExpires \/ PauseCacheExpires \/ UNCHANGED vars
  BY <1>5 DEF LockExpires, PauseCacheExpires, vars, PrepRows
<1>6. QED
  BY <1>1, <1>2, <1>3, <1>4, <1>5, PrepRowsRunner DEF Next

(* What prepare has not sent out yet keeps the job from completion.        *)
LEMMA PrepareWaits ==
  ASSUME SoloInv, CountInv, DoneInv, PrepRows, Owner(Preparer)
  PROVE  status # "completed"
<1>0. /\ Preparer \in Runners /\ Preparer \notin Clients
      /\ TypeOK /\ RowInv /\ TurnInv
  BY RunnersDiffer DEF SoloInv
<1>1. PICK c \in Unsent(Preparer) : TRUE
  BY DEF Owner
<1>2. proc[Preparer].gen > 0 /\ proc[Preparer].step # "idle"
  BY <1>0, <1>1, IdleHasNoPlan DEF Unsent, RowInv, OwnGeneration, NoPlan,
     TypeOK, Proc
<1>3. Recorded # Emails
  <2>1. PICK e \in Misses(Preparer, c) : TRUE
    BY <1>1 DEF Unsent
  <2>2. e \in Emails
    BY <1>0, <1>1, <2>1 DEF Unsent, Misses, TypeOK, Proc, Chunks
  <2>3. e \notin Recorded
    BY <1>0, <1>1, <1>2, <2>1, AnsweredIsRecorded
    DEF SoloInv, OpenInv, PlanOpen, Solo, Unsent
  <2>4. QED
    BY <2>2, <2>3
<1>4. OneRowPerAddress
  BY <1>0, <1>2 DEF PrepRows, RowInv, OneRowPerGeneration, OneRowPerAddress
<1>5. Cardinality(rows) < Cardinality(Emails) /\ Cardinality(rows) \in Nat
  <2>1. /\ Recorded \in SUBSET Emails /\ Cardinality(Recorded) \in Nat
        /\ Cardinality(rows) = Cardinality(Recorded)
    BY <1>0, <1>4, RecordedCount
  <2>2. Cardinality(Recorded) # Cardinality(Emails)
    BY <1>3, <2>1, FS_Subset, ConstantsAssumption
  <2>3. Cardinality(Recorded) <= Cardinality(Emails)
    BY <2>1, FS_Subset, ConstantsAssumption
  <2>4. QED
    BY <2>1, <2>2, <2>3, TotalNat
<1>6. ~Dropping
  BY <1>0, <1>2 DEF TurnInv, TakeTurns, Dropping
<1>7. ASSUME status = "completed"
      PROVE  FALSE
  <2>1. processed = InvalidSyntax + Cardinality(rows)
    BY <1>4, <1>6, <1>7 DEF CountInv, Counts, Live
  <2>2. processed >= Total
    BY <1>7 DEF DoneInv
  <2>3. QED
    BY <1>5, <2>1, <2>2, TotalNat, ConstantsAssumption DEF Total
<1>8. QED
  BY <1>7

LEMMA NoOwners ==
  ASSUME TurnInv, NEW p \in Runners, proc[p].step = "idle"
  PROVE  ~Owner(p)
  BY IdleHasNoPlan, NoPlanOwnsNothing

LEMMA FreePrepareTasks ==
  ASSUME SoloInv, PrepInv, FreeInv, PrepareTasks
  PROVE  FreeInv'
<1>0. /\ Preparer \in Runners /\ Clients \subseteq Runners
      /\ TypeOK /\ TurnInv
  BY RunnersDiffer DEF SoloInv
<1>1. PICK cut, hits :
        /\ cut \in Cuts(Emails)
        /\ proc' = [proc EXCEPT ![Preparer] =
                      Working("enqueue", gen + 1, TRUE, cut, hits)]
  BY DEF PrepareTasks
<1>2. /\ proc'[Preparer].step = "enqueue"
      /\ proc'[Preparer].chunks = cut
      /\ \A c \in Clients : proc'[c] = proc[c]
  BY <1>0, <1>1, RunnersDiffer DEF TypeOK, Working
<1>3. status = "preparing" /\ UNCHANGED <<status, ledger>>
  BY DEF PrepareTasks, PrepInv, jobVars
<1>4. \A c \in Clients : proc'[c].step = "idle" /\ ~Owner(c)'
  <2>1. \A c \in Clients : proc[c].step = "idle" /\ NoPlan(proc[c])
    BY <1>0, <1>3, IdleHasNoPlan DEF PrepInv
  <2>2. QED
    BY <1>2, <2>1 DEF NoPlan, Owner, Unsent
<1>5. Listed(Preparer)' = Emails
  BY <1>1, <1>2 DEF Listed, Cuts
<1>6. OneOwner' /\ RefundOwned'
  BY <1>2, <1>4 DEF OneOwner, RefundOwned, Runners
<1>7. Owned(Preparer)'
  BY <1>3, <1>5, TotalNat DEF FreeInv, Owned
<1>8. QED
  BY <1>3, <1>4, <1>6, <1>7 DEF FreeInv, Runners

\* The error handler of an exhausted prepare finds the ledger as it was.
LEMMA FreeFailPreparing ==
  ASSUME SoloInv, PrepInv, FreeInv, FailPreparingJob
  PROVE  FreeInv'
<1>0. /\ Preparer \in Runners /\ Clients \subseteq Runners
      /\ TypeOK /\ TurnInv
  BY RunnersDiffer DEF SoloInv
<1>1. status = "preparing" /\ proc' = proc
      /\ \A p \in Runners : proc[p].step = "idle"
  BY <1>0 DEF FailPreparingJob, PrepInv, Runners
<1>2. \A p \in Runners : proc'[p].step = "idle" /\ ~Owner(p)'
  <2>1. \A p \in Runners : NoPlan(proc[p])
    BY <1>0, <1>1, IdleHasNoPlan
  <2>2. QED
    BY <1>1, <2>1 DEF NoPlan, Owner, Unsent
<1>3. status' = "failed" /\ ledger' = Refunded(Cardinality(Emails))
  BY <1>1 DEF FailPreparingJob, RefundJob, Live
<1>4. ledger'.charged = ledger'.refunded /\ ledger'.refunds > 0
  BY <1>1, <1>3, TotalNat DEF FreeInv, Refunded
<1>5. QED
  BY <1>2, <1>3, <1>4 DEF FreeInv, OneOwner, RefundOwned

LEMMA FreePrepare ==
  ASSUME SoloInv, PrepInv, FreeInv,
         \/ PrepareMessage \/ PrepareHandler \/ PrepareSlotBusy
  PROVE  FreeInv'
<1>0. Preparer \in Runners /\ TypeOK /\ RefundOwned
  BY RunnersDiffer DEF SoloInv, FreeInv
<1>1. CASE \/ PrepareSkip \/ PrepareStart \/ FailPreparingRead
           \/ PrepareSlotBusy \/ PrepareCheck \/ PrepareClaimed
           \/ MarkPending
  <2>1. OwnersKept
    BY <1>0, <1>1, OwnersGoto, OwnersFinish, SameOwners
    DEF PrepareSkip, PrepareStart, FailPreparingRead, PrepareSlotBusy,
        PrepareCheck, PrepareClaimed, MarkPending
  <2>2. ledger' = ledger
        /\ (status' = status \/ (status' = "pending" /\ status = "preparing"))
    BY <1>1 DEF PrepareSkip, PrepareStart, FailPreparingRead,
       PrepareSlotBusy, PrepareCheck, PrepareClaimed, MarkPending, jobVars
  <2>3. QED
    BY <2>1, <2>2, KeepFree DEF Live
<1>2. QED
  BY <1>1, FreePrepareTasks, FreeFailPreparing
  DEF PrepareMessage, PrepareHandler

(* Refunds of unknowns do not touch the credits of an owner, nor bring a   *)
(* failed job out of balance.                                              *)
LEMMA FreeProgress ==
  ASSUME TypeOK, FreeInv, OwnersKept, Live, Owner(Preparer)' => status' # "completed",
         NEW n, NEW u, Progress(n, u)
  PROVE  FreeInv'
<1>1. status' \notin {"failed", "preparing"}
  BY DEF Progress, ProgressOf
<1>2. ledger' = ledger \/ (ledger.refunds = 0 /\ status' = "completed")
  BY DEF Progress, ProgressOf
<1>3. CASE ledger' = ledger
  BY <1>1, <1>3, KeepFree
<1>4. CASE ledger' # ledger
  <2>1. \A p \in Runners : ~Owner(p)'
    BY <1>2, <1>4 DEF FreeInv, OwnersKept, Owned, TypeOK
  <2>2. QED
    BY <1>1, <2>1 DEF FreeInv, OneOwner, RefundOwned, OwnersKept
<1>5. QED
  BY <1>3, <1>4

LEMMA FreeRefund ==
  ASSUME TypeOK, FreeInv, NEW p \in Runners, RefundEnqueue(p)
  PROVE  FreeInv'
<1>1. Owner(p) /\ \A q \in Runners \ {p} : ~Owner(q)
  BY DEF FreeInv, OneOwner, RefundOwned, RefundEnqueue
<1>2. OwnersKept
  BY OwnersFinish DEF FreeInv, RefundEnqueue, Return
<1>3. \A q \in Runners : ~Owner(q)'
  <2>1. proc'[p] = Idle
    BY DEF RefundEnqueue, Return, Finish, TypeOK
  <2>2. ~Owner(p)'
    BY <2>1 DEF Owner, Unsent, Idle, Working
  <2>3. QED
    BY <1>1, <1>2, <2>2 DEF OwnersKept
<1>4. ASSUME status' = "failed"
      PROVE  ledger'.charged = ledger'.refunded /\ ledger'.refunds > 0
  <2>1. Owned(p)
    BY <1>1, <1>4 DEF RefundEnqueue, RefundJob, FreeInv, Live
  <2>2. ledger' = Refunded(Cardinality(Listed(p)))
    BY DEF RefundEnqueue, RefundJob
  <2>3. QED
    BY <2>1, <2>2 DEF Owned, Refunded, TypeOK
<1>5. status' # "preparing"
  BY DEF RefundEnqueue, RefundJob, Live
<1>6. QED
  BY <1>2, <1>3, <1>4, <1>5 DEF FreeInv, OneOwner, RefundOwned, OwnersKept

LEMMA FreeRunner ==
  ASSUME TypeOK, FreeInv, Owner(Preparer)' => status' # "completed",
         NEW p \in Runners, Enqueue(p) \/ EnqueueError(p),
         ~RollbackHits(p), ~PersistHitsFail(p)
  PROVE  FreeInv'
<1>0. RefundOwned
  BY DEF FreeInv
<1>1. CASE EnqueueChunk(p)
  <2>1. PICK c : proc' = [proc EXCEPT ![p].sent = @ \cup {c}]
    BY <1>1 DEF EnqueueChunk
  <2>2. /\ SameWrites(proc'[p], proc[p])
        /\ proc'[p].sent = proc[p].sent \cup {c}
        /\ proc'[p].charge = proc[p].charge /\ proc'[p].step = "enqueue"
        /\ \A q \in Runners \ {p} : proc'[q] = proc[q]
    BY <1>1, <2>1 DEF TypeOK, Proc, SameWrites, EnqueueChunk
  <2>3. Owner(p)' => Owner(p) /\ Listed(p)' = Listed(p)
    <3>1. \A d : Misses(p, d)' = Misses(p, d)
      BY <2>2 DEF SameWrites, Misses
    <3>2. Unsent(p)' \subseteq Unsent(p)
      BY <2>2, <3>1 DEF SameWrites, Unsent
    <3>3. QED
      BY <2>2, <3>2 DEF SameWrites, Owner, Listed
  <2>4. \A q \in Runners \ {p} : (Owner(q)' <=> Owner(q))
                                 /\ Listed(q)' = Listed(q)
    BY <2>2, SameOwner DEF SamePlan
  <2>5. OwnersKept
    BY <1>0, <2>2, <2>3, <2>4 DEF OwnersKept, RefundOwned
  <2>6. UNCHANGED <<status, ledger>>
    BY <1>1 DEF EnqueueChunk, jobVars
  <2>7. QED
    BY <2>5, <2>6, KeepFree DEF Live
<1>2. CASE EnqueueFails(p)
  <2>1. OwnersKept
    BY <1>0, <1>2, OwnersGoto DEF EnqueueFails, Owner
  <2>2. UNCHANGED <<status, ledger>>
    BY <1>2 DEF EnqueueFails, jobVars
  <2>3. QED
    BY <2>1, <2>2, KeepFree DEF Live
<1>3. CASE PersistHits(p)
  <2>1. PICK c, hits : PersistHitsOf(p, c, hits)
    BY <1>3 DEF PersistHits
  <2>2. proc' = [proc EXCEPT ![p] = [proc[p] EXCEPT !.wrote = @ \cup {c}]]
    BY <2>1 DEF PersistHitsOf, TypeOK
  <2>3. /\ SameWrites(proc'[p], [proc[p] EXCEPT !.wrote = @ \cup {c}])
        /\ proc'[p].sent = proc[p].sent /\ proc'[p].chunks = proc[p].chunks
        /\ proc'[p].hits = proc[p].hits
        /\ proc'[p].charge = proc[p].charge /\ proc'[p].step = "enqueue"
        /\ \A q \in Runners \ {p} : proc'[q] = proc[q]
    BY <1>3, <2>2 DEF TypeOK, Proc, SameWrites, PersistHits
  <2>4. (Owner(p)' => Owner(p)) /\ Listed(p)' = Listed(p)
    <3>1. \A d : Misses(p, d)' = Misses(p, d)
      BY <2>3 DEF Misses
    <3>2. Unsent(p)' = Unsent(p)
      BY <2>3, <3>1 DEF Unsent
    <3>3. QED
      BY <2>3, <3>2 DEF Owner, Listed
  <2>5. \A q \in Runners \ {p} : (Owner(q)' <=> Owner(q))
                                 /\ Listed(q)' = Listed(q)
    BY <2>3, SameOwner DEF SamePlan
  <2>6. OwnersKept
    BY <1>0, <2>3, <2>4, <2>5 DEF OwnersKept, RefundOwned
  <2>7. CASE Live
    BY <2>1, <2>6, <2>7, FreeProgress DEF PersistHitsOf
  <2>8. CASE ~Live
    BY <2>1, <2>6, <2>8, KeepFree DEF PersistHitsOf, jobVars, Live
  <2>9. QED
    BY <2>7, <2>8
<1>4. CASE RestoreFlag(p) \/ RestorePaused(p)
  <2>1. OwnersKept
    BY <1>0, <1>4, OwnersGoto, OwnersFinish
    DEF RestoreFlag, RestorePaused, Return
  <2>2. ledger' = ledger /\ (status' = status \/ (status' = "paused" /\ Live))
    BY <1>4 DEF RestoreFlag, RestorePaused, jobVars
  <2>3. QED
    BY <2>1, <2>2, KeepFree DEF Live
<1>5. QED
  BY <1>1, <1>2, <1>3, <1>4, FreeRefund DEF Enqueue, EnqueueError

(* A retry charges what is left of a job that is free; a resume owns       *)
(* nothing.                                                                *)
LEMMA FreeRequeue ==
  ASSUME TypeOK, FreeInv, NEW c \in Clients, RequeueTasks(c)
  PROVE  FreeInv'
<1>0. c \in Runners /\ Preparer # c /\ RefundOwned /\ OneOwner
  BY RunnersDiffer DEF FreeInv
<1>1. PICK cut, hits :
        /\ cut \in Cuts(Remaining)
        /\ proc' = [proc EXCEPT ![c] = Working("clearFlag", gen + 1,
                                               proc[c].charge, cut, hits)]
  BY DEF RequeueTasks
<1>2. /\ proc'[c].step = "clearFlag" /\ proc'[c].charge = proc[c].charge
      /\ proc'[c].chunks = cut
      /\ \A q \in Runners \ {c} : proc'[q] = proc[q]
  BY <1>0, <1>1 DEF TypeOK, Working
<1>3. \A q \in Runners \ {c} : (Owner(q)' <=> Owner(q))
                               /\ Listed(q)' = Listed(q)
  BY <1>2, SameOwner DEF SamePlan
<1>4. status' = "pending" /\ Live
  BY DEF RequeueTasks, Expected, Live
<1>5. CASE proc[c].charge
  <2>1. status = "failed"
    BY <1>5 DEF RequeueTasks, Expected
  <2>2. \A q \in Runners : ~Owner(q)
    BY <1>4, <2>1 DEF FreeInv, Owned
  <2>3. \A q \in Runners \ {c} : ~Owner(q)' /\ proc'[q].step # "refund"
    BY <1>0, <1>2, <1>3, <2>2 DEF RefundOwned
  <2>4. Listed(c)' = Remaining
    BY <1>1, <1>2 DEF Listed, Cuts
  <2>5. ledger' = [ledger EXCEPT !.charged = @ + Cardinality(Remaining)]
    BY <1>5 DEF RequeueTasks, Fee
  <2>6. Cardinality(Remaining) \in Nat
    BY SubsetsCount DEF Remaining
  <2>7. /\ ledger'.charged = ledger.charged + Cardinality(Remaining)
        /\ ledger'.refunded = ledger.refunded
        /\ ledger'.refunds = ledger.refunds
    BY <2>5 DEF TypeOK
  <2>8. Owned(c)'
    <3>1. ledger.charged = ledger.refunded /\ ledger.refunds > 0
      BY <2>1 DEF FreeInv
    <3>2. QED
      BY <1>4, <2>4, <2>7, <3>1 DEF Owned
  <2>9. QED
    BY <1>2, <1>4, <2>3, <2>8 DEF FreeInv, OneOwner, RefundOwned
<1>6. CASE ~proc[c].charge
  <2>1. ~Owner(c)'
    BY <1>2, <1>6 DEF Owner
  <2>2. ledger' = ledger
    BY <1>6 DEF RequeueTasks, Fee, TypeOK
  <2>3. OwnersKept
    BY <1>0, <1>2, <1>3, <2>1 DEF OwnersKept, RefundOwned
  <2>4. QED
    BY <1>4, <2>2, <2>3, KeepFree
<1>7. QED
  BY <1>5, <1>6

LEMMA FreeClient ==
  ASSUME TypeOK, FreeInv, NEW c \in Clients, Request(c) \/ Continue(c)
  PROVE  FreeInv'
<1>0. c \in Runners /\ RefundOwned
  BY RunnersDiffer DEF FreeInv
<1>1. ASSUME NEW charge, RequeueJob(c, charge)
      PROVE  FreeInv'
  <2>1. NoPlan(Working("purge", 0, charge, {}, {}))
        /\ Working("purge", 0, charge, {}, {}).step = "purge"
    BY DEF NoPlan, Working
  <2>2. OwnersKept
    BY <1>0, <1>1, <2>1, OwnersAssign DEF RequeueJob
  <2>3. UNCHANGED <<status, ledger>>
    BY <1>1 DEF RequeueJob, Requests, jobVars
  <2>4. QED
    BY <2>2, <2>3, KeepFree DEF Live
<1>2. CASE DropJob(c) \/ CancelPaused(c)
  <2>1. OwnersKept
    BY <1>0, <1>2, OwnersFinish DEF DropJob, CancelPaused
  <2>2. ~Live'
    BY <1>2 DEF DropJob, CancelPaused, Live
  <2>3. QED
    BY <2>1, <2>2 DEF FreeInv, OwnersKept, OneOwner, RefundOwned, Live
<1>3. CASE \/ PauseJob(c) \/ DeleteJob(c)
           \/ Continue(c) /\ ~(\/ RequeueTasks(c) \/ DropJob(c)
                               \/ CancelPaused(c))
  <2>1. OwnersKept
    BY <1>0, <1>3, OwnersGoto, OwnersFinish DEF PauseJob, DeleteJob,
       Continue, PauseSetFlag, PauseUpdate, PauseUndo, RequeuePurge,
       RequeueNothing, RequeueRefused, RequeueClearFlag, RequeueDone,
       DeleteResults, DeleteSetFlag, CancelRefused
  <2>2. ledger' = ledger /\ (Live' => Live)
        /\ (status' = status \/ status' \in {"paused", "completed"})
    BY <1>3 DEF PauseJob, DeleteJob, Requests, Continue, PauseSetFlag,
       PauseUpdate, PauseUndo, RequeuePurge, RequeueNothing, RequeueRefused,
       RequeueClearFlag, RequeueDone, DeleteResults, DeleteSetFlag,
       CancelRefused, Expected, jobVars, Live
  <2>3. QED
    BY <2>1, <2>2, KeepFree
<1>4. QED
  BY <1>1, <1>2, <1>3, FreeRequeue DEF Request

LEMMA FreeWorker ==
  ASSUME TypeOK, FreeInv, Owner(Preparer)' => status' # "completed",
         NEW m \in msgs, WorkerStep(m) \/ WorkerError(m)
  PROVE  FreeInv'
<1>1. OwnersKept
  BY WorkerLocal, SameOwners DEF FreeInv
<1>2. CASE Report(m) \/ ReportUnanswered(m)
  <2>1. ReportTaskResults(m)
    BY <1>2 DEF Report, ReportUnanswered
  <2>2. CASE Accepts(m) /\ Fresh(m) # {}
    BY <1>1, <2>1, <2>2, FreeProgress DEF ReportTaskResults, Accepts, Live
  <2>3. CASE ~(Accepts(m) /\ Fresh(m) # {})
    BY <1>1, <2>1, <2>3, KeepFree DEF ReportTaskResults, jobVars, Live
  <2>4. QED
    BY <2>2, <2>3
<1>3. CASE ~(Report(m) \/ ReportUnanswered(m))
  BY <1>1, <1>3, KeepFree DEF WorkerStep, WorkerError, SkipChunk,
     StartChunk, FinishChunk, StopChunk, ChunkFails, ReportRefused,
     DeadLetterLost, jobVars, Live
<1>4. QED
  BY <1>2, <1>3

\* What is known of a job no handler of which dies or loses a write.
BaseInv == /\ SoloInv /\ CountInv /\ NoRollback /\ PrepInv /\ DoneInv
           /\ PrepRows

LEMMA BaseInvariant ==
  ASSUME RequestsWhilePreparing = FALSE,
         Limits["crash"] = 0, Limits["persist"] = 0
  PROVE  Spec => []BaseInv
<1>1. Init => CountInv /\ NoRollback /\ PrepInv /\ DoneInv /\ PrepRows
  <2>1. Init => DoneInv /\ PrepRows
    BY DEF Init, DoneInv, PrepRows
  <2>2. QED
    BY <2>1, CountInit, PrepInit
<1>2. SoloInv /\ BaseInv /\ SoloInv' /\ [Next]_vars => BaseInv'
  <2>1. SoloInv => TypeOK /\ RowInv
    BY DEF SoloInv
  <2>2. QED
    BY <2>1, CountStep, NoRollbackStep, PrepStep, DoneStep, PrepRowsStep
    DEF BaseInv, CountInv
<1>3. Spec => []SoloInv
  BY SoloInvariant
<1>4. SoloInv /\ CountInv /\ NoRollback /\ PrepInv /\ DoneInv /\ PrepRows
        => BaseInv
  BY DEF BaseInv
<1>5. QED
  BY <1>1, <1>2, <1>3, <1>4, PTL DEF Spec

LEMMA PrepareWaitsNext ==
  (BaseInv /\ Owner(Preparer) => status # "completed")'
<1>1. BaseInv /\ Owner(Preparer) => status # "completed"
  BY PrepareWaits DEF BaseInv
<1>2. QED
  BY <1>1, PTL

LEMMA FreeStep ==
  ASSUME BaseInv, BaseInv', FreeInv, [Next]_vars
  PROVE  FreeInv'
<1>0. /\ TypeOK /\ SoloInv /\ PrepInv /\ NoRollback
      /\ ~PrepareTasksFail
      /\ \A p \in Runners : ~Crash(p) /\ ~PersistHitsFail(p)
  BY NoLossStep DEF BaseInv, SoloInv, CountInv
<1>1. Owner(Preparer)' => status' # "completed"
  BY PrepareWaitsNext
<1>2. \A p \in Runners : ~RollbackHits(p)
  BY <1>0 DEF NoRollback, RollbackHits
<1>3. CASE LockExpires \/ PauseCacheExpires \/ UNCHANGED vars
  <2>1. UNCHANGED <<status, ledger, proc>>
    BY <1>3 DEF LockExpires, PauseCacheExpires, vars, jobVars
  <2>2. QED
    BY <2>1, SameOwners, KeepFree DEF FreeInv, Live
<1>4. QED
  BY <1>0, <1>1, <1>2, <1>3, FreePrepare, FreeRunner, FreeClient, FreeWorker
  DEF Next

(* Where no handler dies and no write of prepare or of cache hits fails,   *)
(* a failed job cost nothing: prepare's refund, the refund of a retry that *)
(* could not enqueue and the refunds of unknowns never meet, however many  *)
(* requests are served at once.                                            *)
THEOREM FailedJobIsFree ==
  ASSUME RequestsWhilePreparing = FALSE,
         Limits["crash"] = 0, Limits["persist"] = 0
  PROVE  Spec => []FailedIsFree
<1>1. Init => FreeInv
  BY RunnersDiffer
  DEF Init, FreeInv, OneOwner, RefundOwned, Owner, Idle, Working
<1>2. FreeInv => FailedIsFree
  BY DEF FreeInv, FailedIsFree
<1>3. BaseInv /\ BaseInv' /\ FreeInv /\ [Next]_vars => FreeInv'
  BY FreeStep
<1>4. QED
  BY BaseInvariant, <1>1, <1>2, <1>3, PTL DEF Spec
=============================================================================
