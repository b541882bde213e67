------------------------- MODULE BulkJobSoloProofs -------------------------
(***************************************************************************)
(* What a handler may rely on while no other handler of the job is at      *)
(* work: prepare, whose job no request touches before it returns, and a    *)
(* user's request where requests are served one at a time.  Crashes, lost  *)
(* messages and failed writes are not excluded.                            *)
(***************************************************************************)
EXTENDS BulkJobProofs

\* At most one request on the job is in flight.
Serial == \A c, d \in Clients : c = d

\* The runners that work alone: prepare always, a request if it is the only one.
Solo(p) == p = Preparer \/ Serial

\* The steps at which a handler holds a plan: tasks it created.
PlanSteps == {"clearFlag", "enqueue", "rollback", "refund", "restoreFlag",
              "restore"}

(* A handler that is not at one of those steps holds no plan.              *)
PlansOnlyAtWork ==
  \A p \in Runners : proc[p].step \notin PlanSteps => NoPlan(proc[p])

(* Prepare works only on a message that is being handled, requests only    *)
(* once that message is gone.                                              *)
TakeTurns ==
  /\ proc[Preparer].step # "idle" => prep.phase = "active"
  /\ \A c \in Clients : proc[c].step # "idle" => prep.phase = "gone"

(* Results move a job out of preparing.                                    *)
FreshJob == status = "preparing" => rows = {}

\* How often an API process has died.
Crashes == Limits["crash"] - budget["crash"]

(* Every attempt of prepare but the first follows a crash, and makes at    *)
(* most one generation.                                                    *)
AttemptsKnown ==
  prep.phase # "gone" =>
    /\ gen <= Crashes + 1
    /\ proc[Preparer].step \notin PlanSteps => gen <= Crashes

(* Between prepare's look at the status and its new tasks only workers     *)
(* record results.                                                         *)
CheckedKnown ==
  proc[Preparer].step = "checked" => \A r \in rows : r.by = "worker"

\* Every message and every row belongs to tasks that were created.
Numbered == (\A m \in msgs : m.gen > 0) /\ (\A r \in rows : r.gen > 0)

AgeInv == AttemptsKnown /\ CheckedKnown /\ Numbered

\* Rows that may have slipped in between prepare's check and its new tasks.
Late(p, r) == p = Preparer /\ r.by = "worker" /\ r.gen < proc[p].gen
Answered(p) == {r.email : r \in {s \in rows : ~Late(p, s)}}

(* What a handler has not sent out or answered yet is not recorded, except *)
(* by a late report, and nobody else can record it any more: its plan is   *)
(* the live generation of tasks.                                           *)
PlanOpen(p) ==
  proc[p].gen > 0 =>
    /\ proc[p].gen = gen
    /\ \A c \in proc[p].chunks :
         /\ c \notin proc[p].wrote => Hits(p, c) \cap Answered(p) = {}
         /\ c \notin proc[p].sent =>
              /\ Misses(p, c) \cap Answered(p) = {}
              /\ \A m \in msgs : m.gen = gen => m.emails \cap c = {}

OpenInv == \A p \in Runners : Solo(p) => PlanOpen(p)

TurnInv == PlansOnlyAtWork /\ TakeTurns /\ FreshJob

-----------------------------------------------------------------------------
(* Events of the environment are used up and never come back.              *)
LEMMA BudgetFalls ==
  ASSUME TypeOK, NEW e \in Events, [Next]_vars
  PROVE  budget'[e] <= budget[e] /\ budget'[e] \in Nat
<1>1. ASSUME NEW f \in Events, Spend(f)
      PROVE  budget'[e] <= budget[e] /\ budget'[e] \in Nat
  BY <1>1 DEF Spend, TypeOK
<1>2. ASSUME budget' = budget
      PROVE  budget'[e] <= budget[e] /\ budget'[e] \in Nat
  BY <1>2 DEF TypeOK
<1>3. {"request", "crash", "slot", "enqueue", "persist", "chunk",
       "refused"}
         \subseteq Events
  BY DEF Events
<1>4. CASE PrepareMessage \/ PrepareHandler \/ PrepareSlotBusy
           \/ PrepareTasksFail
  BY <1>1, <1>2, <1>3, <1>4 DEF PrepareMessage, PrepareHandler, PrepareSkip,
     PrepareStart, FailPreparingRead, FailPreparingJob, PrepareSlotBusy,
     PrepareTasksFail, PrepareTasks, PrepareCheck, PrepareClaimed, MarkPending
<1>5. ASSUME NEW p \in Runners, Enqueue(p) \/ EnqueueError(p) \/ Crash(p)
      PROVE  budget'[e] <= budget[e] /\ budget'[e] \in Nat
  BY <1>1, <1>2, <1>3, <1>5 DEF Enqueue, EnqueueError, Crash, EnqueueChunk,
     PersistHits, RollbackHits, RefundEnqueue, RestoreFlag, RestorePaused,
     EnqueueFails, PersistHitsFail
<1>6. ASSUME NEW c \in Clients, Request(c) \/ Continue(c)
      PROVE  budget'[e] <= budget[e] /\ budget'[e] \in Nat
  <2>1. CASE Request(c)
    BY <1>1, <1>3, <2>1 DEF Request, PauseJob, DeleteJob, RequeueJob, Requests
  <2>2. CASE Continue(c)
    BY <1>2, <2>2 DEF Continue, PauseSetFlag, PauseUpdate, PauseUndo,
       RequeuePurge, RequeueTasks, RequeueNothing, RequeueRefused,
       RequeueClearFlag, RequeueDone, DeleteResults, DropJob,
       DeleteSetFlag, CancelPaused, CancelRefused
  <2>3. QED
    BY <1>6, <2>1, <2>2
<1>7. ASSUME NEW m \in msgs, WorkerStep(m) \/ WorkerError(m)
      PROVE  budget'[e] <= budget[e] /\ budget'[e] \in Nat
  BY <1>1, <1>2, <1>3, <1>7 DEF WorkerStep, WorkerError, SkipChunk,
     StartChunk, FinishChunk, StopChunk, Report, ChunkFails,
     ReportRefused, DeadLetterLost, ReportUnanswered
<1>8. CASE LockExpires \/ PauseCacheExpires \/ UNCHANGED vars
  BY <1>2, <1>8 DEF LockExpires, PauseCacheExpires, vars
<1>9. QED
  BY <1>4, <1>5, <1>6, <1>7, <1>8 DEF Next


LEMMA ProgressLeaves ==
  ASSUME NEW n, NEW u, Progress(n, u)
  PROVE  status' # "preparing"
  BY DEF Progress, ProgressOf

-----------------------------------------------------------------------------
(* Who is at work.                                                         *)

LEMMA RunnersDiffer ==
  Preparer \in Runners /\ Clients \subseteq Runners /\ Preparer \notin Clients
  BY ConstantsAssumption DEF Runners

LEMMA AssignKeepsPlans ==
  ASSUME TypeOK, PlansOnlyAtWork, NEW p \in Runners, NEW w,
         proc' = [proc EXCEPT ![p] = w], w.step \in PlanSteps \/ NoPlan(w)
  PROVE  PlansOnlyAtWork'
  BY DEF TypeOK, PlansOnlyAtWork

LEMMA GotoKeepsPlans ==
  ASSUME TypeOK, PlansOnlyAtWork, NEW p \in Runners, NEW s \in ProcSteps,
         Goto(p, s), s \in PlanSteps \/ proc[p].step \notin PlanSteps
  PROVE  PlansOnlyAtWork'
<1>1. proc' = [proc EXCEPT ![p] = [proc[p] EXCEPT !.step = s]]
  BY DEF Goto, TypeOK
<1>2. [proc[p] EXCEPT !.step = s].step = s
  BY DEF TypeOK, Proc
<1>3. proc[p].step \notin PlanSteps => NoPlan([proc[p] EXCEPT !.step = s])
  BY DEF TypeOK, Proc, PlansOnlyAtWork, NoPlan
<1>4. QED
  BY <1>1, <1>2, <1>3, AssignKeepsPlans

LEMMA FinishKeepsPlans ==
  ASSUME TypeOK, PlansOnlyAtWork, NEW p \in Runners, Finish(p)
  PROVE  PlansOnlyAtWork'
<1>1. NoPlan(Idle)
  BY DEF NoPlan, Idle, Working
<1>2. QED
  BY <1>1, AssignKeepsPlans DEF Finish

LEMMA PlansPrepare ==
  ASSUME TypeOK, TurnInv,
         \/ PrepareMessage \/ PrepareHandler
         \/ PrepareSlotBusy \/ PrepareTasksFail
  PROVE  PlansOnlyAtWork'
<1>0. Preparer \in Runners /\ PlansOnlyAtWork
  BY RunnersDiffer DEF TurnInv
<1>1. CASE PrepareStart
  <2>1. proc[Preparer].step = "idle"
    BY <1>1 DEF PrepareStart, TurnInv, TakeTurns
  <2>2. QED
    BY <1>0, <1>1, <2>1, GotoKeepsPlans
    DEF PrepareStart, PlanSteps, ProcSteps
<1>2. CASE PrepareTasks
  <2>1. PICK cut, hits :
          proc' = [proc EXCEPT ![Preparer] =
                     Working("enqueue", gen + 1, TRUE, cut, hits)]
    BY <1>2 DEF PrepareTasks
  <2>2. Working("enqueue", gen + 1, TRUE, cut, hits).step \in PlanSteps
    BY DEF Working, PlanSteps
  <2>3. QED
    BY <1>0, <2>1, <2>2, AssignKeepsPlans
<1>3. CASE PrepareClaimed \/ MarkPending \/ PrepareTasksFail
  BY <1>0, <1>3, FinishKeepsPlans DEF PrepareClaimed, MarkPending,
     PrepareTasksFail
<1>4. CASE PrepareSkip \/ FailPreparingRead \/ FailPreparingJob
           \/ PrepareSlotBusy
  <2>1. proc' = proc
    BY <1>4 DEF PrepareSkip, FailPreparingRead, FailPreparingJob,
                PrepareSlotBusy
  <2>2. QED
    BY <1>0, <2>1 DEF PlansOnlyAtWork
<1>5. CASE PrepareCheck
  BY <1>0, <1>5, GotoKeepsPlans DEF PrepareCheck, PlanSteps, ProcSteps
<1>6. QED
  BY <1>1, <1>2, <1>3, <1>4, <1>5 DEF PrepareMessage, PrepareHandler

LEMMA PlansRunner ==
  ASSUME TypeOK, TurnInv, NEW p \in Runners,
         Enqueue(p) \/ EnqueueError(p) \/ Crash(p)
  PROVE  PlansOnlyAtWork'
<1>0. PlansOnlyAtWork
  BY DEF TurnInv
<1>1. CASE RefundEnqueue(p) \/ RestorePaused(p) \/ Crash(p)
  BY <1>0, <1>1, FinishKeepsPlans DEF RefundEnqueue, RestorePaused, Crash,
     Return
<1>2. CASE EnqueueFails(p) \/ RollbackHits(p) \/ RestoreFlag(p)
  <2>1. PICK s \in {"refund", "restoreFlag", "restore"} : Goto(p, s)
    BY <1>2 DEF EnqueueFails, RollbackHits, RestoreFlag
  <2>2. s \in PlanSteps /\ s \in ProcSteps
    BY DEF PlanSteps, ProcSteps
  <2>3. QED
    BY <1>0, <2>1, <2>2, GotoKeepsPlans
<1>3. CASE PersistHitsFail(p)
  <2>1. Recount(proc[p], Unwrite(p)).step \in PlanSteps
    BY DEF Recount, PlanSteps
  <2>2. QED
    BY <1>0, <1>3, <2>1, AssignKeepsPlans DEF PersistHitsFail
<1>4. ASSUME NEW w, proc' = [proc EXCEPT ![p] = w],
             w.step = proc[p].step, proc[p].step = "enqueue"
      PROVE  PlansOnlyAtWork'
  BY <1>0, <1>4, AssignKeepsPlans DEF PlanSteps
<1>5. CASE EnqueueChunk(p)
  <2>1. PICK c : proc' = [proc EXCEPT ![p].sent = @ \cup {c}]
    BY <1>5 DEF EnqueueChunk
  <2>2. [proc[p] EXCEPT !.sent = @ \cup {c}].step = proc[p].step
    BY DEF TypeOK, Proc
  <2>3. QED
    BY <1>4, <1>5, <2>1, <2>2 DEF EnqueueChunk
<1>6. CASE PersistHits(p)
  <2>1. PICK c : proc' = [proc EXCEPT ![p].wrote = @ \cup {c}]
    BY <1>6 DEF PersistHits, PersistHitsOf
  <2>2. [proc[p] EXCEPT !.wrote = @ \cup {c}].step = proc[p].step
    BY DEF TypeOK, Proc
  <2>3. QED
    BY <1>4, <1>6, <2>1, <2>2 DEF PersistHits
<1>7. QED
  BY <1>1, <1>2, <1>3, <1>5, <1>6 DEF Enqueue, EnqueueError

LEMMA PlansClient ==
  ASSUME TypeOK, TurnInv, NEW c \in Clients, Request(c) \/ Continue(c)
  PROVE  PlansOnlyAtWork'
<1>0. c \in Runners /\ PlansOnlyAtWork
  BY RunnersDiffer DEF TurnInv
<1>1. CASE PauseJob(c) \/ DeleteJob(c)
  <2>1. PICK s \in {"setFlag", "wipe", "stop"} :
          Goto(c, s) /\ proc[c].step = "idle"
    BY <1>1 DEF PauseJob, DeleteJob, Requests
  <2>2. s \in ProcSteps /\ proc[c].step \notin PlanSteps
    BY <2>1 DEF PlanSteps, ProcSteps
  <2>3. QED
    BY <1>0, <2>1, <2>2, GotoKeepsPlans
<1>2. ASSUME NEW charge \in BOOLEAN, RequeueJob(c, charge)
      PROVE  PlansOnlyAtWork'
  <2>1. NoPlan(Working("purge", 0, charge, {}, {}))
    BY DEF NoPlan, Working
  <2>2. QED
    BY <1>0, <1>2, <2>1, AssignKeepsPlans DEF RequeueJob
<1>3. CASE \/ PauseSetFlag(c) \/ RequeuePurge(c) \/ DeleteResults(c)
           \/ DeleteSetFlag(c) \/ RequeueClearFlag(c)
           \/ PauseUpdate(c) /\ status \notin {"pending", "processing"}
  <2>1. PICK s \in {"pause", "requeue", "drop", "cancel", "enqueue",
                    "unpause"} :
          /\ Goto(c, s)
          /\ s = "enqueue" \/ proc[c].step \in {"setFlag", "purge", "wipe",
                                                "stop", "pause"}
    BY <1>3 DEF PauseSetFlag, RequeuePurge, DeleteResults, DeleteSetFlag,
       RequeueClearFlag, PauseUpdate
  <2>2. s \in ProcSteps /\ (s \in PlanSteps \/ proc[c].step \notin PlanSteps)
    BY <2>1 DEF PlanSteps, ProcSteps
  <2>3. QED
    BY <1>0, <2>1, <2>2, GotoKeepsPlans
<1>4. CASE \/ PauseUndo(c) \/ RequeueNothing(c) \/ RequeueRefused(c)
           \/ RequeueDone(c) \/ DropJob(c) \/ CancelPaused(c)
           \/ CancelRefused(c)
           \/ PauseUpdate(c) /\ status \in {"pending", "processing"}
  <2>1. Finish(c)
    BY <1>4 DEF PauseUndo, RequeueNothing, RequeueRefused, RequeueDone,
       DropJob, CancelPaused, CancelRefused, PauseUpdate
  <2>2. QED
    BY <1>0, <2>1, FinishKeepsPlans
<1>5. CASE RequeueTasks(c)
  <2>1. PICK cut, hits :
          proc' = [proc EXCEPT ![c] = Working("clearFlag", gen + 1,
                                              proc[c].charge, cut, hits)]
    BY <1>5 DEF RequeueTasks
  <2>2. Working("clearFlag", gen + 1, proc[c].charge, cut, hits).step
          \in PlanSteps
    BY DEF Working, PlanSteps
  <2>3. QED
    BY <1>0, <2>1, <2>2, AssignKeepsPlans
<1>6. QED
  BY <1>1, <1>2, <1>3, <1>4, <1>5 DEF Request, Continue

LEMMA TurnsPrepare ==
  ASSUME TypeOK, TakeTurns,
         \/ PrepareMessage \/ PrepareHandler
         \/ PrepareSlotBusy \/ PrepareTasksFail
  PROVE  TakeTurns'
<1>0. Preparer \in Runners /\ Clients \subseteq Runners /\ Preparer \notin Clients
  BY RunnersDiffer
<1>1. prep.phase # "gone"
  BY DEF PrepareMessage, PrepareHandler, PrepareSkip, PrepareStart,
     FailPreparingRead, FailPreparingJob, PrepareSlotBusy, PrepareTasksFail,
     PrepareTasks, PrepareCheck, PrepareClaimed, MarkPending, TakeTurns
<1>2. \A c \in Clients : proc'[c].step = "idle"
  <2>1. \A c \in Clients : proc'[c] = proc[c]
    BY <1>0 DEF PrepareMessage, PrepareHandler, PrepareSkip, PrepareStart,
       FailPreparingRead, FailPreparingJob, PrepareSlotBusy,
       PrepareTasksFail, PrepareTasks, PrepareCheck, PrepareClaimed,
       MarkPending, Goto, Finish, TypeOK
  <2>2. QED
    BY <1>1, <2>1 DEF TakeTurns
<1>3. proc'[Preparer].step # "idle" => prep'.phase = "active"
  <2>1. CASE PrepareStart \/ PrepareCheck \/ PrepareTasks
    BY <2>1 DEF PrepareStart, PrepareCheck, PrepareTasks, TakeTurns, TypeOK
  <2>2. CASE PrepareClaimed \/ MarkPending \/ PrepareTasksFail
    BY <1>0, <2>2 DEF PrepareClaimed, MarkPending, PrepareTasksFail, Finish,
       Idle, Working, TypeOK
  <2>3. CASE PrepareSkip \/ FailPreparingRead \/ FailPreparingJob
             \/ PrepareSlotBusy
    BY <2>3 DEF PrepareSkip, FailPreparingRead, FailPreparingJob,
       PrepareSlotBusy, TakeTurns
  <2>4. QED
    BY <2>1, <2>2, <2>3 DEF PrepareMessage, PrepareHandler
<1>4. QED
  BY <1>2, <1>3 DEF TakeTurns

\* A step of runner p at work: another runner stays as it is.
LEMMA RunnerLocal ==
  ASSUME TypeOK, NEW p \in Runners,
         Enqueue(p) \/ EnqueueError(p) \/ Crash(p)
  PROVE  /\ proc[p].step # "idle"
         /\ \A q \in Runners \ {p} : proc'[q] = proc[q]
<1>1. proc[p].step # "idle"
  BY DEF Enqueue, EnqueueError, Crash, EnqueueChunk, PersistHits,
     RollbackHits, RefundEnqueue, RestoreFlag, RestorePaused, EnqueueFails,
     PersistHitsFail
<1>2. \E w : proc' = [proc EXCEPT ![p] = w]
  BY DEF Enqueue, EnqueueError, Crash, EnqueueChunk, PersistHits,
     PersistHitsOf, RollbackHits, RefundEnqueue, RestoreFlag, RestorePaused,
     EnqueueFails, PersistHitsFail, Return, Goto, Finish
<1>3. QED
  BY <1>1, <1>2 DEF TypeOK

LEMMA ClientLocal ==
  ASSUME TypeOK, NEW c \in Clients, Request(c) \/ Continue(c)
  PROVE  \A q \in Runners \ {c} : proc'[q] = proc[q]
<1>1. \E w : proc' = [proc EXCEPT ![c] = w]
  BY DEF Request, PauseJob, DeleteJob, RequeueJob, Continue, PauseSetFlag,
     PauseUpdate, PauseUndo, RequeuePurge, RequeueTasks, RequeueNothing,
     RequeueRefused, RequeueClearFlag, RequeueDone, DeleteResults, DropJob,
     DeleteSetFlag, CancelPaused, CancelRefused, Goto, Finish
<1>2. QED
  BY <1>1 DEF TypeOK

LEMMA TurnsRunner ==
  ASSUME TypeOK, TakeTurns, NEW p \in Runners,
         Enqueue(p) \/ EnqueueError(p) \/ Crash(p)
  PROVE  TakeTurns'
<1>0. Preparer \in Runners /\ Clients \subseteq Runners /\ Preparer \notin Clients
  BY RunnersDiffer
<1>1. /\ proc[p].step # "idle"
      /\ \A q \in Runners \ {p} : proc'[q] = proc[q]
  BY RunnerLocal
<1>2. prep' = prep \/ (p = Preparer /\ proc'[p].step = "idle")
  <2>1. CASE RefundEnqueue(p) \/ RestorePaused(p) \/ Crash(p)
    BY <2>1 DEF RefundEnqueue, RestorePaused, Crash, Return, Finish, Idle,
       Working, TypeOK
  <2>2. CASE ~(RefundEnqueue(p) \/ RestorePaused(p) \/ Crash(p))
    BY <2>2 DEF Enqueue, EnqueueError, EnqueueChunk, PersistHits,
       RollbackHits, RestoreFlag, EnqueueFails, PersistHitsFail
  <2>3. QED
    BY <2>1, <2>2
<1>3. CASE p = Preparer
  BY <1>0, <1>1, <1>2, <1>3 DEF TakeTurns
<1>4. CASE p \in Clients
  BY <1>0, <1>1, <1>2, <1>4 DEF TakeTurns
<1>5. QED
  BY <1>3, <1>4 DEF Runners

LEMMA TurnsClient ==
  ASSUME TypeOK, TakeTurns, RequestsWhilePreparing = FALSE,
         NEW c \in Clients, Request(c) \/ Continue(c)
  PROVE  TakeTurns' /\ UNCHANGED prep
<1>0. Preparer \in Runners /\ Clients \subseteq Runners /\ Preparer \notin Clients
  BY RunnersDiffer
<1>1. prep.phase = "gone"
  <2>1. CASE Request(c)
    BY <2>1 DEF Request, PauseJob, DeleteJob, RequeueJob, Requests
  <2>2. CASE Continue(c)
    BY <2>2 DEF Continue, PauseSetFlag, PauseUpdate, PauseUndo, RequeuePurge,
       RequeueTasks, RequeueNothing, RequeueRefused, RequeueClearFlag,
       RequeueDone, DeleteResults, DropJob, DeleteSetFlag, CancelPaused,
       CancelRefused, TakeTurns
  <2>3. QED
    BY <2>1, <2>2
<1>2. prep' = prep
  BY <1>1 DEF Request, PauseJob, DeleteJob, RequeueJob, Requests, Continue,
     PauseSetFlag, PauseUpdate, PauseUndo, RequeuePurge, RequeueTasks,
     RequeueNothing, RequeueRefused, RequeueClearFlag, RequeueDone,
     DeleteResults, DropJob, DeleteSetFlag, CancelPaused, CancelRefused
<1>3. \A q \in Runners \ {c} : proc'[q] = proc[q]
  BY ClientLocal
<1>4. QED
  BY <1>0, <1>1, <1>2, <1>3 DEF TakeTurns

-----------------------------------------------------------------------------
(* A job in preparation has no results yet.                                *)

LEMMA FreshStep ==
  ASSUME TypeOK, FreshJob, [Next]_vars
  PROVE  FreshJob'
<1>1. CASE PrepareMessage \/ PrepareHandler \/ PrepareSlotBusy
           \/ PrepareTasksFail
  BY <1>1 DEF PrepareMessage, PrepareHandler, PrepareSkip, PrepareStart,
     FailPreparingRead, FailPreparingJob, PrepareSlotBusy, PrepareTasksFail,
     PrepareTasks, PrepareCheck, PrepareClaimed, MarkPending, RefundJob,
     jobVars, FreshJob
<1>2. ASSUME NEW p \in Runners, Enqueue(p) \/ EnqueueError(p) \/ Crash(p)
      PROVE  FreshJob'
  <2>1. CASE PersistHits(p)
    <3>1. PICK c, hits : PersistHitsOf(p, c, hits)
      BY <2>1 DEF PersistHits
    <3>2. QED
      BY <3>1, ProgressLeaves DEF PersistHitsOf, FreshJob, Live, jobVars
  <2>2. CASE ~PersistHits(p)
    BY <1>2, <2>2 DEF Enqueue, EnqueueError, Crash, EnqueueChunk,
       RollbackHits, RefundEnqueue, RestoreFlag, RestorePaused,
       EnqueueFails, PersistHitsFail, Unwrite, RefundJob, jobVars, FreshJob
  <2>3. QED
    BY <2>1, <2>2
<1>3. ASSUME NEW c \in Clients, Request(c) \/ Continue(c)
      PROVE  FreshJob'
  BY <1>3 DEF Request, PauseJob, DeleteJob, RequeueJob, Requests, Continue,
     PauseSetFlag, PauseUpdate, PauseUndo, RequeuePurge, RequeueTasks,
     RequeueNothing, RequeueRefused, RequeueClearFlag, RequeueDone,
     DeleteResults, DropJob, DeleteSetFlag, CancelPaused, CancelRefused,
     jobVars, FreshJob
<1>4. ASSUME NEW m \in msgs, WorkerStep(m) \/ WorkerError(m)
      PROVE  FreshJob'
  <2>1. CASE Report(m) \/ ReportUnanswered(m)
    <3>1. ReportTaskResults(m)
      BY <2>1 DEF Report, ReportUnanswered
    <3>2. CASE rows' = rows /\ status' = status
      BY <3>2 DEF FreshJob
    <3>3. CASE ~(rows' = rows /\ status' = status)
      BY <3>1, <3>3, ProgressLeaves DEF ReportTaskResults, FreshJob, jobVars
    <3>4. QED
      BY <3>2, <3>3
  <2>2. CASE ~(Report(m) \/ ReportUnanswered(m))
    BY <1>4, <2>2 DEF WorkerStep, WorkerError, SkipChunk, StartChunk,
       FinishChunk, StopChunk, ChunkFails, ReportRefused, DeadLetterLost,
       jobVars, FreshJob
  <2>3. QED
    BY <2>1, <2>2
<1>5. CASE LockExpires \/ PauseCacheExpires \/ UNCHANGED vars
  BY <1>5 DEF LockExpires, PauseCacheExpires, vars, jobVars, FreshJob
<1>6. QED
  BY <1>1, <1>2, <1>3, <1>4, <1>5 DEF Next

LEMMA WorkerLocal ==
  ASSUME NEW m \in msgs, WorkerStep(m) \/ WorkerError(m)
  PROVE  UNCHANGED <<proc, prep, gen>>
  BY DEF WorkerStep, WorkerError, SkipChunk, StartChunk, FinishChunk,
     StopChunk, Report, ChunkFails, ReportRefused, DeadLetterLost,
     ReportUnanswered, ReportTaskResults

LEMMA TurnInit == Init => TurnInv
  BY RunnersDiffer DEF Init, TurnInv, PlansOnlyAtWork, TakeTurns, FreshJob,
     NoPlan, Idle, Working

LEMMA TurnStep ==
  ASSUME TypeOK, TurnInv, RequestsWhilePreparing = FALSE, [Next]_vars
  PROVE  TurnInv'
<1>1. FreshJob'
  BY FreshStep DEF TurnInv
<1>2. PlansOnlyAtWork' /\ TakeTurns'
  <2>1. CASE PrepareMessage \/ PrepareHandler \/ PrepareSlotBusy
             \/ PrepareTasksFail
    BY <2>1, PlansPrepare, TurnsPrepare DEF TurnInv
  <2>2. ASSUME NEW p \in Runners, Enqueue(p) \/ EnqueueError(p) \/ Crash(p)
        PROVE  PlansOnlyAtWork' /\ TakeTurns'
    BY <2>2, PlansRunner, TurnsRunner DEF TurnInv
  <2>3. ASSUME NEW c \in Clients, Request(c) \/ Continue(c)
        PROVE  PlansOnlyAtWork' /\ TakeTurns'
    BY <2>3, PlansClient, TurnsClient DEF TurnInv
  <2>4. ASSUME UNCHANGED <<proc, prep>>
        PROVE  PlansOnlyAtWork' /\ TakeTurns'
    BY <2>4 DEF TurnInv, PlansOnlyAtWork, TakeTurns
  <2>5. QED
    BY <2>1, <2>2, <2>3, <2>4, WorkerLocal
    DEF Next, LockExpires, PauseCacheExpires, vars
<1>3. QED
  BY <1>1, <1>2 DEF TurnInv

-----------------------------------------------------------------------------
(* How old messages and rows are, and how often prepare has started.       *)

\* The crashes so far are counted by what is left of their budget.
CrashBudget(old, new) ==
  Limits["crash"] \in Nat /\ old \in Nat /\ new \in Nat /\ new <= old

LEMMA CrashesGrow ==
  ASSUME TypeOK, [Next]_vars
  PROVE  CrashBudget(budget["crash"], budget'["crash"])
<1>1. "crash" \in Events
  BY DEF Events
<1>2. budget["crash"] \in Nat /\ Limits["crash"] \in Nat
  BY <1>1, LimitsAssumption DEF TypeOK
<1>3. QED
  BY <1>1, <1>2, BudgetFalls DEF CrashBudget

\* A runner that goes on stays at a step with a plan.
LEMMA PlanStepsStay ==
  ASSUME TypeOK, NEW p \in Runners, Enqueue(p) \/ EnqueueError(p)
  PROVE  /\ proc[p].step \in PlanSteps
         /\ \/ proc'[p].step \in PlanSteps
            \/ RefundEnqueue(p) \/ RestorePaused(p)
<1>1. proc[p].step \in PlanSteps
  BY DEF Enqueue, EnqueueError, EnqueueChunk, PersistHits, RollbackHits,
     RefundEnqueue, RestoreFlag, RestorePaused, EnqueueFails,
     PersistHitsFail, PlanSteps
<1>2. CASE EnqueueFails(p) \/ RollbackHits(p) \/ RestoreFlag(p)
  <2>1. PICK s \in {"refund", "restoreFlag", "restore"} : Goto(p, s)
    BY <1>2 DEF EnqueueFails, RollbackHits, RestoreFlag
  <2>2. proc'[p].step = s
    BY <2>1 DEF Goto, TypeOK, Proc
  <2>3. QED
    BY <1>1, <2>1, <2>2 DEF PlanSteps
<1>3. CASE PersistHitsFail(p)
  BY <1>3 DEF PersistHitsFail, Recount, TypeOK, PlanSteps
<1>4. CASE EnqueueChunk(p) \/ PersistHits(p)
  <2>1. \/ \E c : proc' = [proc EXCEPT ![p].sent = @ \cup {c}]
        \/ \E c : proc' = [proc EXCEPT ![p].wrote = @ \cup {c}]
    BY <1>4 DEF EnqueueChunk, PersistHits, PersistHitsOf
  <2>2. proc'[p].step = proc[p].step
    BY <2>1 DEF TypeOK, Proc
  <2>3. QED
    BY <1>1, <2>2
<1>5. QED
  BY <1>1, <1>2, <1>3, <1>4 DEF Enqueue, EnqueueError

LEMMA AttemptsPrepare ==
  ASSUME TypeOK, TakeTurns, AttemptsKnown,
         CrashBudget(budget["crash"], budget'["crash"]),
         \/ PrepareMessage \/ PrepareHandler
         \/ PrepareSlotBusy \/ PrepareTasksFail
  PROVE  AttemptsKnown'
<1>0. Preparer \in Runners /\ gen \in Nat
  BY RunnersDiffer DEF TypeOK
<1>1. CASE PrepareTasks
  <2>1. /\ proc[Preparer].step \notin PlanSteps
        /\ proc'[Preparer].step \in PlanSteps
        /\ gen' = gen + 1 /\ prep' = prep
    BY <1>0, <1>1 DEF PrepareTasks, TypeOK, Working, PlanSteps
  <2>2. QED
    BY <1>0, <2>1 DEF AttemptsKnown, Crashes, CrashBudget
<1>2. CASE PrepareClaimed \/ MarkPending
  BY <1>2 DEF PrepareClaimed, MarkPending, PrepareDone, TypeOK, AttemptsKnown
<1>3. CASE PrepareStart \/ PrepareCheck \/ PrepareTasksFail
  <2>1. proc[Preparer].step \notin PlanSteps /\ gen' = gen
    BY <1>3 DEF PrepareStart, PrepareCheck, PrepareTasksFail, TakeTurns,
       PlanSteps
  <2>2. prep.phase # "gone"
    BY <1>3 DEF PrepareStart, PrepareCheck, PrepareTasksFail, TakeTurns
  <2>3. QED
    BY <1>0, <2>1, <2>2 DEF AttemptsKnown, Crashes, CrashBudget
<1>4. CASE PrepareSkip \/ FailPreparingRead \/ FailPreparingJob
           \/ PrepareSlotBusy
  <2>1. proc' = proc /\ gen' = gen /\ prep.phase # "gone"
    BY <1>4 DEF PrepareSkip, FailPreparingRead, FailPreparingJob,
       PrepareSlotBusy
  <2>2. QED
    BY <1>0, <2>1 DEF AttemptsKnown, Crashes, CrashBudget
<1>5. QED
  BY <1>1, <1>2, <1>3, <1>4 DEF PrepareMessage, PrepareHandler

LEMMA AttemptsRunner ==
  ASSUME TypeOK, TakeTurns, AttemptsKnown,
         CrashBudget(budget["crash"], budget'["crash"]),
         NEW p \in Runners, Enqueue(p) \/ EnqueueError(p) \/ Crash(p)
  PROVE  AttemptsKnown'
<1>0. Preparer \in Runners /\ gen \in Nat
  BY RunnersDiffer DEF TypeOK
<1>1. /\ proc[p].step # "idle"
      /\ \A q \in Runners \ {p} : proc'[q] = proc[q]
  BY RunnerLocal
<1>2. gen' = gen
  BY DEF Enqueue, EnqueueError, Crash, EnqueueChunk, PersistHits,
     RollbackHits, RefundEnqueue, RestoreFlag, RestorePaused, EnqueueFails,
     PersistHitsFail
<1>3. CASE p # Preparer
  <2>1. prep.phase = "gone"
    BY <1>1, <1>3 DEF TakeTurns, Runners
  <2>2. prep' = prep
    BY <1>3 DEF Enqueue, EnqueueError, Crash, EnqueueChunk, PersistHits,
       RollbackHits, RefundEnqueue, RestoreFlag, RestorePaused,
       EnqueueFails, PersistHitsFail, Return
  <2>3. QED
    BY <2>1, <2>2 DEF AttemptsKnown, Crashes, CrashBudget
<1>4. CASE p = Preparer /\ Crash(p)
  <2>1. budget'["crash"] = budget["crash"] - 1
    BY <1>4 DEF Crash, Spend, TypeOK, Events
  <2>2. prep.phase # "gone"
    BY <1>1, <1>4 DEF TakeTurns
  <2>3. QED
    BY <1>0, <1>2, <2>1, <2>2 DEF AttemptsKnown, Crashes, CrashBudget
<1>5. CASE p = Preparer /\ (RefundEnqueue(p) \/ RestorePaused(p))
  BY <1>5 DEF RefundEnqueue, RestorePaused, Return, PrepareDone, TypeOK,
     AttemptsKnown
<1>6. CASE p = Preparer /\ ~(RefundEnqueue(p) \/ RestorePaused(p) \/ Crash(p))
  <2>1. proc[Preparer].step \in PlanSteps /\ prep' = prep
    BY <1>6, PlanStepsStay DEF Enqueue, EnqueueError, EnqueueChunk,
       PersistHits, RollbackHits, RestoreFlag, EnqueueFails, PersistHitsFail
  <2>2. proc'[Preparer].step \in PlanSteps
    BY <1>6, PlanStepsStay
  <2>3. QED
    BY <1>0, <1>2, <2>1, <2>2 DEF AttemptsKnown, Crashes, CrashBudget
<1>7. QED
  BY <1>3, <1>4, <1>5, <1>6

LEMMA AttemptsStep ==
  ASSUME TypeOK, TakeTurns, AttemptsKnown, RequestsWhilePreparing = FALSE,
         [Next]_vars
  PROVE  AttemptsKnown'
<1>0. CrashBudget(budget["crash"], budget'["crash"]) /\ gen \in Nat
  BY CrashesGrow DEF TypeOK
<1>1. ASSUME NEW c \in Clients, Request(c) \/ Continue(c)
      PROVE  AttemptsKnown'
  <2>1. proc[c].step # "idle" \/ prep.phase = "gone"
    BY <1>1 DEF Request, PauseJob, DeleteJob, RequeueJob, Requests, Continue,
       PauseSetFlag, PauseUpdate, PauseUndo, RequeuePurge, RequeueTasks,
       RequeueNothing, RequeueRefused, RequeueClearFlag, RequeueDone,
       DeleteResults, DropJob, DeleteSetFlag, CancelPaused, CancelRefused
  <2>2. prep.phase = "gone" /\ prep' = prep
    BY <1>1, <2>1, TurnsClient DEF TakeTurns
  <2>3. QED
    BY <2>2 DEF AttemptsKnown, Crashes, CrashBudget
<1>2. ASSUME UNCHANGED <<proc, prep, gen>>
      PROVE  AttemptsKnown'
  BY <1>0, <1>2 DEF AttemptsKnown, Crashes, CrashBudget
<1>3. QED
  BY <1>0, <1>1, <1>2, AttemptsPrepare, AttemptsRunner, WorkerLocal
  DEF Next, LockExpires, PauseCacheExpires, vars

LEMMA QuietNumbered ==
  ASSUME Quiet, Numbered
  PROVE  Numbered'
  BY DEF Quiet, Numbered, MovedOn

LEMMA NumberedStep ==
  ASSUME TypeOK, RowInv, Numbered, [Next]_vars
  PROVE  Numbered'
<1>1. CASE PrepareMessage \/ PrepareSlotBusy \/ PrepareTasksFail
           \/ PrepareHandler
  <2>1. CASE PrepareTasks
    BY <2>1 DEF PrepareTasks, Numbered
  <2>2. CASE ~PrepareTasks
    BY <1>1, <2>2, QuietPrepare, QuietNumbered DEF PrepareHandler
  <2>3. QED
    BY <2>1, <2>2
<1>2. ASSUME NEW p \in Runners, Enqueue(p) \/ EnqueueError(p) \/ Crash(p)
      PROVE  Numbered'
  <2>0. proc[p].chunks # {} => proc[p].gen > 0
    BY DEF TypeOK, Proc, RowInv, OwnGeneration
  <2>1. CASE EnqueueChunk(p)
    <3>1. PICK c \in Unsent(p) :
            msgs' = msgs \cup {[gen |-> proc[p].gen, chunk |-> c,
                                emails |-> Misses(p, c), retried |-> 0,
                                phase |-> "pending", found |-> {}]}
      BY <2>1 DEF EnqueueChunk
    <3>2. proc[p].gen > 0 /\ rows' = rows
      BY <2>0, <2>1 DEF Unsent, EnqueueChunk
    <3>3. QED
      BY <3>1, <3>2 DEF Numbered
  <2>2. CASE PersistHits(p)
    <3>1. PICK c, hits : c \in Unwritten(p) /\ PersistHitsOf(p, c, hits)
      BY <2>2 DEF PersistHits
    <3>2. proc[p].gen > 0 /\ msgs' = msgs
      BY <2>0, <2>2 DEF Unwritten, PersistHits
    <3>3. \A r \in RowsFor(hits, proc[p].gen, "cache") : r.gen > 0
      BY <3>2 DEF RowsFor
    <3>4. QED
      BY <3>1, <3>2, <3>3 DEF PersistHitsOf, Numbered
  <2>3. CASE ~EnqueueChunk(p) /\ ~PersistHits(p)
    BY <1>2, <2>3, QuietRunner, QuietNumbered DEF Enqueue
  <2>4. QED
    BY <2>1, <2>2, <2>3
<1>3. ASSUME NEW c \in Clients, Request(c) \/ Continue(c)
      PROVE  Numbered'
  <2>1. CASE RequeueTasks(c)
    BY <2>1 DEF RequeueTasks, Numbered
  <2>2. CASE ~RequeueTasks(c)
    BY <1>3, <2>2, QuietRequest, QuietContinue, QuietNumbered
  <2>3. QED
    BY <2>1, <2>2
<1>4. ASSUME NEW m \in msgs, WorkerStep(m) \/ WorkerError(m)
      PROVE  Numbered'
  <2>1. CASE Report(m) \/ ReportUnanswered(m)
    <3>1. \A x \in msgs' : x \in msgs \/ x = Failed(m)
      BY <2>1 DEF Report, ReportUnanswered
    <3>2. Failed(m).gen = m.gen
      BY FailedMovedOn DEF MovedOn
    <3>3. rows' = rows \/ (m.gen = gen
                           /\ rows' = rows
                                       \cup RowsFor(Fresh(m), gen, "worker"))
      BY <2>1 DEF Report, ReportUnanswered, ReportTaskResults, Accepts
    <3>4. \A r \in RowsFor(Fresh(m), gen, "worker") : r.gen = gen
      BY DEF RowsFor
    <3>5. QED
      BY <3>1, <3>2, <3>3, <3>4 DEF Numbered
  <2>2. CASE ~(Report(m) \/ ReportUnanswered(m))
    BY <1>4, <2>2, QuietWorker, QuietNumbered DEF WorkerStep, WorkerError
  <2>3. QED
    BY <2>1, <2>2
<1>5. CASE LockExpires \/ PauseCacheExpires \/ UNCHANGED vars
  BY <1>5 DEF LockExpires, PauseCacheExpires, vars, Numbered
<1>6. QED
  BY <1>1, <1>2, <1>3, <1>4, <1>5 DEF Next

LEMMA CheckedStep ==
  ASSUME TypeOK, RowInv, TurnInv, CheckedKnown, [Next]_vars
  PROVE  CheckedKnown'
<1>0. Preparer \in Runners /\ Clients \subseteq Runners /\ TakeTurns
  BY RunnersDiffer DEF TurnInv
<1> SUFFICES ASSUME proc'[Preparer].step = "checked"
             PROVE  \A r \in rows' : r.by = "worker"
  BY DEF CheckedKnown
<1>1. CASE PrepareMessage \/ PrepareHandler \/ PrepareSlotBusy
           \/ PrepareTasksFail
  <2>1. CASE PrepareCheck
    BY <2>1 DEF PrepareCheck, TurnInv, FreshJob
  <2>2. CASE ~PrepareCheck
    <3>1. \/ proc' = proc \/ Goto(Preparer, "loaded") \/ Finish(Preparer)
          \/ proc'[Preparer].step = "enqueue"
      BY <1>0, <1>1, <2>2 DEF PrepareMessage, PrepareHandler, PrepareSkip,
         PrepareStart, FailPreparingRead, FailPreparingJob, PrepareSlotBusy,
         PrepareTasksFail, PrepareTasks, PrepareClaimed, MarkPending,
         TypeOK, Working
    <3>2. proc' = proc
      BY <1>0, <3>1 DEF Goto, Finish, Idle, Working, TypeOK, Proc
    <3>3. rows' = rows
      BY <1>1, <2>2 DEF PrepareMessage, PrepareHandler, PrepareSkip,
         PrepareStart, FailPreparingRead, FailPreparingJob, PrepareSlotBusy,
         PrepareTasksFail, PrepareTasks, PrepareClaimed, MarkPending
    <3>4. QED
      BY <3>2, <3>3 DEF CheckedKnown
  <2>3. QED
    BY <2>1, <2>2
<1>2. ASSUME NEW p \in Runners, Enqueue(p) \/ EnqueueError(p) \/ Crash(p)
      PROVE  FALSE
  <2>1. CASE p = Preparer /\ Crash(p)
    BY <1>0, <2>1 DEF Crash, Finish, Idle, Working, TypeOK
  <2>2. CASE p = Preparer /\ (RefundEnqueue(p) \/ RestorePaused(p))
    BY <1>0, <2>2 DEF RefundEnqueue, RestorePaused, Return, Finish, Idle,
       Working, TypeOK
  <2>3. CASE /\ p = Preparer
             /\ ~(RefundEnqueue(p) \/ RestorePaused(p) \/ Crash(p))
    BY <1>2, <2>3, PlanStepsStay DEF PlanSteps
  <2>4. CASE p # Preparer
    <3>1. proc[p].step # "idle" /\ proc'[Preparer] = proc[Preparer]
      BY <1>0, <1>2, <2>4, RunnerLocal
    <3>2. proc[Preparer].step = "idle"
      BY <1>0, <2>4, <3>1 DEF TakeTurns, Runners
    <3>3. QED
      BY <3>1, <3>2
  <2>5. QED
    BY <2>1, <2>2, <2>3, <2>4
<1>3. ASSUME NEW c \in Clients, Request(c) \/ Continue(c)
      PROVE  \A r \in rows' : r.by = "worker"
  <2>1. proc'[Preparer] = proc[Preparer]
    BY <1>0, <1>3, ClientLocal, RunnersDiffer
  <2>2. rows' \subseteq rows
    BY <1>3, QuietRequest, QuietContinue DEF Quiet, RequeueTasks
  <2>3. QED
    BY <2>1, <2>2 DEF CheckedKnown
<1>4. ASSUME NEW m \in msgs, WorkerStep(m) \/ WorkerError(m)
      PROVE  \A r \in rows' : r.by = "worker"
  <2>1. proc' = proc
    BY <1>4, WorkerLocal
  <2>2. CASE Report(m) \/ ReportUnanswered(m)
    <3>1. rows' = rows \/ rows' = rows \cup RowsFor(Fresh(m), gen, "worker")
      BY <2>2 DEF Report, ReportUnanswered, ReportTaskResults
    <3>2. \A r \in RowsFor(Fresh(m), gen, "worker") : r.by = "worker"
      BY DEF RowsFor
    <3>3. QED
      BY <2>1, <3>1, <3>2 DEF CheckedKnown
  <2>3. CASE ~(Report(m) \/ ReportUnanswered(m))
    BY <1>4, <2>1, <2>3, QuietWorker DEF WorkerStep, WorkerError, Quiet,
       CheckedKnown
  <2>4. QED
    BY <2>2, <2>3
<1>5. CASE LockExpires \/ PauseCacheExpires \/ UNCHANGED vars
  BY <1>5 DEF LockExpires, PauseCacheExpires, vars, CheckedKnown
<1>6. QED
  BY <1>1, <1>2, <1>3, <1>4, <1>5 DEF Next

LEMMA AgeInit == Init => AgeInv
<1>1. "crash" \in Events
  BY DEF Events
<1>2. QED
  BY <1>1, LimitsAssumption, RunnersDiffer
  DEF Init, AgeInv, AttemptsKnown, CheckedKnown, Numbered, Crashes, PlanSteps,
      Idle, Working

LEMMA AgeStep ==
  ASSUME TypeOK, RowInv, TurnInv, AgeInv, RequestsWhilePreparing = FALSE,
         [Next]_vars
  PROVE  AgeInv'
  BY AttemptsStep, NumberedStep, CheckedStep DEF AgeInv, TurnInv

-----------------------------------------------------------------------------
(* A plan stays open.                                                      *)

LEMMA IdleHasNoPlan ==
  ASSUME TurnInv, NEW p \in Runners, proc[p].step = "idle"
  PROVE  NoPlan(proc[p])
  BY DEF TurnInv, PlansOnlyAtWork, PlanSteps

LEMMA OthersIdle ==
  ASSUME TurnInv, NEW p \in Runners, NEW q \in Runners, q # p,
         Solo(p), proc[q].step # "idle"
  PROVE  proc[p].step = "idle"
  BY DEF TurnInv, TakeTurns, Solo, Serial, Runners

LEMMA NoPlanOpen ==
  ASSUME NEW p \in Runners, NoPlan(proc'[p])
  PROVE  PlanOpen(p)'
  BY DEF PlanOpen, NoPlan

\* Somebody else's step leaves the plan of an idle runner empty.
LEMMA OthersOpen ==
  ASSUME TurnInv, NEW p \in Runners, NEW q \in Runners, q # p,
         Solo(p), proc[q].step # "idle", proc'[p] = proc[p]
  PROVE  PlanOpen(p)'
  BY OthersIdle, IdleHasNoPlan, NoPlanOpen

LEMMA QuietOpen ==
  ASSUME TypeOK, Quiet, NEW p \in Runners, PlanOpen(p)
  PROVE  PlanOpen(p)'
<1>1. CASE NoPlan(proc'[p])
  BY <1>1, NoPlanOpen
<1>2. CASE SamePlan(proc'[p], proc[p])
  <2> SUFFICES ASSUME proc[p].gen > 0
               PROVE  /\ proc[p].gen = gen
                      /\ \A c \in proc[p].chunks :
                           /\ c \notin proc[p].wrote
                                => Hits(p, c)' \cap Answered(p)' = {}
                           /\ c \notin proc[p].sent =>
                                /\ Misses(p, c)' \cap Answered(p)' = {}
                                /\ \A m \in msgs' :
                                     m.gen = gen => m.emails \cap c = {}
    BY <1>2 DEF SamePlan, PlanOpen, Quiet
  <2>1. Answered(p)' \subseteq Answered(p)
    BY <1>2 DEF Answered, Late, SamePlan, Quiet
  <2>2. ASSUME NEW c
        PROVE  Hits(p, c)' = Hits(p, c) /\ Misses(p, c)' = Misses(p, c)
    BY <1>2 DEF Hits, Misses, SamePlan
  <2>3. \A x \in msgs' : \E m \in msgs : x.gen = m.gen /\ x.emails = m.emails
    BY DEF Quiet, MovedOn
  <2>4. QED
    BY <2>1, <2>2, <2>3 DEF PlanOpen
<1>3. QED
  BY <1>1, <1>2 DEF Quiet, PlansKept

(* A new plan covers only addresses without a row, late ones of prepare    *)
(* excepted, and no message is as young as it is.                          *)
LEMMA NewPlanOpen ==
  ASSUME TypeOK, RowInv, NEW p \in Runners, NEW step, NEW charge,
         NEW S \in SUBSET Emails, NEW cut \in Cuts(S), NEW hits,
         \A r \in rows : r.email \in S => p = Preparer /\ r.by = "worker",
         proc' = [proc EXCEPT ![p] = Working(step, gen + 1, charge, cut, hits)],
         gen' = gen + 1, UNCHANGED <<rows, msgs>>
  PROVE  PlanOpen(p)'
<1>1. proc'[p] = Working(step, gen + 1, charge, cut, hits)
  BY DEF TypeOK
<1>2. proc'[p].gen = gen + 1 /\ proc'[p].chunks = cut
  BY <1>1 DEF Working
<1>3. \A c \in cut : c \cap Answered(p)' = {}
  <2>1. ASSUME NEW r \in rows, r.email \in S
        PROVE  Late(p, r)'
    <3>1. r.gen \in Nat /\ r.gen <= gen /\ gen \in Nat
      BY DEF TypeOK, Row, RowInv, RowsKnown
    <3>2. QED
      BY <1>2, <2>1, <3>1 DEF Late
  <2>2. \A c \in cut : c \subseteq S
    BY DEF Cuts
  <2>3. \A e \in Answered(p)' : \E r \in rows : e = r.email /\ ~Late(p, r)'
    BY DEF Answered
  <2>4. QED
    BY <2>1, <2>2, <2>3
<1>4. \A m \in msgs : m.gen # gen + 1
  BY DEF TypeOK, Message, RowInv, MessagesKnown
<1>5. QED
  BY <1>2, <1>3, <1>4 DEF PlanOpen, Hits, Misses

LEMMA PrepareTasksOpen ==
  ASSUME TypeOK, RowInv, TurnInv, AgeInv, PrepareTasks,
         NEW p \in Runners, Solo(p)
  PROVE  PlanOpen(p)'
<1>0. Preparer \in Runners
  BY RunnersDiffer
<1>1. PICK cut, hits :
        /\ cut \in Cuts(Emails)
        /\ proc' = [proc EXCEPT ![Preparer] =
                      Working("enqueue", gen + 1, TRUE, cut, hits)]
  BY DEF PrepareTasks
<1>2. CASE p = Preparer
  <2>1. \A r \in rows : r.by = "worker"
    BY DEF PrepareTasks, AgeInv, CheckedKnown
  <2>2. gen' = gen + 1 /\ UNCHANGED <<rows, msgs>>
    BY DEF PrepareTasks
  <2>3. QED
    BY <1>0, <1>1, <1>2, <2>1, <2>2, NewPlanOpen
<1>3. CASE p # Preparer
  <2>1. proc[Preparer].step # "idle" /\ proc'[p] = proc[p]
    BY <1>0, <1>1, <1>3 DEF PrepareTasks, TypeOK
  <2>2. QED
    BY <1>0, <1>3, <2>1, OthersOpen
<1>4. QED
  BY <1>2, <1>3

LEMMA RequeueTasksOpen ==
  ASSUME TypeOK, RowInv, TurnInv, NEW c \in Clients, RequeueTasks(c),
         NEW p \in Runners, Solo(p)
  PROVE  PlanOpen(p)'
<1>0. c \in Runners
  BY RunnersDiffer
<1>1. PICK cut, hits :
        /\ cut \in Cuts(Remaining)
        /\ proc' = [proc EXCEPT ![c] = Working("clearFlag", gen + 1,
                                               proc[c].charge, cut, hits)]
  BY DEF RequeueTasks
<1>2. CASE p = c
  <2>1. Remaining \in SUBSET Emails /\ \A r \in rows : r.email \notin Remaining
    BY DEF Remaining, Recorded
  <2>2. gen' = gen + 1 /\ UNCHANGED <<rows, msgs>>
    BY DEF RequeueTasks
  <2>3. QED
    BY <1>0, <1>1, <1>2, <2>1, <2>2, NewPlanOpen
<1>3. CASE p # c
  <2>1. proc[c].step # "idle" /\ proc'[p] = proc[p]
    BY <1>0, <1>1, <1>3 DEF RequeueTasks, TypeOK
  <2>2. QED
    BY <1>0, <1>3, <2>1, OthersOpen
<1>4. QED
  BY <1>2, <1>3

LEMMA EnqueueChunkOpen ==
  ASSUME TypeOK, RowInv, NEW p \in Runners, PlanOpen(p), EnqueueChunk(p)
  PROVE  PlanOpen(p)'
<1>1. PICK c \in Unsent(p) :
        /\ msgs' = msgs \cup {[gen |-> proc[p].gen, chunk |-> c,
                               emails |-> Misses(p, c), retried |-> 0,
                               phase |-> "pending", found |-> {}]}
        /\ proc' = [proc EXCEPT ![p].sent = @ \cup {c}]
  BY DEF EnqueueChunk
<1>2. SameWrites(proc'[p], proc[p]) /\ proc'[p].sent = proc[p].sent \cup {c}
  BY <1>1 DEF TypeOK, Proc, SameWrites
<1>3. gen' = gen /\ rows' = rows
  BY DEF EnqueueChunk
<1>4. \A d \in proc[p].chunks : c = d \/ c \cap d = {}
  BY DEF RowInv, DisjointChunks, Unsent
<1>5. ASSUME NEW d \in proc[p].chunks, d # c, NEW m \in msgs' \ msgs
      PROVE  m.emails \cap d = {}
  BY <1>1, <1>4, <1>5 DEF Misses
<1>6. ASSUME NEW d
      PROVE  Hits(p, d)' = Hits(p, d) /\ Misses(p, d)' = Misses(p, d)
  BY <1>2 DEF Hits, Misses, SameWrites
<1>7. Answered(p)' = Answered(p)
  BY <1>2, <1>3 DEF Answered, Late, SameWrites
<1> SUFFICES ASSUME proc[p].gen > 0
             PROVE  /\ proc[p].gen = gen
                    /\ \A d \in proc[p].chunks :
                         /\ d \notin proc[p].wrote
                              => Hits(p, d) \cap Answered(p) = {}
                         /\ d \notin proc[p].sent \cup {c} =>
                              /\ Misses(p, d) \cap Answered(p) = {}
                              /\ \A m \in msgs' :
                                   m.gen = gen => m.emails \cap d = {}
  BY <1>2, <1>3, <1>6, <1>7 DEF PlanOpen, SameWrites
<1>8. QED
  BY <1>5 DEF PlanOpen

LEMMA PersistHitsOpen ==
  ASSUME TypeOK, RowInv, NEW p \in Runners, PlanOpen(p), PersistHits(p)
  PROVE  PlanOpen(p)'
<1>1. PICK c \in Unwritten(p) : \E hits \in Outcomes(Hits(p, c)) :
        PersistHitsOf(p, c, hits)
  BY DEF PersistHits
<1>2. PICK hits \in Outcomes(Hits(p, c)) : PersistHitsOf(p, c, hits)
  BY <1>1
<1>3. /\ \A r \in RowsFor(hits, proc[p].gen, "cache") : r.email \in Hits(p, c)
  BY OutcomesOnce, RowsForOnce
<1>4. rows' = rows \cup RowsFor(hits, proc[p].gen, "cache")
      /\ gen' = gen /\ msgs' = msgs
  BY <1>2 DEF PersistHitsOf, PersistHits
<1>5. /\ proc'[p].gen = proc[p].gen /\ proc'[p].chunks = proc[p].chunks
      /\ proc'[p].hits = proc[p].hits /\ proc'[p].sent = proc[p].sent
      /\ proc'[p].wrote = proc[p].wrote \cup {c}
  BY <1>2 DEF PersistHitsOf, TypeOK, Proc
<1>6. Answered(p)' \subseteq Answered(p) \cup Hits(p, c)
  BY <1>3, <1>4, <1>5 DEF Answered, Late
<1>7. \A d \in proc[p].chunks : c = d \/ c \cap d = {}
  BY DEF RowInv, DisjointChunks, Unwritten
<1>8. ASSUME NEW d
      PROVE  Hits(p, d)' = Hits(p, d) /\ Misses(p, d)' = Misses(p, d)
  BY <1>5 DEF Hits, Misses
<1> SUFFICES ASSUME proc[p].gen > 0
             PROVE  /\ proc[p].gen = gen
                    /\ \A d \in proc[p].chunks :
                         /\ d \notin proc[p].wrote \cup {c}
                              => Hits(p, d) \cap Answered(p)' = {}
                         /\ d \notin proc[p].sent =>
                              /\ Misses(p, d) \cap Answered(p)' = {}
                              /\ \A m \in msgs :
                                   m.gen = gen => m.emails \cap d = {}
  BY <1>4, <1>5, <1>8 DEF PlanOpen
<1>9. \A d \in proc[p].chunks : Misses(p, d) \cap Hits(p, c) = {}
  BY DEF Misses, Hits
<1>10. \A d \in proc[p].chunks : d # c => Hits(p, d) \cap Hits(p, c) = {}
  BY <1>7 DEF Hits
<1>11. QED
  BY <1>6, <1>9, <1>10 DEF PlanOpen

LEMMA ReportOpen ==
  ASSUME TypeOK, RowInv, NEW m \in msgs, ReportTaskResults(m),
         \A x \in msgs' : \E z \in msgs : MovedOn(x, z),
         NEW p \in Runners, PlanOpen(p)
  PROVE  PlanOpen(p)'
<1>1. gen' = gen /\ proc' = proc
  BY DEF ReportTaskResults
<1>2. CASE rows' = rows
  <2>1. Quiet
    BY <1>1, <1>2, SamePlans DEF Quiet
  <2>2. QED
    BY <2>1, QuietOpen
<1>3. CASE rows' # rows
  <2>1. rows' = rows \cup RowsFor(Fresh(m), gen, "worker") /\ m.gen = gen
    BY <1>3 DEF ReportTaskResults, Accepts
  <2>2. Answered(p)' \subseteq Answered(p) \cup m.emails
    BY <1>1, <2>1 DEF Answered, Late, RowsFor, Fresh, RowInv, MessagesKnown,
       FoundOnce
  <2> SUFFICES ASSUME proc[p].gen > 0
               PROVE  /\ proc[p].gen = gen
                      /\ \A d \in proc[p].chunks :
                           /\ d \notin proc[p].wrote
                                => Hits(p, d) \cap Answered(p)' = {}
                           /\ d \notin proc[p].sent =>
                                /\ Misses(p, d) \cap Answered(p)' = {}
                                /\ \A x \in msgs' :
                                     x.gen = gen => x.emails \cap d = {}
    BY <1>1 DEF PlanOpen, Hits, Misses
  <2>3. proc[p].gen = gen /\ m.emails \cap proc[p].hits = {}
    BY <2>1 DEF PlanOpen, RowInv, MessagesKnown
  <2>4. \A d \in proc[p].chunks \ proc[p].sent : m.emails \cap d = {}
    BY <2>1 DEF PlanOpen
  <2>5. \A x \in msgs' : \E z \in msgs : x.gen = z.gen /\ x.emails = z.emails
    BY DEF MovedOn
  <2>6. QED
    BY <2>2, <2>3, <2>4, <2>5 DEF PlanOpen, Hits, Misses
<1>4. QED
  BY <1>2, <1>3

LEMMA OpenInit == Init => OpenInv
  BY DEF Init, OpenInv, PlanOpen, Idle, Working

LEMMA OpenStep ==
  ASSUME TypeOK, RowInv, TurnInv, AgeInv, OpenInv, [Next]_vars
  PROVE  OpenInv'
<1> SUFFICES ASSUME NEW p \in Runners, Solo(p)
             PROVE  PlanOpen(p)'
  BY DEF OpenInv, Solo, Serial
<1>0. PlanOpen(p)
  BY DEF OpenInv
<1>1. CASE PrepareMessage \/ PrepareSlotBusy \/ PrepareTasksFail
           \/ PrepareHandler
  BY <1>0, <1>1, QuietPrepare, QuietOpen, PrepareTasksOpen DEF PrepareHandler
<1>2. ASSUME NEW q \in Runners, Enqueue(q) \/ EnqueueError(q) \/ Crash(q)
      PROVE  PlanOpen(p)'
  <2>1. CASE q # p
    BY <1>2, <2>1, RunnerLocal, OthersOpen
  <2>2. CASE q = p
    BY <1>0, <1>2, <2>2, EnqueueChunkOpen, PersistHitsOpen, QuietRunner,
       QuietOpen DEF Enqueue
  <2>3. QED
    BY <2>1, <2>2
<1>3. ASSUME NEW c \in Clients, Request(c) \/ Continue(c)
      PROVE  PlanOpen(p)'
  BY <1>0, <1>3, RequeueTasksOpen, QuietRequest, QuietContinue, QuietOpen
<1>4. ASSUME NEW m \in msgs, WorkerStep(m) \/ WorkerError(m)
      PROVE  PlanOpen(p)'
  <2>1. CASE Report(m) \/ ReportUnanswered(m)
    <3>1. ReportTaskResults(m)
      BY <2>1 DEF Report, ReportUnanswered
    <3>2. \A x \in msgs : MovedOn(x, x)
      BY DEF RowInv, MessagesKnown, MovedOn
    <3>3. \A x \in msgs' : \E z \in msgs : MovedOn(x, z)
      BY <2>1, <3>2, FailedMovedOn DEF Report, ReportUnanswered
    <3>4. QED
      BY <1>0, <3>1, <3>3, ReportOpen
  <2>2. CASE ~(Report(m) \/ ReportUnanswered(m))
    BY <1>0, <1>4, <2>2, QuietWorker, QuietOpen DEF WorkerStep, WorkerError
  <2>3. QED
    BY <2>1, <2>2
<1>5. CASE LockExpires \/ PauseCacheExpires \/ UNCHANGED vars
  <2>1. gen' = gen /\ rows' = rows /\ msgs' = msgs /\ proc' = proc
    BY <1>5 DEF LockExpires, PauseCacheExpires, vars
  <2>2. QED
    BY <1>0, <2>1, SameMessages, SamePlans, QuietOpen DEF Quiet
<1>6. QED
  BY <1>1, <1>2, <1>3, <1>4, <1>5 DEF Next

-----------------------------------------------------------------------------
(* One result per address.                                                 *)

SoloInv == TypeOK /\ RowInv /\ TurnInv /\ AgeInv /\ OpenInv

LEMMA SoloInvariant ==
  ASSUME RequestsWhilePreparing = FALSE
  PROVE  Spec => []SoloInv
<1>1. Init => SoloInv
  BY InitType, RowInit, TurnInit, AgeInit, OpenInit DEF SoloInv
<1>2. SoloInv /\ TypeOK' /\ [Next]_vars => SoloInv'
  BY RowStep, TurnStep, AgeStep, OpenStep DEF SoloInv
<1>3. QED
  BY <1>1, <1>2, TypeCorrect, PTL DEF Spec

\* What the rows of a step are, if there are more of them than before.
LEMMA RowsGrow ==
  ASSUME TypeOK, RowInv, [Next]_vars
  PROVE  \/ rows' \subseteq rows
         \/ \E p \in Runners : PersistHits(p)
         \/ \E m \in msgs : /\ ReportTaskResults(m)
                            /\ Accepts(m) /\ Fresh(m) # {}
<1>1. CASE PrepareMessage \/ PrepareSlotBusy \/ PrepareTasksFail
           \/ PrepareHandler
  BY <1>1, QuietPrepare DEF Quiet, PrepareHandler, PrepareTasks
<1>2. ASSUME NEW q \in Runners, Enqueue(q) \/ EnqueueError(q) \/ Crash(q),
             ~PersistHits(q)
      PROVE  rows' \subseteq rows
  <2>1. CASE EnqueueChunk(q)
    BY <2>1 DEF EnqueueChunk
  <2>2. CASE ~EnqueueChunk(q)
    BY <1>2, <2>2, QuietRunner DEF Quiet, Enqueue
  <2>3. QED
    BY <2>1, <2>2
<1>3. ASSUME NEW c \in Clients, Request(c) \/ Continue(c)
      PROVE  rows' \subseteq rows
  BY <1>3, QuietRequest, QuietContinue DEF Quiet, RequeueTasks
<1>4. ASSUME NEW m \in msgs, WorkerStep(m) \/ WorkerError(m)
      PROVE  rows' \subseteq rows
             \/ (ReportTaskResults(m) /\ Accepts(m) /\ Fresh(m) # {})
  <2>1. CASE Report(m) \/ ReportUnanswered(m)
    BY <2>1 DEF Report, ReportUnanswered, ReportTaskResults
  <2>2. CASE ~(Report(m) \/ ReportUnanswered(m))
    BY <1>4, <2>2, QuietWorker DEF WorkerStep, WorkerError, Quiet
  <2>3. QED
    BY <2>1, <2>2
<1>5. CASE LockExpires \/ PauseCacheExpires \/ UNCHANGED vars
  BY <1>5 DEF LockExpires, PauseCacheExpires, vars
<1>6. QED
  BY <1>1, <1>2, <1>3, <1>4, <1>5 DEF Next

\* A report adds rows for addresses without one, one each.
LEMMA ReportAddsFresh ==
  ASSUME RowInv, NEW m \in msgs
  PROVE  /\ \A r \in RowsFor(Fresh(m), gen, "worker") : r.email \notin Recorded
         /\ \A r, s \in RowsFor(Fresh(m), gen, "worker") :
              r.email = s.email => r = s
<1>1. FoundOnce(Fresh(m), m.emails \ Recorded)
  BY DEF RowInv, MessagesKnown, FoundOnce, Fresh
<1>2. QED
  BY <1>1, RowsForOnce

\* A handler that works alone answers from the cache what only a late report
\* may have answered before.
LEMMA HitsAddFresh ==
  ASSUME SoloInv, NEW p \in Runners, Solo(p), PersistHits(p)
  PROVE  \E new : /\ rows' = rows \cup new
                  /\ \A r \in new : /\ r.email \notin Answered(p)
                                    /\ r.by = "cache" /\ r.gen = proc[p].gen
                  /\ \A r, s \in new : r.email = s.email => r = s
<1>1. PICK c \in Unwritten(p) : \E hits \in Outcomes(Hits(p, c)) :
        PersistHitsOf(p, c, hits)
  BY DEF PersistHits
<1>2. PICK hits \in Outcomes(Hits(p, c)) : PersistHitsOf(p, c, hits)
  BY <1>1
<1>3. /\ \A r \in RowsFor(hits, proc[p].gen, "cache") : r.email \in Hits(p, c)
      /\ \A r, s \in RowsFor(hits, proc[p].gen, "cache") :
           r.email = s.email => r = s
  BY OutcomesOnce, RowsForOnce
<1>4. proc[p].gen > 0
  BY DEF SoloInv, TypeOK, Proc, RowInv, OwnGeneration, Unwritten
<1>5. Hits(p, c) \cap Answered(p) = {}
  BY <1>4 DEF SoloInv, OpenInv, PlanOpen, Unwritten
<1>6. rows' = rows \cup RowsFor(hits, proc[p].gen, "cache")
  BY <1>2 DEF PersistHitsOf
<1>7. \A r \in RowsFor(hits, proc[p].gen, "cache") :
        r.by = "cache" /\ r.gen = proc[p].gen
  BY DEF RowsFor
<1>8. QED
  BY <1>3, <1>5, <1>6, <1>7

\* The generations of prepare are the first ones.
LEMMA AttemptsCount ==
  ASSUME SoloInv, PersistHits(Preparer)
  PROVE  proc[Preparer].gen <= 1 + Limits["crash"] - budget["crash"]
<1>0. "crash" \in Events /\ Preparer \in Runners
  BY RunnersDiffer DEF Events
<1>1. /\ budget["crash"] \in Nat /\ Limits["crash"] \in Nat
      /\ gen \in Nat /\ proc[Preparer].gen \in Nat
  BY <1>0, LimitsAssumption DEF SoloInv, TypeOK, Proc
<1>2. proc[Preparer].step = "enqueue" /\ prep.phase # "gone"
  BY DEF PersistHits, SoloInv, TurnInv, TakeTurns
<1>3. gen <= Crashes + 1
  BY <1>2 DEF SoloInv, AgeInv, AttemptsKnown, PlanSteps
<1>4. proc[Preparer].gen <= gen
  BY <1>0 DEF SoloInv, RowInv, OwnGeneration
<1>5. QED
  BY <1>1, <1>3, <1>4 DEF Crashes

\* A repetition is not forgotten by the crashes to come.
LEMMA LateHitStays ==
  ASSUME TypeOK, [Next]_vars, NEW r \in rows, NEW s \in rows,
         RepeatedByLateHit(r, s)
  PROVE  RepeatedByLateHit(r, s)'
<1>0. "crash" \in Events
  BY DEF Events
<1>1. /\ budget["crash"] \in Nat /\ Limits["crash"] \in Nat /\ r.gen \in Nat
      /\ budget'["crash"] \in Nat /\ budget'["crash"] <= budget["crash"]
  BY <1>0, BudgetFalls, LimitsAssumption DEF TypeOK, Row
<1>2. QED
  BY <1>1 DEF RepeatedByLateHit

LEMMA RepeatsStep ==
  ASSUME Serial, SoloInv, RepeatsAreLateHits, [Next]_vars
  PROVE  RepeatsAreLateHits'
<1>0. TypeOK /\ RowInv
  BY DEF SoloInv
<1>1. ASSUME NEW r \in rows, NEW s \in rows, r.email = s.email
      PROVE  r = s \/ RepeatedByLateHit(r, s)' \/ RepeatedByLateHit(s, r)'
  BY <1>0, <1>1, LateHitStays DEF RepeatsAreLateHits
<1>2. CASE rows' \subseteq rows
  BY <1>1, <1>2 DEF RepeatsAreLateHits
<1>3. ASSUME NEW m \in msgs, ReportTaskResults(m), Accepts(m), Fresh(m) # {}
      PROVE  RepeatsAreLateHits'
  <2>1. rows' = rows \cup RowsFor(Fresh(m), gen, "worker")
    BY <1>3 DEF ReportTaskResults
  <2>2. QED
    BY <1>0, <1>1, <2>1, ReportAddsFresh DEF RepeatsAreLateHits, Recorded
<1>4. ASSUME NEW p \in Runners, PersistHits(p)
      PROVE  RepeatsAreLateHits'
  <2>1. PICK new :
          /\ rows' = rows \cup new
          /\ \A r \in new : /\ r.email \notin Answered(p)
                            /\ r.by = "cache" /\ r.gen = proc[p].gen
          /\ \A r, s \in new : r.email = s.email => r = s
    BY <1>4, HitsAddFresh DEF Solo
  <2>2. ASSUME NEW r \in new, NEW s \in rows, r.email = s.email
        PROVE  RepeatedByLateHit(r, s)'
    <3>1. p = Preparer /\ s.by = "worker" /\ s.gen < proc[p].gen
      BY <2>1, <2>2 DEF Answered, Late
    <3>2. r.by = "cache" /\ r.gen = proc[p].gen
      BY <2>1
    <3>3. r.gen <= 1 + Limits["crash"] - budget["crash"]
      BY <1>4, <3>1, <3>2, AttemptsCount
    <3>4. budget' = budget
      BY <1>4 DEF PersistHits
    <3>5. QED
      BY <3>1, <3>2, <3>3, <3>4 DEF RepeatedByLateHit
  <2>3. QED
    BY <1>1, <2>1, <2>2 DEF RepeatsAreLateHits
<1>5. QED
  BY <1>0, <1>2, <1>3, <1>4, RowsGrow

(* Where requests are served one at a time, and not before prepare has     *)
(* returned, an address gets a second result only from a prepare that was  *)
(* delivered again after a crash, as a cache hit next to the row of a      *)
(* chunk of the attempt before: through crashes of the API, failed writes  *)
(* and enqueues, repeated and refused reports and any sequence of pauses,  *)
(* resumes, retries and deletes.                                           *)
THEOREM SerialRepeatsAreLateHits ==
  ASSUME RequestsWhilePreparing = FALSE, Serial
  PROVE  Spec => []RepeatsAreLateHits
<1>1. Init => RepeatsAreLateHits
  BY DEF Init, RepeatsAreLateHits
<1>2. SoloInv /\ RepeatsAreLateHits /\ [Next]_vars => RepeatsAreLateHits'
  BY RepeatsStep
<1>3. QED
  BY SoloInvariant, <1>1, <1>2, PTL DEF Spec

(* So no address gets a second result at all while no API process dies in  *)
(* the middle of a handler: prepare then makes only the first generation,  *)
(* and no row is older.                                                    *)
THEOREM SerialWritesOnce ==
  ASSUME RequestsWhilePreparing = FALSE, Serial, Limits["crash"] = 0
  PROVE  Spec => []OneRowPerAddress
<1>1. SoloInv /\ RepeatsAreLateHits => OneRowPerAddress
  <2> SUFFICES ASSUME SoloInv, RepeatsAreLateHits,
                      NEW r \in rows, NEW s \in rows, RepeatedByLateHit(r, s)
               PROVE  FALSE
    BY DEF RepeatsAreLateHits, OneRowPerAddress
  <2>1. "crash" \in Events
    BY DEF Events
  <2>2. budget["crash"] \in Nat /\ r.gen \in Nat /\ s.gen \in Nat /\ s.gen > 0
    BY <2>1 DEF SoloInv, TypeOK, Row, AgeInv, Numbered
  <2>3. QED
    BY <2>2 DEF RepeatedByLateHit
<1>2. QED
  BY SerialRepeatsAreLateHits, SoloInvariant, <1>1, PTL

-----------------------------------------------------------------------------
(* A failed job stays failed.                                              *)

\* The steps at which a handler counts on a job that has not failed.
BusySteps == {"checked", "clearFlag", "enqueue", "restoreFlag", "restore"}

(* A handler that plans and enqueues, or that puts a paused job back, has  *)
(* not failed it, and nobody else has.                                     *)
NotFailed ==
  \A p \in Runners : proc[p].step \in BusySteps => status # "failed"

LEMMA PersistHitsLeaves ==
  ASSUME NEW p \in Runners, PersistHits(p)
  PROVE  status' = status \/ status' \in {"completed", "paused", "processing"}
  BY DEF PersistHits, PersistHitsOf, Progress, ProgressOf, jobVars

LEMMA ReportLeaves ==
  ASSUME NEW m \in msgs, WorkerStep(m) \/ WorkerError(m)
  PROVE  \/ status' = status
         \/ Accepts(m) /\ status' \in {"completed", "paused", "processing"}
<1>1. CASE Report(m) \/ ReportUnanswered(m)
  BY <1>1 DEF Report, ReportUnanswered, ReportTaskResults, Progress,
     ProgressOf, jobVars
<1>2. CASE ~(Report(m) \/ ReportUnanswered(m))
  BY <1>2 DEF WorkerStep, WorkerError, SkipChunk, StartChunk, FinishChunk,
     StopChunk, ChunkFails, ReportRefused, DeadLetterLost, jobVars
<1>3. QED
  BY <1>1, <1>2

LEMMA StepAfter ==
  ASSUME TypeOK, NEW p \in Runners
  PROVE  /\ \A s : Goto(p, s) => proc'[p].step = s
         /\ Finish(p) => proc'[p].step = "idle"
         /\ \A q \in Runners \ {p} :
              Finish(p) \/ (\E s : Goto(p, s)) => proc'[q] = proc[q]
<1>1. ASSUME NEW s, Goto(p, s)
      PROVE  /\ proc'[p].step = s
             /\ \A q \in Runners \ {p} : proc'[q] = proc[q]
  BY <1>1 DEF TypeOK, Goto, Proc
<1>2. ASSUME Finish(p)
      PROVE  /\ proc'[p].step = "idle"
             /\ \A q \in Runners \ {p} : proc'[q] = proc[q]
  BY <1>2 DEF TypeOK, Finish, Idle, Working
<1>3. QED
  BY <1>1, <1>2

LEMMA NotFailedPrepare ==
  ASSUME SoloInv, NotFailed,
         \/ PrepareMessage \/ PrepareHandler
         \/ PrepareSlotBusy \/ PrepareTasksFail
  PROVE  NotFailed'
<1>0. /\ Preparer \in Runners /\ Preparer \notin Clients
      /\ TypeOK /\ TakeTurns
  BY RunnersDiffer DEF SoloInv, TurnInv
<1>1. CASE PrepareTasks
  <2>1. proc[Preparer].step = "checked" /\ status' = status
    BY <1>1 DEF PrepareTasks, jobVars
  <2>2. QED
    BY <1>0, <2>1 DEF NotFailed, BusySteps
<1>2. CASE FailPreparingJob
  <2>1. \A p \in Runners : proc'[p].step = "idle"
    BY <1>0, <1>2 DEF FailPreparingJob, TakeTurns, Runners
  <2>2. QED
    BY <2>1 DEF NotFailed, BusySteps
<1>3. CASE PrepareTasksFail
  <2>1. \A p \in Runners : proc'[p].step = "idle"
    BY <1>0, <1>3 DEF PrepareTasksFail, TakeTurns, Runners, Finish, Idle,
       Working, TypeOK
  <2>2. QED
    BY <2>1 DEF NotFailed, BusySteps
<1>4. CASE PrepareSkip \/ PrepareStart \/ FailPreparingRead
           \/ PrepareSlotBusy \/ PrepareClaimed \/ MarkPending
  <2>1. status' = "failed" => status = "failed"
    BY <1>4 DEF PrepareSkip, PrepareStart, FailPreparingRead,
       PrepareSlotBusy, PrepareClaimed, MarkPending, jobVars
  <2>2. proc' = proc \/ Finish(Preparer) \/ Goto(Preparer, "loaded")
    BY <1>4 DEF PrepareSkip, PrepareStart, FailPreparingRead,
       PrepareSlotBusy, PrepareClaimed, MarkPending
  <2>3. \A p \in Runners : proc'[p].step \in BusySteps
          => proc[p].step \in BusySteps
    BY <1>0, <2>2, StepAfter DEF BusySteps
  <2>4. QED
    BY <2>1, <2>3 DEF NotFailed
<1>5. CASE PrepareCheck
  BY <1>0, <1>5 DEF PrepareCheck, NotFailed, jobVars
<1>6. QED
  BY <1>1, <1>2, <1>3, <1>4, <1>5 DEF PrepareMessage, PrepareHandler

LEMMA NotFailedRunner ==
  ASSUME Serial, SoloInv, NotFailed, NEW p \in Runners,
         Enqueue(p) \/ EnqueueError(p) \/ Crash(p)
  PROVE  NotFailed'
<1>0. TypeOK /\ TurnInv
  BY DEF SoloInv
<1>1. /\ proc[p].step # "idle"
      /\ \A q \in Runners \ {p} : proc'[q] = proc[q]
  BY <1>0, RunnerLocal
<1>2. \A q \in Runners \ {p} : proc'[q].step = "idle"
  BY <1>0, <1>1, OthersIdle DEF Solo
<1> SUFFICES ASSUME proc'[p].step \in BusySteps PROVE status' # "failed"
  BY <1>2 DEF NotFailed, BusySteps
<1>3. CASE RefundEnqueue(p) \/ RestorePaused(p) \/ Crash(p)
  <2>1. proc'[p].step = "idle"
    BY <1>0, <1>3 DEF RefundEnqueue, RestorePaused, Crash, Return, Finish,
       Idle, Working, TypeOK
  <2>2. QED
    BY <2>1 DEF BusySteps
<1>4. CASE RollbackHits(p)
  <2>1. proc'[p].step = "refund"
    BY <1>0, <1>4 DEF RollbackHits, Goto, TypeOK
  <2>2. QED
    BY <2>1 DEF BusySteps
<1>5. CASE EnqueueChunk(p) \/ EnqueueError(p) \/ RestoreFlag(p)
  <2>1. proc[p].step \in BusySteps /\ status' = status
    BY <1>5 DEF EnqueueChunk, EnqueueError, EnqueueFails, PersistHitsFail,
       RestoreFlag, BusySteps, jobVars
  <2>2. QED
    BY <2>1 DEF NotFailed
<1>6. CASE PersistHits(p)
  <2>1. proc[p].step \in BusySteps
    BY <1>6 DEF PersistHits, BusySteps
  <2>2. QED
    BY <1>6, <2>1, PersistHitsLeaves DEF NotFailed
<1>7. QED
  BY <1>3, <1>4, <1>5, <1>6 DEF Enqueue

LEMMA NotFailedClient ==
  ASSUME SoloInv, NotFailed, NEW c \in Clients, Request(c) \/ Continue(c)
  PROVE  NotFailed'
<1>0. TypeOK /\ c \in Runners
  BY RunnersDiffer DEF SoloInv
<1>1. CASE RequeueTasks(c)
  BY <1>1 DEF RequeueTasks, NotFailed
<1>2. CASE ~RequeueTasks(c)
  <2>1. status' = "failed" => status = "failed"
    BY <1>2 DEF Request, PauseJob, DeleteJob, RequeueJob, Requests,
       Continue, PauseSetFlag, PauseUpdate, PauseUndo, RequeuePurge,
       RequeueNothing, RequeueRefused, RequeueClearFlag, RequeueDone,
       DeleteResults, DropJob, DeleteSetFlag, CancelPaused, CancelRefused,
       jobVars
  <2>2. proc'[c].step \in BusySteps => proc[c].step \in BusySteps
    <3>1. CASE RequeueClearFlag(c)
      BY <3>1 DEF RequeueClearFlag, BusySteps
    <3>2. ASSUME NEW charge, RequeueJob(c, charge)
          PROVE  proc'[c].step = "purge"
      BY <1>0, <3>2 DEF RequeueJob, Working, TypeOK
    <3>3. CASE Finish(c) \/ \E s \in ProcSteps \ BusySteps : Goto(c, s)
      BY <1>0, <3>3, StepAfter DEF BusySteps
    <3>4. {"setFlag", "pause", "unpause", "requeue", "wipe", "drop", "stop",
           "cancel"} \subseteq ProcSteps \ BusySteps
      BY DEF ProcSteps, BusySteps
    <3>5. QED
      BY <1>2, <3>1, <3>2, <3>3, <3>4 DEF Request, PauseJob, DeleteJob,
         Continue, PauseSetFlag, PauseUpdate, PauseUndo, RequeuePurge,
         RequeueNothing, RequeueRefused, RequeueDone, DeleteResults,
         DropJob, DeleteSetFlag, CancelPaused, CancelRefused, BusySteps
  <2>3. \A q \in Runners \ {c} : proc'[q] = proc[q]
    BY <1>0, ClientLocal
  <2>4. QED
    BY <2>1, <2>2, <2>3 DEF NotFailed
<1>3. QED
  BY <1>1, <1>2

LEMMA NotFailedStep ==
  ASSUME Serial, SoloInv, NotFailed, [Next]_vars
  PROVE  NotFailed'
<1>1. ASSUME NEW m \in msgs, WorkerStep(m) \/ WorkerError(m)
      PROVE  NotFailed'
  BY <1>1, WorkerLocal, ReportLeaves DEF NotFailed
<1>2. CASE LockExpires \/ PauseCacheExpires \/ UNCHANGED vars
  BY <1>2 DEF LockExpires, PauseCacheExpires, vars, jobVars, NotFailed
<1>3. QED
  BY <1>1, <1>2, NotFailedPrepare, NotFailedRunner, NotFailedClient DEF Next

\* One step of FailedStaysFailed.
FailedStep ==
  status = "failed" /\ status' \notin {"failed", "deleted"}
     => \/ ledger'.charged > ledger.charged
        \/ Remaining = {} /\ status' = "completed"

LEMMA FailedStepHolds ==
  ASSUME SoloInv, NotFailed, [Next]_vars
  PROVE  FailedStep
<1> SUFFICES ASSUME status = "failed", status' \notin {"failed", "deleted"}
             PROVE  \/ ledger'.charged > ledger.charged
                    \/ Remaining = {} /\ status' = "completed"
  BY DEF FailedStep
<1>1. ASSUME NEW c \in Clients, RequeueTasks(c)
      PROVE  ledger'.charged > ledger.charged
  <2>1. proc[c].charge
    BY <1>1 DEF RequeueTasks, Expected
  <2>2. Cardinality(Remaining) \in Nat /\ Cardinality(Remaining) # 0
    <3>1. Remaining \in SUBSET Emails /\ Remaining # {}
      BY <1>1 DEF Remaining, RequeueTasks
    <3>2. QED
      BY <3>1, SubsetsCount, FS_EmptySet
  <2>3. ledger'.charged = ledger.charged + Cardinality(Remaining)
    BY <1>1, <2>1 DEF RequeueTasks, Fee, SoloInv, TypeOK
  <2>4. ledger.charged \in Nat
    BY DEF SoloInv, TypeOK
  <2>5. QED
    BY <2>2, <2>3, <2>4
<1>2. ASSUME NEW c \in Clients, Request(c) \/ Continue(c), ~RequeueTasks(c)
      PROVE  Remaining = {} /\ status' = "completed"
  BY <1>2 DEF Request, PauseJob, DeleteJob, RequeueJob, Requests,
     Continue, PauseSetFlag, PauseUpdate, PauseUndo, RequeuePurge,
     RequeueNothing, RequeueRefused, RequeueClearFlag, RequeueDone,
     DeleteResults, DropJob, DeleteSetFlag, CancelPaused, CancelRefused,
     jobVars
<1>3. ASSUME PrepareMessage \/ PrepareHandler \/ PrepareSlotBusy
             \/ PrepareTasksFail
      PROVE  FALSE
  BY <1>3 DEF PrepareMessage, PrepareHandler, PrepareSkip, PrepareStart,
     FailPreparingRead, FailPreparingJob, PrepareSlotBusy, PrepareTasksFail,
     PrepareTasks, PrepareCheck, PrepareClaimed, MarkPending, RefundJob,
     jobVars
<1>4. ASSUME NEW p \in Runners, Enqueue(p) \/ EnqueueError(p) \/ Crash(p)
      PROVE  FALSE
  <2>1. proc[p].step \notin {"enqueue", "restore"}
    BY DEF NotFailed, BusySteps
  <2>2. QED
    BY <1>4, <2>1 DEF Enqueue, EnqueueError, Crash, EnqueueChunk,
       PersistHits, RollbackHits, RefundEnqueue, RestoreFlag, RestorePaused,
       EnqueueFails, PersistHitsFail, RefundJob, jobVars
<1>5. ASSUME NEW m \in msgs, WorkerStep(m) \/ WorkerError(m)
      PROVE  FALSE
  BY <1>5, ReportLeaves DEF Accepts
<1>6. CASE LockExpires \/ PauseCacheExpires \/ UNCHANGED vars
  BY <1>6 DEF LockExpires, PauseCacheExpires, vars, jobVars
<1>7. QED
  BY <1>1, <1>2, <1>3, <1>4, <1>5, <1>6 DEF Next

(* Where requests are served one at a time, a job that failed and was      *)
(* refunded is worked on again only against a new charge, or is found      *)
(* complete by a retry, whatever crashes, fails or reports late.           *)
THEOREM SerialFailedStays ==
  ASSUME RequestsWhilePreparing = FALSE, Serial
  PROVE  Spec => FailedStaysFailed
<1>1. Init => NotFailed
  BY DEF Init, NotFailed
<1>2. SoloInv /\ NotFailed /\ [Next]_vars => NotFailed'
  BY NotFailedStep
<1>3. SoloInv /\ NotFailed /\ [Next]_vars => [FailedStep]_vars
  BY FailedStepHolds
<1>4. Spec => [][FailedStep]_vars
  BY SoloInvariant, <1>1, <1>2, <1>3, PTL DEF Spec
<1>5. QED
  BY <1>4 DEF FailedStaysFailed, FailedStep
=============================================================================
