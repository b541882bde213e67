-------------------------- MODULE BulkJobSerialProofs --------------------------
(***************************************************************************)
(* The soft-stop flag, the credits and the work in flight of a job whose   *)
(* user sends one request at a time, while no API process dies and no      *)
(* write of prepare or of cache hits fails: enqueues, chunks and their     *)
(* reports may.                                                            *)
(***************************************************************************)
EXTENDS BulkJobCountProofs

Quietly == /\ RequestsWhilePreparing = FALSE /\ Serial
           /\ Limits["crash"] = 0 /\ Limits["persist"] = 0

\* What the earlier modules prove of such a job.
SerialBase == BaseInv /\ OneRowPerAddress /\ NotFailed /\ FreeInv

LEMMA SerialBaseInvariant ==
  ASSUME Quietly
  PROVE  Spec => []SerialBase
<1>0. /\ RequestsWhilePreparing = FALSE /\ Serial
      /\ Limits["crash"] = 0 /\ Limits["persist"] = 0
  BY DEF Quietly
<1>1. Spec => []BaseInv
  BY <1>0, BaseInvariant
<1>2. Spec => []OneRowPerAddress
  BY <1>0, SerialWritesOnce
<1>3. Init => NotFailed /\ FreeInv
  BY RunnersDiffer
  DEF Init, NotFailed, FreeInv, OneOwner, RefundOwned, Owner, Idle, Working
<1>4. BaseInv /\ BaseInv' /\ NotFailed /\ FreeInv /\ [Next]_vars
        => NotFailed' /\ FreeInv'
  BY <1>0, NotFailedStep, FreeStep DEF BaseInv
<1>5. BaseInv /\ OneRowPerAddress /\ NotFailed /\ FreeInv => SerialBase
  BY DEF SerialBase
<1>6. QED
  BY <1>1, <1>2, <1>3, <1>4, <1>5, PTL DEF Spec

-----------------------------------------------------------------------------
(* A plan that is not carried out.                                         *)

\* Addresses the handler has neither sent out nor answered yet.
Pending(p) == Unsent(p) # {} \/ Unwritten(p) # {}

LEMMA BaseParts ==
  ASSUME BaseInv
  PROVE  /\ TypeOK /\ RowInv /\ TurnInv /\ SoloInv
         /\ Preparer \in Runners /\ Clients \subseteq Runners
         /\ Preparer \notin Clients
         /\ proc[Preparer].step \in PrepareSteps
         /\ \A p \in Runners : proc[p].step # "rollback"
  BY RunnersDiffer DEF BaseInv, SoloInv, PrepInv, NoRollback

LEMMA PendingAtWork ==
  ASSUME BaseInv, NEW p \in Runners, Pending(p)
  PROVE  proc[p].gen > 0 /\ proc[p].step \in PlanSteps
<1>1. proc[p].chunks # {} /\ TypeOK /\ RowInv /\ TurnInv
  BY BaseParts DEF Pending, Unsent, Unwritten
<1>2. QED
  BY <1>1 DEF TurnInv, PlansOnlyAtWork, NoPlan, RowInv, OwnGeneration,
     TypeOK, Proc

LEMMA OnlyOneAtWork ==
  ASSUME Serial, BaseInv, NEW p \in Runners, NEW q \in Runners, q # p,
         proc[p].step # "idle"
  PROVE  proc[q].step = "idle" /\ NoPlan(proc[q]) /\ ~Pending(q)
<1>1. proc[q].step = "idle"
  BY BaseParts, OthersIdle DEF Solo
<1>2. NoPlan(proc[q])
  BY <1>1, BaseParts, IdleHasNoPlan
<1>3. QED
  BY <1>1, <1>2 DEF NoPlan, Pending, Unsent, Unwritten

\* An address is missing exactly as long as a row is.
LEMMA ShortRows ==
  ASSUME BaseInv, OneRowPerAddress
  PROVE  /\ Cardinality(rows) \in Nat
         /\ Cardinality(rows) <= Cardinality(Emails)
         /\ Remaining # {} <=> Cardinality(rows) < Cardinality(Emails)
<1>1. /\ Recorded \in SUBSET Emails /\ Cardinality(rows) \in Nat
      /\ Cardinality(rows) = Cardinality(Recorded)
  BY BaseParts, RecordedCount
<1>2. Cardinality(Recorded) <= Cardinality(Emails)
  BY <1>1, FS_Subset, ConstantsAssumption
<1>3. Cardinality(Recorded) = Cardinality(Emails) => Recorded = Emails
  BY <1>1, FS_Subset, ConstantsAssumption
<1>4. Remaining # {} <=> Recorded # Emails
  BY <1>1 DEF Remaining
<1>5. QED
  BY <1>1, <1>2, <1>3, <1>4, TotalNat

\* Such a job is not recorded as a whole, ...
LEMMA PendingRemains ==
  ASSUME Serial, BaseInv, NEW p \in Runners, Pending(p)
  PROVE  Remaining # {}
<1>1. proc[p].gen > 0 /\ PlanOpen(p) /\ Answered(p) = Recorded /\ TypeOK
  BY PendingAtWork, BaseParts, AnsweredIsRecorded
  DEF BaseInv, SoloInv, OpenInv, Solo
<1>2. CASE Unsent(p) # {}
  <2>1. PICK c \in Unsent(p) : TRUE
    BY <1>2
  <2>2. PICK e \in Misses(p, c) : TRUE
    BY <2>1 DEF Unsent
  <2>3. e \in Emails /\ e \notin Recorded
    BY <1>1, <2>1, <2>2 DEF PlanOpen, Unsent, Misses, TypeOK, Proc, Chunks
  <2>4. QED
    BY <2>3 DEF Remaining
<1>3. CASE Unwritten(p) # {}
  <2>1. PICK c \in Unwritten(p) : TRUE
    BY <1>3
  <2>2. PICK e \in Hits(p, c) : TRUE
    BY <2>1 DEF Unwritten
  <2>3. e \in Emails /\ e \notin Recorded
    BY <1>1, <2>1, <2>2 DEF PlanOpen, Unwritten, Hits, TypeOK, Proc, Chunks
  <2>4. QED
    BY <2>3 DEF Remaining
<1>4. QED
  BY <1>2, <1>3 DEF Pending

\* ... and its counters show it.
LEMMA PendingShort ==
  ASSUME Serial, BaseInv, OneRowPerAddress, NEW p \in Runners, Pending(p),
         Live
  PROVE  processed < Total /\ status # "completed"
<1>1. ~Dropping
  <2>1. proc[p].step # "idle" /\ proc[p].step # "drop"
    BY PendingAtWork DEF PlanSteps
  <2>2. QED
    BY <2>1, OnlyOneAtWork, BaseParts DEF Dropping
<1>2. processed = InvalidSyntax + Cardinality(rows)
  BY <1>1 DEF BaseInv, CountInv, Counts
<1>3. processed < Total
  BY <1>2, PendingRemains, ShortRows, TotalNat, ConstantsAssumption DEF Total
<1>4. QED
  BY <1>3, TotalNat, BaseParts DEF BaseInv, DoneInv, TypeOK

-----------------------------------------------------------------------------
(* The job a handler works on, and why it cannot go on.                    *)

HolderLives == \A p \in Runners : proc[p].gen > 0 => Live

RestoreOwns ==
  \A p \in Runners : proc[p].step \in {"restoreFlag", "restore"}
                       => Unsent(p) # {}

\* What a step that makes no plan does to those there are.
GensKept == \A p \in Runners : proc'[p].gen > 0 => proc[p].gen > 0

LEMMA GensKeptStep ==
  ASSUME TypeOK, RowInv, [Next]_vars, ~PrepareTasks,
         \A c \in Clients : ~RequeueTasks(c)
  PROVE  GensKept
<1>1. ASSUME PlansKept PROVE GensKept
  BY <1>1 DEF PlansKept, GensKept, NoPlan, SamePlan
<1>2. ASSUME proc' = proc PROVE GensKept
  BY <1>2 DEF GensKept
<1>3. CASE PrepareMessage \/ PrepareSlotBusy \/ PrepareTasksFail
           \/ PrepareHandler
  BY <1>1, <1>3, QuietPrepare DEF Quiet, PrepareHandler
<1>4. ASSUME NEW p \in Runners, Enqueue(p) \/ EnqueueError(p) \/ Crash(p)
      PROVE  GensKept
  <2>1. CASE EnqueueChunk(p)
    BY <2>1 DEF EnqueueChunk, TypeOK, Proc, GensKept
  <2>2. CASE PersistHits(p)
    BY <2>2 DEF PersistHits, PersistHitsOf, TypeOK, Proc, GensKept
  <2>3. CASE ~EnqueueChunk(p) /\ ~PersistHits(p)
    BY <1>1, <1>4, <2>3, QuietRunner DEF Quiet, Enqueue
  <2>4. QED
    BY <2>1, <2>2, <2>3
<1>5. ASSUME NEW c \in Clients, Request(c) \/ Continue(c)
      PROVE  GensKept
  BY <1>1, <1>5, QuietRequest, QuietContinue DEF Quiet
<1>6. QED
  BY <1>2, <1>3, <1>4, <1>5, WorkerLocal
  DEF Next, LockExpires, PauseCacheExpires, vars

LEMMA LiveKept ==
  ASSUME Live, [Next]_vars,
         \A c \in Clients : ~DropJob(c) /\ ~CancelPaused(c)
  PROVE  Live'
<1>1. CASE PrepareMessage \/ PrepareHandler \/ PrepareSlotBusy
           \/ PrepareTasksFail
  BY <1>1 DEF PrepareMessage, PrepareHandler, PrepareSkip, PrepareStart,
     FailPreparingRead, FailPreparingJob, PrepareSlotBusy, PrepareTasksFail,
     PrepareTasks, PrepareCheck, PrepareClaimed, MarkPending, RefundJob,
     jobVars, Live
<1>2. ASSUME NEW p \in Runners, Enqueue(p) \/ EnqueueError(p) \/ Crash(p)
      PROVE  Live'
  BY <1>2, PersistHitsLeaves DEF Enqueue, EnqueueError, Crash, EnqueueChunk,
     RollbackHits, RefundEnqueue, RestoreFlag, RestorePaused, EnqueueFails,
     PersistHitsFail, RefundJob, jobVars, Live
<1>3. ASSUME NEW c \in Clients, Request(c) \/ Continue(c)
      PROVE  Live'
  BY <1>3 DEF Request, PauseJob, DeleteJob, RequeueJob, Requests, Continue,
     PauseSetFlag, PauseUpdate, PauseUndo, RequeuePurge, RequeueTasks,
     RequeueNothing, RequeueRefused, RequeueClearFlag, RequeueDone,
     DeleteResults, DeleteSetFlag, CancelRefused, jobVars, Live
<1>4. ASSUME NEW m \in msgs, WorkerStep(m) \/ WorkerError(m)
      PROVE  Live'
  BY <1>4, ReportLeaves DEF Live
<1>5. CASE LockExpires \/ PauseCacheExpires \/ UNCHANGED vars
  BY <1>5 DEF LockExpires, PauseCacheExpires, vars, jobVars, Live
<1>6. QED
  BY <1>1, <1>2, <1>3, <1>4, <1>5 DEF Next

LEMMA HolderLivesStep ==
  ASSUME Serial, BaseInv, HolderLives, [Next]_vars
  PROVE  HolderLives'
<1>0. TypeOK /\ RowInv
  BY BaseParts
<1>1. ASSUME NEW c \in Clients, DropJob(c) \/ CancelPaused(c)
      PROVE  HolderLives'
  <2>1. c \in Runners /\ proc[c].step # "idle" /\ Finish(c)
    BY <1>1, BaseParts DEF DropJob, CancelPaused
  <2>2. \A q \in Runners : proc'[q].gen = 0
    BY <1>0, <2>1, OnlyOneAtWork DEF Finish, Idle, Working, TypeOK, NoPlan
  <2>3. QED
    BY <2>2 DEF HolderLives
<1>2. CASE PrepareTasks \/ \E c \in Clients : RequeueTasks(c)
  BY <1>2 DEF PrepareTasks, BaseInv, PrepInv, RequeueTasks, jobVars,
     HolderLives, Live
<1>3. CASE /\ ~PrepareTasks
           /\ \A c \in Clients : /\ ~RequeueTasks(c) /\ ~DropJob(c)
                                 /\ ~CancelPaused(c)
  BY <1>0, <1>3, GensKeptStep, LiveKept DEF GensKept, HolderLives
<1>4. QED
  BY <1>1, <1>2, <1>3

LEMMA RestoreOwnsStep ==
  ASSUME BaseInv, RestoreOwns, [Next]_vars
  PROVE  RestoreOwns'
<1>0. /\ TypeOK
      /\ ~PrepareTasksFail
      /\ \A p \in Runners : ~Crash(p) /\ ~PersistHitsFail(p)
  BY BaseParts, NoLossStep DEF BaseInv, CountInv
<1> DEFINE Restoring == {"restoreFlag", "restore"}
<1>1. ASSUME NEW p \in Runners, NEW w, proc' = [proc EXCEPT ![p] = w],
             w.step \notin Restoring
      PROVE  RestoreOwns'
  <2>1. proc'[p] = w /\ \A q \in Runners \ {p} : proc'[q] = proc[q]
    BY <1>0, <1>1 DEF TypeOK
  <2>2. \A q \in Runners \ {p} : Unsent(q)' = Unsent(q)
    BY <2>1 DEF Unsent, Misses
  <2>3. QED
    BY <1>1, <2>1, <2>2 DEF RestoreOwns
<1>2. ASSUME NEW p \in Runners, NEW s, Goto(p, s),
             s \notin Restoring \/ Unsent(p) # {}
      PROVE  RestoreOwns'
  <2>1. /\ proc'[p].step = s /\ SamePlan(proc'[p], proc[p])
        /\ \A q \in Runners \ {p} : proc'[q] = proc[q]
    BY <1>0, <1>2 DEF TypeOK, Proc, Goto, SamePlan
  <2>2. \A q \in Runners : Unsent(q)' = Unsent(q)
    BY <2>1 DEF Unsent, Misses, SamePlan
  <2>3. QED
    BY <1>2, <2>1, <2>2 DEF RestoreOwns
<1>3. ASSUME NEW p \in Runners, Finish(p)
      PROVE  RestoreOwns'
  <2>1. Idle.step \notin Restoring
    BY DEF Idle, Working
  <2>2. QED
    BY <1>1, <1>3, <2>1 DEF Finish
<1>4. ASSUME proc' = proc
      PROVE  RestoreOwns'
  BY <1>4 DEF RestoreOwns, Unsent, Misses
<1>5. CASE PrepareMessage \/ PrepareHandler \/ PrepareSlotBusy
  <2>1. Preparer \in Runners
    BY RunnersDiffer
  <2>2. CASE PrepareTasks
    <3>1. PICK cut, hits :
            proc' = [proc EXCEPT ![Preparer] =
                       Working("enqueue", gen + 1, TRUE, cut, hits)]
      BY <2>2 DEF PrepareTasks
    <3>2. Working("enqueue", gen + 1, TRUE, cut, hits).step \notin Restoring
      BY DEF Working
    <3>3. QED
      BY <1>1, <2>1, <3>1, <3>2
  <2>3. CASE ~PrepareTasks
    <3>1. \/ proc' = proc \/ Finish(Preparer)
          \/ Goto(Preparer, "loaded") \/ Goto(Preparer, "checked")
      BY <1>5, <2>3 DEF PrepareMessage, PrepareHandler, PrepareSkip,
         PrepareStart, FailPreparingRead, FailPreparingJob, PrepareSlotBusy,
         PrepareCheck, PrepareClaimed, MarkPending
    <3>2. QED
      BY <1>2, <1>3, <1>4, <2>1, <3>1
  <2>4. QED
    BY <2>2, <2>3
<1>6. ASSUME NEW p \in Runners, Enqueue(p) \/ EnqueueError(p)
      PROVE  RestoreOwns'
  <2>1. CASE EnqueueChunk(p) \/ PersistHits(p)
    <3>1. PICK w : proc' = [proc EXCEPT ![p] = w] /\ w.step = "enqueue"
      <4>1. CASE EnqueueChunk(p)
        <5>1. PICK c : proc' = [proc EXCEPT ![p].sent = @ \cup {c}]
          BY <4>1 DEF EnqueueChunk
        <5>2. [proc[p] EXCEPT !.sent = @ \cup {c}].step = "enqueue"
          BY <1>0, <4>1 DEF TypeOK, Proc, EnqueueChunk
        <5>3. QED
          BY <5>1, <5>2
      <4>2. CASE PersistHits(p)
        <5>1. PICK c : proc' = [proc EXCEPT ![p].wrote = @ \cup {c}]
          BY <4>2 DEF PersistHits, PersistHitsOf
        <5>2. [proc[p] EXCEPT !.wrote = @ \cup {c}].step = "enqueue"
          BY <1>0, <4>2 DEF TypeOK, Proc, PersistHits
        <5>3. QED
          BY <5>1, <5>2
      <4>3. QED
        BY <2>1, <4>1, <4>2
    <3>2. w.step \notin Restoring
      BY <3>1
    <3>3. QED
      BY <1>1, <3>1, <3>2
  <2>2. CASE RestoreFlag(p)
    <3>1. Unsent(p) # {} /\ Goto(p, "restore")
      BY <2>2 DEF RestoreFlag, RestoreOwns
    <3>2. QED
      BY <1>2, <3>1
  <2>3. CASE EnqueueFails(p)
    BY <1>2, <2>3 DEF EnqueueFails
  <2>4. CASE RollbackHits(p)
    BY <1>2, <2>4 DEF RollbackHits
  <2>5. CASE RefundEnqueue(p) \/ RestorePaused(p)
    BY <1>3, <2>5 DEF RefundEnqueue, RestorePaused, Return
  <2>6. QED
    BY <1>0, <1>6, <2>1, <2>2, <2>3, <2>4, <2>5 DEF Enqueue, EnqueueError
<1>7. ASSUME NEW c \in Clients, Request(c) \/ Continue(c)
      PROVE  RestoreOwns'
  <2>0. c \in Runners
    BY RunnersDiffer
  <2>1. CASE RequeueTasks(c)
    <3>1. PICK cut, hits :
            proc' = [proc EXCEPT ![c] = Working("clearFlag", gen + 1,
                                                proc[c].charge, cut, hits)]
      BY <2>1 DEF RequeueTasks
    <3>2. Working("clearFlag", gen + 1, proc[c].charge, cut, hits).step
            \notin Restoring
      BY DEF Working
    <3>3. QED
      BY <1>1, <2>0, <3>1, <3>2
  <2>2. ASSUME NEW charge, RequeueJob(c, charge)
        PROVE  RestoreOwns'
    <3>1. Working("purge", 0, charge, {}, {}).step \notin Restoring
      BY DEF Working
    <3>2. QED
      BY <1>1, <2>0, <2>2, <3>1 DEF RequeueJob
  <2>3. CASE ~RequeueTasks(c) /\ \A charge \in BOOLEAN : ~RequeueJob(c, charge)
    <3>1. \/ Finish(c)
          \/ \E s \in {"setFlag", "pause", "unpause", "requeue", "enqueue",
                       "wipe", "drop", "stop", "cancel"} : Goto(c, s)
      BY <1>7, <2>3 DEF Request, PauseJob, DeleteJob,
         Continue, PauseSetFlag, PauseUpdate, PauseUndo, RequeuePurge,
         RequeueNothing, RequeueRefused, RequeueClearFlag, RequeueDone,
         DeleteResults, DropJob, DeleteSetFlag, CancelPaused, CancelRefused
    <3>2. QED
      BY <1>2, <1>3, <2>0, <3>1
  <2>4. QED
    BY <2>1, <2>2, <2>3
<1>8. QED
  BY <1>0, <1>4, <1>5, <1>6, <1>7, WorkerLocal
  DEF Next, LockExpires, PauseCacheExpires, vars

-----------------------------------------------------------------------------
(* An open job has something left to count, a failed one an address left.  *)

OpenStatuses == {"preparing", "pending", "processing", "paused"}

ShortInv ==
  /\ status \in OpenStatuses => processed < Total
  /\ status = "failed" => Remaining # {}

LEMMA KeepShort ==
  ASSUME ShortInv, processed' = processed, rows' \subseteq rows,
         \/ status' = status
         \/ status \in OpenStatuses /\ status' \in OpenStatuses
         \/ status' \in {"completed", "deleted"}
  PROVE  ShortInv'
<1>1. Remaining \subseteq Remaining'
  BY DEF Remaining, Recorded
<1>2. QED
  BY <1>1 DEF ShortInv, OpenStatuses

LEMMA ShortProgress ==
  ASSUME TypeOK, NEW n \in Nat, NEW u, Progress(n, u)
  PROVE  ShortInv'
<1>1. processed' = processed + n /\ processed \in Nat /\ Total \in Nat
  BY ProgressCounts, TotalNat DEF TypeOK
<1>2. /\ status' \in {"completed", "paused", "processing"}
      /\ status' # "completed" => ~(processed + n >= Total)
  BY DEF Progress, ProgressOf
<1>3. QED
  BY <1>1, <1>2 DEF ShortInv, OpenStatuses

LEMMA ShortPrepare ==
  ASSUME SoloInv, PrepInv, ShortInv,
         PrepareMessage \/ PrepareHandler \/ PrepareSlotBusy
  PROVE  ShortInv'
<1>1. CASE FailPreparingJob
  <2>1. rows' = {} /\ status' = "failed"
    BY <1>1 DEF FailPreparingJob, RefundJob, PrepInv, Live, SoloInv,
       TurnInv, FreshJob
  <2>2. Remaining' = Emails
    BY <2>1 DEF Remaining, Recorded
  <2>3. QED
    BY <2>1, <2>2, ConstantsAssumption DEF ShortInv, OpenStatuses
<1>2. CASE ~FailPreparingJob
  <2>1. /\ processed' = processed /\ rows' = rows
        /\ status' = status \/ (status = "preparing" /\ status' = "pending")
    BY <1>2 DEF PrepareMessage, PrepareHandler, PrepareSkip, PrepareStart,
       FailPreparingRead, PrepareSlotBusy, PrepareTasks, PrepareCheck,
       PrepareClaimed, MarkPending, jobVars
  <2>2. QED
    BY <2>1, KeepShort DEF OpenStatuses
<1>3. QED
  BY <1>1, <1>2

LEMMA ShortRunner ==
  ASSUME Serial, BaseInv, OneRowPerAddress, FreeInv, RestoreOwns,
         HolderLives, ShortInv, NEW p \in Runners,
         Enqueue(p) \/ EnqueueError(p), ~PersistHitsFail(p)
  PROVE  ShortInv'
<1>0. TypeOK /\ ~RollbackHits(p)
  BY BaseParts DEF RollbackHits
<1>1. CASE PersistHits(p)
  <2>1. PICK c \in Unwritten(p) : \E hits \in Outcomes(Hits(p, c)) :
          PersistHitsOf(p, c, hits)
    BY <1>1 DEF PersistHits
  <2>2. PICK hits \in Outcomes(Hits(p, c)) : PersistHitsOf(p, c, hits)
    BY <2>1
  <2>3. Hits(p, c) \in SUBSET Emails
    BY <1>0 DEF Hits, Unwritten, TypeOK, Proc, Chunks
  <2>4. Cardinality(hits) \in Nat
    BY <2>3, OutcomesType, RowsForFinite
  <2>5. Live
    BY PendingAtWork DEF Pending, HolderLives
  <2>6. QED
    BY <1>0, <2>2, <2>4, <2>5, ShortProgress DEF PersistHitsOf
<1>2. CASE RefundEnqueue(p)
  <2>1. Pending(p)
    BY <1>2 DEF RefundEnqueue, FreeInv, RefundOwned, Owner, Pending
  <2>2. rows' = rows /\ processed' = processed /\ status' = "failed"
    BY <1>2, <2>1, PendingAtWork DEF RefundEnqueue, RefundJob, HolderLives
  <2>3. Remaining' # {}
    BY <2>1, <2>2, PendingRemains DEF Remaining, Recorded
  <2>4. QED
    BY <2>2, <2>3 DEF ShortInv, OpenStatuses
<1>3. CASE RestorePaused(p)
  <2>1. Pending(p)
    BY <1>3 DEF RestorePaused, RestoreOwns, Pending
  <2>2. processed' = processed /\ status' = "paused" /\ Live
    BY <1>3, <2>1, PendingAtWork DEF RestorePaused, HolderLives
  <2>3. QED
    BY <2>1, <2>2, PendingShort DEF ShortInv
<1>4. CASE EnqueueChunk(p) \/ EnqueueFails(p) \/ RestoreFlag(p)
  BY <1>4, KeepShort DEF EnqueueChunk, EnqueueFails, RestoreFlag, jobVars
<1>5. QED
  BY <1>0, <1>1, <1>2, <1>3, <1>4 DEF Enqueue, EnqueueError

LEMMA ShortClient ==
  ASSUME BaseInv, OneRowPerAddress, ShortInv,
         NEW c \in Clients, Request(c) \/ Continue(c)
  PROVE  ShortInv'
<1>1. CASE RequeueTasks(c)
  <2>1. Cardinality(rows) < Cardinality(Emails) /\ Cardinality(rows) \in Nat
    BY <1>1, ShortRows DEF RequeueTasks
  <2>2. Counted < Total
    BY <2>1, TotalNat, ConstantsAssumption DEF Counted, Capped, Total
  <2>3. QED
    BY <1>1, <2>2, TotalNat DEF RequeueTasks, ShortInv
<1>2. CASE RequeueNothing(c)
  BY <1>2 DEF RequeueNothing, ShortInv, OpenStatuses
<1>3. CASE ~RequeueTasks(c) /\ ~RequeueNothing(c)
  <2>1. processed' = processed /\ rows' \subseteq rows
    BY <1>3 DEF Request, PauseJob, DeleteJob, RequeueJob, Requests, Continue,
       PauseSetFlag, PauseUpdate, PauseUndo, RequeuePurge, RequeueRefused,
       RequeueClearFlag, RequeueDone, DeleteResults, DropJob, DeleteSetFlag,
       CancelPaused, CancelRefused, jobVars
  <2>2. \/ status' = status \/ status' = "deleted"
        \/ status \in {"pending", "processing"} /\ status' = "paused"
    BY <1>3 DEF Request, PauseJob, DeleteJob, RequeueJob, Requests, Continue,
       PauseSetFlag, PauseUpdate, PauseUndo, RequeuePurge, RequeueRefused,
       RequeueClearFlag, RequeueDone, DeleteResults, DropJob, DeleteSetFlag,
       CancelPaused, CancelRefused, jobVars
  <2>3. QED
    BY <2>1, <2>2, KeepShort DEF OpenStatuses
<1>4. QED
  BY <1>1, <1>2, <1>3

LEMMA ShortWorker ==
  ASSUME TypeOK, ShortInv, NEW m \in msgs, WorkerStep(m) \/ WorkerError(m)
  PROVE  ShortInv'
<1>1. CASE Report(m) \/ ReportUnanswered(m)
  <2>1. ReportTaskResults(m)
    BY <1>1 DEF Report, ReportUnanswered
  <2>2. Cardinality(Fresh(m)) \in Nat
    BY FreshIsNew, RowsForFinite
  <2>3. CASE Accepts(m) /\ Fresh(m) # {}
    BY <2>1, <2>2, <2>3, ShortProgress DEF ReportTaskResults
  <2>4. CASE ~(Accepts(m) /\ Fresh(m) # {})
    BY <2>1, <2>4, KeepShort DEF ReportTaskResults, jobVars
  <2>5. QED
    BY <2>3, <2>4
<1>2. CASE ~(Report(m) \/ ReportUnanswered(m))
  BY <1>2, KeepShort DEF WorkerStep, WorkerError, SkipChunk, StartChunk,
     FinishChunk, StopChunk, ChunkFails, ReportRefused, DeadLetterLost, jobVars
<1>3. QED
  BY <1>1, <1>2

LEMMA ShortStep ==
  ASSUME Serial, SerialBase, RestoreOwns, HolderLives, ShortInv, [Next]_vars
  PROVE  ShortInv'
<1>0. /\ TypeOK /\ SoloInv /\ PrepInv /\ BaseInv
      /\ OneRowPerAddress /\ FreeInv
      /\ ~PrepareTasksFail
      /\ \A p \in Runners : ~Crash(p) /\ ~PersistHitsFail(p)
  BY BaseParts, NoLossStep DEF SerialBase, BaseInv, CountInv
<1>1. CASE LockExpires \/ PauseCacheExpires \/ UNCHANGED vars
  BY <1>1, KeepShort DEF LockExpires, PauseCacheExpires, vars, jobVars
<1>2. QED
  BY <1>0, <1>1, ShortPrepare, ShortRunner, ShortClient, ShortWorker DEF Next

-----------------------------------------------------------------------------
(* The soft-stop flag.                                                     *)

Running == status \in {"preparing", "pending", "processing"}

(* What the status and the flag are while the one request is at a step.    *)
(* The steps left out leave both to the step that follows them.            *)
FlagAt(s) ==
  /\ s \in {"idle", "purge", "requeue", "stop", "cancel"}
       => (status = "paused" => flag)
  /\ s \in {"idle", "setFlag"} => (Running => ~flag)
  /\ s = "pause" => (Running => flag)
  /\ s \in {"purge", "requeue", "stop", "cancel", "unpause", "wipe", "drop"}
       => ~Running
  /\ s \in {"setFlag", "pause", "unpause", "wipe", "drop", "clearFlag",
            "enqueue"}
       => status # "paused"
  /\ s = "enqueue" => ~flag
  /\ s = "restore" => flag

FlagInv ==
  /\ (\A c \in Clients : proc[c].step = "idle") => FlagAt("idle")
  /\ \A c \in Clients : FlagAt(proc[c].step)

StepsKept == \A c \in Clients : proc'[c].step = proc[c].step

LEMMA KeepFlag ==
  ASSUME FlagInv, StepsKept, flag' = flag, Running' <=> Running,
         status' = "paused" <=> status = "paused"
  PROVE  FlagInv'
<1>1. \A s : FlagAt(s) => FlagAt(s)'
  BY DEF FlagAt
<1>2. QED
  BY <1>1 DEF FlagInv, StepsKept

\* The job goes on, or it completes and the flag may be cleared.
LEMMA FlagProgress ==
  ASSUME FlagInv, StepsKept, status \in OpenStatuses,
         \/ /\ status' = "completed" /\ (flag' = flag \/ ~flag')
            /\ \A c \in Clients : proc[c].step # "restore"
         \/ /\ flag' = flag
            /\ status' = IF status = "paused" THEN "paused" ELSE "processing"
  PROVE  FlagInv'
<1>1. CASE status' = "completed"
  <2>1. \A s : s # "restore" /\ FlagAt(s) => FlagAt(s)'
    BY <1>1 DEF FlagAt, Running
  <2>2. \A c \in Clients : proc[c].step # "restore"
    BY <1>1
  <2>3. QED
    BY <2>1, <2>2 DEF FlagInv, StepsKept
<1>2. CASE status' # "completed"
  BY <1>2, KeepFlag DEF OpenStatuses, Running
<1>3. QED
  BY <1>1, <1>2

\* With no request at work, a job at rest needs no flag.
LEMMA FlagAtRest ==
  ASSUME \A c \in Clients : proc'[c].step = "idle",
         status' \notin {"paused", "preparing", "pending", "processing"}
  PROVE  FlagInv'
  BY DEF FlagInv, FlagAt, Running

\* The step of the one request.
LEMMA FlagClientTo ==
  ASSUME Serial, NEW c \in Clients, FlagAt(proc[c].step)'
  PROVE  FlagInv'
  BY DEF Serial, FlagInv

LEMMA FlagPrepare ==
  ASSUME BaseInv, FlagInv,
         PrepareMessage \/ PrepareHandler \/ PrepareSlotBusy
  PROVE  FlagInv'
<1>0. TypeOK /\ Preparer \notin Clients /\ Preparer \in Runners
      /\ Clients \subseteq Runners
  BY BaseParts
<1>1. StepsKept
  BY <1>0 DEF PrepareMessage, PrepareHandler, PrepareSkip, PrepareStart,
     FailPreparingRead, FailPreparingJob, PrepareSlotBusy, PrepareTasks,
     PrepareCheck, PrepareClaimed, MarkPending, Goto, Finish, TypeOK, StepsKept
<1>2. CASE FailPreparingJob
  <2>1. status = "preparing" /\ \A c \in Clients : proc[c].step = "idle"
    BY <1>2 DEF FailPreparingJob, BaseInv, PrepInv
  <2>2. status' = "failed"
    BY <1>2, <2>1 DEF FailPreparingJob, RefundJob, Live
  <2>3. QED
    BY <1>1, <2>1, <2>2, FlagAtRest DEF StepsKept
<1>3. CASE ~FailPreparingJob
  <2>1. /\ flag' = flag
        /\ status' = status \/ (status = "preparing" /\ status' = "pending")
    BY <1>3 DEF PrepareMessage, PrepareHandler, PrepareSkip, PrepareStart,
       FailPreparingRead, PrepareSlotBusy, PrepareTasks, PrepareCheck,
       PrepareClaimed, MarkPending, jobVars
  <2>2. QED
    BY <1>1, <2>1, KeepFlag DEF Running
<1>4. QED
  BY <1>2, <1>3

LEMMA FlagWorker ==
  ASSUME SerialBase, FlagInv, NEW m \in msgs, WorkerStep(m) \/ WorkerError(m),
         \A c \in Clients : proc[c].step = "restore" => status' # "completed"
  PROVE  FlagInv'
<1>1. StepsKept
  BY WorkerLocal DEF StepsKept
<1>2. CASE Report(m) \/ ReportUnanswered(m)
  <2>1. ReportTaskResults(m)
    BY <1>2 DEF Report, ReportUnanswered
  <2>2. CASE Accepts(m) /\ Fresh(m) # {}
    <3>1. /\ status \in OpenStatuses
          /\ status' \in {"completed", "paused", "processing"}
          /\ status' # "completed" =>
               status' = IF status = "paused" THEN "paused" ELSE "processing"
          /\ flag' = IF status' = "completed" THEN FALSE ELSE flag
      BY <2>1, <2>2 DEF ReportTaskResults, Accepts, Progress, ProgressOf,
         OpenStatuses
    <3>2. QED
      BY <1>1, <3>1, FlagProgress
  <2>3. CASE ~(Accepts(m) /\ Fresh(m) # {})
    <3>1. status' = status /\ flag' = IF status \in {"completed", "failed"}
                                      THEN FALSE ELSE flag
      BY <2>1, <2>3 DEF ReportTaskResults, jobVars
    <3>2. CASE status \notin {"completed", "failed"}
      BY <1>1, <3>1, <3>2, KeepFlag DEF Running
    <3>3. CASE status \in {"completed", "failed"}
      <4>1. \A c \in Clients : proc[c].step # "restore"
        <5>1. status = "completed" \/ status = "failed"
          BY <3>3
        <5>2. Clients \subseteq Runners
          BY RunnersDiffer
        <5>3. QED
          BY <3>1, <5>1, <5>2 DEF SerialBase, NotFailed, BusySteps
      <4>2. \A s : s # "restore" /\ FlagAt(s) => FlagAt(s)'
        BY <3>1, <3>3 DEF FlagAt, Running
      <4>3. QED
        BY <1>1, <4>1, <4>2 DEF FlagInv, StepsKept
    <3>4. QED
      BY <3>2, <3>3
  <2>4. QED
    BY <2>2, <2>3
<1>3. CASE ~(Report(m) \/ ReportUnanswered(m))
  <2>1. UNCHANGED <<status, flag>>
    BY <1>3 DEF WorkerStep, WorkerError, SkipChunk, StartChunk, FinishChunk,
       StopChunk, ChunkFails, ReportRefused, DeadLetterLost, jobVars
  <2>2. QED
    BY <1>1, <2>1, KeepFlag DEF Running
<1>4. QED
  BY <1>2, <1>3

\* What a handler relies on when it gives up.
HolderInv == RestoreOwns /\ HolderLives

LEMMA FlagPersist ==
  ASSUME Serial, SerialBase, HolderInv, FlagInv,
         NEW p \in Runners, PersistHits(p)
  PROVE  FlagInv'
<1>0. TypeOK /\ Clients \subseteq Runners
  BY BaseParts DEF SerialBase
<1>1. proc[p].step = "enqueue" /\ Pending(p) /\ flag' = flag
  BY DEF PersistHits, Pending
<1>2. Live /\ status \notin {"completed", "failed"}
  BY <1>1, PendingAtWork, PendingShort
  DEF HolderInv, HolderLives, SerialBase, NotFailed, BusySteps
<1>3. status \in OpenStatuses
  BY <1>0, <1>2 DEF OpenStatuses, TypeOK, Statuses, Live
<1>4. PICK c, hits : PersistHitsOf(p, c, hits)
  BY DEF PersistHits
<1>5. StepsKept
  <2>1. /\ proc'[p].step = proc[p].step
        /\ \A q \in Runners \ {p} : proc'[q] = proc[q]
    BY <1>0, <1>4 DEF PersistHitsOf, TypeOK, Proc
  <2>2. QED
    BY <1>0, <2>1 DEF StepsKept
<1>6. \A c1 \in Clients : proc[c1].step # "restore"
  <2>1. \A q \in Runners \ {p} : proc[q].step = "idle"
    BY <1>1, OnlyOneAtWork DEF SerialBase
  <2>2. QED
    BY <1>0, <1>1, <2>1
<1>7. \/ status' = "completed"
      \/ status' = IF status = "paused" THEN "paused" ELSE "processing"
  BY <1>2, <1>4 DEF PersistHitsOf, Progress, ProgressOf
<1>8. QED
  BY <1>1, <1>3, <1>5, <1>6, <1>7, FlagProgress

LEMMA FlagRunner ==
  ASSUME Serial, SerialBase, HolderInv, FlagInv, NEW p \in Runners,
         Enqueue(p) \/ EnqueueError(p), ~PersistHitsFail(p)
  PROVE  FlagInv'
<1>0. /\ TypeOK /\ Clients \subseteq Runners /\ Preparer \notin Clients
      /\ BaseInv /\ ~RollbackHits(p)
      /\ proc[Preparer].step \in PrepareSteps
  BY BaseParts DEF SerialBase, RollbackHits
<1>1. /\ proc[p].step # "idle"
      /\ \A q \in Runners \ {p} : proc'[q] = proc[q]
  BY <1>0, RunnerLocal
<1>2. CASE EnqueueChunk(p)
  <2>1. proc'[p].step = proc[p].step /\ UNCHANGED <<status, flag>>
    BY <1>0, <1>2 DEF EnqueueChunk, TypeOK, Proc, jobVars
  <2>2. StepsKept
    BY <1>0, <1>1, <2>1 DEF StepsKept
  <2>3. QED
    BY <2>1, <2>2, KeepFlag DEF Running
<1>3. CASE EnqueueFails(p)
  <2>1. proc'[p].step \in {"refund", "restoreFlag"}
    BY <1>0, <1>3, StepAfter DEF EnqueueFails
  <2>2. UNCHANGED <<status, flag>>
    BY <1>3 DEF EnqueueFails, jobVars
  <2>3. CASE p \in Clients
    <3>1. FlagAt(proc[p].step)'
      BY <2>1 DEF FlagAt
    <3>2. QED
      BY <2>3, <3>1, FlagClientTo
  <2>4. CASE p \notin Clients
    BY <1>0, <1>1, <2>2, <2>4, KeepFlag DEF StepsKept, Running
  <2>5. QED
    BY <2>3, <2>4
<1>4. CASE RefundEnqueue(p)
  <2>1. proc'[p].step = "idle" /\ status' \in {"failed", "deleted"}
    BY <1>0, <1>4, StepAfter DEF RefundEnqueue, Return, RefundJob, Live
  <2>2. \A c \in Clients : proc'[c].step = "idle"
    BY <1>0, <1>1, <2>1, OnlyOneAtWork
  <2>3. QED
    BY <2>1, <2>2, FlagAtRest
<1>5. CASE RestoreFlag(p)
  <2>1. p \in Clients
    BY <1>0, <1>5 DEF RestoreFlag, PrepareSteps, Runners
  <2>2. proc'[p].step = "restore" /\ flag'
    BY <1>0, <1>5, StepAfter DEF RestoreFlag
  <2>3. FlagAt(proc[p].step)'
    BY <2>2 DEF FlagAt
  <2>4. QED
    BY <2>1, <2>3, FlagClientTo
<1>6. CASE RestorePaused(p)
  <2>1. p \in Clients /\ proc[p].step = "restore"
    BY <1>0, <1>6 DEF RestorePaused, PrepareSteps, Runners
  <2>2. flag
    BY <2>1 DEF FlagInv, FlagAt
  <2>3. /\ proc'[p].step = "idle" /\ flag' = flag
        /\ status' \in {"paused", "deleted"}
    BY <1>0, <1>6, StepAfter DEF RestorePaused, Return, Live
  <2>4. FlagAt(proc[p].step)'
    BY <2>2, <2>3 DEF FlagAt, Running
  <2>5. QED
    BY <2>1, <2>4, FlagClientTo
<1>7. QED
  BY <1>0, <1>2, <1>3, <1>4, <1>5, <1>6, FlagPersist
  DEF Enqueue, EnqueueError

LEMMA FlagClient ==
  ASSUME Serial, BaseInv, FlagInv, NEW c \in Clients, Request(c) \/ Continue(c)
  PROVE  FlagInv'
<1>0. TypeOK /\ c \in Runners
  BY BaseParts
<1>1. FlagAt(proc[c].step)
  BY DEF FlagInv
<1> SUFFICES FlagAt(proc[c].step)'
  BY FlagClientTo
<1>2. ASSUME NEW charge \in BOOLEAN, RequeueJob(c, charge)
      PROVE  FlagAt(proc[c].step)'
  <2>1. proc'[c].step = "purge" /\ UNCHANGED <<status, flag>>
        /\ proc[c].step = "idle" /\ status \in {"failed", "paused"}
    BY <1>0, <1>2 DEF RequeueJob, Requests, Working, TypeOK, jobVars
  <2>2. QED
    BY <1>1, <2>1 DEF FlagAt, Running
<1>3. CASE RequeueTasks(c)
  <2>1. proc'[c].step = "clearFlag" /\ status' = "pending"
    BY <1>0, <1>3 DEF RequeueTasks, Working, TypeOK
  <2>2. QED
    BY <2>1 DEF FlagAt
<1>4. CASE PauseJob(c) \/ DeleteJob(c)
  <2>1. /\ UNCHANGED <<status, flag>> /\ proc[c].step = "idle"
        /\ \/ proc'[c].step = "setFlag" /\ status \in {"pending", "processing"}
           \/ proc'[c].step = "wipe" /\ status \in {"completed", "failed"}
           \/ proc'[c].step = "stop" /\ status = "paused"
    BY <1>0, <1>4, StepAfter DEF PauseJob, DeleteJob, Requests, jobVars
  <2>2. QED
    BY <1>1, <2>1 DEF FlagAt, Running
<1>5. CASE PauseSetFlag(c) \/ PauseUpdate(c) \/ PauseUndo(c)
  <2>1. CASE PauseSetFlag(c)
    <3>1. /\ proc[c].step = "setFlag" /\ proc'[c].step = "pause"
          /\ flag' /\ status' = status
      BY <1>0, <2>1, StepAfter DEF PauseSetFlag, jobVars
    <3>2. QED
      BY <1>1, <3>1 DEF FlagAt
  <2>2. CASE PauseUpdate(c)
    <3>1. /\ proc[c].step = "pause" /\ flag' = flag
          /\ \/ /\ status \in {"pending", "processing"} /\ status' = "paused"
                /\ proc'[c].step = "idle"
             \/ /\ status \notin {"pending", "processing"}
                /\ status' = status /\ proc'[c].step = "unpause"
      BY <1>0, <2>2, StepAfter DEF PauseUpdate
    <3>2. status # "preparing"
      BY <3>1 DEF BaseInv, PrepInv
    <3>3. QED
      BY <1>1, <3>1, <3>2 DEF FlagAt, Running
  <2>3. CASE PauseUndo(c)
    <3>1. /\ proc[c].step = "unpause" /\ proc'[c].step = "idle"
          /\ ~flag' /\ status' = status
      BY <1>0, <2>3, StepAfter DEF PauseUndo, jobVars
    <3>2. QED
      BY <1>1, <3>1 DEF FlagAt, Running
  <2>4. QED
    BY <1>5, <2>1, <2>2, <2>3
<1>6. CASE RequeuePurge(c) \/ RequeueRefused(c) \/ DeleteResults(c)
           \/ CancelRefused(c) \/ RequeueDone(c)
  <2>1. /\ UNCHANGED <<status, flag>>
        /\ \/ proc[c].step = "purge" /\ proc'[c].step = "requeue"
           \/ proc[c].step = "requeue" /\ proc'[c].step = "idle"
           \/ proc[c].step = "wipe" /\ proc'[c].step = "drop"
           \/ proc[c].step = "cancel" /\ proc'[c].step = "idle"
           \/ proc[c].step = "enqueue" /\ proc'[c].step = "idle"
    BY <1>0, <1>6, StepAfter DEF RequeuePurge, RequeueRefused,
       DeleteResults, CancelRefused, RequeueDone, jobVars
  <2>2. QED
    BY <1>1, <2>1 DEF FlagAt, Running
<1>7. CASE RequeueClearFlag(c) \/ DeleteSetFlag(c)
  <2>1. /\ status' = status
        /\ \/ proc[c].step = "clearFlag" /\ proc'[c].step = "enqueue" /\ ~flag'
           \/ proc[c].step = "stop" /\ proc'[c].step = "cancel" /\ flag'
    BY <1>0, <1>7, StepAfter DEF RequeueClearFlag, DeleteSetFlag, jobVars
  <2>2. QED
    BY <1>1, <2>1 DEF FlagAt, Running
<1>8. CASE RequeueNothing(c) \/ DropJob(c) \/ CancelPaused(c)
  <2>1. proc'[c].step = "idle" /\ status' \in {"completed", "deleted"}
    BY <1>0, <1>8, StepAfter DEF RequeueNothing, DropJob, CancelPaused, Live
  <2>2. QED
    BY <2>1 DEF FlagAt, Running
<1>9. QED
  BY <1>2, <1>3, <1>4, <1>5, <1>6, <1>7, <1>8 DEF Request, Continue

\* A resume that puts its job back to paused has not seen it complete.
LEMMA RestoreWaits ==
  ASSUME Serial, SerialBase, HolderInv, NEW p \in Runners,
         proc[p].step = "restore"
  PROVE  status # "completed"
<1>1. Pending(p)
  BY DEF HolderInv, RestoreOwns, Pending
<1>2. Live
  BY <1>1, PendingAtWork DEF HolderInv, HolderLives, SerialBase
<1>3. QED
  BY <1>1, <1>2, PendingShort DEF SerialBase

LEMMA RestoreWaitsNext ==
  (Serial /\ SerialBase /\ HolderInv =>
     \A p \in Runners : proc[p].step = "restore" => status # "completed")'
<1>1. Serial /\ SerialBase /\ HolderInv =>
        \A p \in Runners : proc[p].step = "restore" => status # "completed"
  BY RestoreWaits
<1>2. QED
  BY <1>1, PTL

LEMMA FlagStep ==
  ASSUME Serial, SerialBase, HolderInv, SerialBase', HolderInv', FlagInv,
         [Next]_vars
  PROVE  FlagInv'
<1>0. /\ TypeOK /\ BaseInv
      /\ ~PrepareTasksFail
      /\ \A p \in Runners : ~Crash(p) /\ ~PersistHitsFail(p)
  BY BaseParts, NoLossStep DEF SerialBase, BaseInv, CountInv
<1>1. ASSUME NEW m \in msgs, WorkerStep(m) \/ WorkerError(m)
      PROVE  FlagInv'
  <2>1. proc' = proc
    BY <1>1, WorkerLocal
  <2>2. Serial'
    BY DEF Serial
  <2>3. \A c \in Clients : proc[c].step = "restore" => status' # "completed"
    BY <2>1, <2>2, RestoreWaitsNext, RunnersDiffer
  <2>4. QED
    BY <1>1, <2>3, FlagWorker
<1>2. CASE LockExpires \/ PauseCacheExpires \/ UNCHANGED vars
  BY <1>2, KeepFlag DEF LockExpires, PauseCacheExpires, vars, jobVars,
     StepsKept, Running
<1>3. QED
  BY <1>0, <1>1, <1>2, FlagPrepare, FlagRunner, FlagClient DEF Next

\* What holds throughout the life of such a job.
SerialInv == SerialBase /\ HolderInv /\ ShortInv /\ FlagInv

LEMMA SerialInvariant ==
  ASSUME Quietly
  PROVE  Spec => []SerialInv
<1>0. Serial
  BY DEF Quietly
<1>1. Init => HolderInv /\ ShortInv /\ FlagInv
  <2>1. Init => HolderInv /\ FlagInv
    BY RunnersDiffer DEF Init, HolderInv, RestoreOwns, HolderLives, Live,
       FlagInv, FlagAt, Idle, Working
  <2>2. Cardinality(Emails) # 0
    BY ConstantsAssumption, FS_EmptySet
  <2>3. Init => ShortInv
    BY <2>2, TotalNat, ConstantsAssumption DEF Init, ShortInv, Total
  <2>4. QED
    BY <2>1, <2>3
<1>2. SerialBase /\ HolderInv /\ [Next]_vars => HolderInv'
  BY <1>0, RestoreOwnsStep, HolderLivesStep DEF SerialBase, HolderInv
<1>3. SerialBase /\ HolderInv /\ ShortInv /\ [Next]_vars => ShortInv'
  BY <1>0, ShortStep DEF HolderInv
<1>4. /\ SerialBase /\ HolderInv /\ SerialBase' /\ HolderInv' /\ FlagInv
      /\ [Next]_vars
      => FlagInv'
  BY <1>0, FlagStep
<1>5. SerialBase /\ HolderInv /\ ShortInv /\ FlagInv => SerialInv
  BY DEF SerialInv
<1>6. QED
  BY SerialBaseInvariant, <1>1, <1>2, <1>3, <1>4, <1>5, PTL DEF Spec

(* The soft-stop flag and the status, which different stores keep, agree   *)
(* whenever no request is being served: whatever chunks complete the job   *)
(* between two steps of a pause, and whatever enqueue of a resume fails.   *)
THEOREM FlagAndStatusAgree ==
  ASSUME Quietly
  PROVE  Spec => []FlagFollowsStatus
<1>1. SerialInv => FlagFollowsStatus
  BY DEF SerialInv, FlagInv, FlagAt, Running, FlagFollowsStatus
<1>2. QED
  BY SerialInvariant, <1>1, PTL

-----------------------------------------------------------------------------
(* The credits of a job that was never retried.                            *)

(* A retry charges the job again; until then its ledger follows its        *)
(* status: nothing has come back while it is open, everything when it has  *)
(* failed, and its unknown verdicts when it is complete.                   *)
PaidInv ==
  /\ ledger.charged >= Cardinality(Emails)
  /\ ledger.charged = Cardinality(Emails) =>
       /\ status \in OpenStatuses => ledger.refunded = 0 /\ ledger.refunds = 0
       /\ status = "failed" => ledger.refunded = ledger.charged
       /\ status = "completed" => ledger.refunded = risky
       /\ ledger.refunded <= ledger.charged

LEMMA KeepPaid ==
  ASSUME PaidInv, ledger' = ledger, risky' = risky,
         \/ status' = status
         \/ status \in OpenStatuses /\ status' \in OpenStatuses
         \/ status' = "deleted"
  PROVE  PaidInv'
  BY DEF PaidInv, OpenStatuses

\* There are no more unknown verdicts than addresses.
LEMMA RiskyBound ==
  ASSUME SerialInv, Live, ~Dropping
  PROVE  risky <= Cardinality(Emails)
<1>1. risky = Unknowns(rows) /\ IsFiniteSet(rows)
  BY BaseParts DEF SerialInv, SerialBase, BaseInv, CountInv, Counts, TypeOK
<1>2. Unknowns(rows) <= Cardinality(rows) /\ Unknowns(rows) \in Nat
  BY <1>1, FS_Subset, FS_CardinalityType DEF Unknowns
<1>3. QED
  BY <1>1, <1>2, ShortRows, TotalNat DEF SerialInv, SerialBase

LEMMA RiskyBoundNext ==
  (SerialInv /\ Live /\ ~Dropping => risky <= Cardinality(Emails))'
<1>1. SerialInv /\ Live /\ ~Dropping => risky <= Cardinality(Emails)
  BY RiskyBound
<1>2. QED
  BY <1>1, PTL

LEMMA PaidProgress ==
  ASSUME TypeOK, SerialInv', FlagInv, StepsKept, PaidInv,
         status \in OpenStatuses, NEW n, NEW u \in Nat, Progress(n, u)
  PROVE  PaidInv'
<1>1. ~Dropping'
  <2>1. ~Dropping
    BY DEF Dropping, FlagInv, FlagAt, Running, OpenStatuses
  <2>2. QED
    BY <2>1 DEF Dropping, StepsKept
<1>2. risky' = risky + u /\ risky' \in Nat
  BY ProgressCounts DEF TypeOK
<1>3. CASE status' = "completed"
  <2>1. risky' <= Cardinality(Emails)
    BY <1>1, <1>3, RiskyBoundNext DEF Live
  <2>2. ledger' = IF risky' > 0 /\ ledger.refunds = 0
                  THEN Refunded(risky') ELSE ledger
    BY <1>2, <1>3 DEF Progress, ProgressOf
  <2>3. QED
    BY <1>2, <1>3, <2>1, <2>2, TotalNat
    DEF PaidInv, Refunded, TypeOK, OpenStatuses
<1>4. CASE status' # "completed"
  <2>1. ledger' = ledger /\ status' \in {"paused", "processing"}
    BY <1>4 DEF Progress, ProgressOf
  <2>2. QED
    BY <2>1 DEF PaidInv, OpenStatuses
<1>5. QED
  BY <1>3, <1>4

LEMMA PaidPrepare ==
  ASSUME SerialBase, PaidInv,
         PrepareMessage \/ PrepareHandler \/ PrepareSlotBusy
  PROVE  PaidInv'
<1>1. CASE FailPreparingJob
  <2>1. status = "preparing"
    BY <1>1 DEF FailPreparingJob, SerialBase, BaseInv, PrepInv
  <2>2. status' = "failed" /\ ledger' = Refunded(Cardinality(Emails))
    BY <1>1, <2>1 DEF FailPreparingJob, RefundJob, Live
  <2>3. QED
    BY <2>1, <2>2, TotalNat
    DEF SerialBase, FreeInv, PaidInv, Refunded, OpenStatuses
<1>2. CASE ~FailPreparingJob
  <2>1. /\ ledger' = ledger /\ risky' = risky
        /\ status' = status \/ (status = "preparing" /\ status' = "pending")
    BY <1>2 DEF PrepareMessage, PrepareHandler, PrepareSkip, PrepareStart,
       FailPreparingRead, PrepareSlotBusy, PrepareTasks, PrepareCheck,
       PrepareClaimed, MarkPending, jobVars
  <2>2. QED
    BY <2>1, KeepPaid DEF OpenStatuses
<1>3. QED
  BY <1>1, <1>2

\* A handler that has not carried out its plan works on an open job.
LEMMA PendingOpen ==
  ASSUME Serial, SerialBase, HolderInv, NEW p \in Runners, Pending(p),
         proc[p].step \in BusySteps
  PROVE  status \in OpenStatuses
<1>1. Live
  BY PendingAtWork DEF HolderInv, HolderLives, SerialBase
<1>2. status \notin {"completed", "failed", "deleted"}
  BY <1>1, PendingShort DEF SerialBase, NotFailed, Live
<1>3. QED
  BY <1>2, BaseParts DEF SerialBase, TypeOK, Statuses, OpenStatuses

LEMMA PaidRunner ==
  ASSUME Serial, SerialInv, SerialInv', PaidInv, NEW p \in Runners,
         Enqueue(p) \/ EnqueueError(p), ~PersistHitsFail(p)
  PROVE  PaidInv'
<1>0. /\ TypeOK /\ Clients \subseteq Runners /\ ~RollbackHits(p)
      /\ SerialBase /\ HolderInv /\ BaseInv
  BY BaseParts DEF SerialInv, SerialBase, RollbackHits
<1>1. CASE PersistHits(p)
  <2>1. PICK c \in Unwritten(p) : \E hits \in Outcomes(Hits(p, c)) :
          PersistHitsOf(p, c, hits)
    BY <1>1 DEF PersistHits
  <2>2. PICK hits \in Outcomes(Hits(p, c)) : PersistHitsOf(p, c, hits)
    BY <2>1
  <2>3. Hits(p, c) \in SUBSET Emails
    BY <1>0 DEF Hits, Unwritten, TypeOK, Proc, Chunks
  <2>4. hits \in SUBSET Result
    BY <2>3, OutcomesType
  <2>5. Unknowns(hits) \in Nat
    <3>1. {f \in hits : f.verdict = "unknown"} \in SUBSET Result
      BY <2>4
    <3>2. QED
      BY <3>1, RowsForFinite DEF Unknowns
  <2>6. status \in OpenStatuses
    BY <1>0, <1>1, PendingOpen DEF PersistHits, Pending, BusySteps
  <2>7. StepsKept
    BY <1>0, <2>2 DEF PersistHitsOf, TypeOK, Proc, StepsKept
  <2>8. Progress(Cardinality(hits), Unknowns(hits))
    BY <2>2, <2>6 DEF PersistHitsOf, OpenStatuses, Live
  <2>9. QED
    BY <1>0, <2>5, <2>6, <2>7, <2>8, PaidProgress DEF SerialInv
<1>2. CASE RefundEnqueue(p)
  <2>1. Owner(p) /\ Pending(p)
    BY <1>0, <1>2 DEF RefundEnqueue, SerialBase, FreeInv, RefundOwned,
       Owner, Pending
  <2>2. Live
    BY <1>0, <2>1, PendingAtWork DEF HolderInv, HolderLives
  <2>3. Owned(p)
    BY <1>0, <2>1, <2>2 DEF SerialBase, FreeInv
  <2>4. /\ status' = "failed" /\ risky' = risky
        /\ ledger' = Refunded(Cardinality(Listed(p)))
    BY <1>2, <2>2 DEF RefundEnqueue, RefundJob
  <2>5. ledger.charged \in Nat
    BY <1>0 DEF TypeOK
  <2>6. QED
    BY <2>3, <2>4, <2>5 DEF PaidInv, Owned, Refunded, OpenStatuses
<1>3. CASE RestorePaused(p)
  <2>1. status \in OpenStatuses
    BY <1>0, <1>3, PendingOpen DEF RestorePaused, HolderInv, RestoreOwns,
       Pending, BusySteps
  <2>2. /\ ledger' = ledger /\ risky' = risky
        /\ status' \in OpenStatuses
    BY <1>3, <2>1 DEF RestorePaused, OpenStatuses, Live
  <2>3. QED
    BY <2>1, <2>2, KeepPaid
<1>4. CASE EnqueueChunk(p) \/ EnqueueFails(p) \/ RestoreFlag(p)
  BY <1>4, KeepPaid DEF EnqueueChunk, EnqueueFails, RestoreFlag, jobVars
<1>5. QED
  BY <1>0, <1>1, <1>2, <1>3, <1>4 DEF Enqueue, EnqueueError

\* A resume or a retry always finds something left to queue.
LEMMA RequeueFindsWork ==
  ASSUME Serial, SerialInv, NEW c \in Clients
  PROVE  ~RequeueNothing(c)
<1>1. SUFFICES ASSUME RequeueNothing(c) PROVE FALSE
  OBVIOUS
<1>2. proc[c].step = "requeue" /\ Remaining = {}
      /\ status \in {"failed", "paused"}
  BY <1>1 DEF RequeueNothing, Expected
<1>3. status = "paused"
  BY <1>2 DEF SerialInv, ShortInv
<1>4. ~Dropping
  BY <1>2 DEF Dropping, Serial
<1>5. processed = InvalidSyntax + Cardinality(rows)
  BY <1>3, <1>4 DEF SerialInv, SerialBase, BaseInv, CountInv, Counts, Live
<1>6. processed < Total
  BY <1>3 DEF SerialInv, ShortInv, OpenStatuses
<1>7. Cardinality(rows) < Cardinality(Emails)
  BY <1>5, <1>6, ShortRows, TotalNat, ConstantsAssumption
  DEF Total, SerialInv, SerialBase
<1>8. QED
  BY <1>2, <1>7, ShortRows DEF SerialInv, SerialBase

LEMMA PaidClient ==
  ASSUME Serial, SerialInv, PaidInv, NEW c \in Clients, Request(c) \/ Continue(c)
  PROVE  PaidInv'
<1>0. TypeOK /\ BaseInv /\ OneRowPerAddress
  BY BaseParts DEF SerialInv, SerialBase
<1>1. CASE RequeueTasks(c)
  <2>1. CASE proc[c].charge
    <3>1. Remaining \in SUBSET Emails /\ Remaining # {}
      BY <1>1 DEF Remaining, RequeueTasks
    <3>2. Cardinality(Remaining) \in Nat /\ Cardinality(Remaining) # 0
      BY <3>1, SubsetsCount, FS_EmptySet
    <3>3. ledger'.charged = ledger.charged + Cardinality(Remaining)
      BY <1>0, <1>1, <2>1 DEF RequeueTasks, Fee, TypeOK
    <3>4. ledger.charged \in Nat
      BY <1>0 DEF TypeOK
    <3>5. QED
      BY <3>2, <3>3, <3>4, TotalNat DEF PaidInv
  <2>2. CASE ~proc[c].charge
    <3>1. ledger' = ledger
      BY <1>0, <1>1, <2>2 DEF RequeueTasks, Fee, TypeOK
    <3>2. status = "paused" /\ status' = "pending" /\ risky' = risky
      BY <1>1, <2>2 DEF RequeueTasks, Expected
    <3>3. QED
      BY <3>1, <3>2, KeepPaid DEF OpenStatuses
  <2>3. QED
    BY <2>1, <2>2
<1>2. CASE CancelPaused(c)
  <2>1. status = "paused" /\ status' = "deleted"
        /\ (ledger' = ledger \/ ledger' = Refunded(Unused))
    BY <1>2 DEF CancelPaused
  <2>2. Unused \in Nat /\ Unused <= Cardinality(Emails)
    <3>1. Cardinality(rows) \in Nat /\ IsFiniteSet(rows)
      BY <1>0, ShortRows DEF TypeOK
    <3>2. Unknowns(rows) <= Cardinality(rows) /\ Unknowns(rows) \in Nat
      BY <3>1, FS_Subset, FS_CardinalityType DEF Unknowns
    <3>3. QED
      BY <3>1, <3>2, TotalNat DEF Unused
  <2>3. QED
    BY <1>0, <2>1, <2>2, TotalNat
    DEF PaidInv, Refunded, OpenStatuses, TypeOK
<1>3. CASE /\ ~RequeueTasks(c) /\ ~CancelPaused(c)
  <2>1. ~RequeueNothing(c)
    BY RequeueFindsWork
  <2>2. ledger' = ledger /\ risky' = risky
    BY <1>3, <2>1 DEF Request, PauseJob, DeleteJob, RequeueJob, Requests,
       Continue, PauseSetFlag, PauseUpdate, PauseUndo, RequeuePurge,
       RequeueRefused, RequeueClearFlag, RequeueDone, DeleteResults,
       DropJob, DeleteSetFlag, CancelRefused, jobVars
  <2>3. \/ status' = status \/ status' = "deleted"
        \/ status \in {"pending", "processing"} /\ status' = "paused"
    BY <1>3, <2>1 DEF Request, PauseJob, DeleteJob, RequeueJob, Requests,
       Continue, PauseSetFlag, PauseUpdate, PauseUndo, RequeuePurge,
       RequeueRefused, RequeueClearFlag, RequeueDone, DeleteResults,
       DropJob, DeleteSetFlag, CancelRefused, jobVars
  <2>4. QED
    BY <2>2, <2>3, KeepPaid DEF OpenStatuses
<1>4. QED
  BY <1>1, <1>2, <1>3

LEMMA PaidWorker ==
  ASSUME SerialInv, SerialInv', PaidInv,
         NEW m \in msgs, WorkerStep(m) \/ WorkerError(m)
  PROVE  PaidInv'
<1>0. TypeOK
  BY BaseParts DEF SerialInv, SerialBase
<1>1. CASE Report(m) \/ ReportUnanswered(m)
  <2>1. ReportTaskResults(m)
    BY <1>1 DEF Report, ReportUnanswered
  <2>2. CASE Accepts(m) /\ Fresh(m) # {}
    <3>1. Unknowns(Fresh(m)) \in Nat
      <4>1. {f \in Fresh(m) : f.verdict = "unknown"} \in SUBSET Result
        BY <1>0, FreshIsNew
      <4>2. QED
        BY <4>1, RowsForFinite DEF Unknowns
    <3>2. status \in OpenStatuses /\ StepsKept
      BY <2>2, WorkerLocal DEF Accepts, OpenStatuses, StepsKept
    <3>3. Progress(Cardinality(Fresh(m)), Unknowns(Fresh(m)))
      BY <2>1, <2>2 DEF ReportTaskResults
    <3>4. QED
      BY <1>0, <3>1, <3>2, <3>3, PaidProgress DEF SerialInv
  <2>3. CASE ~(Accepts(m) /\ Fresh(m) # {})
    BY <2>1, <2>3, KeepPaid DEF ReportTaskResults, jobVars
  <2>4. QED
    BY <2>2, <2>3
<1>2. CASE ~(Report(m) \/ ReportUnanswered(m))
  BY <1>2, KeepPaid DEF WorkerStep, WorkerError, SkipChunk, StartChunk,
     FinishChunk, StopChunk, ChunkFails, ReportRefused, DeadLetterLost, jobVars
<1>3. QED
  BY <1>1, <1>2

LEMMA PaidStep ==
  ASSUME Serial, SerialInv, SerialInv', PaidInv, [Next]_vars
  PROVE  PaidInv'
<1>0. /\ TypeOK /\ SerialBase
      /\ ~PrepareTasksFail
      /\ \A p \in Runners : ~Crash(p) /\ ~PersistHitsFail(p)
  BY BaseParts, NoLossStep DEF SerialInv, SerialBase, BaseInv, CountInv
<1>1. CASE LockExpires \/ PauseCacheExpires \/ UNCHANGED vars
  BY <1>1, KeepPaid DEF LockExpires, PauseCacheExpires, vars, jobVars
<1>2. QED
  BY <1>0, <1>1, PaidPrepare, PaidRunner, PaidClient, PaidWorker DEF Next

LEMMA PaidInvariant ==
  ASSUME Quietly
  PROVE  Spec => [](SerialInv /\ PaidInv)
<1>0. Serial
  BY DEF Quietly
<1>1. Init => PaidInv
  BY TotalNat DEF Init, PaidInv
<1>2. SerialInv /\ SerialInv' /\ PaidInv /\ [Next]_vars => PaidInv'
  BY <1>0, PaidStep
<1>3. QED
  BY SerialInvariant, <1>1, <1>2, PTL DEF Spec

(* A job that was never retried gives back no more than it cost, whichever *)
(* of completion, failure, failed enqueues and delete end it.              *)
THEOREM NoOverRefund ==
  ASSUME Quietly
  PROVE  Spec => []NeverOverRefunded
<1>1. PaidInv => NeverOverRefunded
  BY DEF PaidInv, NeverOverRefunded
<1>2. QED
  BY PaidInvariant, <1>1, PTL

(* A completed job that was never retried cost exactly its conclusive      *)
(* results.  (After a retry the unknowns of the first run stay paid: some  *)
(* refund already names the job.)                                          *)
THEOREM CompletedJobIsPaid ==
  ASSUME Quietly
  PROVE  Spec => [](ledger.charged = Cardinality(Emails)
                      => CompletedIsPaidExactly)
<1>1. ASSUME SerialInv, PaidInv, ledger.charged = Cardinality(Emails)
      PROVE  CompletedIsPaidExactly
  <2> SUFFICES ASSUME status = "completed",
                      \A c \in Clients : proc[c].step # "drop"
               PROVE  ledger.charged - ledger.refunded
                        = Cardinality(rows) - Unknowns(rows)
    BY DEF CompletedIsPaidExactly
  <2>1. ledger.refunded = risky
    BY <1>1 DEF PaidInv
  <2>2. risky = Unknowns(rows) /\ processed = InvalidSyntax + Cardinality(rows)
    BY <1>1 DEF SerialInv, SerialBase, BaseInv, CountInv, Counts, Dropping,
       Live
  <2>3. processed >= Total
    BY <1>1 DEF SerialInv, SerialBase, BaseInv, DoneInv
  <2>4. Cardinality(rows) = Cardinality(Emails)
    BY <1>1, <2>2, <2>3, ShortRows, TotalNat, ConstantsAssumption
    DEF SerialInv, SerialBase, Total
  <2>5. QED
    BY <1>1, <2>1, <2>2, <2>4
<1>2. SerialInv /\ PaidInv
        => (ledger.charged = Cardinality(Emails) => CompletedIsPaidExactly)
  BY <1>1
<1>3. QED
  BY PaidInvariant, <1>2, PTL

-----------------------------------------------------------------------------
(* The work of a running job: every address that is still open is in the   *)
(* plan of a handler or in a message, and the report will be accepted.     *)

(* A step that loses no chunk for good: neither is a dead-letter report    *)
(* lost nor a report refused that had attempts left.                       *)
NoneLost ==
  \A m \in msgs : /\ ~DeadLetterLost(m)
                  /\ ReportRefused(m) => m.retried >= ChunkRetries

(* A step in which no worker drops work for a pause that is over, on the   *)
(* word of its copy of the flag.                                           *)
NoneForgotten ==
  \A m \in msgs : SkipChunk(m) \/ StopChunk(m) => flag

\* A handler has still to send the address out, or to answer it.
Planned(e) ==
  \E p \in Runners : \E c \in proc[p].chunks :
    \/ c \notin proc[p].sent /\ e \in Misses(p, c)
    \/ c \notin proc[p].wrote /\ e \in Hits(p, c)

\* A message that will be reported with a result for the address.
Carried(e) ==
  \E m \in msgs : /\ m.gen = gen /\ e \in m.emails
                  /\ m.phase \in {"post", "dead"} =>
                       \E f \in m.found : f.email = e

GivingUp ==
  \E p \in Runners : proc[p].step \in {"refund", "restoreFlag", "restore"}
BeforeTasks == /\ status = "preparing"
               /\ proc[Preparer].step \in {"idle", "loaded", "checked"}
Pausing == \E c \in Clients : proc[c].step = "pause"

(* Every open address of a running job is planned or on its way, unless a  *)
(* handler has given up or prepare has not begun.  Under the flag workers  *)
(* drop their chunks: a pause may, as its update ends the running.         *)
InHand(e) == Planned(e) \/ IF flag THEN Pausing ELSE Carried(e)
Covered ==
  Running /\ ~GivingUp /\ ~BeforeTasks => \A e \in Remaining : InHand(e)

(* What is planned or on its way belongs to a live task ...                *)
TasksKnown ==
  /\ \A m \in msgs : /\ m.emails \subseteq m.chunk
                     /\ Live /\ m.gen = gen => m.chunk \in DOMAIN tasks
  /\ \A p \in Runners :
       Live /\ proc[p].gen > 0 => proc[p].chunks \subseteq DOMAIN tasks

(* ... that takes its report until all of it is recorded.                  *)
TaskTrue(c) ==
  /\ tasks[c].pushed <= Cardinality(c \cap Recorded)
  /\ tasks[c].status # "failed"
  /\ tasks[c].status = "completed" => c \subseteq Recorded
TasksTrue == Running => \A c \in DOMAIN tasks : TaskTrue(c)

\* The message of a prepare that has not succeeded is still there.
PrepareKnown == prep.phase = "gone" => status # "preparing"

WorkInv == PrepareKnown /\ TasksKnown /\ TasksTrue /\ Covered

LEMMA PrepareKnownStep ==
  ASSUME SerialInv, PrepareKnown, [Next]_vars
  PROVE  PrepareKnown'
<1>0. /\ BaseInv /\ PrepInv /\ TypeOK /\ ~PrepareTasksFail
      /\ \A p \in Runners : ~Crash(p) /\ ~PersistHitsFail(p) /\ ~RollbackHits(p)
  BY BaseParts, NoLossStep
  DEF SerialInv, SerialBase, BaseInv, CountInv, RollbackHits
<1>1. CASE PrepareMessage \/ PrepareHandler \/ PrepareSlotBusy
  <2>1. CASE FailPreparingJob
    BY <2>1 DEF FailPreparingJob, RefundJob, PrepareKnown, Live
  <2>2. CASE PrepareSkip \/ PrepareSlotBusy
    <3>1. PrepareFailed => prep'.phase # "gone"
      BY <1>0 DEF PrepareFailed, TypeOK
    <3>2. QED
      BY <2>2, <3>1 DEF PrepareSkip, PrepareSlotBusy, jobVars, PrepareKnown
  <2>3. CASE PrepareStart \/ FailPreparingRead
    BY <1>0, <2>3 DEF PrepareStart, FailPreparingRead, jobVars, TypeOK,
       PrepareKnown
  <2>4. CASE PrepareCheck \/ PrepareTasks \/ PrepareClaimed \/ MarkPending
    BY <2>4 DEF PrepareTasks, PrepareCheck, PrepareClaimed, MarkPending,
       jobVars, PrepareKnown
  <2>5. QED
    BY <1>1, <2>1, <2>2, <2>3, <2>4 DEF PrepareMessage, PrepareHandler
<1>2. ASSUME NEW p \in Runners, Enqueue(p) \/ EnqueueError(p)
      PROVE  PrepareKnown'
  <2>1. CASE RefundEnqueue(p) \/ RestorePaused(p)
    BY <2>1 DEF RefundEnqueue, RestorePaused, RefundJob, Live, PrepareKnown
  <2>2. CASE EnqueueChunk(p) \/ EnqueueFails(p) \/ RestoreFlag(p)
    BY <2>2 DEF EnqueueChunk, EnqueueFails, RestoreFlag, jobVars, PrepareKnown
  <2>3. CASE PersistHits(p)
    BY <2>3, PersistHitsLeaves DEF PersistHits, PrepareKnown
  <2>4. QED
    BY <1>0, <1>2, <2>1, <2>2, <2>3 DEF Enqueue, EnqueueError
<1>3. ASSUME NEW c \in Clients, Request(c) \/ Continue(c)
      PROVE  PrepareKnown'
  <2>1. CASE RequeuePurge(c)
    BY <1>0, <2>1 DEF RequeuePurge, PrepInv, PrepareKnown, jobVars
  <2>2. CASE ~RequeuePurge(c)
    BY <1>3, <2>2 DEF Request, PauseJob, DeleteJob, RequeueJob, Requests,
       Continue, PauseSetFlag, PauseUpdate, PauseUndo, RequeueTasks,
       RequeueNothing, RequeueRefused, RequeueClearFlag, RequeueDone,
       DeleteResults, DropJob, DeleteSetFlag, CancelPaused, CancelRefused,
       jobVars, PrepareKnown
  <2>3. QED
    BY <2>1, <2>2
<1>4. ASSUME NEW m \in msgs, WorkerStep(m) \/ WorkerError(m)
      PROVE  PrepareKnown'
  BY <1>4, WorkerLocal, ReportLeaves DEF PrepareKnown
<1>5. CASE LockExpires \/ PauseCacheExpires \/ UNCHANGED vars
  BY <1>5 DEF LockExpires, PauseCacheExpires, vars, jobVars, PrepareKnown
<1>6. QED
  BY <1>0, <1>1, <1>2, <1>3, <1>4, <1>5 DEF Next

(* Only a resume or a retry sets a job running that was not.               *)
LEMMA RunningBefore ==
  ASSUME Serial, SerialInv, [Next]_vars, Running',
         \A c \in Clients : ~RequeueTasks(c)
  PROVE  Running
<1>0. /\ SerialBase /\ HolderInv /\ TypeOK /\ ~PrepareTasksFail
      /\ \A p \in Runners : ~Crash(p) /\ ~PersistHitsFail(p) /\ ~RollbackHits(p)
  BY BaseParts, NoLossStep
  DEF SerialInv, SerialBase, BaseInv, CountInv, RollbackHits
<1>1. CASE PrepareMessage \/ PrepareHandler \/ PrepareSlotBusy
  BY <1>1 DEF PrepareMessage, PrepareHandler, PrepareSkip, PrepareStart,
     FailPreparingRead, FailPreparingJob, RefundJob, Live, PrepareSlotBusy,
     PrepareTasks, PrepareCheck, PrepareClaimed, MarkPending, jobVars, Running
<1>2. ASSUME NEW p \in Runners, Enqueue(p) \/ EnqueueError(p)
      PROVE  Running
  <2>1. CASE PersistHits(p)
    <3>1. status \in OpenStatuses
      BY <1>0, <2>1, PendingOpen DEF PersistHits, Pending, BusySteps
    <3>2. status' = "completed" \/
            status' = IF status = "paused" THEN "paused" ELSE "processing"
      BY <2>1, <3>1 DEF PersistHits, PersistHitsOf, Progress, ProgressOf,
         Live, OpenStatuses
    <3>3. QED
      BY <3>1, <3>2 DEF Running, OpenStatuses
  <2>2. CASE ~PersistHits(p)
    BY <1>0, <1>2, <2>2 DEF Enqueue, EnqueueError, EnqueueChunk,
       RefundEnqueue, RestoreFlag, RestorePaused, EnqueueFails, RefundJob,
       jobVars, Live, Running
  <2>3. QED
    BY <2>1, <2>2
<1>3. ASSUME NEW c \in Clients, Request(c) \/ Continue(c)
      PROVE  Running
  BY <1>3 DEF Request, PauseJob, DeleteJob, RequeueJob, Requests, Continue,
     PauseSetFlag, PauseUpdate, PauseUndo, RequeuePurge, RequeueNothing,
     RequeueRefused, RequeueClearFlag, RequeueDone, DeleteResults, DropJob,
     DeleteSetFlag, CancelPaused, CancelRefused, jobVars, Running
<1>4. ASSUME NEW m \in msgs, WorkerStep(m) \/ WorkerError(m)
      PROVE  Running
  <2>1. CASE Report(m) \/ ReportUnanswered(m)
    BY <2>1 DEF Report, ReportUnanswered, ReportTaskResults, Accepts,
       Progress, ProgressOf, jobVars, Running
  <2>2. CASE ~(Report(m) \/ ReportUnanswered(m))
    BY <1>4, <2>2 DEF WorkerStep, WorkerError, SkipChunk, StartChunk,
       FinishChunk, StopChunk, ChunkFails, ReportRefused, DeadLetterLost,
       jobVars, Running
  <2>3. QED
    BY <2>1, <2>2
<1>5. CASE LockExpires \/ PauseCacheExpires \/ UNCHANGED vars
  BY <1>5 DEF LockExpires, PauseCacheExpires, vars, jobVars, Running
<1>6. QED
  BY <1>0, <1>1, <1>2, <1>3, <1>4, <1>5 DEF Next

-----------------------------------------------------------------------------
(* What a message or a plan belongs to.                                    *)

\* A message that has moved on stays one of its task.
SameTask(x, m) == x.gen = m.gen /\ x.chunk = m.chunk /\ x.emails = m.emails

LEMMA MessagesMove ==
  ASSUME [Next]_vars, \A p \in Runners : ~EnqueueChunk(p)
  PROVE  \A x \in msgs' : \E m \in msgs : SameTask(x, m)
<1>0. ASSUME msgs' \subseteq msgs
      PROVE  \A x \in msgs' : \E m \in msgs : SameTask(x, m)
  BY <1>0 DEF SameTask
<1>1. CASE PrepareMessage \/ PrepareHandler \/ PrepareSlotBusy
           \/ PrepareTasksFail
  BY <1>0, <1>1 DEF PrepareMessage, PrepareHandler, PrepareSkip,
     PrepareStart, FailPreparingRead, FailPreparingJob, PrepareSlotBusy,
     PrepareTasksFail, PrepareTasks, PrepareCheck, PrepareClaimed, MarkPending
<1>2. ASSUME NEW p \in Runners, Enqueue(p) \/ EnqueueError(p) \/ Crash(p)
      PROVE  msgs' \subseteq msgs
  BY <1>2 DEF Enqueue, EnqueueError, Crash, RollbackHits, RefundEnqueue,
     RestoreFlag, RestorePaused, EnqueueFails, PersistHits, PersistHitsFail
<1>3. ASSUME NEW c \in Clients, Request(c) \/ Continue(c)
      PROVE  msgs' \subseteq msgs
  BY <1>3 DEF Request, PauseJob, DeleteJob, RequeueJob, Requests, Continue,
     PauseSetFlag, PauseUpdate, PauseUndo, RequeuePurge, RequeueTasks,
     RequeueNothing, RequeueRefused, RequeueClearFlag, RequeueDone,
     DeleteResults, DropJob, DeleteSetFlag, CancelPaused, CancelRefused
<1>4. ASSUME NEW m \in msgs, WorkerStep(m) \/ WorkerError(m)
      PROVE  \A x \in msgs' : \E z \in msgs : SameTask(x, z)
  <2>1. \A phase, retried, found : SameTask(At(m, phase, retried, found), m)
    BY DEF SameTask, At
  <2>2. SameTask(Failed(m), m)
    BY <2>1 DEF Failed
  <2>3. \A x \in msgs' : x \in msgs \/ SameTask(x, m)
    <3>1. CASE SkipChunk(m) \/ StartChunk(m) \/ FinishChunk(m)
      BY <2>1, <3>1 DEF SkipChunk, StartChunk, FinishChunk
    <3>2. CASE StopChunk(m)
      BY <2>1, <3>2 DEF StopChunk
    <3>3. CASE Report(m) \/ WorkerError(m)
      BY <2>2, <3>3 DEF Report, WorkerError, ChunkFails, ReportRefused,
         DeadLetterLost, ReportUnanswered
    <3>4. QED
      BY <1>4, <3>1, <3>2, <3>3 DEF WorkerStep
  <2>4. QED
    BY <2>3 DEF SameTask
<1>5. CASE LockExpires \/ PauseCacheExpires \/ UNCHANGED vars
  BY <1>0, <1>5 DEF LockExpires, PauseCacheExpires, vars
<1>6. QED
  BY <1>0, <1>1, <1>2, <1>3, <1>4, <1>5 DEF Next

\* What a step that makes no plan does to the chunks of those there are.
ChunksKept ==
  \A p \in Runners :
    proc'[p].gen > 0 => /\ proc'[p].gen = proc[p].gen
                        /\ proc'[p].chunks = proc[p].chunks

LEMMA ChunksKeptStep ==
  ASSUME TypeOK, RowInv, [Next]_vars, ~PrepareTasks,
         \A c \in Clients : ~RequeueTasks(c)
  PROVE  gen' = gen /\ ChunksKept
<1>1. ASSUME PlansKept PROVE ChunksKept
  BY <1>1 DEF PlansKept, ChunksKept, NoPlan, SamePlan
<1>2. ASSUME proc' = proc PROVE ChunksKept
  BY <1>2 DEF ChunksKept
<1>3. CASE PrepareMessage \/ PrepareSlotBusy \/ PrepareTasksFail
           \/ PrepareHandler
  BY <1>1, <1>3, QuietPrepare DEF Quiet, PrepareHandler
<1>4. ASSUME NEW p \in Runners, Enqueue(p) \/ EnqueueError(p) \/ Crash(p)
      PROVE  gen' = gen /\ ChunksKept
  <2>1. CASE EnqueueChunk(p)
    BY <2>1 DEF EnqueueChunk, TypeOK, Proc, ChunksKept
  <2>2. CASE PersistHits(p)
    BY <2>2 DEF PersistHits, PersistHitsOf, TypeOK, Proc, ChunksKept
  <2>3. CASE ~EnqueueChunk(p) /\ ~PersistHits(p)
    BY <1>1, <1>4, <2>3, QuietRunner DEF Quiet, Enqueue
  <2>4. QED
    BY <2>1, <2>2, <2>3
<1>5. ASSUME NEW c \in Clients, Request(c) \/ Continue(c)
      PROVE  gen' = gen /\ ChunksKept
  BY <1>1, <1>5, QuietRequest, QuietContinue DEF Quiet
<1>6. QED
  BY <1>2, <1>3, <1>4, <1>5, WorkerLocal
  DEF Next, LockExpires, PauseCacheExpires, vars

LEMMA DomainKept ==
  ASSUME [Next]_vars, ~PrepareTasks, \A c \in Clients : ~RequeueTasks(c)
  PROVE  DOMAIN tasks' = DOMAIN tasks \/ ~Live'
<1>1. CASE PrepareMessage \/ PrepareHandler \/ PrepareSlotBusy
           \/ PrepareTasksFail
  BY <1>1 DEF PrepareMessage, PrepareHandler, PrepareSkip, PrepareStart,
     FailPreparingRead, FailPreparingJob, RefundJob, TasksMarked,
     PrepareSlotBusy, PrepareTasksFail, PrepareTasks, PrepareCheck,
     PrepareClaimed, MarkPending
<1>2. ASSUME NEW p \in Runners, Enqueue(p) \/ EnqueueError(p) \/ Crash(p)
      PROVE  DOMAIN tasks' = DOMAIN tasks
  <2>1. CASE PersistHits(p)
    BY <2>1 DEF PersistHits, PersistHitsOf
  <2>2. CASE ~PersistHits(p)
    BY <1>2, <2>2 DEF Enqueue, EnqueueError, Crash, EnqueueChunk,
       RollbackHits, RefundEnqueue, RestoreFlag, RestorePaused,
       EnqueueFails, PersistHitsFail, RefundJob, TasksMarked
  <2>3. QED
    BY <2>1, <2>2
<1>3. ASSUME NEW c \in Clients, Request(c) \/ Continue(c)
      PROVE  DOMAIN tasks' = DOMAIN tasks \/ ~Live'
  BY <1>3 DEF Request, PauseJob, DeleteJob, RequeueJob, Requests, Continue,
     PauseSetFlag, PauseUpdate, PauseUndo, RequeuePurge, RequeueTasks,
     RequeueNothing, RequeueRefused, RequeueClearFlag, RequeueDone,
     DeleteResults, DropJob, DeleteSetFlag, CancelPaused, CancelRefused, Live
<1>4. ASSUME NEW m \in msgs, WorkerStep(m) \/ WorkerError(m)
      PROVE  DOMAIN tasks' = DOMAIN tasks
  BY <1>4 DEF WorkerStep, WorkerError, SkipChunk, StartChunk, FinishChunk,
     StopChunk, Report, ReportUnanswered, ReportTaskResults, ChunkFails,
     ReportRefused, DeadLetterLost
<1>5. QED
  BY <1>1, <1>2, <1>3, <1>4
  DEF Next, LockExpires, PauseCacheExpires, vars

\* A new plan and its tasks; every message is older.
NewPlan(p, step, charge, cut, hits) ==
  /\ proc' = [proc EXCEPT ![p] = Working(step, gen + 1, charge, cut, hits)]
  /\ gen' = gen + 1 /\ tasks' = NewTasks(cut)
  /\ UNCHANGED <<rows, msgs>>

LEMMA NewPlanKnown ==
  ASSUME Serial, BaseInv, TasksKnown, NEW p \in Runners, NEW step,
         NEW charge, NEW cut, NEW hits, NewPlan(p, step, charge, cut, hits),
         proc[p].step # "idle"
  PROVE  TasksKnown'
<1>0. TypeOK /\ RowInv
  BY BaseParts
<1>1. \A m \in msgs' : m.emails \subseteq m.chunk /\ m.gen # gen'
  BY <1>0 DEF NewPlan, RowInv, MessagesKnown, TasksKnown, TypeOK, Message
<1>2. \A q \in Runners \ {p} : proc'[q].gen = 0
  BY <1>0, OnlyOneAtWork DEF NewPlan, NoPlan, TypeOK
<1>3. proc'[p].chunks = DOMAIN tasks'
  BY <1>0 DEF NewPlan, Working, NewTasks, TypeOK
<1>4. QED
  BY <1>1, <1>2, <1>3 DEF TasksKnown

\* Prepare and requeue make such a plan, for what is not recorded.
LEMMA PlanningStep ==
  ASSUME SerialInv, PrepareTasks \/ \E c \in Clients : RequeueTasks(c)
  PROVE  \E p \in Runners : \E step, charge : \E cut \in Cuts(Remaining) :
           \E hits : /\ NewPlan(p, step, charge, cut, hits)
                     /\ step \in {"enqueue", "clearFlag"}
                     /\ proc[p].step # "idle"
<1>0. BaseInv /\ Preparer \in Runners /\ Clients \subseteq Runners
  BY RunnersDiffer DEF SerialInv, SerialBase
<1>1. CASE PrepareTasks
  <2>1. rows = {}
    BY <1>0, <1>1, BaseParts
    DEF PrepareTasks, BaseInv, PrepInv, TurnInv, FreshJob
  <2>2. Remaining = Emails
    BY <2>1 DEF Remaining, Recorded
  <2>3. proc[Preparer].step = "checked"
    BY <1>1 DEF PrepareTasks
  <2>4. PICK cut \in Cuts(Emails), hits \in SUBSET Cacheable :
          NewPlan(Preparer, "enqueue", TRUE, cut, hits)
    BY <1>1 DEF PrepareTasks, NewPlan
  <2>5. QED
    BY <1>0, <2>2, <2>3, <2>4
<1>2. ASSUME NEW c \in Clients, RequeueTasks(c)
      PROVE  \E cut \in Cuts(Remaining) : \E hits :
               NewPlan(c, "clearFlag", proc[c].charge, cut, hits)
  BY <1>2 DEF RequeueTasks, NewPlan
<1>3. QED
  BY <1>0, <1>1, <1>2 DEF RequeueTasks

\* No step detaches a message or a plan from its task.
LEMMA TasksKnownStep ==
  ASSUME Serial, SerialInv, TasksKnown, [Next]_vars
  PROVE  TasksKnown'
<1>0. TypeOK /\ RowInv /\ BaseInv
  BY BaseParts DEF SerialInv, SerialBase
<1>1. CASE PrepareTasks \/ \E c \in Clients : RequeueTasks(c)
  BY <1>0, <1>1, PlanningStep, NewPlanKnown
<1>2. CASE ~PrepareTasks /\ \A c \in Clients : ~RequeueTasks(c)
  <2>1. gen' = gen /\ ChunksKept
    BY <1>0, <1>2, ChunksKeptStep
  <2>2. DOMAIN tasks' = DOMAIN tasks \/ ~Live'
    BY <1>2, DomainKept
  <2>3. Live' => Live
    BY DeletedStays
  <2>4. \A p \in Runners :
          Live' /\ proc'[p].gen > 0 => proc'[p].chunks \subseteq DOMAIN tasks'
    BY <2>1, <2>2, <2>3 DEF TasksKnown, ChunksKept
  <2>5. ASSUME NEW x \in msgs', NEW m \in msgs, SameTask(x, m)
        PROVE  /\ x.emails \subseteq x.chunk
               /\ Live' /\ x.gen = gen' => x.chunk \in DOMAIN tasks'
    BY <2>1, <2>2, <2>3, <2>5 DEF TasksKnown, SameTask
  <2>6. ASSUME NEW p \in Runners, EnqueueChunk(p), NEW x \in msgs' \ msgs
        PROVE  /\ x.emails \subseteq x.chunk
               /\ Live' => x.chunk \in DOMAIN tasks'
    <3>1. PICK c \in Unsent(p) : x.chunk = c /\ x.emails = Misses(p, c)
      BY <2>6 DEF EnqueueChunk
    <3>2. c \in proc[p].chunks /\ Pending(p)
      BY <3>1 DEF Unsent, Pending
    <3>3. proc[p].gen > 0
      BY <1>0, <3>2, PendingAtWork
    <3>4. Live' => c \in DOMAIN tasks'
      BY <2>2, <2>3, <3>2, <3>3 DEF TasksKnown
    <3>5. QED
      BY <3>1, <3>4 DEF Misses
  <2>7. \A x \in msgs : SameTask(x, x)
    BY DEF SameTask
  <2>8. \A x \in msgs' : /\ x.emails \subseteq x.chunk
                         /\ Live' /\ x.gen = gen' => x.chunk \in DOMAIN tasks'
    <3>1. CASE \E p \in Runners : EnqueueChunk(p)
      BY <2>5, <2>6, <2>7, <3>1
    <3>2. CASE \A p \in Runners : ~EnqueueChunk(p)
      BY <2>5, <3>2, MessagesMove
    <3>3. QED
      BY <3>1, <3>2
  <2>9. QED
    BY <2>4, <2>8 DEF TasksKnown
<1>3. QED
  BY <1>1, <1>2

-----------------------------------------------------------------------------
(* What a task says of its results.                                        *)

\* Rows that are added leave a task at least as recorded as it was.
LEMMA TaskKept ==
  ASSUME TypeOK, NEW c \in DOMAIN tasks, TaskTrue(c), rows \subseteq rows',
         tasks'[c] = tasks[c] \/ /\ tasks'[c].pushed = tasks[c].pushed
                                 /\ tasks'[c].status = "processing"
  PROVE  TaskTrue(c)'
<1>1. c \in SUBSET Emails /\ IsFiniteSet(c)
  BY SubsetsCount DEF TypeOK, TasksOK, Chunks
<1>2. Recorded \subseteq Recorded'
  BY DEF Recorded
<1>3. IsFiniteSet(c \cap Recorded') /\ (c \cap Recorded) \subseteq (c \cap Recorded')
  BY <1>1, <1>2, FS_Subset
<1>4. /\ Cardinality(c \cap Recorded) <= Cardinality(c \cap Recorded')
      /\ Cardinality(c \cap Recorded) \in Nat
      /\ Cardinality(c \cap Recorded') \in Nat
  BY <1>3, FS_Subset, FS_CardinalityType
<1>5. tasks[c].pushed \in Nat
  BY DEF TypeOK, TasksOK
<1>6. QED
  BY <1>2, <1>4, <1>5 DEF TaskTrue

\* A verdict for each of some addresses: as many results as addresses.
LEMMA FoundCount ==
  ASSUME NEW S \in SUBSET Emails, NEW found \in SUBSET Result,
         FoundOnce(found, S)
  PROVE  /\ {f.email : f \in found} \subseteq S
         /\ Cardinality({f.email : f \in found}) = Cardinality(found)
<1> DEFINE T == {f.email : f \in found}
           g == [f \in found |-> f.email]
<1>1. T \subseteq S
  BY DEF FoundOnce
<1>2. g \in Surjection(found, T) /\ g \in Injection(found, T)
  BY DEF FoundOnce, Surjection, Injection, IsInjective
<1>3. IsFiniteSet(found)
  BY ResultFinite, FS_Subset
<1> HIDE DEF g
<1>4. Cardinality(T) = Cardinality(found)
  BY <1>2, <1>3, FS_Surjection
<1>5. QED
  BY <1>1, <1>4

(* A task counts the results that are recorded with it, no more, and is    *)
(* complete only if they were all that was missing.                        *)
LEMMA TaskGrows ==
  ASSUME TypeOK, NEW c \in DOMAIN tasks, TaskTrue(c),
         NEW found \in SUBSET Result, FoundOnce(found, c \ Recorded),
         NEW g, NEW by, rows' = rows \cup RowsFor(found, g, by),
         tasks'[c] = TaskAfter(c, Cardinality(found))
  PROVE  TaskTrue(c)'
<1> DEFINE T == {f.email : f \in found}
           old == c \cap Recorded
           n == Cardinality(found)
           size == Cardinality(c)
           pushed == tasks[c].pushed
<1>1. c \in SUBSET Emails /\ IsFiniteSet(c) /\ size \in Nat
  BY SubsetsCount DEF TypeOK, TasksOK, Chunks
<1>2. T \subseteq c \ Recorded /\ Cardinality(T) = n
  BY <1>1, FoundCount
<1>3. Recorded' = Recorded \cup T
  <2>1. {r.email : r \in RowsFor(found, g, by)} = T
    <3> DEFINE row(f) == [email |-> f.email, verdict |-> f.verdict,
                          gen |-> g, by |-> by]
    <3>1. RowsFor(found, g, by) = {row(f) : f \in found}
      BY DEF RowsFor
    <3>2. \A f \in found : row(f).email = f.email
      OBVIOUS
    <3> HIDE DEF row
    <3>3. QED
      BY <3>1, <3>2
  <2>2. QED
    BY <2>1 DEF Recorded
<1>4. c \cap Recorded' = old \cup T /\ old \cap T = {}
  BY <1>2, <1>3
<1>5. IsFiniteSet(old) /\ IsFiniteSet(T) /\ IsFiniteSet(c \cap Recorded')
  BY <1>1, <1>2, FS_Subset
<1>6. Cardinality(c \cap Recorded') = Cardinality(old) + n
  BY <1>2, <1>4, <1>5, DisjointUnion
<1>7. /\ Cardinality(old) \in Nat /\ n \in Nat /\ pushed \in Nat
      /\ pushed <= Cardinality(old)
  BY <1>2, <1>5, FS_CardinalityType DEF TypeOK, TasksOK, TaskTrue
<1>8. /\ tasks'[c].pushed = Capped(pushed + n, size)
      /\ tasks'[c].status \in {"completed", "processing"}
      /\ tasks'[c].status = "completed" => pushed + n >= size
  BY <1>1, <1>7 DEF TaskAfter
<1>9. Capped(pushed + n, size) <= pushed + n
  BY <1>1, <1>7 DEF Capped
<1>10. Capped(pushed + n, size) \in Nat
  BY <1>1, <1>7 DEF Capped
<1>11. tasks'[c].pushed <= Cardinality(c \cap Recorded')
  BY <1>6, <1>7, <1>8, <1>9, <1>10
<1>12. ASSUME tasks'[c].status = "completed"
       PROVE  c \subseteq Recorded'
  <2>1. Cardinality(c \cap Recorded') >= size
    BY <1>1, <1>6, <1>7, <1>8, <1>12
  <2>2. /\ c \cap Recorded' \subseteq c
        /\ Cardinality(c \cap Recorded') <= size
        /\ Cardinality(c \cap Recorded') = size => c \cap Recorded' = c
    BY <1>1, FS_Subset
  <2>3. c \cap Recorded' = c
    BY <1>1, <1>6, <1>7, <2>1, <2>2
  <2>4. QED
    BY <2>3
<1>13. QED
  BY <1>8, <1>11, <1>12 DEF TaskTrue

\* Only a report and a write of hits change the rows and tasks of a job that
\* goes on running under its plan.
LEMMA OthersLeaveTasks ==
  ASSUME SerialInv, [Next]_vars, Running, Running',
         ~PrepareTasks, \A c \in Clients : ~RequeueTasks(c),
         \A p \in Runners : ~PersistHits(p),
         \A m \in msgs : ~Report(m) /\ ~ReportUnanswered(m)
  PROVE  UNCHANGED <<rows, tasks>>
<1>0. /\ FlagInv /\ ~PrepareTasksFail
      /\ \A p \in Runners : ~Crash(p) /\ ~PersistHitsFail(p) /\ ~RollbackHits(p)
  BY BaseParts, NoLossStep
  DEF SerialInv, SerialBase, BaseInv, CountInv, RollbackHits
<1>1. CASE PrepareMessage \/ PrepareHandler \/ PrepareSlotBusy
  BY <1>1 DEF PrepareMessage, PrepareHandler, PrepareSkip, PrepareStart,
     FailPreparingRead, FailPreparingJob, RefundJob, Running, Live,
     PrepareSlotBusy, PrepareCheck, PrepareClaimed, MarkPending
<1>2. ASSUME NEW p \in Runners, Enqueue(p) \/ EnqueueError(p)
      PROVE  UNCHANGED <<rows, tasks>>
  BY <1>0, <1>2 DEF Enqueue, EnqueueError, EnqueueChunk, RefundEnqueue,
     RefundJob, Running, Live, RestoreFlag, RestorePaused, EnqueueFails
<1>3. ASSUME NEW c \in Clients, Request(c) \/ Continue(c)
      PROVE  UNCHANGED <<rows, tasks>>
  <2>1. ~DeleteResults(c)
    BY <1>0 DEF DeleteResults, FlagInv, FlagAt
  <2>2. QED
    BY <1>3, <2>1 DEF Request, PauseJob, DeleteJob, RequeueJob, Requests,
       Continue, PauseSetFlag, PauseUpdate, PauseUndo, RequeuePurge,
       RequeueNothing, RequeueRefused, RequeueClearFlag, RequeueDone,
       DropJob, DeleteSetFlag, CancelPaused, CancelRefused, Running, Live
<1>4. ASSUME NEW m \in msgs, WorkerStep(m) \/ WorkerError(m)
      PROVE  UNCHANGED <<rows, tasks>>
  BY <1>4 DEF WorkerStep, WorkerError, SkipChunk, StartChunk, FinishChunk,
     StopChunk, ChunkFails, ReportRefused, DeadLetterLost
<1>5. QED
  BY <1>0, <1>1, <1>2, <1>3, <1>4
  DEF Next, LockExpires, PauseCacheExpires, vars

\* What a handler writes is open, and of a live task.
LEMMA HitsOfTask ==
  ASSUME Serial, SerialInv, TasksKnown, Live, NEW p \in Runners,
         PersistHits(p)
  PROVE  \E c \in DOMAIN tasks : \E hits \in SUBSET Result :
           /\ c \in Unwritten(p) /\ hits \in Outcomes(Hits(p, c))
           /\ PersistHitsOf(p, c, hits)
           /\ FoundOnce(hits, Hits(p, c)) /\ FoundOnce(hits, c \ Recorded)
           /\ proc[p].gen = gen
<1>0. TypeOK /\ RowInv /\ BaseInv
  BY BaseParts DEF SerialInv, SerialBase
<1>1. PICK c \in Unwritten(p) : \E hits \in Outcomes(Hits(p, c)) :
        /\ PersistHitsOf(p, c, hits) /\ hits \in SUBSET Result
  BY <1>0, HitsAreNew
<1>2. PICK hits \in Outcomes(Hits(p, c)) :
        /\ PersistHitsOf(p, c, hits) /\ hits \in SUBSET Result
  BY <1>1
<1>3. proc[p].gen > 0 /\ PlanOpen(p) /\ Answered(p) = Recorded
  BY <1>0, PendingAtWork, BaseParts, AnsweredIsRecorded
  DEF Pending, BaseInv, SoloInv, OpenInv, Solo
<1>4. c \in proc[p].chunks /\ c \notin proc[p].wrote
  BY DEF Unwritten
<1>5. proc[p].gen = gen /\ Hits(p, c) \cap Recorded = {}
  BY <1>3, <1>4 DEF PlanOpen
<1>6. c \in DOMAIN tasks
  BY <1>3, <1>4 DEF TasksKnown
<1>7. FoundOnce(hits, Hits(p, c))
  BY <1>2, OutcomesOnce
<1>8. FoundOnce(hits, c \ Recorded)
  BY <1>5, <1>7 DEF FoundOnce, Hits
<1>9. QED
  BY <1>1, <1>2, <1>5, <1>6, <1>7, <1>8

\* A report that is taken keeps what its task says true.
LEMMA TasksTrueReport ==
  ASSUME TypeOK, RowInv, TasksKnown, TasksTrue, Running, NEW m \in msgs,
         ReportTaskResults(m)
  PROVE  TasksTrue'
<1>1. CASE ~Accepts(m)
  BY <1>1, TaskKept DEF ReportTaskResults, TasksTrue
<1>2. CASE Accepts(m) /\ Fresh(m) = {}
  <2>1. /\ tasks' = [tasks EXCEPT ![m.chunk].status = "processing"]
        /\ rows' = rows
    BY <1>2 DEF ReportTaskResults
  <2>2. ASSUME NEW c \in DOMAIN tasks'
        PROVE  TaskTrue(c)'
    <3>1. c \in DOMAIN tasks /\ TaskTrue(c)
      BY <2>1 DEF TasksTrue
    <3>2. tasks[c] \in [pushed: 0..Cardinality(c), status: TaskStatuses]
      BY <3>1 DEF TypeOK, TasksOK
    <3>3. tasks'[c] = tasks[c] \/ /\ tasks'[c].pushed = tasks[c].pushed
                                  /\ tasks'[c].status = "processing"
      BY <2>1, <3>1, <3>2
    <3>4. QED
      BY <2>1, <3>1, <3>3, TaskKept
  <2>3. QED
    BY <2>2 DEF TasksTrue
<1>3. CASE Accepts(m) /\ Fresh(m) # {}
  <2>1. /\ rows' = rows \cup RowsFor(Fresh(m), gen, "worker")
        /\ tasks' = [tasks EXCEPT ![m.chunk] =
                       TaskAfter(m.chunk, Cardinality(Fresh(m)))]
        /\ m.chunk \in DOMAIN tasks
    BY <1>3 DEF ReportTaskResults, Accepts
  <2>2. Fresh(m) \in SUBSET Result
    BY FreshIsNew
  <2>3. FoundOnce(Fresh(m), m.chunk \ Recorded)
    BY DEF RowInv, MessagesKnown, FoundOnce, Fresh, TasksKnown
  <2>4. ASSUME NEW c \in DOMAIN tasks'
        PROVE  TaskTrue(c)'
    <3>1. c \in DOMAIN tasks /\ TaskTrue(c)
      BY <2>1 DEF TasksTrue
    <3>2. CASE c = m.chunk
      BY <2>1, <2>2, <2>3, <3>1, <3>2, TaskGrows
    <3>3. CASE c # m.chunk
      BY <2>1, <3>1, <3>3, TaskKept
    <3>4. QED
      BY <3>2, <3>3
  <2>5. QED
    BY <2>4 DEF TasksTrue
<1>4. QED
  BY <1>1, <1>2, <1>3

\* No step completes a task early or counts a result twice.
LEMMA TasksTrueStep ==
  ASSUME Serial, SerialInv, TasksKnown, TasksTrue, [Next]_vars
  PROVE  TasksTrue'
<1>0. TypeOK /\ RowInv /\ BaseInv
  BY BaseParts DEF SerialInv, SerialBase
<1> SUFFICES ASSUME Running' PROVE TasksTrue'
  BY DEF TasksTrue
<1>1. CASE PrepareTasks \/ \E c \in Clients : RequeueTasks(c)
  <2>1. PICK cut : tasks' = NewTasks(cut) /\ cut \in Cuts(Remaining)
    BY <1>1, PlanningStep DEF NewPlan
  <2>2. DOMAIN tasks' = cut /\ cut \subseteq SUBSET Emails
    BY <2>1 DEF NewTasks, Cuts, Remaining
  <2>3. ASSUME NEW c \in DOMAIN tasks'
        PROVE  TaskTrue(c)'
    <3>1. tasks'[c].pushed = 0 /\ tasks'[c].status = "queued"
      BY <2>1 DEF NewTasks
    <3>2. c \in SUBSET Emails
      BY <2>2
    <3>3. Cardinality(c \cap Recorded') \in Nat
      BY <3>2, SubsetsCount
    <3>4. QED
      BY <3>1, <3>3 DEF TaskTrue
  <2>4. QED
    BY <2>3 DEF TasksTrue
<1>2. CASE ~PrepareTasks /\ \A c \in Clients : ~RequeueTasks(c)
  <2>1. Running /\ Live
    BY <1>2, RunningBefore DEF Running, Live
  <2>2. ASSUME NEW m \in msgs, Report(m) \/ ReportUnanswered(m)
        PROVE  TasksTrue'
    BY <1>0, <2>1, <2>2, TasksTrueReport DEF Report, ReportUnanswered
  <2>3. ASSUME NEW p \in Runners, PersistHits(p)
        PROVE  TasksTrue'
    <3>1. PICK c \in DOMAIN tasks : \E hits \in SUBSET Result :
            /\ PersistHitsOf(p, c, hits) /\ FoundOnce(hits, c \ Recorded)
            /\ proc[p].gen = gen
      BY <2>1, <2>3, HitsOfTask
    <3>2. PICK hits \in SUBSET Result :
            /\ PersistHitsOf(p, c, hits) /\ FoundOnce(hits, c \ Recorded)
            /\ proc[p].gen = gen
      BY <3>1
    <3>3. /\ rows' = rows \cup RowsFor(hits, proc[p].gen, "cache")
          /\ tasks' = [tasks EXCEPT ![c] = TaskAfter(c, Cardinality(hits))]
      BY <3>2 DEF PersistHitsOf
    <3>4. ASSUME NEW d \in DOMAIN tasks'
          PROVE  TaskTrue(d)'
      <4>1. d \in DOMAIN tasks /\ TaskTrue(d)
        BY <2>1, <3>3 DEF TasksTrue
      <4>2. CASE d = c
        BY <1>0, <3>2, <3>3, <4>1, <4>2, TaskGrows
      <4>3. CASE d # c
        BY <1>0, <3>3, <4>1, <4>3, TaskKept
      <4>4. QED
        BY <4>2, <4>3
    <3>5. QED
      BY <3>4 DEF TasksTrue
  <2>4. CASE /\ \A p \in Runners : ~PersistHits(p)
             /\ \A m \in msgs : ~Report(m) /\ ~ReportUnanswered(m)
    <3>1. UNCHANGED <<rows, tasks>>
      BY <1>2, <2>1, <2>4, OthersLeaveTasks
    <3>2. QED
      BY <1>0, <2>1, <3>1, TaskKept DEF TasksTrue
  <2>5. QED
    BY <2>2, <2>3, <2>4
<1>3. QED
  BY <1>1, <1>2

-----------------------------------------------------------------------------
(* No step drops an open address.                                          *)

\* A verification of some addresses has a result for each of them.
LEMMA OutcomesCover ==
  ASSUME NEW S, NEW found \in Outcomes(S), NEW e \in S
  PROVE  \E f \in found : f.email = e
<1>1. PICK w \in [S -> Verdicts] :
        found = {[email |-> x, verdict |-> w[x]] : x \in S}
  BY DEF Outcomes
<1> DEFINE result(x) == [email |-> x, verdict |-> w[x]]
<1>2. result(e) \in found
  BY <1>1
<1>3. result(e).email = e
  OBVIOUS
<1> HIDE DEF result
<1>4. QED
  BY <1>2, <1>3

\* Its rows are rows of the same addresses.
LEMMA RowsForRecords ==
  ASSUME NEW found, NEW g, NEW by, NEW f \in found,
         RowsFor(found, g, by) \subseteq rows'
  PROVE  f.email \in Recorded'
<1> DEFINE row == [email |-> f.email, verdict |-> f.verdict,
                   gen |-> g, by |-> by]
<1>1. row \in RowsFor(found, g, by) /\ row.email = f.email
  BY DEF RowsFor
<1> HIDE DEF row
<1>2. QED
  BY <1>1 DEF Recorded

\* The part of a handler's plan that is left for one address.
PlannedBy(p, e) ==
  \E c \in proc[p].chunks : \/ c \notin proc[p].sent /\ e \in Misses(p, c)
                            \/ c \notin proc[p].wrote /\ e \in Hits(p, c)

\* Only the handler at work plans anything.
LEMMA PlannedByOne ==
  ASSUME Serial, BaseInv, NEW p \in Runners, proc[p].step # "idle", NEW e
  PROVE  Planned(e) <=> PlannedBy(p, e)
<1>1. \A q \in Runners \ {p} : NoPlan(proc[q])
  BY OnlyOneAtWork
<1>2. QED
  BY <1>1 DEF Planned, PlannedBy, NoPlan

\* At rest nothing is planned: all must be on its way.
LEMMA PlannedByNone ==
  ASSUME BaseInv, \A p \in Runners : proc[p].step = "idle", NEW e
  PROVE  ~Planned(e)
<1>1. \A p \in Runners : NoPlan(proc[p])
  BY BaseParts, IdleHasNoPlan
<1>2. QED
  BY <1>1 DEF Planned, NoPlan

\* What looks at none of this keeps it.
LEMMA CoveredSame ==
  ASSUME Covered, UNCHANGED <<status, gen, rows, flag, proc, msgs>>
  PROVE  Covered'
<1>1. \A e : InHand(e)' <=> InHand(e)
  BY DEF InHand, Planned, Carried, Pausing, Misses, Hits
<1>2. Remaining' = Remaining
  BY DEF Remaining, Recorded
<1>3. QED
  BY <1>1, <1>2 DEF Covered, Running, GivingUp, BeforeTasks

\* Chunks are sent under a clear flag.
LEMMA EnqueueUnflagged ==
  ASSUME SerialInv, Running, NEW p \in Runners, proc[p].step = "enqueue"
  PROVE  ~flag
<1>1. CASE p = Preparer
  <2>1. \A c \in Clients : proc[c].step = "idle"
    BY <1>1, BaseParts DEF SerialInv, SerialBase, TurnInv, TakeTurns
  <2>2. QED
    BY <2>1 DEF SerialInv, FlagInv, FlagAt
<1>2. CASE p # Preparer
  BY <1>2 DEF Runners, SerialInv, FlagInv, FlagAt
<1>3. QED
  BY <1>1, <1>2

\* A handler that enqueues: nothing has been given up.
LEMMA EnqueueCovers ==
  ASSUME Serial, SerialInv, Covered, Running, NEW p \in Runners,
         proc[p].step \in {"enqueue", "clearFlag"}
  PROVE  /\ ~GivingUp
         /\ \A e \in Remaining : PlannedBy(p, e) \/ (~flag /\ Carried(e))
<1>0. BaseInv /\ PrepInv /\ Preparer \in Runners /\ Clients \subseteq Runners
  BY RunnersDiffer DEF SerialInv, SerialBase, BaseInv
<1>1. \A q \in Runners \ {p} : proc[q].step = "idle"
  BY <1>0, OnlyOneAtWork
<1>2. ~GivingUp /\ ~Pausing
  BY <1>0, <1>1 DEF GivingUp, Pausing
<1>3. ~BeforeTasks
  BY <1>0 DEF BeforeTasks, PrepInv, Runners
<1>4. QED
  BY <1>0, <1>2, <1>3, PlannedByOne DEF Covered, InHand

\* A plan that has been carried out.
LEMMA PlanDone ==
  ASSUME Serial, SerialInv, Covered, Running, NEW p \in Runners,
         proc[p].step = "enqueue", Unsent(p) = {}, Unwritten(p) = {},
         UNCHANGED <<gen, rows, flag, msgs>>
  PROVE  Covered'
<1>1. ~flag
  BY EnqueueUnflagged
<1>2. \A e : ~PlannedBy(p, e)
  BY DEF PlannedBy, Unsent, Unwritten
<1>3. \A e \in Remaining : Carried(e)
  BY <1>2, EnqueueCovers
<1>4. \A e \in Remaining' : Carried(e)'
  BY <1>3 DEF Remaining, Recorded, Carried
<1>5. QED
  BY <1>1, <1>4 DEF Covered, InHand

\* A new plan holds every address that is still open.
LEMMA NewPlanCovers ==
  ASSUME TypeOK, NEW p \in Runners, NEW step, NEW charge,
         NEW cut \in Cuts(Remaining), NEW hits,
         NewPlan(p, step, charge, cut, hits)
  PROVE  Covered'
<1>1. Remaining' = Remaining /\ UNION cut = Remaining
  BY DEF NewPlan, Remaining, Recorded, Cuts
<1>2. proc'[p] = Working(step, gen + 1, charge, cut, hits)
  BY DEF NewPlan, TypeOK
<1>3. /\ proc'[p].chunks = cut /\ proc'[p].hits = hits
      /\ proc'[p].sent = {} /\ proc'[p].wrote = {}
  BY <1>2 DEF Working
<1>4. ASSUME NEW e \in Remaining'
      PROVE  Planned(e)'
  <2>1. PICK c \in cut : e \in c
    BY <1>1
  <2>2. e \in Misses(p, c)' \/ e \in Hits(p, c)'
    BY <1>3, <2>1 DEF Misses, Hits
  <2>3. QED
    BY <1>3, <2>1, <2>2 DEF Planned
<1>5. QED
  BY <1>4 DEF Covered, InHand

\* Prepare begins, ends without work, or has carried its plan out.
LEMMA CoveredPrepare ==
  ASSUME Serial, SerialInv, Covered, ~PrepareTasks,
         PrepareMessage \/ PrepareHandler \/ PrepareSlotBusy
  PROVE  Covered'
<1>0. /\ BaseInv /\ PrepInv /\ TypeOK /\ Preparer \in Runners
  BY BaseParts DEF SerialInv, SerialBase, BaseInv
<1>1. CASE PrepareSkip \/ FailPreparingRead \/ PrepareSlotBusy
  BY <1>1, CoveredSame
  DEF PrepareSkip, FailPreparingRead, PrepareSlotBusy, jobVars
<1>2. CASE PrepareStart \/ PrepareCheck
  <2>1. /\ proc'[Preparer].step \in {"loaded", "checked"}
        /\ status' = "preparing"
    BY <1>0, <1>2, StepAfter DEF PrepareStart, PrepareCheck, jobVars
  <2>2. QED
    BY <2>1 DEF Covered, BeforeTasks
<1>3. CASE FailPreparingJob
  BY <1>3 DEF FailPreparingJob, RefundJob, Live, Covered, Running
<1>4. CASE PrepareClaimed
  BY <1>0, <1>4 DEF PrepareClaimed, PrepInv
<1>5. CASE MarkPending
  <2>1. CASE Running
    BY <1>0, <1>5, <2>1, PlanDone DEF MarkPending
  <2>2. CASE ~Running
    BY <1>5, <2>2 DEF MarkPending, Running, Covered
  <2>3. QED
    BY <2>1, <2>2
<1>6. QED
  BY <1>1, <1>2, <1>3, <1>4, <1>5 DEF PrepareMessage, PrepareHandler

\* What is sent is no longer planned, but carried.
LEMMA CoveredSend ==
  ASSUME Serial, SerialInv, Covered, NEW p \in Runners, EnqueueChunk(p),
         Running
  PROVE  Covered'
<1>0. /\ BaseInv /\ TypeOK
  BY BaseParts DEF SerialInv, SerialBase, BaseInv
<1>1. PICK c \in Unsent(p) :
        /\ msgs' = msgs \cup {[gen |-> proc[p].gen, chunk |-> c,
                               emails |-> Misses(p, c), retried |-> 0,
                               phase |-> "pending", found |-> {}]}
        /\ proc' = [proc EXCEPT ![p].sent = @ \cup {c}]
  BY DEF EnqueueChunk
<1>2. proc[p].step = "enqueue" /\ UNCHANGED <<gen, rows, flag>>
  BY DEF EnqueueChunk
<1>3. proc[p].gen = gen
  BY <1>0, PendingAtWork, BaseParts
  DEF Pending, SoloInv, OpenInv, Solo, PlanOpen
<1>4. /\ proc'[p].chunks = proc[p].chunks /\ proc'[p].hits = proc[p].hits
      /\ proc'[p].sent = proc[p].sent \cup {c}
      /\ proc'[p].wrote = proc[p].wrote
  BY <1>0, <1>1 DEF TypeOK, Proc
<1>5. \A d : Misses(p, d)' = Misses(p, d) /\ Hits(p, d)' = Hits(p, d)
  BY <1>4 DEF Misses, Hits
<1>6. ~flag' /\ \A e \in Remaining : PlannedBy(p, e) \/ Carried(e)
  BY <1>2, EnqueueUnflagged, EnqueueCovers
<1>7. ASSUME NEW e, PlannedBy(p, e)
      PROVE  Planned(e)' \/ Carried(e)'
  <2>1. PICK d \in proc[p].chunks :
          \/ d \notin proc[p].sent /\ e \in Misses(p, d)
          \/ d \notin proc[p].wrote /\ e \in Hits(p, d)
    BY <1>7 DEF PlannedBy
  <2>2. CASE d = c /\ e \in Misses(p, d)
    <3> DEFINE m == [gen |-> proc[p].gen, chunk |-> c,
                     emails |-> Misses(p, c), retried |-> 0,
                     phase |-> "pending", found |-> {}]
    <3>1. /\ m \in msgs' /\ m.gen = gen' /\ e \in m.emails
          /\ m.phase = "pending"
      BY <1>1, <1>2, <1>3, <2>2
    <3> HIDE DEF m
    <3>2. QED
      BY <3>1 DEF Carried
  <2>3. CASE ~(d = c /\ e \in Misses(p, d))
    BY <1>4, <1>5, <2>1, <2>3 DEF Planned
  <2>4. QED
    BY <2>2, <2>3
<1>8. \A e : Carried(e) => Carried(e)'
  BY <1>1, <1>2 DEF Carried
<1>9. Remaining' = Remaining
  BY <1>2 DEF Remaining, Recorded
<1>10. QED
  BY <1>6, <1>7, <1>8, <1>9 DEF Covered, InHand

\* What is answered is no longer open.
LEMMA CoveredWrite ==
  ASSUME Serial, SerialInv, Covered, TasksKnown, NEW p \in Runners,
         PersistHits(p), Running
  PROVE  Covered'
<1>0. /\ BaseInv /\ TypeOK
  BY BaseParts DEF SerialInv, SerialBase, BaseInv
<1>1. PICK c \in DOMAIN tasks : \E hits \in SUBSET Result :
        /\ c \in Unwritten(p) /\ hits \in Outcomes(Hits(p, c))
        /\ PersistHitsOf(p, c, hits)
  BY HitsOfTask DEF Running, Live
<1>2. PICK hits \in SUBSET Result :
        /\ c \in Unwritten(p) /\ hits \in Outcomes(Hits(p, c))
        /\ PersistHitsOf(p, c, hits)
  BY <1>1
<1>3. /\ rows' = rows \cup RowsFor(hits, proc[p].gen, "cache")
      /\ proc' = [proc EXCEPT ![p].wrote = @ \cup {c}]
  BY <1>2 DEF PersistHitsOf
<1>4. proc[p].step = "enqueue" /\ UNCHANGED <<gen, msgs, flag>>
      /\ Unsent(p) = {}
  BY DEF PersistHits
<1>5. /\ proc'[p].chunks = proc[p].chunks /\ proc'[p].hits = proc[p].hits
      /\ proc'[p].sent = proc[p].sent
      /\ proc'[p].wrote = proc[p].wrote \cup {c}
  BY <1>0, <1>3 DEF TypeOK, Proc
<1>6. \A d : Misses(p, d)' = Misses(p, d) /\ Hits(p, d)' = Hits(p, d)
  BY <1>5 DEF Misses, Hits
<1>7. Recorded \cup Hits(p, c) \subseteq Recorded'
  <2>1. ASSUME NEW e \in Hits(p, c)
        PROVE  e \in Recorded'
    <3>1. PICK f \in hits : f.email = e
      BY <1>2, OutcomesCover
    <3>2. f.email \in Recorded'
      BY <1>3, <3>1, RowsForRecords
    <3>3. QED
      BY <3>1, <3>2
  <2>2. QED
    BY <1>3, <2>1 DEF Recorded
<1>8. ~flag' /\ \A e \in Remaining : PlannedBy(p, e) \/ Carried(e)
  BY <1>4, EnqueueUnflagged, EnqueueCovers
<1>9. ASSUME NEW e \in Remaining', PlannedBy(p, e)
      PROVE  Planned(e)'
  <2>1. PICK d \in proc[p].chunks :
          \/ d \notin proc[p].sent /\ e \in Misses(p, d)
          \/ d \notin proc[p].wrote /\ e \in Hits(p, d)
    BY <1>9 DEF PlannedBy
  <2>2. ~(d = c /\ e \in Hits(p, d))
    BY <1>7, <1>9 DEF Remaining
  <2>3. QED
    BY <1>5, <1>6, <2>1, <2>2 DEF Planned
<1>10. \A e : Carried(e) => Carried(e)'
  BY <1>4 DEF Carried
<1>11. Remaining' \subseteq Remaining
  BY <1>7 DEF Remaining
<1>12. QED
  BY <1>8, <1>9, <1>10, <1>11 DEF Covered, InHand

\* An enqueue that fails gives up; one that works keeps its promise.
LEMMA CoveredRunner ==
  ASSUME Serial, SerialInv, Covered, TasksKnown, NEW p \in Runners,
         Enqueue(p) \/ EnqueueError(p), ~PersistHitsFail(p),
         Running' => Running
  PROVE  Covered'
<1>0. TypeOK /\ ~RollbackHits(p)
  BY BaseParts DEF SerialInv, SerialBase, RollbackHits
<1> SUFFICES ASSUME Running', Running PROVE Covered'
  BY DEF Covered
<1>1. CASE EnqueueChunk(p) \/ PersistHits(p)
  BY <1>1, CoveredSend, CoveredWrite
<1>2. CASE EnqueueFails(p) \/ RestoreFlag(p)
  <2>1. proc'[p].step \in {"refund", "restoreFlag", "restore"}
    BY <1>0, <1>2, StepAfter DEF EnqueueFails, RestoreFlag
  <2>2. QED
    BY <2>1 DEF Covered, GivingUp
<1>3. CASE RefundEnqueue(p) \/ RestorePaused(p)
  BY <1>3 DEF RefundEnqueue, RefundJob, RestorePaused, Running, Live
<1>4. QED
  BY <1>0, <1>1, <1>2, <1>3 DEF Enqueue, EnqueueError

\* A handler that only moves on to its next step keeps its plan.
LEMMA GotoKeeps ==
  ASSUME TypeOK, NEW p \in Runners, NEW s, Goto(p, s),
         UNCHANGED <<gen, rows, msgs>>
  PROVE  /\ \A e : (Planned(e)' <=> Planned(e)) /\ (Carried(e)' <=> Carried(e))
         /\ Remaining' = Remaining
<1>1. \A q \in Runners : SamePlan(proc'[q], proc[q])
  BY DEF TypeOK, Proc, Goto, SamePlan
<1>2. \A q \in Runners : \A d : /\ Misses(q, d)' = Misses(q, d)
                                /\ Hits(q, d)' = Hits(q, d)
  BY <1>1 DEF Misses, Hits, SamePlan
<1>3. \A e : Planned(e)' <=> Planned(e)
  BY <1>1, <1>2 DEF Planned, SamePlan
<1>4. \A e : Carried(e)' <=> Carried(e)
  BY DEF Carried
<1>5. QED
  BY <1>3, <1>4 DEF Remaining, Recorded

\* A pause of a running job: nothing was in the way of its chunks.
LEMMA CoveredPauseJob ==
  ASSUME Serial, SerialInv, Covered, NEW c \in Clients, PauseJob(c)
  PROVE  Covered'
<1>0. TypeOK /\ c \in Runners /\ Preparer \notin Clients
  BY BaseParts DEF SerialInv, SerialBase
<1>1. /\ Goto(c, "setFlag") /\ proc[c].step = "idle" /\ Running
      /\ UNCHANGED <<status, flag, gen, rows, msgs>>
  BY DEF PauseJob, Requests, jobVars, Running
<1>2. ~flag
  <2>1. \A d \in Clients : d = c
    BY DEF Serial
  <2>2. FlagAt("idle")
    BY <1>1, <2>1 DEF SerialInv, FlagInv
  <2>3. QED
    BY <1>1, <2>2 DEF FlagAt
<1>3. \A q \in Runners \ {c} : proc'[q] = proc[q]
  BY <1>0, <1>1, StepAfter
<1>4. GivingUp => GivingUp'
  BY <1>1, <1>3 DEF GivingUp
<1>5. BeforeTasks => BeforeTasks'
  BY <1>0, <1>1, <1>3 DEF BeforeTasks, Runners
<1>6. QED
  BY <1>0, <1>1, <1>2, <1>4, <1>5, GotoKeeps DEF Covered, InHand

\* Chunks that waited for the flag to be cleared are still planned.
LEMMA CoveredClearFlag ==
  ASSUME Serial, SerialInv, Covered, NEW c \in Clients, RequeueClearFlag(c),
         Running
  PROVE  Covered'
<1>0. TypeOK /\ BaseInv /\ c \in Runners
  BY BaseParts DEF SerialInv, SerialBase
<1>1. /\ Goto(c, "enqueue") /\ proc[c].step = "clearFlag" /\ ~flag'
      /\ UNCHANGED <<gen, rows, msgs>>
  BY DEF RequeueClearFlag
<1>2. \A e \in Remaining : PlannedBy(c, e) \/ Carried(e)
  BY <1>0, <1>1, EnqueueCovers
<1>3. \A e \in Remaining : Planned(e) \/ Carried(e)
  BY <1>0, <1>1, <1>2, PlannedByOne
<1>4. QED
  BY <1>0, <1>1, <1>3, GotoKeeps DEF Covered, InHand

\* Requests touch a running job in three ways: pause, flag and end.
LEMMA CoveredClient ==
  ASSUME Serial, SerialInv, Covered, NEW c \in Clients,
         Request(c) \/ Continue(c), ~RequeueTasks(c), Running' => Running
  PROVE  Covered'
<1>0. /\ BaseInv /\ TypeOK /\ PrepInv /\ c \in Runners
      /\ FlagAt(proc[c].step)
  BY BaseParts DEF SerialInv, SerialBase, BaseInv, FlagInv
<1> SUFFICES ASSUME Running', Running PROVE Covered'
  BY DEF Covered
<1>1. CASE Request(c)
  <2>1. CASE PauseJob(c)
    BY <2>1, CoveredPauseJob
  <2>2. CASE DeleteJob(c) \/ \E charge \in BOOLEAN : RequeueJob(c, charge)
    BY <2>2 DEF DeleteJob, RequeueJob, Running
  <2>3. QED
    BY <1>1, <2>1, <2>2 DEF Request
<1>2. CASE PauseSetFlag(c)
  <2>1. flag' /\ proc'[c].step = "pause"
    BY <1>0, <1>2, StepAfter DEF PauseSetFlag
  <2>2. QED
    BY <2>1 DEF Covered, InHand, Pausing
<1>3. CASE PauseUpdate(c)
  BY <1>0, <1>3 DEF PauseUpdate, PrepInv, Running
<1>4. CASE RequeueClearFlag(c)
  BY <1>4, CoveredClearFlag
<1>5. CASE RequeueDone(c)
  BY <1>0, <1>5, PlanDone DEF RequeueDone
<1>6. CASE \/ PauseUndo(c) \/ RequeuePurge(c) \/ RequeueNothing(c)
           \/ RequeueRefused(c) \/ DeleteResults(c) \/ DropJob(c)
           \/ DeleteSetFlag(c) \/ CancelPaused(c) \/ CancelRefused(c)
  <2>1. proc[c].step \in {"unpause", "purge", "requeue", "wipe", "drop",
                          "stop", "cancel"}
    BY <1>6 DEF PauseUndo, RequeuePurge, RequeueNothing, RequeueRefused,
       DeleteResults, DropJob, DeleteSetFlag, CancelPaused, CancelRefused
  <2>2. QED
    BY <1>0, <2>1 DEF FlagAt
<1>7. QED
  BY <1>1, <1>2, <1>3, <1>4, <1>5, <1>6 DEF Continue

\* What is on its way with a result stays so when the message moves on.
LEMMA MovesOn ==
  ASSUME NEW m, NEW e \in m.emails, m.gen = gen, gen' = gen, NEW phase,
         NEW retried, NEW found, At(m, phase, retried, found) \in msgs',
         phase \in {"post", "dead"} => \E f \in found : f.email = e
  PROVE  Carried(e)'
<1> DEFINE x == At(m, phase, retried, found)
<1>1. /\ x.gen = m.gen /\ x.emails = m.emails
      /\ x.phase = phase /\ x.found = found /\ x \in msgs'
  BY DEF At
<1> HIDE DEF x
<1>2. QED
  BY <1>1 DEF Carried

\* After a failure too: the dead-letter report names every address.
LEMMA FailedMovesOn ==
  ASSUME NEW m, NEW e \in m.emails, m.gen = gen, gen' = gen,
         Failed(m) \in msgs'
  PROVE  Carried(e)'
<1> DEFINE unknown(x) == [email |-> x, verdict |-> "unknown"]
<1>1. CASE m.retried < ChunkRetries
  <2>1. At(m, "pending", m.retried + 1, {}) \in msgs'
    BY <1>1 DEF Failed
  <2>2. QED
    BY <2>1, MovesOn
<1>2. CASE ~(m.retried < ChunkRetries)
  <2>1. At(m, "dead", m.retried, {unknown(x) : x \in m.emails}) \in msgs'
    BY <1>2 DEF Failed
  <2>2. unknown(e).email = e
    OBVIOUS
  <2> HIDE DEF unknown
  <2>3. \E f \in {unknown(x) : x \in m.emails} : f.email = e
    BY <2>2
  <2>4. QED
    BY <2>1, <2>3, MovesOn
<1>3. QED
  BY <1>1, <1>2

\* A report records what it carries: its task is there and takes it.
LEMMA ReportRecords ==
  ASSUME TypeOK, TasksKnown, TasksTrue, Running, NEW m \in msgs,
         ReportTaskResults(m), m.gen = gen, NEW f \in m.found,
         f.email \in m.emails
  PROVE  f.email \in Recorded'
<1>1. CASE f.email \in Recorded
  <2>1. rows \subseteq rows'
    BY DEF ReportTaskResults
  <2>2. QED
    BY <1>1, <2>1 DEF Recorded
<1>2. CASE f.email \notin Recorded
  <2>1. m.chunk \in DOMAIN tasks /\ f.email \in m.chunk
    BY DEF TasksKnown, Running, Live
  <2>2. tasks[m.chunk].status \in TaskStatuses
    BY <2>1 DEF TypeOK, TasksOK
  <2>3. tasks[m.chunk].status \in {"queued", "processing"}
    BY <1>2, <2>1, <2>2 DEF TasksTrue, TaskTrue, TaskStatuses
  <2>4. Accepts(m) /\ f \in Fresh(m)
    BY <1>2, <2>1, <2>3 DEF Accepts, Running, Fresh
  <2>5. RowsFor(Fresh(m), gen, "worker") \subseteq rows'
    BY <2>4 DEF ReportTaskResults
  <2>6. QED
    BY <2>4, <2>5, RowsForRecords
<1>3. QED
  BY <1>1, <1>2

\* A chunk goes from step to step, and its report is taken.
LEMMA CoveredWorker ==
  ASSUME SerialInv, Covered, TasksKnown, TasksTrue, NEW m \in msgs,
         WorkerStep(m) \/ WorkerError(m), ~DeadLetterLost(m),
         ReportRefused(m) => m.retried >= ChunkRetries,
         SkipChunk(m) \/ StopChunk(m) => flag, Running' => Running
  PROVE  Covered'
<1>0. TypeOK /\ RowInv /\ PrepInv
  BY BaseParts DEF SerialInv, SerialBase, BaseInv
<1>1. UNCHANGED <<proc, gen>>
  BY WorkerLocal
<1> SUFFICES ASSUME Running', Running, ~GivingUp', NEW e \in Remaining'
             PROVE  InHand(e)'
  BY DEF Covered
<1>2. rows \subseteq rows' /\ flag' = flag /\ msgs \ {m} \subseteq msgs'
  BY DEF WorkerStep, WorkerError, SkipChunk, StartChunk, FinishChunk,
     StopChunk, Report, ReportUnanswered, ReportTaskResults, ChunkFails,
     ReportRefused, DeadLetterLost, Running
<1>3. e \in Remaining /\ InHand(e)
  <2>1. e \in Remaining
    BY <1>2 DEF Remaining, Recorded
  <2>2. ~GivingUp /\ ~BeforeTasks
    BY <1>0, <1>1 DEF GivingUp, BeforeTasks, PrepInv
  <2>3. QED
    BY <2>1, <2>2 DEF Covered
<1>4. Planned(e) => Planned(e)'
  BY <1>1 DEF Planned, Misses, Hits
<1>5. CASE Planned(e) \/ flag
  BY <1>1, <1>2, <1>3, <1>4, <1>5 DEF InHand, Pausing
<1>6. CASE ~Planned(e) /\ ~flag
  <2>1. PICK x \in msgs : /\ x.gen = gen /\ e \in x.emails
                          /\ x.phase \in {"post", "dead"} =>
                               \E f \in x.found : f.email = e
    BY <1>3, <1>6 DEF InHand, Carried
  <2>2. CASE x # m
    <3>1. x \in msgs'
      BY <1>2, <2>2
    <3>2. Carried(e)'
      BY <1>1, <2>1, <3>1 DEF Carried
    <3>3. QED
      BY <1>2, <1>6, <3>2 DEF InHand
  <2>3. CASE x = m
    <3>1. CASE SkipChunk(m) \/ StopChunk(m)
      BY <1>6, <3>1
    <3>2. CASE StartChunk(m)
      <4>1. At(m, "active", m.retried, {}) \in msgs'
        BY <3>2 DEF StartChunk
      <4>2. Carried(e)'
        BY <1>1, <2>1, <2>3, <4>1, MovesOn
      <4>3. QED
        BY <1>2, <1>6, <4>2 DEF InHand
    <3>3. CASE FinishChunk(m)
      <4>1. PICK found \in Outcomes(m.emails) :
              At(m, "post", m.retried, found) \in msgs'
        BY <3>3 DEF FinishChunk
      <4>2. \E f \in found : f.email = e
        BY <2>1, <2>3, OutcomesCover
      <4>3. Carried(e)'
        BY <1>1, <2>1, <2>3, <4>1, <4>2, MovesOn
      <4>4. QED
        BY <1>2, <1>6, <4>3 DEF InHand
    <3>4. CASE ChunkFails(m) \/ ReportRefused(m)
      <4>1. Failed(m) \in msgs'
        BY <3>4 DEF ChunkFails, ReportRefused
      <4>2. Carried(e)'
        BY <1>1, <2>1, <2>3, <4>1, FailedMovesOn
      <4>3. QED
        BY <1>2, <1>6, <4>2 DEF InHand
    <3>5. CASE Report(m) \/ ReportUnanswered(m)
      <4>1. m.phase \in {"post", "dead"} /\ ReportTaskResults(m)
        BY <3>5 DEF Report, ReportUnanswered
      <4>2. PICK f \in m.found : f.email = e
        BY <2>1, <2>3, <4>1
      <4>3. e \in Recorded'
        BY <1>0, <2>1, <2>3, <4>1, <4>2, ReportRecords
      <4>4. QED
        BY <4>3 DEF Remaining
    <3>6. QED
      BY <3>1, <3>2, <3>3, <3>4, <3>5 DEF WorkerStep, WorkerError
  <2>4. QED
    BY <2>2, <2>3
<1>7. QED
  BY <1>5, <1>6

LEMMA CoveredStep ==
  ASSUME Serial, SerialInv, WorkInv, NoneLost, NoneForgotten, [Next]_vars
  PROVE  Covered'
<1>0. /\ TypeOK /\ ~PrepareTasksFail /\ TasksKnown /\ TasksTrue
      /\ Covered
      /\ \A p \in Runners : ~Crash(p) /\ ~PersistHitsFail(p)
  BY BaseParts, NoLossStep
  DEF SerialInv, SerialBase, BaseInv, CountInv, WorkInv
<1>1. CASE PrepareTasks \/ \E c \in Clients : RequeueTasks(c)
  BY <1>0, <1>1, PlanningStep, NewPlanCovers
<1>2. CASE ~PrepareTasks /\ \A c \in Clients : ~RequeueTasks(c)
  <2>1. Running' => Running
    BY <1>2, RunningBefore
  <2>2. CASE PrepareMessage \/ PrepareHandler \/ PrepareSlotBusy
    BY <1>0, <1>2, <2>2, CoveredPrepare
  <2>3. ASSUME NEW p \in Runners, Enqueue(p) \/ EnqueueError(p)
        PROVE  Covered'
    BY <1>0, <2>1, <2>3, CoveredRunner
  <2>4. ASSUME NEW c \in Clients, Request(c) \/ Continue(c)
        PROVE  Covered'
    BY <1>0, <1>2, <2>1, <2>4, CoveredClient
  <2>5. ASSUME NEW m \in msgs, WorkerStep(m) \/ WorkerError(m)
        PROVE  Covered'
    <3>1. /\ ~DeadLetterLost(m)
          /\ ReportRefused(m) => m.retried >= ChunkRetries
          /\ SkipChunk(m) \/ StopChunk(m) => flag
      BY DEF NoneLost, NoneForgotten
    <3>2. QED
      BY <1>0, <2>1, <2>5, <3>1, CoveredWorker
  <2>6. CASE LockExpires \/ PauseCacheExpires \/ UNCHANGED vars
    BY <1>0, <2>6, CoveredSame
    DEF LockExpires, PauseCacheExpires, vars, jobVars
  <2>7. QED
    BY <1>0, <2>2, <2>3, <2>4, <2>5, <2>6 DEF Next
<1>3. QED
  BY <1>1, <1>2

\* A job that was just accepted waits for its prepare message.
LEMMA WorkInit ==
  ASSUME Init
  PROVE  WorkInv
<1>1. \A p \in Runners : proc[p].step = "idle" /\ proc[p].gen = 0
  BY DEF Init, Idle, Working
<1>2. BeforeTasks
  BY <1>1, RunnersDiffer DEF Init, BeforeTasks
<1>3. DOMAIN tasks = {}
  BY DEF Init, NewTasks
<1>4. QED
  BY <1>1, <1>2, <1>3 DEF Init, WorkInv, PrepareKnown, TasksKnown, TasksTrue,
     Covered

\* At rest all that is open is on its way, and something is open.
LEMMA WorkAtRest ==
  ASSUME SerialInv, WorkInv
  PROVE  WorkInFlight
<1>0. /\ BaseInv /\ TypeOK /\ OneRowPerAddress /\ Clients \subseteq Runners
      /\ PrepareKnown /\ Covered
  BY BaseParts DEF SerialInv, SerialBase, WorkInv
<1> SUFFICES ASSUME Running, \A p \in Runners : proc[p].step = "idle",
                    ~(status = "preparing" /\ prep.phase # "gone")
             PROVE  /\ Remaining # {}
                    /\ Remaining \subseteq UNION {m.emails : m \in
                                            {n \in msgs : n.gen = gen}}
  BY DEF WorkInFlight, Running
<1>1. status # "preparing" /\ ~GivingUp /\ ~BeforeTasks /\ ~Dropping
  BY <1>0 DEF PrepareKnown, GivingUp, BeforeTasks, Dropping
<1>2. ~flag
  BY <1>0 DEF SerialInv, FlagInv, FlagAt
<1>3. \A e \in Remaining : Carried(e)
  BY <1>0, <1>1, <1>2, PlannedByNone DEF Covered, InHand
<1>4. Remaining \subseteq UNION {m.emails : m \in {n \in msgs : n.gen = gen}}
  BY <1>3 DEF Carried
<1>5. processed = InvalidSyntax + Cardinality(rows)
  BY <1>0, <1>1 DEF BaseInv, CountInv, Counts, Live, Running
<1>6. processed < Total
  BY DEF SerialInv, ShortInv, OpenStatuses, Running
<1>7. Cardinality(rows) < Cardinality(Emails)
  BY <1>0, <1>5, <1>6, ShortRows, TotalNat, ConstantsAssumption DEF Total
<1>8. QED
  BY <1>0, <1>4, <1>7, ShortRows

\* The invariant of the work in flight is inductive.
LEMMA WorkStep ==
  ASSUME Quietly, SerialInv, WorkInv, NoneLost, NoneForgotten, [Next]_vars
  PROVE  WorkInv'
<1>0. Serial /\ PrepareKnown /\ TasksKnown /\ TasksTrue
  BY DEF Quietly, WorkInv
<1>1. PrepareKnown'
  BY <1>0, PrepareKnownStep
<1>2. TasksKnown'
  BY <1>0, TasksKnownStep
<1>3. TasksTrue'
  BY <1>0, TasksTrueStep
<1>4. Covered'
  BY <1>0, CoveredStep
<1>5. QED
  BY <1>1, <1>2, <1>3, <1>4 DEF WorkInv

(* A running job has a handler at work or a message for every address that *)
(* is still open: whatever requests, failed enqueues, chunk errors, lost   *)
(* answers, stale readings of the flag and late cache hits come between.   *)
(* Only three things end this, and each did in a run: the loss of a        *)
(* dead-letter report, a report refused for good, and a worker that drops  *)
(* a chunk for a pause that is over.                                       *)
THEOREM RunningJobHasWork ==
  ASSUME Quietly
  PROVE  Spec /\ [][NoneLost]_vars /\ [][NoneForgotten]_vars => []WorkInFlight
<1>1. Init => WorkInv
  BY WorkInit
<1>2. SerialInv /\ WorkInv /\ [Next]_vars /\ [NoneLost]_vars
        /\ [NoneForgotten]_vars => WorkInv'
  <2> SUFFICES ASSUME SerialInv, WorkInv, [Next]_vars, [NoneLost]_vars,
                      [NoneForgotten]_vars
               PROVE  WorkInv'
    OBVIOUS
  <2>1. ASSUME UNCHANGED vars PROVE NoneLost /\ NoneForgotten
    <3>1. \A m \in msgs : m \in msgs'
      BY <2>1 DEF vars
    <3>2. \A m \in msgs : ~DeadLetterLost(m) /\ ~SkipChunk(m)
      BY <3>1 DEF DeadLetterLost, SkipChunk
    <3>3. \A m \in msgs : ~StopChunk(m)
      BY <3>1 DEF StopChunk, At
    <3>4. \A m \in msgs : ReportRefused(m) => m.retried >= ChunkRetries
      BY <3>1 DEF ReportRefused
    <3>5. QED
      BY <3>2, <3>3, <3>4 DEF NoneLost, NoneForgotten
  <2>2. QED
    BY <2>1, WorkStep
<1>3. SerialInv /\ WorkInv => WorkInFlight
  BY WorkAtRest
<1>4. QED
  BY SerialInvariant, <1>1, <1>2, <1>3, PTL DEF Spec

-----------------------------------------------------------------------------
(* How many errors it takes to lose a chunk.                               *)

\* What a message has cost the environment so far.
Errors(m) == m.retried + (IF m.phase = "dead" THEN 1 ELSE 0)
ChunkBudget ==
  /\ budget["refused"] = 0
  /\ budget["chunk"] <= Limits["chunk"]
  /\ \A m \in msgs : /\ budget["chunk"] + Errors(m) <= Limits["chunk"]
                     /\ m.phase = "dead" => m.retried >= ChunkRetries

\* A message that costs no more than an earlier one did.
LEMMA BudgetKept ==
  ASSUME TypeOK, ChunkBudget, budget'["refused"] = 0,
         budget'["chunk"] = budget["chunk"],
         \A x \in msgs' : x.retried \in Nat /\ \E m \in msgs :
                           /\ x.retried = m.retried
                           /\ x.phase = "dead" => m.phase = "dead"
  PROVE  ChunkBudget'
<1>0. budget["chunk"] \in Nat /\ Limits["chunk"] \in Nat
  BY LimitsAssumption DEF TypeOK, Events
<1>1. ASSUME NEW x \in msgs', NEW m \in msgs, x.retried = m.retried,
             x.phase = "dead" => m.phase = "dead"
      PROVE  /\ budget["chunk"] + Errors(x) <= Limits["chunk"]
             /\ x.phase = "dead" => x.retried >= ChunkRetries
  <2>1. m.retried \in Nat
    BY DEF TypeOK, Message
  <2>2. QED
    BY <1>0, <1>1, <2>1 DEF ChunkBudget, Errors
<1>2. QED
  BY <1>1 DEF ChunkBudget, Errors

\* Each error of a chunk is paid for from its budget.
LEMMA ChunkBudgetStep ==
  ASSUME TypeOK, TypeOK', ChunkBudget, [Next]_vars
  PROVE  ChunkBudget'
<1>a. budget'["refused"] = 0
  <2>1. "refused" \in Events
    BY DEF Events
  <2>2. QED
    BY <2>1, BudgetFalls DEF ChunkBudget
<1>0. /\ budget["chunk"] \in Nat /\ Limits["chunk"] \in Nat
      /\ ChunkRetries \in Nat /\ \A m \in msgs : m.retried \in Nat
      /\ \A x \in msgs' : x.retried \in Nat
      /\ \A e : e # "chunk" /\ Spend(e) => budget'["chunk"] = budget["chunk"]
  BY LimitsAssumption, ConstantsAssumption
  DEF TypeOK, Events, Message, Spend
<1>1. ASSUME msgs' \subseteq msgs, budget'["chunk"] = budget["chunk"]
      PROVE  ChunkBudget'
  BY <1>a, <1>0, <1>1, BudgetKept
<1>2. CASE PrepareMessage \/ PrepareHandler \/ PrepareSlotBusy
           \/ PrepareTasksFail
  BY <1>0, <1>1, <1>2 DEF PrepareMessage, PrepareHandler, PrepareSkip,
     PrepareStart, FailPreparingRead, FailPreparingJob, PrepareSlotBusy,
     PrepareTasksFail, PrepareTasks, PrepareCheck, PrepareClaimed, MarkPending
<1>3. ASSUME NEW p \in Runners, Enqueue(p) \/ EnqueueError(p) \/ Crash(p)
      PROVE  ChunkBudget'
  <2>1. CASE EnqueueChunk(p)
    <3>1. PICK c \in Unsent(p) :
            msgs' = msgs \cup {[gen |-> proc[p].gen, chunk |-> c,
                                emails |-> Misses(p, c), retried |-> 0,
                                phase |-> "pending", found |-> {}]}
      BY <2>1 DEF EnqueueChunk
    <3>2. budget' = budget
      BY <2>1 DEF EnqueueChunk
    <3>3. \A x \in msgs' : x \in msgs \/ (x.retried = 0 /\ x.phase = "pending")
      BY <3>1
    <3>4. QED
      BY <1>a, <1>0, <3>2, <3>3 DEF ChunkBudget, Errors
  <2>2. CASE ~EnqueueChunk(p)
    BY <1>0, <1>1, <1>3, <2>2 DEF Enqueue, EnqueueError, Crash,
       RollbackHits, RefundEnqueue, RestoreFlag, RestorePaused,
       EnqueueFails, PersistHits, PersistHitsFail
  <2>3. QED
    BY <2>1, <2>2
<1>4. ASSUME NEW c \in Clients, Request(c) \/ Continue(c)
      PROVE  ChunkBudget'
  BY <1>0, <1>1, <1>4 DEF Request, PauseJob, DeleteJob, RequeueJob, Requests,
     Continue, PauseSetFlag, PauseUpdate, PauseUndo, RequeuePurge,
     RequeueTasks, RequeueNothing, RequeueRefused, RequeueClearFlag,
     RequeueDone, DeleteResults, DropJob, DeleteSetFlag, CancelPaused,
     CancelRefused
<1>5. ASSUME NEW m \in msgs, WorkerStep(m)
      PROVE  ChunkBudget'
  <2>1. /\ budget' = budget
        /\ \A x \in msgs' : \/ x \in msgs
                            \/ /\ x.retried = m.retried
                               /\ x.phase # "dead"
    <3>1. CASE SkipChunk(m) \/ Report(m)
      BY <3>1 DEF SkipChunk, Report
    <3>2. CASE StartChunk(m) \/ FinishChunk(m)
      BY <3>2 DEF StartChunk, FinishChunk, At
    <3>3. CASE StopChunk(m)
      BY <3>3 DEF StopChunk, At
    <3>4. QED
      BY <1>5, <3>1, <3>2, <3>3 DEF WorkerStep
  <2>2. QED
    BY <1>a, <1>0, <2>1, BudgetKept
<1>6. ASSUME NEW m \in msgs, WorkerError(m)
      PROVE  ChunkBudget'
  <2>0. ~ReportRefused(m)
    BY DEF ReportRefused, Spend, ChunkBudget
  <2>1. budget["chunk"] > 0 /\ budget'["chunk"] = budget["chunk"] - 1
    BY <1>6, <2>0 DEF WorkerError, ChunkFails, DeadLetterLost,
       ReportUnanswered, Spend, TypeOK, Events
  <2>2. CASE DeadLetterLost(m)
    BY <1>a, <1>0, <2>1, <2>2 DEF DeadLetterLost, ChunkBudget, Errors
  <2>3. CASE ChunkFails(m) \/ ReportUnanswered(m)
    <3>1. msgs' = (msgs \ {m}) \cup {Failed(m)} /\ m.phase # "dead"
      BY <2>3 DEF ChunkFails, ReportUnanswered
    <3>2. \/ Failed(m).retried = m.retried + 1 /\ Failed(m).phase = "pending"
          \/ /\ Failed(m).retried = m.retried /\ Failed(m).phase = "dead"
             /\ m.retried >= ChunkRetries
      BY <1>0 DEF Failed, At
    <3>3. budget["chunk"] + m.retried <= Limits["chunk"]
      BY <1>0, <3>1 DEF ChunkBudget, Errors
    <3>4. ASSUME NEW x \in msgs'
          PROVE  /\ budget'["chunk"] + Errors(x) <= Limits["chunk"]
                 /\ x.phase = "dead" => x.retried >= ChunkRetries
      <4>1. CASE x \in msgs
        BY <1>0, <2>1, <4>1 DEF ChunkBudget, Errors
      <4>2. CASE x = Failed(m)
        BY <1>0, <2>1, <3>2, <3>3, <4>2 DEF Errors
      <4>3. QED
        BY <3>1, <4>1, <4>2
    <3>5. QED
      BY <1>a, <1>0, <2>1, <3>4 DEF ChunkBudget, Errors
  <2>4. QED
    BY <1>6, <2>0, <2>2, <2>3 DEF WorkerError
<1>7. CASE LockExpires \/ PauseCacheExpires \/ UNCHANGED vars
  BY <1>1, <1>7 DEF LockExpires, PauseCacheExpires, vars
<1>8. QED
  BY <1>2, <1>3, <1>4, <1>5, <1>6, <1>7 DEF Next

(* It takes an error for every attempt and one more for the report of the  *)
(* dead letter: fewer leave every open address of a running job with a     *)
(* handler or a message, unless a worker drops a chunk for a pause that is *)
(* over.                                                                   *)
THEOREM FewErrorsLoseNothing ==
  ASSUME Quietly, Limits["refused"] = 0, Limits["chunk"] <= ChunkRetries + 1
  PROVE  Spec /\ [][NoneForgotten]_vars => []WorkInFlight
<1>1. Init => ChunkBudget
  BY LimitsAssumption DEF Init, ChunkBudget, Events
<1>2. TypeOK /\ TypeOK' /\ ChunkBudget /\ [Next]_vars => ChunkBudget'
  BY ChunkBudgetStep
<1>3. TypeOK /\ ChunkBudget => NoneLost
  <2> SUFFICES ASSUME TypeOK, ChunkBudget, NEW m \in msgs
               PROVE  ~DeadLetterLost(m) /\ ~ReportRefused(m)
    BY DEF NoneLost
  <2>1. ~ReportRefused(m)
    BY DEF ReportRefused, Spend, ChunkBudget
  <2>2. ASSUME DeadLetterLost(m)
        PROVE  FALSE
    <3>1. budget["chunk"] > 0 /\ m.phase = "dead"
      BY <2>2 DEF DeadLetterLost, Spend
    <3>2. /\ budget["chunk"] + m.retried + 1 <= Limits["chunk"]
          /\ m.retried >= ChunkRetries /\ m.retried \in Nat
      BY <3>1, LimitsAssumption
      DEF ChunkBudget, Errors, TypeOK, Message, Events
    <3>3. QED
      BY <3>1, <3>2, LimitsAssumption, ConstantsAssumption
      DEF TypeOK, Events
  <2>3. QED
    BY <2>1, <2>2
<1>4. SerialInv => TypeOK
  BY BaseParts DEF SerialInv, SerialBase
<1>5. QED
  BY SerialInvariant, RunningJobHasWork, <1>1, <1>2, <1>3, <1>4, PTL DEF Spec
=============================================================================
