--------------------------- MODULE BulkJobProofs ---------------------------
(***************************************************************************)
(* Proofs about BulkJob, for every list of addresses, every number of      *)
(* concurrent requests and every bound of the environment.                 *)
(***************************************************************************)
EXTENDS BulkJob, FiniteSetTheorems, TLAPS

-----------------------------------------------------------------------------
(* Finite sets: every Cardinality of the model is a natural number.        *)

LEMMA SubsetsCount ==
  ASSUME NEW S \in SUBSET Emails
  PROVE  IsFiniteSet(S) /\ Cardinality(S) \in Nat
  BY ConstantsAssumption, FS_Subset, FS_CardinalityType

LEMMA ResultFinite == IsFiniteSet(Result)
<1> DEFINE V == {"conclusive", "unknown"}
           f == [t \in Emails \X V |-> [email |-> t[1], verdict |-> t[2]]]
<1>1. IsFiniteSet(V)
  <2>1. IsFiniteSet({"conclusive"})
    BY FS_Singleton
  <2>2. V = {"conclusive"} \cup {"unknown"}
    OBVIOUS
  <2>3. QED
    BY <2>1, <2>2, FS_AddElement
<1>2. IsFiniteSet(Emails \X V)
  BY <1>1, ConstantsAssumption, FS_Product
<1>3. f \in Surjection(Emails \X V, Result)
  <2>1. f \in [Emails \X V -> Result]
    BY DEF Result
  <2>2. ASSUME NEW r \in Result
        PROVE  \E t \in Emails \X V : f[t] = r
    <3>1. <<r.email, r.verdict>> \in Emails \X V
      BY DEF Result
    <3>2. f[<<r.email, r.verdict>>] = [email |-> r.email, verdict |-> r.verdict]
      BY <3>1
    <3>3. QED
      BY <3>1, <3>2 DEF Result
  <2>3. QED
    BY <2>1, <2>2 DEF Surjection
<1>4. QED
  BY <1>2, <1>3, FS_Surjection

(* A set of results is finite, and so is the set of rows it becomes.       *)
LEMMA RowsForFinite ==
  ASSUME NEW found \in SUBSET Result, NEW g \in Nat,
         NEW by \in {"cache", "worker"}
  PROVE  /\ IsFiniteSet(found) /\ Cardinality(found) \in Nat
         /\ IsFiniteSet(RowsFor(found, g, by))
         /\ RowsFor(found, g, by) \subseteq Row
<1> DEFINE R == RowsFor(found, g, by)
           h == [x \in found |-> [email |-> x.email, verdict |-> x.verdict,
                                  gen |-> g, by |-> by]]
<1>1. IsFiniteSet(found) /\ Cardinality(found) \in Nat
  BY ResultFinite, FS_Subset, FS_CardinalityType
<1>2. h \in Surjection(found, R)
  BY DEF Surjection, RowsFor
<1>3. IsFiniteSet(R)
  BY <1>1, <1>2, FS_Surjection
<1>4. R \subseteq Row
  BY DEF RowsFor, Row, Result
<1>5. QED
  BY <1>1, <1>3, <1>4

LEMMA UnknownsCount ==
  ASSUME NEW found, IsFiniteSet(found)
  PROVE  Unknowns(found) \in Nat
<1>1. {f \in found : f.verdict = "unknown"} \in SUBSET found
  OBVIOUS
<1>2. QED
  BY <1>1, FS_Subset, FS_CardinalityType DEF Unknowns

(* What a verification may conclude is a set of results, for addresses of  *)
(* the chunk only.                                                         *)
LEMMA OutcomesType ==
  ASSUME NEW S \in SUBSET Emails, NEW found \in Outcomes(S)
  PROVE  /\ found \in SUBSET Result
         /\ \A f \in found : f.email \in S
<1>1. PICK f \in [S -> Verdicts] :
         found = {[email |-> e, verdict |-> f[e]] : e \in S}
  BY DEF Outcomes
<1>2. \A e \in S : [email |-> e, verdict |-> f[e]] \in Result
  BY <1>1, ConstantsAssumption DEF Result
<1>3. QED
  BY <1>1, <1>2

-----------------------------------------------------------------------------
(* The parts an action replaces keep their types.                          *)

LEMMA GotoType ==
  ASSUME TypeOK, NEW p \in Runners, NEW s \in ProcSteps, Goto(p, s)
  PROVE  proc' \in [Runners -> Proc]
  BY DEF TypeOK, Goto, Proc

LEMMA FinishType ==
  ASSUME TypeOK, NEW p \in Runners, Finish(p)
  PROVE  proc' \in [Runners -> Proc]
  BY DEF TypeOK, Finish, Idle, Working, Proc, ProcSteps

LEMMA SpendType ==
  ASSUME TypeOK, NEW e \in Events, Spend(e)
  PROVE  budget' \in [Events -> Nat]
  BY DEF TypeOK, Spend

LEMMA PrepareFailedType ==
  ASSUME TypeOK, PrepareFailed
  PROVE  prep' \in [phase: PrepPhases, retried: 0..PrepareRetries]
  BY ConstantsAssumption DEF TypeOK, PrepareFailed, PrepPhases

LEMMA PrepareDoneType ==
  ASSUME TypeOK, PrepareDone
  PROVE  prep' \in [phase: PrepPhases, retried: 0..PrepareRetries]
  BY ConstantsAssumption DEF TypeOK, PrepareDone, PrepPhases

LEMMA NewTasksType ==
  ASSUME NEW cut \in SUBSET Chunks, tasks' = NewTasks(cut)
  PROVE  TasksOK'
<1>1. \A c \in cut : Cardinality(c) \in Nat
  BY SubsetsCount DEF Chunks
<1>2. QED
  BY <1>1 DEF NewTasks, TasksOK, TaskStatuses

LEMMA TasksMarkedType ==
  ASSUME TypeOK, NEW s \in TaskStatuses, tasks' = TasksMarked(s)
  PROVE  TasksOK'
  BY DEF TypeOK, TasksOK, TasksMarked

LEMMA TaskAfterType ==
  ASSUME TypeOK, NEW c \in DOMAIN tasks, NEW n \in Nat
  PROVE  TaskAfter(c, n) \in [pushed: 0..Cardinality(c), status: TaskStatuses]
<1>1. Cardinality(c) \in Nat
  BY SubsetsCount DEF TypeOK, TasksOK, Chunks
<1>2. QED
  BY <1>1 DEF TypeOK, TasksOK, TaskAfter, Capped, TaskStatuses

LEMMA TasksUpdateType ==
  ASSUME TypeOK, NEW c \in DOMAIN tasks,
         NEW t \in [pushed: 0..Cardinality(c), status: TaskStatuses],
         tasks' = [tasks EXCEPT ![c] = t]
  PROVE  TasksOK'
  BY DEF TypeOK, TasksOK

LEMMA RefundJobType ==
  ASSUME TypeOK, NEW n \in Nat, RefundJob(n)
  PROVE  /\ status' \in Statuses /\ processed' \in Nat /\ risky' \in Nat
         /\ TasksOK'
         /\ ledger' \in [charged: Nat, refunded: Nat, refunds: Nat]
         /\ flag' \in BOOLEAN
<1>1. TasksOK'
  BY TasksMarkedType DEF RefundJob, TaskStatuses
<1>2. status' \in Statuses
  BY DEF TypeOK, RefundJob, Statuses
<1>3. processed' \in Nat /\ risky' \in Nat
  BY DEF TypeOK, RefundJob
<1>4. ledger' \in [charged: Nat, refunded: Nat, refunds: Nat]
  BY DEF TypeOK, RefundJob, Refunded
<1>5. flag' \in BOOLEAN
  BY DEF RefundJob
<1>6. QED
  BY <1>1, <1>2, <1>3, <1>4, <1>5

LEMMA ProgressType ==
  ASSUME TypeOK, NEW n \in Nat, NEW u \in Nat, Progress(n, u)
  PROVE  /\ status' \in Statuses /\ processed' \in Nat /\ risky' \in Nat
         /\ ledger' \in [charged: Nat, refunded: Nat, refunds: Nat]
<1>1. status' \in Statuses
  BY DEF TypeOK, Progress, ProgressOf, Statuses
<1>2. processed' \in Nat /\ risky' \in Nat
  BY DEF TypeOK, Progress, ProgressOf
<1>3. ledger' \in [charged: Nat, refunded: Nat, refunds: Nat]
  BY DEF TypeOK, Progress, ProgressOf, Refunded
<1>4. QED
  BY <1>1, <1>2, <1>3

LEMMA InitType == Init => TypeOK
<1> SUFFICES ASSUME Init PROVE TypeOK
  OBVIOUS
<1>1. Cardinality(Emails) \in Nat
  BY SubsetsCount
<1>2. proc \in [Runners -> Proc]
  BY DEF Init, Idle, Working, Proc, ProcSteps
<1>3. rows \subseteq Row /\ IsFiniteSet(rows)
  BY FS_EmptySet DEF Init
<1>4. TasksOK
  BY DEF Init, TasksOK, NewTasks
<1>5. status \in Statuses /\ flag \in BOOLEAN /\ msgs \subseteq Message
  BY DEF Init, Statuses
<1>6. processed \in Nat /\ risky \in Nat /\ gen \in Nat
  BY ConstantsAssumption DEF Init
<1>7. ledger \in [charged: Nat, refunded: Nat, refunds: Nat]
  BY <1>1 DEF Init
<1>8. prep \in [phase: PrepPhases, retried: 0..PrepareRetries]
  BY ConstantsAssumption DEF Init, PrepPhases
<1>9. QED
  BY <1>2, <1>3, <1>4, <1>5, <1>6, <1>7, <1>8, LimitsAssumption
  DEF Init, TypeOK

-----------------------------------------------------------------------------
(* Every step of every actor keeps the types.                              *)

LEMMA PrepareMessageTypes ==
  ASSUME TypeOK, PrepareMessage
  PROVE  TypeOK'
<1>1. CASE PrepareSkip
  <2>1. prep' \in [phase: PrepPhases, retried: 0..PrepareRetries]
    BY <1>1, PrepareDoneType, PrepareFailedType DEF PrepareSkip
  <2>2. QED
    BY <1>1, <2>1 DEF PrepareSkip, TypeOK, TasksOK, jobVars
<1>2. CASE PrepareStart
  <2>1. proc' \in [Runners -> Proc]
    BY <1>2, GotoType DEF PrepareStart, Runners, ProcSteps
  <2>2. prep' \in [phase: PrepPhases, retried: 0..PrepareRetries]
    BY <1>2 DEF PrepareStart, TypeOK, PrepPhases
  <2>3. QED
    BY <1>2, <2>1, <2>2 DEF PrepareStart, TypeOK, TasksOK, jobVars
<1>3. CASE FailPreparingRead
  <2>1. prep' \in [phase: PrepPhases, retried: 0..PrepareRetries]
    BY <1>3 DEF FailPreparingRead, TypeOK, PrepPhases
  <2>2. QED
    BY <1>3, <2>1 DEF FailPreparingRead, TypeOK, TasksOK, jobVars
<1>4. CASE FailPreparingJob
  <2>1. Cardinality(Emails) \in Nat
    BY SubsetsCount
  <2>2. prep' \in [phase: PrepPhases, retried: 0..PrepareRetries]
    BY <1>4, PrepareDoneType DEF FailPreparingJob
  <2>3. RefundJob(Cardinality(Emails))
    BY <1>4 DEF FailPreparingJob
  <2>4. QED
    BY <1>4, <2>1, <2>2, <2>3, RefundJobType DEF FailPreparingJob, TypeOK
<1>5. QED
  BY <1>1, <1>2, <1>3, <1>4 DEF PrepareMessage

LEMMA PrepareTasksTypes ==
  ASSUME TypeOK, PrepareTasks
  PROVE  TypeOK'
<1>1. PICK cut \in Cuts(Emails), hits \in SUBSET Cacheable :
        /\ tasks' = NewTasks(cut)
        /\ proc' = [proc EXCEPT ![Preparer] =
                      Working("enqueue", gen + 1, TRUE, cut, hits)]
  BY DEF PrepareTasks
<1>2. cut \in SUBSET Chunks /\ hits \in SUBSET Emails
  BY ConstantsAssumption DEF Cuts, Chunks
<1>3. TasksOK'
  BY <1>1, <1>2, NewTasksType
<1>4. Working("enqueue", gen + 1, TRUE, cut, hits) \in Proc
  BY <1>2 DEF Working, Proc, ProcSteps, TypeOK
<1>5. proc' \in [Runners -> Proc]
  BY <1>1, <1>4 DEF TypeOK
<1>6. gen' \in Nat
  BY DEF PrepareTasks, TypeOK
<1>7. UNCHANGED <<jobVars, rows, ledger, flag, seen, prep, lock, msgs, budget>>
  BY DEF PrepareTasks
<1>8. QED
  BY <1>3, <1>5, <1>6, <1>7 DEF TypeOK, jobVars

LEMMA PrepareHandlerTypes ==
  ASSUME TypeOK, PrepareHandler \/ PrepareSlotBusy \/ PrepareTasksFail
  PROVE  TypeOK'
<1>0. Preparer \in Runners
  BY DEF Runners
<1>1. CASE PrepareTasks
  BY <1>1, PrepareTasksTypes
<1>2. CASE PrepareClaimed
  <2>1. proc' \in [Runners -> Proc]
    BY <1>0, <1>2, FinishType DEF PrepareClaimed
  <2>2. prep' \in [phase: PrepPhases, retried: 0..PrepareRetries]
    BY <1>2, PrepareDoneType DEF PrepareClaimed
  <2>3. QED
    BY <1>2, <2>1, <2>2 DEF PrepareClaimed, TypeOK, TasksOK, jobVars
<1>3. CASE MarkPending
  <2>1. proc' \in [Runners -> Proc]
    BY <1>0, <1>3, FinishType DEF MarkPending
  <2>2. prep' \in [phase: PrepPhases, retried: 0..PrepareRetries]
    BY <1>3, PrepareDoneType DEF MarkPending
  <2>3. status' \in Statuses
    BY <1>3 DEF MarkPending, TypeOK, Statuses
  <2>4. QED
    BY <1>3, <2>1, <2>2, <2>3 DEF MarkPending, TypeOK, TasksOK
<1>4. CASE PrepareSlotBusy
  <2>1. budget' \in [Events -> Nat]
    BY <1>4, SpendType DEF PrepareSlotBusy, Events
  <2>2. prep' \in [phase: PrepPhases, retried: 0..PrepareRetries]
    BY <1>4, PrepareFailedType DEF PrepareSlotBusy
  <2>3. QED
    BY <1>4, <2>1, <2>2 DEF PrepareSlotBusy, TypeOK, TasksOK, jobVars
<1>5. CASE PrepareTasksFail
  <2>1. budget' \in [Events -> Nat]
    BY <1>5, SpendType DEF PrepareTasksFail, Events
  <2>2. prep' \in [phase: PrepPhases, retried: 0..PrepareRetries]
    BY <1>5, PrepareFailedType DEF PrepareTasksFail
  <2>3. proc' \in [Runners -> Proc]
    BY <1>0, <1>5, FinishType DEF PrepareTasksFail
  <2>4. Cardinality(Emails) \in Nat /\ RefundJob(Cardinality(Emails))
    BY <1>5, SubsetsCount DEF PrepareTasksFail
  <2>5. QED
    BY <1>5, <2>1, <2>2, <2>3, <2>4, RefundJobType
    DEF PrepareTasksFail, TypeOK
<1>6. CASE PrepareCheck
  <2>1. proc' \in [Runners -> Proc]
    BY <1>0, <1>6, GotoType DEF PrepareCheck, ProcSteps
  <2>2. QED
    BY <1>6, <2>1 DEF PrepareCheck, TypeOK, TasksOK, jobVars
<1>7. QED
  BY <1>1, <1>2, <1>3, <1>4, <1>5, <1>6 DEF PrepareHandler

-----------------------------------------------------------------------------
LEMMA UnwriteCount ==
  ASSUME TypeOK, NEW p \in Runners
  PROVE  /\ IsFiniteSet(Unwrite(p)) /\ Unwrite(p) \subseteq Row
         /\ Cardinality(Unwrite(p)) \in Nat
         /\ Unknowns(Unwrite(p)) \in Nat
<1>1. Unwrite(p) \in SUBSET rows
  BY DEF Unwrite
<1>2. IsFiniteSet(Unwrite(p)) /\ Unwrite(p) \subseteq Row
  BY <1>1, FS_Subset DEF TypeOK
<1>3. QED
  BY <1>2, FS_CardinalityType, UnknownsCount

LEMMA ListedCount ==
  ASSUME TypeOK, NEW p \in Runners
  PROVE  Cardinality(Listed(p)) \in Nat
<1>1. Listed(p) \in SUBSET Emails
  BY DEF Listed, TypeOK, Proc, Chunks
<1>2. QED
  BY <1>1, SubsetsCount

LEMMA ReturnTypes ==
  ASSUME TypeOK, NEW p \in Runners, Return(p)
  PROVE  /\ proc' \in [Runners -> Proc]
         /\ prep' \in [phase: PrepPhases, retried: 0..PrepareRetries]
         /\ lock' \in {"free", "held", "orphan"}
<1>1. proc' \in [Runners -> Proc]
  BY FinishType DEF Return
<1>2. CASE p = Preparer
  BY <1>1, <1>2, PrepareDoneType DEF Return
<1>3. CASE p # Preparer
  BY <1>1, <1>3 DEF Return, TypeOK
<1>4. QED
  BY <1>2, <1>3

LEMMA EnqueueChunkTypes ==
  ASSUME TypeOK, NEW p \in Runners, EnqueueChunk(p)
  PROVE  TypeOK'
<1>1. PICK c \in Unsent(p) :
        /\ msgs' = msgs \cup {[gen |-> proc[p].gen, chunk |-> c,
                               emails |-> Misses(p, c), retried |-> 0,
                               phase |-> "pending", found |-> {}]}
        /\ proc' = [proc EXCEPT ![p].sent = @ \cup {c}]
  BY DEF EnqueueChunk
<1>2. proc[p] \in Proc
  BY DEF TypeOK
<1>3. c \in Chunks /\ Misses(p, c) \in SUBSET Emails
  BY <1>2 DEF Unsent, Proc, Misses, Chunks
<1>4. msgs' \subseteq Message
  <2>1. [gen |-> proc[p].gen, chunk |-> c, emails |-> Misses(p, c),
         retried |-> 0, phase |-> "pending", found |-> {}] \in Message
    BY <1>2, <1>3 DEF Proc, Message
  <2>2. QED
    BY <1>1, <2>1 DEF TypeOK
<1>5. proc' \in [Runners -> Proc]
  <2>1. proc' = [proc EXCEPT ![p].sent = @ \cup {c}]
    BY <1>1
  <2>2. QED
    BY <1>3, <2>1 DEF TypeOK, Proc
<1>6. UNCHANGED <<jobVars, gen, tasks, rows, ledger, flag, seen, prep, lock,
                  budget>>
  BY DEF EnqueueChunk
<1>7. QED
  BY <1>4, <1>5, <1>6 DEF TypeOK, TasksOK, jobVars

LEMMA PersistHitsTypes ==
  ASSUME TypeOK, NEW p \in Runners, PersistHits(p)
  PROVE  TypeOK'
<1>0. PICK c \in Unwritten(p) : \E hits \in Outcomes(Hits(p, c)) :
        PersistHitsOf(p, c, hits)
  BY DEF PersistHits, PersistHitsOf
<1>1. PICK hits \in Outcomes(Hits(p, c)) : PersistHitsOf(p, c, hits)
  BY <1>0
<1>2. proc[p] \in Proc
  BY DEF TypeOK
<1>3. c \in Chunks /\ Hits(p, c) \in SUBSET Emails /\ proc[p].gen \in Nat
  BY <1>2 DEF Unwritten, Proc, Hits, Chunks
<1>4. hits \in SUBSET Result
  BY <1>3, OutcomesType
<1>5. /\ IsFiniteSet(hits) /\ Cardinality(hits) \in Nat
      /\ IsFiniteSet(RowsFor(hits, proc[p].gen, "cache"))
      /\ RowsFor(hits, proc[p].gen, "cache") \subseteq Row
  BY <1>3, <1>4, RowsForFinite
<1>6. Unknowns(hits) \in Nat
  BY <1>5, UnknownsCount
<1>7. rows' \subseteq Row /\ IsFiniteSet(rows')
  BY <1>1, <1>5, FS_Union DEF TypeOK, PersistHitsOf
<1>8. /\ status' \in Statuses /\ processed' \in Nat /\ risky' \in Nat
      /\ ledger' \in [charged: Nat, refunded: Nat, refunds: Nat]
  <2>1. CASE Live
    BY <1>1, <1>5, <1>6, <2>1, ProgressType DEF PersistHitsOf
  <2>2. CASE ~Live
    BY <1>1, <2>2 DEF TypeOK, jobVars, PersistHitsOf
  <2>3. QED
    BY <2>1, <2>2
<1>9. TasksOK'
  <2>1. CASE proc[p].gen = gen /\ c \in DOMAIN tasks
    <3>1. TaskAfter(c, Cardinality(hits)) \in
            [pushed: 0..Cardinality(c), status: TaskStatuses]
      BY <1>5, <2>1, TaskAfterType
    <3>2. QED
      BY <1>1, <2>1, <3>1, TasksUpdateType DEF PersistHitsOf
  <2>2. CASE ~(proc[p].gen = gen /\ c \in DOMAIN tasks)
    BY <1>1, <2>2 DEF TypeOK, TasksOK, PersistHitsOf
  <2>3. QED
    BY <2>1, <2>2
<1>10. proc' \in [Runners -> Proc]
  BY <1>1, <1>3 DEF TypeOK, Proc, PersistHitsOf
<1>11. UNCHANGED <<gen, flag, seen, prep, lock, msgs, budget>>
  BY DEF PersistHits
<1>12. QED
  BY <1>7, <1>8, <1>9, <1>10, <1>11 DEF TypeOK

LEMMA RollbackHitsTypes ==
  ASSUME TypeOK, NEW p \in Runners, RollbackHits(p)
  PROVE  TypeOK'
<1>1. status' \in Statuses /\ processed' \in Nat /\ risky' \in Nat
  <2>1. proc[p] \in Proc
    BY DEF TypeOK
  <2>2. QED
    BY <2>1, ConstantsAssumption
    DEF RollbackHits, TypeOK, jobVars, Statuses, Proc
<1>2. TasksOK'
  BY TasksMarkedType DEF RollbackHits, TaskStatuses
<1>3. proc' \in [Runners -> Proc]
  BY GotoType DEF RollbackHits, ProcSteps
<1>4. UNCHANGED <<gen, rows, ledger, flag, seen, prep, lock, msgs, budget>>
  BY DEF RollbackHits
<1>5. QED
  BY <1>1, <1>2, <1>3, <1>4 DEF TypeOK

LEMMA EnqueueEndTypes ==
  ASSUME TypeOK, NEW p \in Runners,
         RefundEnqueue(p) \/ RestoreFlag(p) \/ RestorePaused(p)
  PROVE  TypeOK'
<1>1. CASE RefundEnqueue(p)
  <2>1. /\ status' \in Statuses /\ processed' \in Nat /\ risky' \in Nat
        /\ TasksOK' /\ flag' \in BOOLEAN
        /\ ledger' \in [charged: Nat, refunded: Nat, refunds: Nat]
    BY <1>1, ListedCount, RefundJobType DEF RefundEnqueue
  <2>2. Return(p) /\ UNCHANGED <<gen, rows, seen, msgs, budget>>
    BY <1>1 DEF RefundEnqueue
  <2>3. QED
    BY <2>1, <2>2, ReturnTypes DEF TypeOK
<1>2. CASE RestoreFlag(p)
  <2>1. proc' \in [Runners -> Proc]
    BY <1>2, GotoType DEF RestoreFlag, ProcSteps
  <2>2. flag' \in BOOLEAN /\ UNCHANGED <<jobVars, gen, tasks, rows, ledger,
                                         seen, prep, lock, msgs, budget>>
    BY <1>2 DEF RestoreFlag
  <2>3. QED
    BY <2>1, <2>2 DEF TypeOK, TasksOK, jobVars
<1>3. CASE RestorePaused(p)
  <2>1. status' \in Statuses
    BY <1>3 DEF RestorePaused, TypeOK, Statuses
  <2>2. Return(p) /\ UNCHANGED <<processed, risky, gen, tasks, rows, ledger,
                                 flag, seen, msgs, budget>>
    BY <1>3 DEF RestorePaused
  <2>3. QED
    BY <2>1, <2>2, ReturnTypes DEF TypeOK, TasksOK
<1>4. QED
  BY <1>1, <1>2, <1>3

LEMMA EnqueueErrorTypes ==
  ASSUME TypeOK, NEW p \in Runners, EnqueueError(p)
  PROVE  TypeOK'
<1>1. Deletable(p) \subseteq msgs
  BY DEF Deletable
<1>2. CASE EnqueueFails(p)
  <2>1. proc' \in [Runners -> Proc]
    BY <1>2, GotoType DEF EnqueueFails, ProcSteps
  <2>2. msgs' \subseteq Message
    BY <1>1, <1>2 DEF EnqueueFails, TypeOK
  <2>3. budget' \in [Events -> Nat]
    BY <1>2, SpendType DEF EnqueueFails, Events
  <2>4. UNCHANGED <<jobVars, gen, tasks, rows, ledger, flag, seen, prep, lock>>
    BY <1>2 DEF EnqueueFails
  <2>5. QED
    BY <2>1, <2>2, <2>3, <2>4 DEF TypeOK, TasksOK, jobVars
<1>3. CASE PersistHitsFail(p)
  <2>1. proc' \in [Runners -> Proc]
    <3>1. proc[p] \in Proc
      BY DEF TypeOK
    <3>2. Recount(proc[p], Unwrite(p)) \in Proc
      BY <3>1, UnwriteCount DEF Recount, Proc, ProcSteps
    <3>3. proc' = [proc EXCEPT ![p] = Recount(proc[p], Unwrite(p))]
      BY <1>3 DEF PersistHitsFail
    <3>4. QED
      BY <3>2, <3>3 DEF TypeOK
  <2>2. msgs' \subseteq Message
    BY <1>1, <1>3 DEF PersistHitsFail, TypeOK
  <2>3. budget' \in [Events -> Nat]
    BY <1>3, SpendType DEF PersistHitsFail, Events
  <2>4. rows' \subseteq Row /\ IsFiniteSet(rows')
    BY <1>3, UnwriteCount DEF PersistHitsFail
  <2>5. UNCHANGED <<jobVars, gen, tasks, ledger, flag, seen, prep, lock>>
    BY <1>3 DEF PersistHitsFail
  <2>6. QED
    BY <2>1, <2>2, <2>3, <2>4, <2>5 DEF TypeOK, TasksOK, jobVars
<1>4. QED
  BY <1>2, <1>3 DEF EnqueueError

LEMMA CrashTypes ==
  ASSUME TypeOK, NEW p \in Runners, Crash(p)
  PROVE  TypeOK'
<1>1. proc' \in [Runners -> Proc]
  BY FinishType DEF Crash
<1>2. budget' \in [Events -> Nat]
  BY SpendType DEF Crash, Events
<1>3. lock' \in {"free", "held", "orphan"}
  BY DEF Crash, TypeOK
<1>4. prep' \in [phase: PrepPhases, retried: 0..PrepareRetries]
  BY ConstantsAssumption DEF Crash, TypeOK, PrepPhases
<1>5. UNCHANGED <<jobVars, gen, tasks, rows, ledger, flag, seen, msgs>>
  BY DEF Crash
<1>6. QED
  BY <1>1, <1>2, <1>3, <1>4, <1>5 DEF TypeOK, TasksOK, jobVars

-----------------------------------------------------------------------------
LEMMA RequestTypes ==
  ASSUME TypeOK, NEW c \in Clients, Request(c)
  PROVE  TypeOK'
<1>1. c \in Runners
  BY DEF Runners
<1>2. Requests(c)
  BY DEF Request, PauseJob, DeleteJob, RequeueJob
<1>3. budget' \in [Events -> Nat]
  BY <1>2, SpendType DEF Requests, Events
<1>4. proc' \in [Runners -> Proc]
  <2>1. CASE PauseJob(c) \/ DeleteJob(c)
    <3>1. PICK s \in ProcSteps : Goto(c, s)
      BY <2>1 DEF PauseJob, DeleteJob, ProcSteps
    <3>2. QED
      BY <1>1, <3>1, GotoType
  <2>2. ASSUME NEW charge \in BOOLEAN, RequeueJob(c, charge)
        PROVE  proc' \in [Runners -> Proc]
    <3>1. Working("purge", 0, charge, {}, {}) \in Proc
      BY DEF Working, Proc, ProcSteps
    <3>2. QED
      BY <1>1, <2>2, <3>1 DEF RequeueJob, TypeOK
  <2>3. QED
    BY <2>1, <2>2 DEF Request
<1>5. UNCHANGED <<jobVars, gen, tasks, rows, ledger, flag, seen, prep, lock,
                  msgs>>
  BY <1>2 DEF Requests
<1>6. QED
  BY <1>3, <1>4, <1>5 DEF TypeOK, TasksOK, jobVars

LEMMA PauseTypes ==
  ASSUME TypeOK, NEW c \in Clients,
         \/ PauseSetFlag(c) \/ PauseUpdate(c) \/ PauseUndo(c)
         \/ RequeueRefused(c) \/ RequeueClearFlag(c) \/ RequeueDone(c)
         \/ DeleteSetFlag(c) \/ CancelRefused(c)
  PROVE  TypeOK'
<1>0. c \in Runners
  BY DEF Runners
<1>1. CASE PauseSetFlag(c)
  <2>1. proc' \in [Runners -> Proc]
    BY <1>0, <1>1, GotoType DEF PauseSetFlag, ProcSteps
  <2>2. QED
    BY <1>1, <2>1 DEF PauseSetFlag, TypeOK, TasksOK, jobVars
<1>2. CASE PauseUpdate(c)
  <2>1. proc' \in [Runners -> Proc]
    BY <1>0, <1>2, GotoType, FinishType DEF PauseUpdate, ProcSteps
  <2>2. status' \in Statuses
    BY <1>2 DEF PauseUpdate, TypeOK, Statuses
  <2>3. UNCHANGED <<processed, risky, gen, tasks, rows, ledger, flag, seen,
                    prep, lock, msgs, budget>>
    BY <1>2 DEF PauseUpdate
  <2>4. QED
    BY <2>1, <2>2, <2>3 DEF TypeOK, TasksOK
<1>3. CASE PauseUndo(c)
  <2>1. proc' \in [Runners -> Proc]
    BY <1>0, <1>3, FinishType DEF PauseUndo
  <2>2. QED
    BY <1>3, <2>1 DEF PauseUndo, TypeOK, TasksOK, jobVars
<1>4. CASE RequeueRefused(c)
  <2>1. proc' \in [Runners -> Proc]
    BY <1>0, <1>4, FinishType DEF RequeueRefused
  <2>2. QED
    BY <1>4, <2>1 DEF RequeueRefused, TypeOK, TasksOK, jobVars
<1>5. CASE RequeueClearFlag(c)
  <2>1. proc' \in [Runners -> Proc]
    BY <1>0, <1>5, GotoType DEF RequeueClearFlag, ProcSteps
  <2>2. QED
    BY <1>5, <2>1 DEF RequeueClearFlag, TypeOK, TasksOK, jobVars
<1>6. CASE RequeueDone(c)
  <2>1. proc' \in [Runners -> Proc]
    BY <1>0, <1>6, FinishType DEF RequeueDone
  <2>2. QED
    BY <1>6, <2>1 DEF RequeueDone, TypeOK, TasksOK, jobVars
<1>7. CASE DeleteSetFlag(c)
  <2>1. proc' \in [Runners -> Proc]
    BY <1>0, <1>7, GotoType DEF DeleteSetFlag, ProcSteps
  <2>2. QED
    BY <1>7, <2>1 DEF DeleteSetFlag, TypeOK, TasksOK, jobVars
<1>8. CASE CancelRefused(c)
  <2>1. proc' \in [Runners -> Proc]
    BY <1>0, <1>8, FinishType DEF CancelRefused
  <2>2. QED
    BY <1>8, <2>1 DEF CancelRefused, TypeOK, TasksOK, jobVars
<1>9. QED
  BY <1>1, <1>2, <1>3, <1>4, <1>5, <1>6, <1>7, <1>8

LEMMA CountedType ==
  ASSUME TypeOK
  PROVE  Counted \in Nat
<1>1. Cardinality(rows) \in Nat /\ Total \in Nat
  BY FS_CardinalityType, SubsetsCount, ConstantsAssumption DEF TypeOK, Total
<1>2. QED
  BY <1>1, ConstantsAssumption DEF Counted, Capped

LEMMA RequeueTasksTypes ==
  ASSUME TypeOK, NEW c \in Clients, RequeueTasks(c)
  PROVE  TypeOK'
<1>1. PICK cut \in Cuts(Remaining),
           hits \in SUBSET (Cacheable \cap Remaining) :
        /\ tasks' = NewTasks(cut)
        /\ proc' = [proc EXCEPT ![c] = Working("clearFlag", gen + 1,
                                              proc[c].charge, cut, hits)]
  BY DEF RequeueTasks
<1>2. Remaining \in SUBSET Emails
  BY DEF Remaining
<1>3. cut \in SUBSET Chunks /\ hits \in SUBSET Emails
  BY <1>2, ConstantsAssumption DEF Cuts, Chunks
<1>4. TasksOK'
  BY <1>1, <1>3, NewTasksType
<1>5. c \in Runners /\ proc[c] \in Proc
  BY DEF Runners, TypeOK
<1>6. Working("clearFlag", gen + 1, proc[c].charge, cut, hits) \in Proc
  BY <1>3, <1>5 DEF Working, Proc, ProcSteps, TypeOK
<1>7. proc' \in [Runners -> Proc]
  BY <1>1, <1>6 DEF TypeOK
<1>8. gen' \in Nat /\ status' \in Statuses
  BY DEF RequeueTasks, TypeOK, Statuses
<1>9. processed' \in Nat
  BY CountedType DEF RequeueTasks
<1>10. ledger' \in [charged: Nat, refunded: Nat, refunds: Nat]
  <2>1. Fee(c) \in Nat
    BY <1>2, SubsetsCount DEF Fee
  <2>2. ledger' = [ledger EXCEPT !.charged = @ + Fee(c)]
    BY DEF RequeueTasks
  <2>3. QED
    BY <2>1, <2>2 DEF TypeOK
<1>11. UNCHANGED <<risky, rows, flag, seen, prep, lock, msgs, budget>>
  BY DEF RequeueTasks
<1>12. QED
  BY <1>4, <1>7, <1>8, <1>9, <1>10, <1>11 DEF TypeOK

LEMMA RequeueTypes ==
  ASSUME TypeOK, NEW c \in Clients,
         RequeuePurge(c) \/ RequeueTasks(c) \/ RequeueNothing(c)
  PROVE  TypeOK'
<1>0. c \in Runners
  BY DEF Runners
<1>1. CASE RequeuePurge(c)
  <2>1. proc' \in [Runners -> Proc]
    BY <1>0, <1>1, GotoType DEF RequeuePurge, ProcSteps
  <2>2. prep' \in [phase: PrepPhases, retried: 0..PrepareRetries]
    BY <1>1 DEF RequeuePurge, TypeOK, PrepPhases
  <2>3. msgs' \subseteq Message
    BY <1>1 DEF RequeuePurge, TypeOK
  <2>4. UNCHANGED <<jobVars, gen, tasks, rows, ledger, flag, seen, lock,
                    budget>>
    BY <1>1 DEF RequeuePurge
  <2>5. QED
    BY <2>1, <2>2, <2>3, <2>4 DEF TypeOK, TasksOK, jobVars
<1>2. CASE RequeueTasks(c)
  BY <1>2, RequeueTasksTypes
<1>3. CASE RequeueNothing(c)
  <2>1. proc' \in [Runners -> Proc]
    BY <1>0, <1>3, FinishType DEF RequeueNothing
  <2>2. processed' \in Nat
    BY <1>3, CountedType DEF RequeueNothing
  <2>3. status' \in Statuses
    BY <1>3 DEF RequeueNothing, Statuses
  <2>4. QED
    BY <1>3, <2>1, <2>2, <2>3 DEF RequeueNothing, TypeOK, TasksOK
<1>4. QED
  BY <1>1, <1>2, <1>3

LEMMA UnusedCount ==
  ASSUME TypeOK
  PROVE  Unused \in Nat
<1>1. {r \in rows : r.verdict = "unknown"} \in SUBSET rows
  OBVIOUS
<1>2. /\ Cardinality(rows) \in Nat /\ Unknowns(rows) \in Nat
      /\ Unknowns(rows) <= Cardinality(rows)
  BY <1>1, FS_Subset, FS_CardinalityType DEF TypeOK, Unknowns
<1>3. Cardinality(Emails) \in Nat
  BY SubsetsCount
<1>4. QED
  BY <1>2, <1>3 DEF Unused

LEMMA DeleteTypes ==
  ASSUME TypeOK, NEW c \in Clients,
         DeleteResults(c) \/ DropJob(c) \/ CancelPaused(c)
  PROVE  TypeOK'
<1>0. c \in Runners /\ IsFiniteSet({})
  BY FS_EmptySet DEF Runners
<1>1. ASSUME tasks' = NewTasks({}) PROVE TasksOK'
  BY <1>1, NewTasksType
<1>2. CASE DeleteResults(c)
  <2>1. proc' \in [Runners -> Proc]
    BY <1>0, <1>2, GotoType DEF DeleteResults, ProcSteps
  <2>2. QED
    BY <1>0, <1>2, <2>1 DEF DeleteResults, TypeOK, TasksOK, jobVars
<1>3. CASE DropJob(c)
  <2>1. proc' \in [Runners -> Proc]
    BY <1>0, <1>3, FinishType DEF DropJob
  <2>2. TasksOK' /\ rows' \subseteq Row /\ IsFiniteSet(rows')
    BY <1>0, <1>1, <1>3 DEF DropJob, TypeOK, TasksOK
  <2>3. status' \in Statuses /\ flag' \in BOOLEAN
    BY <1>3 DEF DropJob, TypeOK, Statuses
  <2>4. UNCHANGED <<processed, risky, gen, ledger, seen, prep, lock, msgs,
                    budget>>
    BY <1>3 DEF DropJob
  <2>5. QED
    BY <2>1, <2>2, <2>3, <2>4 DEF TypeOK
<1>4. CASE CancelPaused(c)
  <2>1. proc' \in [Runners -> Proc]
    BY <1>0, <1>4, FinishType DEF CancelPaused
  <2>2. TasksOK' /\ rows' \subseteq Row /\ IsFiniteSet(rows')
    BY <1>0, <1>1, <1>4 DEF CancelPaused
  <2>3. status' \in Statuses /\ flag' \in BOOLEAN
    BY <1>4 DEF CancelPaused, Statuses
  <2>4. ledger' \in [charged: Nat, refunded: Nat, refunds: Nat]
    <3>1. ledger' = IF Unused > 0 THEN Refunded(Unused) ELSE ledger
      BY <1>4 DEF CancelPaused
    <3>2. QED
      BY <3>1, UnusedCount DEF TypeOK, Refunded
  <2>5. UNCHANGED <<processed, risky, gen, seen, prep, lock, msgs, budget>>
    BY <1>4 DEF CancelPaused
  <2>6. QED
    BY <2>1, <2>2, <2>3, <2>4, <2>5 DEF TypeOK
<1>5. QED
  BY <1>2, <1>3, <1>4

LEMMA ContinueTypes ==
  ASSUME TypeOK, NEW c \in Clients, Continue(c)
  PROVE  TypeOK'
  BY PauseTypes, RequeueTypes, DeleteTypes DEF Continue

-----------------------------------------------------------------------------
LEMMA AtType ==
  ASSUME NEW m \in Message, NEW ph \in {"pending", "active", "post", "dead"},
         NEW n \in Nat, NEW found \in SUBSET Result
  PROVE  At(m, ph, n, found) \in Message
  BY DEF At, Message

LEMMA FailedType ==
  ASSUME NEW m \in Message
  PROVE  Failed(m) \in Message
<1>1. m.retried \in Nat /\ m.retried + 1 \in Nat
  BY DEF Message
<1>2. {[email |-> e, verdict |-> "unknown"] : e \in m.emails} \in SUBSET Result
  BY DEF Message, Result
<1>3. At(m, "pending", m.retried + 1, {}) \in Message
  BY <1>1, AtType
<1>4. At(m, "dead", m.retried, {[email |-> e, verdict |-> "unknown"] :
                                  e \in m.emails}) \in Message
  BY <1>1, <1>2, AtType
<1>5. QED
  BY <1>3, <1>4 DEF Failed

LEMMA ReportTypes ==
  ASSUME TypeOK, NEW m \in msgs, ReportTaskResults(m)
  PROVE  /\ status' \in Statuses /\ processed' \in Nat /\ risky' \in Nat
         /\ ledger' \in [charged: Nat, refunded: Nat, refunds: Nat]
         /\ TasksOK' /\ rows' \subseteq Row /\ IsFiniteSet(rows')
         /\ flag' \in BOOLEAN
         /\ UNCHANGED <<gen, seen, prep, lock, proc>>
<1> DEFINE n == Cardinality(Fresh(m))
           u == Unknowns(Fresh(m))
<1>1. flag' \in BOOLEAN /\ UNCHANGED <<gen, seen, prep, lock, proc>>
  BY DEF ReportTaskResults, TypeOK
<1>2. CASE ~Accepts(m)
  <2>1. UNCHANGED <<jobVars, tasks, rows, ledger>>
    BY <1>2 DEF ReportTaskResults
  <2>2. QED
    BY <1>1, <2>1 DEF TypeOK, TasksOK, jobVars
<1>3. CASE Accepts(m) /\ Fresh(m) = {}
  <2>1. /\ tasks' = [tasks EXCEPT ![m.chunk].status = "processing"]
        /\ UNCHANGED <<jobVars, rows, ledger>>
    BY <1>3 DEF ReportTaskResults
  <2>2. TasksOK'
    <3>1. m.chunk \in DOMAIN tasks
      BY <1>3 DEF Accepts
    <3>2. tasks[m.chunk] \in
            [pushed: 0..Cardinality(m.chunk), status: TaskStatuses]
      BY <3>1 DEF TypeOK, TasksOK
    <3>3. [tasks[m.chunk] EXCEPT !.status = "processing"] \in
            [pushed: 0..Cardinality(m.chunk), status: TaskStatuses]
      BY <3>2 DEF TaskStatuses
    <3>4. QED
      BY <2>1, <3>1, <3>3, TasksUpdateType
  <2>3. QED
    BY <1>1, <2>1, <2>2 DEF TypeOK, jobVars
<1>4. CASE Accepts(m) /\ Fresh(m) # {}
  <2>1. /\ rows' = rows \cup RowsFor(Fresh(m), gen, "worker")
        /\ Progress(n, u)
        /\ tasks' = [tasks EXCEPT ![m.chunk] = TaskAfter(m.chunk, n)]
    BY <1>4 DEF ReportTaskResults
  <2>2. Fresh(m) \in SUBSET Result /\ gen \in Nat
    BY DEF Fresh, TypeOK, Message
  <2>3. /\ IsFiniteSet(Fresh(m)) /\ n \in Nat
        /\ IsFiniteSet(RowsFor(Fresh(m), gen, "worker"))
        /\ RowsFor(Fresh(m), gen, "worker") \subseteq Row
    BY <2>2, RowsForFinite
  <2>4. u \in Nat
    BY <2>3, UnknownsCount
  <2>5. rows' \subseteq Row /\ IsFiniteSet(rows')
    BY <2>1, <2>3, FS_Union DEF TypeOK
  <2>6. m.chunk \in DOMAIN tasks
    BY <1>4 DEF Accepts
  <2>7. TaskAfter(m.chunk, n) \in
          [pushed: 0..Cardinality(m.chunk), status: TaskStatuses]
    BY <2>3, <2>6, TaskAfterType
  <2>8. TasksOK'
    BY <2>1, <2>6, <2>7, TasksUpdateType
  <2>9. QED
    BY <1>1, <2>1, <2>3, <2>4, <2>5, <2>8, ProgressType
<1>5. QED
  BY <1>2, <1>3, <1>4

LEMMA WorkerStepTypes ==
  ASSUME TypeOK, NEW m \in msgs, WorkerStep(m)
  PROVE  TypeOK'
<1>1. m \in Message /\ m.retried \in Nat /\ m.emails \in SUBSET Emails
  BY DEF TypeOK, Message
<1>2. ASSUME LookAtFlag PROVE seen' \in {"none", "paused", "running"}
  BY <1>2 DEF LookAtFlag, TypeOK
<1>3. CASE SkipChunk(m)
  <2>1. LookAtFlag /\ msgs' = msgs \ {m}
        /\ UNCHANGED <<jobVars, gen, tasks, rows, ledger, flag, prep, lock,
                       proc, budget>>
    BY <1>3 DEF SkipChunk
  <2>2. QED
    BY <1>2, <2>1 DEF TypeOK, TasksOK, jobVars
<1>4. CASE StartChunk(m)
  <2>1. LookAtFlag /\ msgs' = (msgs \ {m}) \cup {At(m, "active", m.retried, {})}
        /\ UNCHANGED <<jobVars, gen, tasks, rows, ledger, flag, prep, lock,
                       proc, budget>>
    BY <1>4 DEF StartChunk
  <2>2. At(m, "active", m.retried, {}) \in Message
    BY <1>1, AtType
  <2>3. QED
    BY <1>2, <2>1, <2>2 DEF TypeOK, TasksOK, jobVars
<1>5. CASE FinishChunk(m)
  <2>1. PICK found \in Outcomes(m.emails) :
          msgs' = (msgs \ {m}) \cup {At(m, "post", m.retried, found)}
    BY <1>5 DEF FinishChunk
  <2>2. At(m, "post", m.retried, found) \in Message
    BY <1>1, OutcomesType, AtType
  <2>3. UNCHANGED <<jobVars, gen, tasks, rows, ledger, flag, seen, prep, lock,
                    proc, budget>>
    BY <1>5 DEF FinishChunk
  <2>4. QED
    BY <2>1, <2>2, <2>3 DEF TypeOK, TasksOK, jobVars
<1>6. CASE StopChunk(m)
  <2>1. msgs' \subseteq Message
    <3>1. PICK part \in SUBSET m.emails \ {m.emails} :
            IF part = {} THEN msgs' = msgs \ {m}
            ELSE \E found \in Outcomes(part) :
                   msgs' = (msgs \ {m}) \cup {At(m, "post", m.retried, found)}
      BY <1>6 DEF StopChunk
    <3>2. ASSUME NEW found \in Outcomes(part)
          PROVE  At(m, "post", m.retried, found) \in Message
      BY <1>1, OutcomesType, AtType
    <3>3. QED
      BY <3>1, <3>2 DEF TypeOK
  <2>2. LookAtFlag
        /\ UNCHANGED <<jobVars, gen, tasks, rows, ledger, flag, prep, lock,
                       proc, budget>>
    BY <1>6 DEF StopChunk
  <2>3. QED
    BY <1>2, <2>1, <2>2 DEF TypeOK, TasksOK, jobVars
<1>7. CASE Report(m)
  <2>1. ReportTaskResults(m) /\ msgs' = msgs \ {m} /\ UNCHANGED budget
    BY <1>7 DEF Report
  <2>2. QED
    BY <2>1, ReportTypes DEF TypeOK
<1>8. QED
  BY <1>3, <1>4, <1>5, <1>6, <1>7 DEF WorkerStep

LEMMA WorkerErrorTypes ==
  ASSUME TypeOK, NEW m \in msgs, WorkerError(m)
  PROVE  TypeOK'
<1>1. Failed(m) \in Message
  BY FailedType DEF TypeOK
<1>2. Spend("chunk") \/ Spend("refused")
  BY DEF WorkerError, ChunkFails, ReportRefused, DeadLetterLost,
         ReportUnanswered
<1>3. budget' \in [Events -> Nat]
  BY <1>2, SpendType DEF Events
<1>4. msgs' \subseteq msgs \cup {Failed(m)}
  BY DEF WorkerError, ChunkFails, ReportRefused, DeadLetterLost,
         ReportUnanswered
<1>5. msgs' \subseteq Message
  BY <1>1, <1>4 DEF TypeOK
<1>6. CASE ChunkFails(m) \/ ReportRefused(m) \/ DeadLetterLost(m)
  <2>1. UNCHANGED <<jobVars, gen, tasks, rows, ledger, flag, seen, prep, lock,
                    proc>>
    BY <1>6 DEF ChunkFails, ReportRefused, DeadLetterLost
  <2>2. QED
    BY <1>3, <1>5, <2>1 DEF TypeOK, TasksOK, jobVars
<1>7. CASE ReportUnanswered(m)
  <2>1. ReportTaskResults(m)
    BY <1>7 DEF ReportUnanswered
  <2>2. QED
    BY <1>3, <1>5, <2>1, ReportTypes DEF TypeOK
<1>8. QED
  BY <1>6, <1>7 DEF WorkerError

-----------------------------------------------------------------------------
(* Whatever the lists, requests and errors, every variable keeps its type: *)
(* in particular no counter goes below zero and no task's pushed_count     *)
(* over the size of its chunk (applyTaskProgress caps it).                 *)
THEOREM TypeCorrect == Spec => []TypeOK
<1>1. TypeOK /\ [Next]_vars => TypeOK'
  <2> SUFFICES ASSUME TypeOK, [Next]_vars PROVE TypeOK'
    OBVIOUS
  <2>1. CASE \E p \in Runners : Enqueue(p) \/ EnqueueError(p) \/ Crash(p)
    BY <2>1, EnqueueChunkTypes, PersistHitsTypes, RollbackHitsTypes,
       EnqueueEndTypes, EnqueueErrorTypes, CrashTypes DEF Enqueue
  <2>2. CASE \E c \in Clients : Request(c) \/ Continue(c)
    BY <2>2, RequestTypes, ContinueTypes
  <2>3. CASE \E m \in msgs : WorkerStep(m) \/ WorkerError(m)
    BY <2>3, WorkerStepTypes, WorkerErrorTypes
  <2>4. CASE LockExpires
    BY <2>4 DEF LockExpires, TypeOK, TasksOK, jobVars
  <2>5. CASE PauseCacheExpires
    BY <2>5 DEF PauseCacheExpires, TypeOK, TasksOK, jobVars
  <2>6. CASE UNCHANGED vars
    BY <2>6 DEF vars, TypeOK, TasksOK, jobVars
  <2>7. QED
    BY <2>1, <2>2, <2>3, <2>4, <2>5, <2>6, PrepareMessageTypes,
       PrepareHandlerTypes DEF Next
<1>2. QED
  BY InitType, <1>1, PTL DEF Spec

-----------------------------------------------------------------------------
(***************************************************************************)
(* Why a generation of tasks never writes two job_results rows for one     *)
(* address, although nothing but the order of the code's steps keeps the   *)
(* cache hits, the reports and their repetitions apart.                    *)
(***************************************************************************)

(* A generation has at most one handler, and none is ahead of the tasks.   *)
OwnGeneration ==
  \A p \in Runners :
    /\ proc[p].gen <= gen
    /\ proc[p].gen = 0 => proc[p].chunks = {}
    /\ \A q \in Runners : proc[p].gen = proc[q].gen /\ proc[p].gen > 0 => p = q

(* PrepareQueue puts every address into one chunk.                         *)
DisjointChunks ==
  \A p \in Runners :
    /\ proc[p].wrote \subseteq proc[p].chunks
    /\ \A c, d \in proc[p].chunks : c = d \/ c \cap d = {}

(* Results answer the addresses of their message, each with one verdict.   *)
FoundOnce(found, emails) ==
  /\ \A f \in found : f.email \in emails
  /\ \A f, h \in found : f.email = h.email => f = h

(* Messages and rows stem from generations that exist; what a handler      *)
(* answers from the cache it does not send out.                            *)
MessagesKnown ==
  \A m \in msgs :
    /\ m.gen <= gen
    /\ FoundOnce(m.found, m.emails)
    /\ \A p \in Runners : m.gen = proc[p].gen => m.emails \cap proc[p].hits = {}

(* A row for one of a handler's hits was written by that handler.          *)
RowsKnown ==
  \A r \in rows :
    /\ r.gen <= gen
    /\ \A p \in Runners :
         r.gen = proc[p].gen /\ r.email \in proc[p].hits
         => \E c \in proc[p].wrote : r.email \in c

RowInv == /\ OwnGeneration /\ DisjointChunks /\ MessagesKnown /\ RowsKnown
          /\ OneRowPerGeneration

-----------------------------------------------------------------------------
(* Steps that neither write a row nor plan anything new.                   *)

NoPlan(w) == /\ w.gen = 0 /\ w.chunks = {} /\ w.hits = {}
             /\ w.sent = {} /\ w.wrote = {}

SameWrites(w, x) == /\ w.gen = x.gen /\ w.chunks = x.chunks
                    /\ w.hits = x.hits /\ w.wrote = x.wrote

SamePlan(w, x) == /\ w.gen = x.gen /\ w.chunks = x.chunks /\ w.hits = x.hits
                  /\ w.sent = x.sent /\ w.wrote = x.wrote

PlansKept == \A p \in Runners : NoPlan(proc'[p]) \/ SamePlan(proc'[p], proc[p])

(* A message that has moved on, possibly with results.                     *)
MovedOn(x, m) == x.gen = m.gen /\ x.emails = m.emails
                 /\ FoundOnce(x.found, x.emails)

Quiet == /\ gen' = gen /\ rows' \subseteq rows
         /\ \A x \in msgs' : \E m \in msgs : MovedOn(x, m)
         /\ PlansKept

LEMMA GotoPlans ==
  ASSUME TypeOK, NEW p \in Runners, NEW s \in ProcSteps, Goto(p, s)
  PROVE  PlansKept
<1>1. ASSUME NEW q \in Runners PROVE SamePlan(proc'[q], proc[q])
  BY DEF TypeOK, Goto, Proc, SamePlan
<1>2. QED
  BY <1>1 DEF PlansKept

LEMMA FinishPlans ==
  ASSUME TypeOK, NEW p \in Runners, Finish(p)
  PROVE  PlansKept
<1>1. ASSUME NEW q \in Runners
      PROVE  NoPlan(proc'[q]) \/ SamePlan(proc'[q], proc[q])
  BY DEF TypeOK, Finish, Idle, Working, SamePlan, NoPlan
<1>2. QED
  BY <1>1 DEF PlansKept

LEMMA SamePlans ==
  ASSUME proc' = proc
  PROVE  PlansKept
  BY DEF PlansKept, SamePlan

LEMMA SameMessages ==
  ASSUME RowInv, msgs' \subseteq msgs
  PROVE  \A x \in msgs' : \E m \in msgs : MovedOn(x, m)
  BY DEF RowInv, MessagesKnown, MovedOn

LEMMA QuietKeeps ==
  ASSUME TypeOK, RowInv, Quiet
  PROVE  RowInv'
<1>1. OwnGeneration'
  BY DEF RowInv, OwnGeneration, Quiet, PlansKept, NoPlan, SamePlan, TypeOK
<1>2. DisjointChunks'
  BY DEF RowInv, DisjointChunks, Quiet, PlansKept, NoPlan, SamePlan
<1>3. MessagesKnown'
  <2> SUFFICES ASSUME NEW x \in msgs'
               PROVE  /\ x.gen <= gen'
                      /\ FoundOnce(x.found, x.emails)
                      /\ \A p \in Runners : x.gen = proc'[p].gen
                           => x.emails \cap proc'[p].hits = {}
    BY DEF MessagesKnown, FoundOnce
  <2>1. PICK m \in msgs : MovedOn(x, m)
    BY DEF Quiet
  <2>2. /\ m.gen <= gen
        /\ \A p \in Runners : m.gen = proc[p].gen
              => m.emails \cap proc[p].hits = {}
    BY DEF RowInv, MessagesKnown
  <2>3. ASSUME NEW p \in Runners, x.gen = proc'[p].gen
        PROVE  x.emails \cap proc'[p].hits = {}
    <3>1. CASE NoPlan(proc'[p])
      BY <3>1 DEF NoPlan
    <3>2. CASE SamePlan(proc'[p], proc[p])
      BY <2>1, <2>2, <2>3, <3>2 DEF SamePlan, MovedOn
    <3>3. QED
      BY <3>1, <3>2 DEF Quiet, PlansKept
  <2>4. QED
    BY <2>1, <2>2, <2>3 DEF MovedOn, Quiet
<1>4. RowsKnown'
  <2> SUFFICES ASSUME NEW r \in rows'
               PROVE  /\ r.gen <= gen'
                      /\ \A p \in Runners :
                           r.gen = proc'[p].gen /\ r.email \in proc'[p].hits
                           => \E c \in proc'[p].wrote : r.email \in c
    BY DEF RowsKnown
  <2>1. r \in rows /\ gen' = gen
    BY DEF Quiet
  <2>2. ASSUME NEW p \in Runners,
               r.gen = proc'[p].gen, r.email \in proc'[p].hits
        PROVE  \E c \in proc'[p].wrote : r.email \in c
    <3>1. SamePlan(proc'[p], proc[p])
      BY <2>2 DEF Quiet, PlansKept, NoPlan
    <3>2. QED
      BY <2>1, <2>2, <3>1 DEF RowInv, RowsKnown, SamePlan
  <2>3. QED
    BY <2>1, <2>2 DEF RowInv, RowsKnown
<1>5. OneRowPerGeneration'
  BY DEF RowInv, OneRowPerGeneration, Quiet
<1>6. QED
  BY <1>1, <1>2, <1>3, <1>4, <1>5 DEF RowInv

LEMMA RowInit == Init => RowInv
  BY DEF Init, RowInv, OwnGeneration, DisjointChunks, MessagesKnown, RowsKnown,
         OneRowPerGeneration, Idle, Working

-----------------------------------------------------------------------------
(* The quiet steps, by actor.                                              *)

LEMMA QuietPrepare ==
  ASSUME TypeOK, RowInv,
         \/ PrepareMessage \/ PrepareSlotBusy \/ PrepareTasksFail
         \/ PrepareCheck \/ PrepareClaimed \/ MarkPending
  PROVE  Quiet
<1>0. Preparer \in Runners /\ {"loaded", "checked"} \subseteq ProcSteps
  BY DEF Runners, ProcSteps
<1>1. PlansKept
  BY <1>0, GotoPlans, FinishPlans, SamePlans
  DEF PrepareMessage, PrepareSkip, PrepareStart, FailPreparingRead,
      FailPreparingJob, PrepareSlotBusy, PrepareTasksFail, PrepareCheck,
      PrepareClaimed, MarkPending
<1>2. gen' = gen /\ rows' \subseteq rows /\ msgs' \subseteq msgs
  BY DEF PrepareMessage, PrepareSkip, PrepareStart, FailPreparingRead,
         FailPreparingJob, PrepareSlotBusy, PrepareTasksFail, PrepareCheck,
         PrepareClaimed, MarkPending
<1>3. QED
  BY <1>1, <1>2, SameMessages DEF Quiet

LEMMA QuietRunner ==
  ASSUME TypeOK, RowInv, NEW p \in Runners,
         \/ RollbackHits(p) \/ RefundEnqueue(p) \/ RestoreFlag(p)
         \/ RestorePaused(p) \/ EnqueueError(p) \/ Crash(p)
  PROVE  Quiet
<1>0. {"refund", "restoreFlag", "restore"} \subseteq ProcSteps
  BY DEF ProcSteps
<1>1. PlansKept
  <2>1. CASE PersistHitsFail(p)
    <3>1. proc' = [proc EXCEPT ![p] = Recount(proc[p], Unwrite(p))]
      BY <2>1 DEF PersistHitsFail
    <3>2. SamePlan(Recount(proc[p], Unwrite(p)), proc[p])
      BY DEF SamePlan, Recount
    <3>3. ASSUME NEW q \in Runners PROVE SamePlan(proc'[q], proc[q])
      BY <3>1, <3>2 DEF TypeOK, SamePlan
    <3>4. QED
      BY <3>3 DEF PlansKept
  <2>2. CASE ~PersistHitsFail(p)
    <3>1. Finish(p) \/ \E s \in ProcSteps : Goto(p, s)
      BY <1>0, <2>2 DEF RollbackHits, RefundEnqueue, RestoreFlag,
           RestorePaused, EnqueueError, EnqueueFails, Crash, Return
    <3>2. QED
      BY <3>1, GotoPlans, FinishPlans
  <2>3. QED
    BY <2>1, <2>2
<1>2. gen' = gen /\ rows' \subseteq rows /\ msgs' \subseteq msgs
  BY DEF RollbackHits, RefundEnqueue, RestoreFlag, RestorePaused,
         EnqueueError, EnqueueFails, PersistHitsFail, Crash, Unwrite,
         Deletable
<1>3. QED
  BY <1>1, <1>2, SameMessages DEF Quiet

LEMMA QuietRequest ==
  ASSUME TypeOK, RowInv, NEW c \in Clients, Request(c)
  PROVE  Quiet
<1>0. c \in Runners /\ {"setFlag", "wipe", "stop"} \subseteq ProcSteps
  BY DEF Runners, ProcSteps
<1>1. PlansKept
  <2>1. CASE PauseJob(c) \/ DeleteJob(c)
    BY <1>0, <2>1, GotoPlans DEF PauseJob, DeleteJob
  <2>2. ASSUME NEW charge \in BOOLEAN, RequeueJob(c, charge)
        PROVE  PlansKept
    <3>1. proc' = [proc EXCEPT ![c] = Working("purge", 0, charge, {}, {})]
      BY <2>2 DEF RequeueJob
    <3>2. ASSUME NEW q \in Runners
          PROVE  NoPlan(proc'[q]) \/ SamePlan(proc'[q], proc[q])
      BY <3>1 DEF TypeOK, NoPlan, SamePlan, Working
    <3>3. QED
      BY <3>2 DEF PlansKept
  <2>3. QED
    BY <2>1, <2>2 DEF Request
<1>2. gen' = gen /\ rows' \subseteq rows /\ msgs' \subseteq msgs
  BY DEF Request, PauseJob, DeleteJob, RequeueJob, Requests
<1>3. QED
  BY <1>1, <1>2, SameMessages DEF Quiet

LEMMA QuietContinue ==
  ASSUME TypeOK, RowInv, NEW c \in Clients, Continue(c), ~RequeueTasks(c)
  PROVE  Quiet
<1>0. /\ c \in Runners
      /\ {"pause", "unpause", "requeue", "enqueue", "drop", "cancel"}
            \subseteq ProcSteps
  BY DEF Runners, ProcSteps
<1>1. PlansKept
  <2>1. Finish(c) \/ \E s \in ProcSteps : Goto(c, s)
    BY <1>0 DEF Continue, PauseSetFlag, PauseUpdate, PauseUndo, RequeuePurge,
         RequeueNothing, RequeueRefused, RequeueClearFlag, RequeueDone,
         DeleteResults, DropJob, DeleteSetFlag, CancelPaused, CancelRefused
  <2>2. QED
    BY <1>0, <2>1, GotoPlans, FinishPlans
<1>2. gen' = gen /\ rows' \subseteq rows /\ msgs' \subseteq msgs
  BY DEF Continue, PauseSetFlag, PauseUpdate, PauseUndo, RequeuePurge,
         RequeueNothing, RequeueRefused, RequeueClearFlag, RequeueDone,
         DeleteResults, DropJob, DeleteSetFlag, CancelPaused, CancelRefused
<1>3. QED
  BY <1>1, <1>2, SameMessages DEF Quiet

(* Whatever a worker finds out is one verdict per address of its chunk.    *)
LEMMA OutcomesOnce ==
  ASSUME NEW S, NEW found \in Outcomes(S)
  PROVE  FoundOnce(found, S)
<1>1. PICK f \in [S -> Verdicts] :
         found = {[email |-> e, verdict |-> f[e]] : e \in S}
  BY DEF Outcomes
<1>2. QED
  BY <1>1 DEF FoundOnce

LEMMA FailedMovedOn ==
  ASSUME NEW m
  PROVE  MovedOn(Failed(m), m)
  BY DEF MovedOn, Failed, At, FoundOnce

LEMMA QuietWorker ==
  ASSUME TypeOK, RowInv, NEW m \in msgs,
         \/ SkipChunk(m) \/ StartChunk(m) \/ FinishChunk(m) \/ StopChunk(m)
         \/ ChunkFails(m) \/ ReportRefused(m) \/ DeadLetterLost(m)
  PROVE  Quiet
<1>0. \A x \in msgs : MovedOn(x, x)
  BY DEF RowInv, MessagesKnown, MovedOn
<1>1. gen' = gen /\ rows' \subseteq rows /\ proc' = proc
  BY DEF SkipChunk, StartChunk, FinishChunk, StopChunk, ChunkFails,
         ReportRefused, DeadLetterLost
<1>2. ASSUME NEW y, MovedOn(y, m), msgs' = (msgs \ {m}) \cup {y}
      PROVE  \A x \in msgs' : \E z \in msgs : MovedOn(x, z)
  BY <1>0, <1>2
<1>3. \A x \in msgs' : \E z \in msgs : MovedOn(x, z)
  <2>1. CASE SkipChunk(m) \/ DeadLetterLost(m)
    BY <1>0, <2>1 DEF SkipChunk, DeadLetterLost
  <2>2. CASE StartChunk(m)
    <3>1. MovedOn(At(m, "active", m.retried, {}), m)
      BY DEF MovedOn, At, FoundOnce
    <3>2. QED
      BY <1>2, <2>2, <3>1 DEF StartChunk
  <2>3. ASSUME NEW part \in SUBSET m.emails, NEW found \in Outcomes(part),
               msgs' = (msgs \ {m}) \cup {At(m, "post", m.retried, found)}
        PROVE  \A x \in msgs' : \E z \in msgs : MovedOn(x, z)
    <3>1. FoundOnce(found, m.emails)
      BY OutcomesOnce DEF FoundOnce
    <3>2. MovedOn(At(m, "post", m.retried, found), m)
      BY <3>1 DEF MovedOn, At
    <3>3. QED
      BY <1>2, <2>3, <3>2
  <2>4. CASE FinishChunk(m)
    BY <2>3, <2>4 DEF FinishChunk
  <2>5. CASE StopChunk(m)
    <3>1. PICK part \in SUBSET m.emails \ {m.emails} :
            IF part = {} THEN msgs' = msgs \ {m}
            ELSE \E found \in Outcomes(part) :
                   msgs' = (msgs \ {m}) \cup {At(m, "post", m.retried, found)}
      BY <2>5 DEF StopChunk
    <3>2. CASE part = {}
      BY <1>0, <3>1, <3>2
    <3>3. CASE part # {}
      BY <2>3, <3>1, <3>3
    <3>4. QED
      BY <3>2, <3>3
  <2>6. CASE ChunkFails(m)
    BY <1>2, <2>6, FailedMovedOn DEF ChunkFails
  <2>7. CASE ReportRefused(m)
    <3>1. msgs' \subseteq msgs \cup {Failed(m)}
      BY <2>7 DEF ReportRefused
    <3>2. QED
      BY <1>0, <3>1, FailedMovedOn
  <2>8. QED
    BY <2>1, <2>2, <2>4, <2>5, <2>6, <2>7
<1>4. QED
  BY <1>1, <1>3, SamePlans DEF Quiet

-----------------------------------------------------------------------------
(* A new generation: prepare and requeue take the next number, so nothing  *)
(* that exists already can be confused with what they plan.                *)

LEMMA NewPlanKeeps ==
  ASSUME TypeOK, RowInv, NEW p \in Runners, NEW step, NEW charge,
         NEW S \in SUBSET Emails, NEW cut \in Cuts(S), NEW hits,
         proc' = [proc EXCEPT ![p] = Working(step, gen + 1, charge, cut, hits)],
         gen' = gen + 1, UNCHANGED <<rows, msgs>>
  PROVE  RowInv'
<1> DEFINE w == Working(step, gen + 1, charge, cut, hits)
<1>0. /\ gen \in Nat
      /\ \A q \in Runners : proc[q].gen \in Nat /\ proc[q].gen <= gen
  BY DEF TypeOK, Proc, RowInv, OwnGeneration
<1>1. /\ proc'[p] = w
      /\ \A q \in Runners \ {p} : proc'[q] = proc[q]
  BY DEF TypeOK
<1>2. w.gen = gen + 1 /\ w.chunks = cut /\ w.hits = hits /\ w.wrote = {}
  BY DEF Working
<1>3. OwnGeneration'
  BY <1>0, <1>1, <1>2 DEF RowInv, OwnGeneration
<1>4. DisjointChunks'
  <2>1. \A c, d \in cut : c = d \/ c \cap d = {}
    BY DEF Cuts
  <2>2. QED
    BY <1>1, <1>2, <2>1 DEF RowInv, DisjointChunks
<1>5. MessagesKnown'
  <2> SUFFICES ASSUME NEW m \in msgs
               PROVE  /\ m.gen <= gen'
                      /\ FoundOnce(m.found, m.emails)
                      /\ \A q \in Runners : m.gen = proc'[q].gen
                           => m.emails \cap proc'[q].hits = {}
    BY DEF MessagesKnown, FoundOnce
  <2>1. m.gen \in Nat /\ m.gen <= gen /\ FoundOnce(m.found, m.emails)
    BY DEF TypeOK, Message, RowInv, MessagesKnown
  <2>2. m.gen # proc'[p].gen
    BY <1>0, <1>1, <1>2, <2>1
  <2>3. \A q \in Runners \ {p} : m.gen = proc'[q].gen
          => m.emails \cap proc'[q].hits = {}
    BY <1>1 DEF RowInv, MessagesKnown
  <2>4. QED
    BY <1>0, <2>1, <2>2, <2>3
<1>6. RowsKnown'
  <2> SUFFICES ASSUME NEW r \in rows
               PROVE  /\ r.gen <= gen'
                      /\ \A q \in Runners :
                           r.gen = proc'[q].gen /\ r.email \in proc'[q].hits
                           => \E c \in proc'[q].wrote : r.email \in c
    BY DEF RowsKnown
  <2>1. r.gen \in Nat /\ r.gen <= gen
    BY DEF TypeOK, Row, RowInv, RowsKnown
  <2>2. r.gen # proc'[p].gen
    BY <1>0, <1>1, <1>2, <2>1
  <2>3. \A q \in Runners \ {p} :
          r.gen = proc'[q].gen /\ r.email \in proc'[q].hits
          => \E c \in proc'[q].wrote : r.email \in c
    BY <1>1 DEF RowInv, RowsKnown
  <2>4. QED
    BY <1>0, <2>1, <2>2, <2>3
<1>7. OneRowPerGeneration'
  BY DEF RowInv, OneRowPerGeneration
<1>8. QED
  BY <1>3, <1>4, <1>5, <1>6, <1>7 DEF RowInv

LEMMA PrepareTasksKeeps ==
  ASSUME TypeOK, RowInv, PrepareTasks
  PROVE  RowInv'
<1>1. PICK cut \in Cuts(Emails), hits \in SUBSET Cacheable :
        proc' = [proc EXCEPT ![Preparer] =
                   Working("enqueue", gen + 1, TRUE, cut, hits)]
  BY DEF PrepareTasks
<1>2. Preparer \in Runners /\ gen' = gen + 1 /\ UNCHANGED <<rows, msgs>>
  BY DEF PrepareTasks, Runners
<1>3. QED
  BY <1>1, <1>2, NewPlanKeeps

LEMMA RequeueTasksKeeps ==
  ASSUME TypeOK, RowInv, NEW c \in Clients, RequeueTasks(c)
  PROVE  RowInv'
<1>1. PICK cut \in Cuts(Remaining),
           hits \in SUBSET (Cacheable \cap Remaining) :
        proc' = [proc EXCEPT ![c] = Working("clearFlag", gen + 1,
                                            proc[c].charge, cut, hits)]
  BY DEF RequeueTasks
<1>2. c \in Runners /\ gen' = gen + 1 /\ UNCHANGED <<rows, msgs>>
      /\ Remaining \in SUBSET Emails
  BY DEF RequeueTasks, Runners, Remaining
<1>3. QED
  BY <1>1, <1>2, NewPlanKeeps

(* A chunk goes out without the addresses that its handler answers itself. *)
LEMMA EnqueueChunkKeeps ==
  ASSUME TypeOK, RowInv, NEW p \in Runners, EnqueueChunk(p)
  PROVE  RowInv'
<1>1. PICK c \in Unsent(p) :
        /\ msgs' = msgs \cup {[gen |-> proc[p].gen, chunk |-> c,
                               emails |-> Misses(p, c), retried |-> 0,
                               phase |-> "pending", found |-> {}]}
        /\ proc' = [proc EXCEPT ![p].sent = @ \cup {c}]
  BY DEF EnqueueChunk
<1> DEFINE x == [gen |-> proc[p].gen, chunk |-> c, emails |-> Misses(p, c),
                 retried |-> 0, phase |-> "pending", found |-> {}]
<1>2. gen' = gen /\ rows' = rows
  BY DEF EnqueueChunk
<1>3. \A q \in Runners : SameWrites(proc'[q], proc[q])
  <2>1. proc' = [proc EXCEPT ![p].sent = @ \cup {c}]
    BY <1>1
  <2>2. QED
    BY <2>1 DEF TypeOK, Proc, SameWrites
<1>4. proc[p].gen > 0
  BY DEF TypeOK, Proc, RowInv, OwnGeneration, Unsent, EnqueueChunk
<1>5. OwnGeneration' /\ DisjointChunks' /\ RowsKnown' /\ OneRowPerGeneration'
  <2>1. OwnGeneration'
    BY <1>2, <1>3 DEF RowInv, OwnGeneration, SameWrites
  <2>2. DisjointChunks'
    BY <1>3 DEF RowInv, DisjointChunks, SameWrites
  <2>3. RowsKnown'
    BY <1>2, <1>3 DEF RowInv, RowsKnown, SameWrites
  <2>4. OneRowPerGeneration'
    BY <1>2 DEF RowInv, OneRowPerGeneration
  <2>5. QED
    BY <2>1, <2>2, <2>3, <2>4
<1>6. MessagesKnown'
  <2>1. ASSUME NEW m \in msgs
        PROVE  /\ m.gen <= gen /\ FoundOnce(m.found, m.emails)
               /\ \A q \in Runners : m.gen = proc'[q].gen
                    => m.emails \cap proc'[q].hits = {}
    BY <1>3 DEF RowInv, MessagesKnown, SameWrites
  <2>2. x.gen <= gen /\ FoundOnce(x.found, x.emails)
    BY DEF RowInv, OwnGeneration, FoundOnce
  <2>3. ASSUME NEW q \in Runners, x.gen = proc'[q].gen
        PROVE  x.emails \cap proc'[q].hits = {}
    <3>1. q = p
      BY <1>3, <1>4, <2>3 DEF RowInv, OwnGeneration, SameWrites
    <3>2. QED
      BY <1>3, <3>1 DEF Misses, SameWrites
  <2>4. msgs' = msgs \cup {x}
    BY <1>1
  <2>5. QED
    BY <1>2, <2>1, <2>2, <2>3, <2>4 DEF MessagesKnown, FoundOnce
<1>7. QED
  BY <1>5, <1>6 DEF RowInv

(* The rows of a set of results that holds one verdict per address.        *)
LEMMA RowsForOnce ==
  ASSUME NEW found, NEW S, FoundOnce(found, S), NEW g, NEW by
  PROVE  /\ \A r \in RowsFor(found, g, by) : r.gen = g /\ r.email \in S
         /\ \A r, s \in RowsFor(found, g, by) : r.email = s.email => r = s
  BY DEF RowsFor, FoundOnce

(* Hits of a chunk are written once, and no report can have written them.  *)
LEMMA PersistHitsKeeps ==
  ASSUME TypeOK, RowInv, NEW p \in Runners, PersistHits(p)
  PROVE  RowInv'
<1>1. PICK c \in Unwritten(p) : \E hits \in Outcomes(Hits(p, c)) :
        PersistHitsOf(p, c, hits)
  BY DEF PersistHits
<1>2. PICK hits \in Outcomes(Hits(p, c)) : PersistHitsOf(p, c, hits)
  BY <1>1
<1> DEFINE new == RowsFor(hits, proc[p].gen, "cache")
<1>3. rows' = rows \cup new
  BY <1>2 DEF PersistHitsOf
<1>4. /\ \A r \in new : r.gen = proc[p].gen /\ r.email \in Hits(p, c)
      /\ \A r, s \in new : r.email = s.email => r = s
  BY OutcomesOnce, RowsForOnce
<1>5. gen' = gen /\ msgs' = msgs
  BY DEF PersistHits
<1>6. /\ \A q \in Runners : /\ proc'[q].gen = proc[q].gen
                             /\ proc'[q].chunks = proc[q].chunks
                             /\ proc'[q].hits = proc[q].hits
      /\ \A q \in Runners \ {p} : proc'[q].wrote = proc[q].wrote
      /\ proc'[p].wrote = proc[p].wrote \cup {c}
  <2>1. proc' = [proc EXCEPT ![p].wrote = @ \cup {c}]
    BY <1>2 DEF PersistHitsOf
  <2>2. QED
    BY <2>1 DEF TypeOK, Proc
<1>7. c \in proc[p].chunks /\ c \notin proc[p].wrote
  BY DEF Unwritten
<1>8. proc[p].gen > 0
  BY <1>7 DEF TypeOK, Proc, RowInv, OwnGeneration
<1>9. OwnGeneration'
  BY <1>5, <1>6 DEF RowInv, OwnGeneration
<1>10. DisjointChunks'
  BY <1>6, <1>7 DEF RowInv, DisjointChunks
<1>11. MessagesKnown'
  BY <1>5, <1>6 DEF RowInv, MessagesKnown
<1>12. RowsKnown'
  <2>1. ASSUME NEW r \in rows, NEW q \in Runners,
               r.gen = proc[q].gen, r.email \in proc[q].hits
        PROVE  \E d \in proc'[q].wrote : r.email \in d
    <3>1. PICK d \in proc[q].wrote : r.email \in d
      BY <2>1 DEF RowInv, RowsKnown
    <3>2. d \in proc'[q].wrote
      BY <1>6, <3>1
    <3>3. QED
      BY <3>1, <3>2
  <2>2. ASSUME NEW r \in new, NEW q \in Runners, r.gen = proc[q].gen
        PROVE  \E d \in proc'[q].wrote : r.email \in d
    <3>1. q = p
      BY <1>4, <1>8, <2>2 DEF RowInv, OwnGeneration
    <3>2. r.email \in c
      BY <1>4, <2>2 DEF Hits
    <3>3. QED
      BY <1>6, <3>1, <3>2
  <2>3. ASSUME NEW r \in rows' PROVE r.gen <= gen'
    BY <1>3, <1>4, <1>5, <2>3 DEF RowInv, RowsKnown, OwnGeneration
  <2>4. QED
    BY <1>3, <1>6, <2>1, <2>2, <2>3 DEF RowsKnown
<1>13. OneRowPerGeneration'
  <2>1. ASSUME NEW r \in rows, NEW s \in new, r.email = s.email, r.gen = s.gen
        PROVE  FALSE
    <3>1. r.gen = proc[p].gen /\ r.email \in proc[p].hits /\ r.email \in c
      BY <1>4, <2>1 DEF Hits
    <3>2. PICK d \in proc[p].wrote : r.email \in d
      BY <3>1 DEF RowInv, RowsKnown
    <3>3. d = c
      BY <1>7, <3>1, <3>2 DEF RowInv, DisjointChunks
    <3>4. QED
      BY <1>7, <3>2, <3>3
  <2>2. QED
    BY <1>3, <1>4, <2>1 DEF RowInv, OneRowPerGeneration
<1>14. QED
  BY <1>9, <1>10, <1>11, <1>12, <1>13 DEF RowInv

(* A report adds the addresses that have no row yet, of an open task: the  *)
(* handler of that task answers none of them.                              *)
LEMMA ReportKeeps ==
  ASSUME TypeOK, RowInv, NEW m \in msgs, ReportTaskResults(m),
         \A x \in msgs' : \E z \in msgs : MovedOn(x, z)
  PROVE  RowInv'
<1>1. gen' = gen /\ proc' = proc
  BY DEF ReportTaskResults
<1>2. CASE rows' = rows
  <2>1. Quiet
    BY <1>1, <1>2, SamePlans DEF Quiet
  <2>2. QED
    BY <2>1, QuietKeeps
<1>3. CASE rows' # rows
  <2> DEFINE new == RowsFor(Fresh(m), gen, "worker")
  <2>1. rows' = rows \cup new /\ m.gen = gen
    BY <1>3 DEF ReportTaskResults, Accepts
  <2>2. FoundOnce(m.found, m.emails) /\ FoundOnce(Fresh(m), m.emails \ Recorded)
    BY DEF RowInv, MessagesKnown, FoundOnce, Fresh
  <2>3. /\ \A r \in new : r.gen = gen /\ r.email \in m.emails \ Recorded
        /\ \A r, s \in new : r.email = s.email => r = s
    BY <2>2, RowsForOnce
  <2>4. OwnGeneration' /\ DisjointChunks'
    BY <1>1 DEF RowInv, OwnGeneration, DisjointChunks
  <2>5. MessagesKnown'
    <3> SUFFICES ASSUME NEW x \in msgs'
                 PROVE  /\ x.gen <= gen
                        /\ FoundOnce(x.found, x.emails)
                        /\ \A p \in Runners : x.gen = proc[p].gen
                             => x.emails \cap proc[p].hits = {}
      BY <1>1 DEF MessagesKnown, FoundOnce
    <3>1. PICK z \in msgs : MovedOn(x, z)
      OBVIOUS
    <3>2. QED
      BY <3>1 DEF MovedOn, RowInv, MessagesKnown
  <2>6. RowsKnown'
    <3>1. ASSUME NEW r \in new, NEW p \in Runners,
                 r.gen = proc[p].gen, r.email \in proc[p].hits
          PROVE  FALSE
      <4>1. m.emails \cap proc[p].hits = {}
        BY <2>1, <2>3, <3>1 DEF RowInv, MessagesKnown
      <4>2. QED
        BY <2>3, <3>1, <4>1
    <3>2. \A r \in new : r.gen <= gen
      BY <2>3 DEF TypeOK
    <3>3. QED
      BY <1>1, <2>1, <3>1, <3>2 DEF RowInv, RowsKnown
  <2>7. OneRowPerGeneration'
    BY <2>1, <2>3 DEF RowInv, OneRowPerGeneration, Recorded
  <2>8. QED
    BY <2>4, <2>5, <2>6, <2>7 DEF RowInv
<1>4. QED
  BY <1>2, <1>3

-----------------------------------------------------------------------------
LEMMA RowStep ==
  ASSUME TypeOK, RowInv, [Next]_vars
  PROVE  RowInv'
<1>1. CASE PrepareMessage \/ PrepareSlotBusy \/ PrepareTasksFail
           \/ PrepareHandler
  BY <1>1, PrepareTasksKeeps, QuietPrepare, QuietKeeps DEF PrepareHandler
<1>2. ASSUME NEW p \in Runners, Enqueue(p) \/ EnqueueError(p) \/ Crash(p)
      PROVE  RowInv'
  BY <1>2, EnqueueChunkKeeps, PersistHitsKeeps, QuietRunner, QuietKeeps
  DEF Enqueue
<1>3. ASSUME NEW c \in Clients, Request(c) \/ Continue(c)
      PROVE  RowInv'
  BY <1>3, RequeueTasksKeeps, QuietRequest, QuietContinue, QuietKeeps
<1>4. ASSUME NEW m \in msgs, WorkerStep(m) \/ WorkerError(m)
      PROVE  RowInv'
  <2>1. CASE Report(m) \/ ReportUnanswered(m)
    <3>1. ReportTaskResults(m)
      BY <2>1 DEF Report, ReportUnanswered
    <3>2. \A x \in msgs : MovedOn(x, x)
      BY DEF RowInv, MessagesKnown, MovedOn
    <3>3. \A x \in msgs' : \E z \in msgs : MovedOn(x, z)
      BY <2>1, <3>2, FailedMovedOn DEF Report, ReportUnanswered
    <3>4. QED
      BY <3>1, <3>3, ReportKeeps
  <2>2. CASE ~(Report(m) \/ ReportUnanswered(m))
    BY <1>4, <2>2, QuietWorker, QuietKeeps DEF WorkerStep, WorkerError
  <2>3. QED
    BY <2>1, <2>2
<1>5. CASE LockExpires \/ PauseCacheExpires \/ UNCHANGED vars
  <2>1. gen' = gen /\ rows' = rows /\ msgs' = msgs /\ proc' = proc
    BY <1>5 DEF LockExpires, PauseCacheExpires, vars
  <2>2. QED
    BY <2>1, SameMessages, SamePlans, QuietKeeps DEF Quiet
<1>6. QED
  BY <1>1, <1>2, <1>3, <1>4, <1>5 DEF Next

(* One generation of tasks writes at most one row for an address: through  *)
(* crashes, retried chunks, repeated reports and any number of concurrent  *)
(* requests.                                                               *)
THEOREM GenerationWritesOnce == Spec => []OneRowPerGeneration
<1>1. RowInv => OneRowPerGeneration
  BY DEF RowInv
<1>2. QED
  BY TypeCorrect, RowInit, RowStep, <1>1, PTL DEF Spec
=============================================================================
