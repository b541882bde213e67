------------------------------ MODULE BulkJob ------------------------------
(***************************************************************************)
(* The life of one bulk verification job after it has been accepted:       *)
(* prepare (backend/internal/service/job_service.go), the user's pause,    *)
(* resume, retry and delete requests, the Asynq chunk messages that the    *)
(* SMTP workers execute (worker/internal/queue/handlers.go) and the        *)
(* reports they push (backend/internal/service/worker_service.go).         *)
(*                                                                         *)
(* One step is one database transaction, one Redis command or one Asynq    *)
(* operation: everything a handler holds between two of them is local, and *)
(* other handlers run in between.  The job_results rows carry, besides the *)
(* columns of the table, the generation of tasks they were written for and *)
(* who wrote them, so that a duplicate stays a row of its own.             *)
(*                                                                         *)
(* A generation is one (re)creation of the job's job_tasks: every prepare  *)
(* attempt and every resume or retry deletes all task rows and inserts new *)
(* ones, so a task identifier is a generation and a chunk of addresses.    *)
(***************************************************************************)
EXTENDS Integers, FiniteSets

CONSTANTS
  Emails,        \* the list's addresses that pass the mailbox-syntax filter
  InvalidSyntax, \* how many addresses of the list do not (never charged)
  ChunkSize,     \* the largest chunk BuildDynamicChunks makes
  Cacheable,     \* addresses the email cache or the domain table may answer
  Verdicts,      \* what a verification may conclude
  Clients,       \* API requests on this job that may be in flight together
  Preparer,      \* the Asynq handler of job:bulk:prepare
  Balance,       \* the owner's credits left once the job was accepted
  PrepareRetries,        \* Asynq MaxRetry of the prepare message
  ChunkRetries,          \* Asynq MaxRetry of a chunk message
  StalePauseReads,       \* TRUE: workers cache the pause flag for a while
  RequestsWhilePreparing,\* TRUE: the user may act before prepare returns
  Limits                 \* how often each kind of environment event happens

ASSUME ConstantsAssumption ==
  /\ IsFiniteSet(Emails) /\ Emails # {}
  /\ InvalidSyntax \in Nat
  /\ ChunkSize \in Nat \ {0}
  /\ Cacheable \subseteq Emails
  /\ Verdicts # {} /\ Verdicts \subseteq {"conclusive", "unknown"}
  /\ Preparer \notin Clients
  /\ Balance \in Nat
  /\ PrepareRetries \in Nat
  /\ ChunkRetries \in Nat
  /\ StalePauseReads \in BOOLEAN
  /\ RequestsWhilePreparing \in BOOLEAN

\* The bounds of the environment: user requests, API crashes, prepare attempts
\* that find no free slot, failed Asynq enqueues, failed writes of prepare,
\* chunk executions that end in an error, reports answered 4xx.
Events == {"request", "crash", "slot", "enqueue", "persist", "chunk", "refused"}

ASSUME LimitsAssumption == Limits \in [Events -> Nat]

VARIABLES
  status,     \* jobs.status; "deleted" once the row is soft-deleted
  processed,  \* jobs.processed_count
  risky,      \* jobs.risky, the count of unknown verdicts
  gen,        \* the generation of the live job_tasks rows
  tasks,      \* job_tasks: chunk -> pushed_count and status
  rows,       \* job_results
  ledger,     \* what the transactions table says this job cost and returned
  flag,       \* the Redis key bulk:job:paused:<job>
  seen,       \* the worker's cached copy of the flag, or "none"
  prep,       \* the prepare message: phase and retry count
  lock,       \* the Redis key bulk:prepare:lock:<job>
  proc,       \* local state of the prepare handler and of each request
  msgs,       \* chunk messages, waiting in Asynq or held by a worker
  budget      \* environment events left

jobVars == <<status, processed, risky>>
vars == <<status, processed, risky, gen, tasks, rows, ledger, flag, seen,
          prep, lock, proc, msgs, budget>>

-----------------------------------------------------------------------------
(* Types.                                                                  *)

Statuses == {"preparing", "pending", "processing", "paused",
             "completed", "failed", "deleted"}
TaskStatuses == {"queued", "processing", "completed", "failed"}
PrepPhases == {"queued", "active", "exhausted", "failing", "gone"}
ProcSteps == {"idle", "loaded", "checked", "enqueue", "rollback", "refund",
              "restoreFlag", "restore", "setFlag", "pause", "unpause",
              "purge", "requeue", "clearFlag", "wipe", "drop", "stop", "cancel"}

Chunks == SUBSET Emails \ {{}}
Runners == Clients \cup {Preparer}
Result == [email: Emails, verdict: {"conclusive", "unknown"}]
Row == [email: Emails, verdict: {"conclusive", "unknown"}, gen: Nat,
        by: {"cache", "worker"}]
Message == [gen: Nat, chunk: Chunks, emails: SUBSET Emails, retried: Nat,
            phase: {"pending", "active", "post", "dead"},
            found: SUBSET Result]

(* What a handler of this job keeps in local variables between its steps:  *)
(* which tasks it created, how their addresses were classified, and how    *)
(* far it has come.                                                        *)
Proc == [step: ProcSteps, gen: Nat, charge: BOOLEAN,
         chunks: SUBSET Chunks, hits: SUBSET Emails,
         sent: SUBSET Chunks, wrote: SUBSET Chunks,
         total: Nat, unknown: Nat]

Working(step, g, charge, chunks, hits) ==
  [step |-> step, gen |-> g, charge |-> charge, chunks |-> chunks,
   hits |-> hits, sent |-> {}, wrote |-> {}, total |-> 0, unknown |-> 0]

Idle == Working("idle", 0, FALSE, {}, {})

-----------------------------------------------------------------------------
(* Helpers.                                                                *)

Total == Cardinality(Emails) + InvalidSyntax
Live == status # "deleted"
Recorded == {r.email : r \in rows}
Unknowns(found) == Cardinality({f \in found : f.verdict = "unknown"})

\* The owner's credits: the ledger starts with the charge of SubmitBulkJob.
Credits == Balance + Cardinality(Emails) - ledger.charged + ledger.refunded

(* The cuts of a set of addresses that PrepareQueue may make: every        *)
(* address in exactly one chunk, no chunk empty or over the size.          *)
Cuts(S) ==
  {P \in SUBSET (SUBSET S \ {{}}) :
     /\ UNION P = S
     /\ \A c \in P : Cardinality(c) <= ChunkSize
     /\ \A c, d \in P : c = d \/ c \cap d = {}}

(* Every way a set of addresses may come out of verification.              *)
Outcomes(S) == {{[email |-> e, verdict |-> f[e]] : e \in S} :
                  f \in [S -> Verdicts]}

(* The rows a set of verification results becomes.                         *)
RowsFor(found, g, by) ==
  {[email |-> f.email, verdict |-> f.verdict, gen |-> g, by |-> by] :
     f \in found}

Spend(event) ==
  /\ budget[event] > 0
  /\ budget' = [budget EXCEPT ![event] = @ - 1]

NewTasks(cut) == [c \in cut |-> [pushed |-> 0, status |-> "queued"]]
TasksMarked(s) == [c \in DOMAIN tasks |-> [tasks[c] EXCEPT !.status = s]]
Capped(n, size) == IF n > size THEN size ELSE n

\* The ledger once n credits are given back.
Refunded(n) == [charged |-> ledger.charged, refunded |-> ledger.refunded + n,
                refunds |-> ledger.refunds + 1]

(* Mutant: a task is complete as soon as any of its results is in.         *)
TaskAfterAny(chunk, n) ==
  [pushed |-> Capped(tasks[chunk].pushed + n, Cardinality(chunk)),
   status |-> "completed"]

(* pushed_count and status of a task once n more of its results are in.    *)
TaskAfter(chunk, n) ==
  LET t == tasks[chunk]
      size == Cardinality(chunk)
  IN  [pushed |-> Capped(t.pushed + n, size),
       status |-> IF t.pushed + n >= size THEN "completed" ELSE "processing"]

(* Mutants: only the last report's unknowns are refunded; unknowns are     *)
(* refunded before the job is complete; the last result is never enough.   *)
ProgressOf(n, u, total, done, back) ==
  LET next == IF processed + n >= total THEN "completed"
              ELSE IF status = "paused" THEN "paused" ELSE "processing"
  IN  /\ processed' = processed + n
      /\ risky' = risky + u
      /\ status' = next
      /\ ledger' = IF next \in done /\ back > 0 /\ ledger.refunds = 0
                   THEN Refunded(back) ELSE ledger
ProgressLastOnly(n, u) == ProgressOf(n, u, Total, {"completed"}, u)
ProgressTooEarly(n, u) == ProgressOf(n, u, Total, Statuses, risky + u)
ProgressNeverDone(n, u) ==
  ProgressOf(n, u, Total + 1, {"completed"}, risky + u)

(* The counters of the job once n more rows, u of them unknown, are in;    *)
(* a job whose unknowns are final gets their credits back, unless some     *)
(* refund already names the job.                                           *)
Progress(n, u) == ProgressOf(n, u, Total, {"completed"}, risky + u)

(* Mutant: only the addresses without a result are refunded.               *)
RefundUnusedOnly(n) ==
  /\ status' = IF Live THEN "failed" ELSE status
  /\ tasks' = TasksMarked("failed")
  /\ ledger' = Refunded(n - Cardinality(rows))
  /\ flag' = FALSE
  /\ UNCHANGED <<processed, risky>>

(* RefundJob: the job and its tasks fail, n credits return, whatever the   *)
(* state of the job.                                                       *)
RefundJob(n) ==
  /\ status' = IF Live THEN "failed" ELSE status
  /\ tasks' = TasksMarked("failed")
  /\ ledger' = Refunded(n)
  /\ flag' = FALSE
  /\ UNCHANGED <<processed, risky>>

(* The messages of handler p that Asynq can still delete: a chunk that a   *)
(* worker has started stays.                                               *)
Deletable(p) == {m \in msgs : m.gen = proc[p].gen /\ m.phase = "pending"}

Listed(p) == UNION proc[p].chunks
MissesAll(p, c) == c  \* mutant: the whole chunk is enqueued
Misses(p, c) == c \ proc[p].hits
Hits(p, c) == c \cap proc[p].hits
Unsent(p) == {c \in proc[p].chunks \ proc[p].sent : Misses(p, c) # {}}
Unwritten(p) == {c \in proc[p].chunks \ proc[p].wrote : Hits(p, c) # {}}

Goto(p, step) == proc' = [proc EXCEPT ![p].step = step]
Finish(p) == proc' = [proc EXCEPT ![p] = Idle]

-----------------------------------------------------------------------------
(* The job was just accepted: charged, its prepare message enqueued.       *)

Init ==
  /\ status = "preparing"
  /\ processed = InvalidSyntax
  /\ risky = 0
  /\ gen = 0
  /\ tasks = NewTasks({})
  /\ rows = {}
  /\ ledger = [charged |-> Cardinality(Emails), refunded |-> 0, refunds |-> 0]
  /\ flag = FALSE
  /\ seen = "none"
  /\ prep = [phase |-> "queued", retried |-> 0]
  /\ lock = "free"
  /\ proc = [p \in Runners |-> Idle]
  /\ msgs = {}
  /\ budget = Limits

-----------------------------------------------------------------------------
(* PrepareBulkJob.                                                         *)

(* Asynq's answer to a prepare attempt that returned an error.  Mutant: one *)
(* attempt too many.                                                       *)
PrepareFailedOnceMore ==
  prep' = IF prep.retried <= PrepareRetries
          THEN [phase |-> "queued", retried |-> prep.retried + 1]
          ELSE [prep EXCEPT !.phase = "exhausted"]

PrepareFailed ==
  prep' = IF prep.retried < PrepareRetries
          THEN [phase |-> "queued", retried |-> prep.retried + 1]
          ELSE [prep EXCEPT !.phase = "exhausted"]

PrepareDone == prep' = [prep EXCEPT !.phase = "gone"]

(* The attempt ends before it holds anything: a job already prepared is a  *)
(* success, a paused or deleted job and a lock held elsewhere are errors.  *)
PrepareSkip ==
  /\ prep.phase = "queued"
  /\ status # "preparing" \/ lock # "free"
  /\ IF status \in {"pending", "processing", "completed", "failed"}
     THEN PrepareDone ELSE PrepareFailed
  /\ UNCHANGED <<jobVars, gen, tasks, rows, ledger, flag, seen, lock, proc,
                 msgs, budget>>

(* acquireClusterPrepareSlot refuses: the attempt is spent on nothing.      *)
PrepareSlotBusy ==
  /\ prep.phase = "queued"
  /\ Spend("slot")
  /\ PrepareFailed
  /\ UNCHANGED <<jobVars, gen, tasks, rows, ledger, flag, seen, lock, proc,
                 msgs>>

PrepareStart ==
  /\ prep.phase = "queued"
  /\ status = "preparing"
  /\ lock = "free"
  /\ lock' = "held"
  /\ prep' = [prep EXCEPT !.phase = "active"]
  /\ Goto(Preparer, "loaded")
  /\ UNCHANGED <<jobVars, gen, tasks, rows, ledger, flag, seen, msgs, budget>>

(* The transaction of prepare starts with a look at the status.  It takes  *)
(* no lock on the row: what others commit next goes unseen.                *)
PrepareCheck ==
  /\ proc[Preparer].step = "loaded"
  /\ status = "preparing"
  /\ Goto(Preparer, "checked")
  /\ UNCHANGED <<jobVars, gen, tasks, rows, ledger, flag, seen, prep, lock,
                 msgs, budget>>

(* Then it replaces the job's tasks; the classification that follows       *)
(* touches nothing shared.                                                 *)
PrepareTasks ==
  /\ proc[Preparer].step = "checked"
  /\ \E cut \in Cuts(Emails), hits \in SUBSET Cacheable :
       /\ tasks' = NewTasks(cut)
       /\ proc' = [proc EXCEPT ![Preparer] =
                     Working("enqueue", gen + 1, TRUE, cut, hits)]
  /\ gen' = gen + 1
  /\ UNCHANGED <<jobVars, rows, ledger, flag, seen, prep, lock, msgs, budget>>

(* The transaction finds the job no longer preparing: nothing to do.       *)
PrepareClaimed ==
  /\ proc[Preparer].step = "loaded"
  /\ status # "preparing"
  /\ PrepareDone
  /\ lock' = "free"
  /\ Finish(Preparer)
  /\ UNCHANGED <<jobVars, gen, tasks, rows, ledger, flag, seen, msgs, budget>>

(* The source cannot be read or the transaction fails: the list is         *)
(* refunded and the attempt is an error.                                   *)
PrepareTasksFail ==
  /\ proc[Preparer].step \in {"loaded", "checked"}
  /\ Spend("persist")
  /\ RefundJob(Cardinality(Emails))
  /\ PrepareFailed
  /\ lock' = "free"
  /\ Finish(Preparer)
  /\ UNCHANGED <<gen, rows, seen, msgs>>

(* Every chunk is out and every hit recorded: the job becomes pending      *)
(* unless a report has moved it on already.                                *)
MarkPending ==
  /\ proc[Preparer].step = "enqueue"
  /\ Unsent(Preparer) = {} /\ Unwritten(Preparer) = {}
  /\ status' = IF status = "preparing" THEN "pending" ELSE status
  /\ PrepareDone
  /\ lock' = "free"
  /\ Finish(Preparer)
  /\ UNCHANGED <<processed, risky, gen, tasks, rows, ledger, flag, seen, msgs,
                 budget>>

(* The error handler of the last attempt: FailPreparingJob reads the       *)
(* status, then refunds.                                                   *)
FailPreparingRead ==
  /\ prep.phase = "exhausted"
  /\ prep' = [prep EXCEPT !.phase = IF status = "preparing" THEN "failing"
                                    ELSE "gone"]
  /\ UNCHANGED <<jobVars, gen, tasks, rows, ledger, flag, seen, lock, proc,
                 msgs, budget>>

FailPreparingJob ==
  /\ prep.phase = "failing"
  /\ RefundJob(Cardinality(Emails))
  /\ PrepareDone
  /\ UNCHANGED <<gen, rows, seen, lock, proc, msgs, budget>>

-----------------------------------------------------------------------------
(* enqueueBulkChunks, run by the prepare handler and by resume and retry.  *)

(* What becomes of the handler when the enqueue ends: prepare reports      *)
(* success to Asynq and drops its lock, a request returns to its caller.   *)
Return(p) ==
  /\ Finish(p)
  /\ IF p = Preparer THEN PrepareDone /\ lock' = "free"
                     ELSE UNCHANGED <<prep, lock>>

EnqueueChunk(p) ==
  /\ proc[p].step = "enqueue"
  /\ \E c \in Unsent(p) :
       /\ msgs' = msgs \cup {[gen |-> proc[p].gen, chunk |-> c,
                              emails |-> Misses(p, c), retried |-> 0,
                              phase |-> "pending", found |-> {}]}
       /\ proc' = [proc EXCEPT ![p].sent = @ \cup {c}]
  /\ UNCHANGED <<jobVars, gen, tasks, rows, ledger, flag, seen, prep, lock,
                 budget>>

(* A chunk cannot be enqueued: the ones already in Asynq are cancelled.    *)
EnqueueFails(p) ==
  /\ proc[p].step = "enqueue"
  /\ Unsent(p) # {}
  /\ Spend("enqueue")
  /\ msgs' = msgs \ Deletable(p)
  /\ Goto(p, IF proc[p].charge THEN "refund" ELSE "restoreFlag")
  /\ UNCHANGED <<jobVars, gen, tasks, rows, ledger, flag, seen, prep, lock>>

(* Prepare and retry own the credits of their addresses: they go back.     *)
RefundEnqueue(p) ==
  /\ proc[p].step = "refund"
  /\ RefundJob(Cardinality(Listed(p)))
  /\ Return(p)
  /\ UNCHANGED <<gen, rows, seen, msgs, budget>>

(* Resume keeps the credits and puts the job back to paused, whatever has  *)
(* become of it meanwhile: first the flag, then the status.                *)
RestoreFlag(p) ==
  /\ proc[p].step = "restoreFlag"
  /\ flag' = TRUE
  /\ Goto(p, "restore")
  /\ UNCHANGED <<jobVars, gen, tasks, rows, ledger, seen, prep, lock, msgs,
                 budget>>

RestorePaused(p) ==
  /\ proc[p].step = "restore"
  /\ status' = IF Live THEN "paused" ELSE status
  /\ Return(p)
  /\ UNCHANGED <<processed, risky, gen, tasks, rows, ledger, flag, seen, msgs,
                 budget>>

(* processCacheHits: the transaction that records the hits of one chunk.   *)
PersistHitsOf(p, c, hits) ==
  /\ rows' = rows \cup RowsFor(hits, proc[p].gen, "cache")
  /\ IF Live THEN Progress(Cardinality(hits), Unknowns(hits))
             ELSE UNCHANGED <<jobVars, ledger>>
  /\ tasks' = IF proc[p].gen = gen /\ c \in DOMAIN tasks
              THEN [tasks EXCEPT ![c] = TaskAfter(c, Cardinality(hits))]
              ELSE tasks
  /\ proc' = [proc EXCEPT ![p].wrote = @ \cup {c}]

(* It runs once per chunk, after every miss is in Asynq.                   *)
PersistHits(p) ==
  /\ proc[p].step = "enqueue"
  /\ Unsent(p) = {}
  /\ \E c \in Unwritten(p) : \E hits \in Outcomes(Hits(p, c)) :
       PersistHitsOf(p, c, hits)
  /\ UNCHANGED <<gen, flag, seen, prep, lock, msgs, budget>>

(* The hits already written are taken back.                                *)
Unwrite(p) ==
  {r \in rows : r.email \notin UNION {Hits(p, c) : c \in proc[p].wrote}}

Recount(w, left) ==
  [step |-> IF w.charge THEN "rollback" ELSE "restoreFlag",
   gen |-> w.gen, charge |-> w.charge,
   chunks |-> w.chunks, hits |-> w.hits, sent |-> w.sent, wrote |-> w.wrote,
   total |-> Cardinality(left), unknown |-> Unknowns(left)]

(* Writing hits fails: the messages that wait and the hits written so far  *)
(* go, and rollbackPrepareHitEmails counts what is left.                   *)
PersistHitsFail(p) ==
  /\ proc[p].step = "enqueue"
  /\ Unsent(p) = {} /\ Unwritten(p) # {}
  /\ Spend("persist")
  /\ msgs' = msgs \ Deletable(p)
  /\ rows' = Unwrite(p)
  /\ proc' = [proc EXCEPT ![p] = Recount(proc[p], Unwrite(p))]
  /\ UNCHANGED <<jobVars, gen, tasks, ledger, flag, seen, prep, lock>>

(* Its updates: the counters of the recount, and the job and tasks fail.   *)
RollbackHits(p) ==
  /\ proc[p].step = "rollback"
  /\ IF Live THEN /\ processed' = proc[p].total + InvalidSyntax
                  /\ risky' = proc[p].unknown
                  /\ status' = "failed"
             ELSE UNCHANGED jobVars
  /\ tasks' = TasksMarked("failed")
  /\ Goto(p, "refund")
  /\ UNCHANGED <<gen, rows, ledger, flag, seen, prep, lock, msgs, budget>>

(* A resume or retry has enqueued everything.                              *)
RequeueDone(c) ==
  /\ proc[c].step = "enqueue"
  /\ Unsent(c) = {} /\ Unwritten(c) = {}
  /\ Finish(c)
  /\ UNCHANGED <<jobVars, gen, tasks, rows, ledger, flag, seen, prep, lock,
                 msgs, budget>>

-----------------------------------------------------------------------------
(* The user's requests on the job.  Each starts with a plain read of the   *)
(* status; what it does with it comes in later steps.                      *)

Requests(c) ==
  /\ proc[c].step = "idle"
  /\ RequestsWhilePreparing \/ prep.phase = "gone"
  /\ Spend("request")
  /\ UNCHANGED <<jobVars, gen, tasks, rows, ledger, flag, seen, prep, lock,
                 msgs>>

PauseJob(c) ==
  /\ status \in {"pending", "processing"}
  /\ Goto(c, "setFlag")
  /\ Requests(c)

(* SetPaused in Redis, before the status of the row.                       *)
PauseSetFlag(c) ==
  /\ proc[c].step = "setFlag"
  /\ flag' = TRUE
  /\ Goto(c, "pause")
  /\ UNCHANGED <<jobVars, gen, tasks, rows, ledger, seen, prep, lock, msgs,
                 budget>>

(* Mutant: the update has no condition on the status.                      *)
PauseUpdateAlways(c) ==
  /\ proc[c].step = "pause"
  /\ status' = "paused"
  /\ Finish(c)
  /\ UNCHANGED <<processed, risky, gen, tasks, rows, ledger, flag, seen, prep,
                 lock, msgs, budget>>

PauseUpdate(c) ==
  /\ proc[c].step = "pause"
  /\ IF status \in {"pending", "processing"}
     THEN status' = "paused" /\ Finish(c)
     ELSE UNCHANGED status /\ Goto(c, "unpause")
  /\ UNCHANGED <<processed, risky, gen, tasks, rows, ledger, flag, seen, prep,
                 lock, msgs, budget>>

(* The update matched no row: the flag is cleared again.                   *)
PauseUndo(c) ==
  /\ proc[c].step = "unpause"
  /\ flag' = FALSE
  /\ Finish(c)
  /\ UNCHANGED <<jobVars, gen, tasks, rows, ledger, seen, prep, lock, msgs,
                 budget>>

(* ResumeJob takes a paused job, RetryJob a failed one that it charges.    *)
RequeueJob(c, charge) ==
  /\ status = IF charge THEN "failed" ELSE "paused"
  /\ proc' = [proc EXCEPT ![c] = Working("purge", 0, charge, {}, {})]
  /\ Requests(c)

(* purgeJobAsynqTasks: every message of the job that is not running.       *)
RequeuePurge(c) ==
  /\ proc[c].step = "purge"
  /\ msgs' = {m \in msgs : m.phase # "pending"}
  /\ prep' = IF prep.phase = "queued" THEN [prep EXCEPT !.phase = "gone"]
             ELSE prep
  /\ Goto(c, "requeue")
  /\ UNCHANGED <<jobVars, gen, tasks, rows, ledger, flag, seen, lock, budget>>

(* Mutants: the invalid addresses are forgotten; a retry is free; a resume  *)
(* queues the addresses it already has results for.                        *)
CountedWithoutInvalid == Capped(Cardinality(rows), Total)
FreeRetry(c) == 0
RemainingAll == Emails

Counted == Capped(Cardinality(rows) + InvalidSyntax, Total)
Expected(c) == status = IF proc[c].charge THEN "failed" ELSE "paused"
Remaining == Emails \ Recorded
Fee(c) == IF proc[c].charge THEN Cardinality(Remaining) ELSE 0

(* The transaction locks the job and finds work to queue again.            *)
RequeueTasks(c) ==
  /\ proc[c].step = "requeue"
  /\ Expected(c)
  /\ Remaining # {}
  /\ proc[c].charge => Credits >= Fee(c)
  /\ \E cut \in Cuts(Remaining), hits \in SUBSET (Cacheable \cap Remaining) :
       /\ tasks' = NewTasks(cut)
       /\ proc' = [proc EXCEPT ![c] = Working("clearFlag", gen + 1,
                                              proc[c].charge, cut, hits)]
  /\ gen' = gen + 1
  /\ status' = "pending"
  /\ processed' = Counted
  /\ ledger' = [ledger EXCEPT !.charged = @ + Fee(c)]
  /\ UNCHANGED <<risky, rows, flag, seen, prep, lock, msgs, budget>>

(* It finds every address recorded: the job is complete.                   *)
RequeueNothing(c) ==
  /\ proc[c].step = "requeue"
  /\ Expected(c)
  /\ Remaining = {}
  /\ status' = "completed"
  /\ processed' = Counted
  /\ flag' = FALSE
  /\ Finish(c)
  /\ UNCHANGED <<risky, gen, tasks, rows, ledger, seen, prep, lock, msgs,
                 budget>>

(* It finds another status, or too few credits, and rolls back.            *)
RequeueRefused(c) ==
  /\ proc[c].step = "requeue"
  /\ \/ ~Expected(c)
     \/ proc[c].charge /\ Credits < Fee(c)
  /\ Finish(c)
  /\ UNCHANGED <<jobVars, gen, tasks, rows, ledger, flag, seen, prep, lock,
                 msgs, budget>>

(* Mutant: the new chunks are queued under the old flag.                   *)
RequeueKeepFlag(c) ==
  /\ proc[c].step = "clearFlag"
  /\ Goto(c, "enqueue")
  /\ UNCHANGED <<jobVars, gen, tasks, rows, ledger, flag, seen, prep, lock,
                 msgs, budget>>

RequeueClearFlag(c) ==
  /\ proc[c].step = "clearFlag"
  /\ flag' = FALSE
  /\ Goto(c, "enqueue")
  /\ UNCHANGED <<jobVars, gen, tasks, rows, ledger, seen, prep, lock, msgs,
                 budget>>

(* DeleteJob: a finished job is wiped, a paused one is stopped first.      *)
DeleteJob(c) ==
  /\ \/ status \in {"completed", "failed"} /\ Goto(c, "wipe")
     \/ status = "paused" /\ Goto(c, "stop")
  /\ Requests(c)

DeleteResults(c) ==
  /\ proc[c].step = "wipe"
  /\ rows' = {}
  /\ Goto(c, "drop")
  /\ UNCHANGED <<jobVars, gen, tasks, ledger, flag, seen, prep, lock, msgs,
                 budget>>

(* jobRepo.Delete looks at the owner of the row, not at its status.        *)
DropJob(c) ==
  /\ proc[c].step = "drop"
  /\ IF Live THEN /\ status' = "deleted"
                  /\ rows' = {}
                  /\ tasks' = NewTasks({})
                  /\ flag' = FALSE
             ELSE UNCHANGED <<status, rows, tasks, flag>>
  /\ Finish(c)
  /\ UNCHANGED <<processed, risky, gen, ledger, seen, prep, lock, msgs,
                 budget>>

DeleteSetFlag(c) ==
  /\ proc[c].step = "stop"
  /\ flag' = TRUE
  /\ Goto(c, "cancel")
  /\ UNCHANGED <<jobVars, gen, tasks, rows, ledger, seen, prep, lock, msgs,
                 budget>>

(* The credits a paused job gives back when it is deleted: all it was      *)
(* accepted for, less its conclusive results.                              *)
Unused ==
  LET kept == Cardinality(rows) - Unknowns(rows)
  IN  IF kept > Cardinality(Emails) THEN 0 ELSE Cardinality(Emails) - kept

(* Mutant: the transaction does not check that the job is still paused.    *)
CancelAnyway(c) ==
  /\ proc[c].step = "cancel"
  /\ status' = "deleted"
  /\ rows' = {}
  /\ tasks' = NewTasks({})
  /\ flag' = FALSE
  /\ ledger' = Refunded(Unused)
  /\ Finish(c)
  /\ UNCHANGED <<processed, risky, gen, seen, prep, lock, msgs, budget>>

CancelPaused(c) ==
  /\ proc[c].step = "cancel"
  /\ status = "paused"
  /\ status' = "deleted"
  /\ rows' = {}
  /\ tasks' = NewTasks({})
  /\ flag' = FALSE
  /\ ledger' = IF Unused > 0 THEN Refunded(Unused) ELSE ledger
  /\ Finish(c)
  /\ UNCHANGED <<processed, risky, gen, seen, prep, lock, msgs, budget>>

(* The job moved on while the flag was being set: the flag stays.          *)
CancelRefused(c) ==
  /\ proc[c].step = "cancel"
  /\ status # "paused"
  /\ Finish(c)
  /\ UNCHANGED <<jobVars, gen, tasks, rows, ledger, flag, seen, prep, lock,
                 msgs, budget>>

-----------------------------------------------------------------------------
(* The SMTP workers.                                                       *)

(* IsPaused: the worker trusts its copy of the flag until that expires.    *)
PauseSeen == IF seen = "none" THEN flag ELSE seen = "paused"
LookAtFlag ==
  seen' = IF StalePauseReads /\ seen = "none"
          THEN (IF flag THEN "paused" ELSE "running") ELSE seen

\* A chunk message further on its way.
At(m, phase, retried, found) ==
  [gen |-> m.gen, chunk |-> m.chunk, emails |-> m.emails,
   retried |-> retried, phase |-> phase, found |-> found]

(* HandleEmailChunkTask acknowledges a chunk of a paused job untouched.    *)
SkipChunk(m) ==
  /\ m.phase = "pending"
  /\ PauseSeen
  /\ LookAtFlag
  /\ msgs' = msgs \ {m}
  /\ UNCHANGED <<jobVars, gen, tasks, rows, ledger, flag, prep, lock, proc,
                 budget>>

StartChunk(m) ==
  /\ m.phase = "pending"
  /\ ~PauseSeen
  /\ LookAtFlag
  /\ msgs' = (msgs \ {m}) \cup {At(m, "active", m.retried, {})}
  /\ UNCHANGED <<jobVars, gen, tasks, rows, ledger, flag, prep, lock, proc,
                 budget>>

(* The whole chunk is verified; what the budget cut off is unknown.        *)
FinishChunk(m) ==
  /\ m.phase = "active"
  /\ \E found \in Outcomes(m.emails) :
       msgs' = (msgs \ {m}) \cup {At(m, "post", m.retried, found)}
  /\ UNCHANGED <<jobVars, gen, tasks, rows, ledger, flag, seen, prep, lock,
                 proc, budget>>

(* The pause is noticed between two addresses: only the verified ones are  *)
(* reported, and a chunk without any is acknowledged.                      *)
StopChunk(m) ==
  /\ m.phase = "active"
  /\ PauseSeen
  /\ LookAtFlag
  /\ \E part \in SUBSET m.emails \ {m.emails} :
       IF part = {} THEN msgs' = msgs \ {m}
       ELSE \E found \in Outcomes(part) :
              msgs' = (msgs \ {m}) \cup {At(m, "post", m.retried, found)}
  /\ UNCHANGED <<jobVars, gen, tasks, rows, ledger, flag, prep, lock, proc,
                 budget>>

(* Mutant: the dead-letter handler reports no address.                     *)
FailedSilently(m) ==
  IF m.retried < ChunkRetries
  THEN At(m, "pending", m.retried + 1, {})
  ELSE At(m, "dead", m.retried, {})

(* The message of a chunk whose handler returned an error: Asynq retries   *)
(* it, and after the last attempt the dead-letter handler reports every    *)
(* address as unknown.                                                     *)
Failed(m) ==
  IF m.retried < ChunkRetries
  THEN At(m, "pending", m.retried + 1, {})
  ELSE At(m, "dead", m.retried, {[email |-> e, verdict |-> "unknown"] :
                                   e \in m.emails})

(* The handler fails before its report is recorded: the worker is disabled *)
(* or shuts down, the request is lost or answered 5xx.                     *)
ChunkFails(m) ==
  /\ m.phase # "dead"
  /\ Spend("chunk")
  /\ msgs' = (msgs \ {m}) \cup {Failed(m)}
  /\ UNCHANGED <<jobVars, gen, tasks, rows, ledger, flag, seen, prep, lock,
                 proc>>

(* A report answered 4xx (the worker's key was rotated) is not retried:     *)
(* Asynq archives the chunk, and main.go sends a dead-letter report only   *)
(* for the last attempt.                                                   *)
ReportRefused(m) ==
  /\ m.phase = "post"
  /\ Spend("refused")
  /\ msgs' = (msgs \ {m})
              \cup {n \in {Failed(m)} : m.retried >= ChunkRetries}
  /\ UNCHANGED <<jobVars, gen, tasks, rows, ledger, flag, seen, prep, lock,
                 proc>>

(* The dead-letter report is sent once; if it fails the chunk is lost.     *)
DeadLetterLost(m) ==
  /\ m.phase = "dead"
  /\ Spend("chunk")
  /\ msgs' = msgs \ {m}
  /\ UNCHANGED <<jobVars, gen, tasks, rows, ledger, flag, seen, prep, lock,
                 proc>>

(* ReportTaskResults takes results for a task that exists and is open, of  *)
(* a job that is not finished.                                             *)
Accepts(m) ==
  /\ status \in {"preparing", "pending", "processing", "paused"}
  /\ m.gen = gen
  /\ m.chunk \in DOMAIN tasks
  /\ tasks[m.chunk].status \in {"queued", "processing"}

\* Mutant: results are not compared with the rows.
FreshUnchecked(m) == m.found

Fresh(m) == {f \in m.found : f.email \notin Recorded}

(* Its transaction, and the end of the soft stop when the job is finished. *)
ReportTaskResults(m) ==
  /\ IF ~Accepts(m) THEN UNCHANGED <<jobVars, tasks, rows, ledger>>
     ELSE IF Fresh(m) = {}
     THEN /\ tasks' = [tasks EXCEPT ![m.chunk].status = "processing"]
          /\ UNCHANGED <<jobVars, rows, ledger>>
     ELSE /\ rows' = rows \cup RowsFor(Fresh(m), gen, "worker")
          /\ Progress(Cardinality(Fresh(m)), Unknowns(Fresh(m)))
          /\ tasks' = [tasks EXCEPT ![m.chunk] =
                         TaskAfter(m.chunk, Cardinality(Fresh(m)))]
  /\ flag' = IF status' \in {"completed", "failed"} THEN FALSE ELSE flag
  /\ UNCHANGED <<gen, seen, prep, lock, proc>>

(* The worker learns that its report arrived and acknowledges the chunk.   *)
Report(m) ==
  /\ m.phase \in {"post", "dead"}
  /\ ReportTaskResults(m)
  /\ msgs' = msgs \ {m}
  /\ UNCHANGED budget

(* The report is recorded but the answer is lost: Asynq retries the chunk. *)
ReportUnanswered(m) ==
  /\ m.phase = "post"
  /\ ReportTaskResults(m)
  /\ Spend("chunk")
  /\ msgs' = (msgs \ {m}) \cup {Failed(m)}

-----------------------------------------------------------------------------
(* The rest of the environment.                                            *)

(* The API process running a handler dies and takes its local state along. *)
(* A dead prepare leaves its lock behind, and Asynq, whose lease on the    *)
(* message runs out, delivers it again.                                    *)
Crash(p) ==
  /\ proc[p].step # "idle"
  /\ Spend("crash")
  /\ Finish(p)
  /\ IF p = Preparer
     THEN /\ lock' = "orphan"
          /\ prep' = IF prep.retried < PrepareRetries
                     THEN [phase |-> "queued", retried |-> prep.retried + 1]
                     ELSE [prep EXCEPT !.phase = "gone"]
     ELSE UNCHANGED <<lock, prep>>
  /\ UNCHANGED <<jobVars, gen, tasks, rows, ledger, flag, seen, msgs>>

LockExpires ==
  /\ lock = "orphan"
  /\ lock' = "free"
  /\ UNCHANGED <<jobVars, gen, tasks, rows, ledger, flag, seen, prep, proc,
                 msgs, budget>>

PauseCacheExpires ==
  /\ seen # "none"
  /\ seen' = "none"
  /\ UNCHANGED <<jobVars, gen, tasks, rows, ledger, flag, prep, lock, proc,
                 msgs, budget>>

-----------------------------------------------------------------------------
PrepareMessage == PrepareSkip \/ PrepareStart \/ FailPreparingRead
                  \/ FailPreparingJob

PrepareHandler == PrepareCheck \/ PrepareTasks \/ PrepareClaimed \/ MarkPending

Enqueue(p) == EnqueueChunk(p) \/ PersistHits(p) \/ RollbackHits(p)
              \/ RefundEnqueue(p) \/ RestoreFlag(p) \/ RestorePaused(p)

EnqueueError(p) == EnqueueFails(p) \/ PersistHitsFail(p)

Request(c) == PauseJob(c) \/ DeleteJob(c)
              \/ \E charge \in BOOLEAN : RequeueJob(c, charge)

Continue(c) ==
  \/ PauseSetFlag(c) \/ PauseUpdate(c) \/ PauseUndo(c)
  \/ RequeuePurge(c) \/ RequeueTasks(c) \/ RequeueNothing(c)
  \/ RequeueRefused(c) \/ RequeueClearFlag(c) \/ RequeueDone(c)
  \/ DeleteResults(c) \/ DropJob(c) \/ DeleteSetFlag(c)
  \/ CancelPaused(c) \/ CancelRefused(c)

WorkerStep(m) == SkipChunk(m) \/ StartChunk(m) \/ FinishChunk(m)
                 \/ StopChunk(m) \/ Report(m)

WorkerError(m) == ChunkFails(m) \/ ReportRefused(m) \/ DeadLetterLost(m)
                  \/ ReportUnanswered(m)

Next ==
  \/ PrepareMessage
  \/ PrepareHandler
  \/ PrepareSlotBusy
  \/ PrepareTasksFail
  \/ \E p \in Runners : Enqueue(p) \/ EnqueueError(p) \/ Crash(p)
  \/ \E c \in Clients : Request(c) \/ Continue(c)
  \/ \E m \in msgs : WorkerStep(m) \/ WorkerError(m)
  \/ LockExpires
  \/ PauseCacheExpires

Spec == Init /\ [][Next]_vars

(* Handlers that started run on, Asynq delivers what it holds, and keys    *)
(* with a TTL expire.  Nothing obliges the user, and no error must happen. *)
Fairness ==
  /\ WF_vars(PrepareMessage)
  /\ WF_vars(PrepareHandler)
  /\ \A p \in Runners : WF_vars(Enqueue(p))
  /\ \A c \in Clients : WF_vars(Continue(c))
  /\ WF_vars(\E m \in msgs : WorkerStep(m))
  /\ WF_vars(LockExpires)
  /\ WF_vars(PauseCacheExpires)

FairSpec == Spec /\ Fairness

-----------------------------------------------------------------------------
(* Properties.                                                             *)

(* The task rows belong to chunks of the list.                             *)
TasksOK ==
  /\ DOMAIN tasks \subseteq Chunks
  /\ tasks = [c \in DOMAIN tasks |-> tasks[c]]
  /\ \A c \in DOMAIN tasks :
       tasks[c] \in [pushed: 0..Cardinality(c), status: TaskStatuses]

(* Types of all variables; a task's pushed_count never exceeds its size.   *)
TypeOK ==
  /\ status \in Statuses
  /\ processed \in Nat
  /\ risky \in Nat
  /\ gen \in Nat
  /\ TasksOK
  /\ rows \subseteq Row /\ IsFiniteSet(rows)
  /\ ledger \in [charged: Nat, refunded: Nat, refunds: Nat]
  /\ flag \in BOOLEAN
  /\ seen \in {"none", "paused", "running"}
  /\ prep \in [phase: PrepPhases, retried: 0..PrepareRetries]
  /\ lock \in {"free", "held", "orphan"}
  /\ proc \in [Runners -> Proc]
  /\ msgs \subseteq Message
  /\ budget \in [Events -> Nat]

(* No job_results row is written twice for one address.  The table has no  *)
(* unique constraint: it rests on the order of prepare, requeue and        *)
(* report, each of which checks something else.                            *)
OneRowPerAddress ==
  \A r, s \in rows : r.email = s.email => r = s

(* Only a redelivered prepare may repeat an address: while it replaces the *)
(* tasks it has not locked the job, so a chunk of the attempt that died    *)
(* may report, and its cache hits are not compared with the rows.  So the  *)
(* repeated row is a hit of an attempt after a crash (attempts make the    *)
(* first generations), the other one an earlier worker's; a worker repeats *)
(* nothing, and no resume, retry or undisturbed prepare does.              *)
RepeatedByLateHit(r, s) ==
  /\ r.by = "cache" /\ s.by = "worker"
  /\ s.gen < r.gen
  /\ r.gen <= 1 + Limits["crash"] - budget["crash"]

RepeatsAreLateHits ==
  \A r, s \in rows :
    r.email = s.email
    => r = s \/ RepeatedByLateHit(r, s) \/ RepeatedByLateHit(s, r)

(* One generation of tasks writes at most one row for an address, whatever *)
(* else goes wrong: hits and misses of a generation do not overlap, and a  *)
(* report repeated by Asynq or the worker adds nothing.                    *)
OneRowPerGeneration ==
  \A r, s \in rows : r.email = s.email /\ r.gen = s.gen => r = s

(* The counters of a job that has not failed are those of its results,     *)
(* outside the moments in which a handler has removed rows and is about to *)
(* correct the counters or to drop the job.  (A requeue caps the count of  *)
(* the rows at the size of the list: duplicates of racing resumes are lost *)
(* there.)                                                                 *)
CountersMatchRows ==
  /\ status \notin {"failed", "deleted"}
  /\ OneRowPerAddress
  /\ \A p \in Runners : proc[p].step \notin {"rollback", "drop"}
  => /\ processed = InvalidSyntax + Cardinality(rows)
     /\ risky = Unknowns(rows)

(* A completed job cost exactly its conclusive results: the charge of the  *)
(* accept and of every retry, less every refund.                           *)
CompletedIsPaidExactly ==
  status = "completed" /\ (\A c \in Clients : proc[c].step # "drop")
  => ledger.charged - ledger.refunded = Cardinality(rows) - Unknowns(rows)

(* A failed job cost nothing, once the handler that failed it is done.     *)
FailedIsFree ==
  status = "failed" /\ (\A p \in Runners : proc[p].step # "refund")
  => ledger.charged = ledger.refunded

(* Where requests are served one at a time, a job that was never retried   *)
(* returns no more than it cost, whatever its chunks report meanwhile.  (A *)
(* retry charges what is left of a list that was refunded as a whole; the  *)
(* delete of such a job counts its unknowns again.  So does the delete of  *)
(* a completed job that a failed resume, racing another, has put back to   *)
(* paused.)                                                                *)
NeverOverRefunded ==
  ledger.charged = Cardinality(Emails) => ledger.refunded <= ledger.charged

(* A job the user sees running has a handler on its way to it, or a        *)
(* message for every address that is still open.                           *)
WorkInFlight ==
  status \in {"preparing", "pending", "processing"}
  => \/ \E p \in Runners : proc[p].step # "idle"
     \/ status = "preparing" /\ prep.phase # "gone"
     \/ /\ Remaining # {}
        /\ Remaining \subseteq UNION {m.emails : m \in {n \in msgs :
                                                          n.gen = gen}}

(* When no request is being served, the soft-stop flag is set for a paused *)
(* job and clear for a running one: workers obey the flag, not the status. *)
FlagFollowsStatus ==
  (\A c \in Clients : proc[c].step = "idle")
  => /\ status = "paused" => flag
     /\ status \in {"preparing", "pending", "processing"} => ~flag

(* A completed job is not worked on again, except that a resume or a retry *)
(* whose enqueue failed writes its paused or failed status without looking *)
(* at a job that another request has completed meanwhile.                  *)
CompletedStays ==
  [][status = "completed" =>
       \/ status' \in {"completed", "deleted"}
       \/ status' = "paused" /\ \E p \in Runners : proc[p].step = "restore"
       \/ /\ status' = "failed"
          /\ \E p \in Runners : proc[p].step \in {"rollback", "refund"}]_vars

(* Where requests are served one at a time, a refunded job comes back to   *)
(* life only against a new charge, or by a retry that finds nothing left   *)
(* to do.  (A slower resume that still writes cache hits would revive it.) *)
FailedStaysFailed ==
  [][status = "failed" /\ status' \notin {"failed", "deleted"}
     => \/ ledger'.charged > ledger.charged
        \/ Remaining = {} /\ status' = "completed"]_vars

(* A job does not stay in a running status for ever: it always comes to    *)
(* rest again.                                                             *)
AlwaysComesToRest ==
  []<>(status \in {"completed", "failed", "paused", "deleted"})
=============================================================================
