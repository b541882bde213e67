---------------------------- MODULE BulkAccept ----------------------------
(***************************************************************************)
(* How a bulk upload becomes a job: SubmitBulkJob of                       *)
(* backend/internal/service/job_service.go and CreateBulkJob of            *)
(* backend/internal/repo/job_repo.go, for one user who sends several       *)
(* requests, some of them again under the same idempotency key.            *)
(*                                                                         *)
(* One step is one Redis command, one SQL statement that others can see    *)
(* between (PostgreSQL runs the transactions READ COMMITTED), one write of *)
(* the source file or one Asynq enqueue.  A request that is let through    *)
(* makes a job of its own, which bears the name of the request.            *)
(***************************************************************************)
EXTENDS Integers, FiniteSetsExt

CONSTANTS
  Requests,     \* HTTP requests of the user
  Keys,         \* idempotency keys; a key stands for one list of addresses
  Charge,       \* how many addresses of a key's list cost a credit
  Balance,      \* the user's credits at the start
  MaxActive,    \* max_active_jobs_per_user; 0 for no limit
  Limits        \* how often each kind of failure happens

ASSUME ConstantsAssumption ==
  /\ IsFiniteSet(Requests)
  /\ Requests \cap {"free", "in_progress"} = {}
  /\ Charge \in [Keys -> Nat]
  /\ Balance \in Nat
  /\ MaxActive \in Nat

\* A Redis error at SETNX, at the SET that keeps the key and at any other
\* command (or a user that cannot be read), a failed source file or prepare
\* enqueue, a failed refund, a request that outlives the 60 seconds of its
\* key, a crash of the API process.
Events == {"blip", "forget", "mute", "queue", "refund", "slow", "crash"}

ASSUME LimitsAssumption == Limits \in [Events -> Nat]

VARIABLES
  jobs,     \* jobs.status of each request's job; "none" without a row
  credits,  \* users.credits
  store,    \* the Redis keys idempotency:job:<user>:<key>
  queue,    \* prepare messages in Asynq
  submit,   \* where each request is in SubmitBulkJob, and its key
  budget    \* failures left

vars == <<jobs, credits, store, queue, submit, budget>>

\* A failed job that was deleted is "dropped".
JobStatuses == {"none", "preparing", "completed", "failed", "deleted",
                "dropped"}
Ends == {"accepted", "existing", "refused", "dead"}
Steps == {"new", "lookup", "count", "create", "write", "enqueue", "refund",
          "remember", "peek", "release"} \cup Ends

Active == {j \in Requests : jobs[j] = "preparing"}
Goto(r, step) == submit' = [submit EXCEPT ![r].step = step]
ChargeOf(r) == Charge[submit[r].key]

\* An error return runs the deferred release of the key first.
Refuse(r) == Goto(r, "peek")

Spend(event) ==
  /\ budget[event] > 0
  /\ budget' = [budget EXCEPT ![event] = @ - 1]

Init ==
  /\ jobs = [r \in Requests |-> "none"]
  /\ credits = Balance
  /\ store = [k \in Keys |-> "free"]
  /\ queue = {}
  /\ submit \in [Requests -> [step: {"new"}, key: Keys]]
  /\ budget = Limits

-----------------------------------------------------------------------------
(* SubmitBulkJob: the idempotency key.                                     *)

(* SETNX of the key with a TTL of 60 seconds.                              *)
TakeKey(r) ==
  /\ submit[r].step = "new"
  /\ IF store[submit[r].key] = "free"
     THEN /\ store' = [store EXCEPT ![submit[r].key] = "in_progress"]
          /\ Goto(r, "count")
     ELSE UNCHANGED store /\ Goto(r, "lookup")
  /\ UNCHANGED <<jobs, credits, queue, budget>>

(* Redis does not answer: the request goes on without the key.             *)
TakeNoKey(r) ==
  /\ submit[r].step = "new"
  /\ Spend("blip")
  /\ Goto(r, "count")
  /\ UNCHANGED <<jobs, credits, store, queue>>

(* The GET after a lost SETNX: the key names a job that still exists, or   *)
(* the request is refused, without the deferred release.                   *)
LookupKey(r) ==
  /\ submit[r].step = "lookup"
  /\ LET held == store[submit[r].key]
     IN  Goto(r, IF held \in Requests /\ jobs[held] \notin {"deleted", "dropped"}
                 THEN "existing" ELSE "refused")
  /\ UNCHANGED <<jobs, credits, store, queue, budget>>

(* The deferred release: GET, and DEL if the key is still in progress.     *)
PeekKey(r) ==
  /\ submit[r].step = "peek"
  /\ Goto(r, IF store[submit[r].key] = "in_progress" THEN "release"
             ELSE "refused")
  /\ UNCHANGED <<jobs, credits, store, queue, budget>>

ReleaseKey(r) ==
  /\ submit[r].step = "release"
  /\ store' = [store EXCEPT ![submit[r].key] = "free"]
  /\ Goto(r, "refused")
  /\ UNCHANGED <<jobs, credits, queue, budget>>

(* Mutant: the key is not kept after success.                              *)
ForgetKey(r) ==
  /\ submit[r].step = "remember"
  /\ store' = [store EXCEPT ![submit[r].key] = "free"]
  /\ Goto(r, "accepted")
  /\ UNCHANGED <<jobs, credits, queue, budget>>

(* SET of the key to the job, for 24 hours.                                *)
RememberKey(r) ==
  /\ submit[r].step = "remember"
  /\ store' = [store EXCEPT ![submit[r].key] = r]
  /\ Goto(r, "accepted")
  /\ UNCHANGED <<jobs, credits, queue, budget>>

(* The SET fails and nobody looks: the key stays in progress until its 60  *)
(* seconds are over, and the deferred release leaves it alone.             *)
RememberFails(r) ==
  /\ submit[r].step = "remember"
  /\ Spend("forget")
  /\ Goto(r, "accepted")
  /\ UNCHANGED <<jobs, credits, store, queue>>

(* No answer to the GET after a lost SETNX, or to the GET or DEL of the    *)
(* deferred release: the request is refused and the key stays as it is.    *)
(* No user or no PING before the job is made: refused, with the release.   *)
NoAnswer(r) ==
  /\ submit[r].step \in {"lookup", "peek", "release", "count"}
  /\ Spend("mute")
  /\ IF submit[r].step = "count" THEN Refuse(r) ELSE Goto(r, "refused")
  /\ UNCHANGED <<jobs, credits, store, queue>>

-----------------------------------------------------------------------------
(* CreateBulkJob, one transaction: it counts, then debits and inserts.     *)

CountActive(r) ==
  /\ submit[r].step = "count"
  /\ IF MaxActive > 0 /\ Cardinality(Active) >= MaxActive
     THEN Refuse(r) ELSE Goto(r, "create")
  /\ UNCHANGED <<jobs, credits, store, queue, budget>>

Debited(r) ==
  /\ credits' = credits - ChargeOf(r)
  /\ jobs' = [jobs EXCEPT ![r] = IF ChargeOf(r) = 0 THEN "completed"
                                 ELSE "preparing"]
  /\ Goto(r, "write")

(* Mutant: the debit does not look at the balance.                         *)
CreateUnchecked(r) ==
  /\ submit[r].step = "create"
  /\ Debited(r)
  /\ UNCHANGED <<store, queue, budget>>

(* UPDATE users ... WHERE credits >= n takes the row lock: the debit, the  *)
(* ledger entry and the job row become visible together.                   *)
CreateBulkJob(r) ==
  /\ submit[r].step = "create"
  /\ credits >= ChargeOf(r)
  /\ Debited(r)
  /\ UNCHANGED <<store, queue, budget>>

InsufficientCredits(r) ==
  /\ submit[r].step = "create"
  /\ credits < ChargeOf(r)
  /\ Refuse(r)
  /\ UNCHANGED <<jobs, credits, store, queue, budget>>

-----------------------------------------------------------------------------
(* SubmitBulkJob: the source file and the prepare message.                 *)

WriteSource(r) ==
  /\ submit[r].step = "write"
  /\ Goto(r, IF ChargeOf(r) = 0 THEN "remember" ELSE "enqueue")
  /\ UNCHANGED <<jobs, credits, store, queue, budget>>

WriteSourceFails(r) ==
  /\ submit[r].step = "write"
  /\ Spend("queue")
  /\ Goto(r, "refund")
  /\ UNCHANGED <<jobs, credits, store, queue>>

EnqueuePrepare(r) ==
  /\ submit[r].step = "enqueue"
  /\ queue' = queue \cup {r}
  /\ Goto(r, "remember")
  /\ UNCHANGED <<jobs, credits, store, budget>>

(* Mutant: the error is returned without the refund.                       *)
EnqueuePrepareUnpaid(r) ==
  /\ submit[r].step = "enqueue"
  /\ Spend("queue")
  /\ Refuse(r)
  /\ UNCHANGED <<jobs, credits, store, queue>>

EnqueuePrepareFails(r) ==
  /\ submit[r].step = "enqueue"
  /\ Spend("queue")
  /\ Goto(r, "refund")
  /\ UNCHANGED <<jobs, credits, store, queue>>

(* Mutant: the credits return but the job stays.                           *)
RefundOnly(r) ==
  /\ submit[r].step = "refund"
  /\ credits' = credits + ChargeOf(r)
  /\ Refuse(r)
  /\ UNCHANGED <<jobs, store, queue, budget>>

(* RefundJob: the job fails and its credits return, in one transaction.    *)
RefundJob(r) ==
  /\ submit[r].step = "refund"
  /\ jobs' = [jobs EXCEPT ![r] = IF @ = "deleted" THEN "deleted"
                                 ELSE "failed"]
  /\ credits' = credits + ChargeOf(r)
  /\ Refuse(r)
  /\ UNCHANGED <<store, queue, budget>>

(* Its error is ignored.                                                   *)
RefundFails(r) ==
  /\ submit[r].step = "refund"
  /\ Spend("refund")
  /\ Refuse(r)
  /\ UNCHANGED <<jobs, credits, store, queue>>

-----------------------------------------------------------------------------
(* The environment.                                                        *)

Crash(r) ==
  /\ submit[r].step \notin Ends \cup {"new"}
  /\ Spend("crash")
  /\ Goto(r, "dead")
  /\ UNCHANGED <<jobs, credits, store, queue>>

Holds(r, k) ==
  submit[r].key = k /\ submit[r].step \notin Ends \cup {"new", "lookup"}

(* Mutant: the key has no TTL.                                             *)
KeyStays(k) == FALSE /\ UNCHANGED vars

(* The 60 seconds of a key in progress are over, for once before the       *)
(* request that took it is done.                                           *)
KeyExpires(k) ==
  /\ store[k] = "in_progress"
  /\ IF \E r \in Requests : Holds(r, k) THEN Spend("slow")
                                       ELSE UNCHANGED budget
  /\ store' = [store EXCEPT ![k] = "free"]
  /\ UNCHANGED <<jobs, credits, queue, submit>>

(* What becomes of a job later, as far as the submits can see it: prepare  *)
(* and the workers complete it, or it fails and its credits return.        *)
JobRuns(j) ==
  /\ j \in queue
  /\ jobs[j] = "preparing"
  /\ queue' = queue \ {j}
  /\ \/ /\ jobs' = [jobs EXCEPT ![j] = "completed"]
        /\ UNCHANGED credits
     \/ /\ jobs' = [jobs EXCEPT ![j] = "failed"]
        /\ credits' = credits + ChargeOf(j)
  /\ UNCHANGED <<store, submit, budget>>

(* The user deletes a finished job: no credits move.                       *)
DeleteJob(j) ==
  /\ jobs[j] \in {"completed", "failed"}
  /\ jobs' = [jobs EXCEPT ![j] = IF @ = "failed" THEN "dropped" ELSE "deleted"]
  /\ UNCHANGED <<credits, store, queue, submit, budget>>

-----------------------------------------------------------------------------
Submit(r) ==
  \/ TakeKey(r) \/ LookupKey(r) \/ PeekKey(r) \/ ReleaseKey(r)
  \/ RememberKey(r) \/ CountActive(r) \/ CreateBulkJob(r)
  \/ InsufficientCredits(r) \/ WriteSource(r) \/ EnqueuePrepare(r)
  \/ RefundJob(r)

Failure(r) == TakeNoKey(r) \/ RememberFails(r) \/ NoAnswer(r)
              \/ WriteSourceFails(r) \/ EnqueuePrepareFails(r)
              \/ RefundFails(r) \/ Crash(r)

Next ==
  \/ \E r \in Requests : Submit(r) \/ Failure(r) \/ JobRuns(r) \/ DeleteJob(r)
  \/ \E k \in Keys : KeyExpires(k)

Spec == Init /\ [][Next]_vars

(* A request that has started runs on, and Redis expires keys.             *)
Fairness == /\ \A r \in Requests : WF_vars(submit[r].step # "new" /\ Submit(r))
            /\ \A k \in Keys : WF_vars(KeyExpires(k))

FairSpec == Spec /\ Fairness

-----------------------------------------------------------------------------
(* Properties.                                                             *)

(* Types of all variables; in particular the user never owes credits.      *)
TypeOK ==
  /\ jobs \in [Requests -> JobStatuses]
  /\ credits \in Nat
  /\ store \in [Keys -> {"free", "in_progress"} \cup Requests]
  /\ queue \subseteq Requests
  /\ submit \in [Requests -> [step: Steps, key: Keys]]
  /\ budget \in [Events -> Nat]

\* The jobs that cost the user credits.
Paid == {j \in Requests : /\ jobs[j] \in {"preparing", "completed", "deleted"}
                          /\ ChargeOf(j) > 0}

(* The user's credits are the balance less the charge of every job that    *)
(* exists and did not fail: no debit without a job, no refund of a job     *)
(* that goes on.                                                           *)
BalanceExplained == credits = Balance - MapThenSumSet(ChargeOf, Paid)

\* None of these failures has happened so far.
Spared(events) == \A e \in events : budget[e] = Limits[e]

(* One list uploaded under one key is paid for once, however often the     *)
(* request is repeated, as long as Redis answers SETNX and keeps the key   *)
(* of an accepted request, a refund that is due works, and no request dies *)
(* with or outlives its key.  (The code goes on when SETNX or the SET of   *)
(* the key fails; a repeat is then charged again, the latter's after the   *)
(* 60 seconds.)                                                            *)
ChargedOnce ==
  Spared({"blip", "forget", "refund", "slow", "crash"})
  => \A i, j \in Paid : submit[i].key = submit[j].key => i = j

(* A request that was refused costs nothing: what it had debited is back.  *)
(* (RefundJob's error is ignored, so a second failure keeps the charge.)   *)
RefusedIsFree ==
  Spared({"refund"})
  => \A r \in Requests : submit[r].step = "refused" => r \notin Paid

(* A job the user sees preparing has a prepare message or a request that   *)
(* is about to send it or to refund the job, unless that request died or   *)
(* its refund failed.                                                      *)
AcceptedIsQueued ==
  Spared({"refund", "crash"})
  => \A j \in Requests :
       jobs[j] = "preparing"
       => j \in queue \/ submit[j].step \in {"write", "enqueue", "refund"}

(* The user never has more jobs at work than the limit allows.  The code   *)
(* claims it for concurrent requests too.                                  *)
ActiveWithinLimit == MaxActive > 0 => Cardinality(Active) <= MaxActive

(* No request leaves its key in progress for ever, whatever happens to the *)
(* process that took it.                                                   *)
KeyComesFree ==
  \A k \in Keys : store[k] = "in_progress" ~> store[k] # "in_progress"
=============================================================================
