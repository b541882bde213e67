-------------------------- MODULE BulkAcceptProofs --------------------------
(***************************************************************************)
(* What holds of the submits for any number of requests, keys, lists and   *)
(* failures.  A list uploaded under one idempotency key is paid for once:  *)
(* the key is a lock from SETNX to the end of the request, and after that  *)
(* it names the job that was paid.  A refused request owes nothing, a      *)
(* preparing job is queued or in hand, and the credits are the balance     *)
(* less what the jobs that did not fail cost.                              *)
(***************************************************************************)
EXTENDS BulkAccept, TLAPS, FiniteSetTheorems, WellFoundedInduction

Held == {"count", "create", "write", "enqueue", "refund", "remember", "peek",
         "release"}
Before == {"new", "lookup", "existing", "count", "create"}

(* Types of what the key protects.                                         *)
SubmitOK ==
  /\ jobs \in [Requests -> JobStatuses]
  /\ store \in [Keys -> {"free", "in_progress"} \cup Requests]
  /\ submit \in [Requests -> [step: Steps, key: Keys]]
  /\ budget \in [Events -> Nat]
  /\ \A e \in Events : budget[e] <= Limits[e]

(* How far a request is tells whether its job exists, runs and is queued.  *)
JobFollows ==
  \A r \in Requests :
    /\ submit[r].step \in Before => jobs[r] = "none"
    /\ submit[r].step \in {"write", "enqueue", "refund"} /\ ChargeOf(r) > 0
       => jobs[r] = "preparing"
    /\ r \in queue => submit[r].step \in {"remember", "accepted", "dead"}

Undisturbed == Spared({"blip", "forget", "refund", "slow", "crash"})

(* A request in progress owns its key.                                     *)
KeyIsLock ==
  \A r \in Requests :
    submit[r].step \in Held
    => /\ store[submit[r].key] = "in_progress"
       /\ \A q \in Requests :
            submit[q].step \in Held /\ submit[q].key = submit[r].key => q = r

(* A paid job is that of a request in progress, or the one its key names.  *)
PaidIsNamed ==
  \A j \in Paid :
    \/ submit[j].step \in {"write", "enqueue", "refund", "remember"}
    \/ submit[j].step = "accepted" /\ store[submit[j].key] = j

KeyInv == SubmitOK /\ JobFollows /\ (Undisturbed => KeyIsLock /\ PaidIsNamed)
-----------------------------------------------------------------------------
LEMMA GotoSteps ==
  ASSUME SubmitOK, NEW r \in Requests, NEW s \in Steps, Goto(r, s)
  PROVE  /\ submit' \in [Requests -> [step: Steps, key: Keys]]
         /\ \A q \in Requests : /\ submit'[q].key = submit[q].key
                                /\ submit'[q].step = IF q = r THEN s
                                                     ELSE submit[q].step
  BY DEF SubmitOK, Goto

LEMMA SpendBudget ==
  ASSUME SubmitOK, NEW e \in Events, Spend(e)
  PROVE  /\ budget' \in [Events -> Nat]
         /\ \A d \in Events : budget'[d] <= budget[d] /\ budget'[d] <= Limits[d]
         /\ budget'[e] # Limits[e]
<1>1. budget[e] \in Nat /\ budget[e] <= Limits[e] /\ Limits[e] \in Nat
  BY LimitsAssumption DEF SubmitOK
<1>2. budget' = [budget EXCEPT ![e] = budget[e] - 1] /\ budget[e] > 0
  BY DEF Spend
<1>3. \A d \in Events : budget[d] \in Nat /\ budget[d] <= Limits[d]
                        /\ Limits[d] \in Nat
  BY LimitsAssumption DEF SubmitOK
<1>4. QED
  BY <1>1, <1>2, <1>3 DEF SubmitOK

(* Every step of the next-state relation, one by one.                      *)
RequestStep(r) ==
  \/ TakeKey(r) \/ LookupKey(r) \/ PeekKey(r) \/ ReleaseKey(r)
  \/ RememberKey(r) \/ CountActive(r) \/ CreateBulkJob(r)
  \/ InsufficientCredits(r) \/ WriteSource(r) \/ EnqueuePrepare(r)
  \/ RefundJob(r) \/ TakeNoKey(r) \/ RememberFails(r) \/ NoAnswer(r)
  \/ WriteSourceFails(r)
  \/ EnqueuePrepareFails(r) \/ RefundFails(r) \/ Crash(r)

LEMMA StepsOfNext ==
  ASSUME [Next]_vars
  PROVE  \/ \E r \in Requests : RequestStep(r) \/ JobRuns(r) \/ DeleteJob(r)
         \/ \E k \in Keys : KeyExpires(k)
         \/ UNCHANGED vars
  BY DEF Next, Submit, Failure, RequestStep

(* A request's step changes its place and its job, and nobody else's.      *)
LEMMA RequestMoves ==
  ASSUME SubmitOK, NEW r \in Requests, RequestStep(r)
  PROVE  /\ \E s \in Steps : Goto(r, s)
         /\ jobs' \in [Requests -> JobStatuses]
         /\ \A q \in Requests \ {r} : jobs'[q] = jobs[q]
         /\ store' \in [Keys -> {"free", "in_progress"} \cup Requests]
<1>1. \E s \in Steps : Goto(r, s)
  BY DEF RequestStep, TakeKey, LookupKey, PeekKey, ReleaseKey, RememberKey,
         CountActive, CreateBulkJob, InsufficientCredits, WriteSource,
         EnqueuePrepare, RefundJob, TakeNoKey, WriteSourceFails,
         EnqueuePrepareFails, RefundFails, Crash,
         RememberFails, NoAnswer, Refuse, Debited, Steps, Ends
<1>2. \/ jobs' = jobs
      \/ \E x \in JobStatuses : jobs' = [jobs EXCEPT ![r] = x]
  BY DEF RequestStep, TakeKey, LookupKey, PeekKey, ReleaseKey, RememberKey,
         CountActive, CreateBulkJob, InsufficientCredits, WriteSource,
         EnqueuePrepare, RefundJob, TakeNoKey, WriteSourceFails,
         EnqueuePrepareFails, RefundFails, Crash,
         RememberFails, NoAnswer, Debited, JobStatuses
<1>3. \/ store' = store
      \/ \E x \in {"free", "in_progress"} \cup Requests :
           store' = [store EXCEPT ![submit[r].key] = x]
  BY DEF RequestStep, TakeKey, LookupKey, PeekKey, ReleaseKey, RememberKey,
         CountActive, CreateBulkJob, InsufficientCredits, WriteSource,
         EnqueuePrepare, RefundJob, TakeNoKey, WriteSourceFails,
         EnqueuePrepareFails, RefundFails, Crash,
         RememberFails, NoAnswer
<1>4. QED
  BY <1>1, <1>2, <1>3 DEF SubmitOK

(* The failures left never grow, and the failures that break the lock      *)
(* leave a mark.                                                           *)
LEMMA BudgetStep ==
  ASSUME SubmitOK, [Next]_vars
  PROVE  /\ budget' \in [Events -> Nat]
         /\ \A e \in Events : budget'[e] <= Limits[e]
         /\ Undisturbed'
            => /\ Undisturbed
               /\ \A r \in Requests : ~(TakeNoKey(r) \/ RememberFails(r)
                                         \/ RefundFails(r) \/ Crash(r))
               /\ \A k \in Keys : KeyExpires(k)
                    => ~\E r \in Requests : Holds(r, k)
<1>1. {"blip", "forget", "mute", "queue", "refund", "slow", "crash"} = Events
  BY DEF Events
<1>2. ASSUME NEW e \in Events, Spend(e)
      PROVE  /\ budget' \in [Events -> Nat]
             /\ \A d \in Events : budget'[d] <= Limits[d]
             /\ Undisturbed' => Undisturbed /\ e \in {"queue", "mute"}
  <2>1. \A d \in Events : /\ budget[d] \in Nat /\ Limits[d] \in Nat
                          /\ budget[d] <= Limits[d]
    BY LimitsAssumption DEF SubmitOK
  <2>2. /\ budget' \in [Events -> Nat] /\ budget'[e] # Limits[e]
        /\ \A d \in Events : budget'[d] <= budget[d] /\ budget'[d] <= Limits[d]
    BY <1>2, SpendBudget
  <2>3. \A d \in Events : budget'[d] = Limits[d] => budget[d] = Limits[d]
    BY <2>1, <2>2
  <2>4. QED
    BY <1>1, <2>2, <2>3 DEF Undisturbed, Spared
<1>3. CASE budget' = budget
  <2>1. Undisturbed' => Undisturbed
    BY <1>3 DEF Undisturbed, Spared
  <2>2. ASSUME NEW e \in Events PROVE ~Spend(e)
    <3>1. budget[e] \in Nat
      BY DEF SubmitOK
    <3>2. SUFFICES ASSUME Spend(e) PROVE FALSE
      OBVIOUS
    <3>3. budget'[e] = budget[e] - 1
      BY <3>2 DEF Spend, SubmitOK
    <3>4. QED
      BY <1>3, <3>1, <3>3
  <2>3. QED
    BY <1>1, <1>3, <2>1, <2>2
    DEF SubmitOK, TakeNoKey, RememberFails, NoAnswer, RefundFails, Crash,
        KeyExpires
<1>4. CASE budget' # budget
  <2>1. PICK e \in Events : Spend(e)
    BY <1>1, <1>4, StepsOfNext
    DEF RequestStep, TakeKey, LookupKey, PeekKey, ReleaseKey, RememberKey,
        CountActive, CreateBulkJob, InsufficientCredits, WriteSource,
        EnqueuePrepare, RefundJob, TakeNoKey, WriteSourceFails,
        EnqueuePrepareFails, RefundFails, Crash,
        RememberFails, NoAnswer, JobRuns, DeleteJob,
        KeyExpires, vars
  <2>2. \A d \in Events : Spend(d) => d = e
    <3>1. SUFFICES ASSUME NEW d \in Events, Spend(d), d # e PROVE FALSE
      OBVIOUS
    <3>2. budget'[d] = budget[d]
      BY <2>1, <3>1 DEF Spend, SubmitOK
    <3>3. budget'[d] = budget[d] - 1 /\ budget[d] \in Nat
      BY <3>1 DEF Spend, SubmitOK
    <3>4. QED
      BY <3>2, <3>3
  <2>3. QED
    BY <1>1, <1>2, <2>1, <2>2 DEF TakeNoKey, RememberFails, NoAnswer,
                                  RefundFails, Crash, KeyExpires
<1>5. QED
  BY <1>3, <1>4

LEMMA SubmitStep ==
  ASSUME SubmitOK, [Next]_vars
  PROVE  SubmitOK'
<1>1. ASSUME NEW r \in Requests, RequestStep(r) PROVE SubmitOK'
  BY <1>1, RequestMoves, GotoSteps, BudgetStep DEF SubmitOK
<1>2. ASSUME NEW r \in Requests, JobRuns(r) \/ DeleteJob(r) PROVE SubmitOK'
  BY <1>2, BudgetStep DEF SubmitOK, JobRuns, DeleteJob, JobStatuses
<1>3. ASSUME NEW k \in Keys, KeyExpires(k) PROVE SubmitOK'
  BY <1>3, BudgetStep DEF SubmitOK, KeyExpires
<1>4. CASE UNCHANGED vars
  BY <1>4 DEF SubmitOK, vars
<1>5. QED
  BY <1>1, <1>2, <1>3, <1>4, StepsOfNext

(* The key of a request never changes, so neither does what it costs.      *)
LEMMA KeysStay ==
  ASSUME SubmitOK, [Next]_vars
  PROVE  \A r \in Requests : submit'[r].key = submit[r].key
                             /\ ChargeOf(r)' = ChargeOf(r)
<1>1. SUFFICES \A r \in Requests : submit'[r].key = submit[r].key
  BY DEF ChargeOf
<1>2. ASSUME NEW q \in Requests, RequestStep(q)
      PROVE  \A r \in Requests : submit'[r].key = submit[r].key
  BY <1>2, RequestMoves, GotoSteps
<1>3. QED
  BY <1>2, StepsOfNext DEF JobRuns, DeleteJob, KeyExpires, vars

(* The step of one request, as the properties see it: where it stood and   *)
(* stands, what its job was and is, and what it did to its key.            *)
Ran(r, from, to) == submit[r].step = from /\ submit'[r].step = to

LEMMA RequestCases ==
  ASSUME SubmitOK, NEW r \in Requests, RequestStep(r)
  PROVE  LET k == submit[r].key IN
         \/ /\ Ran(r, "new", "count") /\ store[k] = "free"
            /\ store' = [store EXCEPT ![k] = "in_progress"]
            /\ jobs' = jobs /\ queue' = queue
         \/ /\ Ran(r, "release", "refused")
            /\ store' = [store EXCEPT ![k] = "free"]
            /\ jobs' = jobs /\ queue' = queue
         \/ /\ Ran(r, "remember", "accepted")
            /\ store' = [store EXCEPT ![k] = r]
            /\ jobs' = jobs /\ queue' = queue
         \/ /\ store' = store /\ jobs' = jobs /\ queue' = queue
            /\ \/ Ran(r, "new", "lookup") \/ Ran(r, "lookup", "existing")
               \/ Ran(r, "lookup", "refused") \/ Ran(r, "peek", "release")
               \/ Ran(r, "peek", "refused") \/ Ran(r, "count", "peek")
               \/ Ran(r, "count", "create") \/ Ran(r, "create", "peek")
               \/ Ran(r, "write", "remember") /\ ChargeOf(r) = 0
               \/ Ran(r, "write", "enqueue")
               \/ Ran(r, "write", "refund") \/ Ran(r, "enqueue", "refund")
               \/ Ran(r, "release", "refused")
         \/ /\ store' = store /\ jobs' = jobs /\ queue' = queue \cup {r}
            /\ Ran(r, "enqueue", "remember")
         \/ /\ store' = store /\ queue' = queue /\ Ran(r, "create", "write")
            /\ jobs' = [jobs EXCEPT ![r] = IF ChargeOf(r) = 0 THEN "completed"
                                           ELSE "preparing"]
         \/ /\ store' = store /\ queue' = queue /\ Ran(r, "refund", "peek")
            /\ jobs' = [jobs EXCEPT ![r] = IF @ = "deleted" THEN "deleted"
                                           ELSE "failed"]
         \/ TakeNoKey(r) /\ Ran(r, "new", "count")
         \/ RememberFails(r) /\ Ran(r, "remember", "accepted")
         \/ RefundFails(r) /\ Ran(r, "refund", "peek")
         \/ /\ Crash(r) /\ submit'[r].step = "dead"
            /\ submit[r].step # "new"
<1>1. \A s : Goto(r, s) => submit'[r].step = s
  BY DEF Goto, SubmitOK
<1>2. QED
  BY <1>1
  DEF RequestStep, TakeKey, LookupKey, PeekKey, ReleaseKey, RememberKey,
      CountActive, CreateBulkJob, InsufficientCredits, WriteSource,
      EnqueuePrepare, RefundJob, TakeNoKey, WriteSourceFails,
      EnqueuePrepareFails, RefundFails, Crash,
      RememberFails, NoAnswer, Refuse, Debited, Ran, Ends

(* What a step leaves of the others.                                       *)
LEMMA OthersStay ==
  ASSUME SubmitOK, NEW r \in Requests, RequestStep(r), NEW q \in Requests, q # r
  PROVE  submit'[q].step = submit[q].step /\ jobs'[q] = jobs[q]
  BY RequestMoves, GotoSteps

LEMMA JobFollowsStep ==
  ASSUME SubmitOK, JobFollows, [Next]_vars
  PROVE  JobFollows'
<1>k. \A r \in Requests : ChargeOf(r)' = ChargeOf(r)
  BY KeysStay
<1>1. ASSUME NEW r \in Requests, RequestStep(r) PROVE JobFollows'
  <2>1. SUFFICES ASSUME NEW q \in Requests
        PROVE /\ submit'[q].step \in Before => jobs'[q] = "none"
              /\ submit'[q].step \in {"write", "enqueue", "refund"}
                   /\ ChargeOf(q) > 0 => jobs'[q] = "preparing"
              /\ q \in queue'
                   => submit'[q].step \in {"remember", "accepted", "dead"}
    BY <1>k DEF JobFollows
  <2>2. \/ queue' = queue
        \/ queue' = queue \cup {r} /\ submit'[r].step = "remember"
    BY <1>1, RequestCases DEF Ran, TakeNoKey, RememberFails, NoAnswer,
                              RefundFails, Crash
  <2>3. CASE q # r
    BY <1>1, <2>2, <2>3, OthersStay DEF JobFollows
  <2>4. CASE q = r
    <3>1. /\ jobs \in [Requests -> JobStatuses]
          /\ submit[r].step = "new" => r \notin queue
      BY DEF SubmitOK, JobFollows
    <3>2. QED
      BY <1>1, <2>4, <3>1, RequestCases
      DEF JobFollows, Before, Ran, TakeNoKey, RememberFails, NoAnswer,
          RefundFails, Crash
  <2>5. QED
    BY <2>3, <2>4
<1>2. ASSUME NEW j \in Requests, JobRuns(j) PROVE JobFollows'
  BY <1>2, <1>k DEF JobRuns, JobFollows, SubmitOK, Before
<1>3. ASSUME NEW j \in Requests, DeleteJob(j) PROVE JobFollows'
  BY <1>3, <1>k DEF DeleteJob, JobFollows, SubmitOK, Before
<1>4. ASSUME NEW k \in Keys, KeyExpires(k) PROVE JobFollows'
  BY <1>4, <1>k DEF KeyExpires, JobFollows
<1>5. CASE UNCHANGED vars
  BY <1>5, <1>k DEF vars, JobFollows
<1>6. QED
  BY <1>1, <1>2, <1>3, <1>4, <1>5, StepsOfNext

(* The key stays a lock, and names what was paid under it.  Only the steps *)
(* that touch a key or a paid job need more than that nothing moves.       *)
LEMMA KeyStep ==
  ASSUME SubmitOK, JobFollows, KeyIsLock, PaidIsNamed, Undisturbed',
         [Next]_vars
  PROVE  KeyIsLock' /\ PaidIsNamed'
<1>k. \A r \in Requests : /\ ChargeOf(r)' = ChargeOf(r)
                          /\ submit'[r].key = submit[r].key
  BY KeysStay
<1>n. \A r \in Requests : r # "free" /\ r # "in_progress"
  BY ConstantsAssumption
<1>t. /\ \A r \in Requests : submit[r].key \in Keys
      /\ jobs \in [Requests -> JobStatuses]
      /\ store \in [Keys -> {"free", "in_progress"} \cup Requests]
  BY DEF SubmitOK
<1>p. \A j \in Requests : j \in Paid <=> /\ jobs[j] \in {"preparing", "completed", "deleted"}
                                         /\ ChargeOf(j) > 0
  BY DEF Paid
<1>q. \A j \in Requests : j \in Paid' <=> /\ jobs'[j] \in {"preparing", "completed", "deleted"}
                                          /\ ChargeOf(j) > 0
  BY <1>k DEF Paid
<1>s. Paid \subseteq Requests /\ Paid' \subseteq Requests
  BY DEF Paid
<1>1. ASSUME NEW r \in Requests, RequestStep(r)
      PROVE  KeyIsLock' /\ PaidIsNamed'
  <2> DEFINE k == submit[r].key
  <2>1. ~TakeNoKey(r) /\ ~RememberFails(r) /\ ~RefundFails(r) /\ ~Crash(r)
    BY BudgetStep
  <2>2. \A q \in Requests \ {r} : /\ submit'[q].step = submit[q].step
                                  /\ jobs'[q] = jobs[q]
    BY <1>1, OthersStay
  <2>3. \A q \in Requests \ {r} : q \in Paid' <=> q \in Paid
    BY <1>p, <1>q, <2>2
  <2>4. CASE Ran(r, "new", "count") /\ store[k] = "free"
             /\ store' = [store EXCEPT ![k] = "in_progress"] /\ jobs' = jobs
    <3>1. \A q \in Requests \ {r} :
            submit[q].step \in Held => submit[q].key # k
      BY <2>4 DEF KeyIsLock
    <3>2. KeyIsLock'
      BY <1>k, <1>t, <2>2, <2>4, <3>1 DEF KeyIsLock, Ran, Held
    <3>3. r \notin Paid'
      BY <1>p, <1>q, <2>4 DEF PaidIsNamed, Ran
    <3>4. QED
      BY <1>k, <1>n, <1>t, <1>s, <2>2, <2>3, <2>4, <3>2, <3>3 DEF PaidIsNamed
  <2>5. CASE Ran(r, "release", "refused")
             /\ store' = [store EXCEPT ![k] = "free"] /\ jobs' = jobs
    <3>1. store[k] = "in_progress" /\ \A q \in Requests \ {r} :
            submit[q].step \in Held => submit[q].key # k
      BY <2>5 DEF KeyIsLock, Ran, Held
    <3>2. KeyIsLock'
      BY <1>k, <1>t, <2>2, <2>5, <3>1 DEF KeyIsLock, Ran, Held
    <3>3. r \notin Paid'
      BY <1>p, <1>q, <2>5 DEF PaidIsNamed, Ran
    <3>4. QED
      BY <1>k, <1>n, <1>t, <1>s, <2>2, <2>3, <2>5, <3>1, <3>2, <3>3
      DEF PaidIsNamed
  <2>6. CASE Ran(r, "remember", "accepted")
             /\ store' = [store EXCEPT ![k] = r] /\ jobs' = jobs
    <3>1. store[k] = "in_progress" /\ \A q \in Requests \ {r} :
            submit[q].step \in Held => submit[q].key # k
      BY <2>6 DEF KeyIsLock, Ran, Held
    <3>2. KeyIsLock'
      BY <1>k, <1>t, <2>2, <2>6, <3>1 DEF KeyIsLock, Ran, Held
    <3>3. store'[k] = r /\ submit'[r].key = k /\ submit'[r].step = "accepted"
      BY <1>k, <1>t, <2>6 DEF Ran
    <3>4. \A q \in Requests \ {r} :
            store[submit[q].key] = q => store'[submit[q].key] = q
      BY <1>n, <1>t, <2>6, <3>1
    <3>5. QED
      BY <1>k, <1>s, <2>2, <2>3, <3>2, <3>3, <3>4 DEF PaidIsNamed
  <2>7. CASE store' = store
    <3>a. submit[r].step \notin {"new", "release", "remember"}
          \/ submit'[r].step \in {"lookup", "refused"}
      BY <1>1, <1>n, <1>t, <2>1, <2>7, RequestCases DEF Ran, KeyIsLock, Held
    <3>b. submit[r].step \in Held \/ submit'[r].step \notin Held
      BY <1>1, <2>1, <3>a, RequestCases DEF Ran, Held
    <3>c. ASSUME r \in Paid'
          PROVE submit'[r].step \in {"write", "enqueue", "refund", "remember"}
      <4>1. \/ r \in Paid
            \/ Ran(r, "create", "write")
        BY <1>1, <1>p, <1>q, <1>t, <2>1, <3>c, RequestCases DEF Ran, KeyIsLock
      <4>2. CASE r \in Paid
        <5>1. submit[r].step \in {"write", "enqueue", "refund"}
              \/ submit[r].step \in {"accepted", "remember"}
          BY <4>2 DEF PaidIsNamed
        <5>2. submit[r].step = "refund" => jobs[r] = "preparing"
          BY <1>p, <4>2 DEF JobFollows
        <5>3. submit[r].step # "refund"
          BY <1>1, <1>q, <1>t, <2>1, <3>c, <5>2, RequestCases DEF Ran
        <5>4. QED
          BY <1>1, <2>1, <3>a, <5>1, <5>3, RequestCases DEF Ran
      <4>3. QED
        BY <4>1, <4>2 DEF Ran
    <3>1. /\ submit[r].step \in Held \/ submit'[r].step \notin Held
          /\ r \in Paid' => submit'[r].step
                              \in {"write", "enqueue", "refund", "remember"}
      BY <3>b, <3>c
    <3>2. KeyIsLock'
      BY <1>k, <2>2, <2>7, <3>1 DEF KeyIsLock
    <3>3. QED
      BY <1>k, <1>s, <2>2, <2>3, <2>7, <3>1, <3>2 DEF PaidIsNamed
  <2>8. QED
    BY <1>1, <2>1, <2>4, <2>5, <2>6, <2>7, RequestCases
<1>2. ASSUME NEW j \in Requests, JobRuns(j) \/ DeleteJob(j)
      PROVE  KeyIsLock' /\ PaidIsNamed'
  <2>1. store' = store /\ submit' = submit
    BY <1>2 DEF JobRuns, DeleteJob
  <2>2. Paid' \subseteq Paid
    BY <1>2, <1>p, <1>q, <1>s, <1>t DEF JobRuns, DeleteJob
  <2>3. QED
    BY <2>1, <2>2 DEF KeyIsLock, PaidIsNamed
<1>3. ASSUME NEW l \in Keys, KeyExpires(l)
      PROVE  KeyIsLock' /\ PaidIsNamed'
  <2>1. \A r \in Requests : ~Holds(r, l)
    BY <1>3, BudgetStep
  <2>2. \A r \in Requests : submit[r].step \in Held => submit[r].key # l
    BY <2>1 DEF Holds, Held, Ends
  <2>3. /\ store[l] = "in_progress" /\ store' = [store EXCEPT ![l] = "free"]
        /\ jobs' = jobs /\ submit' = submit
    BY <1>3 DEF KeyExpires
  <2>4. Paid' = Paid
    BY <1>p, <1>q, <1>s, <2>3
  <2>5. KeyIsLock'
    BY <1>t, <2>2, <2>3 DEF KeyIsLock
  <2>6. QED
    BY <1>n, <1>s, <1>t, <2>3, <2>4, <2>5 DEF PaidIsNamed
<1>4. CASE UNCHANGED vars
  <2>1. Paid' = Paid
    BY <1>4, <1>p, <1>q, <1>s DEF vars
  <2>2. QED
    BY <1>4, <2>1 DEF vars, KeyIsLock, PaidIsNamed
<1>5. QED
  BY <1>1, <1>2, <1>3, <1>4, StepsOfNext

LEMMA KeyInvInit == Init => KeyInv
<1>1. ASSUME Init PROVE SubmitOK /\ JobFollows
  BY <1>1, LimitsAssumption
  DEF Init, SubmitOK, JobFollows, JobStatuses, Steps, Ends, Before
<1>2. ASSUME Init PROVE KeyIsLock /\ PaidIsNamed
  BY <1>2 DEF Init, KeyIsLock, PaidIsNamed, Held, Paid
<1>3. QED
  BY <1>1, <1>2 DEF KeyInv

LEMMA KeyInvStep == KeyInv /\ [Next]_vars => KeyInv'
<1>1. SUFFICES ASSUME KeyInv, [Next]_vars PROVE KeyInv'
  OBVIOUS
<1>2. SubmitOK /\ JobFollows
  BY <1>1 DEF KeyInv
<1>3. SubmitOK' /\ JobFollows'
  BY <1>1, <1>2, SubmitStep, JobFollowsStep
<1>4. Undisturbed' => Undisturbed
  BY <1>1, <1>2, BudgetStep
<1>5. Undisturbed' => KeyIsLock' /\ PaidIsNamed'
  BY <1>1, <1>2, <1>4, KeyStep DEF KeyInv
<1>6. QED
  BY <1>3, <1>5 DEF KeyInv

LEMMA KeyInvImplies == KeyInv => ChargedOnce
<1>1. SUFFICES ASSUME KeyInv, Undisturbed,
                      NEW i \in Paid, NEW j \in Paid,
                      submit[i].key = submit[j].key
               PROVE  i = j
  BY DEF ChargedOnce, Undisturbed
<1>2. i \in Requests /\ j \in Requests /\ KeyIsLock /\ PaidIsNamed
  BY <1>1 DEF KeyInv, Paid
<1>3. i # "in_progress" /\ j # "in_progress"
  BY <1>2, ConstantsAssumption
<1>4. \A r \in {i, j} : \/ submit[r].step \in Held
                        \/ store[submit[r].key] = r
  BY <1>2 DEF PaidIsNamed, Held
<1>5. QED
  BY <1>1, <1>2, <1>3, <1>4 DEF KeyIsLock

(* One list uploaded under one key is paid for once: SETNX makes the key a *)
(* lock for the request, RememberKey makes it the name of the paid job.    *)
THEOREM ListPaidOnce == Spec => []ChargedOnce
<1>1. Spec => []KeyInv
  BY KeyInvInit, KeyInvStep, PTL DEF Spec
<1>2. QED
  BY <1>1, KeyInvImplies, PTL
-----------------------------------------------------------------------------
(* What a refused request, an accepted one and the balance rest on.        *)

JobsQueued ==
  \A r \in Requests :
    /\ jobs[r] = "preparing" => ChargeOf(r) > 0
    /\ Spared({"refund", "crash"}) /\ jobs[r] = "preparing"
       => r \in queue \/ submit[r].step \in {"write", "enqueue", "refund"}

(* On the way out, and after it, nothing is owed any more.                 *)
NothingOwed ==
  Spared({"refund"})
  => \A r \in Requests :
       submit[r].step \in {"peek", "release", "refused"} => r \notin Paid

AcceptInv == /\ SubmitOK /\ JobFollows /\ JobsQueued /\ NothingOwed
             /\ credits \in Nat /\ queue \subseteq Requests

(* A failure that has been spared so far was not the one of this step.     *)
LEMMA SparedStep ==
  ASSUME SubmitOK, [Next]_vars, NEW events \in SUBSET Events, Spared(events)'
  PROVE  Spared(events) /\ \A e \in events : ~Spend(e)
<1>1. \A e \in Events : /\ budget[e] \in Nat /\ Limits[e] \in Nat
                        /\ budget[e] <= Limits[e]
  BY LimitsAssumption DEF SubmitOK
<1>2. ASSUME NEW d \in Events, Spend(d)
      PROVE  d \notin events /\ Spared(events)
  <2>1. /\ budget'[d] # Limits[d]
        /\ \A e \in Events : budget'[e] <= budget[e]
    BY <1>2, SpendBudget
  <2>2. QED
    BY <1>1, <2>1 DEF Spared
<1>3. budget' = budget \/ \E d \in Events : Spend(d)
  BY StepsOfNext
  DEF Events, RequestStep, TakeKey, LookupKey, PeekKey, ReleaseKey, RememberKey,
      CountActive, CreateBulkJob, InsufficientCredits, WriteSource,
      EnqueuePrepare, RefundJob, TakeNoKey, WriteSourceFails,
      EnqueuePrepareFails, RefundFails, Crash,
      RememberFails, NoAnswer, JobRuns, DeleteJob,
      KeyExpires, vars
<1>4. QED
  BY <1>2, <1>3 DEF Spared

LEMMA ChargeIsNat ==
  ASSUME SubmitOK, NEW r \in Requests
  PROVE  ChargeOf(r) \in Nat
  BY ConstantsAssumption DEF SubmitOK, ChargeOf

(* Credits move with the job they pay for, and with nothing else.          *)
LEMMA CreditsMove ==
  ASSUME SubmitOK, JobFollows, JobsQueued, credits \in Nat, [Next]_vars
  PROVE  \/ credits' = credits /\ Paid' = Paid
         \/ \E r \in Requests :
              \/ /\ r \notin Paid /\ Paid' = Paid \cup {r}
                 /\ credits >= ChargeOf(r) /\ credits' = credits - ChargeOf(r)
              \/ /\ r \in Paid /\ Paid' = Paid \ {r}
                 /\ credits' = credits + ChargeOf(r)
<1>k. \A r \in Requests : ChargeOf(r)' = ChargeOf(r) /\ ChargeOf(r) \in Nat
  BY KeysStay, ChargeIsNat
<1>p. /\ Paid = {j \in Requests : /\ jobs[j] \in {"preparing", "completed", "deleted"}
                                  /\ ChargeOf(j) > 0}
      /\ Paid' = {j \in Requests : /\ jobs'[j] \in {"preparing", "completed", "deleted"}
                                   /\ ChargeOf(j) > 0}
  BY <1>k DEF Paid
<1>t. jobs \in [Requests -> JobStatuses]
  BY DEF SubmitOK
<1>0. CASE jobs' = jobs /\ credits' = credits
  BY <1>0, <1>p
<1>1. ASSUME NEW r \in Requests, CreateBulkJob(r)
      PROVE  IF ChargeOf(r) = 0 THEN credits' = credits /\ Paid' = Paid
             ELSE /\ r \notin Paid /\ Paid' = Paid \cup {r}
                  /\ credits >= ChargeOf(r) /\ credits' = credits - ChargeOf(r)
  <2>1. /\ jobs[r] = "none"
        /\ jobs' = [jobs EXCEPT ![r] = IF ChargeOf(r) = 0 THEN "completed"
                                       ELSE "preparing"]
        /\ credits >= ChargeOf(r) /\ credits' = credits - ChargeOf(r)
    BY <1>1 DEF CreateBulkJob, Debited, JobFollows, Before
  <2>2. CASE ChargeOf(r) = 0
    BY <1>p, <1>t, <2>1, <2>2
  <2>3. CASE ChargeOf(r) # 0
    BY <1>k, <1>p, <1>t, <2>1, <2>3
  <2>4. QED
    BY <2>2, <2>3
<1>2. ASSUME NEW r \in Requests, RefundJob(r)
      PROVE  IF ChargeOf(r) = 0 THEN credits' = credits /\ Paid' = Paid
             ELSE /\ r \in Paid /\ Paid' = Paid \ {r}
                  /\ credits' = credits + ChargeOf(r)
  <2>1. /\ ChargeOf(r) > 0 => jobs[r] = "preparing"
        /\ jobs' = [jobs EXCEPT ![r] = IF jobs[r] = "deleted" THEN "deleted"
                                       ELSE "failed"]
        /\ credits' = credits + ChargeOf(r)
    BY <1>2 DEF RefundJob, JobFollows
  <2>2. CASE ChargeOf(r) = 0
    BY <1>p, <1>t, <2>1, <2>2
  <2>3. CASE ChargeOf(r) # 0
    BY <1>k, <1>p, <1>t, <2>1, <2>3
  <2>4. QED
    BY <2>2, <2>3
<1>3. ASSUME NEW j \in Requests, JobRuns(j)
      PROVE  \/ credits' = credits /\ Paid' = Paid
             \/ /\ j \in Paid /\ Paid' = Paid \ {j}
                /\ credits' = credits + ChargeOf(j)
  <2>1. jobs[j] = "preparing" /\ ChargeOf(j) > 0
    BY <1>3 DEF JobRuns, JobsQueued
  <2>2. QED
    BY <1>3, <1>p, <1>t, <2>1 DEF JobRuns
<1>4. ASSUME NEW j \in Requests, DeleteJob(j)
      PROVE  credits' = credits /\ Paid' = Paid
  BY <1>4, <1>p, <1>t DEF DeleteJob
<1>5. \/ jobs' = jobs /\ credits' = credits
      \/ \E r \in Requests : \/ CreateBulkJob(r) \/ RefundJob(r)
                             \/ JobRuns(r) \/ DeleteJob(r)
  BY StepsOfNext
  DEF RequestStep, TakeKey, LookupKey, PeekKey, ReleaseKey, RememberKey,
      CountActive, InsufficientCredits, WriteSource, EnqueuePrepare, TakeNoKey,
      WriteSourceFails, EnqueuePrepareFails, RefundFails, Crash,
      RememberFails, NoAnswer, KeyExpires,
      vars
<1>6. QED
  BY <1>0, <1>1, <1>2, <1>3, <1>4, <1>5

LEMMA JobsQueuedStep ==
  ASSUME SubmitOK, JobFollows, JobsQueued, [Next]_vars
  PROVE  JobsQueued'
<1>k. \A r \in Requests : ChargeOf(r)' = ChargeOf(r) /\ ChargeOf(r) \in Nat
  BY KeysStay, ChargeIsNat
<1>t. jobs \in [Requests -> JobStatuses]
  BY DEF SubmitOK
<1>f. ASSUME Spared({"refund", "crash"})'
      PROVE  /\ Spared({"refund", "crash"})
             /\ \A r \in Requests : ~RefundFails(r) /\ ~Crash(r)
  BY <1>f, SparedStep DEF Events, RememberFails, NoAnswer, RefundFails, Crash
<1>1. ASSUME NEW r \in Requests, RequestStep(r) PROVE JobsQueued'
  <2>1. SUFFICES ASSUME NEW q \in Requests
        PROVE  /\ jobs'[q] = "preparing" => ChargeOf(q) > 0
               /\ Spared({"refund", "crash"})' /\ jobs'[q] = "preparing"
                  => q \in queue'
                     \/ submit'[q].step \in {"write", "enqueue", "refund"}
    BY <1>k DEF JobsQueued
  <2>2. queue \subseteq queue'
    BY <1>1, RequestCases DEF TakeNoKey, RememberFails, NoAnswer, RefundFails,
                              Crash
  <2>3. CASE q # r
    BY <1>1, <1>f, <2>2, <2>3, OthersStay DEF JobsQueued
  <2>4. CASE q = r
    <3>1. jobs'[r] = "preparing" => ChargeOf(r) > 0
      BY <1>1, <1>k, <1>t, RequestCases
      DEF JobsQueued, TakeNoKey, RememberFails, NoAnswer, RefundFails, Crash
    <3>2. ASSUME Spared({"refund", "crash"})', jobs'[r] = "preparing"
          PROVE  r \in queue'
                 \/ submit'[r].step \in {"write", "enqueue", "refund"}
      <4>1. /\ jobs[r] = "preparing" => r \in queue
                 \/ submit[r].step \in {"write", "enqueue", "refund"}
            /\ ~RefundFails(r) /\ ~Crash(r)
        BY <1>f, <3>2 DEF JobsQueued
      <4>2. submit[r].step \in {"new", "lookup", "count", "create"}
            => jobs[r] = "none"
        BY DEF JobFollows, Before
      <4>3. ChargeOf(r) > 0
        BY <3>1, <3>2
      <4>4. QED
        BY <1>1, <1>t, <2>2, <3>2, <4>1, <4>2, <4>3, RequestCases
        DEF Ran, TakeNoKey, RememberFails
    <3>3. QED
      BY <2>4, <3>1, <3>2
  <2>5. QED
    BY <2>3, <2>4
<1>2. ASSUME NEW j \in Requests, JobRuns(j) \/ DeleteJob(j)
      PROVE  JobsQueued'
  <2>1. /\ submit' = submit /\ jobs'[j] # "preparing"
        /\ \A q \in Requests \ {j} : jobs'[q] = jobs[q]
        /\ \A q \in queue \ {j} : q \in queue'
    BY <1>2, <1>t DEF JobRuns, DeleteJob
  <2>2. QED
    BY <1>f, <1>k, <2>1 DEF JobsQueued
<1>3. ASSUME NEW k \in Keys, KeyExpires(k) PROVE JobsQueued'
  BY <1>3, <1>f, <1>k DEF JobsQueued, KeyExpires
<1>4. CASE UNCHANGED vars
  BY <1>4, <1>f, <1>k DEF JobsQueued, vars
<1>5. QED
  BY <1>1, <1>2, <1>3, <1>4, StepsOfNext

LEMMA NothingOwedStep ==
  ASSUME SubmitOK, JobFollows, JobsQueued, NothingOwed, [Next]_vars
  PROVE  NothingOwed'
<1>k. \A r \in Requests : ChargeOf(r)' = ChargeOf(r) /\ ChargeOf(r) \in Nat
  BY KeysStay, ChargeIsNat
<1>t. jobs \in [Requests -> JobStatuses]
  BY DEF SubmitOK
<1>p. \A j \in Requests :
        /\ j \in Paid <=> /\ jobs[j] \in {"preparing", "completed", "deleted"}
                          /\ ChargeOf(j) > 0
        /\ j \in Paid' <=> /\ jobs'[j] \in {"preparing", "completed", "deleted"}
                           /\ ChargeOf(j) > 0
  BY <1>k DEF Paid
<1>0. SUFFICES ASSUME Spared({"refund"})', NEW q \in Requests,
                      submit'[q].step \in {"peek", "release", "refused"}
               PROVE  q \notin Paid'
  BY DEF NothingOwed
<1>f. Spared({"refund"}) /\ \A r \in Requests : ~RefundFails(r)
  BY <1>0, SparedStep DEF Events, RefundFails
<1>i. submit[q].step \in {"peek", "release", "refused"} => q \notin Paid
  BY <1>f DEF NothingOwed
<1>1. ASSUME NEW r \in Requests, RequestStep(r) PROVE q \notin Paid'
  <2>1. CASE q # r
    BY <1>0, <1>1, <1>i, <1>p, <2>1, OthersStay
  <2>2. CASE q = r
    <3>1. submit[r].step \in Before => jobs[r] = "none"
      BY DEF JobFollows
    <3>2. submit[r].step = "refund" /\ ChargeOf(r) > 0 => jobs[r] = "preparing"
      BY DEF JobFollows
    <3>3. ~RefundFails(r)
      BY <1>f
    <3>4. QED
      BY <1>0, <1>1, <1>i, <1>p, <1>t, <2>2, <3>1, <3>2, <3>3, RequestCases
      DEF Ran, Before, TakeNoKey, Crash
  <2>3. QED
    BY <2>1, <2>2
<1>2. ASSUME NEW j \in Requests, JobRuns(j) \/ DeleteJob(j) PROVE q \notin Paid'
  BY <1>0, <1>2, <1>i, <1>p, <1>t DEF JobRuns, DeleteJob
<1>3. ASSUME NEW k \in Keys, KeyExpires(k) PROVE q \notin Paid'
  BY <1>0, <1>3, <1>i, <1>p DEF KeyExpires
<1>4. CASE UNCHANGED vars
  BY <1>0, <1>4, <1>i, <1>p DEF vars
<1>5. QED
  BY <1>1, <1>2, <1>3, <1>4, StepsOfNext

LEMMA AcceptInvInit == Init => AcceptInv
<1>1. ASSUME Init PROVE SubmitOK /\ JobFollows
  BY <1>1, KeyInvInit DEF KeyInv
<1>2. ASSUME Init
      PROVE  /\ \A r \in Requests : jobs[r] = "none" /\ submit[r].step = "new"
             /\ credits \in Nat /\ queue = {}
  BY <1>2, ConstantsAssumption DEF Init
<1>3. QED
  BY <1>1, <1>2 DEF AcceptInv, JobsQueued, NothingOwed

LEMMA AcceptInvStep == AcceptInv /\ [Next]_vars => AcceptInv'
<1>1. SUFFICES ASSUME AcceptInv, [Next]_vars PROVE AcceptInv'
  OBVIOUS
<1>2. /\ SubmitOK /\ JobFollows /\ JobsQueued /\ NothingOwed
      /\ credits \in Nat /\ queue \subseteq Requests
  BY <1>1 DEF AcceptInv
<1>3. SubmitOK' /\ JobFollows' /\ JobsQueued' /\ NothingOwed'
  BY <1>1, <1>2, SubmitStep, JobFollowsStep, JobsQueuedStep, NothingOwedStep
<1>4. credits' \in Nat
  <2>1. \A r \in Requests : ChargeOf(r) \in Nat
    BY <1>2, ChargeIsNat
  <2>2. QED
    BY <1>1, <1>2, <2>1, CreditsMove
<1>5. queue' \subseteq Requests
  BY <1>1, <1>2, StepsOfNext
  DEF RequestStep, TakeKey, LookupKey, PeekKey, ReleaseKey, RememberKey,
      CountActive, CreateBulkJob, InsufficientCredits, WriteSource,
      EnqueuePrepare, RefundJob, TakeNoKey, WriteSourceFails,
      EnqueuePrepareFails, RefundFails, Crash,
      RememberFails, NoAnswer, JobRuns, DeleteJob,
      KeyExpires, Debited, vars
<1>6. QED
  BY <1>3, <1>4, <1>5 DEF AcceptInv

LEMMA AcceptInvHolds == Spec => []AcceptInv
  BY AcceptInvInit, AcceptInvStep, PTL DEF Spec

(* The types of all variables; with them, that a user never owes credits:  *)
(* the debit of CreateBulkJob looks at the balance under the row lock.     *)
THEOREM AcceptTypes == Spec => []TypeOK
<1>1. AcceptInv => TypeOK
  BY DEF AcceptInv, SubmitOK, TypeOK
<1>2. QED
  BY <1>1, AcceptInvHolds, PTL

(* A refused request costs nothing as long as no refund has failed: every  *)
(* way out of SubmitBulkJob leaves before the debit or after the refund.   *)
THEOREM RefusalIsFree == Spec => []RefusedIsFree
<1>1. AcceptInv => RefusedIsFree
  BY DEF AcceptInv, NothingOwed, RefusedIsFree
<1>2. QED
  BY <1>1, AcceptInvHolds, PTL

(* A job that shows as preparing has its prepare message, or the request   *)
(* that made it is still at work, unless that one died or its refund       *)
(* failed.                                                                 *)
THEOREM AcceptanceIsQueued == Spec => []AcceptedIsQueued
<1>1. AcceptInv => AcceptedIsQueued
  BY DEF AcceptInv, JobsQueued, AcceptedIsQueued
<1>2. QED
  BY <1>1, AcceptInvHolds, PTL

-----------------------------------------------------------------------------
(* The sum of the charges of a finite set of requests.                     *)

(* Of the sets in a collection one has no other below it.                  *)
LEMMA SmallestSet ==
  ASSUME NEW S, IsFiniteSet(S), NEW C \in SUBSET SUBSET S, C # {}
  PROVE  \E T \in C : \A U \in C : U \subseteq T => U = T
<1>1. C \subseteq FiniteSubsetsOf(S)
  BY FS_Subset DEF FiniteSubsetsOf
<1>2. IsWellFoundedOn(StrictSubsetOrdering(S), FiniteSubsetsOf(S))
  BY FS_StrictSubsetOrderingWellFounded
<1>3. PICK T \in C : \A U \in C : ~(<<U, T>> \in StrictSubsetOrdering(S))
  BY <1>1, <1>2, WFMin
<1>4. QED
  BY <1>3 DEF StrictSubsetOrdering

(* What MapThenSumSet computes on the subsets of S.                        *)
First(s) == CHOOSE x \in s : TRUE
IsSum(c, S, g) ==
  g = [s \in SUBSET S |-> IF s = {} THEN 0 ELSE c[First(s)] + g[s \ {First(s)}]]
Total(c, S) == (CHOOSE g : IsSum(c, S, g))[S]

LEMMA FirstIsElement ==
  ASSUME NEW s, s # {}
  PROVE  First(s) \in s
  BY DEF First

LEMMA SumEquation ==
  ASSUME NEW c, NEW S, NEW g, IsSum(c, S, g), NEW s \in SUBSET S
  PROVE  g[s] = IF s = {} THEN 0 ELSE c[First(s)] + g[s \ {First(s)}]
  BY DEF IsSum

LEMMA SumIsUnique ==
  ASSUME NEW c, NEW S, NEW g, IsSum(c, S, g), NEW T, NEW h, IsSum(c, T, h),
         NEW u, u \subseteq S, u \subseteq T, IsFiniteSet(u)
  PROVE  g[u] = h[u]
<1> DEFINE C == {v \in SUBSET u : g[v] # h[v]}
<1>1. SUFFICES ASSUME C # {} PROVE FALSE
  OBVIOUS
<1>c. C \in SUBSET SUBSET u
  OBVIOUS
<1>2. PICK v \in C : \A w \in C : w \subseteq v => w = v
  <2> HIDE DEF C
  <2>1. QED
    BY <1>1, <1>c, SmallestSet
<1>3. v \in SUBSET S /\ v \in SUBSET T /\ v \in SUBSET u /\ g[v] # h[v]
  BY <1>2
<1>4. CASE v = {}
  BY <1>3, <1>4, SumEquation
<1>5. CASE v # {}
  <2>1. First(v) \in v
    BY <1>5, FirstIsElement
  <2>2. g[v \ {First(v)}] = h[v \ {First(v)}]
    BY <1>2, <1>3, <2>1
  <2>3. /\ g[v] = c[First(v)] + g[v \ {First(v)}]
        /\ h[v] = c[First(v)] + h[v \ {First(v)}]
    BY <1>3, <1>5, SumEquation
  <2>4. QED
    BY <1>3, <2>2, <2>3
<1>6. QED
  BY <1>4, <1>5

LEMMA SumExists ==
  ASSUME NEW c, NEW S, IsFiniteSet(S)
  PROVE  \E g : IsSum(c, S, g)
<1> DEFINE C == {T \in SUBSET S : ~\E g : IsSum(c, T, g)}
<1>1. SUFFICES ASSUME C # {} PROVE FALSE
  BY S \in SUBSET S
<1>c. C \in SUBSET SUBSET S
  OBVIOUS
<1>2. PICK T \in C : \A U \in C : U \subseteq T => U = T
  <2> HIDE DEF C
  <2>1. QED
    BY <1>1, <1>c, SmallestSet
<1>3. T \in SUBSET S /\ ~\E g : IsSum(c, T, g)
  BY <1>2
<1> DEFINE some(U) == CHOOSE g : IsSum(c, U, g)
<1>4. \A U \in SUBSET T : U # T => IsSum(c, U, some(U))
  BY <1>2
<1> DEFINE below(s) == some(s \ {First(s)})[s \ {First(s)}]
<1> HIDE DEF some
<1>h. PICK h : h = [s \in SUBSET T |-> IF s = {} THEN 0 ELSE c[First(s)] + below(s)]
  OBVIOUS
<1>5. \A U \in SUBSET T : U # T => some(U)[U] = h[U]
  <2>1. SUFFICES ASSUME NEW U \in SUBSET T, U # T PROVE some(U)[U] = h[U]
    OBVIOUS
  <2>2. IsSum(c, U, some(U))
    BY <1>4, <2>1
  <2>3. CASE U = {}
    BY <1>h, <2>2, <2>3, SumEquation
  <2>4. CASE U # {}
    <3> DEFINE V == U \ {First(U)}
    <3>1. V \in SUBSET T /\ V # T /\ V \subseteq U /\ IsFiniteSet(V)
      BY <1>3, <2>1, <2>4, FirstIsElement, FS_Subset
    <3>2. some(U)[V] = some(V)[V]
      BY <1>4, <2>2, <3>1, SumIsUnique
    <3>3. some(U)[U] = c[First(U)] + some(U)[V]
      BY <2>2, <2>4, SumEquation
    <3>4. QED
      BY <1>h, <2>4, <3>2, <3>3
  <2>5. QED
    BY <2>3, <2>4
<1>6. \A s \in SUBSET T : s # {} => below(s) = h[s \ {First(s)}]
  BY <1>5, FirstIsElement
<1> HIDE DEF below
<1>i. h = [s \in SUBSET T |->
             IF s = {} THEN 0 ELSE c[First(s)] + h[s \ {First(s)}]]
  BY <1>h, <1>6
<1>7. QED
  BY <1>3, <1>i DEF IsSum

LEMMA TotalIsSum ==
  ASSUME NEW c, NEW S, IsFiniteSet(S)
  PROVE  \E g : IsSum(c, S, g) /\ \A u \in SUBSET S : Total(c, u) = g[u]
<1>1. PICK g : IsSum(c, S, g)
  BY SumExists
<1>2. ASSUME NEW u \in SUBSET S PROVE Total(c, u) = g[u]
  <2>1. IsFiniteSet(u)
    BY FS_Subset
  <2>2. IsSum(c, u, CHOOSE h : IsSum(c, u, h))
    BY <2>1, SumExists
  <2>3. QED
    BY <1>1, <2>1, <2>2, SumIsUnique DEF Total
<1>3. QED
  BY <1>1, <1>2

LEMMA TotalEquation ==
  ASSUME NEW c, NEW S, IsFiniteSet(S)
  PROVE  Total(c, S) = IF S = {} THEN 0 ELSE c[First(S)] + Total(c, S \ {First(S)})
<1>1. PICK g : IsSum(c, S, g) /\ \A u \in SUBSET S : Total(c, u) = g[u]
  BY TotalIsSum
<1>2. Total(c, S) = g[S] /\ Total(c, S \ {First(S)}) = g[S \ {First(S)}]
  BY <1>1
<1>3. QED
  BY <1>1, <1>2, SumEquation

LEMMA TotalIsNat ==
  ASSUME NEW S, IsFiniteSet(S), NEW c, \A x \in S : c[x] \in Nat
  PROVE  Total(c, S) \in Nat
<1> DEFINE C == {T \in SUBSET S : Total(c, T) \notin Nat}
<1>1. SUFFICES ASSUME C # {} PROVE FALSE
  BY S \in SUBSET S
<1>c. C \in SUBSET SUBSET S
  OBVIOUS
<1>2. PICK T \in C : \A U \in C : U \subseteq T => U = T
  <2> HIDE DEF C
  <2>1. QED
    BY <1>1, <1>c, SmallestSet
<1>3. T \in SUBSET S /\ Total(c, T) \notin Nat /\ IsFiniteSet(T)
  BY <1>2, FS_Subset
<1>e. Total(c, {}) = 0
  BY FS_EmptySet, TotalEquation
<1>4. T # {}
  BY <1>3, <1>e
<1>5. First(T) \in T
  BY <1>4, FirstIsElement
<1>6. Total(c, T \ {First(T)}) \in Nat
  BY <1>2, <1>3, <1>5
<1>7. QED
  BY <1>3, <1>4, <1>5, <1>6, TotalEquation

(* The order in which the sum is taken does not matter.                    *)
LEMMA TotalAnyElement ==
  ASSUME NEW S, IsFiniteSet(S), NEW c, \A x \in S : c[x] \in Nat,
         NEW y \in S
  PROVE  Total(c, S) = c[y] + Total(c, S \ {y})
<1> DEFINE C == {T \in SUBSET S :
                   \E x \in T : Total(c, T) # c[x] + Total(c, T \ {x})}
<1>1. SUFFICES ASSUME C # {} PROVE FALSE
  BY S \in SUBSET S
<1>c. C \in SUBSET SUBSET S
  OBVIOUS
<1>2. PICK T \in C : \A U \in C : U \subseteq T => U = T
  <2> HIDE DEF C
  <2>1. QED
    BY <1>1, <1>c, SmallestSet
<1>3. PICK x \in T : Total(c, T) # c[x] + Total(c, T \ {x})
  BY <1>2
<1> DEFINE f == First(T)
<1>4. T \in SUBSET S /\ IsFiniteSet(T) /\ T # {} /\ f \in T
  BY <1>2, <1>3, FS_Subset, FirstIsElement
<1>5. Total(c, T) = c[f] + Total(c, T \ {f})
  BY <1>4, TotalEquation
<1>6. x # f
  BY <1>3, <1>5
<1>7. T \ {f} \notin C /\ T \ {x} \notin C
  BY <1>2, <1>3, <1>4
<1>8. /\ Total(c, T \ {f}) = c[x] + Total(c, (T \ {f}) \ {x})
      /\ Total(c, T \ {x}) = c[f] + Total(c, (T \ {x}) \ {f})
  BY <1>3, <1>4, <1>6, <1>7
<1>9. (T \ {f}) \ {x} = (T \ {x}) \ {f}
  OBVIOUS
<1>10. /\ c[x] \in Nat /\ c[f] \in Nat
       /\ Total(c, (T \ {f}) \ {x}) \in Nat
  BY <1>3, <1>4, FS_Subset, TotalIsNat
<1>11. QED
  BY <1>3, <1>5, <1>8, <1>9, <1>10

-----------------------------------------------------------------------------
(* The balance.  Costs fixes the charge of every request, which no step    *)
(* changes.                                                                *)

Costs == [r \in Requests |-> ChargeOf(r)]
BalanceInv == credits = Balance - Total(Costs, Paid)

LEMMA PaidIsFinite ==
  /\ Paid \subseteq Requests
  /\ \A S \in SUBSET Requests : IsFiniteSet(S)
  BY ConstantsAssumption, FS_Subset DEF Paid

LEMMA CostsStay ==
  ASSUME SubmitOK, [Next]_vars
  PROVE  /\ Costs' = Costs
         /\ \A r \in Requests : Costs[r] = ChargeOf(r) /\ Costs[r] \in Nat
  BY KeysStay, ChargeIsNat DEF Costs

LEMMA BalanceInvInit == Init => BalanceInv
<1>1. SUFFICES ASSUME Init PROVE BalanceInv
  OBVIOUS
<1>2. Paid = {} /\ credits = Balance /\ Balance \in Nat
  BY <1>1, ConstantsAssumption DEF Init, Paid
<1>3. Total(Costs, {}) = 0
  BY FS_EmptySet, TotalEquation
<1>4. QED
  BY <1>2, <1>3 DEF BalanceInv

LEMMA BalanceInvStep == AcceptInv /\ BalanceInv /\ [Next]_vars => BalanceInv'
<1>1. SUFFICES ASSUME AcceptInv, BalanceInv, [Next]_vars PROVE BalanceInv'
  OBVIOUS
<1>2. /\ SubmitOK /\ JobFollows /\ JobsQueued /\ credits \in Nat
      /\ credits = Balance - Total(Costs, Paid)
  BY <1>1 DEF AcceptInv, BalanceInv
<1>3. /\ Costs' = Costs
      /\ \A r \in Requests : Costs[r] = ChargeOf(r) /\ Costs[r] \in Nat
  BY <1>1, <1>2, CostsStay
<1>4. SUFFICES credits' = Balance - Total(Costs, Paid')
  BY <1>3 DEF BalanceInv
<1>5. \A S \in SUBSET Requests : Total(Costs, S) \in Nat
  BY <1>3, PaidIsFinite, TotalIsNat
<1>6. \A S \in SUBSET Requests : \A r \in S :
        Total(Costs, S) = ChargeOf(r) + Total(Costs, S \ {r})
  BY <1>3, PaidIsFinite, TotalAnyElement
<1>7. Paid \subseteq Requests /\ Balance \in Nat
  BY PaidIsFinite, ConstantsAssumption
<1>8. CASE credits' = credits /\ Paid' = Paid
  BY <1>2, <1>8
<1>9. ASSUME NEW r \in Requests, r \notin Paid, Paid' = Paid \cup {r},
             credits' = credits - ChargeOf(r)
      PROVE  credits' = Balance - Total(Costs, Paid')
  <2>1. Paid' \ {r} = Paid /\ Paid' \in SUBSET Requests /\ r \in Paid'
    BY <1>7, <1>9
  <2>2. Total(Costs, Paid') = ChargeOf(r) + Total(Costs, Paid)
    BY <1>6, <2>1
  <2>3. ChargeOf(r) \in Nat /\ Total(Costs, Paid) \in Nat
    BY <1>3, <1>5, <1>7
  <2>4. QED
    BY <1>2, <1>7, <1>9, <2>2, <2>3
<1>10. ASSUME NEW r \in Paid, Paid' = Paid \ {r},
              credits' = credits + ChargeOf(r)
       PROVE  credits' = Balance - Total(Costs, Paid')
  <2>1. Total(Costs, Paid) = ChargeOf(r) + Total(Costs, Paid')
    BY <1>6, <1>7, <1>10
  <2>2. ChargeOf(r) \in Nat /\ Total(Costs, Paid') \in Nat
    BY <1>3, <1>5, <1>7, <1>10
  <2>3. QED
    BY <1>2, <1>7, <1>10, <2>1, <2>2
<1>11. QED
  BY <1>1, <1>2, <1>8, <1>9, <1>10, CreditsMove

(* The folded sum of the model is that total.                              *)
LEMMA TotalIsFold == MapThenSumSet(ChargeOf, Paid) = Total(Costs, Paid)
<1> DEFINE Fold(g) ==
      g = [s \in SUBSET Paid |-> IF s = {} THEN 0
                                 ELSE ChargeOf(First(s)) + g[s \ {First(s)}]]
<1>1. MapThenSumSet(ChargeOf, Paid) = (CHOOSE g : Fold(g))[Paid]
  BY DEF MapThenSumSet, MapThenFoldSet, First
<1>2. \A s \in SUBSET Paid : s # {} => Costs[First(s)] = ChargeOf(First(s))
  BY PaidIsFinite, FirstIsElement DEF Costs
<1>3. \A g : Fold(g) <=> IsSum(Costs, Paid, g)
  BY <1>2 DEF IsSum
<1>4. IsFiniteSet(Paid)
  BY PaidIsFinite
<1>5. Fold(CHOOSE g : Fold(g))
  BY <1>3, <1>4, SumExists
<1>6. PICK h : IsSum(Costs, Paid, h) /\ \A u \in SUBSET Paid : Total(Costs, u) = h[u]
  BY <1>4, TotalIsSum
<1> HIDE DEF Fold
<1>7. (CHOOSE g : Fold(g))[Paid] = h[Paid]
  <2>1. IsSum(Costs, Paid, CHOOSE g : Fold(g))
    BY <1>3, <1>5
  <2>2. QED
    BY <1>4, <1>6, <2>1, SumIsUnique
<1>8. QED
  BY <1>1, <1>6, <1>7

(* The user's credits are always the start less what the jobs that did not *)
(* fail cost: a debit and its job, a refund and its failure, are one       *)
(* transaction each.                                                       *)
THEOREM CreditsAreExplained == Spec => []BalanceExplained
<1>1. Init => AcceptInv /\ BalanceInv
  BY AcceptInvInit, BalanceInvInit
<1>2. AcceptInv /\ BalanceInv /\ [Next]_vars => (AcceptInv /\ BalanceInv)'
  BY AcceptInvStep, BalanceInvStep
<1>3. BalanceInv => BalanceExplained
  BY TotalIsFold DEF BalanceInv, BalanceExplained
<1>4. QED
  BY <1>1, <1>2, <1>3, PTL DEF Spec
=============================================================================
