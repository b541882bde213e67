# TLA+ models of the bulk verification system

This directory models the e-mail verification service in its two halves. On the
server, the part where money and concurrency meet: how an uploaded list becomes a
paid job, how the job is cut into chunks for the SMTP workers, how their results
come back, and what the user's pause, resume, retry and delete do to all of that.
In the browser, the web application: every page with its requests in flight, the
session its tabs share, and the WebSocket that keeps it live. The modules are
checked with TLC on small instances; the central facts are proved with TLAPS for
every instance.

Paths below are relative to the repository; `job_service.go`, `job_repo.go`,
`worker_service.go`, `prepare_worker.go` and `prepare_lock.go` are in
`backend/internal/service` and `backend/internal/repo`, `handlers.go` in
`worker/internal/queue`; paths of the web application are relative to `frontend`.

## The system

| Part | State | Operations | Talks to |
| --- | --- | --- | --- |
| Bulk submit | `jobs`, `users.credits`, `transactions`, Redis `idempotency:job:*`, source file | `SubmitBulkJob`, `CreateBulkJob`, `RefundJob` | Postgres, Redis, Asynq queue `prepare` |
| Bulk prepare | `job_tasks`, Redis `bulk:prepare:lock:*`, `bulk:prepare:active` | `PrepareBulkJob`, `enqueueBulkChunks`, `processCacheHits`, `FailPreparingJob` | Asynq chunk queues, e-mail cache |
| Job control | `jobs.status`, Redis `bulk:job:paused:*` | `PauseJob`, `ResumeJob`, `RetryJob`, `DeleteJob` | Asynq inspector (purge), prepare's enqueue |
| SMTP workers | chunk in progress, cached pause flag, concurrency gate | `HandleEmailChunkTask`, `HandleDeadLetterTask` | Asynq (retry, archive), reporter |
| Result ingestion | `job_results`, counters of `jobs` and `job_tasks` | `ReportTaskResults`, `CheckAndApplyRiskyRefund` | workers (HTTP), WebSocket hub |
| Worker fleet | `worker_servers`, heartbeats | enable, disable, `StaleWorkerWatchdog` | `job_tasks`, `jobs` |
| Single verification | one job, one task, Redis `idempotency:single:*` | `VerifySingle`, `ReportTaskResult` | workers |
| Payments, transfers | `transactions`, `users.credits` | webhooks, capture, expiry, `TransferCredits` | gateways |
| Worker pacing | token buckets, domain statistics, proxy pool | acquire, back off, pick | SMTP engine |
| Pages | React state of the mounted page, zustand stores, requests in flight | handlers of clicks, pushes, timers and answers | API through the proxy route, WebSocket events |
| Session | cookies `auth_token`, `user_api_key`, `admin_impersonator_*` | login, impersonate, logout, expiry | route handlers under `app/next-api/auth` |
| Live link | token request, socket, reconnect timer, indicator of a tab | `connect`, `scheduleReconnect`, `onopen`, `onclose` | `ws-token`, WebSocket hub |
| Accounts, API keys, abuse limits, settings, admin, logs, WebSocket hub, exports (server side), deployment | rows and caches of their own | CRUD, notifications | — |

Everything between two database transactions, two Redis commands or two Asynq
calls of a handler is unprotected: other handlers run there, and the process may
die there. There is no unique index on `job_results(job, email)`, no foreign key
from a chunk message to a live task, and credits are moved in several places that
recognise each other only by a `LIKE` on a description. What makes a component
correct:

- submit: a list under one idempotency key is paid for once; a refused request
  costs nothing; what the user sees as `preparing` will be prepared;
- prepare, workers and ingestion: every chargeable address gets exactly one
  result, counters are those of the results, and the job comes to rest;
- job control: the flag that workers obey agrees with the status the user sees,
  a finished job is not worked on again;
- credits: a completed job costs its conclusive results, a failed one nothing;
- pages: a control that is disabled comes back, what must not overlap does not, a
  retry carries the key of its first try, and nothing that is shown contradicts an
  answer that was received;
- session and live link: token and API key are of one user, a tab has one socket,
  reconnects for as long as it has a session, and shows the link as it is.

In the browser nothing runs in parallel, but every `await` lets other handlers
run: the answers of two requests arrive in any order, after a push, after the
form was reset, after the user has gone elsewhere, or never.

The hard behaviours are listed with their lines under `hazards` in
`PROJECT.json`.

## Modules

| Module | Content |
| --- | --- |
| `BulkJob` | one job from acceptance to rest: prepare, chunks, workers, reports, requests |
| `MCBulkJob` | bounds of the environment for its runs |
| `BulkJobProofs` | type correctness of `BulkJob` for every instance; one row per address of a generation |
| `BulkJobSoloProofs` | a job whose requests are served one at a time: how an address may get a second row, one row per address without crashes, a failed job stays failed |
| `BulkJobCountProofs` | counters, completion and credits of failed jobs under concurrent requests, without crashes |
| `BulkJobSerialProofs` | flag and status, refunds, the price of a completed job and the work of a running one, requests one at a time and no crashes |
| `BulkAccept` | several submits of one user: idempotency key, limit, debit, refund |
| `MCBulkAccept` | lists and bounds for its runs |
| `BulkAcceptProofs` | one payment per key, refusals that are free, queued acceptances and the explained balance for every instance |
| `Page`, the 24 page modules, `Pages`, `MCPages` | the web application, see below |
| `PagesProofs` | the invariant of all pages and the properties that follow from it; the log never shows an entry twice |
| `PagesTypeProofs` | how many requests a page has in flight, and to which endpoints |
| `Session` | the cookies of a browser and the handlers that set them |
| `Realtime`, `MCRealtime` | a tab and its WebSocket over that session |
| `Link` | what the pages may rely on: the abstract live link |
| `RealtimeProofs` | the invariants of `Realtime`, and that it implements `Link` |

### BulkJob

One step is one transaction, one Redis command or one Asynq operation. What a
handler holds in local variables between its steps is in `proc`, one record for
the prepare handler and one for each API request in flight (`Clients`), so
requests interleave with each other, with prepare and with the workers.

| State | Code |
| --- | --- |
| `status`, `processed`, `risky` | columns of `jobs`; `deleted` is the soft-deleted row, `cancelled`, which no transaction leaves behind, does not appear |
| `tasks`, `gen` | the live `job_tasks`; all rows are replaced at once, so a task id is a generation and a chunk |
| `rows` | `job_results`, with the generation and the writer as ghost columns: two rows for one address stay two rows |
| `ledger` | sums of the charges and refunds that `transactions` holds for the job, and the number of refunds whose description names it |
| `flag`, `seen` | the Redis soft-stop flag and the worker's cached copy of it |
| `prep`, `lock` | the prepare message with its retry count, and the per-job lock (`orphan`: its holder died) |
| `msgs` | chunk messages: waiting, being verified, about to report, dead |

The actions are in the order of the code. *Prepare*: `PrepareSkip`,
`PrepareSlotBusy`, `PrepareStart`, `PrepareCheck` and `PrepareTasks` (the unlocked
look at the status and the replacement of the tasks, between which reports commit),
`PrepareClaimed`, `PrepareTasksFail`, `MarkPending`, `FailPreparingRead` and `FailPreparingJob`
(the error handler of the last attempt). *Enqueue*, shared by prepare, resume and
retry: `EnqueueChunk` per chunk with misses, then `PersistHits` per chunk with
cache hits; `EnqueueFails` and `PersistHitsFail` with what the code undoes.
*Requests*: `PauseJob`, `RequeueJob` (resume and retry), `DeleteJob` and their
steps. *Workers*: `SkipChunk`, `StartChunk`, `FinishChunk`, `StopChunk`,
`Report`, with `ChunkFails`, `ReportUnanswered`, `ReportRefused` and `DeadLetterLost`
for what goes wrong: a report answered 500 (by a database that fails or to a worker
that is disabled) is an error of the chunk, which Asynq retries; one answered 4xx (to
a worker whose key was rotated) archives the chunk at once.

Abstractions, all of them visible to no property: an address is a model value and
its verdict conclusive or unknown (the code's counters of valid, invalid and so on
sum up the conclusive ones); `Cuts` allows every partition into chunks up to
`ChunkSize`, of which the code's shuffle and dynamic sizes pick one; whether the
cache or a domain policy answers is a free choice among `Cacheable`; a Redis write
that directly follows a transaction in the same handler (`RefundJob`, `DropJob`,
`RequeueNothing`, the end of a report) is folded into it; the cancel, delete and
recount of a failed hit write are one step. A handler that outlives Asynq's two
hours is not modelled.

### BulkAccept

`submit` says where each request is in `SubmitBulkJob`. `TakeKey`, `LookupKey`,
`PeekKey`, `ReleaseKey` and `RememberKey` are the Redis commands of the
idempotency key; `CountActive` and `CreateBulkJob` are the two statements of the
accept transaction between which, under READ COMMITTED, another submit commits;
`WriteSource`, `EnqueuePrepare` and `RefundJob` follow. `TakeNoKey` and `RememberFails`
are the two Redis errors that the code passes over (the submit goes on), `NoAnswer`
those that refuse it, with the user that is not found and the queue that does not
answer a ping. `KeyExpires` is the TTL of
60 seconds (the later one of 24 hours is not modelled), `Crash` the death of
the API process. `JobRuns` and `DeleteJob` are what `BulkJob` describes in
detail, as far as a submit can see it.

### The pages

| Module | Content |
| --- | --- |
| `Page` | what every page is built on: its state `ui`, its requests `net`, the outcomes of a request |
| `DashboardStore` | the credits all pages of a user show |
| `UsersPage`, `ServerPage`, `JobControlPage`, `CachePage`, `LogsPage`, `LicensePage`, `BrandPage`, `PackagesPage`, `SmtpPage`, `PaymentPage`, `DomainsPage`, `SecurityPage` | the administration |
| `ApiKeysPage`, `ProfilePage`, `JobsPage`, `JobDetailsPage`, `UploadPage`, `VerifyPage`, `CreditsPage`, `HistoryPage`, `TransferPage` | the pages of a user |
| `HomePage`, `ContactPage`, `AccountPages` | the public site: free check, contact form, registration and login |
| `Pages`, `MCPages` | their composition, with the properties of all of them, and its instance |

A page module says what the component keeps (`ui`: its React state, its refs, its
part of a zustand store and, as `ui.srv`, what the server holds of the same thing)
and what changes it. `Click` is a step of the user, a timer or a push; `Answer` is
what follows an `await`. A handler runs to its first `await` in one step; the
request it sends carries in `arg` what its closure has captured, so that a refetch
uses the page and the search of the moment of the click, as the code does. The
outcome of a request is the `status` of the body or a rejected promise; a request
that is rejected may have been carried out, which `done` in its argument decides
when it is sent. A name in `ui.busy` is a loading flag of the code. Requests in
flight are told apart by an `id`, one that is `Free`; a request that a page of an
account leaves behind takes a free id again, so that it does not become equal to
another one. `TypeOK` says which `Endpoints` each page may ask.

Two handlers wait for more than one answer. The save of a worker server
(`ServerPage`) posts the warm-up settings and the rate limit together and waits with
`Promise.all`: the first request that is rejected ends the wait and frees the button,
and the other, under way as `server/late`, is nobody's any more. The loads of the job
control and of the security page take each answer by itself. A page that leaves by
itself (for the checkout, or for the list after a deletion) keeps its flag until the
browser is there; that navigation is held like a request.

`Pages` chooses the page a behaviour begins with (`Start`). The modules share the
two variables and are composed by INSTANCE; a step belongs to the page that is
mounted. Abstractions: a value typed into a form is one of a few model values, all
of them valid (validation that refuses a form changes nothing); an answer of a list
is read from `ui.srv` when it is asked for; toasts, animations, copy buttons and
what a page draws are left out.

### Session, Realtime and Link

`Session` is the cookie jar of a browser (`jar`) and the requests to the route
handlers (`calls`). Each request carries the cookies of the moment it is sent; its
answer sets all its cookies in one step, on whatever the jar holds by then. The tab
that is modelled shares the jar with others (`OtherTab`).

`Realtime` is one tab: `enabled` (a route of the application is shown), `ref`
(`socketRef`), `socks` (every socket it ever opened and that is not yet closed),
`token` (the request of `connect`, with `isConnectingRef`), `timer`, `connected`
(the indicator), `refused` (the server has said that there is no session). Its
actions are `connect`, the answers of the token request, `onopen`, `onclose` (after
a loss that the browser notices later), the timer, and the effect of `useSocket`
that runs when `enabled` changes. Delays only say when, and are left out, and with
them the number of attempts.

`Link` is the abstract specification: a link that is wanted or not, up, lost or
down, and the indicator that shows it; it goes on only as the link comes up and
never stays on after a loss was noticed. `Realtime` implements it (`ImplementsLink`,
with `linkState` as the refinement mapping): checked by TLC and proved.

## Runs

Every bound is a budget in `budget`: how many requests, crashes, busy slots,
failed enqueues, failed writes, failed chunks and refused reports a behaviour may
have. Handlers
themselves are not bounded. `CHECK_DEADLOCK FALSE` is set because a job at rest
has nothing left to do.

| Run | Instance | Question |
| --- | --- | --- |
| `JobPrepare` | 3 addresses, chunks of 2, 2 cacheable, 1 invalid; 2 busy slots, 1 enqueue, 1 write, 2 chunk failures | Does a job that nobody touches come to rest, with one result per address and exactly the conclusive ones paid? |
| `JobPause` | 2 addresses in one or two chunks; 3 requests of one client, 2 chunk failures | Do pauses, resumes and deletes lose or repeat an address, or leave flag and status apart? |
| `JobRaces` | 2 cacheable addresses, single chunks; 4 requests of 2 clients, 1 failed enqueue, 1 refused report | What holds when two requests work on one job at once? |
| `JobCrash` | 2 addresses, single chunks; 2 requests, 1 crash, 1 write, 1 chunk failure, 1 refused report, stale pause reads | In which ways does a crash duplicate results, and does it give work away? |
| `AcceptFaults` | 2 requests, 3 lists (one free, one too dear); one failure of each kind | What does the user pay, and what becomes of the key? |
| `Pages` | every page; one or two rows each, 2 requests in flight | Can an answer, its order or its loss leave a page stuck, wrong, or asking twice? |
| `Realtime` | an administrator and a customer, 2 cookie requests, 2 sockets, 1 failure | Does the tab keep one socket, show it truthfully and come back? |
| `JobCrashStall`, `JobRetryUnknown`, `JobStalePause`, `AcceptLimit`, `UploadKey` | the smallest instance that shows it | the disagreements below |

Why the bounds are enough: two addresses in two chunks make every pair of chunk,
hit, message and report interleave; a third one makes a chunk with a hit and a
miss and a second chunk besides; two clients make every pair of requests overlap,
and four requests let each of them follow a completed pause and resume; one retry
of prepare and of a chunk has a first, a second and an exhausted attempt. `JobRaces` uses symmetry: it checks
no liveness, and its clients and its (all cacheable) addresses are
interchangeable. On a page, two requests in flight make every pair of answers
cross, each with the outcomes success, error and rejection, and each with or
without its effect on the server; the user clicks only while fewer are in flight
(`MaxCalls`), and an answer may send two more. Two packages, settings or templates
are one to change and one to be changed by; a key, a secret or a code has as many
generations as an old one and a new one need. Two cookie requests make two tabs
cross; a second socket is the one that could be left behind; the failure may strike
the token request, the constructor or an open socket.

`JobRaces` leaves out unknown verdicts and `JobPause` leaves out concurrent
clients only for time: the properties of `JobRaces` also hold with unknown
verdicts, on instances of two million states. In all runs
the user acts after prepare has ended (`RequestsWhilePreparing = FALSE`); with
`TRUE`, a pause and resume while cache hits are being written duplicates rows, and
a retry between `RollbackHits` and `RefundEnqueue` restarts a job for which the
refund is still to come. Both really happen, so the properties they break are
checked without such requests; `GenerationWritesOnce` and `CompletedNeverRuns` are
proved with them. Likewise `CountersMatchRows`
is not checked with a failed write of hits, whose recount loses a report.

Properties. `WorkInFlight`, `OneRowPerAddress`, `RepeatsAreLateHits`,
`OneRowPerGeneration`, `CountersMatchRows`, `CompletedIsPaidExactly`, `FailedIsFree`,
`NeverOverRefunded`, `FlagFollowsStatus`, `CompletedStays`, `FailedStaysFailed`
and `AlwaysComesToRest` for the job; `BalanceExplained`, `ChargedOnce`,
`RefusedIsFree`, `AcceptedIsQueued` and `KeyComesFree` for submits;
`SpinnerHasRequest`, `OneAtATime`, `LogRowsDistinct`, `AtMostOnePopular`,
`KeyFollowsRotation`, `RetriesShareAKey`, `TokenUsedOnce` and `ConfirmationIsTrue`
for the pages; `KeyMatchesToken` for the session; `AtMostOneSocket`,
`ConnectedMeansOpen`, `OnlyRefusalEndsRetries`, `Reconnects` and `ImplementsLink`
for the live link. `RepeatsAreLateHits` says what `OneRowPerAddress` becomes after a
crash: the second row is a cache hit of a redelivered prepare, for an address that a
chunk of the attempt before has reported while the tasks were being replaced.
`ChargedOnce` is about keys that Redis keeps: after a SETNX or SET it did not
answer, a failed refund, a crash, or a request that outlives its key, the code
charges a repeat. `OneAtATime` leaves out forms whose success handler calls
`reset()`, which also clears `isSubmitting`, requests sent without a flag (a
refetch, a toggle) and the two of a save of a worker server: those may overlap, and the other properties hold when they do. The
conditions in them (no handler between two of its steps, no failure that the code
does not handle, a job that was never retried) are stated with each property;
`CountersMatchRows` is about a job without two rows for one address, because the
update of the counters caps `processed` at the total. Every property is tried against a
mutant of the code it guards: the operators marked "Mutant" are those, and no
action uses them.

Fairness. `FairSpec` assumes that a handler that has started runs on, that Asynq
delivers what it holds, that workers work and that keys with a TTL expire: weak
fairness per handler, and of one worker step among all messages, because the
workers drain one queue. Nothing obliges the user, and no failure has to happen.
`AlwaysComesToRest` and `KeyComesFree` are checked under it; `JobPause` lets the
job rest in `paused`. In `Realtime`, `FairSpec` assumes that a request is answered,
that a socket opens or closes, that a loss is noticed and that a timer fires (weak
fairness of each), all of which the browser does; failures are bounded by
`MaxFaults`, since a tab whose every attempt fails never connects. `Pages` states no
fairness: an answer may be lost for good, in the sense that it is still to come.

## What the runs found

Five disagreements between the code and what the repository says of it:

- `JobCrashStall`: `docs/BULK_UPLOAD_PIPELINE.md:213` promises that a crash in the
  middle of the enqueue is retried. A report from a chunk that is already out
  moves the job to `processing`, the redelivered prepare takes that for "already
  prepared", and the chunks that are missing are never sent.
- `JobRetryUnknown`: the document's line 476 promises the refund of unknown
  results once. The search for an earlier refund (`job_repo.go:301`) also finds
  the full refund of an enqueue that failed before the retry.
- `JobStalePause`: `job_service.go:1889` clears the flag before the enqueue so that
  new chunks are not acknowledged as paused; the worker's cached copy
  (`worker/internal/jobcontrol/pause.go:52`) makes it do that for up to two seconds.
- `AcceptLimit`: `job_repo.go:157` counts the active jobs "inside the same txn
  (avoids concurrent bypass)"; without a lock two submits count the same jobs.
- `UploadKey`: `features/bulk-upload/components/form.tsx:85` calls the idempotency key
  "Stable key for this file selection (retries reuse the same key)". A drop that is
  refused clears the key (line 61) and keeps the selection, so the next submit makes a
  new one. If it repeats a submit whose answer was lost, it makes a second job.

A sixth has no run: `handlers.go:339` says of the dead-letter report that it "MUST run
even when the worker is disabled", so that jobs "never stall". A report answered 4xx is
`asynq.SkipRetry` (`worker/internal/reporter/reporter.go:150`), which archives the chunk
at once, and `worker/cmd/worker/main.go:104` sends a dead-letter report for the last
attempt only: the addresses stay open and the job never ends. With one such report in
the budget of `JobPrepare`, `AlwaysComesToRest` and `WorkInFlight` fail.

And races that nothing in the repository speaks about, which shape the
conditions above: two pauses at once clear the flag of a paused job; a second
resume purges the chunks of the first before it is refused; a resume or
retry that failed writes `paused` or `failed` over a job that another request has
completed, and a delete of the paused one refunds its unknown results again; a
resume that still writes cache hits revives a job that has failed meanwhile; a job refunded as a whole keeps its
rows, so that deleting it after a paused retry refunds unknown results twice; a
delete of a failed job drops the retry that has just been paid for; a delete of a
paused job that is refused leaves the flag set; a crash in prepare leaves
its lock behind, the redelivered attempts are spent on it, and the error handler of
the last one (`FailPreparingJob`) may refund in full a job that its chunks have
completed between its read and its refund; a crash between the update and the
refund of `rollbackPrepareHitEmails` leaves a failed job unrefunded; a pause and resume between
a failed enqueue of prepare and its refund may complete the job, which is then failed
and refunded in full.

In the pages nothing else contradicts what the repository says, but some behaviours
may surprise: a refused change of the public verifier's settings stays on the page
(`security-store.ts:177` reads the value to go back to after it was changed); a
refetch after an action of the job or user list uses the page and the search of the
moment of the click; a failed single verification puts back the numbers of the
moment of the click, over a balance pushed since; a reseller who repeats a transfer
whose answer was lost transfers twice. They are modelled as they are.

## Proofs

All theorems are about `Spec`, the safety part, for every finite list, chunk
size, number of clients and budget that the named assumptions
`ConstantsAssumption` and `LimitsAssumption` allow; those about the pages rest on
`MaxCallsAssumption`, `LogsAssumption` and `SecurityAssumption` instead.

- `TypeCorrect` (`BulkJobProofs`): `Spec => []TypeOK`. `TypeOK` is inductive as
  it stands. The work is in the finite cardinalities (`processed` and `risky` stay
  natural numbers) and in `TaskAfter`, which caps `pushed_count`.
- `GenerationWritesOnce` (`BulkJobProofs`): `Spec => []OneRowPerGeneration`.
  The inductive invariant says that chunks of a generation are disjoint, that each
  handler owns its generation, that a message carries only misses of its chunk and
  a handler writes only hits, each chunk's once: so a worker's row and a cache row
  of one generation are for different addresses, and `Fresh` excludes a second
  worker row.
- `SerialRepeatsAreLateHits`, `SerialWritesOnce` and `SerialFailedStays`
  (`BulkJobSoloProofs`), about requests served one at a time (`Serial`) on a prepared
  job (`RequestsWhilePreparing = FALSE`). The first: `RepeatsAreLateHits` through any
  crash, failed enqueue, failed write, pause, resume and retry. `SoloInv` adds to the
  row invariant that a handler holds a plan only at the steps that work on one, that
  prepare and requests take turns, and that what the plan still holds is open: no row
  has been written for it by anybody else, except by a chunk of an older attempt for
  a hit of prepare. `AgeInv` bounds the generations of prepare by the crashes: without
  one there is the first only. `SerialWritesOnce` follows: `OneRowPerAddress` where no
  process dies. `SerialFailedStays` is `FailedStaysFailed`, through crashes too. The
  premises are needed: without the first two resumes plan the same addresses, without
  the second a resume plans what prepare is about to write, and with a crash a report
  may commit between the check and the replacement of the tasks.
- `CountersAreRows` (`BulkJobCountProofs`): `CountersMatchRows` for any number of
  concurrent requests, without crashes of prepare and failed hit writes, the two
  events after which the code itself recounts. A hit that is recorded and a row that
  is counted are one transaction, so `CountInv` is the property, except while a
  delete is dropping the job.
- `CompletedNeverRuns`: `CompletedStays`, without crashes, from `DoneInv` (a
  completed job has processed its total) and `PrepInv` (the prepare message, the
  prepare handler and the status `preparing` go together, and the error handler of
  the last attempt runs on a preparing job only).
- `FailedJobIsFree`: `FailedIsFree` for concurrent requests on a prepared job,
  without crashes and failed hit writes. `FreeInv` says who owes the refund: the
  handler whose enqueue failed is the one owner of the newest charge, and a failed
  job without one has its refund.
- `FlagAndStatusAgree`, `NoOverRefund` and `CompletedJobIsPaid`
  (`BulkJobSerialProofs`): `FlagFollowsStatus`, `NeverOverRefunded` and
  `CompletedIsPaidExactly` where requests are served one at a time, without crashes
  and failed writes (`Quietly`); the last for a job that was charged once, as the
  run `JobRetryUnknown` refutes it for a retried one. `FlagInv` gives the flag at
  each step of a request, `ShortInv` says that an open job has not processed its
  total (so the completion is seen by exactly one transaction, which makes the one
  refund) and `PaidInv` what has been refunded at each status.
- `RunningJobHasWork` and `FewErrorsLoseNothing`: `WorkInFlight` where requests are
  served one at a time, without crashes and failed writes (`Quietly`); workers may
  read the flag as stale as their cache allows. The invariant, `WorkInv`, is
  that the messages, the misses a handler has still to send and the hits it has
  still to write cover every open address (`Covered`; under the flag, where workers
  drop their chunks, a pause is about to end the running), and that a task counts no
  more results than it has rows (`TasksTrue`), so that it goes on taking reports
  until the last of its addresses has one. Three steps break it, and the first theorem
  is about the behaviours without them: the loss of a dead-letter report and a report
  refused for good (`NoneLost`), and a worker that acknowledges a chunk because of a
  pause that is over (`NoneForgotten`). The second puts budgets in place of `NoneLost`:
  no refused report, and too few errors to fail each attempt of a chunk and the report
  of its dead letter as well. None of the premises can go: `JobCrashStall` refutes the
  property with a crash, `JobStalePause` without `NoneForgotten`, and after a report
  that is refused for good the addresses of its chunk are nobody's.
- `ListPaidOnce`, `AcceptTypes`, `RefusalIsFree`, `AcceptanceIsQueued` and
  `CreditsAreExplained` (`BulkAcceptProofs`): the four safety invariants of the
  submits and their types, for any requests, keys, lists and failures. `KeyInv` says
  that the key is a lock (`KeyIsLock`: a request between SETNX and its end owns its
  key alone) and afterwards a name (`PaidIsNamed`: a paid job belongs to a request in
  progress or is the one its key names). It is needed because `ChargedOnce` says
  nothing of the store. Both hold as long as `ChargedOnce` claims anything: a SETNX or
  SET without an answer, a failed refund, a crash or a request that outlives its key
  ends them. `AcceptInv` follows a job from its debit to its message or
  its refund, and `BalanceInv` adds up the charges over the set of paid jobs, by
  induction over that set.
- `PagesInvariant` (`PagesProofs`): `PagesInv`, the inductive invariant of all 24
  pages, for every number of users, servers, packages and files and every bound of
  requests in flight. That a flag has a request is not inductive: an answer clears
  the flag of its kind, and another request of that kind would be left without one.
  So for the requests that a page sends one at a time `Settled` also says that there
  is one at most and that its flag is set; a request sent without a flag, or by a
  form that may be sent twice, may cross others; so may the two requests of a save of a
  worker server, of which only one still holds the flag when the other was refused. The
  pages with a captcha have one
  flag for two requests (`Waiting`); the pages of an account leave their requests
  behind, which may still come back (`HonestPage`: a request either belongs to a page
  that is gone or its button is still set, and what it confirms has happened).
- `SpinnersEnd`, `OneAnswerAtATime`, `OneBadge`, `KeysGoForward`, `RetriesAreOneJob`,
  `ConfirmationsAreTrue` and `TokensAreUsedOnce`: `SpinnerHasRequest`, `OneAtATime`,
  `AtMostOnePopular`, `KeyFollowsRotation`, `RetriesShareAKey`, `ConfirmationIsTrue`
  and `TokenUsedOnce`, from `PagesInv` and its parts: `KeyOrder` (the keys in flight
  lie between the last answered rotation and the server's), `PackageBadges` (each
  answer in flight that marks a package clears all others), `SelectionKey` (the key
  of a selection is that of every job made of it).
- `LogsShowEntriesOnce`: `LogRowsDistinct`, for every page size, buffer and number of
  entries. `LogsRows` says that the rows shown and every list on its way are without
  repetition, `SecurityRows` the same of the visits on the
  security page. What `Among` keeps of a list is a recursive function; that
  it repeats nothing is proved without the induction theorems, by the smallest index
  at which it would (`Among` is defined at every index, so the step below it is
  enough for a contradiction).
- `PagesType` (`PagesTypeProofs`): `TypeOK` of `Pages`. That `MaxCalls` bounds what
  the user clicks says nothing of what the handlers send after an answer, so `Few`
  counts a request by what it may still come to (`Load`): one each, and two for the
  four kinds whose answer is followed by two more requests (`restore`, `create`,
  `rotate`, `revoke`). A click adds two at most while there are fewer than `MaxCalls`
  requests, and no answer adds anything; ids are free among so many by the pigeonhole
  principle. `Traffic` says which of these each step of each page is.
- `RealtimeType`, `KeyAlwaysMatches`, `NoSecondSocket`, `IndicatorIsTrue` and
  `RetriesGoOn` (`RealtimeProofs`): `TypeOK` and the four safety invariants of
  `Realtime`, for every set of users and sockets and every `MaxAuth` and
  `MaxFaults`. Two inductive invariants, one for each half: `SessionInv` says that
  token and key agree not only in the jar but in the cookies every request in flight
  was sent with, because its answer may restore them; `SocketInv` says which
  combinations of socket, token request, timer and indicator occur: a live socket is
  the one `ref` names, while a token is on its way there is none, and a tab without
  any of them was refused.
- `RealtimeIsLink`: `Spec => ImplementsLink`, from `SocketInv`: each action maps to a
  step of `Link` or leaves `linkState` and `connected` alone.

What the attempts found. Four statements were true in the runs and false in
general, and say now what they are about. A job whose list has duplicate rows has
fewer `processed` than rows, because the counter is capped (`CountersMatchRows`). A
retry whose enqueue fails slowly writes `failed` over a job that another retry has
completed (`CompletedStays`). A resume that fails writes `paused` over a completed
job, whose delete then refunds the unknown results a second time
(`NeverOverRefunded`, checked for one client now). A resume that is still writing
hits revives a job that another handler has failed and refunded
(`FailedStaysFailed`, stated for requests served one at a time). All four are races
of two requests, in the code as in the model.

Only model-checked:

- liveness (`AlwaysComesToRest`, `KeyComesFree`, `Reconnects`), which the prover
  does not reach;
- `WorkInFlight` with a failed write of hits, which `JobPrepare` checks (the two
  theorems leave such writes out);
- `CompletedIsPaidExactly` for a retried job, which the run `JobRetryUnknown` refutes
  in general and `JobPause` and `JobPrepare` check where no retry happens.

Every invariant and every safety property of a step that a run checks is stated by
a theorem, for some of them under the conditions above.

## Not modelled

Single verification on the server, payments, transfers, the worker fleet and pacing
are planned (below). The SMTP dialogue and the classification of its answers are a
free choice of verdict. On the server, accounts, API keys, settings,
administration, logs, the WebSocket hub and exports are rows changed by one request
at a time; the page modules hold what the browser sees of them in `ui.srv`. Of the
web application, the proxy route (it keeps nothing between two requests), the
administration's dashboard and monitoring page, menus, static pages and drawing are
left out: they send nothing and keep nothing that another part reads. The list of
recent jobs, the counts of the day on the public verifier page, the user cached by
the sidebar and the public settings in the configuration store are not modelled;
their components are marked `partly`.

## Plan

1. `BulkJob`, `BulkAccept`, their runs, and the row and key theorems (done).
2. The web application: `Pages`, `Session`, `Realtime`, `Link` and its refinement
   (done).
3. `PrepareSlot`: the cluster counter and the per-job lock with token, refresh and
   expiry of `prepare_lock.go`: how many prepares may run, and when the counter leaks.
4. `WorkerFleet`: heartbeat, disable and watchdog, over the messages of `BulkJob`, and when
   a report is answered 4xx or 500 (`BulkJob` has both answers, at any time).
5. `VerifySingle` and `Payments` on the server, each composed with its page, which
   already shows what the browser does when an answer is late or lost.
6. Pure functions: `BuildDynamicChunks` (every address in exactly one chunk, sizes
   in range, which justifies `Cuts`), the retry backoff, the token buckets.
7. An abstract `JobPromise` (accepted, answered, settled) that `BulkJob` without
   crashes implements under a refinement mapping.
8. Theorems: those of 3 to 7, and `WorkInFlight` for concurrent requests, under the
   condition that no two of them plan the same addresses.
