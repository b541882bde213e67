------------------------------ MODULE JobsPage ------------------------------
(***************************************************************************)
(* The list of bulk jobs (features/jobs/components/jobs-client.tsx), its   *)
(* store (stores/jobs-store.ts) and the updates pushed to it              *)
(* (hooks/use-jobs-web-socket.ts).  Jobs are numbered in the order they   *)
(* were submitted.                                                        *)
(***************************************************************************)
EXTENDS Page, FiniteSetsExt

CONSTANTS
  MaxJob,  \* bound: the jobs of the user
  limit    \* jobs of one page; 20 in the code

Jobs == 1 .. MaxJob
Status == {"processing", "paused", "failed", "completed"}
Finished == {"failed", "completed"}

\* The server answers with the jobs of one page, newest first.
Newer(list, j) == Cardinality({k \in DOMAIN list : k > j})
OfPage(list, offset) ==
  [j \in {k \in DOMAIN list : Newer(list, k) \in offset .. offset + limit - 1} |-> list[j]]

\* srv is what the server holds; the store starts from what the page came
\* with: jobs that still run.  Each of isDeleting, isRetrying, isPausing and isResuming is one job.
Init ==
  \E list \in {[j \in 1 .. n |-> "processing"] : n \in 0 .. MaxJob} :
    /\ ui = [page |-> "jobs", busy |-> IF list = [j \in {} |-> ""] THEN {"jobs"} ELSE {},
             srv |-> list, rows |-> OfPage(list, 0), total |-> Cardinality(DOMAIN list),
             initial |-> OfPage(list, 0), initialTotal |-> Cardinality(DOMAIN list),
             offset |-> 0, acting |-> [a \in {"delete", "retry", "pause", "resume"} |-> 0]]
    /\ net = Ask({}, "jobs", [list |-> OfPage(list, 0), total |-> Cardinality(DOMAIN list)])

\* The rows and their number: the list the page came with stands in while the
\* store is empty.
StoreEmpty == DOMAIN ui.rows = {}
rows == IF StoreEmpty THEN ui.initial ELSE ui.rows
total == IF StoreEmpty THEN ui.initialTotal ELSE ui.total

\* fetchJobs of a render closes over its offset.
fetchJobs(calls, offset) ==
  Ask(calls, "jobs", [list |-> OfPage(ui.srv, offset), total |-> Cardinality(DOMAIN ui.srv)])

\* Row skeletons only when there is nothing on screen.
Skeletons == IF DOMAIN rows = {} THEN ui.busy \cup {"jobs"} ELSE ui.busy

FetchedJobs(r, out) ==
  /\ Settle(r, "jobs")
  /\ ui' = IF out = "success"
           THEN [Freed("jobs") EXCEPT !.rows = r.arg.list, !.total = r.arg.total]
           ELSE Freed("jobs")

\* The refresh button, and the focus coming back to the window.
Refresh ==
  /\ CanCall /\ net' = fetchJobs(net, ui.offset)
  /\ ui' = [ui EXCEPT !.busy = Skeletons]

\* The pager is hidden while loading; the effect on the offset fetches.
TurnPage(offset) ==
  /\ Ready("jobs") /\ DOMAIN rows # {} /\ CanCall
  /\ \/ offset < ui.offset /\ offset = IF ui.offset < limit THEN 0 ELSE ui.offset - limit
     \/ offset = ui.offset + limit /\ offset < total
  /\ net' = fetchJobs(net, offset)
  /\ ui' = [ui EXCEPT !.offset = offset]

\* updateJob of the store: an unknown job comes on top, and counts.
updateJob(u, j, status) ==
  IF j \in DOMAIN u.rows
  THEN [u EXCEPT !.rows[j] = status]
  ELSE LET cap == Max({limit, Cardinality(DOMAIN u.rows)})
           all == DOMAIN u.rows \cup {j}
           last == IF Cardinality(all) > cap THEN {Min(DOMAIN u.rows)} ELSE {}
       IN [u EXCEPT !.rows = [k \in all \ last |-> IF k = j THEN status ELSE @[k]],
                    !.total = @ + 1]

\* The update of a job is pushed when it changes, and by the time it comes.
JobUpdate(j) ==
  /\ j \in DOMAIN ui.srv /\ ui.total <= MaxJob
  /\ ui' = updateJob(ui, j, ui.srv[j])
  /\ UNCHANGED net

\* The job comes to its end on the server.
Finish(j, status) ==
  /\ j \in DOMAIN ui.srv /\ ui.srv[j] = "processing"
  /\ ui' = [ui EXCEPT !.srv[j] = status]
  /\ UNCHANGED net

\* What the server makes of an action it carries out.
Allowed(a, status) ==
  CASE a = "pause" -> status = "processing"
    [] a = "resume" -> status = "paused"
    [] a = "retry" -> status = "failed"
    [] a = "delete" -> status # "processing"

Carried(list, a, j) ==
  IF a = "delete" THEN [k \in DOMAIN list \ {j} |-> list[k]]
  ELSE [list EXCEPT ![j] = IF a = "pause" THEN "paused" ELSE "processing"]

\* The menu of a row: which items the status of the row offers, and which are
\* disabled while the flag of the action holds this job.
Offered(a, j) ==
  /\ j \in DOMAIN rows /\ Allowed(a, rows[j])
  /\ ui.acting["delete"] # j
  /\ a = "retry" => ui.acting["retry"] # j
  /\ a \in {"pause", "resume"} => ui.acting["pause"] # j /\ ui.acting["resume"] # j

Act(a, j) ==
  /\ Offered(a, j)
  /\ \E done \in BOOLEAN :
       /\ done => j \in DOMAIN ui.srv /\ Allowed(a, ui.srv[j])
       /\ Send(a, [done |-> done, offset |-> ui.offset])
       /\ ui' = [ui EXCEPT !.acting[a] = j, !.srv = IF done THEN Carried(@, a, j) ELSE @]

\* "Delete" is clicked twice within three seconds.
handleDeleteJob(j) == Act("delete", j)
handleRetryJob(j) == Act("retry", j)
handlePauseJob(j) == Act("pause", j)
handleResumeJob(j) == Act("resume", j)

\* Success fetches the page of the render that was clicked.
Acted(r, out) ==
  /\ r.to \in DOMAIN ui.acting
  /\ out # "thrown" => (out = "success" <=> r.arg.done)
  /\ LET u == [ui EXCEPT !.acting[r.to] = 0]
     IN IF out = "success"
        THEN /\ net' = fetchJobs(net \ {r}, r.arg.offset)
             /\ ui' = [u EXCEPT !.busy = Skeletons]
        ELSE net' = net \ {r} /\ ui' = u

Click ==
  \/ Refresh
  \/ \E offset \in 0 .. MaxJob : TurnPage(offset)
  \/ \E j \in Jobs :
       \/ handleDeleteJob(j) \/ handleRetryJob(j) \/ handlePauseJob(j) \/ handleResumeJob(j)
       \/ JobUpdate(j)
       \/ \E status \in Finished : Finish(j, status)

Answer(r, out) == FetchedJobs(r, out) \/ Acted(r, out)
=============================================================================
