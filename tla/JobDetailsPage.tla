--------------------------- MODULE JobDetailsPage ---------------------------
(***************************************************************************)
(* The page of one bulk job                                               *)
(* (app/(dashboard)/dashboard/jobs/[id]/job-details-client.tsx).          *)
(***************************************************************************)
EXTENDS Page

JobStatus == {"processing", "paused", "failed", "completed"}

\* The job of the page, and the details of any job as the page shows them.
Details == [mine : BOOLEAN, status : JobStatus]
Mine(status) == [mine |-> TRUE, status |-> status]

\* srv is the status the server holds; the store may still hold the details
\* of the job visited before.
Init ==
  \E status \in JobStatus, before \in {<<>>} \cup {<<d>> : d \in Details} :
    /\ ui = [page |-> "details", busy |-> {}, srv |-> status, gone |-> FALSE,
             initial |-> Mine(status), current |-> before]
    /\ net = Ask({}, "status", [status |-> status])

job == IF ui.current # <<>> THEN ui.current[1] ELSE ui.initial

fetchJobDetails(calls) == Ask(calls, "status", [status |-> ui.srv])

FetchedDetails(r, out) ==
  /\ Settle(r, "status")
  /\ ui' = IF out = "success" THEN [ui EXCEPT !.current = <<Mine(r.arg.status)>>] ELSE ui

\* A pushed update changes the details only of the job they are of.
JobUpdate ==
  /\ ui.current # <<>>
  /\ \E status \in JobStatus :
       /\ ui.current[1].mine => ~ui.gone /\ status = ui.srv
       /\ ui' = [ui EXCEPT !.current[1].status = status]
  /\ UNCHANGED net

Finish(status) ==
  /\ ui.srv = "processing"
  /\ ui' = [ui EXCEPT !.srv = status]
  /\ UNCHANGED net

\* What the server allows, and what the page offers for the status it shows.
Allowed(a, status) ==
  CASE a = "pause" -> status = "processing"
    [] a = "resume" -> status = "paused"
    [] a = "retry" -> status = "failed"
    [] a = "delete" -> status # "processing"

\* The buttons: each is disabled while its own action or a deletion runs,
\* pause and resume also while the other does.  Mutant: they are not.
ButtonOfItsOwn(a) == Allowed(a, job.status) /\ Ready(a) /\ Ready("delete")

Button(a) ==
  /\ Allowed(a, job.status) /\ Ready(a) /\ Ready("delete")
  /\ a = "pause" => Ready("resume")
  /\ a = "resume" => Ready("pause")

Act(a) ==
  /\ Button(a)
  /\ \E done \in BOOLEAN :
       /\ done => ~ui.gone /\ Allowed(a, ui.srv)
       /\ Send(a, [done |-> done])
       /\ ui' = [ui EXCEPT
                   !.busy = @ \cup {a},
                   !.gone = @ \/ (done /\ a = "delete"),
                   !.srv = IF ~done \/ a = "delete" THEN @
                           ELSE IF a = "pause" THEN "paused" ELSE "processing"]

handleRetryJob == Act("retry")
handlePauseJob == Act("pause")
handleResumeJob == Act("resume")
handleDeleteJob == Act("delete")

Acted(r, out) ==
  /\ r.to \in {"retry", "pause", "resume"}
  /\ out # "thrown" => (out = "success" <=> r.arg.done)
  /\ net' = IF out = "success" THEN fetchJobDetails(net \ {r}) ELSE net \ {r}
  /\ ui' = Freed(r.to)

\* A deletion that succeeds goes back to the list; until the list is shown
\* isDeleting stays set ("leave").
Leaving == [leave |-> TRUE]

Deleted(r, out) ==
  /\ r.to = "delete" /\ r.arg # Leaving
  /\ out # "thrown" => (out = "success" <=> r.arg.done)
  /\ IF out = "success" THEN SettleAndAsk(r, "delete", "delete", Leaving) /\ UNCHANGED ui
     ELSE Settle(r, "delete") /\ ui' = Freed("delete")

ListShown(r) == r.to = "delete" /\ r.arg = Leaving /\ Leave

Click ==
  \/ JobUpdate \/ handleRetryJob \/ handlePauseJob \/ handleResumeJob \/ handleDeleteJob
  \/ \E status \in {"failed", "completed"} : Finish(status)

Answer(r, out) == FetchedDetails(r, out) \/ Acted(r, out) \/ Deleted(r, out) \/ ListShown(r)
=============================================================================
