--------------------------- MODULE JobControlPage ---------------------------
(***************************************************************************)
(* The job control page of the administration                             *)
(* (app/admin/job-control/job-control-client.tsx): the settings of the    *)
(* pipeline and the clean-up of old jobs.                                 *)
(***************************************************************************)
EXTENDS Page

CONSTANT Settings   \* the values the settings form may hold, all of them valid

\* The settings and statistics come with the page, or are fetched at mount
\* when it has none.  srv is what the server holds.
Init ==
  \E s \in Settings, ssr \in BOOLEAN :
    /\ ui = [page |-> "jobcontrol", busy |-> IF ssr THEN {} ELSE {"data"},
             form |-> s, srv |-> s, stats |-> ssr, saved |-> FALSE,
             step |-> "closed", typed |-> FALSE]
    /\ net = IF ssr THEN {} ELSE Ask({}, "data", [read |-> s])

\* The skeleton replaces the page while it loads for the first time.
Skeleton == ~Ready("data") /\ ~ui.stats

\* Refresh: settings and statistics are asked for together, and only asked for: one
\* request here, over when both are answered or one has failed.
fetchData == Submit("data", [read |-> ui.srv])

RefreshButton == ~Skeleton /\ ui.step = "closed" /\ fetchData

\* Each answer counts by itself (out is what the settings were answered): the
\* settings reset the form, so what was typed meanwhile is gone, and so is the
\* form's isSubmitting.
FetchedData(r, out) ==
  /\ Settle(r, "data")
  /\ \E counted \in BOOLEAN :
       LET u == [Freed("data") EXCEPT !.stats = @ \/ counted]
       IN ui' = CASE out = "thrown" -> Freed("data")
                  [] out = "error" -> u
                  [] OTHER -> [u EXCEPT !.busy = @ \ {"save"}, !.form = r.arg.read]

EditSettings(s) ==
  /\ ~Skeleton /\ ui.step = "closed" /\ s # ui.form
  /\ ui' = [ui EXCEPT !.form = s]
  /\ UNCHANGED net

SaveButton == ~Skeleton /\ ui.step = "closed" /\ Ready("save") /\ ~ui.saved

\* The server may or may not store what it is sent.
onSaveSettings ==
  /\ SaveButton
  /\ \E done \in BOOLEAN :
       /\ Send("save", [done |-> done])
       /\ ui' = [ui EXCEPT !.busy = @ \cup {"save"}, !.saved = FALSE,
                           !.srv = IF done THEN ui.form ELSE @]

SettingsSaved(r, out) ==
  /\ r.to = "save"
  /\ out # "thrown" => (out = "success" <=> r.arg.done)
  /\ IF out = "success"
     THEN /\ SettleAndAsk(r, "save", "data", [read |-> ui.srv])
          /\ ui' = [ui EXCEPT !.saved = TRUE, !.busy = (@ \ {"save"}) \cup {"data"}]
     ELSE Settle(r, "save") /\ ui' = Freed("save")

\* Two seconds later the button may be used again.
SavedExpires == ui.saved /\ ui' = [ui EXCEPT !.saved = FALSE] /\ UNCHANGED net

openCleanupModal ==
  /\ ~Skeleton /\ ui.step = "closed"
  /\ ui' = [ui EXCEPT !.step = "confirm", !.typed = FALSE]
  /\ UNCHANGED net

TypeCleanupPhrase ==
  /\ ui.step = "confirm"
  /\ ui' = [ui EXCEPT !.typed = ~@]
  /\ UNCHANGED net

\* The modal can be closed before and after the deletion, not during it.
CloseCleanupModal ==
  /\ ui.step \in {"confirm", "success"}
  /\ ui' = [ui EXCEPT !.step = "closed"]
  /\ UNCHANGED net

CleanupDialog == ui.step = "confirm" /\ ui.typed /\ Ready("cleanup")

handleCleanup ==
  /\ CleanupDialog
  /\ ui' = [ui EXCEPT !.busy = @ \cup {"cleanup"}, !.step = "deleting"]
  /\ Send("cleanup", [done |-> TRUE])

CleanupDone(r, out) ==
  /\ r.to = "cleanup"
  /\ IF out = "success"
     THEN /\ SettleAndAsk(r, "cleanup", "data", [read |-> ui.srv])
          /\ ui' = [ui EXCEPT !.step = "success", !.busy = (@ \ {"cleanup"}) \cup {"data"}]
     ELSE Settle(r, "cleanup") /\ ui' = [Freed("cleanup") EXCEPT !.step = "confirm"]

Click ==
  \/ RefreshButton
  \/ \E s \in Settings : EditSettings(s)
  \/ onSaveSettings \/ SavedExpires
  \/ openCleanupModal \/ TypeCleanupPhrase \/ CloseCleanupModal \/ handleCleanup

Answer(r, out) == FetchedData(r, out) \/ SettingsSaved(r, out) \/ CleanupDone(r, out)
=============================================================================
