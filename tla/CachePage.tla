----------------------------- MODULE CachePage -----------------------------
(***************************************************************************)
(* The e-mail cache page of the administration                            *)
(* (app/admin/cache-control/cache-control-client.tsx).                    *)
(***************************************************************************)
EXTENDS Page

CONSTANTS
  Emails,      \* what an administrator looks up
  Retentions   \* the values of the retention form, all of them valid

Purges == {"purge", "purge-older"}
Modals == Purges \cup {"invalidate"}

\* srv is the retention policy the server holds; found is the lookup shown.
Init ==
  \E p \in Retentions :
    /\ ui = [page |-> "cache", busy |-> {}, form |-> p, srv |-> p, saved |-> FALSE,
             found |-> None, modal |-> None, typed |-> {}]
    /\ net = {}

fetchStats(calls) == Ask(calls, "cache/stats", [policy |-> ui.srv])

RefreshButton ==
  /\ ui.modal = None /\ Ready("cache/stats")
  /\ ui' = [ui EXCEPT !.busy = @ \cup {"cache/stats"}]
  /\ CanCall /\ net' = fetchStats(net)

\* The answer resets the retention form, with what was typed into it and its
\* isSubmitting.
FetchedStats(r, out) ==
  /\ Settle(r, "cache/stats")
  /\ ui' = IF out = "success"
           THEN [ui EXCEPT !.busy = @ \ {"cache/stats", "policies"}, !.form = r.arg.policy]
           ELSE Freed("cache/stats")

\* A mutation of the cache that succeeded: the statistics are fetched again.
Mutated(r, u) ==
  /\ net' = fetchStats(net \ {r})
  /\ ui' = [u EXCEPT !.busy = (@ \ {r.to}) \cup {"cache/stats"}]

EditPolicies(p) ==
  /\ ui.modal = None /\ p # ui.form
  /\ ui' = [ui EXCEPT !.form = p]
  /\ UNCHANGED net

PoliciesForm == ui.modal = None /\ Ready("policies") /\ ~ui.saved

onSavePolicies ==
  /\ PoliciesForm
  /\ \E done \in BOOLEAN :
       /\ Send("policies", [done |-> done])
       /\ ui' = [ui EXCEPT !.busy = @ \cup {"policies"}, !.saved = FALSE,
                           !.srv = IF done THEN ui.form ELSE @]

PoliciesSaved(r, out) ==
  /\ Settle(r, "policies")
  /\ out # "thrown" => (out = "success" <=> r.arg.done)
  /\ ui' = IF out = "success" THEN [Freed("policies") EXCEPT !.saved = TRUE]
           ELSE Freed("policies")

SavedExpires == ui.saved /\ ui' = [ui EXCEPT !.saved = FALSE] /\ UNCHANGED net

LookupForm == ui.modal = None /\ Ready("lookup")

onLookup(e) ==
  /\ LookupForm
  /\ ui' = [ui EXCEPT !.busy = @ \cup {"lookup"}, !.found = None,
                      !.typed = @ \ {"invalidate"}]
  /\ Send("lookup", [email |-> e])

LookedUp(r, out) ==
  /\ Settle(r, "lookup")
  /\ ui' = IF out = "success" THEN [Freed("lookup") EXCEPT !.found = r.arg.email]
           ELSE Freed("lookup")

\* The confirmations: opening one clears its phrase.
OpenInvalidate ==
  /\ ui.modal = None /\ ui.found # None
  /\ ui' = [ui EXCEPT !.modal = "invalidate", !.typed = @ \ {"invalidate"}]
  /\ UNCHANGED net

\* Neither purge is offered while one of them runs.
OpenPurge(p) ==
  /\ ui.modal = None
  /\ Ready("purge") /\ Ready("purge-older")
  /\ ui' = [ui EXCEPT !.modal = p, !.typed = @ \ {p}]
  /\ UNCHANGED net

CancelModal == ui.modal # None /\ ui' = [ui EXCEPT !.modal = None] /\ UNCHANGED net

\* The confirmation of an invalidation is not rendered without a lookup.
Rendered(m) == ui.modal = m /\ (m = "invalidate" => ui.found # None)

ConfirmPhrase(m) ==
  /\ Rendered(m) /\ m \notin ui.typed
  /\ ui' = [ui EXCEPT !.typed = @ \cup {m}]
  /\ UNCHANGED net

doDeleteCache ==
  /\ Rendered("invalidate") /\ "invalidate" \in ui.typed
  /\ Send("invalidate", [email |-> ui.found])
  /\ UNCHANGED ui

\* Success clears whatever lookup is shown by now and resets the lookup form.
CacheDeleted(r, out) ==
  /\ r.to = "invalidate"
  /\ IF out = "success"
     THEN Mutated(r, [Freed("lookup") EXCEPT !.found = None, !.typed = @ \ {"invalidate"},
                        !.modal = IF @ = "invalidate" THEN None ELSE @])
     ELSE Settle(r, "invalidate") /\ UNCHANGED ui

PurgeModal(p) == Rendered(p) /\ p \in ui.typed /\ Ready(p)

SubmitPurge(p) == PurgeModal(p) /\ Submit(p, [email |-> None])
handlePurge == SubmitPurge("purge")
handlePurgeOlder == SubmitPurge("purge-older")

Purged(r, out) ==
  /\ r.to \in Purges
  /\ IF out = "success"
     THEN Mutated(r, [ui EXCEPT !.typed = @ \ {r.to},
                                !.modal = IF @ = r.to THEN None ELSE @])
     ELSE net' = net \ {r} /\ ui' = Freed(r.to)

\* Choosing a file is disabled during an upload, dropping one is not.
ChooseFile == ui.modal = None /\ Ready("upload")
DropFile == ui.modal = None

uploadFile == (ChooseFile \/ DropFile) /\ Submit("upload", [email |-> None])

Uploaded(r, out) ==
  /\ r.to = "upload"
  /\ IF out = "success" THEN Mutated(r, ui)
     ELSE Settle(r, "upload") /\ ui' = Freed("upload")

Click ==
  \/ RefreshButton
  \/ \E p \in Retentions : EditPolicies(p)
  \/ onSavePolicies \/ SavedExpires
  \/ \E e \in Emails : onLookup(e)
  \/ OpenInvalidate
  \/ \E p \in Purges : OpenPurge(p)
  \/ \E m \in Modals : ConfirmPhrase(m)
  \/ CancelModal \/ doDeleteCache \/ handlePurge \/ handlePurgeOlder \/ uploadFile

Answer(r, out) ==
  \/ FetchedStats(r, out) \/ PoliciesSaved(r, out) \/ LookedUp(r, out)
  \/ CacheDeleted(r, out) \/ Purged(r, out) \/ Uploaded(r, out)
=============================================================================
