---------------------------- MODULE DomainsPage ----------------------------
(***************************************************************************)
(* The domain lists of the administration                                 *)
(* (app/admin/domains/domains-client.tsx).                                *)
(***************************************************************************)
EXTENDS Page

CONSTANT Domains   \* the domains there may be

\* A list says of each domain it has whether it is excluded; of is the query
\* it answers.  The search box and the type filter count as one text here.
Lists == UNION {[known -> BOOLEAN] : known \in SUBSET Domains}
Query(q, n) == [q |-> q, n |-> n]

\* srv is what the server holds; due says that the debounce timer runs.
Init ==
  \E list \in Lists :
    /\ ui = [page |-> "domains", busy |-> {"domains"}, srv |-> list, rows |-> list,
             of |-> Query("", 1), search |-> "", current |-> 1, due |-> FALSE,
             acting |-> None]
    /\ net = Ask({}, "domains", [list |-> list, of |-> Query("", 1)])

\* fetchDomains of a render closes over its page and filters.
fetchDomains(calls, of) == Ask(calls, "domains", [list |-> ui.srv, of |-> of])

FetchedDomains(r, out) ==
  /\ Settle(r, "domains")
  /\ ui' = IF out = "success"
           THEN [Freed("domains") EXCEPT !.rows = r.arg.list, !.of = r.arg.of]
           ELSE Freed("domains")

\* A filter goes back to the first page; every change restarts the timer.
TypeFilter(t) ==
  /\ t # ui.search
  /\ ui' = [ui EXCEPT !.search = t, !.current = 1, !.due = TRUE]
  /\ UNCHANGED net

TurnPage(n) ==
  /\ Ready("domains")
  /\ n = ui.current - 1 \/ n = ui.current + 1
  /\ ui' = [ui EXCEPT !.current = n, !.due = TRUE]
  /\ UNCHANGED net

Debounced ==
  /\ ui.due /\ CanCall
  /\ ui' = [ui EXCEPT !.due = FALSE, !.busy = @ \cup {"domains"}]
  /\ net' = fetchDomains(net, Query(ui.search, ui.current))

AddForm == Ready("add")

handleAddSubmit ==
  /\ AddForm
  /\ \E list \in Lists :
       /\ \A d \in DOMAIN ui.srv : d \in DOMAIN list /\ list[d] = ui.srv[d]
       /\ Send("add", [back |-> Query(ui.search, ui.current)])
       /\ ui' = [ui EXCEPT !.busy = @ \cup {"add"}, !.srv = list]

handleFileUpload ==
  /\ Send("upload", [back |-> Query(ui.search, ui.current)])
  /\ ui' = [ui EXCEPT !.busy = @ \cup {"upload"}]

\* Success fetches the list of the render that sent the domain or the file.
DomainsAdded(r, out) ==
  /\ r.to \in {"add", "upload"}
  /\ IF out = "success"
     THEN /\ net' = fetchDomains(net \ {r}, r.arg.back)
          /\ ui' = [Freed(r.to) EXCEPT !.busy = @ \cup {"domains"}]
     ELSE net' = net \ {r} /\ ui' = Freed(r.to)

\* The buttons of one row at a time are disabled.
RowButtons(d) == d \in DOMAIN ui.rows /\ ui.acting # d

handleToggleExcluded(d) ==
  /\ RowButtons(d)
  /\ \E done \in BOOLEAN :
       /\ done => d \in DOMAIN ui.srv
       /\ Send("toggle", [done |-> done, on |-> d, list |-> ui.rows,
                          excluded |-> IF done THEN ~ui.srv[d] ELSE FALSE])
       /\ ui' = [ui EXCEPT !.acting = d,
                           !.srv = [e \in DOMAIN @ |-> IF done /\ e = d THEN ~@[e] ELSE @[e]]]

\* The answer changes the row in the list of the render that was clicked.
ExcludedToggled(r, out) ==
  /\ Settle(r, "toggle")
  /\ out # "thrown" => (out = "success" <=> r.arg.done)
  /\ ui' = [ui EXCEPT !.acting = None,
              !.rows = IF out = "success" THEN [r.arg.list EXCEPT ![r.arg.on] = r.arg.excluded]
                       ELSE @]

handleDeleteDomain(d) ==
  /\ RowButtons(d)
  /\ \E done \in BOOLEAN :
       /\ Send("delete", [done |-> done, on |-> d, list |-> ui.rows])
       /\ ui' = [ui EXCEPT !.acting = d,
                           !.srv = [e \in DOMAIN @ \ (IF done THEN {d} ELSE {}) |-> @[e]]]

DomainDeleted(r, out) ==
  /\ Settle(r, "delete")
  /\ out # "thrown" => (out = "success" <=> r.arg.done)
  /\ ui' = [ui EXCEPT !.acting = None,
              !.rows = IF out = "success"
                       THEN [e \in DOMAIN r.arg.list \ {r.arg.on} |-> r.arg.list[e]] ELSE @]

Click ==
  \/ \E t \in Terms : TypeFilter(t)
  \/ \E n \in 1 .. MaxPage : TurnPage(n)
  \/ Debounced \/ handleAddSubmit \/ handleFileUpload
  \/ \E d \in Domains : handleToggleExcluded(d) \/ handleDeleteDomain(d)

Answer(r, out) ==
  \/ FetchedDomains(r, out) \/ DomainsAdded(r, out) \/ ExcludedToggled(r, out)
  \/ DomainDeleted(r, out)
=============================================================================
