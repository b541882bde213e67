----------------------------- MODULE UsersPage -----------------------------
(***************************************************************************)
(* The user administration page (app/admin/users/users-client.tsx) and the *)
(* store it fills (stores/users-store.ts).                                *)
(***************************************************************************)
EXTENDS Page

CONSTANTS
  People,       \* the users of a list
  RoleFilters   \* what the role filter offers; None is "all roles"

Form == {"create", "edit", "adjust_credits"}

\* The rows of the table are known by the query they answer: the text, the
\* role and the page.
Query(q, role, n) == [q |-> q, role |-> role, n |-> n]

Init ==
  /\ ui = [page |-> "users", busy |-> {}, q |-> "", role |-> None,
           current |-> 1, rows |-> Query("", None, 1),
           dialog |-> [f \in Form \cup {"impersonate"} |-> None]]
  /\ net = Ask({}, "users", Query("", None, 1))

\* setList of the store.
SetList(u, query) == [u EXCEPT !.rows = query]

\* fetchUsers of the present render closes over the debounced search and the
\* role filter.
fetchUsers(n) == Query(ui.q, ui.role, n)

FetchedUsers(r, out) ==
  /\ Settle(r, "users")
  /\ ui' = IF out = "success"
           THEN [SetList(Freed("users"), r.arg) EXCEPT !.current = r.arg.n]
           ELSE Freed("users")

\* What is typed is taken over 300 ms after the last key; the new fetchUsers
\* makes the effect ask for the first page.
Search(t) ==
  /\ t # ui.q
  /\ ui' = [ui EXCEPT !.q = t]
  /\ Send("users", Query(t, ui.role, 1))

FilterRole(role) ==
  /\ role # ui.role
  /\ ui' = [ui EXCEPT !.role = role, !.current = 1]
  /\ Send("users", Query(ui.q, role, 1))

\* The refresh button spins while it waits but is not disabled.
Refresh == Submit("users", fetchUsers(ui.current))

\* Previous and next are disabled at the ends and while loading.
TurnPage(n) ==
  /\ Ready("users")
  /\ n = ui.current - 1 \/ n = ui.current + 1
  /\ Submit("users", fetchUsers(n))

\* Role, status and deletion are sent at once from the menu of a row; the list
\* is then fetched again by the fetchUsers and the page of that render.
performAction(u) ==
  /\ Send("users/action", [on |-> u, back |-> fetchUsers(ui.current)])
  /\ UNCHANGED ui

ActionDone(r, out) ==
  /\ IF out = "success"
     THEN SettleAndAsk(r, "users/action", "users", r.arg.back)
     ELSE Settle(r, "users/action")
  /\ UNCHANGED ui

\* The menu of a row and the button of the header open a dialog.  For the
\* row's forms that resets the form, and with it isSubmitting.
OpenDialog(f, u) ==
  /\ \A g \in DOMAIN ui.dialog : ui.dialog[g] = None
  /\ f = "create" <=> u = "new"
  /\ ui' = [ui EXCEPT !.dialog[f] = u,
                      !.busy = IF f = "create" THEN @ ELSE @ \ {f}]
  /\ UNCHANGED net

CancelDialog(f) ==
  /\ ui.dialog[f] # None
  /\ ui' = [ui EXCEPT !.dialog[f] = None,
                      !.busy = IF f = "create" THEN @ \ {f} ELSE @]
  /\ UNCHANGED net

\* The dialogs: their submit button is disabled while the form is submitting.
AddDialog == ui.dialog["create"] # None /\ Ready("create")
EditDialog == ui.dialog["edit"] # None /\ Ready("edit")
CreditsDialog == ui.dialog["adjust_credits"] # None /\ Ready("adjust_credits")

SubmitForm(f) == Submit(f, [on |-> ui.dialog[f], back |-> fetchUsers(ui.current)])

handleAddSubmit == AddDialog /\ SubmitForm("create")
handleEditSubmit == EditDialog /\ SubmitForm("edit")
handleAdjustCreditsSubmit == CreditsDialog /\ SubmitForm("adjust_credits")

\* A success closes the form's dialog, whoever it is open on by now, and
\* fetches the list again; an error leaves it open.
FormDone(f, r, out) ==
  IF out = "success"
  THEN /\ SettleAndAsk(r, f, "users", r.arg.back)
       /\ ui' = [Freed(f) EXCEPT !.dialog[f] = None]
  ELSE Settle(r, f) /\ ui' = Freed(f)

\* "Log in as": the confirm button is not disabled while the call runs.
ConfirmLoginAs ==
  /\ ui.dialog["impersonate"] # None
  /\ Send("impersonate", [on |-> ui.dialog["impersonate"]])
  /\ UNCHANGED ui

LoginAsDone(r, out) ==
  /\ r.to = "impersonate"
  /\ IF out = "success" THEN Leave
     ELSE Settle(r, "impersonate") /\ ui' = [ui EXCEPT !.dialog["impersonate"] = None]

Click ==
  \/ \E t \in Terms : Search(t)
  \/ \E role \in RoleFilters : FilterRole(role)
  \/ Refresh
  \/ \E n \in 1 .. MaxPage : TurnPage(n)
  \/ \E u \in People : performAction(u)
  \/ \E f \in Form \cup {"impersonate"}, u \in People \cup {"new"} : OpenDialog(f, u)
  \/ \E f \in Form \cup {"impersonate"} : CancelDialog(f)
  \/ handleAddSubmit \/ handleEditSubmit \/ handleAdjustCreditsSubmit
  \/ ConfirmLoginAs

Answer(r, out) ==
  \/ FetchedUsers(r, out) \/ ActionDone(r, out) \/ LoginAsDone(r, out)
  \/ \E f \in Form : FormDone(f, r, out)
=============================================================================
