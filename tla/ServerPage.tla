----------------------------- MODULE ServerPage -----------------------------
(***************************************************************************)
(* The worker server page (app/admin/server/server-client.tsx), the store  *)
(* behind it (stores/server-store.ts) and its WebSocket events.           *)
(***************************************************************************)
EXTENDS Page

CONSTANTS
  Nodes,     \* the worker servers there may be
  MaxRotate  \* bound: rotations of the worker key

\* A list of servers says of each whether it is enabled.
Lists == UNION {[known -> BOOLEAN] : known \in SUBSET Nodes}
Empty == [s \in {} |-> TRUE]

\* The worker key the server holds is a number that a rotation increases.  The
\* store may still hold the list of an earlier visit.
Init ==
  \E first \in Lists, earlier \in Lists :
    /\ ui = [page |-> "server", busy |-> {}, initial |-> first,
             store |-> IF first = Empty THEN earlier ELSE first,
             adding |-> FALSE, manage |-> <<>>, confirm |-> "hidden",
             modal |-> None, key |-> 0, shown |-> FALSE, srvKey |-> 1, acked |-> 0]
    /\ net = Ask({}, "server/list", [list |-> first])

\* The rows: the server-side list stands in while the store is empty.
Servers == IF ui.store # Empty THEN ui.store ELSE ui.initial

\* What the row of server s shows.
resolveDisplayStatus(s) == IF Servers[s] THEN "active" ELSE "inactive"

setServers(u, list) == [u EXCEPT !.store = list]

\* A heartbeat of one worker changes its row, if there is one.
applyWorkerHeartbeat(u, s, enabled) ==
  [u EXCEPT !.store = [n \in DOMAIN @ |-> IF n = s THEN enabled ELSE @[n]]]

HandleServerUpdate == \E list \in Lists : ui' = setServers(ui, list)

HandleWorkerUpdate ==
  \E s \in Nodes, b \in BOOLEAN : ui' = applyWorkerHeartbeat(ui, s, b)

Pushed == (HandleServerUpdate \/ HandleWorkerUpdate) /\ UNCHANGED net

\* fetchServers(TRUE) spins only when there is no row to show.
fetchServers(silent) ==
  /\ \E list \in Lists : Send("server/list", [list |-> list])
  /\ ui' = IF ~silent \/ Servers = Empty
           THEN [ui EXCEPT !.busy = @ \cup {"server/list"}] ELSE ui

RefreshButton == Ready("server/list") /\ fetchServers(FALSE)
OnFocus == fetchServers(TRUE)

FetchedServers(r, out) ==
  /\ Settle(r, "server/list")
  /\ ui' = IF out = "success" THEN setServers(Freed("server/list"), r.arg.list)
           ELSE Freed("server/list")

\* After a mutation the list is fetched again, with "u" the state so far.
RefetchAfter(r, u) ==
  \E list \in Lists :
    /\ net' = Ask(net \ {r}, "server/list", [list |-> list])
    /\ ui' = IF Servers = Empty THEN [u EXCEPT !.busy = @ \cup {"server/list"}] ELSE u

\* The add dialog: opening it resets the form, and isSubmitting with it.
OpenAddDialog ==
  /\ ui.modal = None /\ ui.manage = <<>>
  /\ ui' = [ui EXCEPT !.adding = TRUE, !.busy = @ \ {"server/add"}]
  /\ UNCHANGED net

CloseAddDialog ==
  ui.adding /\ ui' = [ui EXCEPT !.adding = FALSE] /\ UNCHANGED net

AddDialog == ui.adding /\ Ready("server/add")

onAddServer == AddDialog /\ Submit("server/add", [on |-> None])

AddServerDone(r, out) ==
  /\ r.to = "server/add"
  /\ IF out = "success"
     THEN RefetchAfter(r, [Freed("server/add") EXCEPT !.adding = FALSE])
     ELSE Settle(r, "server/add") /\ ui' = Freed("server/add")

\* The dialog of one server; opening it clears the deletion phrase, which is
\* therefore kept only while the dialog is open.
Manage(u, s) ==
  [u EXCEPT !.manage = <<s, resolveDisplayStatus(s)>>, !.confirm = "hidden"]

Unmanaged(u) == [u EXCEPT !.manage = <<>>, !.confirm = "hidden"]

\* Every row has its button.
OpenManage(s) ==
  /\ s \in DOMAIN Servers
  /\ ui.manage = <<>> /\ ui.modal = None /\ ~ui.adding
  /\ ui' = Manage(ui, s)
  /\ UNCHANGED net

CloseManage ==
  ui.manage # <<>> /\ ui' = Unmanaged(ui) /\ UNCHANGED net

\* Save sends the warm-up settings and the rate limit, each in a request of its
\* own, and waits for both.  A request carries what has become of the other
\* one: it is under way ("pending") or was answered ("success", "error").
SettingsDialog == ui.manage # <<>> /\ Ready("server/save")

Save(s, also) == [on |-> s, also |-> also]

handleWarmupSave ==
  /\ SettingsDialog /\ CanCall
  /\ LET call == Save(ui.manage[1], "pending")
     IN net' = Ask(Ask(net, "server/save", call), "server/save", call)
  /\ ui' = [ui EXCEPT !.busy = @ \cup {"server/save"}]

\* The first of the two.  One that fails ends the wait: the button is free, and
\* the other request goes by another name, for nobody waits for its answer.
FirstSaved(r, out) ==
  /\ r.arg.also = "pending"
  /\ \E other \in net \ {r} :
       /\ other.to = "server/save" /\ other.arg.also = "pending"
       /\ net' = Ask(net \ {r, other}, IF out = "thrown" THEN "server/late" ELSE "server/save",
                     Save(other.arg.on, out))
  /\ ui' = IF out = "thrown" THEN Freed("server/save") ELSE ui

\* The second: the dialog closes only if both were answered "success".
\* Mutant: an error leaves the dialog busy.
BothSavedBusy(r, out) ==
  /\ r.arg.also \in {"success", "error"}
  /\ IF r.arg.also = "success" /\ out = "success"
     THEN RefetchAfter(r, Unmanaged(Freed("server/save")))
     ELSE net' = net \ {r} /\ UNCHANGED ui

BothSaved(r, out) ==
  /\ r.arg.also \in {"success", "error"}
  /\ IF r.arg.also = "success" /\ out = "success"
     THEN RefetchAfter(r, Unmanaged(Freed("server/save")))
     ELSE net' = net \ {r} /\ ui' = Freed("server/save")

WarmupSaved(r, out) ==
  \/ r.to = "server/save" /\ (FirstSaved(r, out) \/ BothSaved(r, out))
  \/ Settle(r, "server/late") /\ UNCHANGED ui

\* Enable and disable close the dialog at once and send the opposite of what
\* the row showed when the dialog was opened.
handleToggleServer ==
  /\ ui.manage # <<>>
  /\ Send("server/toggle", [on |-> ui.manage])
  /\ ui' = Unmanaged(ui)

\* Deletion: the phrase has to be typed, and the dialog closes as it is sent.
TypeDeletePhrase(step) ==
  /\ ui.manage # <<>>
  /\ step # ui.confirm
  /\ ui.confirm = "hidden" => step = "asked"
  /\ ui' = [ui EXCEPT !.confirm = step]
  /\ UNCHANGED net

doDeleteServer ==
  /\ ui.manage # <<>> /\ ui.confirm = "typed"
  /\ Send("server/delete", [on |-> ui.manage[1]])
  /\ ui' = Unmanaged(ui)

ServerMutated(r, out) ==
  /\ r.to \in {"server/toggle", "server/delete"}
  /\ IF out = "success" THEN RefetchAfter(r, ui)
     ELSE net' = net \ {r} /\ UNCHANGED ui

\* The worker key: the eye and the copy button ask for the password unless
\* the page already knows a key.
toggleReveal ==
  /\ Ready("key") /\ ui.modal = None /\ ui.manage = <<>> /\ ~ui.adding
  /\ ui' = IF ui.shown THEN [ui EXCEPT !.shown = FALSE]
           ELSE IF ui.key # 0 THEN [ui EXCEPT !.shown = TRUE]
           ELSE [ui EXCEPT !.modal = "reveal"]
  /\ UNCHANGED net

copyToClipboard ==
  /\ Ready("key") /\ ui.key = 0 /\ ui.modal = None /\ ui.manage = <<>> /\ ~ui.adding
  /\ ui' = [ui EXCEPT !.modal = "reveal"]
  /\ UNCHANGED net

OpenRotate ==
  /\ ui.modal = None /\ ui.manage = <<>> /\ ~ui.adding
  /\ ui' = [ui EXCEPT !.modal = "rotate"]
  /\ UNCHANGED net

CancelPassword ==
  ui.modal # None /\ ui' = [ui EXCEPT !.modal = None] /\ UNCHANGED net

\* isKeyLoading holds the dialog's submit button, and outlives the dialog.
\* Mutant: the flag is the dialog's own.
PasswordDialogFresh == ui.modal # None
PasswordDialog == ui.modal # None /\ Ready("key")

\* The server answers a reveal with the key it holds when it is asked; a
\* rotation it carries out replaces that key even if its answer is lost.
onPasswordAction ==
  /\ PasswordDialog
  /\ ui.modal = "rotate" => ui.srvKey <= MaxRotate
  /\ \E done \in BOOLEAN :
       LET now == IF ui.modal = "rotate" /\ done THEN ui.srvKey + 1 ELSE ui.srvKey
       IN /\ Send("key", [what |-> ui.modal, done |-> done, key |-> now])
          /\ ui' = [ui EXCEPT !.busy = @ \cup {"key"}, !.srvKey = now]

PasswordActionDone(r, out) ==
  /\ Settle(r, "key")
  /\ out # "thrown" => (out = "success" <=> r.arg.done)
  /\ ui' = IF out = "success"
           THEN [Freed("key") EXCEPT
                   !.key = r.arg.key, !.shown = TRUE, !.modal = None,
                   !.acked = IF r.arg.what = "rotate" THEN r.arg.key ELSE @]
           ELSE Freed("key")

Click ==
  \/ RefreshButton \/ OnFocus
  \/ OpenAddDialog \/ CloseAddDialog \/ onAddServer
  \/ \E s \in Nodes : OpenManage(s)
  \/ CloseManage \/ handleWarmupSave \/ handleToggleServer
  \/ \E step \in {"hidden", "asked", "typed"} : TypeDeletePhrase(step)
  \/ doDeleteServer
  \/ toggleReveal \/ copyToClipboard \/ OpenRotate \/ CancelPassword \/ onPasswordAction
  \/ Pushed

Answer(r, out) ==
  \/ FetchedServers(r, out) \/ AddServerDone(r, out) \/ WarmupSaved(r, out)
  \/ ServerMutated(r, out) \/ PasswordActionDone(r, out)
=============================================================================
