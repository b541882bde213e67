---------------------------- MODULE ProfilePage ----------------------------
(***************************************************************************)
(* The profile of a user (features/profile/components/                    *)
(* profile-client.tsx): name, password and webhook.  A signing secret is a *)
(* number that a regeneration increases; it is answered once.             *)
(***************************************************************************)
EXTENDS Page

CONSTANTS
  Names,      \* what the user may be called
  Urls,       \* the webhook addresses; "" is none
  MaxSecret   \* bound: the signing secrets issued

\* srv is what the server holds, and the secrets it has issued; secret 0 is none.
Init ==
  \E n \in Names, u \in Urls :
    LET secret == IF u = "" THEN 0 ELSE 1
        held == [name |-> n, url |-> u, secret |-> secret, issued |-> secret]
    IN /\ ui = [page |-> "profile", busy |-> {"refresh"}, srv |-> held, name |-> n,
                nameForm |-> n, sidebar |-> n, url |-> u, urlForm |-> u,
                hasSecret |-> u # "", revealed |-> 0]
       /\ net = Ask({}, "refresh", [name |-> n, url |-> u, hasSecret |-> u # ""])

\* The refresh at mount puts both forms back to what it read, with their
\* isSubmitting.
Refreshed(r, out) ==
  /\ Settle(r, "refresh")
  /\ ui' = IF out = "success"
           THEN [ui EXCEPT !.busy = @ \ {"refresh", "name", "webhook"},
                           !.name = r.arg.name, !.nameForm = r.arg.name,
                           !.url = r.arg.url, !.urlForm = r.arg.url,
                           !.hasSecret = r.arg.hasSecret]
           ELSE Freed("refresh")

EditName(n) == n # ui.nameForm /\ ui' = [ui EXCEPT !.nameForm = n] /\ UNCHANGED net
EditUrl(u) == u # ui.urlForm /\ ui' = [ui EXCEPT !.urlForm = u] /\ UNCHANGED net

NameForm == Ready("name")

onUpdateName ==
  /\ NameForm
  /\ \E done \in BOOLEAN :
       /\ Send("name", [done |-> done, name |-> ui.nameForm])
       /\ ui' = [ui EXCEPT !.busy = @ \cup {"name"},
                           !.srv.name = IF done THEN ui.nameForm ELSE @]

\* The name in the sidebar, and the one it keeps for the next page.
patchSidebarName(u, n) == [u EXCEPT !.sidebar = n]

NameUpdated(r, out) ==
  /\ Settle(r, "name")
  /\ out # "thrown" => (out = "success" <=> r.arg.done)
  /\ ui' = IF out = "success"
           THEN patchSidebarName([Freed("name") EXCEPT !.name = r.arg.name], r.arg.name)
           ELSE Freed("name")

PasswordForm == Ready("password")

onChangePassword == PasswordForm /\ Submit("password", [done |-> TRUE])

PasswordChanged(r, out) == Settle(r, "password") /\ ui' = Freed("password")

\* What is typed may be blank, which the form takes for no address.
Blank == " "
trim(url) == IF url = Blank THEN "" ELSE url

\* Saving a webhook.  The server keeps the address, issues a secret when it is
\* asked to or has none, and drops it with the address.
saveWebhook(u, to, url, regenerate) ==
  \E done \in BOOLEAN :
    LET new == IF done /\ url # "" /\ (regenerate \/ ui.srv.secret = 0)
               THEN ui.srv.issued + 1 ELSE 0
        held == IF url = "" THEN 0 ELSE IF new # 0 THEN new ELSE ui.srv.secret
    IN /\ new <= MaxSecret
       /\ Send(to, [done |-> done, url |-> url, secret |-> new])
       /\ ui' = IF done
                THEN [u EXCEPT !.srv.url = url, !.srv.secret = held,
                               !.srv.issued = IF new # 0 THEN new ELSE @]
                ELSE u

\* The three buttons of the webhook are held only while its form is submitted
\* ("webhook"); what the other two send ("secret") holds none of them.
WebhookButtons == Ready("webhook")

onSaveWebhook ==
  WebhookButtons
  /\ saveWebhook([ui EXCEPT !.busy = @ \cup {"webhook"}], "webhook", trim(ui.urlForm), FALSE)

\* The button wants something typed; blanks stand for the saved address.
onRegenerateSecret ==
  /\ WebhookButtons /\ ui.urlForm # ""
  /\ LET url == IF trim(ui.urlForm) # "" THEN ui.urlForm ELSE ui.url
     IN url # "" /\ saveWebhook(ui, "secret", url, TRUE)

onClearWebhook ==
  WebhookButtons /\ (ui.url # "" \/ ui.hasSecret) /\ saveWebhook(ui, "secret", "", FALSE)

\* Every success resets the form, with its isSubmitting; a secret in the answer
\* is revealed.  A failure frees the form only of what it sent itself.
WebhookSaved(r, out) ==
  /\ r.to \in {"webhook", "secret"} /\ net' = net \ {r}
  /\ out # "thrown" => (out = "success" <=> r.arg.done)
  /\ ui' = IF out = "success"
           THEN [Freed("webhook") EXCEPT
                   !.url = r.arg.url, !.urlForm = r.arg.url, !.hasSecret = r.arg.url # "",
                   !.revealed = IF r.arg.secret # 0 THEN r.arg.secret
                                ELSE IF r.arg.url = "" THEN 0 ELSE @]
           ELSE Freed(r.to)

DismissSecret ==
  ui.revealed # 0 /\ ui' = [ui EXCEPT !.revealed = 0] /\ UNCHANGED net

Click ==
  \/ \E n \in Names : EditName(n)
  \/ \E u \in Urls \cup {Blank} : EditUrl(u)
  \/ onUpdateName \/ onChangePassword
  \/ onSaveWebhook \/ onRegenerateSecret \/ onClearWebhook \/ DismissSecret

Answer(r, out) ==
  \/ Refreshed(r, out) \/ NameUpdated(r, out) \/ PasswordChanged(r, out)
  \/ WebhookSaved(r, out)
=============================================================================
