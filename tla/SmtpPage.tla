------------------------------ MODULE SmtpPage ------------------------------
(***************************************************************************)
(* The e-mail page of the administration (app/admin/smtp/smtp-client.tsx): *)
(* the SMTP account and the templates of the e-mails.                     *)
(***************************************************************************)
EXTENDS Page

CONSTANTS
  Templates,  \* the e-mail templates
  Drafts      \* the contents one of them may have, all of them valid

\* hostOk says that host and user name are filled in, pass that a password is
\* typed.  The page fetches its data when it came without any.
Init ==
  \E ssr \in BOOLEAN, t \in Templates, d \in Drafts :
    /\ ui = [page |-> "smtp", busy |-> {}, sel |-> t, tpl |-> d,
             templates |-> [k \in Templates |-> d],
             hostOk |-> ssr, pass |-> FALSE, stored |-> ssr, active |-> ssr,
             verified |-> ssr, programmatic |-> FALSE]
    /\ \E rows \in [Templates -> Drafts] :
         net = IF ssr THEN {} ELSE Ask({}, "data", [rows |-> rows, account |-> TRUE])

hasValidCredentials == ui.hostOk /\ (ui.pass \/ ui.stored)

\* The edits of the selected template go into the map of drafts.
flushTemplateDraft(u) == [u EXCEPT !.templates[u.sel] = u.tpl]

\* The form is reset to a template, and its isSubmitting with it.
loadTemplateIntoForm(u, key) ==
  [u EXCEPT !.sel = key, !.tpl = u.templates[key], !.busy = @ \ {"template"}]

EditTemplate(d) == d # ui.tpl /\ ui' = [ui EXCEPT !.tpl = d] /\ UNCHANGED net

\* The switch of a template goes into the map at once.
ToggleTemplate(d) ==
  /\ d # ui.tpl
  /\ ui' = flushTemplateDraft([ui EXCEPT !.tpl = d])
  /\ UNCHANGED net

handleSelectTemplate(key) ==
  /\ key # ui.sel
  /\ ui' = loadTemplateIntoForm(flushTemplateDraft(ui), key)
  /\ UNCHANGED net

\* fetchSmtpData at mount: the rows of the server replace the drafts, and
\* then the form shows the selected one.
FetchedData(r, out) ==
  /\ Settle(r, "data")
  /\ ui' = IF out = "success"
           THEN loadTemplateIntoForm(
                  [ui EXCEPT !.templates = r.arg.rows, !.hostOk = r.arg.account,
                             !.pass = FALSE, !.stored = r.arg.account,
                             !.active = r.arg.account, !.verified = r.arg.account,
                             !.programmatic = TRUE, !.busy = @ \ {"save"}], ui.sel)
           ELSE ui

\* Editing the account by hand makes it unverified and inactive; emptying the
\* password does not when one is stored.
EditAccount(host, typed) ==
  /\ ui' = IF ui.programmatic \/ (host = ui.hostOk /\ ~typed /\ ui.stored)
           THEN [ui EXCEPT !.hostOk = host, !.pass = typed]
           ELSE [ui EXCEPT !.hostOk = host, !.pass = typed,
                           !.verified = FALSE, !.active = FALSE]
  /\ UNCHANGED net

\* 100 ms after an answer was put into the form.
ProgrammaticEnds ==
  ui.programmatic /\ ui' = [ui EXCEPT !.programmatic = FALSE] /\ UNCHANGED net

ToggleActive ==
  /\ ui.verified /\ hasValidCredentials
  /\ ui' = [ui EXCEPT !.active = ~@]
  /\ UNCHANGED net

\* Both buttons of the account are held while it is saved.
AccountButtons == Ready("save")

\* An account without credentials is saved inactive.
handleSaveSettings ==
  /\ AccountButtons
  /\ Send("save", [pass |-> ui.pass, stored |-> ui.stored])
  /\ ui' = [flushTemplateDraft(ui) EXCEPT !.busy = @ \cup {"save"},
                                          !.active = @ /\ hasValidCredentials]

SettingsSaved(r, out) ==
  /\ Settle(r, "save")
  /\ ui' = IF out = "success"
           THEN [Freed("save") EXCEPT !.programmatic = TRUE, !.pass = FALSE,
                                      !.stored = r.arg.stored \/ r.arg.pass]
           ELSE Freed("save")

handleTestConnection ==
  /\ AccountButtons
  /\ Send("test", [on |-> None])
  /\ ui' = flushTemplateDraft(ui)

Tested(r, out) ==
  /\ Settle(r, "test")
  /\ ui' = IF out = "success"
           THEN [ui EXCEPT !.programmatic = TRUE, !.verified = TRUE, !.stored = TRUE,
                           !.active = TRUE, !.pass = FALSE]
           ELSE ui

TemplateForm == Ready("template")

handleSaveTemplate == TemplateForm /\ Submit("template", [key |-> ui.sel, tpl |-> ui.tpl])

\* What was sent goes into the map, whatever the draft is by now.
TemplateSaved(r, out) ==
  /\ Settle(r, "template")
  /\ ui' = IF out = "success"
           THEN [Freed("template") EXCEPT !.templates[r.arg.key] = r.arg.tpl]
           ELSE Freed("template")

Click ==
  \/ \E d \in Drafts : EditTemplate(d) \/ ToggleTemplate(d)
  \/ \E key \in Templates : handleSelectTemplate(key)
  \/ \E host \in BOOLEAN, typed \in BOOLEAN : EditAccount(host, typed)
  \/ ProgrammaticEnds \/ ToggleActive
  \/ handleSaveSettings \/ handleTestConnection \/ handleSaveTemplate

Answer(r, out) ==
  FetchedData(r, out) \/ SettingsSaved(r, out) \/ Tested(r, out) \/ TemplateSaved(r, out)
=============================================================================
