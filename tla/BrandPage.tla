----------------------------- MODULE BrandPage -----------------------------
(***************************************************************************)
(* The brand settings page of the administration                          *)
(* (app/admin/brand-build/brand-build-client.tsx): a form, and the scripts *)
(* put into the head of the public pages.                                 *)
(***************************************************************************)
EXTENDS Page

CONSTANTS
  Brands,      \* the values of the form, all of them valid
  Scripts,     \* the ids of head scripts
  MAX_SCRIPTS  \* 20 in the code

\* The scripts of a list, each enabled or not.
Lists == UNION {[ids -> BOOLEAN] : ids \in {s \in SUBSET Scripts : Cardinality(s) <= MAX_SCRIPTS}}
NoScripts == [id \in {} |-> FALSE]

\* srv is what the server holds; the page starts from it, or asks for it when
\* it came empty.
Init ==
  \E f \in Brands, s \in Lists, ssr \in BOOLEAN :
    /\ ui = [page |-> "brand", busy |-> IF ssr THEN {} ELSE {"brand"},
             form |-> f, scripts |-> IF ssr THEN s ELSE NoScripts,
             srv |-> [form |-> f, scripts |-> s],
             editor |-> FALSE, editing |-> None, conf |-> f]
    /\ net = IF ssr THEN {} ELSE Ask({}, "brand", [read |-> [form |-> f, scripts |-> s]])

\* form.reset and setHeadScripts: edits not yet saved are gone, and isSubmitting.
Hydrate(u, read) ==
  [u EXCEPT !.form = read.form, !.scripts = read.scripts, !.busy = @ \ {"save"}]

\* The answer of refreshSettings, or of the router's refresh of the page.
RefreshedSettings(r, out) ==
  /\ r.to \in {"brand", "router"}
  /\ net' = net \ {r}
  /\ ui' = IF out = "success" THEN Hydrate(Freed("brand"), r.arg.read) ELSE Freed("brand")

EditForm(f) == f # ui.form /\ ui' = [ui EXCEPT !.form = f] /\ UNCHANGED net

\* The script editor: for a new script, or for one of the list.
OpenEditor ==
  ~ui.editor /\ ui' = [ui EXCEPT !.editor = TRUE, !.editing = None] /\ UNCHANGED net

CloseEditor ==
  ui.editor /\ ui' = [ui EXCEPT !.editor = FALSE, !.editing = None] /\ UNCHANGED net

handleToggleScript(s) ==
  /\ s \in DOMAIN ui.scripts
  /\ ui' = [ui EXCEPT !.scripts[s] = ~@]
  /\ UNCHANGED net

handleEditScript(s) ==
  /\ s \in DOMAIN ui.scripts
  /\ ui' = [ui EXCEPT !.editor = TRUE, !.editing = s]
  /\ UNCHANGED net

\* A script deleted from the list while it is in the editor is not put back.
handleSaveScript ==
  /\ ui.editor
  /\ \/ /\ ui.editing # None
        /\ ui' = [ui EXCEPT !.editor = FALSE, !.editing = None]
     \/ /\ ui.editing = None
        /\ Cardinality(DOMAIN ui.scripts) < MAX_SCRIPTS
        /\ \E s \in Scripts \ DOMAIN ui.scripts :
             ui' = [ui EXCEPT !.scripts = [id \in DOMAIN @ \cup {s} |-> id = s \/ @[id]],
                              !.editor = FALSE]
  /\ UNCHANGED net

handleDeleteScript(s) ==
  /\ s \in DOMAIN ui.scripts
  /\ ui' = [ui EXCEPT !.scripts = [id \in DOMAIN @ \ {s} |-> @[id]]]
  /\ UNCHANGED net

SaveButton == Ready("save") /\ Ready("brand")

\* The form and the scripts are sent together.
handleSaveSubmit ==
  /\ SaveButton
  /\ \E done \in BOOLEAN :
       LET sent == [form |-> ui.form, scripts |-> ui.scripts]
       IN /\ Send("save", [done |-> done, read |-> sent])
          /\ ui' = [ui EXCEPT !.busy = @ \cup {"save"}, !.srv = IF done THEN sent ELSE @]

\* Success goes into the settings of the application, puts the form back to
\* what was sent, and asks the router for the page again.
BrandSaved(r, out) ==
  /\ r.to = "save"
  /\ out # "thrown" => (out = "success" <=> r.arg.done)
  /\ IF out = "success"
     THEN /\ SettleAndAsk(r, "save", "router", [read |-> ui.srv])
          /\ ui' = [Freed("save") EXCEPT !.form = r.arg.read.form, !.conf = r.arg.read.form]
     ELSE Settle(r, "save") /\ ui' = Freed("save")

Click ==
  \/ \E f \in Brands : EditForm(f)
  \/ OpenEditor \/ CloseEditor \/ handleSaveScript
  \/ \E s \in Scripts : handleToggleScript(s) \/ handleEditScript(s) \/ handleDeleteScript(s)
  \/ handleSaveSubmit

Answer(r, out) == RefreshedSettings(r, out) \/ BrandSaved(r, out)
=============================================================================
