---------------------------- MODULE PackagesPage ----------------------------
(***************************************************************************)
(* The credit packages page of the administration                         *)
(* (app/admin/packages/packages-client.tsx).  A package of the list is    *)
(* known by the set of its flags that are on; "enabled" and "is_public",   *)
(* which the page treats alike, are one here.                             *)
(***************************************************************************)
EXTENDS Page

CONSTANT Packages   \* the packages there may be, the ones yet to be created too

Flags == {"popular", "listed"}

\* One package at most is popular when the page is rendered by the server.
Init ==
  \E known \in SUBSET Packages :
    /\ \E plans \in [known -> SUBSET Flags] :
         /\ \A p, q \in known : "popular" \in plans[p] \cap plans[q] => p = q
         /\ ui = [page |-> "packages", busy |-> {}, plans |-> plans,
                  modal |-> <<>>, remove |-> None]
    /\ net = {}

\* The modal and the confirmation cover the page.
Uncovered == ui.modal = <<>> /\ ui.remove = None

\* Both ways to open the form reset it, and isSubmitting with it.
OpenForm(id) ==
  /\ Uncovered
  /\ ui' = [ui EXCEPT !.modal = <<id>>, !.busy = @ \ {"submit"}]
  /\ UNCHANGED net

openAdd == OpenForm(None)
openEdit(p) == p \in DOMAIN ui.plans /\ OpenForm(p)

CloseForm == ui.modal # <<>> /\ ui' = [ui EXCEPT !.modal = <<>>] /\ UNCHANGED net

FormModal == ui.modal # <<>> /\ Ready("submit")

\* An update carries the whole package; the answer of the server repeats it.
\* A creation that succeeds answers with a new package.
onSubmit(flags) ==
  /\ FormModal
  /\ LET editingId == ui.modal[1]
         taken == DOMAIN ui.plans \cup {r.arg.id : r \in net}
     IN \E id \in IF editingId = None THEN Packages \ taken ELSE {editingId} :
          Submit("submit", [id |-> id, create |-> editingId = None, flags |-> flags])

\* The list with package p as the server answered it.
Replaced(plans, p, flags) == [q \in DOMAIN plans |-> IF q = p THEN flags ELSE plans[q]]

\* Marking a package popular takes the mark from the others.
Demoted(plans, p) ==
  [q \in DOMAIN plans |-> IF q = p THEN plans[q] ELSE plans[q] \ {"popular"}]

Prepended(plans, p, flags) ==
  [q \in DOMAIN plans \cup {p} |-> IF q = p THEN flags ELSE plans[q]]

\* Success closes the form, whatever it is open on by now.
Submitted(r, out) ==
  /\ Settle(r, "submit")
  /\ LET merged == IF r.arg.create THEN Prepended(ui.plans, r.arg.id, r.arg.flags)
                   ELSE Replaced(ui.plans, r.arg.id, r.arg.flags)
     IN ui' = IF out = "success"
              THEN [Freed("submit") EXCEPT
                      !.modal = <<>>,
                      !.plans = IF "popular" \in r.arg.flags THEN Demoted(merged, r.arg.id)
                                ELSE merged]
              ELSE Freed("submit")

\* The badges of a row send the flags of the render, one of them turned.
Toggled(p, flag) ==
  IF flag \in ui.plans[p] THEN ui.plans[p] \ {flag} ELSE ui.plans[p] \cup {flag}

updatePackageFlags(p, flag) ==
  /\ Uncovered /\ p \in DOMAIN ui.plans
  /\ Send("flags", [id |-> p, create |-> FALSE, flags |-> Toggled(p, flag)])
  /\ UNCHANGED ui

toggleListed(p) == updatePackageFlags(p, "listed")
togglePopular(p) == updatePackageFlags(p, "popular")

\* Mutant: the others keep the mark.
FlagsUpdatedAlone(r, out) ==
  /\ Settle(r, "flags")
  /\ ui' = IF out = "success"
           THEN [ui EXCEPT !.plans = Replaced(@, r.arg.id, r.arg.flags)] ELSE ui

FlagsUpdated(r, out) ==
  /\ Settle(r, "flags")
  /\ LET merged == Replaced(ui.plans, r.arg.id, r.arg.flags)
     IN ui' = IF out = "success"
              THEN [ui EXCEPT !.plans = IF "popular" \in r.arg.flags
                                        THEN Demoted(merged, r.arg.id) ELSE merged]
              ELSE ui

OpenDelete(p) ==
  /\ Uncovered /\ p \in DOMAIN ui.plans
  /\ ui' = [ui EXCEPT !.remove = p]
  /\ UNCHANGED net

\* The confirmation holds both its buttons while the deletion runs.
DeleteDialog == ui.remove # None /\ Ready("delete")

CancelDelete == DeleteDialog /\ ui' = [ui EXCEPT !.remove = None] /\ UNCHANGED net

deletePlan ==
  DeleteDialog /\ Submit("delete", [id |-> ui.remove, create |-> FALSE, flags |-> {}])

PlanDeleted(r, out) ==
  /\ Settle(r, "delete")
  /\ ui' = IF out = "success"
           THEN [Freed("delete") EXCEPT
                   !.plans = [q \in DOMAIN @ \ {r.arg.id} |-> @[q]], !.remove = None]
           ELSE Freed("delete")

Click ==
  \/ openAdd \/ CloseForm \/ CancelDelete \/ deletePlan
  \/ \E p \in Packages :
       openEdit(p) \/ toggleListed(p) \/ togglePopular(p) \/ OpenDelete(p)
  \/ \E flags \in SUBSET Flags : onSubmit(flags)

Answer(r, out) == Submitted(r, out) \/ FlagsUpdated(r, out) \/ PlanDeleted(r, out)
=============================================================================
