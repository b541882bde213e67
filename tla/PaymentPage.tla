---------------------------- MODULE PaymentPage ----------------------------
(***************************************************************************)
(* The payment gateways of the administration                             *)
(* (app/admin/settings/payment/payment-client.tsx): one form, and a tab    *)
(* for each provider.                                                     *)
(***************************************************************************)
EXTENDS Page

CONSTANT Providers

\* A gateway is known by whether it is enabled and whether its secrets are
\* stored.
Gateways == [enabled : BOOLEAN, stored : BOOLEAN]

\* formOf is the provider whose gateway the form was last reset to; typed says
\* that its secrets are filled in.
formFromGateway(u, p, view) ==
  [u EXCEPT !.formOf = p, !.enabled = view[p].enabled, !.typed = FALSE,
            !.busy = @ \ {"save"}]

Init ==
  \E view \in [Providers -> Gateways], p \in Providers :
    /\ \A q \in Providers : view[q].enabled => view[q].stored
    /\ ui = formFromGateway([page |-> "payment", busy |-> {}, provider |-> p, view |-> view,
                             formOf |-> p, enabled |-> FALSE, typed |-> FALSE], p, view)
    /\ net = {}

\* A tab resets the form to its gateway, and the form's isSubmitting with it.
handleProviderSwitch(next) ==
  /\ ui' = formFromGateway([ui EXCEPT !.provider = next], next, ui.view)
  /\ UNCHANGED net

EditForm(enabled, typed) ==
  /\ ui' = [ui EXCEPT !.enabled = enabled, !.typed = typed]
  /\ UNCHANGED net

\* An enabled gateway needs its secrets, typed now or stored before.
validateBeforeSubmit == ui.enabled => ui.typed \/ ui.view[ui.provider].stored

SaveButton == Ready("save")

onSubmit ==
  /\ SaveButton /\ validateBeforeSubmit
  /\ Submit("save", [provider |-> ui.provider,
                     gateway |-> [enabled |-> ui.enabled,
                                  stored |-> ui.typed \/ ui.view[ui.provider].stored]])

\* Success takes over what the server answers and resets the form to the
\* provider that was saved.
Saved(r, out) ==
  /\ Settle(r, "save")
  /\ LET view == [ui.view EXCEPT ![r.arg.provider] = r.arg.gateway]
     IN ui' = IF out = "success"
              THEN formFromGateway([ui EXCEPT !.view = view], r.arg.provider, view)
              ELSE Freed("save")

TestButton == Ready("test") /\ ui.enabled

testGateway ==
  TestButton /\ Submit("test", [provider |-> ui.provider,
                                gateway |-> ui.view[ui.provider]])

Tested(r, out) == Settle(r, "test") /\ ui' = Freed("test")

Click ==
  \/ \E p \in Providers : handleProviderSwitch(p)
  \/ \E enabled \in BOOLEAN, typed \in BOOLEAN : EditForm(enabled, typed)
  \/ onSubmit \/ testGateway

Answer(r, out) == Saved(r, out) \/ Tested(r, out)
=============================================================================
