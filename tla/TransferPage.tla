---------------------------- MODULE TransferPage ----------------------------
(***************************************************************************)
(* The credit transfer of a reseller (features/reseller/components/       *)
(* reseller-transfer-form.tsx).  Every confirmed submit has an idempotency *)
(* key of its own, so the server executes each.                           *)
(***************************************************************************)
EXTENDS Page, DashboardStore

CONSTANTS
  Costs,    \* the amounts a reseller may enter
  Credits   \* what the reseller may have at first

\* srv is the credits the server holds, amount what is entered (0: nothing).
Init ==
  \E c \in Credits, seen \in {<<>>} \cup {<<n>> : n \in Credits}, m \in BOOLEAN :
    /\ ui = [page |-> "transfer", busy |-> {}, maintenance |-> m, shown |-> seen,
             balance |-> c, srv |-> c, amount |-> 0]
    /\ net = {}

Form == Ready("transfer") /\ ~ui.maintenance

Enter(n) == Form /\ n # ui.amount /\ ui' = [ui EXCEPT !.amount = n] /\ UNCHANGED net

\* What remains is read as the server takes the credits.
onTransfer ==
  /\ Form /\ ui.amount > 0
  /\ \E done \in BOOLEAN :
       /\ done => ui.srv >= ui.amount
       /\ LET left == IF done THEN ui.srv - ui.amount ELSE ui.srv
          IN /\ Send("transfer", [done |-> done, left |-> left])
             /\ ui' = [ui EXCEPT !.busy = @ \cup {"transfer"}, !.srv = left]

\* Success empties the form (and isSubmitting with it), shows what remains and
\* asks for the statistics; a failure keeps the form, to be sent again.  (The
\* API always says what remains: reseller_service.go, TransferResult.)
Transferred(r, out) ==
  /\ r.to = "transfer"
  /\ out # "thrown" => (out = "success" <=> r.arg.done)
  /\ IF out = "success"
     THEN LET u == [Freed("transfer") EXCEPT !.amount = 0, !.balance = r.arg.left]
          IN /\ net' = Fetching(net \ {r}, ui.srv)
             /\ ui' = Loading(IF ui.shown = <<>> THEN u ELSE SetStats(u, r.arg.left))
     ELSE net' = net \ {r} /\ ui' = Freed("transfer")

Click ==
  \/ \E n \in Costs \cup {0} : Enter(n)
  \/ onTransfer
  \/ StatsUpdate \/ CreditUpdate \/ UserUpdate

Answer(r, out) == Transferred(r, out) \/ FetchedStats(r, out)
=============================================================================
