----------------------------- MODULE VerifyPage -----------------------------
(***************************************************************************)
(* The single verification of a user (features/single-verify/components/  *)
(* form.tsx and single-verify-client.tsx): one credit is taken off the    *)
(* numbers shown as the request starts, and put back when it fails.       *)
(***************************************************************************)
EXTENDS Page, DashboardStore

CONSTANTS
  Emails,   \* what the user verifies
  Credits   \* what the user may have at first

\* srv is the credits the server holds; result the address whose result is shown.
Init ==
  \E c \in Credits, seen \in {<<>>} \cup {<<n>> : n \in Credits}, m \in BOOLEAN :
    /\ ui = [page |-> "verify", busy |-> {}, maintenance |-> m, shown |-> seen, balance |-> c,
             srv |-> c, email |-> "", failed |-> FALSE, result |-> None]
    /\ net = {}

Form == Ready("verify") /\ ~ui.maintenance

TypeEmail(e) ==
  /\ Form /\ e # ui.email
  /\ ui' = [ui EXCEPT !.email = e]
  /\ UNCHANGED net

OneLess(n) == IF n > 0 THEN n - 1 ELSE 0

Debited(u) ==
  LET v == [u EXCEPT !.balance = OneLess(@)]
  IN IF u.shown = <<>> THEN v ELSE SetStats(v, OneLess(u.shown[1]))

\* The API charges before it verifies; a failure gives the credit back, unless
\* the answer alone is lost.
handleVerify ==
  /\ Form /\ ui.email # ""
  /\ \E done \in BOOLEAN :
       /\ done => ui.srv > 0
       /\ Send("verify", [done |-> done, email |-> ui.email,
                          shown |-> ui.shown, balance |-> ui.balance])
       /\ ui' = [Debited(ui) EXCEPT !.busy = @ \cup {"verify"}, !.failed = FALSE,
                                    !.srv = IF done THEN @ - 1 ELSE @]

\* The numbers of the moment of the click come back.
RolledBack(u, arg) ==
  LET v == [u EXCEPT !.balance = arg.balance, !.failed = TRUE]
  IN IF arg.shown = <<>> THEN v ELSE SetStats(v, arg.shown[1])

Verified(r, out) ==
  /\ r.to = "verify"
  /\ out # "thrown" => (out = "success" <=> r.arg.done)
  /\ IF out = "success"
     THEN /\ net' = Fetching(net \ {r}, ui.srv)
          /\ ui' = Loading([Freed("verify") EXCEPT !.result = r.arg.email])
     ELSE net' = net \ {r} /\ ui' = RolledBack(Freed("verify"), r.arg)

\* Credits change elsewhere too: a bulk job is charged, a purchase arrives.
Elsewhere(c) ==
  /\ c # ui.srv
  /\ ui' = [ui EXCEPT !.srv = c]
  /\ UNCHANGED net

Click ==
  \/ \E e \in Emails : TypeEmail(e)
  \/ handleVerify \/ StatsUpdate \/ CreditUpdate \/ UserUpdate
  \/ \E c \in Credits : Elsewhere(c)

Answer(r, out) == Verified(r, out) \/ FetchedStats(r, out)
=============================================================================
