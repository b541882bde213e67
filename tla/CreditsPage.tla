---------------------------- MODULE CreditsPage ----------------------------
(***************************************************************************)
(* Buying credits (features/credits/components/credits-client.tsx), with   *)
(* the packages kept for the session (stores/config-store.ts).            *)
(***************************************************************************)
EXTENDS Page

CONSTANT Offers   \* the packages that cost something, when there are any

\* What brought the user here: the page, or the way back from a checkout.
Returns == {None, "cancelled", "paypal", "reported"}

\* What the store holds at mount: nothing, an empty list, or packages; cooling
\* says that it was filled or asked for less than a minute ago.
Stored == {None, "empty", "full"}

\* setPackages of the store starts the minute in which nothing is fetched.
setPackages(list) == [packages |-> list, cooling |-> TRUE]

Seeded(store, initial) == IF store.packages = None THEN setPackages(initial) ELSE store

fetchPackages(store) == store.packages = "empty" /\ ~store.cooling

\* At mount the store is seeded with what came with the page, and an empty
\* list is fetched unless that was done just now.
Init ==
  \E packages \in Stored, cooling \in BOOLEAN, initial \in {"empty", "full"}, back \in Returns :
    LET store == Seeded([packages |-> packages, cooling |-> cooling], initial)
    IN /\ ui = [page |-> "credits", busy |-> IF fetchPackages(store) THEN {"packages"} ELSE {},
                store |-> store, back |-> back, selected |-> None]
       /\ net = IF fetchPackages(store) THEN Ask({}, "packages", [method |-> None]) ELSE {}

Fetched(r, out) ==
  /\ Settle(r, "packages")
  /\ \E list \in {"empty", "full"} :
       ui' = IF out = "success" THEN [Freed("packages") EXCEPT !.store = setPackages(list)]
             ELSE [Freed("packages") EXCEPT !.store.cooling = TRUE]

\* The way back is handled once: the cancellation of a known transaction and a
\* PayPal order are sent on, and nobody waits for the answer; of anything else
\* the user is told.
HandleReturn ==
  /\ ui.back # None
  /\ ui' = [ui EXCEPT !.back = None]
  /\ CASE ui.back = "cancelled" -> Send("cancel", [method |-> None])
       [] ui.back = "paypal" -> Send("capture", [method |-> None])
       [] OTHER -> UNCHANGED net

ReturnHandled(r, out) ==
  r.to \in {"cancel", "capture"} /\ net' = net \ {r} /\ UNCHANGED ui

SelectPackage(p) ==
  /\ ui.store.packages = "full" /\ ui.selected = None
  /\ ui' = [ui EXCEPT !.selected = p]
  /\ UNCHANGED net

CloseCheckout ==
  /\ ui.selected # None /\ Ready("pay")
  /\ ui' = [ui EXCEPT !.selected = None]
  /\ UNCHANGED net

\* One flag holds the three buttons of the checkout.
Checkout == ui.selected # None /\ Ready("pay")

Purchase(method) == Checkout /\ Submit("pay", [method |-> method])

handleCryptoPurchase == Purchase("crypto")
handleStripePurchase == Purchase("stripe")
handlePaypalPurchase == Purchase("paypal")

\* A crypto checkout opens a tab.  Stripe and PayPal take the browser to the
\* provider; until it has gone there ("leave") the buttons stay held.
CheckoutCreated(r, out) ==
  /\ r.to = "pay" /\ r.arg.method # "leave"
  /\ IF out = "success" /\ r.arg.method # "crypto"
     THEN SettleAndAsk(r, "pay", "pay", [method |-> "leave"]) /\ UNCHANGED ui
     ELSE /\ net' = net \ {r}
          /\ ui' = IF out = "success" THEN [Freed("pay") EXCEPT !.selected = None]
                   ELSE Freed("pay")

CheckoutOpened(r) == r.to = "pay" /\ r.arg.method = "leave" /\ Leave

Click ==
  \/ HandleReturn \/ CloseCheckout
  \/ \E p \in Offers : SelectPackage(p)
  \/ handleCryptoPurchase \/ handleStripePurchase \/ handlePaypalPurchase

Answer(r, out) == Fetched(r, out) \/ ReturnHandled(r, out) \/ CheckoutCreated(r, out) \/ CheckoutOpened(r)
=============================================================================
