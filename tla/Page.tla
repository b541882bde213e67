-------------------------------- MODULE Page --------------------------------
(***************************************************************************)
(* What every page of the web application (src/frontend) is built on: the *)
(* React state of the one page that is mounted, and the requests it has in *)
(* flight.  A handler runs to its first await in one step; what follows   *)
(* the await is a step of its own, taken when the answer arrives, and sees *)
(* the variables its closure captured when the request was sent.  Answers *)
(* arrive in any order.                                                   *)
(***************************************************************************)
EXTENDS Naturals, FiniteSets

CONSTANTS
  MaxCalls,  \* bound: a user does not click while so many requests are in flight
  Terms,     \* what a user may type into a search box; "" is the empty box
  MaxPage    \* bound: the pages of a list

ASSUME MaxCallsAssumption == MaxCalls \in Nat \ {0}
ASSUME TermsAssumption == "" \in Terms
ASSUME MaxPageAssumption == MaxPage \in Nat \ {0}

VARIABLES
  ui,   \* the mounted page: a record of its state, refs and store fields;
        \* ui.busy names the requests a spinner or a disabled control waits for
  net   \* its requests in flight

page == <<ui, net>>

None == "none"

\* What apiClient.get and .post give the caller: the body's status, or a
\* rejected promise (a status outside 2xx, a network error, the timeout, after
\* which the server may still have done what was asked).
Outcome == {"success", "error", "thrown"}

\* Equal requests are told apart by their ids.
Free(calls, to, arg) ==
  CHOOSE i \in 1 .. Cardinality(calls) + 1 :
    \A r \in calls : r.to = to /\ r.arg = arg => r.id # i

\* The calls with one more request in flight, sent to endpoint "to".
Ask(calls, to, arg) == calls \cup {[id |-> Free(calls, to, arg), to |-> to, arg |-> arg]}

CanCall == Cardinality(net) < MaxCalls

Asking(to) == \E r \in net : r.to = to

\* A handler sends a request and waits for it.  Mutant: the client sends every
\* request twice, and hands both answers to the handler.
SendTwice(to, arg) == CanCall /\ net' = Ask(Ask(net, to, arg), to, arg)
Send(to, arg) == CanCall /\ net' = Ask(net, to, arg)

\* A control that is disabled, or spins, while request "to" runs.
Ready(to) == to \notin ui.busy

Submit(to, arg) == ui' = [ui EXCEPT !.busy = @ \cup {to}] /\ Send(to, arg)

\* The promise of request r settles.
Settle(r, to) == r.to = to /\ net' = net \ {r}

\* ... and the handler sends its next request.
SettleAndAsk(r, to, next, arg) == r.to = to /\ net' = Ask(net \ {r}, next, arg)

\* The page with the flag of endpoint "to" cleared.
Freed(to) == [ui EXCEPT !.busy = @ \ {to}]

\* Another page is shown: nothing of this one survives, and answers that still
\* come find nothing here to change.
Leave == ui' = [page |-> "left", busy |-> {}] /\ net' = {}
=============================================================================
