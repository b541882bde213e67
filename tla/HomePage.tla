------------------------------ MODULE HomePage ------------------------------
(***************************************************************************)
(* The free check of the home page (home-email-verifier.tsx): a limited    *)
(* number a day, and a captcha when the server asks for one.  A captcha    *)
(* token is a number, good for one request.                               *)
(***************************************************************************)
EXTENDS Page

CONSTANTS
  MaxFree,    \* the free checks of a day
  MaxToken    \* bound: the tokens the captcha hands out

\* What the server answers about the day and the captcha.
StatusAnswers == [remaining : 0 .. MaxFree, required : BOOLEAN, key : BOOLEAN]

\* remaining is what the browser remembers, if anything; key says that the
\* site key of the captcha is known.
Init ==
  \E left \in {<<>>} \cup {<<n>> : n \in 0 .. MaxFree}, k \in BOOLEAN, q \in BOOLEAN :
    /\ ui = [page |-> "home", busy |-> {}, email |-> FALSE, remaining |-> left, known |-> FALSE,
             key |-> k, required |-> q, visible |-> FALSE, pending |-> FALSE,
             token |-> 0, minted |-> 0, shown |-> FALSE]
    /\ \E arg \in StatusAnswers : net = Ask({}, "status", arg)

needsCaptcha == ui.required /\ ui.key

fetchStatus(calls) == \E arg \in StatusAnswers : net' = Ask(calls, "status", arg)

FetchedStatus(r, out) ==
  /\ Settle(r, "status")
  /\ ui' = IF out = "success"
           THEN [ui EXCEPT !.known = TRUE, !.remaining = <<r.arg.remaining>>, !.key = @ \/ r.arg.key,
                           !.required = r.arg.required]
           ELSE [ui EXCEPT !.known = TRUE]

Form == Ready("verify")

TypeEmail ==
  Form /\ ui' = [ui EXCEPT !.email = ~@, !.shown = FALSE] /\ UNCHANGED net

\* submitVerify: nothing is sent while a check runs or without an address.
submitVerify(u, token) ==
  IF "verify" \in u.busy \/ ~u.email THEN ui' = u /\ UNCHANGED net
  ELSE /\ Send("verify", [token |-> token])
       /\ ui' = [u EXCEPT !.busy = @ \cup {"verify"}, !.pending = FALSE, !.shown = FALSE]

\* A visitor who has used up the day is sent to the registration.
handleVerify ==
  /\ Form /\ ui.email
  /\ IF ui.known /\ ui.remaining = <<0>> THEN Leave
     ELSE IF needsCaptcha /\ ui.token = 0
     THEN /\ ui' = [ui EXCEPT !.pending = TRUE, !.visible = TRUE, !.shown = FALSE]
          /\ UNCHANGED net
     ELSE submitVerify(ui, ui.token)

\* The widget, while it is shown, hands out a token or lets it expire.
Widget == needsCaptcha /\ ui.visible

handleTurnstileToken ==
  /\ Widget
  /\ \/ /\ ui.minted < MaxToken
        /\ LET u == [ui EXCEPT !.minted = @ + 1, !.token = ui.minted + 1]
           IN IF ui.pending THEN submitVerify(u, u.token) ELSE ui' = u /\ UNCHANGED net
     \/ ui.token # 0 /\ ui' = [ui EXCEPT !.token = 0] /\ UNCHANGED net

\* The captcha is asked for again; without its site key the settings are
\* fetched first, and the check goes on until they are there.
Challenged(u) == [u EXCEPT !.token = 0, !.required = TRUE]

Recovered(u) == [u EXCEPT !.visible = TRUE, !.pending = TRUE, !.busy = @ \ {"verify"}]

recoverCaptchaChallenge(r) ==
  IF ui.key
  THEN net' = net \ {r} /\ ui' = Recovered(Challenged([ui EXCEPT !.shown = TRUE]))
  ELSE /\ net' = Ask(net \ {r}, "config", [token |-> 0])
       /\ ui' = Challenged([ui EXCEPT !.shown = TRUE])

ConfigFetched(r, out) ==
  /\ Settle(r, "config")
  /\ ui' = IF out = "success"
           THEN Recovered([ui EXCEPT !.key = TRUE])
           ELSE [Freed("verify") EXCEPT !.visible = FALSE, !.pending = FALSE]

\* Every outcome but a captcha error ends with the token gone and the captcha
\* hidden; a success also asks for what is left of the day.
\* Mutant: the token is kept for the next check.
FinishedWithToken == [Freed("verify") EXCEPT !.visible = FALSE, !.shown = TRUE]
Finished == [Freed("verify") EXCEPT !.token = 0, !.visible = FALSE, !.shown = TRUE]

Verified(r, out) ==
  /\ r.to = "verify"
  /\ IF out = "success" THEN fetchStatus(net \ {r}) /\ ui' = Finished
     ELSE \/ recoverCaptchaChallenge(r)
          \/ net' = net \ {r} /\ ui' = Finished

Click == TypeEmail \/ handleVerify \/ handleTurnstileToken

Answer(r, out) == FetchedStatus(r, out) \/ ConfigFetched(r, out) \/ Verified(r, out)
=============================================================================
