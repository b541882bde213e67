---------------------------- MODULE ContactPage ----------------------------
(***************************************************************************)
(* The contact form of the public site (components/home/contact-form.tsx), *)
(* with the captcha it shows when the settings, or the server, ask for it. *)
(* The form is sent with what it holds when the token arrives.            *)
(***************************************************************************)
EXTENDS Page

CONSTANT MaxToken   \* bound: the tokens the captcha hands out

\* What the public settings say of the captcha.
Config == [key : BOOLEAN, required : BOOLEAN]

\* Without a captcha in the settings of the page they are asked for once.
Init ==
  \E k, q \in BOOLEAN :
    /\ ui = [page |-> "contact", busy |-> {}, filled |-> FALSE, key |-> k, required |-> q,
             visible |-> FALSE, pending |-> FALSE, token |-> 0, minted |-> 0, status |-> None]
    /\ IF k /\ q THEN net = {} ELSE \E c \in Config : net = Ask({}, "settings", c)

FetchedSettings(r, out) ==
  /\ Settle(r, "settings")
  /\ ui' = IF out = "success"
           THEN [ui EXCEPT !.key = @ \/ r.arg.key, !.required = @ \/ r.arg.required]
           ELSE ui

needsCaptcha == ui.required /\ ui.key

Fields == Ready("contact") /\ ui' = [ui EXCEPT !.filled = ~@] /\ UNCHANGED net

\* submitContact: one at a time, and only with every required field.
submitContact(u, token) ==
  IF "contact" \in u.busy THEN ui' = u /\ UNCHANGED net
  ELSE IF ~u.filled
  THEN /\ ui' = [u EXCEPT !.status = "error", !.visible = FALSE, !.pending = FALSE]
       /\ UNCHANGED net
  ELSE /\ Send("contact", [token |-> token])
       /\ ui' = [u EXCEPT !.busy = @ \cup {"contact"}, !.pending = FALSE, !.status = None]

handleSubmit ==
  /\ Ready("contact")
  /\ IF ~ui.filled THEN ui' = [ui EXCEPT !.status = "error"] /\ UNCHANGED net
     ELSE IF needsCaptcha /\ ui.token = 0
     THEN /\ ui' = [ui EXCEPT !.pending = TRUE, !.visible = TRUE, !.status = None]
          /\ UNCHANGED net
     ELSE submitContact(ui, ui.token)

\* The widget, while it is shown, hands out a token or lets it expire.
Widget == needsCaptcha /\ ui.visible

handleTurnstileToken ==
  /\ Widget
  /\ \/ /\ ui.minted < MaxToken
        /\ LET u == [ui EXCEPT !.minted = @ + 1, !.token = ui.minted + 1]
           IN IF ui.pending THEN submitContact(u, u.token) ELSE ui' = u /\ UNCHANGED net
     \/ ui.token # 0 /\ ui' = [ui EXCEPT !.token = 0] /\ UNCHANGED net

\* A captcha error asks for another token; without the site key the settings
\* are fetched first, and the form goes on sending until they are there.
Recovered(u) == [u EXCEPT !.visible = TRUE, !.pending = TRUE, !.busy = @ \ {"contact"}]

recoverCaptchaChallenge(r) ==
  LET u == [ui EXCEPT !.token = 0, !.required = TRUE, !.status = "error"]
  IN IF ui.key THEN net' = net \ {r} /\ ui' = Recovered(u)
     ELSE ui' = u /\ \E c \in Config : net' = Ask(net \ {r}, "config", c)

ConfigFetched(r, out) ==
  /\ Settle(r, "config")
  /\ LET key == out = "success" /\ r.arg.key
     IN ui' = IF key THEN Recovered([ui EXCEPT !.key = TRUE])
              ELSE [Freed("contact") EXCEPT !.visible = FALSE, !.pending = FALSE]

\* A message that was sent empties the form; every outcome but a captcha error
\* drops the token.
Sent(r, out) ==
  /\ r.to = "contact"
  /\ LET done == [Freed("contact") EXCEPT !.token = 0, !.visible = FALSE]
     IN IF out = "success"
        THEN net' = net \ {r} /\ ui' = [done EXCEPT !.status = "success", !.filled = FALSE]
        ELSE \/ recoverCaptchaChallenge(r)
             \/ net' = net \ {r} /\ ui' = [done EXCEPT !.status = "error"]

Click == Fields \/ handleSubmit \/ handleTurnstileToken

Answer(r, out) == FetchedSettings(r, out) \/ ConfigFetched(r, out) \/ Sent(r, out)
=============================================================================
