---------------------------- MODULE AccountPages ----------------------------
(***************************************************************************)
(* Signing up, signing in and a forgotten password, for one address: the   *)
(* forms of features/auth and the pages of app/(auth).  A page a user      *)
(* leaves is unmounted: what its requests would change there is lost, but  *)
(* a success that navigates still does.                                   *)
(***************************************************************************)
EXTENDS Page

CONSTANT MaxCode   \* bound: the one-time codes issued

Route == {"login", "register", "verify-email", "forgot-password", "reset-password"}
Coded == {"verify-email", "reset-password"}

\* The submit button of a route, and "Resend code" of a coded one.
Resend(route) == IF route = "verify-email" THEN "resend-verification" ELSE "resend-reset"

\* srv is what the server holds: the state of the account, the code of each
\* purpose that is good (0: none), the codes issued, the password changes.
\* waits says that the address must be verified; cool that a code was sent in
\* the last minute.
Init ==
  \E account \in {"none", "pending", "active"}, waits \in BOOLEAN :
    /\ ui = [page |-> "account", busy |-> {}, at |-> "login", cooldown |-> FALSE,
             done |-> FALSE, notice |-> FALSE,
             srv |-> [account |-> account, waits |-> waits, issued |-> 0, changes |-> 0,
                      code |-> [p \in Coded |-> 0], cool |-> [p \in Coded |-> FALSE]]]
    /\ net = {}

\* router.push, or a link: another page is mounted afresh, and the requests of
\* the one that is gone belong to nothing; the same page only has its notice.
Mounted(u, route, notice) ==
  IF route = u.at THEN [u EXCEPT !.notice = notice]
  ELSE [u EXCEPT !.at = route, !.busy = {}, !.done = FALSE, !.notice = notice,
                 !.cooldown = route \in Coded]

Orphaned(calls) ==
  {IF ~r.arg.own THEN r
   ELSE LET arg == [r.arg EXCEPT !.own = FALSE]
        IN [r EXCEPT !.arg = arg, !.id = Free(calls \ {r}, r.to, arg)] : r \in calls}

GoTo(route, notice, calls) ==
  /\ ui' = Mounted(ui, route, notice)
  /\ net' = IF route = ui.at THEN calls ELSE Orphaned(calls)

Links(at) == IF at = "login" THEN {"register", "forgot-password"} ELSE {"login"}

\* After a verification the link is the button of the confirmation.
FollowLink(route) ==
  route \in Links(ui.at) /\ GoTo(route, ui.done /\ ui.at = "verify-email", net)

\* IssueOTP: a new code takes the place of the one before.
Issued(srv, p) ==
  [srv EXCEPT !.issued = @ + 1, !.code[p] = srv.issued + 1, !.cool[p] = TRUE]

\* A minute on the server and one in the browser, which starts when the page
\* is mounted and when the answer to a resend arrives.
ServerMinute(p) == ui.srv.cool[p] /\ ui' = [ui EXCEPT !.srv.cool[p] = FALSE] /\ UNCHANGED net

CountedDown == ui.cooldown /\ ui' = [ui EXCEPT !.cooldown = FALSE] /\ UNCHANGED net

\* A request whose effect on the server is the new "srv"; ok is the answer.
Call(to, ok, next, srv) ==
  /\ srv.issued <= MaxCode /\ srv.changes <= MaxCode
  /\ Send(to, [own |-> TRUE, ok |-> ok, next |-> next])
  /\ ui' = [ui EXCEPT !.busy = @ \cup {to}, !.notice = FALSE, !.srv = srv]

\* The forms: inputs and the submit button are disabled while one runs.
Form(route) == ui.at = route /\ ~ui.done /\ Ready(route)

LoginForm ==
  /\ Form("login")
  /\ \E right \in BOOLEAN :
       Call("login", right /\ ui.srv.account = "active", "dashboard", ui.srv)

RegisterForm ==
  /\ Form("register")
  /\ LET new == ui.srv.account = "none"
         made == [ui.srv EXCEPT !.account = IF ui.srv.waits THEN "pending" ELSE "active"]
     IN \/ /\ new
           /\ Call("register", TRUE, IF ui.srv.waits THEN "verify-email" ELSE "login",
                   IF ui.srv.waits THEN Issued(made, "verify-email") ELSE made)
        \/ Call("register", FALSE, "login", ui.srv)

\* The answer does not say whether there is such an account, nor whether a
\* code was sent.
ForgotPassword ==
  /\ Form("forgot-password")
  /\ LET send == ui.srv.account # "none" /\ ~ui.srv.cool["reset-password"]
     IN Call("forgot-password", TRUE, "reset-password",
             IF send THEN Issued(ui.srv, "reset-password") ELSE ui.srv)

\* A code is used once.  An account that is active is verified with any code.
VerifyEmail(code) ==
  /\ Form("verify-email")
  /\ LET good == code # 0 /\ code = ui.srv.code["verify-email"]
         active == ui.srv.account = "active"
     IN Call("verify-email", active \/ good, "",
             IF good /\ ~active
             THEN [ui.srv EXCEPT !.account = "active", !.code["verify-email"] = 0]
             ELSE ui.srv)

ResetPassword(code) ==
  /\ Form("reset-password")
  /\ LET good == code # 0 /\ code = ui.srv.code["reset-password"]
     IN Call("reset-password", good, "",
             IF good THEN [ui.srv EXCEPT !.changes = @ + 1, !.code["reset-password"] = 0]
             ELSE ui.srv)

\* onResend: not during the browser's minute, nor while one runs.
onResend ==
  /\ ui.at \in Coded /\ ~ui.done /\ ~ui.cooldown /\ Ready(Resend(ui.at))
  /\ LET silent == \/ ui.srv.account = "none"
                   \/ ui.at = "verify-email" /\ ui.srv.account = "active"
         send == ~silent /\ ~ui.srv.cool[ui.at]
     IN Call(Resend(ui.at), silent \/ send, "",
             IF send THEN Issued(ui.srv, ui.at) ELSE ui.srv)

\* A call fails on its way, before or after the server acted, or says what
\* the server made of it.
Honest(r, out) == out # "thrown" => (out = "success" <=> r.arg.ok)

\* Login, registration and "forgot" go on to the next page, whatever page the
\* user has gone to meanwhile.
Pushed(r, out) ==
  /\ r.to \in {"login", "register", "forgot-password"} /\ Honest(r, out)
  /\ IF out = "success" /\ r.arg.next = "dashboard" THEN Leave
     ELSE IF out = "success"
     THEN GoTo(r.arg.next, r.arg.next = "login", net \ {r})
     ELSE net' = net \ {r} /\ ui' = IF r.arg.own THEN Freed(r.to) ELSE ui

\* A verified address and a changed password replace the form.
\* Mutant: the answer is taken for one of the page that is shown.
ConfirmedAnywhere(r, out) ==
  /\ r.to \in Coded /\ Honest(r, out)
  /\ net' = net \ {r}
  /\ ui' = IF out = "success" THEN [Freed(r.to) EXCEPT !.done = TRUE] ELSE Freed(r.to)

Confirmed(r, out) ==
  /\ r.to \in Coded /\ Honest(r, out)
  /\ net' = net \ {r}
  /\ ui' = IF ~r.arg.own THEN ui
           ELSE IF out = "success" THEN [Freed(r.to) EXCEPT !.done = TRUE] ELSE Freed(r.to)

\* A resend that was sent, or refused for coming too soon, starts the minute.
Resent(r, out) ==
  /\ r.to \in {Resend(p) : p \in Coded} /\ Honest(r, out)
  /\ net' = net \ {r}
  /\ ui' = IF ~r.arg.own THEN ui
           ELSE [Freed(r.to) EXCEPT !.cooldown = @ \/ out # "thrown"]

Click ==
  \/ \E route \in Route : FollowLink(route)
  \/ \E p \in Coded : ServerMinute(p)
  \/ CountedDown \/ LoginForm \/ RegisterForm \/ ForgotPassword \/ onResend
  \/ \E code \in 0 .. MaxCode : VerifyEmail(code) \/ ResetPassword(code)

Answer(r, out) == Pushed(r, out) \/ Confirmed(r, out) \/ Resent(r, out)
=============================================================================
