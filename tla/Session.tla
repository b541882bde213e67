------------------------------ MODULE Session ------------------------------
(***************************************************************************)
(* The session of a browser: the cookies that the route handlers under     *)
(* app/next-api/auth set, for all its tabs.  A handler works on the cookies *)
(* its request carried, and its answer sets several at once; the answers of *)
(* two tabs arrive in any order.  A token or an API key is known by the    *)
(* user it was issued to.                                                 *)
(***************************************************************************)
EXTENDS Naturals, FiniteSets

CONSTANTS
  Admins,     \* users of role "admin"
  Customers,  \* all other users
  MaxAuth     \* bound: authentication requests in flight

None == "none"
Users == Admins \cup Customers

ASSUME UsersAssumption ==
  None \notin Users /\ Admins \cap Customers = {} /\ MaxAuth \in Nat

Tabs == {"here", "there"}

VARIABLES
  jar,   \* the cookies: auth_token, user_api_key (short: it is one of an
         \* impersonation and lives twenty minutes), and the token and the key
         \* of the administrator who impersonates
  calls  \* requests in flight, each with the cookies it carried

session == <<jar, calls>>

Cookies ==
  [auth : Users \cup {None}, key : Users \cup {None}, short : BOOLEAN,
   imp : Users \cup {None}, impKey : Users \cup {None}]

NoCookies == [auth |-> None, key |-> None, short |-> FALSE, imp |-> None, impKey |-> None]

Calls ==
  [to : {"login", "impersonate", "logout", "me"}, who : Users \cup {None}, tab : Tabs,
   sent : Cookies]

SessionInit == jar = NoCookies /\ calls = {}

\* A request with the cookies of the moment; a login reads none of them.
Call(to, who, tab) ==
  [to |-> to, who |-> who, tab |-> tab, sent |-> IF to = "login" THEN NoCookies ELSE jar]

Request(to, who, tab) ==
  /\ Cardinality(calls) < MaxAuth
  /\ calls' = calls \cup {Call(to, who, tab)}

Received(c) == calls' = calls \ {c}

\* authorizeUser, with an API key.
authorizeUser(cookies, who, short) ==
  [cookies EXCEPT !.auth = who, !.key = who, !.short = short]

\* POST auth/login, accepted by the API.
LoggedIn(c) ==
  c.to = "login" /\ Received(c) /\ jar' = authorizeUser(jar, c.who, FALSE)

\* POST auth/impersonate: for an administrator with a key, on behalf of a
\* customer.  The administrator's own cookies are put aside unless some are.
Impersonated(c) ==
  /\ c.to = "impersonate" /\ Received(c)
  /\ c.sent.auth \in Admins /\ c.sent.key \in Admins /\ c.who \in Customers
  /\ LET target == authorizeUser(jar, c.who, TRUE)
     IN jar' = [target EXCEPT !.imp = IF c.sent.imp = None THEN c.sent.auth ELSE @,
                              !.impKey = IF c.sent.impKey = None THEN c.sent.key ELSE @]

\* POST auth/logout: back to the administrator, or out.  Mutant: the key of
\* the administrator is not put back.
RestoredToken(c) == [jar EXCEPT !.auth = c.sent.imp, !.imp = None, !.impKey = None]

Restored(c) ==
  [NoCookies EXCEPT !.auth = c.sent.imp, !.key = c.sent.impKey]

LoggedOut(c) ==
  /\ c.to = "logout" /\ Received(c)
  /\ jar' = IF c.sent.imp # None THEN Restored(c) ELSE NoCookies

\* A refusal, or an answer that is lost with its cookies.
Refused(c) == c.to # "me" /\ Received(c) /\ UNCHANGED jar

\* The token expires, and the key of the session with it unless the key was
\* put back after an impersonation; the cookies of an impersonation expire
\* earlier.
SessionExpires ==
  /\ jar.auth # None
  /\ \E key \in {jar.key, None} : jar' = [jar EXCEPT !.auth = None, !.key = key]
  /\ UNCHANGED calls

ImpersonationExpires ==
  /\ jar.imp # None \/ jar.short
  /\ jar' = [jar EXCEPT !.key = IF jar.short THEN None ELSE @, !.short = FALSE,
                        !.imp = None, !.impKey = None]
  /\ UNCHANGED calls

\* What another tab of the browser does.
OtherTab ==
  \/ /\ \/ \E who \in Users : Request("login", who, "there")
        \/ \E who \in Customers : Request("impersonate", who, "there")
        \/ Request("logout", None, "there")
     /\ UNCHANGED jar
  \/ \E c \in calls :
       c.tab = "there" /\ (LoggedIn(c) \/ Impersonated(c) \/ LoggedOut(c) \/ Refused(c))

\* The key in the jar is one of the user the token names, whatever the tabs
\* did in between, so that the pages (which show the token's user) and the API
\* (which sees the key's) agree; and so are the ones put aside.
KeyMatchesToken ==
  /\ jar.auth # None /\ jar.key # None => jar.key = jar.auth
  /\ jar.imp # None /\ jar.impKey # None => jar.impKey = jar.imp
=============================================================================
