------------------------------ MODULE Realtime ------------------------------
(***************************************************************************)
(* One tab of the browser and its WebSocket (hooks/use-socket.ts, mounted  *)
(* by components/layout/app-shell.tsx), over the session it shares with    *)
(* other tabs.  The socket is wanted on the routes of the application; to  *)
(* connect, the tab asks for a token and opens a socket with it, and tries *)
(* again after every failure.  Delays only say when, and are left out.     *)
(***************************************************************************)
EXTENDS Session

CONSTANTS
  Sockets,    \* the sockets of the tab that are not closed for good
  MaxFaults   \* bound: failures of requests and sockets

ASSUME RealtimeAssumption == Sockets \subseteq Nat \ {0} /\ MaxFaults \in Nat

VARIABLES
  enabled,    \* the route is one of the application (enabledRef)
  token,      \* the token request: none, or how far it is (isConnectingRef)
  timer,      \* reconnectTimeoutRef
  connected,  \* isConnected
  socks,      \* what each socket is: "lost" until its onclose has run
  ref,        \* socketRef, 0 for null
  refused,    \* a token was refused since the socket was enabled
  faults      \* the failures so far

socket == <<enabled, token, timer, connected, socks, ref, refused, faults>>
vars == <<jar, calls, socket>>

TokenState == {"none", "asked", "granted", "denied"}
SocketState == {"connecting", "open", "lost", "closed"}

Init ==
  /\ SessionInit
  /\ enabled = FALSE /\ token = "none" /\ timer = FALSE /\ connected = FALSE
  /\ socks = [i \in Sockets |-> "closed"] /\ ref = 0
  /\ refused = FALSE /\ faults = 0

\* connect: unless a token is being fetched or there is a socket that is open
\* or about to be.
Busy == token # "none" \/ (ref # 0 /\ socks[ref] \in {"connecting", "open"})

\* Mutant: not while the timer of a reconnection runs either.
connectUnlessScheduled == IF Busy \/ timer THEN UNCHANGED token ELSE token' = "asked"

connect == IF Busy THEN UNCHANGED token ELSE token' = "asked"

\* The cleanup of the effect: the timer is cleared, the socket closed with its
\* onclose taken away.  Mutants: the socket is forgotten without closing it; the
\* indicator is left on.
socksForgotten == socks
socksClosed == [i \in Sockets |-> IF i = ref THEN "closed" ELSE socks[i]]

CleanupShown ==
  /\ timer' = FALSE /\ ref' = 0 /\ socks' = socksClosed
  /\ UNCHANGED connected

Cleanup ==
  /\ timer' = FALSE /\ connected' = FALSE /\ ref' = 0
  /\ socks' = socksClosed

\* The effect runs with enabled set.
Enable ==
  /\ enabled' = TRUE /\ refused' = FALSE
  /\ connect
  /\ UNCHANGED <<timer, connected, socks, ref, faults>>

\* A route of the application is shown to who has a session only; the layout
\* mounts the sidebar, which asks who the user is.
EnterApp ==
  /\ ~enabled /\ jar.auth # None
  /\ Enable
  /\ Request("me", None, "here")
  /\ UNCHANGED jar

LeaveApp ==
  /\ enabled
  /\ enabled' = FALSE /\ Cleanup
  /\ UNCHANGED <<token, refused, faults, session>>

\* A full load of the page: nothing of the tab survives.
Reloaded ==
  /\ enabled' = FALSE /\ token' = "none" /\ refused' = FALSE /\ Cleanup
  /\ UNCHANGED faults

Reload == Reloaded /\ UNCHANGED session

-----------------------------------------------------------------------------

\* scheduleReconnect: not while disabled.  Mutant: a failed token request is
\* not followed by another.
scheduleNothing == UNCHANGED timer
scheduleReconnect == timer' = (timer \/ enabled)

\* GET auth/ws-token: a token for who has a session, 401 for who has none.
TokenServed ==
  /\ token = "asked"
  /\ token' = IF jar.auth # None THEN "granted" ELSE "denied"
  /\ UNCHANGED <<enabled, timer, connected, socks, ref, refused, faults, session>>

TokenFailed ==
  /\ token # "none" /\ faults < MaxFaults
  /\ token' = "none" /\ faults' = faults + 1
  /\ scheduleReconnect
  /\ UNCHANGED <<enabled, connected, socks, ref, refused, session>>

\* The answer comes too late when the socket is no longer wanted.
TokenTooLate ==
  /\ token \in {"granted", "denied"} /\ ~enabled
  /\ token' = "none"
  /\ UNCHANGED <<enabled, timer, connected, socks, ref, refused, faults, session>>

\* Without a session there is no socket, and no further try.
TokenDenied ==
  /\ token = "denied" /\ enabled
  /\ token' = "none" /\ connected' = FALSE /\ refused' = TRUE
  /\ UNCHANGED <<enabled, timer, socks, ref, faults, session>>

\* The socket takes the first name that is free.
OpenSocket(i) ==
  /\ token = "granted" /\ enabled /\ socks[i] = "closed"
  /\ \A j \in Sockets : socks[j] = "closed" => i <= j
  /\ token' = "none"
  /\ socks' = [socks EXCEPT ![i] = "connecting"] /\ ref' = i
  /\ UNCHANGED <<enabled, timer, connected, refused, faults, session>>

\* onopen.
SocketOpened(i) ==
  /\ socks[i] = "connecting"
  /\ socks' = [socks EXCEPT ![i] = "open"]
  /\ connected' = TRUE /\ timer' = FALSE
  /\ UNCHANGED <<enabled, token, ref, refused, faults, session>>

\* The network, the server, or onerror closes the socket ...
SocketLost(i) ==
  /\ socks[i] \in {"connecting", "open"} /\ faults < MaxFaults
  /\ socks' = [socks EXCEPT ![i] = "lost"] /\ faults' = faults + 1
  /\ UNCHANGED <<enabled, token, timer, connected, ref, refused, session>>

\* ... and onclose runs.  Mutant: it leaves the indicator alone.
indicatorStays == connected
indicatorOff == FALSE

SocketClosed(i) ==
  /\ socks[i] = "lost"
  /\ socks' = [socks EXCEPT ![i] = "closed"]
  /\ connected' = indicatorOff
  /\ ref' = IF ref = i THEN 0 ELSE ref
  /\ scheduleReconnect
  /\ UNCHANGED <<enabled, token, refused, faults, session>>

TimerFires ==
  /\ timer
  /\ timer' = FALSE
  /\ connect
  /\ UNCHANGED <<enabled, connected, socks, ref, refused, faults, session>>

-----------------------------------------------------------------------------

\* What this tab asks of the session.
SubmitLogin ==
  ~enabled /\ (\E who \in Users : Request("login", who, "here")) /\ UNCHANGED <<jar, socket>>

ConfirmLoginAs ==
  /\ enabled /\ \E who \in Customers : Request("impersonate", who, "here")
  /\ UNCHANGED <<jar, socket>>

handleLogout == Request("logout", None, "here") /\ UNCHANGED <<jar, socket>>

ClickLogout == enabled /\ handleLogout

\* Who logs in is then taken to the application by the router (EnterApp); a
\* log-out and an impersonation load a page.
Here(c) == c \in calls /\ c.tab = "here"

LoginAnswered(c) == Here(c) /\ LoggedIn(c) /\ UNCHANGED socket

LeftByAnswer(c) == Here(c) /\ (LoggedOut(c) \/ Impersonated(c)) /\ Reloaded

\* A log-out loads the page even when its answer is lost.
AuthRefused(c) ==
  Here(c) /\ Refused(c) /\ (IF c.to = "logout" THEN Reloaded ELSE UNCHANGED socket)

\* GET auth/me: served, failed or lost, the tab stays; refused for want of a
\* session, or with a key the API does not know any more, it logs out.
\* Mutant: the request that was refused counts as one in flight still.
MeAnswered(c) == Here(c) /\ c.to = "me" /\ Received(c) /\ UNCHANGED <<jar, socket>>

MeRefusedOpen(c) ==
  /\ Here(c) /\ c.to = "me" /\ (c.sent.auth = None \/ c.sent.key # None)
  /\ calls' = calls \cup {Call("logout", None, "here")}
  /\ UNCHANGED <<jar, socket>>

MeRefused(c) ==
  /\ Here(c) /\ c.to = "me" /\ (c.sent.auth = None \/ c.sent.key # None)
  /\ calls' = (calls \ {c}) \cup {Call("logout", None, "here")}
  /\ UNCHANGED <<jar, socket>>

SessionStep ==
  \/ SubmitLogin \/ ConfirmLoginAs \/ ClickLogout
  \/ \E c \in calls :
       \/ LoginAnswered(c) \/ LeftByAnswer(c) \/ AuthRefused(c)
       \/ MeAnswered(c) \/ MeRefused(c)
  \/ (SessionExpires \/ ImpersonationExpires \/ OtherTab) /\ UNCHANGED socket

Token == TokenServed \/ TokenFailed \/ TokenTooLate \/ TokenDenied

OnSocket(i) == OpenSocket(i) \/ SocketOpened(i) \/ SocketLost(i) \/ SocketClosed(i)

Next ==
  \/ EnterApp \/ LeaveApp \/ Reload \/ Token \/ TimerFires
  \/ \E i \in Sockets : OnSocket(i)
  \/ SessionStep

\* The browser runs its timers and delivers its events, a token request is
\* answered, and a socket that is not lost opens.
Fairness ==
  /\ WF_vars(TokenServed) /\ WF_vars(TokenTooLate) /\ WF_vars(TokenDenied)
  /\ WF_vars(TimerFires)
  /\ \A i \in Sockets :
       WF_vars(OpenSocket(i)) /\ WF_vars(SocketOpened(i)) /\ WF_vars(SocketClosed(i))

Spec == Init /\ [][Next]_vars
FairSpec == Spec /\ Fairness

-----------------------------------------------------------------------------

\* The types, and the bound on requests in flight.
TypeOK ==
  /\ jar \in Cookies /\ calls \subseteq Calls /\ Cardinality(calls) <= MaxAuth
  /\ enabled \in BOOLEAN /\ timer \in BOOLEAN /\ connected \in BOOLEAN
  /\ refused \in BOOLEAN
  /\ token \in TokenState
  /\ socks \in [Sockets -> SocketState]
  /\ ref \in Sockets \cup {0}
  /\ faults \in 0 .. MaxFaults

\* The tab never leaves a socket behind: whatever the routes, the timers and
\* late tokens do, the only socket not closed for good is the one socketRef
\* holds.  A second one would deliver every message twice.
AtMostOneSocket == \A i \in Sockets : socks[i] # "closed" => ref = i

\* The indicator says "connected" only for a socket that is open, or whose
\* loss the browser has not reported yet, and only where one is wanted.
ConnectedMeansOpen ==
  connected => enabled /\ ref # 0 /\ socks[ref] \in {"open", "lost"}

\* The retry loop never runs dry: a tab that wants a socket has one, or a
\* token on its way, or a timer set, unless the server said that there is no
\* session.
OnlyRefusalEndsRetries == enabled => token # "none" \/ timer \/ ref # 0 \/ refused

\* Once failures stop, a tab on a route of the application is connected, or
\* leaves, or is told that it has no session.
Reconnects == enabled ~> connected \/ ~enabled \/ refused

\* What the tab does, seen as a link.
linkState ==
  IF ~enabled THEN "off"
  ELSE IF ref # 0 /\ socks[ref] = "open" THEN "up"
  ELSE IF connected THEN "lost" ELSE "down"

LiveLink == INSTANCE Link WITH link <- linkState, shown <- connected

\* The socket and its retries are a link as Link describes it.
ImplementsLink == LiveLink!LinkSpec
=============================================================================
