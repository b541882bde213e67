--------------------------- MODULE RealtimeProofs ---------------------------
(***************************************************************************)
(* The safety properties of Realtime for any users, sockets and bounds,    *)
(* and that the tab implements Link.  The invariant of the cookies and the *)
(* invariant of the socket are independent: no step of one needs the other.*)
(***************************************************************************)
EXTENDS Realtime, FiniteSetTheorems, TLAPS

-----------------------------------------------------------------------------
(* The cookies *)

\* The key and the token are of one user, the two put aside are of one user,
\* and those two are put aside together.
Consistent(k) ==
  /\ k.auth # None /\ k.key # None => k.key = k.auth
  /\ k.imp = k.impKey

SessionInv ==
  /\ jar \in Cookies /\ calls \subseteq Calls
  /\ IsFiniteSet(calls) /\ Cardinality(calls) <= MaxAuth
  /\ Consistent(jar)
  /\ \A c \in calls : Consistent(c.sent)

SessionType == jar \in Cookies /\ calls \subseteq Calls /\ Cardinality(calls) <= MaxAuth

\* Answered, a request leaves the set of those in flight.
LEMMA ReceivedKeeps ==
  ASSUME SessionInv, NEW c \in calls, Received(c), jar' \in Cookies, Consistent(jar')
  PROVE  SessionInv'
<1>1. calls' \subseteq calls /\ IsFiniteSet(calls') /\ Cardinality(calls') <= Cardinality(calls)
  <2>1. calls' = calls \ {c} BY DEF Received
  <2>2. IsFiniteSet(calls) BY DEF SessionInv
  <2>3. IsFiniteSet(calls') BY <2>1, <2>2, FS_RemoveElement
  <2>4. Cardinality(calls') = Cardinality(calls) - 1 BY <2>1, <2>2, FS_RemoveElement
  <2>5. Cardinality(calls) \in Nat BY <2>2, FS_CardinalityType
  <2> QED BY <2>1, <2>3, <2>4, <2>5
<1>2. Cardinality(calls) \in Nat /\ Cardinality(calls') \in Nat /\ MaxAuth \in Nat
  BY <1>1, FS_CardinalityType, UsersAssumption DEF SessionInv
<1>3. Cardinality(calls') <= MaxAuth BY <1>1, <1>2 DEF SessionInv
<1> QED BY <1>1, <1>3 DEF SessionInv

\* A new request carries the cookies of the jar, or none.
LEMMA CallIsOne ==
  ASSUME SessionInv, NEW to \in {"login", "impersonate", "logout", "me"},
         NEW who \in Users \cup {None}, NEW tab \in Tabs
  PROVE  Call(to, who, tab) \in Calls /\ Consistent(Call(to, who, tab).sent)
<1>1. NoCookies \in Cookies /\ Consistent(NoCookies)
  BY DEF NoCookies, Cookies, Consistent
<1>2. jar \in Cookies /\ Consistent(jar) BY DEF SessionInv
<1>3. Call(to, who, tab).sent \in Cookies /\ Consistent(Call(to, who, tab).sent)
  BY <1>1, <1>2 DEF Call
<1> QED BY <1>1, <1>2, <1>3 DEF Call, Calls

LEMMA RequestKeeps ==
  ASSUME SessionInv, NEW to \in {"login", "impersonate", "logout", "me"},
         NEW who \in Users \cup {None}, NEW tab \in Tabs,
         Request(to, who, tab), UNCHANGED jar
  PROVE  SessionInv'
<1> DEFINE new == Call(to, who, tab)
<1>1. new \in Calls /\ Consistent(new.sent) BY CallIsOne
<1>2. calls' = calls \cup {new} /\ Cardinality(calls) < MaxAuth BY DEF Request
<1>3. IsFiniteSet(calls) /\ Cardinality(calls) \in Nat BY FS_CardinalityType DEF SessionInv
<1> HIDE DEF new
<1>4. IsFiniteSet(calls') BY <1>2, <1>3, FS_AddElement
<1>5. Cardinality(calls') <= Cardinality(calls) + 1
  BY <1>2, <1>3, FS_AddElement
<1>6. Cardinality(calls') \in Nat BY <1>4, FS_CardinalityType
<1>7. Cardinality(calls') <= MaxAuth BY <1>2, <1>3, <1>5, <1>6, UsersAssumption
<1>8. calls' \subseteq Calls /\ \A c \in calls' : Consistent(c.sent)
  BY <1>1, <1>2 DEF SessionInv
<1>9. jar' \in Cookies /\ Consistent(jar')
  BY DEF SessionInv, Consistent
<1> QED BY <1>4, <1>7, <1>8, <1>9 DEF SessionInv

\* An answer of the session's handlers, to this tab or another.
LEMMA LoggedInKeeps ==
  ASSUME SessionInv, NEW c \in calls, LoggedIn(c) PROVE SessionInv'
<1>1. c \in Calls /\ jar \in Cookies /\ Consistent(jar) BY DEF SessionInv
<1>2. jar' = [jar EXCEPT !.auth = c.who, !.key = c.who, !.short = FALSE] /\ Received(c)
  BY DEF LoggedIn, authorizeUser
<1>3. c.who \in Users \cup {None} BY <1>1 DEF Calls
<1>4. jar' \in Cookies /\ Consistent(jar') BY <1>1, <1>2, <1>3 DEF Cookies, Consistent
<1> QED BY <1>2, <1>4, ReceivedKeeps

LEMMA ImpersonatedKeeps ==
  ASSUME SessionInv, NEW c \in calls, Impersonated(c) PROVE SessionInv'
<1> DEFINE target == [jar EXCEPT !.auth = c.who, !.key = c.who, !.short = TRUE]
           imp == IF c.sent.imp = None THEN c.sent.auth ELSE jar.imp
           impKey == IF c.sent.impKey = None THEN c.sent.key ELSE jar.impKey
<1>1. /\ c \in Calls /\ Consistent(c.sent)
      /\ jar \in Cookies /\ Consistent(jar)
  BY DEF SessionInv
<1>2. Received(c) /\ c.sent.auth \in Admins /\ c.sent.key \in Admins BY DEF Impersonated
<1>3. c.who \in Users \cup {None} /\ c.sent \in Cookies BY <1>1 DEF Calls
<1>4. target \in Cookies /\ target.imp = jar.imp /\ target.impKey = jar.impKey
      /\ target.auth = target.key
  BY <1>1, <1>3 DEF Cookies
<1>5. jar' = [target EXCEPT !.imp = IF c.sent.imp = None THEN c.sent.auth ELSE @,
                            !.impKey = IF c.sent.impKey = None THEN c.sent.key ELSE @]
  BY DEF Impersonated, authorizeUser
<1>6. None \notin Admins /\ Admins \subseteq Users BY UsersAssumption DEF Users
<1>7. c.sent.auth = c.sent.key /\ c.sent.imp = c.sent.impKey
  BY <1>1, <1>2, <1>6 DEF Consistent
<1>8. imp \in Users \cup {None} /\ impKey \in Users \cup {None} /\ imp = impKey
  BY <1>1, <1>2, <1>6, <1>7 DEF Cookies, Consistent
<1> HIDE DEF target, imp, impKey
<1>9. jar' = [target EXCEPT !.imp = imp, !.impKey = impKey]
  BY <1>4, <1>5 DEF Cookies, imp, impKey
<1>10. jar' \in Cookies /\ Consistent(jar') BY <1>4, <1>8, <1>9 DEF Cookies, Consistent
<1> QED BY <1>2, <1>10, ReceivedKeeps

LEMMA LoggedOutKeeps ==
  ASSUME SessionInv, NEW c \in calls, LoggedOut(c) PROVE SessionInv'
<1>1. c \in Calls /\ Consistent(c.sent) BY DEF SessionInv
<1>2. c.sent \in Cookies BY <1>1 DEF Calls
<1>3. NoCookies \in Cookies /\ Consistent(NoCookies) BY DEF NoCookies, Cookies, Consistent
<1>4. Restored(c) \in Cookies /\ Consistent(Restored(c))
  BY <1>1, <1>2 DEF Restored, NoCookies, Cookies, Consistent
<1>5. jar' \in Cookies /\ Consistent(jar') BY <1>3, <1>4 DEF LoggedOut
<1> QED BY <1>5, ReceivedKeeps DEF LoggedOut

LEMMA RefusedKeeps ==
  ASSUME SessionInv, NEW c \in calls, Received(c), UNCHANGED jar PROVE SessionInv'
<1>1. jar' \in Cookies /\ Consistent(jar') BY DEF SessionInv, Consistent
<1> QED BY <1>1, ReceivedKeeps

\* The log-out that a refused /auth/me causes takes its place.
LEMMA MeRefusedKeeps ==
  ASSUME SessionInv, NEW c \in calls, MeRefused(c) PROVE SessionInv'
<1> DEFINE new == Call("logout", None, "here")
           rest == calls \ {c}
<1>1. new \in Calls /\ Consistent(new.sent) BY CallIsOne DEF Tabs
<1>2. calls' = rest \cup {new} /\ jar' = jar BY DEF MeRefused
<1>3. IsFiniteSet(calls) /\ Cardinality(calls) \in Nat BY FS_CardinalityType DEF SessionInv
<1>4. IsFiniteSet(rest) /\ Cardinality(rest) = Cardinality(calls) - 1
  BY <1>3, FS_RemoveElement
<1>5. IsFiniteSet(calls') /\ Cardinality(calls') <= Cardinality(calls)
  <2> HIDE DEF new, rest
  <2>1. /\ IsFiniteSet(rest \cup {new})
        /\ Cardinality(rest \cup {new})
             = IF new \in rest THEN Cardinality(rest) ELSE Cardinality(rest) + 1
    BY <1>4, FS_AddElement
  <2> QED BY <1>2, <1>3, <1>4, <2>1
<1>6. Cardinality(calls') \in Nat BY <1>5, FS_CardinalityType
<1>7. Cardinality(calls') <= MaxAuth BY <1>3, <1>5, <1>6, UsersAssumption DEF SessionInv
<1> HIDE DEF new
<1>8. calls' \subseteq Calls /\ \A d \in calls' : Consistent(d.sent)
  BY <1>1, <1>2 DEF SessionInv
<1>9. jar' \in Cookies /\ Consistent(jar') BY <1>2 DEF SessionInv, Consistent
<1> QED BY <1>5, <1>7, <1>8, <1>9 DEF SessionInv

LEMMA ExpiryKeeps ==
  ASSUME SessionInv, SessionExpires \/ ImpersonationExpires PROVE SessionInv'
<1>1. jar \in Cookies /\ Consistent(jar) /\ calls' = calls
  BY DEF SessionInv, SessionExpires, ImpersonationExpires
<1>2. ASSUME SessionExpires PROVE jar' \in Cookies /\ Consistent(jar')
  <2>1. PICK key \in {jar.key, None} : jar' = [jar EXCEPT !.auth = None, !.key = key]
    BY <1>2 DEF SessionExpires
  <2> QED BY <1>1, <2>1 DEF Cookies, Consistent
<1>3. ASSUME ImpersonationExpires PROVE jar' \in Cookies /\ Consistent(jar')
  BY <1>1, <1>3 DEF ImpersonationExpires, Cookies, Consistent
<1>4. jar' \in Cookies /\ Consistent(jar') BY <1>2, <1>3
<1> QED BY <1>1, <1>4 DEF SessionInv

\* Every step of the specification, seen from the cookies.
LEMMA SessionNext == ASSUME SessionInv, [Next]_vars PROVE SessionInv'
<1> None \in Users \cup {None} /\ "here" \in Tabs /\ "there" \in Tabs BY DEF Tabs
<1>1. ASSUME UNCHANGED session PROVE SessionInv'
  BY <1>1 DEF session, SessionInv, Consistent
<1>2. CASE UNCHANGED vars BY <1>1, <1>2 DEF vars, session
<1>3. CASE EnterApp BY <1>3, RequestKeeps DEF EnterApp
<1>4. CASE LeaveApp \/ Reload \/ Token \/ TimerFires
  BY <1>1, <1>4
  DEF LeaveApp, Reload, Token, TokenServed, TokenFailed, TokenTooLate, TokenDenied, TimerFires
<1>5. ASSUME NEW i \in Sockets, OnSocket(i) PROVE SessionInv'
  BY <1>1, <1>5 DEF OnSocket, OpenSocket, SocketOpened, SocketLost, SocketClosed
<1>6. CASE SubmitLogin BY <1>6, RequestKeeps DEF SubmitLogin
<1>7. CASE ConfirmLoginAs
  <2>1. PICK who \in Customers : Request("impersonate", who, "here") BY <1>7 DEF ConfirmLoginAs
  <2> QED BY <1>7, <2>1, RequestKeeps DEF ConfirmLoginAs, Users
<1>8. CASE ClickLogout BY <1>8, RequestKeeps DEF ClickLogout, handleLogout
<1>9. ASSUME NEW c \in calls, LoginAnswered(c) \/ LeftByAnswer(c) PROVE SessionInv'
  BY <1>9, LoggedInKeeps, LoggedOutKeeps, ImpersonatedKeeps DEF LoginAnswered, LeftByAnswer
<1>10. ASSUME NEW c \in calls, AuthRefused(c) \/ MeAnswered(c) PROVE SessionInv'
  BY <1>10, RefusedKeeps DEF AuthRefused, Refused, MeAnswered
<1>11. ASSUME NEW c \in calls, MeRefused(c) PROVE SessionInv' BY <1>11, MeRefusedKeeps
<1>12. CASE SessionExpires \/ ImpersonationExpires BY <1>12, ExpiryKeeps
<1>13. CASE OtherTab
  <2>1. ASSUME NEW who \in Users, Request("login", who, "there"), UNCHANGED jar
        PROVE SessionInv'
    BY <2>1, RequestKeeps
  <2>2. ASSUME NEW who \in Customers, Request("impersonate", who, "there"), UNCHANGED jar
        PROVE SessionInv'
    BY <2>2, RequestKeeps DEF Users
  <2>3. ASSUME Request("logout", None, "there"), UNCHANGED jar PROVE SessionInv'
    BY <2>3, RequestKeeps
  <2>4. ASSUME NEW c \in calls, LoggedIn(c) \/ Impersonated(c) \/ LoggedOut(c) \/ Refused(c)
        PROVE SessionInv'
    BY <2>4, LoggedInKeeps, ImpersonatedKeeps, LoggedOutKeeps, RefusedKeeps DEF Refused
  <2> QED BY <1>13, <2>1, <2>2, <2>3, <2>4 DEF OtherTab
<1> QED
  BY <1>2, <1>3, <1>4, <1>5, <1>6, <1>7, <1>8, <1>9, <1>10, <1>11, <1>12, <1>13
  DEF Next, SessionStep

-----------------------------------------------------------------------------
(* The socket *)

SocketType ==
  /\ enabled \in BOOLEAN /\ timer \in BOOLEAN /\ connected \in BOOLEAN
  /\ refused \in BOOLEAN
  /\ token \in TokenState
  /\ socks \in [Sockets -> SocketState]
  /\ ref \in Sockets \cup {0}
  /\ faults \in 0 .. MaxFaults

\* A token is asked for, and a timer set, only while there is no socket, and
\* never both; the indicator follows the socket.
SocketInv ==
  /\ SocketType
  /\ AtMostOneSocket
  /\ OnlyRefusalEndsRetries
  /\ ref # 0 => socks[ref] # "closed"
  /\ ~enabled => ref = 0 /\ ~timer
  /\ timer => ref = 0 /\ token = "none"
  /\ token # "none" => ref = 0
  /\ connected => ref # 0 /\ socks[ref] \in {"open", "lost"}
  /\ ref # 0 /\ socks[ref] = "open" => connected

LEMMA SocketInit == ASSUME Init PROVE SocketInv
<1>1. SocketType
  <2>1. socks \in [Sockets -> SocketState] BY DEF Init, SocketState
  <2>2. faults \in 0 .. MaxFaults BY RealtimeAssumption DEF Init
  <2>3. ref \in Sockets \cup {0} /\ token \in TokenState BY DEF Init, TokenState
  <2>4. enabled \in BOOLEAN /\ timer \in BOOLEAN /\ connected \in BOOLEAN /\ refused \in BOOLEAN
    BY DEF Init
  <2> QED BY <2>1, <2>2, <2>3, <2>4 DEF SocketType
<1>2. AtMostOneSocket BY DEF Init, AtMostOneSocket
<1> QED BY <1>1, <1>2 DEF Init, SocketInv, OnlyRefusalEndsRetries

LEMMA EnterKeeps == ASSUME SocketInv, ~enabled, Enable PROVE SocketInv'
BY DEF SocketInv, SocketType, AtMostOneSocket, OnlyRefusalEndsRetries, TokenState, SocketState,
       Enable, connect, Busy

LEMMA LeaveKeeps == ASSUME SocketInv, LeaveApp \/ Reloaded PROVE SocketInv'
BY DEF SocketInv, SocketType, AtMostOneSocket, OnlyRefusalEndsRetries, TokenState, SocketState,
       LeaveApp, Reloaded, Cleanup, socksClosed

LEMMA TokenKeeps == ASSUME SocketInv, Token PROVE SocketInv'
<1> USE DEF SocketInv, SocketType, AtMostOneSocket, OnlyRefusalEndsRetries, TokenState, SocketState
<1>1. CASE TokenServed BY <1>1 DEF TokenServed
<1>2. CASE TokenFailed BY <1>2, RealtimeAssumption DEF TokenFailed, scheduleReconnect
<1>3. CASE TokenTooLate BY <1>3 DEF TokenTooLate
<1>4. CASE TokenDenied BY <1>4 DEF TokenDenied
<1> QED BY <1>1, <1>2, <1>3, <1>4 DEF Token

LEMMA TimerKeeps == ASSUME SocketInv, TimerFires PROVE SocketInv'
BY DEF SocketInv, SocketType, AtMostOneSocket, OnlyRefusalEndsRetries, TokenState, SocketState,
       TimerFires, connect, Busy

LEMMA OnSocketKeeps == ASSUME SocketInv, NEW i \in Sockets, OnSocket(i) PROVE SocketInv'
<1> USE DEF SocketInv, SocketType, AtMostOneSocket, OnlyRefusalEndsRetries, TokenState, SocketState
<1> i # 0 /\ 0 \notin Sockets BY RealtimeAssumption
<1>1. CASE OpenSocket(i) BY <1>1 DEF OpenSocket
<1>2. CASE SocketOpened(i) BY <1>2 DEF SocketOpened
<1>3. CASE SocketLost(i) BY <1>3, RealtimeAssumption DEF SocketLost
<1>4. CASE SocketClosed(i) BY <1>4 DEF SocketClosed, indicatorOff, scheduleReconnect
<1> QED BY <1>1, <1>2, <1>3, <1>4 DEF OnSocket

\* What a step is to the socket.
SocketStep ==
  \/ ~enabled /\ Enable
  \/ LeaveApp \/ Reloaded \/ Token \/ TimerFires
  \/ \E i \in Sockets : OnSocket(i)
  \/ UNCHANGED socket

LEMMA NextIsSocketStep == ASSUME [Next]_vars PROVE SocketStep
<1>1. CASE UNCHANGED vars BY <1>1 DEF vars, SocketStep
<1>2. CASE SessionStep
  BY <1>2
  DEF SessionStep, SubmitLogin, ConfirmLoginAs, ClickLogout, handleLogout, LoginAnswered,
      LeftByAnswer, AuthRefused, MeAnswered, MeRefused, SocketStep
<1> QED BY <1>1, <1>2 DEF Next, EnterApp, Reload, SocketStep

LEMMA SocketNext == ASSUME SocketInv, [Next]_vars PROVE SocketInv'
<1>1. ASSUME UNCHANGED socket PROVE SocketInv'
  BY <1>1
  DEF socket, SocketInv, SocketType, AtMostOneSocket, OnlyRefusalEndsRetries
<1> QED
  BY <1>1, NextIsSocketStep, EnterKeeps, LeaveKeeps, TokenKeeps, TimerKeeps, OnSocketKeeps
  DEF SocketStep

LEMMA Invariants == Spec => [](SessionInv /\ SocketInv)
<1>1. Init => SessionInv /\ SocketInv
  <2>1. ASSUME Init PROVE SessionInv
    <3>1. jar = NoCookies /\ calls = {} BY <2>1 DEF Init, SessionInit
    <3>2. IsFiniteSet(calls) /\ Cardinality(calls) = 0 BY <3>1, FS_EmptySet
    <3> QED
      BY <3>1, <3>2, UsersAssumption DEF SessionInv, NoCookies, Cookies, Consistent
  <2> QED BY <2>1, SocketInit
<1>2. SessionInv /\ SocketInv /\ [Next]_vars => (SessionInv /\ SocketInv)'
  BY SessionNext, SocketNext
<1> QED BY <1>1, <1>2, PTL DEF Spec

-----------------------------------------------------------------------------
(* What the invariants say of the specification *)

\* Every variable stays in its type, and the bounds hold, for any constants.
THEOREM RealtimeType == Spec => []TypeOK
<1>1. SessionInv /\ SocketInv => TypeOK BY DEF SessionInv, SocketInv, SocketType, TypeOK
<1> QED BY <1>1, Invariants, PTL

\* The key and the token of a browser are of one user, however the answers of
\* its tabs cross: every handler sets or clears them in pairs.
THEOREM KeyAlwaysMatches == Spec => []KeyMatchesToken
<1>1. SessionInv => KeyMatchesToken BY DEF SessionInv, Consistent, KeyMatchesToken
<1> QED BY <1>1, Invariants, PTL

\* No socket is left behind, whatever the number of tries and of route changes.
THEOREM NoSecondSocket == Spec => []AtMostOneSocket
<1>1. SocketInv => AtMostOneSocket BY DEF SocketInv
<1> QED BY <1>1, Invariants, PTL

\* The indicator is on for a socket that is open, or lost and not yet noticed.
THEOREM IndicatorIsTrue == Spec => []ConnectedMeansOpen
<1>1. SocketInv => ConnectedMeansOpen BY DEF SocketInv, ConnectedMeansOpen
<1> QED BY <1>1, Invariants, PTL

\* The retry loop never runs dry but for a refusal, for any number of failures.
THEOREM RetriesGoOn == Spec => []OnlyRefusalEndsRetries
<1>1. SocketInv => OnlyRefusalEndsRetries BY DEF SocketInv
<1> QED BY <1>1, Invariants, PTL

-----------------------------------------------------------------------------
(* The refinement *)

LEMMA LinkInitially == Init => LiveLink!LinkInit
BY DEF Init, LiveLink!LinkInit, linkState

\* Each step of the socket is a step of the link, or leaves it alone.
LEMMA LinkStep ==
  ASSUME SocketInv, SocketInv', SocketStep
  PROVE  [LiveLink!LinkNext]_<<linkState, connected>>
<1> USE DEF LiveLink!LinkNext, linkState
<1> 0 \notin Sockets BY RealtimeAssumption
<1>1. CASE ~enabled /\ Enable
  <2>1. ref' = 0 /\ ~connected /\ ~connected' /\ enabled'
    BY <1>1 DEF Enable, SocketInv
  <2>2. LiveLink!TurnOn BY <1>1, <2>1 DEF LiveLink!TurnOn, Enable
  <2> QED BY <2>2
<1>2. CASE LeaveApp \/ Reloaded
  <2>1. ~enabled' /\ ~connected' BY <1>2 DEF LeaveApp, Reloaded, Cleanup
  <2>2. CASE enabled BY <2>1, <2>2 DEF LiveLink!TurnOff
  <2>3. CASE ~enabled BY <2>1, <2>3 DEF SocketInv, SocketType
  <2> QED BY <2>2, <2>3
<1>3. CASE Token
  <2>1. connected' = connected /\ linkState' = linkState
    BY <1>3 DEF Token, TokenServed, TokenFailed, TokenTooLate, TokenDenied, SocketInv, SocketType
  <2> QED BY <2>1
<1>4. CASE TimerFires BY <1>4 DEF TimerFires
<1>5. ASSUME NEW i \in Sockets, OnSocket(i)
      PROVE  [LiveLink!LinkNext]_<<linkState, connected>>
  <2>1. CASE OpenSocket(i)
    <3>1. /\ ref = 0 /\ ref' = i /\ socks'[i] = "connecting"
          /\ ~connected /\ connected' = connected
      BY <2>1 DEF OpenSocket, SocketInv, SocketType
    <3>2. enabled /\ enabled' BY <2>1 DEF OpenSocket
    <3> QED BY <3>1, <3>2
  <2>2. CASE SocketOpened(i)
    <3>1. /\ ref = i /\ ref' = i /\ socks[i] = "connecting" /\ socks'[i] = "open"
          /\ ~connected /\ connected' = TRUE
      BY <2>2 DEF SocketOpened, SocketInv, SocketType, AtMostOneSocket
    <3>2. enabled /\ enabled' BY <2>2, <3>1 DEF SocketOpened, SocketInv
    <3> QED BY <3>1, <3>2 DEF LiveLink!GoUp
  <2>3. CASE SocketLost(i)
    <3>1. /\ ref = i /\ ref' = i /\ socks[i] \in {"connecting", "open"}
          /\ socks'[i] = "lost" /\ connected' = connected
          /\ (socks[i] = "open" <=> connected)
      BY <2>3 DEF SocketLost, SocketInv, SocketType, AtMostOneSocket
    <3>2. enabled /\ enabled' BY <2>3, <3>1 DEF SocketLost, SocketInv
    <3> QED BY <3>1, <3>2 DEF LiveLink!Lose
  <2>4. CASE SocketClosed(i)
    <3>1. ref = i /\ ref' = 0 /\ socks[i] = "lost" /\ connected' = FALSE
      BY <2>4 DEF SocketClosed, SocketInv, SocketType, AtMostOneSocket, indicatorOff
    <3>2. enabled /\ enabled' BY <2>4, <3>1 DEF SocketClosed, SocketInv
    <3>3. connected \in BOOLEAN BY DEF SocketInv, SocketType
    <3> QED BY <3>1, <3>2, <3>3 DEF LiveLink!Notice
  <2> QED BY <1>5, <2>1, <2>2, <2>3, <2>4 DEF OnSocket
<1>6. CASE UNCHANGED socket BY <1>6 DEF socket
<1> QED BY <1>1, <1>2, <1>3, <1>4, <1>5, <1>6 DEF SocketStep

\* The tab, its timers, tokens and sockets, is a link as Link describes it.
THEOREM RealtimeIsLink == Spec => ImplementsLink
<1>1. SocketInv /\ SocketInv' /\ [Next]_vars => [LiveLink!LinkNext]_<<linkState, connected>>
  BY LinkStep, NextIsSocketStep
<1> QED BY <1>1, LinkInitially, Invariants, PTL DEF Spec, ImplementsLink, LiveLink!LinkSpec
=============================================================================
