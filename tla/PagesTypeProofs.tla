--------------------------- MODULE PagesTypeProofs ---------------------------
(***************************************************************************)
(* How many requests a page has in flight, and which, for any MaxCalls and *)
(* all 24 pages.                                                           *)
(*                                                                         *)
(* That MaxCalls bounds what a user clicks says nothing of what a handler  *)
(* sends after an answer.  So requests are counted by what they may still  *)
(* come to, one each and two where the answer is followed by two: a click  *)
(* adds two at most, and no answer adds anything.                          *)
(***************************************************************************)
EXTENDS PagesProofs

\* The requests whose answer the handler follows with two more.
Costly == {"restore", "create", "rotate", "revoke"}

\* One more request of this page, which is not one of them.
Follows(more, calls) ==
  \E t \in Endpoints(ui.page) \ Costly : \E a : more = Ask(calls, t, a)

\* What a step does to the requests in flight: some end, one is sent while
\* there are few, or two that are not costly, an answer is followed by one more
\* or (of the costly ones) by two, one takes the place of two, or the page of
\* the account they belong to is gone.
Traffic ==
  \/ net' \subseteq net
  \/ CanCall /\ \E t \in Endpoints(ui.page) : \E a : net' = Ask(net, t, a)
  \/ CanCall /\ \E one : Follows(one, net) /\ Follows(net', one)
  \/ \E r \in net : Follows(net', net \ {r})
  \/ \E r, p \in net : Follows(net', net \ {r, p})
  \/ \E r \in net : \E one :
       r.to \in Costly /\ Follows(one, net \ {r}) /\ Follows(net', one)
  \/ On("account") /\ \E calls \in SUBSET net : net' = Account!Orphaned(calls)

LEMMA TwoFollow ==
  \A r \in net : \A one :
    r.to \in Costly /\ Follows(one, net \ {r}) /\ Follows(net', one) => Traffic
PROOF BY DEF Traffic

LEMMA TwoSent ==
  /\ \A one : CanCall /\ Follows(one, net) /\ Follows(net', one) => Traffic
  /\ \A r, p \in net : Follows(net', net \ {r, p}) => Traffic
PROOF BY DEF Traffic

-----------------------------------------------------------------------------
(* What every step of a page does to its requests: each page's Ask is that *)
(* of module Page, by name.                                               *)

LEMMA UsersAsk ==
  /\ \A S : Users!Cardinality(S) = Cardinality(S)
  /\ \A c, t, a : Users!Ask(c, t, a) = Ask(c, t, a)
PROOF
  <1>1. ASSUME NEW S  PROVE Users!Cardinality(S) = Cardinality(S)
    BY DEF Users!Cardinality, Cardinality
  <1>2. ASSUME NEW c, NEW t, NEW a  PROVE Users!Ask(c, t, a) = Ask(c, t, a)
    <2>1. Users!Cardinality(c) = Cardinality(c)
      BY <1>1
    <2>2. QED
      BY <2>1, Zenon DEF Users!Ask, Users!Free, Ask, Free
  <1>3. QED
    BY <1>1, <1>2

LEMMA UsersTraffic == ASSUME UsersStep  PROVE Traffic
PROOF
  <1>0. Endpoints(ui.page) =
          {"users", "users/action", "create", "edit", "adjust_credits",
           "impersonate"}
    BY DEF UsersStep, On, Endpoints
  <1> USE UsersAsk, <1>0 DEF Traffic, Follows, Costly, CanCall
  <1>1. ASSUME NEW t, Users!Search(t)  PROVE Traffic
    BY <1>1 DEF Users!Search, Users!Query, Users!CanCall, Users!Send
  <1>2. ASSUME NEW role, Users!FilterRole(role)  PROVE Traffic
    BY <1>2 DEF Users!FilterRole, Users!Query, Users!CanCall, Users!Send
  <1>3. CASE Users!Refresh
    BY <1>3 DEF Users!Refresh, Users!fetchUsers, Users!Query, Users!CanCall,
           Users!Send, Users!Submit
  <1>4. ASSUME NEW n, Users!TurnPage(n)  PROVE Traffic
    BY <1>4 DEF Users!TurnPage, Users!fetchUsers, Users!Query, Users!CanCall,
           Users!Ready, Users!Send, Users!Submit
  <1>5. ASSUME NEW u, Users!performAction(u)  PROVE Traffic
    BY <1>5 DEF Users!performAction, Users!fetchUsers, Users!Query,
           Users!CanCall, Users!Send
  <1>6. ASSUME NEW f, NEW u, Users!OpenDialog(f, u)  PROVE Traffic
    BY <1>6 DEF Users!OpenDialog, Users!None
  <1>7. ASSUME NEW f, Users!CancelDialog(f)  PROVE Traffic
    BY <1>7 DEF Users!CancelDialog, Users!None
  <1>8. CASE Users!handleAddSubmit
    BY <1>8 DEF Users!handleAddSubmit, Users!AddDialog, Users!SubmitForm,
           Users!fetchUsers, Users!Query, Users!CanCall, Users!None,
           Users!Ready, Users!Send, Users!Submit
  <1>9. CASE Users!handleEditSubmit
    BY <1>9 DEF Users!handleEditSubmit, Users!EditDialog, Users!SubmitForm,
           Users!fetchUsers, Users!Query, Users!CanCall, Users!None,
           Users!Ready, Users!Send, Users!Submit
  <1>10. CASE Users!handleAdjustCreditsSubmit
    BY <1>10 DEF Users!handleAdjustCreditsSubmit, Users!CreditsDialog,
           Users!SubmitForm, Users!fetchUsers, Users!Query, Users!CanCall,
           Users!None, Users!Ready, Users!Send, Users!Submit
  <1>11. CASE Users!ConfirmLoginAs
    BY <1>11 DEF Users!ConfirmLoginAs, Users!CanCall, Users!None, Users!Send
  <1>12. ASSUME NEW r \in net, NEW out, Users!FetchedUsers(r, out)  PROVE Traffic
    BY <1>12 DEF Users!FetchedUsers, Users!SetList, Users!Freed, Users!Settle
  <1>13. ASSUME NEW r \in net, NEW out, Users!ActionDone(r, out)  PROVE Traffic
    BY <1>13 DEF Users!ActionDone, Users!Settle, Users!SettleAndAsk
  <1>14. ASSUME NEW r \in net, NEW out, Users!LoginAsDone(r, out)  PROVE Traffic
    BY <1>14 DEF Users!LoginAsDone, Users!Leave, Users!Settle, Users!None
  <1>15. ASSUME NEW f, NEW r \in net, NEW out, Users!FormDone(f, r, out)  PROVE Traffic
    BY <1>15 DEF Users!FormDone, Users!Freed, Users!None, Users!Settle,
           Users!SettleAndAsk
  <1>16. QED
    BY <1>1, <1>2, <1>3, <1>4, <1>5, <1>6, <1>7, <1>8, <1>9, <1>10, <1>11,
       <1>12, <1>13, <1>14, <1>15
       DEF UsersStep, Users!Click, Users!Answer

LEMMA ServerAsk ==
  /\ \A S : Server!Cardinality(S) = Cardinality(S)
  /\ \A c, t, a : Server!Ask(c, t, a) = Ask(c, t, a)
PROOF
  <1>1. ASSUME NEW S  PROVE Server!Cardinality(S) = Cardinality(S)
    BY DEF Server!Cardinality, Cardinality
  <1>2. ASSUME NEW c, NEW t, NEW a  PROVE Server!Ask(c, t, a) = Ask(c, t, a)
    <2>1. Server!Cardinality(c) = Cardinality(c)
      BY <1>1
    <2>2. QED
      BY <2>1, Zenon DEF Server!Ask, Server!Free, Ask, Free
  <1>3. QED
    BY <1>1, <1>2

LEMMA ServerTraffic == ASSUME ServerStep  PROVE Traffic
PROOF
  <1>0. Endpoints(ui.page) =
          {"server/list", "server/add", "server/save", "server/late",
           "server/toggle", "server/delete", "key"}
    BY DEF ServerStep, On, Endpoints
  <1> USE ServerAsk, <1>0 DEF Traffic, Follows, Costly, CanCall
  <1>1. CASE Server!RefreshButton
    BY <1>1 DEF Server!RefreshButton, Server!fetchServers, Server!Lists,
           Server!Servers, Server!Empty, Server!CanCall, Server!Ready,
           Server!Send
  <1>2. CASE Server!OnFocus
    BY <1>2 DEF Server!OnFocus, Server!fetchServers, Server!Lists,
           Server!Servers, Server!Empty, Server!CanCall, Server!Send
  <1>3. CASE Server!OpenAddDialog
    BY <1>3 DEF Server!OpenAddDialog, Server!None
  <1>4. CASE Server!CloseAddDialog
    BY <1>4 DEF Server!CloseAddDialog
  <1>5. CASE Server!onAddServer
    BY <1>5 DEF Server!onAddServer, Server!AddDialog, Server!CanCall,
           Server!None, Server!Ready, Server!Send, Server!Submit
  <1>6. ASSUME NEW s, Server!OpenManage(s)  PROVE Traffic
    BY <1>6 DEF Server!OpenManage, Server!Servers, Server!Manage,
           Server!Empty, Server!resolveDisplayStatus, Server!None
  <1>7. CASE Server!CloseManage
    BY <1>7 DEF Server!CloseManage, Server!Unmanaged
  <1>8. CASE Server!handleWarmupSave
    <2> DEFINE one == Ask(net, "server/save", Server!Save(ui.manage[1], "pending"))
    <2>1. CanCall /\ net' = Ask(one, "server/save", Server!Save(ui.manage[1], "pending"))
      BY <1>8 DEF Server!handleWarmupSave, Server!CanCall
    <2>2. Follows(one, net)
      OBVIOUS
    <2> HIDE DEF one
    <2>3. Follows(net', one)
      BY <2>1
    <2>4. QED
      BY <2>1, <2>2, <2>3, TwoSent
  <1>9. CASE Server!handleToggleServer
    BY <1>9 DEF Server!handleToggleServer, Server!Unmanaged, Server!CanCall,
           Server!Send
  <1>10. ASSUME NEW step, Server!TypeDeletePhrase(step)  PROVE Traffic
    BY <1>10 DEF Server!TypeDeletePhrase
  <1>11. CASE Server!doDeleteServer
    BY <1>11 DEF Server!doDeleteServer, Server!Unmanaged, Server!CanCall,
           Server!Send
  <1>12. CASE Server!toggleReveal
    BY <1>12 DEF Server!toggleReveal, Server!None, Server!Ready
  <1>13. CASE Server!copyToClipboard
    BY <1>13 DEF Server!copyToClipboard, Server!None, Server!Ready
  <1>14. CASE Server!OpenRotate
    BY <1>14 DEF Server!OpenRotate, Server!None
  <1>15. CASE Server!CancelPassword
    BY <1>15 DEF Server!CancelPassword, Server!None
  <1>16. CASE Server!onPasswordAction
    BY <1>16 DEF Server!onPasswordAction, Server!PasswordDialog,
           Server!CanCall, Server!None, Server!Ready, Server!Send
  <1>17. CASE Server!Pushed
    BY <1>17 DEF Server!Pushed, Server!HandleServerUpdate,
           Server!HandleWorkerUpdate, Server!Lists, Server!setServers,
           Server!applyWorkerHeartbeat
  <1>18. ASSUME NEW r \in net, NEW out, Server!FetchedServers(r, out)  PROVE Traffic
    BY <1>18 DEF Server!FetchedServers, Server!setServers, Server!Freed,
           Server!Settle
  <1>19. ASSUME NEW r \in net, NEW out, Server!AddServerDone(r, out)  PROVE Traffic
    BY <1>19 DEF Server!AddServerDone, Server!RefetchAfter, Server!Freed,
           Server!Settle, Server!Lists, Server!Servers, Server!Empty
  <1>20. ASSUME NEW r \in net, NEW out, Server!WarmupSaved(r, out)  PROVE Traffic
    <2>1. CASE Server!FirstSaved(r, out)
      <3>1. PICK other, t, a :
              /\ other \in net \ {r} /\ t \in {"server/late", "server/save"}
              /\ net' = Server!Ask(net \ {r, other}, t, a)
        BY <2>1, Zenon DEF Server!FirstSaved
      <3>2. Follows(net', net \ {r, other})
        BY <3>1
      <3>3. QED
        BY <3>1, <3>2, TwoSent
    <2>2. CASE Server!BothSaved(r, out)
      BY <2>2 DEF Server!BothSaved, Server!RefetchAfter
    <2>3. CASE Server!Settle(r, "server/late")
      BY <2>3 DEF Server!Settle
    <2>4. QED
      BY <1>20, <2>1, <2>2, <2>3 DEF Server!WarmupSaved
  <1>21. ASSUME NEW r \in net, NEW out, Server!ServerMutated(r, out)  PROVE Traffic
    BY <1>21 DEF Server!ServerMutated, Server!RefetchAfter, Server!Lists,
           Server!Servers, Server!Empty
  <1>22. ASSUME NEW r \in net, NEW out, Server!PasswordActionDone(r, out)  PROVE Traffic
    BY <1>22 DEF Server!PasswordActionDone, Server!Freed, Server!None,
           Server!Settle
  <1>23. QED
    BY <1>1, <1>2, <1>3, <1>4, <1>5, <1>6, <1>7, <1>8, <1>9, <1>10, <1>11,
       <1>12, <1>13, <1>14, <1>15, <1>16, <1>17, <1>18, <1>19, <1>20, <1>21,
       <1>22
       DEF ServerStep, Server!Click, Server!Answer

LEMMA JobControlAsk ==
  /\ \A S : JobControl!Cardinality(S) = Cardinality(S)
  /\ \A c, t, a : JobControl!Ask(c, t, a) = Ask(c, t, a)
PROOF
  <1>1. ASSUME NEW S  PROVE JobControl!Cardinality(S) = Cardinality(S)
    BY DEF JobControl!Cardinality, Cardinality
  <1>2. ASSUME NEW c, NEW t, NEW a  PROVE JobControl!Ask(c, t, a) = Ask(c, t, a)
    <2>1. JobControl!Cardinality(c) = Cardinality(c)
      BY <1>1
    <2>2. QED
      BY <2>1, Zenon DEF JobControl!Ask, JobControl!Free, Ask, Free
  <1>3. QED
    BY <1>1, <1>2

LEMMA JobControlTraffic == ASSUME JobControlStep  PROVE Traffic
PROOF
  <1>0. Endpoints(ui.page) =
          {"data", "save", "cleanup"}
    BY DEF JobControlStep, On, Endpoints
  <1> USE JobControlAsk, <1>0 DEF Traffic, Follows, Costly, CanCall
  <1>1. CASE JobControl!RefreshButton
    BY <1>1 DEF JobControl!RefreshButton, JobControl!Skeleton,
           JobControl!fetchData, JobControl!CanCall, JobControl!Ready,
           JobControl!Send, JobControl!Submit
  <1>2. ASSUME NEW s, JobControl!EditSettings(s)  PROVE Traffic
    BY <1>2 DEF JobControl!EditSettings, JobControl!Skeleton, JobControl!Ready
  <1>3. CASE JobControl!onSaveSettings
    BY <1>3 DEF JobControl!onSaveSettings, JobControl!SaveButton,
           JobControl!Skeleton, JobControl!CanCall, JobControl!Ready,
           JobControl!Send
  <1>4. CASE JobControl!SavedExpires
    BY <1>4 DEF JobControl!SavedExpires
  <1>5. CASE JobControl!openCleanupModal
    BY <1>5 DEF JobControl!openCleanupModal, JobControl!Skeleton,
           JobControl!Ready
  <1>6. CASE JobControl!TypeCleanupPhrase
    BY <1>6 DEF JobControl!TypeCleanupPhrase
  <1>7. CASE JobControl!CloseCleanupModal
    BY <1>7 DEF JobControl!CloseCleanupModal
  <1>8. CASE JobControl!handleCleanup
    BY <1>8 DEF JobControl!handleCleanup, JobControl!CleanupDialog,
           JobControl!CanCall, JobControl!Ready, JobControl!Send
  <1>9. ASSUME NEW r \in net, NEW out, JobControl!FetchedData(r, out)  PROVE Traffic
    BY <1>9 DEF JobControl!FetchedData, JobControl!Freed, JobControl!Settle
  <1>10. ASSUME NEW r \in net, NEW out, JobControl!SettingsSaved(r, out)  PROVE Traffic
    BY <1>10 DEF JobControl!SettingsSaved, JobControl!Settle,
           JobControl!SettleAndAsk, JobControl!Freed
  <1>11. ASSUME NEW r \in net, NEW out, JobControl!CleanupDone(r, out)  PROVE Traffic
    BY <1>11 DEF JobControl!CleanupDone, JobControl!Settle,
           JobControl!SettleAndAsk, JobControl!Freed
  <1>12. QED
    BY <1>1, <1>2, <1>3, <1>4, <1>5, <1>6, <1>7, <1>8, <1>9, <1>10, <1>11
       DEF JobControlStep, JobControl!Click, JobControl!Answer

LEMMA ApiKeysAsk ==
  /\ \A S : ApiKeys!Cardinality(S) = Cardinality(S)
  /\ \A c, t, a : ApiKeys!Ask(c, t, a) = Ask(c, t, a)
PROOF
  <1>1. ASSUME NEW S  PROVE ApiKeys!Cardinality(S) = Cardinality(S)
    BY DEF ApiKeys!Cardinality, Cardinality
  <1>2. ASSUME NEW c, NEW t, NEW a  PROVE ApiKeys!Ask(c, t, a) = Ask(c, t, a)
    <2>1. ApiKeys!Cardinality(c) = Cardinality(c)
      BY <1>1
    <2>2. QED
      BY <2>1, Zenon DEF ApiKeys!Ask, ApiKeys!Free, Ask, Free
  <1>3. QED
    BY <1>1, <1>2

LEMMA ApiKeysTraffic == ASSUME ApiKeysStep  PROVE Traffic
PROOF
  <1>0. Endpoints(ui.page) =
          {"keys", "create", "rotate", "revoke", "stats"}
    BY DEF ApiKeysStep, On, Endpoints
  <1> USE ApiKeysAsk, <1>0 DEF Traffic, Follows, Costly, CanCall
  <1>1. CASE ApiKeys!onCreateKey
    BY <1>1 DEF ApiKeys!onCreateKey, ApiKeys!CreateForm, ApiKeys!KeyIds,
           ApiKeys!Uncovered, ApiKeys!isLimitReached, ApiKeys!CanCall,
           ApiKeys!Ready, ApiKeys!Send
  <1>2. CASE ApiKeys!DismissLatest
    BY <1>2 DEF ApiKeys!DismissLatest, ApiKeys!Uncovered
  <1>3. ASSUME NEW d \in {"detail", "rotate", "revoke"}, NEW k, ApiKeys!OpenKeyDialog(d, k)
  PROVE Traffic
    BY <1>3 DEF ApiKeys!OpenKeyDialog, ApiKeys!Uncovered
  <1>4. CASE ApiKeys!CloseDetail
    BY <1>4 DEF ApiKeys!CloseDetail
  <1>5. CASE ApiKeys!CancelRotate
    BY <1>5 DEF ApiKeys!CancelRotate, ApiKeys!RotateDialog, ApiKeys!Ready
  <1>6. CASE ApiKeys!CancelRevoke
    BY <1>6 DEF ApiKeys!CancelRevoke, ApiKeys!RevokeDialog, ApiKeys!Ready
  <1>7. CASE ApiKeys!handleRotateKey
    BY <1>7 DEF ApiKeys!handleRotateKey, ApiKeys!RotateDialog,
           ApiKeys!CanCall, ApiKeys!Ready, ApiKeys!Send
  <1>8. CASE ApiKeys!handleRevokeKey
    BY <1>8 DEF ApiKeys!handleRevokeKey, ApiKeys!RevokeDialog,
           ApiKeys!CanCall, ApiKeys!Ready, ApiKeys!Send
  <1>9. ASSUME NEW r \in net, NEW out, ApiKeys!FetchedKeys(r, out)  PROVE Traffic
    BY <1>9 DEF ApiKeys!FetchedKeys, ApiKeys!Settle
  <1>10. ASSUME NEW r \in net, NEW out, ApiKeys!KeyCreated(r, out)  PROVE Traffic
    <2>1. CASE out = "success"
      <3>1. /\ r.to = "create"
            /\ net' = Ask(Ask(net \ {r}, "keys", [keys |-> ui.live]), "stats", [credits |-> 0])
        BY <1>10, <2>1
           DEF ApiKeys!KeyCreated, ApiKeys!Refreshed, ApiKeys!Fetching, ApiKeys!fetchKeys
      <3>2. \A c, a : Follows(Ask(c, "keys", a), c) /\ Follows(Ask(c, "stats", a), c)
        OBVIOUS
      <3> HIDE DEF Traffic, Follows
      <3>3. QED
        BY <3>1, <3>2, TwoFollow
    <2>2. CASE out # "success"
      <3>1. net' = net \ {r}
        BY <1>10, <2>2 DEF ApiKeys!KeyCreated, ApiKeys!Settle
      <3>2. QED
        BY <3>1
    <2>3. QED
      BY <2>1, <2>2
  <1>11. ASSUME NEW r \in net, NEW out, ApiKeys!KeyRotated(r, out)  PROVE Traffic
    BY <1>11 DEF ApiKeys!KeyRotated, ApiKeys!fetchKeys, ApiKeys!Freed,
           ApiKeys!Settle
  <1>12. ASSUME NEW r \in net, NEW out, ApiKeys!KeyRevoked(r, out)  PROVE Traffic
    <2>1. CASE out = "success"
      <3>1. /\ r.to = "revoke"
            /\ net' = Ask(Ask(net \ {r}, "keys", [keys |-> ui.live]), "stats", [credits |-> 0])
        BY <1>12, <2>1
           DEF ApiKeys!KeyRevoked, ApiKeys!Refreshed, ApiKeys!Fetching, ApiKeys!fetchKeys
      <3>2. \A c, a : Follows(Ask(c, "keys", a), c) /\ Follows(Ask(c, "stats", a), c)
        OBVIOUS
      <3> HIDE DEF Traffic, Follows
      <3>3. QED
        BY <3>1, <3>2, TwoFollow
    <2>2. CASE out # "success"
      <3>1. net' = net \ {r}
        BY <1>12, <2>2 DEF ApiKeys!KeyRevoked, ApiKeys!Settle
      <3>2. QED
        BY <3>1
    <2>3. QED
      BY <2>1, <2>2
  <1>13. ASSUME NEW r \in net, NEW out, ApiKeys!FetchedStats(r, out)  PROVE Traffic
    BY <1>13 DEF ApiKeys!FetchedStats, ApiKeys!SetStats, ApiKeys!Freed,
           ApiKeys!Settle
  <1>14. QED
    BY <1>1, <1>2, <1>3, <1>4, <1>5, <1>6, <1>7, <1>8, <1>9, <1>10, <1>11,
       <1>12, <1>13
       DEF ApiKeysStep, ApiKeys!Click, ApiKeys!Answer

LEMMA CacheAsk ==
  /\ \A S : Cache!Cardinality(S) = Cardinality(S)
  /\ \A c, t, a : Cache!Ask(c, t, a) = Ask(c, t, a)
PROOF
  <1>1. ASSUME NEW S  PROVE Cache!Cardinality(S) = Cardinality(S)
    BY DEF Cache!Cardinality, Cardinality
  <1>2. ASSUME NEW c, NEW t, NEW a  PROVE Cache!Ask(c, t, a) = Ask(c, t, a)
    <2>1. Cache!Cardinality(c) = Cardinality(c)
      BY <1>1
    <2>2. QED
      BY <2>1, Zenon DEF Cache!Ask, Cache!Free, Ask, Free
  <1>3. QED
    BY <1>1, <1>2

LEMMA CacheTraffic == ASSUME CacheStep  PROVE Traffic
PROOF
  <1>0. Endpoints(ui.page) =
          {"cache/stats", "policies", "lookup", "invalidate", "purge",
           "purge-older", "upload"}
    BY DEF CacheStep, On, Endpoints
  <1> USE CacheAsk, <1>0 DEF Traffic, Follows, Costly, CanCall
  <1>1. CASE Cache!RefreshButton
    BY <1>1 DEF Cache!RefreshButton, Cache!fetchStats, Cache!CanCall,
           Cache!None, Cache!Ready
  <1>2. ASSUME NEW p, Cache!EditPolicies(p)  PROVE Traffic
    BY <1>2 DEF Cache!EditPolicies, Cache!None
  <1>3. CASE Cache!onSavePolicies
    BY <1>3 DEF Cache!onSavePolicies, Cache!PoliciesForm, Cache!CanCall,
           Cache!None, Cache!Ready, Cache!Send
  <1>4. CASE Cache!SavedExpires
    BY <1>4 DEF Cache!SavedExpires
  <1>5. ASSUME NEW e, Cache!onLookup(e)  PROVE Traffic
    BY <1>5 DEF Cache!onLookup, Cache!LookupForm, Cache!CanCall, Cache!None,
           Cache!Ready, Cache!Send
  <1>6. CASE Cache!OpenInvalidate
    BY <1>6 DEF Cache!OpenInvalidate, Cache!None
  <1>7. ASSUME NEW p, Cache!OpenPurge(p)  PROVE Traffic
    BY <1>7 DEF Cache!OpenPurge, Cache!None, Cache!Ready
  <1>8. ASSUME NEW m, Cache!ConfirmPhrase(m)  PROVE Traffic
    BY <1>8 DEF Cache!ConfirmPhrase, Cache!Rendered, Cache!None
  <1>9. CASE Cache!CancelModal
    BY <1>9 DEF Cache!CancelModal, Cache!None
  <1>10. CASE Cache!doDeleteCache
    BY <1>10 DEF Cache!doDeleteCache, Cache!Rendered, Cache!CanCall,
           Cache!None, Cache!Send
  <1>11. CASE Cache!handlePurge
    BY <1>11 DEF Cache!handlePurge, Cache!SubmitPurge, Cache!PurgeModal,
           Cache!Rendered, Cache!CanCall, Cache!None, Cache!Ready, Cache!Send,
           Cache!Submit
  <1>12. CASE Cache!handlePurgeOlder
    BY <1>12 DEF Cache!handlePurgeOlder, Cache!SubmitPurge, Cache!PurgeModal,
           Cache!Rendered, Cache!CanCall, Cache!None, Cache!Ready, Cache!Send,
           Cache!Submit
  <1>13. CASE Cache!uploadFile
    BY <1>13 DEF Cache!uploadFile, Cache!ChooseFile, Cache!DropFile,
           Cache!CanCall, Cache!None, Cache!Ready, Cache!Send, Cache!Submit
  <1>14. ASSUME NEW r \in net, NEW out, Cache!FetchedStats(r, out)  PROVE Traffic
    BY <1>14 DEF Cache!FetchedStats, Cache!Freed, Cache!Settle
  <1>15. ASSUME NEW r \in net, NEW out, Cache!PoliciesSaved(r, out)  PROVE Traffic
    BY <1>15 DEF Cache!PoliciesSaved, Cache!Freed, Cache!Settle
  <1>16. ASSUME NEW r \in net, NEW out, Cache!LookedUp(r, out)  PROVE Traffic
    BY <1>16 DEF Cache!LookedUp, Cache!Freed, Cache!Settle
  <1>17. ASSUME NEW r \in net, NEW out, Cache!CacheDeleted(r, out)  PROVE Traffic
    BY <1>17 DEF Cache!CacheDeleted, Cache!Mutated, Cache!Freed, Cache!None,
           Cache!Settle, Cache!fetchStats
  <1>18. ASSUME NEW r \in net, NEW out, Cache!Purged(r, out)  PROVE Traffic
    BY <1>18 DEF Cache!Purged, Cache!Purges, Cache!Mutated, Cache!None,
           Cache!fetchStats, Cache!Freed
  <1>19. ASSUME NEW r \in net, NEW out, Cache!Uploaded(r, out)  PROVE Traffic
    BY <1>19 DEF Cache!Uploaded, Cache!Mutated, Cache!Settle,
           Cache!fetchStats, Cache!Freed
  <1>20. QED
    BY <1>1, <1>2, <1>3, <1>4, <1>5, <1>6, <1>7, <1>8, <1>9, <1>10, <1>11,
       <1>12, <1>13, <1>14, <1>15, <1>16, <1>17, <1>18, <1>19
       DEF CacheStep, Cache!Click, Cache!Answer

LEMMA LogsAsk ==
  /\ \A S : Logs!Cardinality(S) = Cardinality(S)
  /\ \A c, t, a : Logs!Ask(c, t, a) = Ask(c, t, a)
PROOF
  <1>1. ASSUME NEW S  PROVE Logs!Cardinality(S) = Cardinality(S)
    BY DEF Logs!Cardinality, Cardinality
  <1>2. ASSUME NEW c, NEW t, NEW a  PROVE Logs!Ask(c, t, a) = Ask(c, t, a)
    <2>1. Logs!Cardinality(c) = Cardinality(c)
      BY <1>1
    <2>2. QED
      BY <2>1, Zenon DEF Logs!Ask, Logs!Free, Ask, Free
  <1>3. QED
    BY <1>1, <1>2

LEMMA LogsTraffic == ASSUME LogsStep  PROVE Traffic
PROOF
  <1>0. Endpoints(ui.page) =
          {"logs", "clear"}
    BY DEF LogsStep, On, Endpoints
  <1> USE LogsAsk, <1>0 DEF Traffic, Follows, Costly, CanCall
  <1>1. ASSUME NEW level, Logs!FilterLevel(level)  PROVE Traffic
    BY <1>1 DEF Logs!FilterLevel, Logs!loadPage, Logs!CanCall
  <1>2. CASE Logs!Intersecting
    BY <1>2 DEF Logs!Intersecting, Logs!loadPage, Logs!CanCall
  <1>3. CASE Logs!handleRefresh
    BY <1>3 DEF Logs!handleRefresh, Logs!loadPage, Logs!CanCall
  <1>4. CASE Logs!handleOpenClearDialog
    BY <1>4 DEF Logs!handleOpenClearDialog
  <1>5. CASE Logs!TypeClearPhrase
    BY <1>5 DEF Logs!TypeClearPhrase, Logs!Ready
  <1>6. CASE Logs!CancelClear
    BY <1>6 DEF Logs!CancelClear, Logs!Ready
  <1>7. CASE Logs!handleConfirmClear
    BY <1>7 DEF Logs!handleConfirmClear, Logs!ClearDialog, Logs!CanCall,
           Logs!Ready, Logs!Send
  <1>8. CASE Logs!WriteLog
    BY <1>8 DEF Logs!WriteLog
  <1>9. ASSUME NEW lost, Logs!handleLogUpdate(lost)  PROVE Traffic
    BY <1>9 DEF Logs!handleLogUpdate, Logs!addLiveLog
  <1>10. ASSUME NEW r \in net, NEW out, Logs!PageLoaded(r, out)  PROVE Traffic
    BY <1>10 DEF Logs!PageLoaded, Logs!setInitial, Logs!appendLogs,
           Logs!Freed, Logs!Settle
  <1>11. ASSUME NEW r \in net, NEW out, Logs!Cleared(r, out)  PROVE Traffic
    BY <1>11 DEF Logs!Cleared, Logs!Freed, Logs!clearLogs, Logs!loadPage
  <1>12. QED
    BY <1>1, <1>2, <1>3, <1>4, <1>5, <1>6, <1>7, <1>8, <1>9, <1>10, <1>11
       DEF LogsStep, Logs!Click, Logs!Answer

LEMMA LicenseAsk ==
  /\ \A S : License!Cardinality(S) = Cardinality(S)
  /\ \A c, t, a : License!Ask(c, t, a) = Ask(c, t, a)
PROOF
  <1>1. ASSUME NEW S  PROVE License!Cardinality(S) = Cardinality(S)
    BY DEF License!Cardinality, Cardinality
  <1>2. ASSUME NEW c, NEW t, NEW a  PROVE License!Ask(c, t, a) = Ask(c, t, a)
    <2>1. License!Cardinality(c) = Cardinality(c)
      BY <1>1
    <2>2. QED
      BY <2>1, Zenon DEF License!Ask, License!Free, Ask, Free
  <1>3. QED
    BY <1>1, <1>2

LEMMA LicenseTraffic == ASSUME LicenseStep  PROVE Traffic
PROOF
  <1>0. Endpoints(ui.page) =
          {"status", "backups", "maintenance", "license", "backup", "upload",
           "delete", "restore"}
    BY DEF LicenseStep, On, Endpoints
  <1> USE LicenseAsk, <1>0 DEF Traffic, Follows, Costly, CanCall
  <1>1. CASE License!RefreshStatus
    BY <1>1 DEF License!RefreshStatus, License!Overlay,
           License!fetchSystemStatus, License!CanCall, License!None,
           License!Ready
  <1>2. CASE License!ToggleMaintenance
    BY <1>2 DEF License!ToggleMaintenance, License!Overlay, License!None,
           License!Ready
  <1>3. CASE License!handleSaveMaintenance
    BY <1>3 DEF License!handleSaveMaintenance, License!MaintenanceButton,
           License!Overlay, License!CanCall, License!None, License!Ready,
           License!Send
  <1>4. ASSUME NEW open, License!EditLicense(open)  PROVE Traffic
    BY <1>4 DEF License!EditLicense, License!Overlay, License!Freed,
           License!None, License!Ready
  <1>5. CASE License!onLicenseSubmit
    BY <1>5 DEF License!onLicenseSubmit, License!LicenseForm, License!Overlay,
           License!CanCall, License!None, License!Ready, License!Send,
           License!Submit
  <1>6. ASSUME NEW kind, License!generateBackup(kind)  PROVE Traffic
    BY <1>6 DEF License!generateBackup, License!BackupButtons,
           License!Overlay, License!CanCall, License!None, License!Ready,
           License!Send
  <1>7. ASSUME NEW release, License!uploadBackupFile(release)  PROVE Traffic
    BY <1>7 DEF License!uploadBackupFile, License!UploadZone, License!Overlay,
           License!CanCall, License!None, License!Ready, License!Send
  <1>8. ASSUME NEW b, License!deleteBackup(b)  PROVE Traffic
    BY <1>8 DEF License!deleteBackup, License!Overlay, License!CanCall,
           License!None, License!Ready, License!Send
  <1>9. ASSUME NEW b, License!OpenRestore(b)  PROVE Traffic
    BY <1>9 DEF License!OpenRestore, License!Overlay, License!None,
           License!Ready
  <1>10. CASE License!CancelRestore
    BY <1>10 DEF License!CancelRestore, License!None, License!Ready
  <1>11. CASE License!startRestore
    BY <1>11 DEF License!startRestore, License!RestoreDialog, License!CanCall,
           License!None, License!Ready, License!Send
  <1>12. ASSUME NEW r \in net, NEW out, License!Fetched(r, out)  PROVE Traffic
    BY <1>12 DEF License!Fetched
  <1>13. ASSUME NEW r \in net, NEW out, License!MaintenanceSaved(r, out)  PROVE Traffic
    BY <1>13 DEF License!MaintenanceSaved, License!Freed, License!Settle
  <1>14. ASSUME NEW r \in net, NEW out, License!LicenseSaved(r, out)  PROVE Traffic
    BY <1>14 DEF License!LicenseSaved, License!Freed, License!Settle
  <1>15. ASSUME NEW r \in net, NEW out, License!Stored(r, out)  PROVE Traffic
    BY <1>15 DEF License!Stored, License!fetchSystemStatus, License!Freed,
           License!fetchBackups
  <1>16. ASSUME NEW r \in net, NEW out, License!BackupDeleted(r, out)  PROVE Traffic
    BY <1>16 DEF License!BackupDeleted, License!Settle
  <1>17. ASSUME NEW r \in net, NEW out, License!Restored(r, out)  PROVE Traffic
    <2>1. CASE out = "success"
      <3>1. /\ r.to = "restore"
            /\ net' = Ask(Ask(net \ {r}, "status", [backups |-> {}]), "backups", [backups |-> ui.srv])
        BY <1>17, <2>1
           DEF License!Restored, License!fetchBackups, License!fetchSystemStatus
      <3>2. \A c, a : Follows(Ask(c, "status", a), c) /\ Follows(Ask(c, "backups", a), c)
        OBVIOUS
      <3> HIDE DEF Traffic, Follows
      <3>3. QED
        BY <3>1, <3>2, TwoFollow
    <2>2. CASE out # "success"
      <3>1. net' = net \ {r}
        BY <1>17, <2>2 DEF License!Restored, License!Settle
      <3>2. QED
        BY <3>1
    <2>3. QED
      BY <2>1, <2>2
  <1>18. QED
    BY <1>1, <1>2, <1>3, <1>4, <1>5, <1>6, <1>7, <1>8, <1>9, <1>10, <1>11,
       <1>12, <1>13, <1>14, <1>15, <1>16, <1>17
       DEF LicenseStep, License!Click, License!Answer

LEMMA BrandAsk ==
  /\ \A S : Brand!Cardinality(S) = Cardinality(S)
  /\ \A c, t, a : Brand!Ask(c, t, a) = Ask(c, t, a)
PROOF
  <1>1. ASSUME NEW S  PROVE Brand!Cardinality(S) = Cardinality(S)
    BY DEF Brand!Cardinality, Cardinality
  <1>2. ASSUME NEW c, NEW t, NEW a  PROVE Brand!Ask(c, t, a) = Ask(c, t, a)
    <2>1. Brand!Cardinality(c) = Cardinality(c)
      BY <1>1
    <2>2. QED
      BY <2>1, Zenon DEF Brand!Ask, Brand!Free, Ask, Free
  <1>3. QED
    BY <1>1, <1>2

LEMMA BrandTraffic == ASSUME BrandStep  PROVE Traffic
PROOF
  <1>0. Endpoints(ui.page) =
          {"brand", "save", "router"}
    BY DEF BrandStep, On, Endpoints
  <1> USE BrandAsk, <1>0 DEF Traffic, Follows, Costly, CanCall
  <1>1. ASSUME NEW f, Brand!EditForm(f)  PROVE Traffic
    BY <1>1 DEF Brand!EditForm
  <1>2. CASE Brand!OpenEditor
    BY <1>2 DEF Brand!OpenEditor, Brand!None
  <1>3. CASE Brand!CloseEditor
    BY <1>3 DEF Brand!CloseEditor, Brand!None
  <1>4. CASE Brand!handleSaveScript
    BY <1>4 DEF Brand!handleSaveScript, Brand!None
  <1>5. ASSUME NEW s, Brand!handleToggleScript(s)  PROVE Traffic
    BY <1>5 DEF Brand!handleToggleScript
  <1>6. ASSUME NEW s, Brand!handleEditScript(s)  PROVE Traffic
    BY <1>6 DEF Brand!handleEditScript
  <1>7. ASSUME NEW s, Brand!handleDeleteScript(s)  PROVE Traffic
    BY <1>7 DEF Brand!handleDeleteScript
  <1>8. CASE Brand!handleSaveSubmit
    BY <1>8 DEF Brand!handleSaveSubmit, Brand!SaveButton, Brand!CanCall,
           Brand!Ready, Brand!Send
  <1>9. ASSUME NEW r \in net, NEW out, Brand!RefreshedSettings(r, out)  PROVE Traffic
    BY <1>9 DEF Brand!RefreshedSettings, Brand!Hydrate, Brand!Freed
  <1>10. ASSUME NEW r \in net, NEW out, Brand!BrandSaved(r, out)  PROVE Traffic
    BY <1>10 DEF Brand!BrandSaved, Brand!Freed, Brand!Settle,
           Brand!SettleAndAsk
  <1>11. QED
    BY <1>1, <1>2, <1>3, <1>4, <1>5, <1>6, <1>7, <1>8, <1>9, <1>10
       DEF BrandStep, Brand!Click, Brand!Answer

LEMMA PackageAsk ==
  /\ \A S : Package!Cardinality(S) = Cardinality(S)
  /\ \A c, t, a : Package!Ask(c, t, a) = Ask(c, t, a)
PROOF
  <1>1. ASSUME NEW S  PROVE Package!Cardinality(S) = Cardinality(S)
    BY DEF Package!Cardinality, Cardinality
  <1>2. ASSUME NEW c, NEW t, NEW a  PROVE Package!Ask(c, t, a) = Ask(c, t, a)
    <2>1. Package!Cardinality(c) = Cardinality(c)
      BY <1>1
    <2>2. QED
      BY <2>1, Zenon DEF Package!Ask, Package!Free, Ask, Free
  <1>3. QED
    BY <1>1, <1>2

LEMMA PackageTraffic == ASSUME PackageStep  PROVE Traffic
PROOF
  <1>0. Endpoints(ui.page) =
          {"submit", "flags", "delete"}
    BY DEF PackageStep, On, Endpoints
  <1> USE PackageAsk, <1>0 DEF Traffic, Follows, Costly, CanCall
  <1>1. CASE Package!openAdd
    BY <1>1 DEF Package!openAdd, Package!OpenForm, Package!Uncovered,
           Package!None
  <1>2. CASE Package!CloseForm
    BY <1>2 DEF Package!CloseForm
  <1>3. CASE Package!CancelDelete
    BY <1>3 DEF Package!CancelDelete, Package!DeleteDialog, Package!None,
           Package!Ready
  <1>4. CASE Package!deletePlan
    BY <1>4 DEF Package!deletePlan, Package!DeleteDialog, Package!CanCall,
           Package!None, Package!Ready, Package!Send, Package!Submit
  <1>5. ASSUME NEW p, Package!openEdit(p)  PROVE Traffic
    BY <1>5 DEF Package!openEdit, Package!OpenForm, Package!Uncovered,
           Package!None
  <1>6. ASSUME NEW p, Package!toggleListed(p)  PROVE Traffic
    BY <1>6 DEF Package!toggleListed, Package!updatePackageFlags,
           Package!Uncovered, Package!Toggled, Package!CanCall, Package!None,
           Package!Send
  <1>7. ASSUME NEW p, Package!togglePopular(p)  PROVE Traffic
    BY <1>7 DEF Package!togglePopular, Package!updatePackageFlags,
           Package!Uncovered, Package!Toggled, Package!CanCall, Package!None,
           Package!Send
  <1>8. ASSUME NEW p, Package!OpenDelete(p)  PROVE Traffic
    BY <1>8 DEF Package!OpenDelete, Package!Uncovered, Package!None
  <1>9. ASSUME NEW flags, Package!onSubmit(flags)  PROVE Traffic
    BY <1>9 DEF Package!onSubmit, Package!FormModal, Package!CanCall,
           Package!None, Package!Ready, Package!Send, Package!Submit
  <1>10. ASSUME NEW r \in net, NEW out, Package!Submitted(r, out)  PROVE Traffic
    BY <1>10 DEF Package!Submitted, Package!Prepended, Package!Replaced,
           Package!Demoted, Package!Freed, Package!Settle
  <1>11. ASSUME NEW r \in net, NEW out, Package!FlagsUpdated(r, out)  PROVE Traffic
    BY <1>11 DEF Package!FlagsUpdated, Package!Replaced, Package!Demoted,
           Package!Settle
  <1>12. ASSUME NEW r \in net, NEW out, Package!PlanDeleted(r, out)  PROVE Traffic
    BY <1>12 DEF Package!PlanDeleted, Package!Freed, Package!None,
           Package!Settle
  <1>13. QED
    BY <1>1, <1>2, <1>3, <1>4, <1>5, <1>6, <1>7, <1>8, <1>9, <1>10, <1>11,
       <1>12
       DEF PackageStep, Package!Click, Package!Answer

LEMMA SmtpAsk ==
  /\ \A S : Smtp!Cardinality(S) = Cardinality(S)
  /\ \A c, t, a : Smtp!Ask(c, t, a) = Ask(c, t, a)
PROOF
  <1>1. ASSUME NEW S  PROVE Smtp!Cardinality(S) = Cardinality(S)
    BY DEF Smtp!Cardinality, Cardinality
  <1>2. ASSUME NEW c, NEW t, NEW a  PROVE Smtp!Ask(c, t, a) = Ask(c, t, a)
    <2>1. Smtp!Cardinality(c) = Cardinality(c)
      BY <1>1
    <2>2. QED
      BY <2>1, Zenon DEF Smtp!Ask, Smtp!Free, Ask, Free
  <1>3. QED
    BY <1>1, <1>2

LEMMA SmtpTraffic == ASSUME SmtpStep  PROVE Traffic
PROOF
  <1>0. Endpoints(ui.page) =
          {"data", "save", "test", "template"}
    BY DEF SmtpStep, On, Endpoints
  <1> USE SmtpAsk, <1>0 DEF Traffic, Follows, Costly, CanCall
  <1>1. ASSUME NEW d, Smtp!EditTemplate(d)  PROVE Traffic
    BY <1>1 DEF Smtp!EditTemplate
  <1>2. ASSUME NEW d, Smtp!ToggleTemplate(d)  PROVE Traffic
    BY <1>2 DEF Smtp!ToggleTemplate, Smtp!flushTemplateDraft
  <1>3. ASSUME NEW key, Smtp!handleSelectTemplate(key)  PROVE Traffic
    BY <1>3 DEF Smtp!handleSelectTemplate, Smtp!loadTemplateIntoForm,
           Smtp!flushTemplateDraft
  <1>4. ASSUME NEW host, NEW typed, Smtp!EditAccount(host, typed)  PROVE Traffic
    BY <1>4 DEF Smtp!EditAccount
  <1>5. CASE Smtp!ProgrammaticEnds
    BY <1>5 DEF Smtp!ProgrammaticEnds
  <1>6. CASE Smtp!ToggleActive
    BY <1>6 DEF Smtp!ToggleActive, Smtp!hasValidCredentials
  <1>7. CASE Smtp!handleSaveSettings
    BY <1>7 DEF Smtp!handleSaveSettings, Smtp!AccountButtons,
           Smtp!flushTemplateDraft, Smtp!hasValidCredentials, Smtp!CanCall,
           Smtp!Ready, Smtp!Send
  <1>8. CASE Smtp!handleTestConnection
    BY <1>8 DEF Smtp!handleTestConnection, Smtp!AccountButtons,
           Smtp!flushTemplateDraft, Smtp!CanCall, Smtp!None, Smtp!Ready,
           Smtp!Send
  <1>9. CASE Smtp!handleSaveTemplate
    BY <1>9 DEF Smtp!handleSaveTemplate, Smtp!TemplateForm, Smtp!CanCall,
           Smtp!Ready, Smtp!Send, Smtp!Submit
  <1>10. ASSUME NEW r \in net, NEW out, Smtp!FetchedData(r, out)  PROVE Traffic
    BY <1>10 DEF Smtp!FetchedData, Smtp!loadTemplateIntoForm, Smtp!Settle
  <1>11. ASSUME NEW r \in net, NEW out, Smtp!SettingsSaved(r, out)  PROVE Traffic
    BY <1>11 DEF Smtp!SettingsSaved, Smtp!Freed, Smtp!Settle
  <1>12. ASSUME NEW r \in net, NEW out, Smtp!Tested(r, out)  PROVE Traffic
    BY <1>12 DEF Smtp!Tested, Smtp!Settle
  <1>13. ASSUME NEW r \in net, NEW out, Smtp!TemplateSaved(r, out)  PROVE Traffic
    BY <1>13 DEF Smtp!TemplateSaved, Smtp!Freed, Smtp!Settle
  <1>14. QED
    BY <1>1, <1>2, <1>3, <1>4, <1>5, <1>6, <1>7, <1>8, <1>9, <1>10, <1>11,
       <1>12, <1>13
       DEF SmtpStep, Smtp!Click, Smtp!Answer

LEMMA ProfileAsk ==
  /\ \A S : Profile!Cardinality(S) = Cardinality(S)
  /\ \A c, t, a : Profile!Ask(c, t, a) = Ask(c, t, a)
PROOF
  <1>1. ASSUME NEW S  PROVE Profile!Cardinality(S) = Cardinality(S)
    BY DEF Profile!Cardinality, Cardinality
  <1>2. ASSUME NEW c, NEW t, NEW a  PROVE Profile!Ask(c, t, a) = Ask(c, t, a)
    <2>1. Profile!Cardinality(c) = Cardinality(c)
      BY <1>1
    <2>2. QED
      BY <2>1, Zenon DEF Profile!Ask, Profile!Free, Ask, Free
  <1>3. QED
    BY <1>1, <1>2

LEMMA ProfileTraffic == ASSUME ProfileStep  PROVE Traffic
PROOF
  <1>0. Endpoints(ui.page) =
          {"refresh", "name", "password", "webhook", "secret"}
    BY DEF ProfileStep, On, Endpoints
  <1> USE ProfileAsk, <1>0 DEF Traffic, Follows, Costly, CanCall
  <1>1. ASSUME NEW n, Profile!EditName(n)  PROVE Traffic
    BY <1>1 DEF Profile!EditName
  <1>2. ASSUME NEW u, Profile!EditUrl(u)  PROVE Traffic
    BY <1>2 DEF Profile!EditUrl
  <1>3. CASE Profile!onUpdateName
    BY <1>3 DEF Profile!onUpdateName, Profile!NameForm, Profile!CanCall,
           Profile!Ready, Profile!Send
  <1>4. CASE Profile!onChangePassword
    BY <1>4 DEF Profile!onChangePassword, Profile!PasswordForm,
           Profile!CanCall, Profile!Ready, Profile!Send, Profile!Submit
  <1>5. CASE Profile!onSaveWebhook
    BY <1>5 DEF Profile!onSaveWebhook, Profile!saveWebhook, Profile!Send,
           Profile!CanCall
  <1>6. CASE Profile!onRegenerateSecret
    BY <1>6 DEF Profile!onRegenerateSecret, Profile!saveWebhook, Profile!Send,
           Profile!CanCall
  <1>7. CASE Profile!onClearWebhook
    BY <1>7 DEF Profile!onClearWebhook, Profile!saveWebhook, Profile!Send,
           Profile!CanCall
  <1>8. CASE Profile!DismissSecret
    BY <1>8 DEF Profile!DismissSecret
  <1>9. ASSUME NEW r \in net, NEW out, Profile!Refreshed(r, out)  PROVE Traffic
    BY <1>9 DEF Profile!Refreshed, Profile!Freed, Profile!Settle
  <1>10. ASSUME NEW r \in net, NEW out, Profile!NameUpdated(r, out)  PROVE Traffic
    BY <1>10 DEF Profile!NameUpdated, Profile!patchSidebarName, Profile!Freed,
           Profile!Settle
  <1>11. ASSUME NEW r \in net, NEW out, Profile!PasswordChanged(r, out)  PROVE Traffic
    BY <1>11 DEF Profile!PasswordChanged, Profile!Freed, Profile!Settle
  <1>12. ASSUME NEW r \in net, NEW out, Profile!WebhookSaved(r, out)  PROVE Traffic
    BY <1>12 DEF Profile!WebhookSaved, Profile!Freed, Profile!Settle
  <1>13. QED
    BY <1>1, <1>2, <1>3, <1>4, <1>5, <1>6, <1>7, <1>8, <1>9, <1>10, <1>11,
       <1>12
       DEF ProfileStep, Profile!Click, Profile!Answer

LEMMA DomainAsk ==
  /\ \A S : Domain!Cardinality(S) = Cardinality(S)
  /\ \A c, t, a : Domain!Ask(c, t, a) = Ask(c, t, a)
PROOF
  <1>1. ASSUME NEW S  PROVE Domain!Cardinality(S) = Cardinality(S)
    BY DEF Domain!Cardinality, Cardinality
  <1>2. ASSUME NEW c, NEW t, NEW a  PROVE Domain!Ask(c, t, a) = Ask(c, t, a)
    <2>1. Domain!Cardinality(c) = Cardinality(c)
      BY <1>1
    <2>2. QED
      BY <2>1, Zenon DEF Domain!Ask, Domain!Free, Ask, Free
  <1>3. QED
    BY <1>1, <1>2

LEMMA DomainTraffic == ASSUME DomainStep  PROVE Traffic
PROOF
  <1>0. Endpoints(ui.page) =
          {"domains", "add", "upload", "toggle", "delete"}
    BY DEF DomainStep, On, Endpoints
  <1> USE DomainAsk, <1>0 DEF Traffic, Follows, Costly, CanCall
  <1>1. ASSUME NEW t, Domain!TypeFilter(t)  PROVE Traffic
    BY <1>1 DEF Domain!TypeFilter
  <1>2. ASSUME NEW n, Domain!TurnPage(n)  PROVE Traffic
    BY <1>2 DEF Domain!TurnPage, Domain!Ready
  <1>3. CASE Domain!Debounced
    BY <1>3 DEF Domain!Debounced, Domain!fetchDomains, Domain!Query,
           Domain!CanCall
  <1>4. CASE Domain!handleAddSubmit
    BY <1>4 DEF Domain!handleAddSubmit, Domain!AddForm, Domain!Lists,
           Domain!Query, Domain!CanCall, Domain!Ready, Domain!Send
  <1>5. CASE Domain!handleFileUpload
    BY <1>5 DEF Domain!handleFileUpload, Domain!Query, Domain!CanCall,
           Domain!Send
  <1>6. ASSUME NEW d, Domain!handleToggleExcluded(d)  PROVE Traffic
    BY <1>6 DEF Domain!handleToggleExcluded, Domain!RowButtons,
           Domain!CanCall, Domain!Send
  <1>7. ASSUME NEW d, Domain!handleDeleteDomain(d)  PROVE Traffic
    BY <1>7 DEF Domain!handleDeleteDomain, Domain!RowButtons, Domain!CanCall,
           Domain!Send
  <1>8. ASSUME NEW r \in net, NEW out, Domain!FetchedDomains(r, out)  PROVE Traffic
    BY <1>8 DEF Domain!FetchedDomains, Domain!Freed, Domain!Settle
  <1>9. ASSUME NEW r \in net, NEW out, Domain!DomainsAdded(r, out)  PROVE Traffic
    BY <1>9 DEF Domain!DomainsAdded, Domain!fetchDomains, Domain!Freed
  <1>10. ASSUME NEW r \in net, NEW out, Domain!ExcludedToggled(r, out)  PROVE Traffic
    BY <1>10 DEF Domain!ExcludedToggled, Domain!None, Domain!Settle
  <1>11. ASSUME NEW r \in net, NEW out, Domain!DomainDeleted(r, out)  PROVE Traffic
    BY <1>11 DEF Domain!DomainDeleted, Domain!None, Domain!Settle
  <1>12. QED
    BY <1>1, <1>2, <1>3, <1>4, <1>5, <1>6, <1>7, <1>8, <1>9, <1>10, <1>11
       DEF DomainStep, Domain!Click, Domain!Answer

LEMMA JobListAsk ==
  /\ \A S : JobList!Cardinality(S) = Cardinality(S)
  /\ \A c, t, a : JobList!Ask(c, t, a) = Ask(c, t, a)
PROOF
  <1>1. ASSUME NEW S  PROVE JobList!Cardinality(S) = Cardinality(S)
    BY DEF JobList!Cardinality, Cardinality
  <1>2. ASSUME NEW c, NEW t, NEW a  PROVE JobList!Ask(c, t, a) = Ask(c, t, a)
    <2>1. JobList!Cardinality(c) = Cardinality(c)
      BY <1>1
    <2>2. QED
      BY <2>1, Zenon DEF JobList!Ask, JobList!Free, Ask, Free
  <1>3. QED
    BY <1>1, <1>2

LEMMA JobListTraffic == ASSUME JobListStep  PROVE Traffic
PROOF
  <1>0. Endpoints(ui.page) =
          {"jobs", "delete", "retry", "pause", "resume"}
    BY DEF JobListStep, On, Endpoints
  <1> USE JobListAsk, <1>0 DEF Traffic, Follows, Costly, CanCall
  <1>1. CASE JobList!Refresh
    BY <1>1 DEF JobList!Refresh, JobList!fetchJobs, JobList!Skeletons,
           JobList!OfPage, JobList!total, JobList!rows, JobList!Newer,
           JobList!StoreEmpty, JobList!CanCall
  <1>2. ASSUME NEW offset, JobList!TurnPage(offset)  PROVE Traffic
    BY <1>2 DEF JobList!TurnPage, JobList!rows, JobList!total,
           JobList!fetchJobs, JobList!StoreEmpty, JobList!OfPage,
           JobList!Newer, JobList!CanCall, JobList!Ready
  <1>3. ASSUME NEW j, JobList!handleDeleteJob(j)  PROVE Traffic
    BY <1>3 DEF JobList!handleDeleteJob, JobList!Act, JobList!Offered,
           JobList!Allowed, JobList!Carried, JobList!rows, JobList!StoreEmpty,
           JobList!CanCall, JobList!Send
  <1>4. ASSUME NEW j, JobList!handleRetryJob(j)  PROVE Traffic
    BY <1>4 DEF JobList!handleRetryJob, JobList!Act, JobList!Offered,
           JobList!Allowed, JobList!Carried, JobList!rows, JobList!StoreEmpty,
           JobList!CanCall, JobList!Send
  <1>5. ASSUME NEW j, JobList!handlePauseJob(j)  PROVE Traffic
    BY <1>5 DEF JobList!handlePauseJob, JobList!Act, JobList!Offered,
           JobList!Allowed, JobList!Carried, JobList!rows, JobList!StoreEmpty,
           JobList!CanCall, JobList!Send
  <1>6. ASSUME NEW j, JobList!handleResumeJob(j)  PROVE Traffic
    BY <1>6 DEF JobList!handleResumeJob, JobList!Act, JobList!Offered,
           JobList!Allowed, JobList!Carried, JobList!rows, JobList!StoreEmpty,
           JobList!CanCall, JobList!Send
  <1>7. ASSUME NEW j, JobList!JobUpdate(j)  PROVE Traffic
    BY <1>7 DEF JobList!JobUpdate, JobList!updateJob
  <1>8. ASSUME NEW j, NEW status, JobList!Finish(j, status)  PROVE Traffic
    BY <1>8 DEF JobList!Finish
  <1>9. ASSUME NEW r \in net, NEW out, JobList!FetchedJobs(r, out)  PROVE Traffic
    BY <1>9 DEF JobList!FetchedJobs, JobList!Freed, JobList!Settle
  <1>10. ASSUME NEW r \in net, NEW out, JobList!Acted(r, out)  PROVE Traffic
    BY <1>10 DEF JobList!Acted, JobList!fetchJobs, JobList!Skeletons,
           JobList!OfPage, JobList!total, JobList!rows, JobList!Newer,
           JobList!StoreEmpty
  <1>11. QED
    BY <1>1, <1>2, <1>3, <1>4, <1>5, <1>6, <1>7, <1>8, <1>9, <1>10
       DEF JobListStep, JobList!Click, JobList!Answer

LEMMA UploadAsk ==
  /\ \A S : Upload!Cardinality(S) = Cardinality(S)
  /\ \A c, t, a : Upload!Ask(c, t, a) = Ask(c, t, a)
PROOF
  <1>1. ASSUME NEW S  PROVE Upload!Cardinality(S) = Cardinality(S)
    BY DEF Upload!Cardinality, Cardinality
  <1>2. ASSUME NEW c, NEW t, NEW a  PROVE Upload!Ask(c, t, a) = Ask(c, t, a)
    <2>1. Upload!Cardinality(c) = Cardinality(c)
      BY <1>1
    <2>2. QED
      BY <2>1, Zenon DEF Upload!Ask, Upload!Free, Ask, Free
  <1>3. QED
    BY <1>1, <1>2

LEMMA UploadTraffic == ASSUME UploadStep  PROVE Traffic
PROOF
  <1>0. Endpoints(ui.page) =
          {"upload", "stats"}
    BY DEF UploadStep, On, Endpoints
  <1> USE UploadAsk, <1>0 DEF Traffic, Follows, Costly, CanCall
  <1>1. CASE Upload!SelectFile
    BY <1>1 DEF Upload!SelectFile, Upload!handleDrop, Upload!ChooseFile,
           Upload!handleFileSelect, Upload!Ready
  <1>2. CASE Upload!ClearFile
    BY <1>2 DEF Upload!ClearFile
  <1>3. CASE Upload!handleUpload
    BY <1>3 DEF Upload!handleUpload, Upload!UploadButton, Upload!available,
           Upload!Mint, Upload!Submission, Upload!CanCall, Upload!Ready,
           Upload!Send
  <1>4. CASE Upload!StatsPushed
    BY <1>4 DEF Upload!StatsPushed, Upload!SetStats
  <1>5. ASSUME NEW r \in net, NEW out, Upload!Uploaded(r, out)  PROVE Traffic
    BY <1>5 DEF Upload!Uploaded, Upload!Fetching
  <1>6. ASSUME NEW r \in net, NEW out, Upload!FetchedStats(r, out)  PROVE Traffic
    BY <1>6 DEF Upload!FetchedStats, Upload!SetStats, Upload!Freed,
           Upload!Settle
  <1>7. QED
    BY <1>1, <1>2, <1>3, <1>4, <1>5, <1>6
       DEF UploadStep, Upload!Click, Upload!Answer

LEMMA VerifyAsk ==
  /\ \A S : Verify!Cardinality(S) = Cardinality(S)
  /\ \A c, t, a : Verify!Ask(c, t, a) = Ask(c, t, a)
PROOF
  <1>1. ASSUME NEW S  PROVE Verify!Cardinality(S) = Cardinality(S)
    BY DEF Verify!Cardinality, Cardinality
  <1>2. ASSUME NEW c, NEW t, NEW a  PROVE Verify!Ask(c, t, a) = Ask(c, t, a)
    <2>1. Verify!Cardinality(c) = Cardinality(c)
      BY <1>1
    <2>2. QED
      BY <2>1, Zenon DEF Verify!Ask, Verify!Free, Ask, Free
  <1>3. QED
    BY <1>1, <1>2

LEMMA VerifyTraffic == ASSUME VerifyStep  PROVE Traffic
PROOF
  <1>0. Endpoints(ui.page) =
          {"verify", "stats"}
    BY DEF VerifyStep, On, Endpoints
  <1> USE VerifyAsk, <1>0 DEF Traffic, Follows, Costly, CanCall
  <1>1. ASSUME NEW e, Verify!TypeEmail(e)  PROVE Traffic
    BY <1>1 DEF Verify!TypeEmail, Verify!Form, Verify!Ready
  <1>2. CASE Verify!handleVerify
    BY <1>2 DEF Verify!handleVerify, Verify!Debited, Verify!Ready,
           Verify!Form, Verify!Send, Verify!SetStats, Verify!CanCall
  <1>3. CASE Verify!StatsUpdate
    BY <1>3 DEF Verify!StatsUpdate, Verify!SetStats
  <1>4. CASE Verify!CreditUpdate
    BY <1>4 DEF Verify!CreditUpdate
  <1>5. CASE Verify!UserUpdate
    BY <1>5 DEF Verify!UserUpdate, Verify!Fetching, Verify!CanCall
  <1>6. ASSUME NEW c, Verify!Elsewhere(c)  PROVE Traffic
    BY <1>6 DEF Verify!Elsewhere
  <1>7. ASSUME NEW r \in net, NEW out, Verify!Verified(r, out)  PROVE Traffic
    BY <1>7 DEF Verify!Verified, Verify!Fetching, Verify!Loading,
           Verify!Freed, Verify!RolledBack, Verify!SetStats
  <1>8. ASSUME NEW r \in net, NEW out, Verify!FetchedStats(r, out)  PROVE Traffic
    BY <1>8 DEF Verify!FetchedStats, Verify!SetStats, Verify!Freed,
           Verify!Settle
  <1>9. QED
    BY <1>1, <1>2, <1>3, <1>4, <1>5, <1>6, <1>7, <1>8
       DEF VerifyStep, Verify!Click, Verify!Answer

LEMMA PaymentAsk ==
  /\ \A S : Payment!Cardinality(S) = Cardinality(S)
  /\ \A c, t, a : Payment!Ask(c, t, a) = Ask(c, t, a)
PROOF
  <1>1. ASSUME NEW S  PROVE Payment!Cardinality(S) = Cardinality(S)
    BY DEF Payment!Cardinality, Cardinality
  <1>2. ASSUME NEW c, NEW t, NEW a  PROVE Payment!Ask(c, t, a) = Ask(c, t, a)
    <2>1. Payment!Cardinality(c) = Cardinality(c)
      BY <1>1
    <2>2. QED
      BY <2>1, Zenon DEF Payment!Ask, Payment!Free, Ask, Free
  <1>3. QED
    BY <1>1, <1>2

LEMMA PaymentTraffic == ASSUME PaymentStep  PROVE Traffic
PROOF
  <1>0. Endpoints(ui.page) =
          {"save", "test"}
    BY DEF PaymentStep, On, Endpoints
  <1> USE PaymentAsk, <1>0 DEF Traffic, Follows, Costly, CanCall
  <1>1. ASSUME NEW next, Payment!handleProviderSwitch(next)  PROVE Traffic
    BY <1>1 DEF Payment!handleProviderSwitch, Payment!formFromGateway
  <1>2. ASSUME NEW enabled, NEW typed, Payment!EditForm(enabled, typed)  PROVE Traffic
    BY <1>2 DEF Payment!EditForm
  <1>3. CASE Payment!onSubmit
    BY <1>3 DEF Payment!onSubmit, Payment!SaveButton,
           Payment!validateBeforeSubmit, Payment!CanCall, Payment!Ready,
           Payment!Send, Payment!Submit
  <1>4. CASE Payment!testGateway
    BY <1>4 DEF Payment!testGateway, Payment!TestButton, Payment!CanCall,
           Payment!Ready, Payment!Send, Payment!Submit
  <1>5. ASSUME NEW r \in net, NEW out, Payment!Saved(r, out)  PROVE Traffic
    BY <1>5 DEF Payment!Saved, Payment!formFromGateway, Payment!Freed,
           Payment!Settle
  <1>6. ASSUME NEW r \in net, NEW out, Payment!Tested(r, out)  PROVE Traffic
    BY <1>6 DEF Payment!Tested, Payment!Freed, Payment!Settle
  <1>7. QED
    BY <1>1, <1>2, <1>3, <1>4, <1>5, <1>6
       DEF PaymentStep, Payment!Click, Payment!Answer

LEMMA CreditAsk ==
  /\ \A S : Credit!Cardinality(S) = Cardinality(S)
  /\ \A c, t, a : Credit!Ask(c, t, a) = Ask(c, t, a)
PROOF
  <1>1. ASSUME NEW S  PROVE Credit!Cardinality(S) = Cardinality(S)
    BY DEF Credit!Cardinality, Cardinality
  <1>2. ASSUME NEW c, NEW t, NEW a  PROVE Credit!Ask(c, t, a) = Ask(c, t, a)
    <2>1. Credit!Cardinality(c) = Cardinality(c)
      BY <1>1
    <2>2. QED
      BY <2>1, Zenon DEF Credit!Ask, Credit!Free, Ask, Free
  <1>3. QED
    BY <1>1, <1>2

LEMMA CreditTraffic == ASSUME CreditStep  PROVE Traffic
PROOF
  <1>0. Endpoints(ui.page) =
          {"packages", "cancel", "capture", "pay"}
    BY DEF CreditStep, On, Endpoints
  <1> USE CreditAsk, <1>0 DEF Traffic, Follows, Costly, CanCall
  <1>1. CASE Credit!HandleReturn
    BY <1>1 DEF Credit!HandleReturn, Credit!CanCall, Credit!None, Credit!Send
  <1>2. CASE Credit!CloseCheckout
    BY <1>2 DEF Credit!CloseCheckout, Credit!None, Credit!Ready
  <1>3. ASSUME NEW p, Credit!SelectPackage(p)  PROVE Traffic
    BY <1>3 DEF Credit!SelectPackage, Credit!None
  <1>4. CASE Credit!handleCryptoPurchase
    BY <1>4 DEF Credit!handleCryptoPurchase, Credit!Purchase, Credit!Checkout,
           Credit!CanCall, Credit!None, Credit!Ready, Credit!Send,
           Credit!Submit
  <1>5. CASE Credit!handleStripePurchase
    BY <1>5 DEF Credit!handleStripePurchase, Credit!Purchase, Credit!Checkout,
           Credit!CanCall, Credit!None, Credit!Ready, Credit!Send,
           Credit!Submit
  <1>6. CASE Credit!handlePaypalPurchase
    BY <1>6 DEF Credit!handlePaypalPurchase, Credit!Purchase, Credit!Checkout,
           Credit!CanCall, Credit!None, Credit!Ready, Credit!Send,
           Credit!Submit
  <1>7. ASSUME NEW r \in net, NEW out, Credit!Fetched(r, out)  PROVE Traffic
    BY <1>7 DEF Credit!Fetched, Credit!setPackages, Credit!Freed,
           Credit!Settle
  <1>8. ASSUME NEW r \in net, NEW out, Credit!ReturnHandled(r, out)  PROVE Traffic
    BY <1>8 DEF Credit!ReturnHandled
  <1>9. ASSUME NEW r \in net, NEW out, Credit!CheckoutCreated(r, out)  PROVE Traffic
    BY <1>9 DEF Credit!CheckoutCreated, Credit!SettleAndAsk
  <1>10. ASSUME NEW r \in net, Credit!CheckoutOpened(r)  PROVE Traffic
    BY <1>10 DEF Credit!CheckoutOpened, Credit!Leave
  <1>11. QED
    BY <1>1, <1>2, <1>3, <1>4, <1>5, <1>6, <1>7, <1>8, <1>9, <1>10
       DEF CreditStep, Credit!Click, Credit!Answer

LEMMA HistoryAsk ==
  /\ \A S : History!Cardinality(S) = Cardinality(S)
  /\ \A c, t, a : History!Ask(c, t, a) = Ask(c, t, a)
PROOF
  <1>1. ASSUME NEW S  PROVE History!Cardinality(S) = Cardinality(S)
    BY DEF History!Cardinality, Cardinality
  <1>2. ASSUME NEW c, NEW t, NEW a  PROVE History!Ask(c, t, a) = Ask(c, t, a)
    <2>1. History!Cardinality(c) = Cardinality(c)
      BY <1>1
    <2>2. QED
      BY <2>1, Zenon DEF History!Ask, History!Free, Ask, Free
  <1>3. QED
    BY <1>1, <1>2

LEMMA HistoryTraffic == ASSUME HistoryStep  PROVE Traffic
PROOF
  <1>0. Endpoints(ui.page) =
          {"stats", "history"}
    BY DEF HistoryStep, On, Endpoints
  <1> USE HistoryAsk, <1>0 DEF Traffic, Follows, Costly, CanCall
  <1>1. CASE History!OnFocus
    BY <1>1 DEF History!OnFocus, History!fetchData, History!CanCall,
           History!Send
  <1>2. CASE History!Recorded
    BY <1>2 DEF History!Recorded
  <1>3. ASSUME NEW offset, History!TurnPage(offset)  PROVE Traffic
    BY <1>3 DEF History!TurnPage, History!fetchData, History!CanCall,
           History!Send
  <1>4. ASSUME NEW r \in net, NEW out, History!StatsFetched(r, out)  PROVE Traffic
    BY <1>4 DEF History!StatsFetched, History!Settle, History!SettleAndAsk
  <1>5. ASSUME NEW r \in net, NEW out, History!TransactionsFetched(r, out)  PROVE Traffic
    BY <1>5 DEF History!TransactionsFetched, History!Settle
  <1>6. QED
    BY <1>1, <1>2, <1>3, <1>4, <1>5
       DEF HistoryStep, History!Click, History!Answer

LEMMA TransferAsk ==
  /\ \A S : Transfer!Cardinality(S) = Cardinality(S)
  /\ \A c, t, a : Transfer!Ask(c, t, a) = Ask(c, t, a)
PROOF
  <1>1. ASSUME NEW S  PROVE Transfer!Cardinality(S) = Cardinality(S)
    BY DEF Transfer!Cardinality, Cardinality
  <1>2. ASSUME NEW c, NEW t, NEW a  PROVE Transfer!Ask(c, t, a) = Ask(c, t, a)
    <2>1. Transfer!Cardinality(c) = Cardinality(c)
      BY <1>1
    <2>2. QED
      BY <2>1, Zenon DEF Transfer!Ask, Transfer!Free, Ask, Free
  <1>3. QED
    BY <1>1, <1>2

LEMMA TransferTraffic == ASSUME TransferStep  PROVE Traffic
PROOF
  <1>0. Endpoints(ui.page) =
          {"transfer", "stats"}
    BY DEF TransferStep, On, Endpoints
  <1> USE TransferAsk, <1>0 DEF Traffic, Follows, Costly, CanCall
  <1>1. ASSUME NEW n, Transfer!Enter(n)  PROVE Traffic
    BY <1>1 DEF Transfer!Enter, Transfer!Form, Transfer!Ready
  <1>2. CASE Transfer!onTransfer
    BY <1>2 DEF Transfer!onTransfer, Transfer!Form, Transfer!CanCall,
           Transfer!Ready, Transfer!Send
  <1>3. CASE Transfer!StatsUpdate
    BY <1>3 DEF Transfer!StatsUpdate, Transfer!SetStats
  <1>4. CASE Transfer!CreditUpdate
    BY <1>4 DEF Transfer!CreditUpdate
  <1>5. CASE Transfer!UserUpdate
    BY <1>5 DEF Transfer!UserUpdate, Transfer!Fetching, Transfer!CanCall
  <1>6. ASSUME NEW r \in net, NEW out, Transfer!Transferred(r, out)  PROVE Traffic
    BY <1>6 DEF Transfer!Transferred, Transfer!Fetching
  <1>7. ASSUME NEW r \in net, NEW out, Transfer!FetchedStats(r, out)  PROVE Traffic
    BY <1>7 DEF Transfer!FetchedStats, Transfer!SetStats, Transfer!Freed,
           Transfer!Settle
  <1>8. QED
    BY <1>1, <1>2, <1>3, <1>4, <1>5, <1>6, <1>7
       DEF TransferStep, Transfer!Click, Transfer!Answer

LEMMA SecurityAsk ==
  /\ \A S : Security!Cardinality(S) = Cardinality(S)
  /\ \A c, t, a : Security!Ask(c, t, a) = Ask(c, t, a)
PROOF
  <1>1. ASSUME NEW S  PROVE Security!Cardinality(S) = Cardinality(S)
    BY DEF Security!Cardinality, Cardinality
  <1>2. ASSUME NEW c, NEW t, NEW a  PROVE Security!Ask(c, t, a) = Ask(c, t, a)
    <2>1. Security!Cardinality(c) = Cardinality(c)
      BY <1>1
    <2>2. QED
      BY <2>1, Zenon DEF Security!Ask, Security!Free, Ask, Free
  <1>3. QED
    BY <1>1, <1>2

LEMMA SecurityTraffic == ASSUME SecurityStep  PROVE Traffic
PROOF
  <1>0. Endpoints(ui.page) =
          {"dashboard", "verify-logs", "blocklist", "settings", "unblock"}
    BY DEF SecurityStep, On, Endpoints
  <1> USE SecurityAsk, <1>0 DEF Traffic, Follows, Costly, CanCall
  <1>1. CASE Security!ForceSync
    BY <1>1 DEF Security!ForceSync, Security!initialize, Security!Read,
           Security!Newest, Security!First, Security!CanCall
  <1>2. CASE Security!Visit
    BY <1>2 DEF Security!Visit
  <1>3. CASE Security!Block
    BY <1>3 DEF Security!Block
  <1>4. ASSUME NEW l, Security!addLog(l)  PROVE Traffic
    BY <1>4 DEF Security!addLog, Security!Shown, Security!First
  <1>5. ASSUME NEW b, Security!addBlocked(b)  PROVE Traffic
    BY <1>5 DEF Security!addBlocked
  <1>6. ASSUME NEW b, Security!unblockClient(b)  PROVE Traffic
    BY <1>6 DEF Security!unblockClient, Security!CanCall
  <1>7. ASSUME NEW c, Security!handleSettingsUpdate(c)  PROVE Traffic
    BY <1>7 DEF Security!handleSettingsUpdate, Security!CanCall
  <1>8. ASSUME NEW r \in net, NEW out, Security!LoadedDashboard(r, out)  PROVE Traffic
    BY <1>8 DEF Security!LoadedDashboard, Security!Read, Security!Newest,
           Security!First
  <1>9. ASSUME NEW r \in net, NEW out, Security!LoadedLogs(r, out)  PROVE Traffic
    BY <1>9 DEF Security!LoadedLogs, Security!Read, Security!Newest,
           Security!First
  <1>10. ASSUME NEW r \in net, NEW out, Security!LoadedBlocklist(r, out)  PROVE Traffic
    BY <1>10 DEF Security!LoadedBlocklist, Security!Settle
  <1>11. ASSUME NEW r \in net, NEW out, Security!SettingsUpdated(r, out)  PROVE Traffic
    BY <1>11 DEF Security!SettingsUpdated, Security!Settle
  <1>12. ASSUME NEW r \in net, NEW out, Security!Unblocked(r, out)  PROVE Traffic
    BY <1>12 DEF Security!Unblocked, Security!Settle
  <1>13. QED
    BY <1>1, <1>2, <1>3, <1>4, <1>5, <1>6, <1>7, <1>8, <1>9, <1>10, <1>11,
       <1>12
       DEF SecurityStep, Security!Click, Security!Answer

LEMMA JobDetailsAsk ==
  /\ \A S : JobDetails!Cardinality(S) = Cardinality(S)
  /\ \A c, t, a : JobDetails!Ask(c, t, a) = Ask(c, t, a)
PROOF
  <1>1. ASSUME NEW S  PROVE JobDetails!Cardinality(S) = Cardinality(S)
    BY DEF JobDetails!Cardinality, Cardinality
  <1>2. ASSUME NEW c, NEW t, NEW a  PROVE JobDetails!Ask(c, t, a) = Ask(c, t, a)
    <2>1. JobDetails!Cardinality(c) = Cardinality(c)
      BY <1>1
    <2>2. QED
      BY <2>1, Zenon DEF JobDetails!Ask, JobDetails!Free, Ask, Free
  <1>3. QED
    BY <1>1, <1>2

LEMMA JobDetailsTraffic == ASSUME JobDetailsStep  PROVE Traffic
PROOF
  <1>0. Endpoints(ui.page) =
          {"status", "retry", "pause", "resume", "delete"}
    BY DEF JobDetailsStep, On, Endpoints
  <1> USE JobDetailsAsk, <1>0 DEF Traffic, Follows, Costly, CanCall
  <1>1. CASE JobDetails!JobUpdate
    BY <1>1 DEF JobDetails!JobUpdate, JobDetails!JobStatus
  <1>2. CASE JobDetails!handleRetryJob
    BY <1>2 DEF JobDetails!handleRetryJob, JobDetails!Act, JobDetails!Button,
           JobDetails!Allowed, JobDetails!job, JobDetails!CanCall,
           JobDetails!Ready, JobDetails!Send
  <1>3. CASE JobDetails!handlePauseJob
    BY <1>3 DEF JobDetails!handlePauseJob, JobDetails!Act, JobDetails!Button,
           JobDetails!Allowed, JobDetails!job, JobDetails!CanCall,
           JobDetails!Ready, JobDetails!Send
  <1>4. CASE JobDetails!handleResumeJob
    BY <1>4 DEF JobDetails!handleResumeJob, JobDetails!Act, JobDetails!Button,
           JobDetails!Allowed, JobDetails!job, JobDetails!CanCall,
           JobDetails!Ready, JobDetails!Send
  <1>5. CASE JobDetails!handleDeleteJob
    BY <1>5 DEF JobDetails!handleDeleteJob, JobDetails!Act, JobDetails!Button,
           JobDetails!Allowed, JobDetails!job, JobDetails!CanCall,
           JobDetails!Ready, JobDetails!Send
  <1>6. ASSUME NEW status, JobDetails!Finish(status)  PROVE Traffic
    BY <1>6 DEF JobDetails!Finish
  <1>7. ASSUME NEW r \in net, NEW out, JobDetails!FetchedDetails(r, out)  PROVE Traffic
    BY <1>7 DEF JobDetails!FetchedDetails, JobDetails!Mine, JobDetails!Settle
  <1>8. ASSUME NEW r \in net, NEW out, JobDetails!Acted(r, out)  PROVE Traffic
    BY <1>8 DEF JobDetails!Acted, JobDetails!fetchJobDetails, JobDetails!Freed
  <1>9. ASSUME NEW r \in net, NEW out, JobDetails!Deleted(r, out)  PROVE Traffic
    BY <1>9 DEF JobDetails!Deleted, JobDetails!Settle, JobDetails!SettleAndAsk
  <1>10. ASSUME NEW r \in net, JobDetails!ListShown(r)  PROVE Traffic
    BY <1>10 DEF JobDetails!ListShown, JobDetails!Leave
  <1>11. QED
    BY <1>1, <1>2, <1>3, <1>4, <1>5, <1>6, <1>7, <1>8, <1>9, <1>10
       DEF JobDetailsStep, JobDetails!Click, JobDetails!Answer

LEMMA HomeAsk ==
  /\ \A S : Home!Cardinality(S) = Cardinality(S)
  /\ \A c, t, a : Home!Ask(c, t, a) = Ask(c, t, a)
PROOF
  <1>1. ASSUME NEW S  PROVE Home!Cardinality(S) = Cardinality(S)
    BY DEF Home!Cardinality, Cardinality
  <1>2. ASSUME NEW c, NEW t, NEW a  PROVE Home!Ask(c, t, a) = Ask(c, t, a)
    <2>1. Home!Cardinality(c) = Cardinality(c)
      BY <1>1
    <2>2. QED
      BY <2>1, Zenon DEF Home!Ask, Home!Free, Ask, Free
  <1>3. QED
    BY <1>1, <1>2

LEMMA HomeTraffic == ASSUME HomeStep  PROVE Traffic
PROOF
  <1>0. Endpoints(ui.page) =
          {"status", "verify", "config"}
    BY DEF HomeStep, On, Endpoints
  <1> USE HomeAsk, <1>0 DEF Traffic, Follows, Costly, CanCall
  <1>1. CASE Home!TypeEmail
    BY <1>1 DEF Home!TypeEmail
  <1>2. ASSUME NEW u, NEW token, Home!submitVerify(u, token)  PROVE Traffic
    BY <1>2 DEF Home!submitVerify, Home!Send, Home!CanCall
  <1>3. CASE Home!handleVerify
    BY <1>2, <1>3 DEF Home!handleVerify, Home!Leave
  <1>4. CASE Home!handleTurnstileToken
    BY <1>2, <1>4 DEF Home!handleTurnstileToken
  <1>5. ASSUME NEW r \in net, NEW out, Home!FetchedStatus(r, out)  PROVE Traffic
    BY <1>5 DEF Home!FetchedStatus, Home!Settle
  <1>6. ASSUME NEW r \in net, NEW out, Home!ConfigFetched(r, out)  PROVE Traffic
    BY <1>6 DEF Home!ConfigFetched, Home!Settle, Home!Recovered, Home!Freed
  <1>7. ASSUME NEW r \in net, NEW out, Home!Verified(r, out)  PROVE Traffic
    BY <1>7 DEF Home!Verified, Home!Finished, Home!Freed,
           Home!recoverCaptchaChallenge, Home!Recovered, Home!Challenged,
           Home!fetchStatus
  <1>8. QED
    BY <1>1, <1>3, <1>4, <1>5, <1>6, <1>7 DEF HomeStep, Home!Click, Home!Answer

LEMMA ContactAsk ==
  /\ \A S : Contact!Cardinality(S) = Cardinality(S)
  /\ \A c, t, a : Contact!Ask(c, t, a) = Ask(c, t, a)
PROOF
  <1>1. ASSUME NEW S  PROVE Contact!Cardinality(S) = Cardinality(S)
    BY DEF Contact!Cardinality, Cardinality
  <1>2. ASSUME NEW c, NEW t, NEW a  PROVE Contact!Ask(c, t, a) = Ask(c, t, a)
    <2>1. Contact!Cardinality(c) = Cardinality(c)
      BY <1>1
    <2>2. QED
      BY <2>1, Zenon DEF Contact!Ask, Contact!Free, Ask, Free
  <1>3. QED
    BY <1>1, <1>2

LEMMA ContactTraffic == ASSUME ContactStep  PROVE Traffic
PROOF
  <1>0. Endpoints(ui.page) =
          {"settings", "contact", "config"}
    BY DEF ContactStep, On, Endpoints
  <1> USE ContactAsk, <1>0 DEF Traffic, Follows, Costly, CanCall
  <1>1. CASE Contact!Fields
    BY <1>1 DEF Contact!Fields
  <1>2. ASSUME NEW u, NEW token, Contact!submitContact(u, token)  PROVE Traffic
    BY <1>2 DEF Contact!submitContact, Contact!None, Contact!Send,
           Contact!CanCall
  <1>3. CASE Contact!handleSubmit
    BY <1>2, <1>3 DEF Contact!handleSubmit
  <1>4. CASE Contact!handleTurnstileToken
    BY <1>2, <1>4 DEF Contact!handleTurnstileToken
  <1>5. ASSUME NEW r \in net, NEW out, Contact!FetchedSettings(r, out)  PROVE Traffic
    BY <1>5 DEF Contact!FetchedSettings, Contact!Settle
  <1>6. ASSUME NEW r \in net, NEW out, Contact!ConfigFetched(r, out)  PROVE Traffic
    BY <1>6 DEF Contact!ConfigFetched, Contact!Settle, Contact!Recovered,
           Contact!Freed
  <1>7. ASSUME NEW r \in net, NEW out, Contact!Sent(r, out)  PROVE Traffic
    BY <1>7 DEF Contact!Sent, Contact!Freed, Contact!Recovered,
           Contact!recoverCaptchaChallenge
  <1>8. QED
    BY <1>1, <1>3, <1>4, <1>5, <1>6, <1>7 DEF ContactStep, Contact!Click, Contact!Answer

LEMMA AccountAsk ==
  /\ \A S : Account!Cardinality(S) = Cardinality(S)
  /\ \A c, t, a : Account!Free(c, t, a) = Free(c, t, a)
  /\ \A c, t, a : Account!Ask(c, t, a) = Ask(c, t, a)
PROOF
  <1>1. ASSUME NEW S  PROVE Account!Cardinality(S) = Cardinality(S)
    BY DEF Account!Cardinality, Cardinality
  <1>2. ASSUME NEW c, NEW t, NEW a
        PROVE  Account!Free(c, t, a) = Free(c, t, a) /\ Account!Ask(c, t, a) = Ask(c, t, a)
    <2>1. Account!Cardinality(c) = Cardinality(c)
      BY <1>1
    <2>2. Account!Free(c, t, a) = Free(c, t, a)
      BY <2>1, Zenon DEF Account!Free, Free
    <2>3. QED
      BY <2>2 DEF Account!Ask, Ask
  <1>3. QED
    BY <1>1, <1>2

\* The pages of the account: a page that is left orphans its requests.
LEMMA AccountTraffic == ASSUME AccountStep, HonestPage  PROVE Traffic
PROOF
  <1>0. Endpoints(ui.page) =
          {"login", "register", "forgot-password", "verify-email",
           "reset-password", "resend-verification", "resend-reset"}
    BY DEF AccountStep, On, Endpoints
  <1>1. ASSUME NEW route, NEW notice, NEW calls \in SUBSET net,
               Account!GoTo(route, notice, calls)
        PROVE  Traffic
    BY <1>1 DEF Traffic, AccountStep, Account!GoTo
  <1>2. ASSUME NEW to, NEW ok, NEW next, NEW srv, Account!Call(to, ok, next, srv),
               to \in Endpoints(ui.page)
        PROVE  Traffic
    BY <1>2, AccountAsk DEF Traffic, CanCall, Account!Call, Account!Send, Account!CanCall
  <1>3. ASSUME NEW route, Account!FollowLink(route)  PROVE Traffic
    BY <1>1, <1>3 DEF Account!FollowLink
  <1>4. ASSUME NEW p, Account!ServerMinute(p)  PROVE Traffic
    BY <1>4 DEF Traffic, Account!ServerMinute
  <1>5. CASE Account!CountedDown
    BY <1>5 DEF Traffic, Account!CountedDown
  <1>6. CASE Account!LoginForm
    BY <1>0, <1>2, <1>6, Zenon DEF Account!LoginForm
  <1>7. CASE Account!RegisterForm
    BY <1>0, <1>2, <1>7 DEF Account!RegisterForm
  <1>8. CASE Account!ForgotPassword
    BY <1>0, <1>2, <1>8 DEF Account!ForgotPassword
  <1>9. ASSUME NEW code, Account!VerifyEmail(code)  PROVE Traffic
    BY <1>0, <1>2, <1>9 DEF Account!VerifyEmail
  <1>10. ASSUME NEW code, Account!ResetPassword(code)  PROVE Traffic
    BY <1>0, <1>2, <1>10 DEF Account!ResetPassword
  <1>11. CASE Account!onResend
    <2>1. Account!Resend(ui.at) \in Endpoints(ui.page)
      BY <1>0, <1>11 DEF Account!onResend, Account!Resend
    <2>2. QED
      BY <1>2, <1>11, <2>1 DEF Account!onResend
  <1>12. ASSUME NEW r \in net, NEW out, Account!Pushed(r, out)  PROVE Traffic
    <2>1. \/ \E route, notice : Account!GoTo(route, notice, net \ {r})
          \/ net' \subseteq net
      BY <1>12 DEF Account!Pushed, Account!Leave
    <2>2. QED
      BY <1>1, <2>1 DEF Traffic
  <1>13. ASSUME NEW r \in net, NEW out, Account!Confirmed(r, out)  PROVE Traffic
    BY <1>13 DEF Traffic, Account!Confirmed
  <1>14. ASSUME NEW r \in net, NEW out, Account!Resent(r, out)  PROVE Traffic
    BY <1>14 DEF Traffic, Account!Resent
  <1>15. QED
    BY <1>3, <1>4, <1>5, <1>6, <1>7, <1>8, <1>9, <1>10, <1>11, <1>12, <1>13, <1>14
       DEF AccountStep, Account!Click, Account!Answer

-----------------------------------------------------------------------------
\* How much the requests in flight may come to: each is one, and a costly one
\* is two, for its answer is followed by two.
Heavy(calls) == {r \in calls : r.to \in Costly}
Load(calls) == Cardinality(calls) + Cardinality(Heavy(calls))
Numbers(calls) ==
  /\ IsFiniteSet(calls)
  /\ Cardinality(calls) \in Nat
  /\ Cardinality(Heavy(calls)) \in Nat

LEMMA Finite ==
  ASSUME NEW calls, IsFiniteSet(calls), NEW T, T \subseteq calls
  PROVE  /\ Numbers(T) /\ Numbers(calls)
         /\ Cardinality(T) <= Cardinality(calls)
         /\ Cardinality(Heavy(T)) <= Cardinality(Heavy(calls))
         /\ Cardinality(Heavy(T)) <= Cardinality(T)
PROOF
  <1>1. Heavy(T) \subseteq T /\ Heavy(calls) \subseteq calls /\ Heavy(T) \subseteq Heavy(calls)
    BY DEF Heavy
  <1>2. IsFiniteSet(T) /\ Cardinality(T) <= Cardinality(calls)
    BY FS_Subset
  <1>3. IsFiniteSet(Heavy(calls))
    BY <1>1, FS_Subset
  <1>4. /\ IsFiniteSet(Heavy(T)) /\ Cardinality(Heavy(T)) <= Cardinality(Heavy(calls))
    BY <1>1, <1>3, FS_Subset
  <1>5. Cardinality(Heavy(T)) <= Cardinality(T)
    BY <1>1, <1>2, FS_Subset
  <1>6. QED
    BY <1>2, <1>3, <1>4, <1>5, FS_CardinalityType DEF Numbers

\* An answered request no longer counts.
LEMMA OneLess ==
  ASSUME NEW calls, IsFiniteSet(calls), NEW r \in calls
  PROVE  /\ Cardinality(calls \ {r}) = Cardinality(calls) - 1
         /\ r.to \in Costly =>
              Cardinality(Heavy(calls \ {r})) = Cardinality(Heavy(calls)) - 1
PROOF
  <1>1. Cardinality(calls \ {r}) = Cardinality(calls) - 1
    BY FS_RemoveElement
  <1>2. ASSUME r.to \in Costly
        PROVE  Cardinality(Heavy(calls \ {r})) = Cardinality(Heavy(calls)) - 1
    <2>1. Heavy(calls \ {r}) = Heavy(calls) \ {r} /\ r \in Heavy(calls)
      BY <1>2 DEF Heavy
    <2>2. IsFiniteSet(Heavy(calls))
      BY FS_Subset DEF Heavy
    <2>3. QED
      BY <2>1, <2>2, FS_RemoveElement
  <1>3. QED
    BY <1>1, <1>2

\* One of n + 1 ids is free among n requests.
LEMMA IdIsFree ==
  ASSUME NEW calls, IsFiniteSet(calls), NEW t, NEW a
  PROVE  Free(calls, t, a) \in 1 .. Cardinality(calls) + 1
PROOF
  <1> DEFINE n == Cardinality(calls)
             Ids == {r.id : r \in calls}
             f == [r \in calls |-> r.id]
  <1>1. n \in Nat
    BY FS_CardinalityType
  <1>2. f \in Surjection(calls, Ids)
    BY DEF Surjection
  <1>3. IsFiniteSet(Ids) /\ Cardinality(Ids) <= n
    BY <1>2, FS_Surjection
  <1>4. \E i \in 1 .. n + 1 : i \notin Ids
    <2>1. SUFFICES ASSUME 1 .. n + 1 \subseteq Ids  PROVE FALSE
      OBVIOUS
    <2>2. Cardinality(1 .. n + 1) <= Cardinality(Ids)
      BY <1>3, <2>1, FS_Subset
    <2>3. Cardinality(1 .. n + 1) = n + 1
      BY <1>1, FS_Interval
    <2>4. Cardinality(Ids) \in Nat
      BY <1>3, FS_CardinalityType
    <2>5. QED
      BY <1>1, <1>3, <2>2, <2>3, <2>4
  <1>5. PICK i \in 1 .. n + 1 : \A r \in calls : r.to = t /\ r.arg = a => r.id # i
    BY <1>4
  <1>6. QED
    BY <1>5, Zenon DEF Free

LEMMA OneAsked ==
  ASSUME NEW calls, IsFiniteSet(calls), NEW t, NEW a
  PROVE  /\ IsFiniteSet(Ask(calls, t, a))
         /\ Cardinality(Ask(calls, t, a)) <= Cardinality(calls) + 1
         /\ Cardinality(Heavy(Ask(calls, t, a))) <= Cardinality(Heavy(calls)) + 1
         /\ t \notin Costly => Heavy(Ask(calls, t, a)) = Heavy(calls)
         /\ \A r \in Ask(calls, t, a) \ calls : r.id \in 1 .. Cardinality(calls) + 1 /\ r.to = t
PROOF
  <1> DEFINE i == Free(calls, t, a)
             new == Request(i, t, a)
  <1>1. Ask(calls, t, a) = calls \cup {new} /\ new.id = i /\ new.to = t
    BY DEF Ask, Request
  <1>2. i \in 1 .. Cardinality(calls) + 1
    BY IdIsFree
  <1> HIDE DEF i, new
  <1>3. Numbers(calls)
    BY Finite
  <1>4. /\ IsFiniteSet(calls \cup {new})
        /\ Cardinality(calls \cup {new}) <= Cardinality(calls) + 1
    <2>1. /\ IsFiniteSet(calls \cup {new})
          /\ Cardinality(calls \cup {new}) =
               IF new \in calls THEN Cardinality(calls) ELSE Cardinality(calls) + 1
      BY FS_AddElement
    <2>2. QED
      BY <1>3, <2>1 DEF Numbers
  <1>5. Heavy(calls \cup {new}) = IF t \in Costly THEN Heavy(calls) \cup {new} ELSE Heavy(calls)
    BY <1>1 DEF Heavy
  <1>6. IsFiniteSet(Heavy(calls))
    BY FS_Subset DEF Heavy
  <1>7. Cardinality(Heavy(calls \cup {new})) <= Cardinality(Heavy(calls)) + 1
    BY <1>3, <1>5, <1>6, FS_AddElement DEF Numbers
  <1>8. QED
    BY <1>1, <1>2, <1>4, <1>5, <1>7

\* The requests of a page are few, and its own.
Few ==
  /\ IsFiniteSet(net)
  /\ Load(net) <= 2 * MaxCalls
  /\ \A r \in net : r.id \in 1 .. 2 * MaxCalls /\ r.to \in Endpoints(ui.page)

LEMMA OneFollows ==
  ASSUME NEW calls, NEW more, IsFiniteSet(calls), Follows(more, calls)
  PROVE  /\ IsFiniteSet(more) /\ Numbers(calls) /\ Numbers(more)
         /\ Cardinality(more) <= Cardinality(calls) + 1
         /\ Load(more) <= Load(calls) + 1
         /\ \A r \in more \ calls :
              r.id \in 1 .. Cardinality(calls) + 1 /\ r.to \in Endpoints(ui.page)
PROOF
  <1>1. PICK t \in Endpoints(ui.page) \ Costly : \E a : more = Ask(calls, t, a)
    BY DEF Follows
  <1>2. PICK a : more = Ask(calls, t, a)
    BY <1>1
  <1>3. /\ IsFiniteSet(more)
        /\ Cardinality(more) <= Cardinality(calls) + 1
        /\ Heavy(more) = Heavy(calls)
        /\ \A r \in more \ calls :
             r.id \in 1 .. Cardinality(calls) + 1 /\ r.to \in Endpoints(ui.page)
    BY <1>1, <1>2, OneAsked
  <1>4. Numbers(calls) /\ Numbers(more)
    BY <1>3, Finite
  <1>5. QED
    BY <1>3, <1>4 DEF Load, Numbers

LEMMA FewStay ==
  ASSUME Few, Traffic, On("account") => HonestPage, ui'.page = ui.page
  PROVE  Few'
PROOF
  <1>1. Numbers(net) /\ MaxCalls \in Nat \ {0}
        /\ Cardinality(Heavy(net)) <= Cardinality(net)
    BY Finite, MaxCallsAssumption DEF Few
  <1>2. CASE net' \subseteq net
    <2>1. /\ Numbers(net') /\ Cardinality(net') <= Cardinality(net)
          /\ Cardinality(Heavy(net')) <= Cardinality(Heavy(net))
      BY <1>2, Finite DEF Few
    <2>2. QED
      BY <1>1, <1>2, <2>1 DEF Few, Load, Numbers
  <1>3. ASSUME CanCall, NEW t \in Endpoints(ui.page), NEW a, net' = Ask(net, t, a)
        PROVE  Few'
    <2>1. Cardinality(net) + 1 <= MaxCalls
      BY <1>1, <1>3 DEF CanCall, Numbers
    <2>2. /\ IsFiniteSet(net')
          /\ Cardinality(net') <= Cardinality(net) + 1
          /\ Cardinality(Heavy(net')) <= Cardinality(Heavy(net)) + 1
          /\ \A r \in net' \ net : r.id \in 1 .. Cardinality(net) + 1 /\ r.to = t
      BY <1>3, OneAsked DEF Few
    <2>3. Numbers(net')
      BY <2>2, Finite
    <2>4. Load(net') <= 2 * MaxCalls
      BY <1>1, <2>1, <2>2, <2>3 DEF Numbers, Load
    <2>5. ASSUME NEW r \in net'
          PROVE  r.id \in 1 .. 2 * MaxCalls /\ r.to \in Endpoints(ui.page)
      BY <1>1, <1>3, <2>1, <2>2 DEF Few, Numbers
    <2>6. QED
      BY <2>2, <2>4, <2>5 DEF Few
  <1>4. ASSUME NEW r \in net, Follows(net', net \ {r})
        PROVE  Few'
    <2>1. IsFiniteSet(net \ {r}) /\ Cardinality(net \ {r}) = Cardinality(net) - 1
          /\ Cardinality(Heavy(net \ {r})) <= Cardinality(Heavy(net))
      BY OneLess, Finite, FS_Subset DEF Few
    <2>2. /\ IsFiniteSet(net') /\ Numbers(net \ {r}) /\ Numbers(net')
          /\ Load(net') <= Load(net \ {r}) + 1
          /\ \A s \in net' \ (net \ {r}) :
               s.id \in 1 .. Cardinality(net \ {r}) + 1 /\ s.to \in Endpoints(ui.page)
      BY <1>4, <2>1, OneFollows
    <2>3. Load(net') <= 2 * MaxCalls
      BY <1>1, <2>1, <2>2 DEF Few, Load, Numbers
    <2>4. Cardinality(net \ {r}) + 1 <= 2 * MaxCalls
      BY <1>1, <2>1, <2>2 DEF Few, Load, Numbers
    <2>5. ASSUME NEW s \in net'
          PROVE  s.id \in 1 .. 2 * MaxCalls /\ s.to \in Endpoints(ui.page)
      <3>1. CASE s \in net
        BY <3>1 DEF Few
      <3>2. CASE s \notin net
        <4>1. s.id \in 1 .. Cardinality(net \ {r}) + 1 /\ s.to \in Endpoints(ui.page)
          BY <2>2, <3>2
        <4>2. QED
          BY <1>1, <2>2, <2>4, <4>1 DEF Numbers
      <3>3. QED
        BY <3>1, <3>2
    <2>6. QED
      BY <2>2, <2>3, <2>5 DEF Few
  <1>5. ASSUME NEW r \in net, NEW one, r.to \in Costly, Follows(one, net \ {r}),
               Follows(net', one)
        PROVE  Few'
    <2>1. /\ IsFiniteSet(net \ {r}) /\ Cardinality(net \ {r}) = Cardinality(net) - 1
          /\ Cardinality(Heavy(net \ {r})) = Cardinality(Heavy(net)) - 1
      BY <1>5, OneLess, Finite, FS_Subset DEF Few
    <2>2. /\ IsFiniteSet(one) /\ Numbers(net \ {r}) /\ Numbers(one)
          /\ Cardinality(one) <= Cardinality(net \ {r}) + 1
          /\ Load(one) <= Load(net \ {r}) + 1
          /\ \A s \in one \ (net \ {r}) :
               s.id \in 1 .. Cardinality(net \ {r}) + 1 /\ s.to \in Endpoints(ui.page)
      BY <1>5, <2>1, OneFollows
    <2>3. /\ IsFiniteSet(net') /\ Numbers(net')
          /\ Load(net') <= Load(one) + 1
          /\ \A s \in net' \ one :
               s.id \in 1 .. Cardinality(one) + 1 /\ s.to \in Endpoints(ui.page)
      BY <1>5, <2>2, OneFollows
    <2>4. Load(net') <= 2 * MaxCalls
      BY <1>1, <2>1, <2>2, <2>3 DEF Few, Load, Numbers
    <2>5. Cardinality(one) + 1 <= 2 * MaxCalls /\ Cardinality(net \ {r}) + 1 <= 2 * MaxCalls
      BY <1>1, <2>1, <2>2 DEF Few, Load, Numbers
    <2>6. ASSUME NEW s \in net'
          PROVE  s.id \in 1 .. 2 * MaxCalls /\ s.to \in Endpoints(ui.page)
      <3> DEFINE Near(m) == s.id \in 1 .. m + 1 /\ s.to \in Endpoints(ui.page)
      <3>1. CASE s \notin one
        <4>1. Near(Cardinality(one))
          BY <2>3, <3>1
        <4>2. QED
          BY <1>1, <2>2, <2>5, <4>1 DEF Numbers
      <3>2. CASE s \in one /\ s \notin net
        <4>1. Near(Cardinality(net \ {r}))
          BY <2>2, <3>2
        <4>2. QED
          BY <1>1, <2>2, <2>5, <4>1 DEF Numbers
      <3>3. CASE s \in net
        BY <3>3 DEF Few
      <3>4. QED
        BY <3>1, <3>2, <3>3
    <2>7. QED
      BY <2>3, <2>4, <2>6 DEF Few
  <1>6. ASSUME On("account"), NEW calls \in SUBSET net, net' = Account!Orphaned(calls)
        PROVE  Few'
    <2> DEFINE Id(r) == Free(calls \ {r}, r.to, [r.arg EXCEPT !.own = FALSE])
               Left1(r) == IF ~r.arg.own THEN r
                           ELSE [r EXCEPT !.arg = [r.arg EXCEPT !.own = FALSE], !.id = Id(r)]
               f == [r \in calls |-> Left1(r)]
    <2>1. net' = {Left1(r) : r \in calls}
      BY <1>6, AccountAsk, Zenon DEF Account!Orphaned
    <2> HIDE DEF Left1
    <2>2. f \in Surjection(calls, net')
      BY <2>1 DEF Surjection
    <2>3. IsFiniteSet(calls) /\ Cardinality(calls) <= Cardinality(net) /\ Numbers(calls)
      BY <1>6, Finite DEF Few, Numbers
    <2>4. IsFiniteSet(net') /\ Cardinality(net') <= Cardinality(calls)
      BY <2>2, <2>3, FS_Surjection
    <2>5. ASSUME NEW r \in net'
          PROVE  r.id \in 1 .. 2 * MaxCalls /\ r.to \in Endpoints(ui.page)
      <3>1. \A s \in calls : Honest(s, ui.at, ui.srv)
        BY <1>6 DEF HonestPage
      <3>2. PICK s \in calls :
              r.to = s.to /\ (r.id = s.id \/ \E a : r.id = Account!Free(calls \ {s}, s.to, a))
        BY <1>6, <3>1, LeftBehind, Zenon
      <3>3. s.id \in 1 .. 2 * MaxCalls /\ s.to \in Endpoints(ui.page)
        BY <1>6 DEF Few
      <3>4. ASSUME NEW a, r.id = Account!Free(calls \ {s}, s.to, a)
            PROVE  r.id \in 1 .. 2 * MaxCalls
        <4>1. IsFiniteSet(calls \ {s}) /\ Cardinality(calls \ {s}) + 1 = Cardinality(calls)
          BY <2>3, OneLess, FS_Subset DEF Numbers
        <4>2. r.id \in 1 .. Cardinality(calls)
          BY <3>4, <4>1, AccountAsk, IdIsFree
        <4>3. QED
          BY <1>1, <2>3, <4>2 DEF Few, Load, Numbers
      <3>5. QED
        BY <3>2, <3>3, <3>4
    <2>6. Heavy(net') = {}
      <3>1. Endpoints(ui.page) \cap Costly = {}
        BY <1>6 DEF On, Endpoints, Costly
      <3>2. QED
        BY <2>5, <3>1 DEF Heavy
    <2>7. Load(net') <= 2 * MaxCalls
      <3>1. Cardinality(Heavy(net')) = 0
        BY <2>6, FS_EmptySet
      <3>2. Numbers(net')
        BY <2>4, Finite
      <3>3. QED
        BY <1>1, <2>3, <2>4, <3>1, <3>2 DEF Few, Load, Numbers
    <2>8. QED
      BY <2>4, <2>5, <2>7 DEF Few
  <1>7. ASSUME CanCall, NEW one, Follows(one, net), Follows(net', one)
        PROVE  Few'
    <2>1. Cardinality(net) + 1 <= MaxCalls
      BY <1>1, <1>7 DEF CanCall, Numbers
    <2>2. /\ IsFiniteSet(one) /\ Numbers(one)
          /\ Cardinality(one) <= Cardinality(net) + 1
          /\ Load(one) <= Load(net) + 1
          /\ \A s \in one \ net :
               s.id \in 1 .. Cardinality(net) + 1 /\ s.to \in Endpoints(ui.page)
      BY <1>7, OneFollows DEF Few
    <2>3. /\ IsFiniteSet(net') /\ Numbers(net')
          /\ Load(net') <= Load(one) + 1
          /\ \A s \in net' \ one :
               s.id \in 1 .. Cardinality(one) + 1 /\ s.to \in Endpoints(ui.page)
      BY <1>7, <2>2, OneFollows
    <2>4. Load(net') <= 2 * MaxCalls
      BY <1>1, <2>1, <2>2, <2>3 DEF Load, Numbers
    <2>5. Cardinality(net) + 1 <= 2 * MaxCalls /\ Cardinality(one) + 1 <= 2 * MaxCalls
      BY <1>1, <2>1, <2>2 DEF Numbers
    <2>6. ASSUME NEW s \in net'
          PROVE  s.id \in 1 .. 2 * MaxCalls /\ s.to \in Endpoints(ui.page)
      <3> DEFINE Near(m) == s.id \in 1 .. m + 1 /\ s.to \in Endpoints(ui.page)
      <3>1. CASE s \notin one
        <4>1. Near(Cardinality(one))
          BY <2>3, <3>1
        <4>2. QED
          BY <1>1, <2>2, <2>5, <4>1 DEF Numbers
      <3>2. CASE s \in one /\ s \notin net
        <4>1. Near(Cardinality(net))
          BY <2>2, <3>2
        <4>2. QED
          BY <1>1, <2>5, <4>1 DEF Numbers
      <3>3. CASE s \in net
        BY <3>3 DEF Few
      <3>4. QED
        BY <3>1, <3>2, <3>3
    <2>7. QED
      BY <2>3, <2>4, <2>6 DEF Few
  <1>8. ASSUME NEW r \in net, NEW p \in net, Follows(net', net \ {r, p})
        PROVE  Few'
    <2> DEFINE rest == net \ {r, p}
    <2>1. IsFiniteSet(net \ {r}) /\ Cardinality(net \ {r}) = Cardinality(net) - 1
      BY OneLess, FS_Subset DEF Few
    <2>2. /\ IsFiniteSet(rest) /\ Numbers(rest)
          /\ Cardinality(rest) <= Cardinality(net) - 1
          /\ Cardinality(Heavy(rest)) <= Cardinality(Heavy(net))
      <3>1. rest \subseteq net \ {r} /\ rest \subseteq net
        OBVIOUS
      <3> HIDE DEF rest
      <3>2. Cardinality(rest) <= Cardinality(net \ {r})
        BY <2>1, <3>1, Finite
      <3>3. Numbers(rest) /\ IsFiniteSet(rest) /\ Cardinality(Heavy(rest)) <= Cardinality(Heavy(net))
        BY <3>1, Finite, FS_Subset DEF Few
      <3>4. QED
        BY <1>1, <2>1, <3>2, <3>3 DEF Numbers
    <2> HIDE DEF rest
    <2>3. Follows(net', rest)
      BY <1>8 DEF rest
    <2>4. /\ IsFiniteSet(net') /\ Numbers(net')
          /\ Load(net') <= Load(rest) + 1
          /\ \A s \in net' \ rest :
               s.id \in 1 .. Cardinality(rest) + 1 /\ s.to \in Endpoints(ui.page)
      BY <2>2, <2>3, OneFollows
    <2>5. Load(net') <= 2 * MaxCalls /\ Cardinality(rest) + 1 <= 2 * MaxCalls
      BY <1>1, <2>2, <2>4 DEF Few, Load, Numbers
    <2>6. ASSUME NEW s \in net'
          PROVE  s.id \in 1 .. 2 * MaxCalls /\ s.to \in Endpoints(ui.page)
      <3>1. CASE s \in rest
        BY <3>1 DEF Few, rest
      <3>2. CASE s \notin rest
        <4>1. s.id \in 1 .. Cardinality(rest) + 1 /\ s.to \in Endpoints(ui.page)
          BY <2>4, <3>2
        <4>2. QED
          BY <1>1, <2>2, <2>5, <4>1 DEF Numbers
      <3>3. QED
        BY <3>1, <3>2
    <2>7. QED
      BY <2>4, <2>5, <2>6 DEF Few
  <1>9. QED
    BY <1>2, <1>3, <1>4, <1>5, <1>6, <1>7, <1>8 DEF Traffic

-----------------------------------------------------------------------------
\* A page opens with no request, or with one.
Begun == net = {} \/ Follows(net, {})

LEMMA PagesBegin == ASSUME Init  PROVE ui.page \in Start /\ Begun
PROOF
  <1>1. CASE Opened("users") /\ Users!Init
    <2>1. ui.page = "users"
      BY <1>1, UsersOpens
    <2>2. \E a : net = Ask({}, "users", a)
      BY <1>1, UsersAsk, Zenon DEF Users!Init
    <2>3. QED
      BY <1>1, <2>1, <2>2 DEF Begun, Follows, Endpoints, Costly, Opened
  <1>2. CASE Opened("server") /\ Server!Init
    <2>1. ui.page = "server"
      BY <1>2, ServerOpens
    <2>2. \E a : net = Ask({}, "server/list", a)
      BY <1>2, ServerAsk DEF Server!Init
    <2>3. QED
      BY <1>2, <2>1, <2>2 DEF Begun, Follows, Endpoints, Costly, Opened
  <1>3. CASE Opened("jobcontrol") /\ JobControl!Init
    <2>1. ui.page = "jobcontrol"
      BY <1>3, JobControlOpens
    <2>2. net = {} \/ \E a : net = Ask({}, "data", a)
      BY <1>3, JobControlAsk DEF JobControl!Init
    <2>3. QED
      BY <1>3, <2>1, <2>2 DEF Begun, Follows, Endpoints, Costly, Opened
  <1>4. CASE Opened("apikeys") /\ ApiKeys!Init
    <2>1. ui.page = "apikeys"
      BY <1>4, ApiKeysOpens
    <2>2. \E a : net = Ask({}, "keys", a)
      BY <1>4, ApiKeysAsk DEF ApiKeys!Init
    <2>3. QED
      BY <1>4, <2>1, <2>2 DEF Begun, Follows, Endpoints, Costly, Opened
  <1>5. CASE Opened("cache") /\ Cache!Init
    <2>1. ui.page = "cache"
      BY <1>5, CacheOpens
    <2>2. QED
      BY <1>5, <2>1 DEF Begun, Opened, Cache!Init
  <1>6. CASE Opened("logs") /\ Logs!Init
    <2>1. ui.page = "logs"
      BY <1>6, LogsOpens
    <2>2. net = {} \/ \E a : net = Ask({}, "logs", a)
      BY <1>6, LogsAsk DEF Logs!Init
    <2>3. QED
      BY <1>6, <2>1, <2>2 DEF Begun, Follows, Endpoints, Costly, Opened
  <1>7. CASE Opened("license") /\ License!Init
    <2>1. ui.page = "license"
      BY <1>7, LicenseOpens
    <2>2. QED
      BY <1>7, <2>1 DEF Begun, Opened, License!Init
  <1>8. CASE Opened("brand") /\ Brand!Init
    <2>1. ui.page = "brand"
      BY <1>8, BrandOpens
    <2>2. net = {} \/ \E a : net = Ask({}, "brand", a)
      BY <1>8, BrandAsk DEF Brand!Init
    <2>3. QED
      BY <1>8, <2>1, <2>2 DEF Begun, Follows, Endpoints, Costly, Opened
  <1>9. CASE Opened("packages") /\ Package!Init
    <2>1. ui.page = "packages"
      BY <1>9, PackageOpens
    <2>2. QED
      BY <1>9, <2>1 DEF Begun, Opened, Package!Init
  <1>10. CASE Opened("smtp") /\ Smtp!Init
    <2>1. ui.page = "smtp"
      BY <1>10, SmtpOpens
    <2>2. net = {} \/ \E a : net = Ask({}, "data", a)
      BY <1>10, SmtpAsk DEF Smtp!Init
    <2>3. QED
      BY <1>10, <2>1, <2>2 DEF Begun, Follows, Endpoints, Costly, Opened
  <1>11. CASE Opened("profile") /\ Profile!Init
    <2>1. ui.page = "profile"
      BY <1>11, ProfileOpens
    <2>2. \E a : net = Ask({}, "refresh", a)
      BY <1>11, ProfileAsk, Zenon DEF Profile!Init
    <2>3. QED
      BY <1>11, <2>1, <2>2 DEF Begun, Follows, Endpoints, Costly, Opened
  <1>12. CASE Opened("domains") /\ Domain!Init
    <2>1. ui.page = "domains"
      BY <1>12, DomainOpens
    <2>2. \E a : net = Ask({}, "domains", a)
      BY <1>12, DomainAsk, Zenon DEF Domain!Init
    <2>3. QED
      BY <1>12, <2>1, <2>2 DEF Begun, Follows, Endpoints, Costly, Opened
  <1>13. CASE Opened("jobs") /\ JobList!Init
    <2>1. ui.page = "jobs"
      BY <1>13, JobListOpens
    <2>2. net = {} \/ \E a : net = Ask({}, "jobs", a)
      BY <1>13, JobListAsk DEF JobList!Init
    <2>3. QED
      BY <1>13, <2>1, <2>2 DEF Begun, Follows, Endpoints, Costly, Opened
  <1>14. CASE Opened("details") /\ JobDetails!Init
    <2>1. ui.page = "details"
      BY <1>14, JobDetailsOpens
    <2>2. \E a : net = Ask({}, "status", a)
      BY <1>14, JobDetailsAsk DEF JobDetails!Init
    <2>3. QED
      BY <1>14, <2>1, <2>2 DEF Begun, Follows, Endpoints, Costly, Opened
  <1>15. CASE Opened("upload") /\ Upload!Init
    <2>1. ui.page = "upload"
      BY <1>15, UploadOpens
    <2>2. QED
      BY <1>15, <2>1 DEF Begun, Opened, Upload!Init
  <1>16. CASE Opened("verify") /\ Verify!Init
    <2>1. ui.page = "verify"
      BY <1>16, VerifyOpens
    <2>2. QED
      BY <1>16, <2>1, Zenon DEF Begun, Opened, Verify!Init
  <1>17. CASE Opened("home") /\ Home!Init
    <2>1. ui.page = "home"
      BY <1>17, HomeOpens
    <2>2. \E a : net = Ask({}, "status", a)
      BY <1>17, HomeAsk DEF Home!Init
    <2>3. QED
      BY <1>17, <2>1, <2>2 DEF Begun, Follows, Endpoints, Costly, Opened
  <1>18. CASE Opened("payment") /\ Payment!Init
    <2>1. ui.page = "payment"
      BY <1>18, PaymentOpens
    <2>2. QED
      BY <1>18, <2>1 DEF Begun, Opened, Payment!Init
  <1>19. CASE Opened("credits") /\ Credit!Init
    <2>1. ui.page = "credits"
      BY <1>19, CreditOpens
    <2>2. net = {} \/ \E a : net = Ask({}, "packages", a)
      BY <1>19, CreditAsk DEF Credit!Init
    <2>3. QED
      BY <1>19, <2>1, <2>2 DEF Begun, Follows, Endpoints, Costly, Opened
  <1>20. CASE Opened("history") /\ History!Init
    <2>1. ui.page = "history"
      BY <1>20, HistoryOpens
    <2>2. \E a : net = Ask({}, "stats", a)
      BY <1>20, HistoryAsk DEF History!Init
    <2>3. QED
      BY <1>20, <2>1, <2>2 DEF Begun, Follows, Endpoints, Costly, Opened
  <1>21. CASE Opened("account") /\ Account!Init
    <2>1. ui.page = "account"
      BY <1>21, AccountOpens
    <2>2. QED
      BY <1>21, <2>1 DEF Begun, Opened, Account!Init
  <1>22. CASE Opened("contact") /\ Contact!Init
    <2>1. ui.page = "contact"
      BY <1>22, ContactOpens
    <2>2. net = {} \/ \E a : net = Ask({}, "settings", a)
      BY <1>22, ContactAsk DEF Contact!Init
    <2>3. QED
      BY <1>22, <2>1, <2>2 DEF Begun, Follows, Endpoints, Costly, Opened
  <1>23. CASE Opened("transfer") /\ Transfer!Init
    <2>1. ui.page = "transfer"
      BY <1>23, TransferOpens
    <2>2. QED
      BY <1>23, <2>1 DEF Begun, Opened, Transfer!Init
  <1>24. CASE Opened("security") /\ Security!Init
    <2>1. ui.page = "security"
      BY <1>24, SecurityOpens
    <2>2. net = {} \/ \E a : net = Ask({}, "dashboard", a)
      BY <1>24, SecurityAsk DEF Security!Init, Security!initialize
    <2>3. QED
      BY <1>24, <2>1, <2>2 DEF Begun, Follows, Endpoints, Costly, Opened
  <1>25. QED
    BY <1>1, <1>2, <1>3, <1>4, <1>5, <1>6, <1>7, <1>8, <1>9, <1>10, <1>11,
       <1>12, <1>13, <1>14, <1>15, <1>16, <1>17, <1>18, <1>19, <1>20, <1>21,
       <1>22, <1>23, <1>24 DEF Init

LEMMA PagesTraffic ==
  ASSUME PagesInv, [Next]_page
  PROVE  Traffic /\ (ui'.page = ui.page \/ Left')
PROOF
  <1>1. CASE UsersStep
    BY <1>1, UsersTraffic, UsersSteady DEF PagesInv, Steady, SamePage, UsersStep, On
  <1>2. CASE ServerStep
    BY <1>2, ServerTraffic, ServerSteady DEF PagesInv, Steady, SamePage, ServerStep, On
  <1>3. CASE JobControlStep
    BY <1>3, JobControlTraffic, JobControlSteady DEF PagesInv, Steady, SamePage, JobControlStep, On
  <1>4. CASE ApiKeysStep
    BY <1>4, ApiKeysTraffic, ApiKeysSteady DEF PagesInv, Steady, SamePage, ApiKeysStep, On
  <1>5. CASE CacheStep
    BY <1>5, CacheTraffic, CacheSteady DEF PagesInv, Steady, SamePage, CacheStep, On
  <1>6. CASE LogsStep
    BY <1>6, LogsTraffic, LogsSteady DEF PagesInv, Steady, SamePage, LogsStep, On
  <1>7. CASE LicenseStep
    BY <1>7, LicenseTraffic, LicenseSteady DEF PagesInv, Steady, SamePage, LicenseStep, On
  <1>8. CASE BrandStep
    BY <1>8, BrandTraffic, BrandSteady DEF PagesInv, Steady, SamePage, BrandStep, On
  <1>9. CASE PackageStep
    BY <1>9, PackageTraffic, PackageSteady DEF PagesInv, Steady, SamePage, PackageStep, On
  <1>10. CASE SmtpStep
    BY <1>10, SmtpTraffic, SmtpSteady DEF PagesInv, Steady, SamePage, SmtpStep, On
  <1>11. CASE ProfileStep
    BY <1>11, ProfileTraffic, ProfileSteady DEF PagesInv, Steady, SamePage, ProfileStep, On
  <1>12. CASE DomainStep
    BY <1>12, DomainTraffic, DomainSteady DEF PagesInv, Steady, SamePage, DomainStep, On
  <1>13. CASE JobListStep
    BY <1>13, JobListTraffic, JobListSteady DEF PagesInv, Steady, SamePage, JobListStep, On
  <1>14. CASE JobDetailsStep
    BY <1>14, JobDetailsTraffic, JobDetailsSteady DEF PagesInv, Steady, SamePage, JobDetailsStep, On
  <1>15. CASE UploadStep
    BY <1>15, UploadTraffic, UploadSteady DEF PagesInv, Steady, SamePage, UploadStep, On
  <1>16. CASE VerifyStep
    BY <1>16, VerifyTraffic, VerifySteady DEF PagesInv, Steady, SamePage, VerifyStep, On
  <1>17. CASE HomeStep
    BY <1>17, HomeTraffic, HomeSteady DEF PagesInv, HomeStep, On
  <1>18. CASE PaymentStep
    BY <1>18, PaymentTraffic, PaymentSteady DEF PagesInv, Steady, SamePage, PaymentStep, On
  <1>19. CASE CreditStep
    BY <1>19, CreditTraffic, CreditSteady DEF PagesInv, Steady, SamePage, CreditStep, On
  <1>20. CASE HistoryStep
    BY <1>20, HistoryTraffic, HistorySteady DEF PagesInv, Steady, SamePage, HistoryStep, On
  <1>21. CASE AccountStep
    BY <1>21, AccountTraffic, AccountSteady DEF PagesInv, AccountStep, On
  <1>22. CASE ContactStep
    BY <1>22, ContactTraffic, ContactSteady DEF PagesInv, ContactStep, On
  <1>23. CASE TransferStep
    BY <1>23, TransferTraffic, TransferSteady DEF PagesInv, Steady, SamePage, TransferStep, On
  <1>24. CASE SecurityStep
    BY <1>24, SecurityTraffic, SecuritySteady DEF PagesInv, Steady, SamePage, SecurityStep, On
  <1>25. CASE UNCHANGED page
    BY <1>25 DEF page, Traffic
  <1>26. QED
    BY <1>1, <1>2, <1>3, <1>4, <1>5, <1>6, <1>7, <1>8, <1>9, <1>10, <1>11,
       <1>12, <1>13, <1>14, <1>15, <1>16, <1>17, <1>18, <1>19, <1>20, <1>21,
       <1>22, <1>23, <1>24, <1>25 DEF Next

\* The flags of a page are names of its requests.
LEMMA FlagsAreEndpoints == ASSUME PagesInv, Few  PROVE ui.busy \subseteq Endpoints(ui.page)
PROOF
  <1>1. Sent(net) \subseteq Endpoints(ui.page)
    BY DEF Few, Sent
  <1>2. ASSUME NEW flags, NEW lone, Settled(flags, lone)
        PROVE  ui.busy \subseteq Endpoints(ui.page)
    BY <1>1, <1>2 DEF Settled, Spinning
  <1>3. CASE On("home")
    BY <1>3 DEF PagesInv, Waiting, On, Endpoints
  <1>4. CASE On("contact")
    BY <1>4 DEF PagesInv, Waiting, On, Endpoints
  <1>5. CASE On("account")
    BY <1>1, <1>5 DEF PagesInv, HonestPage, Sent
  <1>6. CASE On("left")
    BY <1>6 DEF PagesInv, Left
  <1>7. CASE ui.page \notin {"home", "contact", "account", "left"}
    BY <1>2, <1>7 DEF PagesInv, PageName, On
  <1>8. QED
    BY <1>3, <1>4, <1>5, <1>6, <1>7 DEF On

Rooms == ui.page \in Start \cup {"left"} /\ Few

LEMMA RoomsOpen == ASSUME Init  PROVE Rooms
PROOF
  <1>1. ui.page \in Start /\ Begun
    BY PagesBegin
  <1>2. MaxCalls \in Nat \ {0}
    BY MaxCallsAssumption
  <1>3. IsFiniteSet({}) /\ Cardinality({}) = 0 /\ Heavy({}) = {}
    BY FS_EmptySet DEF Heavy
  <1>4. CASE net = {}
    BY <1>1, <1>2, <1>3, <1>4 DEF Rooms, Few, Load
  <1>5. CASE Follows(net, {})
    <2>1. /\ IsFiniteSet(net) /\ Numbers(net) /\ Load(net) <= Load({}) + 1
          /\ \A r \in net \ {} : r.id \in 1 .. Cardinality({}) + 1 /\ r.to \in Endpoints(ui.page)
      BY <1>3, <1>5, OneFollows
    <2>2. Load({}) = 0
      BY <1>3 DEF Load
    <2>3. Load(net) <= 2 * MaxCalls
      BY <1>2, <2>1, <2>2 DEF Load, Numbers
    <2>4. \A r \in net : r.id \in 1 .. 2 * MaxCalls /\ r.to \in Endpoints(ui.page)
      BY <1>2, <1>3, <2>1
    <2>5. QED
      BY <1>1, <2>1, <2>3, <2>4 DEF Rooms, Few
  <1>6. QED
    BY <1>1, <1>4, <1>5 DEF Begun

LEMMA RoomsStay == ASSUME Rooms, PagesInv, [Next]_page  PROVE Rooms'
PROOF
  <1>1. Traffic /\ (ui'.page = ui.page \/ Left')
    BY PagesTraffic
  <1>2. CASE Left'
    <2>1. net' = {} /\ ui'.page = "left"
      BY <1>2 DEF Left
    <2>2. IsFiniteSet({}) /\ Cardinality({}) = 0 /\ Heavy({}) = {}
      BY FS_EmptySet DEF Heavy
    <2>3. Load({}) = 0
      BY <2>2 DEF Load
    <2>4. Few'
      BY <2>1, <2>2, <2>3, MaxCallsAssumption DEF Few
    <2>5. QED
      BY <2>1, <2>4 DEF Rooms
  <1>3. CASE ui'.page = ui.page
    BY <1>1, <1>3, FewStay DEF Rooms, PagesInv
  <1>4. QED
    BY <1>1, <1>2, <1>3

\* A page sends no more than it may: what a user clicks and what the handlers
\* ask for after an answer never come to more than twice MaxCalls, all of it
\* asked of the page's own endpoints.
THEOREM PagesType == Spec => []TypeOK
PROOF
  <1>1. Init => Rooms
    BY RoomsOpen
  <1>2. Rooms /\ PagesInv /\ [Next]_page => Rooms'
    BY RoomsStay
  <1>3. Rooms /\ PagesInv => TypeOK
    <2> SUFFICES ASSUME Rooms, PagesInv  PROVE TypeOK
      OBVIOUS
    <2>1. Cardinality(net) <= 2 * MaxCalls
      <3>1. Numbers(net) /\ Load(net) <= 2 * MaxCalls
        BY Finite DEF Rooms, Few
      <3>2. QED
        BY <3>1, MaxCallsAssumption DEF Load, Numbers
    <2>2. QED
      BY <2>1, FlagsAreEndpoints DEF Rooms, Few, TypeOK
  <1>4. QED
    BY <1>1, <1>2, <1>3, PagesInvariant, PTL DEF Spec
==============================================================================
