------------------------------ MODULE PagesProofs ------------------------------
(***************************************************************************)
(* What holds of the pages of the web application for any number of users, *)
(* servers, packages and files, and however many requests are in flight:   *)
(* the invariant PagesInv and the properties of Pages that follow from it. *)
(*                                                                         *)
(* A page has flags that spin and requests it sends one at a time.  That  *)
(* its flags are among its requests is not kept by a step on its own: an  *)
(* answer that clears the flag of one request must not leave another of    *)
(* the same kind without it, so the requests sent one at a time carry two  *)
(* facts more, that there is one at most and that its flag is set.        *)
(***************************************************************************)
EXTENDS Pages, TLAPS, FiniteSetTheorems, WellFoundedInduction

\* The page is a record with a name and flags; or it was left.
Mounted == {"page", "busy"} \subseteq DOMAIN ui
Left == ui.page = "left" /\ ui.busy = {} /\ net = {}
SamePage == Mounted' /\ (ui'.page = ui.page \/ Left')

\* The endpoints with a request in flight, and those with one at most.
Sent(calls) == {r.to : r \in calls}
Lone(calls, t) == \A r, s \in calls : r.to = t /\ s.to = t => r = s
Request(i, t, a) == [id |-> i, to |-> t, arg |-> a]

\* One more request, to endpoint t.
Adds(more, calls, t) ==
  /\ Sent(more) = Sent(calls) \cup {t}
  /\ t \notin Sent(calls) => Lone(more, t)
  /\ \A u : u # t /\ Lone(calls, u) => Lone(more, u)

\* The flags of a page spin for a request; its lone requests have theirs set.
Spinning(flags) == ui.busy \subseteq flags /\ ui.busy \subseteq Sent(net)
Alone(lone) == \A t \in lone : Lone(net, t) /\ (t \in Sent(net) => t \in ui.busy)
Settled(flags, lone) == Mounted /\ Spinning(flags) /\ Alone(lone)

\* A step that keeps it so, or leaves the page.
Steady(flags, lone) ==
  /\ SamePage
  /\ Spinning(flags)'
  /\ "contact" \in Sent(net)' => "contact" \in Sent(net)
  /\ Alone(lone)'

\* What an answer to r does that goes on to ask "more".
Answered(r, more, flags, lone) ==
  /\ Mounted' /\ ui'.page = ui.page
  /\ Sent(net') = Sent(net \ {r}) \cup more
  /\ \A t : t \notin more /\ Lone(net \ {r}, t) => Lone(net', t)
  /\ more \cap (lone \cup {"contact"}) = {}
  /\ ui'.busy \subseteq flags \cap ((ui.busy \ {r.to}) \cup more)
  /\ (lone \cap ui.busy) \ {r.to} \subseteq ui'.busy

LEMMA Settling ==
  \A calls, r :
    /\ Sent(calls) \ {r.to} \subseteq Sent(calls \ {r})
    /\ Sent(calls \ {r}) \subseteq Sent(calls)
    /\ \A t : Lone(calls, t) => Lone(calls \ {r}, t)
    /\ r \in calls /\ Lone(calls, r.to) => r.to \notin Sent(calls \ {r})
PROOF BY DEF Sent, Lone

LEMMA Empty == Sent({}) = {} /\ \A t : Lone({}, t)
PROOF BY DEF Sent, Lone

LEMMA OneMore == \A calls, i, t, a : Adds(calls \cup {Request(i, t, a)}, calls, t)
PROOF
  <1>1. \A i, t, a : Request(i, t, a).to = t
    BY DEF Request
  <1>2. QED
    BY <1>1 DEF Adds, Sent, Lone

LEMMA AnsweredIsSteady ==
  ASSUME NEW flags, NEW lone, NEW more, NEW r \in net, Settled(flags, lone),
         Answered(r, more, flags, lone)
  PROVE  Steady(flags, lone)
PROOF
  <1> USE Settling DEF Answered, Settled
  <1>1. SamePage
    BY DEF SamePage
  <1>2. Spinning(flags)'
    BY DEF Spinning
  <1>3. "contact" \in Sent(net)' => "contact" \in Sent(net)
    OBVIOUS
  <1>4. ASSUME NEW t \in lone  PROVE Lone(net', t) /\ (t \in Sent(net') => t \in ui'.busy)
    <2>1. Lone(net, t) /\ (t \in Sent(net) => t \in ui.busy)
      BY DEF Alone
    <2>2. t \in Sent(net') => t \in Sent(net \ {r}) /\ t \in Sent(net)
      OBVIOUS
    <2>3. t = r.to => t \notin Sent(net \ {r})
      BY <2>1
    <2>4. Lone(net', t)
      BY <2>1
    <2>5. QED
      BY <2>1, <2>2, <2>3, <2>4
  <1>5. QED
    BY <1>1, <1>2, <1>3, <1>4 DEF Steady, Alone

UsersFlags == {"users", "create", "edit", "adjust_credits"}

LEMMA UsersAsks == \A c, t, a : Adds(Users!Ask(c, t, a), c, t)
PROOF
  <1>1. \A c, t, a : \E i : Users!Ask(c, t, a) = c \cup {Request(i, t, a)}
    BY DEF Users!Ask, Request
  <1>2. QED
    BY <1>1, OneMore

\* A search, a filter, a dialog or an answer of the user list.
LEMMA UsersSteady ==
  ASSUME UsersStep, Settled(UsersFlags, {})
  PROVE  Steady(UsersFlags, {})
PROOF
  <1> DEFINE Flags == UsersFlags
  <1> DEFINE Single == {}
  <1> DEFINE Goal == Steady(Flags, Single)
  <1> USE UsersAsks, Settling, Empty
      DEF Adds, Settled, Mounted, Left, SamePage, Spinning, Alone, Steady,
          UsersFlags
  <1>1. ASSUME NEW t, Users!Search(t)  PROVE Goal
    BY <1>1 DEF Users!Search, Users!Query, Users!CanCall, Users!Send
  <1>2. ASSUME NEW role, Users!FilterRole(role)  PROVE Goal
    BY <1>2 DEF Users!FilterRole, Users!Query, Users!CanCall, Users!Send
  <1>3. CASE Users!Refresh
    BY <1>3 DEF Users!Refresh, Users!fetchUsers, Users!Query, Users!CanCall,
           Users!Send, Users!Submit
  <1>4. ASSUME NEW n, Users!TurnPage(n)  PROVE Goal
    BY <1>4 DEF Users!TurnPage, Users!fetchUsers, Users!Query, Users!CanCall,
           Users!Ready, Users!Send, Users!Submit
  <1>5. ASSUME NEW u, Users!performAction(u)  PROVE Goal
    BY <1>5 DEF Users!performAction, Users!fetchUsers, Users!Query,
           Users!CanCall, Users!Send
  <1>6. ASSUME NEW f, NEW u, Users!OpenDialog(f, u)  PROVE Goal
    BY <1>6 DEF Users!OpenDialog, Users!None
  <1>7. ASSUME NEW f, Users!CancelDialog(f)  PROVE Goal
    BY <1>7 DEF Users!CancelDialog, Users!None
  <1>8. CASE Users!handleAddSubmit
    BY <1>8 DEF Users!handleAddSubmit, Users!AddDialog, Users!SubmitForm,
           Users!fetchUsers, Users!Query, Users!CanCall, Users!None,
           Users!Ready, Users!Send, Users!Submit
  <1>9. CASE Users!handleEditSubmit
    BY <1>9 DEF Users!handleEditSubmit, Users!EditDialog, Users!SubmitForm,
           Users!fetchUsers, Users!Query, Users!CanCall, Users!None,
           Users!Ready, Users!Send, Users!Submit
  <1>10. CASE Users!handleAdjustCreditsSubmit
    BY <1>10 DEF Users!handleAdjustCreditsSubmit, Users!CreditsDialog,
           Users!SubmitForm, Users!fetchUsers, Users!Query, Users!CanCall,
           Users!None, Users!Ready, Users!Send, Users!Submit
  <1>11. CASE Users!ConfirmLoginAs
    BY <1>11 DEF Users!ConfirmLoginAs, Users!CanCall, Users!None, Users!Send
  <1>12. ASSUME NEW r \in net, NEW out, Users!FetchedUsers(r, out)  PROVE Goal
    BY <1>12 DEF Users!FetchedUsers, Users!SetList, Users!Freed, Users!Settle
  <1>13. ASSUME NEW r \in net, NEW out, Users!ActionDone(r, out)  PROVE Goal
    <2>1. ASSUME out = "success"  PROVE Answered(r, {"users"}, Flags, Single)
      BY <1>13, <2>1 DEF Answered, Users!ActionDone, Users!Settle,
             Users!SettleAndAsk
    <2>2. ASSUME out # "success"  PROVE Answered(r, {}, Flags, Single)
      BY <1>13, <2>2 DEF Answered, Users!ActionDone, Users!Settle,
             Users!SettleAndAsk
    <2>3. QED
      BY <2>1, <2>2, AnsweredIsSteady
  <1>14. ASSUME NEW r \in net, NEW out, Users!LoginAsDone(r, out)  PROVE Goal
    <2>1. ASSUME out = "success"  PROVE Goal
      <3>1. Users!Leave
        BY <1>14, <2>1 DEF Users!LoginAsDone, Users!Settle
      <3>2. QED
        BY <3>1 DEF Users!Leave
    <2>2. ASSUME out # "success"  PROVE Goal
      <3>1. /\ r.to = "impersonate"
            /\ net' = net \ {r}
            /\ ui' = [ui EXCEPT !.dialog["impersonate"] = Users!None]
        BY <1>14, <2>2 DEF Users!LoginAsDone, Users!Settle
      <3>2. Answered(r, {}, Flags, Single)
        BY <3>1 DEF Answered, Users!None
      <3>3. QED
        BY <3>2, AnsweredIsSteady
    <2>3. QED
      BY <2>1, <2>2
  <1>15. ASSUME NEW f, NEW r \in net, NEW out, Users!FormDone(f, r, out)  PROVE Goal
    <2>1. ASSUME out = "success"  PROVE Goal
      <3>1. /\ r.to = f
            /\ net' = Users!Ask(net \ {r}, "users", r.arg.back)
            /\ ui' = [Users!Freed(f) EXCEPT !.dialog[f] = Users!None]
        BY <1>15, <2>1 DEF Users!FormDone, Users!Settle, Users!SettleAndAsk
      <3>2. Answered(r, {"users"}, Flags, Single)
        BY <3>1 DEF Answered, Users!Freed, Users!None
      <3>3. QED
        BY <3>2, AnsweredIsSteady
    <2>2. ASSUME out # "success"  PROVE Goal
      <3>1. /\ r.to = f
            /\ net' = net \ {r}
            /\ ui' = Users!Freed(f)
        BY <1>15, <2>2 DEF Users!FormDone, Users!Settle, Users!SettleAndAsk
      <3>2. Answered(r, {}, Flags, Single)
        BY <3>1 DEF Answered, Users!Freed, Users!None
      <3>3. QED
        BY <3>2, AnsweredIsSteady
    <2>3. QED
      BY <2>1, <2>2
  <1>16. QED
    BY <1>1, <1>2, <1>3, <1>4, <1>5, <1>6, <1>7, <1>8, <1>9, <1>10, <1>11,
       <1>12, <1>13, <1>14, <1>15
       DEF UsersStep, Users!Click, Users!Answer

ServerFlags == {"server/list", "server/add", "server/save", "key"}
ServerSingle == {"key"}

LEMMA ServerAsks == \A c, t, a : Adds(Server!Ask(c, t, a), c, t)
PROOF
  <1>1. \A c, t, a : \E i : Server!Ask(c, t, a) = c \cup {Request(i, t, a)}
    BY DEF Server!Ask, Request
  <1>2. QED
    BY <1>1, OneMore

\* The worker servers: the key is sent one at a time, the settings two at once.
LEMMA ServerSteady ==
  ASSUME ServerStep, Settled(ServerFlags, ServerSingle)
  PROVE  Steady(ServerFlags, ServerSingle)
PROOF
  <1> DEFINE Flags == ServerFlags
  <1> DEFINE Single == ServerSingle
  <1> DEFINE Goal == Steady(Flags, Single)
  <1> USE ServerAsks, Settling, Empty
      DEF Adds, Settled, Mounted, Left, SamePage, Spinning, Alone, Steady,
          ServerFlags, ServerSingle
  <1>1. CASE Server!RefreshButton
    BY <1>1 DEF Server!RefreshButton, Server!fetchServers, Server!Lists,
           Server!Servers, Server!Empty, Server!CanCall, Server!Ready,
           Server!Send
  <1>2. CASE Server!OnFocus
    BY <1>2 DEF Server!OnFocus, Server!fetchServers, Server!Lists,
           Server!Servers, Server!Empty, Server!CanCall, Server!Send
  <1>3. CASE Server!OpenAddDialog
    BY <1>3 DEF Server!OpenAddDialog, Server!None
  <1>4. CASE Server!CloseAddDialog
    BY <1>4 DEF Server!CloseAddDialog
  <1>5. CASE Server!onAddServer
    BY <1>5 DEF Server!onAddServer, Server!AddDialog, Server!CanCall,
           Server!None, Server!Ready, Server!Send, Server!Submit
  <1>6. ASSUME NEW s, Server!OpenManage(s)  PROVE Goal
    BY <1>6 DEF Server!OpenManage, Server!Servers, Server!Manage,
           Server!Empty, Server!resolveDisplayStatus, Server!None
  <1>7. CASE Server!CloseManage
    BY <1>7 DEF Server!CloseManage, Server!Unmanaged
  <1>8. CASE Server!handleWarmupSave
    <2>1. PICK a : /\ net' = Server!Ask(Server!Ask(net, "server/save", a), "server/save", a)
                   /\ ui' = [ui EXCEPT !.busy = @ \cup {"server/save"}]
      BY <1>8 DEF Server!handleWarmupSave
    <2>2. Adds(Server!Ask(net, "server/save", a), net, "server/save")
      BY ServerAsks
    <2>3. Adds(net', Server!Ask(net, "server/save", a), "server/save")
      BY <2>1, ServerAsks
    <2>4. QED
      BY <2>1, <2>2, <2>3
  <1>9. CASE Server!handleToggleServer
    BY <1>9 DEF Server!handleToggleServer, Server!Unmanaged, Server!CanCall,
           Server!Send
  <1>10. ASSUME NEW step, Server!TypeDeletePhrase(step)  PROVE Goal
    BY <1>10 DEF Server!TypeDeletePhrase
  <1>11. CASE Server!doDeleteServer
    BY <1>11 DEF Server!doDeleteServer, Server!Unmanaged, Server!CanCall,
           Server!Send
  <1>12. CASE Server!toggleReveal
    BY <1>12 DEF Server!toggleReveal, Server!None, Server!Ready
  <1>13. CASE Server!copyToClipboard
    BY <1>13 DEF Server!copyToClipboard, Server!None, Server!Ready
  <1>14. CASE Server!OpenRotate
    BY <1>14 DEF Server!OpenRotate, Server!None
  <1>15. CASE Server!CancelPassword
    BY <1>15 DEF Server!CancelPassword, Server!None
  <1>16. CASE Server!onPasswordAction
    BY <1>16 DEF Server!onPasswordAction, Server!PasswordDialog,
           Server!CanCall, Server!None, Server!Ready, Server!Send
  <1>17. CASE Server!Pushed
    BY <1>17 DEF Server!Pushed, Server!HandleServerUpdate,
           Server!HandleWorkerUpdate, Server!Lists, Server!setServers,
           Server!applyWorkerHeartbeat
  <1>18. ASSUME NEW r \in net, NEW out, Server!FetchedServers(r, out)  PROVE Goal
    BY <1>18 DEF Server!FetchedServers, Server!setServers, Server!Freed,
           Server!Settle
  <1>19. ASSUME NEW r \in net, NEW out, Server!AddServerDone(r, out)  PROVE Goal
    <2>1. ASSUME out = "success"  PROVE Goal
      <3>1. /\ r.to = "server/add"
            /\ Server!RefetchAfter(r, [Server!Freed("server/add") EXCEPT !.adding = FALSE])
        BY <1>19, <2>1 DEF Server!AddServerDone, Server!Settle
      <3>2. Answered(r, {"server/list"}, Flags, Single)
        BY <3>1 DEF Answered, Server!RefetchAfter, Server!Lists,
               Server!Servers, Server!Empty, Server!Freed
      <3>3. QED
        BY <3>2, AnsweredIsSteady
    <2>2. ASSUME out # "success"  PROVE Goal
      <3>1. /\ r.to = "server/add"
            /\ net' = net \ {r}
            /\ ui' = Server!Freed("server/add")
        BY <1>19, <2>2 DEF Server!AddServerDone, Server!Settle
      <3>2. Answered(r, {}, Flags, Single)
        BY <3>1 DEF Answered, Server!RefetchAfter, Server!Lists,
               Server!Servers, Server!Empty, Server!Freed
      <3>3. QED
        BY <3>2, AnsweredIsSteady
    <2>3. QED
      BY <2>1, <2>2
  <1>20. ASSUME NEW r \in net, NEW out, Server!WarmupSaved(r, out)  PROVE Goal
    <2>1. CASE r.to = "server/save" /\ Server!FirstSaved(r, out)
      <3>0. PICK other \in net \ {r} :
              /\ other.to = "server/save"
              /\ net' = Server!Ask(net \ {r, other},
                                   IF out = "thrown" THEN "server/late" ELSE "server/save",
                                   Server!Save(other.arg.on, out))
              /\ ui' = IF out = "thrown" THEN Server!Freed("server/save") ELSE ui
        BY <2>1 DEF Server!FirstSaved
      <3> DEFINE t == IF out = "thrown" THEN "server/late" ELSE "server/save"
                 a == Server!Save(other.arg.on, out)
      <3>1. /\ t \in {"server/late", "server/save"}
            /\ other.to = "server/save"
            /\ net' = Server!Ask(net \ {r, other}, t, a)
            /\ t # "server/save" => ui' = Server!Freed("server/save")
            /\ t = "server/save" => ui' = ui
        BY <3>0
      <3> HIDE DEF t, a
      <3>2. Adds(net', (net \ {r}) \ {other}, t)
        <4>1. net \ {r, other} = (net \ {r}) \ {other}
          OBVIOUS
        <4>2. net' = Server!Ask((net \ {r}) \ {other}, t, a)
          BY <3>1, <4>1
        <4>3. QED
          BY <4>2, ServerAsks
      <3>3. Sent(net) \ {"server/save"} \subseteq Sent((net \ {r}) \ {other})
        BY <2>1, <3>1
      <3>4. /\ Sent((net \ {r}) \ {other}) \subseteq Sent(net)
            /\ \A u : Lone(net, u) => Lone((net \ {r}) \ {other}, u)
        OBVIOUS
      <3> DEFINE rest == (net \ {r}) \ {other}
      <3> HIDE DEF rest
      <3>5. /\ Sent(net') = Sent(rest) \cup {t} /\ Lone(net', "key")
            /\ Sent(rest) \subseteq Sent(net) /\ Sent(net) \ {"server/save"} \subseteq Sent(rest)
        BY <3>1, <3>2, <3>3, <3>4 DEF rest
      <3>6. /\ Mounted' /\ ui'.page = ui.page
            /\ ui'.busy = IF t = "server/save" THEN ui.busy ELSE ui.busy \ {"server/save"}
        BY <3>1 DEF Server!Freed
      <3>7. ui'.busy \subseteq Flags /\ ui'.busy \subseteq Sent(net')
        <4>1. CASE t = "server/save"
          BY <3>5, <3>6, <4>1
        <4>2. CASE t = "server/late"
          BY <3>5, <3>6, <4>2
        <4>3. QED
          BY <3>1, <4>1, <4>2
      <3>8. "contact" \in Sent(net') => "contact" \in Sent(net)
        BY <3>1, <3>5
      <3>9. "key" \in Sent(net') => "key" \in ui'.busy
        <4>1. "key" \in Sent(net') => "key" \in Sent(net)
          BY <3>1, <3>5
        <4>2. "key" \in Sent(net) => "key" \in ui.busy
          OBVIOUS
        <4>3. "key" \in ui.busy => "key" \in ui'.busy
          BY <3>6
        <4>4. QED
          BY <4>1, <4>2, <4>3
      <3>10. QED
        BY <3>5, <3>6, <3>7, <3>8, <3>9
    <2>2. CASE r.to = "server/save" /\ Server!BothSaved(r, out)
      <3>1. CASE Server!RefetchAfter(r, Server!Unmanaged(Server!Freed("server/save")))
        <4>1. Answered(r, {"server/list"}, Flags, Single)
          BY <2>2, <3>1 DEF Answered, Server!RefetchAfter, Server!Unmanaged,
                 Server!Lists, Server!Servers, Server!Empty, Server!Freed
        <4>2. QED
          BY <4>1, AnsweredIsSteady
      <3>2. CASE net' = net \ {r} /\ ui' = Server!Freed("server/save")
        <4>1. Answered(r, {}, Flags, Single)
          BY <2>2, <3>2 DEF Answered, Server!Freed
        <4>2. QED
          BY <4>1, AnsweredIsSteady
      <3>3. QED
        BY <2>2, <3>1, <3>2 DEF Server!BothSaved
    <2>3. CASE Server!Settle(r, "server/late") /\ ui' = ui
      <3>1. Answered(r, {}, Flags, Single)
        BY <2>3 DEF Answered, Server!Settle
      <3>2. QED
        BY <3>1, AnsweredIsSteady
    <2>4. QED
      BY <1>20, <2>1, <2>2, <2>3 DEF Server!WarmupSaved
  <1>21. ASSUME NEW r \in net, NEW out, Server!ServerMutated(r, out)  PROVE Goal
    <2>1. ASSUME out = "success"  PROVE Goal
      <3>1. /\ r.to \in {"server/toggle", "server/delete"}
            /\ Server!RefetchAfter(r, ui)
        BY <1>21, <2>1 DEF Server!ServerMutated
      <3>2. Answered(r, {"server/list"}, Flags, Single)
        BY <3>1 DEF Answered, Server!RefetchAfter, Server!Lists,
               Server!Servers, Server!Empty
      <3>3. QED
        BY <3>2, AnsweredIsSteady
    <2>2. ASSUME out # "success"  PROVE Goal
      <3>1. /\ r.to \in {"server/toggle", "server/delete"}
            /\ net' = net \ {r}
            /\ ui' = ui
        BY <1>21, <2>2 DEF Server!ServerMutated
      <3>2. Answered(r, {}, Flags, Single)
        BY <3>1 DEF Answered, Server!RefetchAfter, Server!Lists,
               Server!Servers, Server!Empty
      <3>3. QED
        BY <3>2, AnsweredIsSteady
    <2>3. QED
      BY <2>1, <2>2
  <1>22. ASSUME NEW r \in net, NEW out, Server!PasswordActionDone(r, out)  PROVE Goal
    <2>1. Answered(r, {}, Flags, Single)
      BY <1>22 DEF Answered, Server!PasswordActionDone, Server!Freed,
             Server!None, Server!Settle
    <2>2. QED
      BY <2>1, AnsweredIsSteady
  <1>23. QED
    BY <1>1, <1>2, <1>3, <1>4, <1>5, <1>6, <1>7, <1>8, <1>9, <1>10, <1>11,
       <1>12, <1>13, <1>14, <1>15, <1>16, <1>17, <1>18, <1>19, <1>20, <1>21,
       <1>22
       DEF ServerStep, Server!Click, Server!Answer

JobControlFlags == {"data", "save", "cleanup"}
JobControlSingle == {"cleanup"}

LEMMA JobControlAsks == \A c, t, a : Adds(JobControl!Ask(c, t, a), c, t)
PROOF
  <1>1. \A c, t, a : \E i : JobControl!Ask(c, t, a) = c \cup {Request(i, t, a)}
    BY DEF JobControl!Ask, Request
  <1>2. QED
    BY <1>1, OneMore

\* The settings of the jobs: one clean-up at a time.
LEMMA JobControlSteady ==
  ASSUME JobControlStep, Settled(JobControlFlags, JobControlSingle)
  PROVE  Steady(JobControlFlags, JobControlSingle)
PROOF
  <1> DEFINE Flags == JobControlFlags
  <1> DEFINE Single == JobControlSingle
  <1> DEFINE Goal == Steady(Flags, Single)
  <1> USE JobControlAsks, Settling, Empty
      DEF Adds, Settled, Mounted, Left, SamePage, Spinning, Alone, Steady,
          JobControlFlags, JobControlSingle
  <1>1. CASE JobControl!RefreshButton
    BY <1>1 DEF JobControl!RefreshButton, JobControl!Skeleton,
           JobControl!fetchData, JobControl!CanCall, JobControl!Ready,
           JobControl!Send, JobControl!Submit
  <1>2. ASSUME NEW s, JobControl!EditSettings(s)  PROVE Goal
    BY <1>2 DEF JobControl!EditSettings, JobControl!Skeleton, JobControl!Ready
  <1>3. CASE JobControl!onSaveSettings
    BY <1>3 DEF JobControl!onSaveSettings, JobControl!SaveButton,
           JobControl!Skeleton, JobControl!CanCall, JobControl!Ready,
           JobControl!Send
  <1>4. CASE JobControl!SavedExpires
    BY <1>4 DEF JobControl!SavedExpires
  <1>5. CASE JobControl!openCleanupModal
    BY <1>5 DEF JobControl!openCleanupModal, JobControl!Skeleton,
           JobControl!Ready
  <1>6. CASE JobControl!TypeCleanupPhrase
    BY <1>6 DEF JobControl!TypeCleanupPhrase
  <1>7. CASE JobControl!CloseCleanupModal
    BY <1>7 DEF JobControl!CloseCleanupModal
  <1>8. CASE JobControl!handleCleanup
    BY <1>8 DEF JobControl!handleCleanup, JobControl!CleanupDialog,
           JobControl!CanCall, JobControl!Ready, JobControl!Send
  <1>9. ASSUME NEW r \in net, NEW out, JobControl!FetchedData(r, out)  PROVE Goal
    <2>1. PICK counted \in BOOLEAN :
            LET u == [JobControl!Freed("data") EXCEPT !.stats = @ \/ counted]
            IN ui' = CASE out = "thrown" -> JobControl!Freed("data")
                       [] out = "error" -> u
                       [] OTHER -> [u EXCEPT !.busy = @ \ {"save"}, !.form = r.arg.read]
      BY <1>9 DEF JobControl!FetchedData
    <2>2. /\ Mounted' /\ ui'.page = ui.page
          /\ ui'.busy \in {ui.busy \ {"data"}, (ui.busy \ {"data"}) \ {"save"}}
      BY <2>1 DEF JobControl!Freed
    <2>3. r.to = "data" /\ net' = net \ {r}
      BY <1>9 DEF JobControl!FetchedData, JobControl!Settle
    <2>4. Answered(r, {}, Flags, Single)
      BY <2>2, <2>3 DEF Answered
    <2>5. QED
      BY <2>4, AnsweredIsSteady
  <1>10. ASSUME NEW r \in net, NEW out, JobControl!SettingsSaved(r, out)  PROVE Goal
    <2>1. ASSUME out = "success"  PROVE Goal
      <3>1. /\ r.to = "save"
            /\ net' = JobControl!Ask(net \ {r}, "data", [read |-> ui.srv])
            /\ ui' = [ui EXCEPT !.saved = TRUE, !.busy = (ui.busy \ {"save"}) \cup {"data"}]
        BY <1>10, <2>1 DEF JobControl!SettingsSaved, JobControl!Settle,
               JobControl!SettleAndAsk
      <3>2. Answered(r, {"data"}, Flags, Single)
        BY <3>1 DEF Answered, JobControl!Freed
      <3>3. QED
        BY <3>2, AnsweredIsSteady
    <2>2. ASSUME out # "success"  PROVE Goal
      <3>1. /\ r.to = "save"
            /\ net' = net \ {r}
            /\ ui' = JobControl!Freed("save")
        BY <1>10, <2>2 DEF JobControl!SettingsSaved, JobControl!Settle,
               JobControl!SettleAndAsk
      <3>2. Answered(r, {}, Flags, Single)
        BY <3>1 DEF Answered, JobControl!Freed
      <3>3. QED
        BY <3>2, AnsweredIsSteady
    <2>3. QED
      BY <2>1, <2>2
  <1>11. ASSUME NEW r \in net, NEW out, JobControl!CleanupDone(r, out)  PROVE Goal
    <2>1. ASSUME out = "success"  PROVE Goal
      <3>1. /\ r.to = "cleanup"
            /\ net' = JobControl!Ask(net \ {r}, "data", [read |-> ui.srv])
            /\ ui' = [ui EXCEPT !.step = "success", !.busy = (ui.busy \ {"cleanup"}) \cup {"data"}]
        BY <1>11, <2>1 DEF JobControl!CleanupDone, JobControl!Settle,
               JobControl!SettleAndAsk
      <3>2. Answered(r, {"data"}, Flags, Single)
        BY <3>1 DEF Answered, JobControl!Freed
      <3>3. QED
        BY <3>2, AnsweredIsSteady
    <2>2. ASSUME out # "success"  PROVE Goal
      <3>1. /\ r.to = "cleanup"
            /\ net' = net \ {r}
            /\ ui' = [JobControl!Freed("cleanup") EXCEPT !.step = "confirm"]
        BY <1>11, <2>2 DEF JobControl!CleanupDone, JobControl!Settle,
               JobControl!SettleAndAsk
      <3>2. Answered(r, {}, Flags, Single)
        BY <3>1 DEF Answered, JobControl!Freed
      <3>3. QED
        BY <3>2, AnsweredIsSteady
    <2>3. QED
      BY <2>1, <2>2
  <1>12. QED
    BY <1>1, <1>2, <1>3, <1>4, <1>5, <1>6, <1>7, <1>8, <1>9, <1>10, <1>11
       DEF JobControlStep, JobControl!Click, JobControl!Answer

ApiKeysFlags == {"create", "stats", "rotate", "revoke"}
ApiKeysSingle == {"create", "rotate", "revoke"}

LEMMA ApiKeysAsks == \A c, t, a : Adds(ApiKeys!Ask(c, t, a), c, t)
PROOF
  <1>1. \A c, t, a : \E i : ApiKeys!Ask(c, t, a) = c \cup {Request(i, t, a)}
    BY DEF ApiKeys!Ask, Request
  <1>2. QED
    BY <1>1, OneMore

\* The API keys: one creation, one rotation, one revocation at a time.
LEMMA ApiKeysSteady ==
  ASSUME ApiKeysStep, Settled(ApiKeysFlags, ApiKeysSingle)
  PROVE  Steady(ApiKeysFlags, ApiKeysSingle)
PROOF
  <1> DEFINE Flags == ApiKeysFlags
  <1> DEFINE Single == ApiKeysSingle
  <1> DEFINE Goal == Steady(Flags, Single)
  <1> USE ApiKeysAsks, Settling, Empty
      DEF Adds, Settled, Mounted, Left, SamePage, Spinning, Alone, Steady,
          ApiKeysFlags, ApiKeysSingle
  <1>1. CASE ApiKeys!onCreateKey
    BY <1>1 DEF ApiKeys!onCreateKey, ApiKeys!CreateForm, ApiKeys!KeyIds,
           ApiKeys!Uncovered, ApiKeys!isLimitReached, ApiKeys!CanCall,
           ApiKeys!Ready, ApiKeys!Send
  <1>2. CASE ApiKeys!DismissLatest
    BY <1>2 DEF ApiKeys!DismissLatest, ApiKeys!Uncovered
  <1>3. ASSUME NEW d \in {"detail", "rotate", "revoke"}, NEW k, ApiKeys!OpenKeyDialog(d, k)
        PROVE  Goal
    BY <1>3 DEF ApiKeys!OpenKeyDialog, ApiKeys!Uncovered
  <1>4. CASE ApiKeys!CloseDetail
    BY <1>4 DEF ApiKeys!CloseDetail
  <1>5. CASE ApiKeys!CancelRotate
    BY <1>5 DEF ApiKeys!CancelRotate, ApiKeys!RotateDialog, ApiKeys!Ready
  <1>6. CASE ApiKeys!CancelRevoke
    BY <1>6 DEF ApiKeys!CancelRevoke, ApiKeys!RevokeDialog, ApiKeys!Ready
  <1>7. CASE ApiKeys!handleRotateKey
    BY <1>7 DEF ApiKeys!handleRotateKey, ApiKeys!RotateDialog,
           ApiKeys!CanCall, ApiKeys!Ready, ApiKeys!Send
  <1>8. CASE ApiKeys!handleRevokeKey
    BY <1>8 DEF ApiKeys!handleRevokeKey, ApiKeys!RevokeDialog,
           ApiKeys!CanCall, ApiKeys!Ready, ApiKeys!Send
  <1>9. ASSUME NEW r \in net, NEW out, ApiKeys!FetchedKeys(r, out)  PROVE Goal
    BY <1>9 DEF ApiKeys!FetchedKeys, ApiKeys!Settle
  <1>10. ASSUME NEW r \in net, NEW out, ApiKeys!KeyCreated(r, out)  PROVE Goal
    <2>1. ASSUME out = "success"  PROVE Goal
      <3>1. /\ r.to = "create"
            /\ net' = ApiKeys!Refreshed(r)
            /\ ui' = ApiKeys!Loading([ApiKeys!Freed("create") EXCEPT
                                         !.latest = <<r.arg.key, ui.srv[r.arg.key]>>])
        BY <1>10, <2>1 DEF ApiKeys!KeyCreated, ApiKeys!Settle
      <3>2. Answered(r, {"keys", "stats"}, Flags, Single)
        BY <3>1 DEF Answered, ApiKeys!Refreshed, ApiKeys!Loading,
               ApiKeys!Fetching, ApiKeys!fetchKeys, ApiKeys!Freed
      <3>3. QED
        BY <3>2, AnsweredIsSteady
    <2>2. ASSUME out # "success"  PROVE Goal
      <3>1. /\ r.to = "create"
            /\ net' = net \ {r}
            /\ ui' = ApiKeys!Freed("create")
        BY <1>10, <2>2 DEF ApiKeys!KeyCreated, ApiKeys!Settle
      <3>2. Answered(r, {}, Flags, Single)
        BY <3>1 DEF Answered, ApiKeys!Refreshed, ApiKeys!Loading,
               ApiKeys!Fetching, ApiKeys!fetchKeys, ApiKeys!Freed
      <3>3. QED
        BY <3>2, AnsweredIsSteady
    <2>3. QED
      BY <2>1, <2>2
  <1>11. ASSUME NEW r \in net, NEW out, ApiKeys!KeyRotated(r, out)  PROVE Goal
    <2>1. ASSUME out = "success"  PROVE Goal
      <3>1. /\ r.to = "rotate"
            /\ net' = ApiKeys!fetchKeys(net \ {r}, ui.live)
            /\ ui' = [ApiKeys!Freed("rotate") EXCEPT !.latest = r.arg.token, !.rotate = 0]
        BY <1>11, <2>1 DEF ApiKeys!KeyRotated, ApiKeys!Settle
      <3>2. Answered(r, {"keys"}, Flags, Single)
        BY <3>1 DEF Answered, ApiKeys!fetchKeys, ApiKeys!Freed
      <3>3. QED
        BY <3>2, AnsweredIsSteady
    <2>2. ASSUME out # "success"  PROVE Goal
      <3>1. /\ r.to = "rotate"
            /\ net' = net \ {r}
            /\ ui' = ApiKeys!Freed("rotate")
        BY <1>11, <2>2 DEF ApiKeys!KeyRotated, ApiKeys!Settle
      <3>2. Answered(r, {}, Flags, Single)
        BY <3>1 DEF Answered, ApiKeys!fetchKeys, ApiKeys!Freed
      <3>3. QED
        BY <3>2, AnsweredIsSteady
    <2>3. QED
      BY <2>1, <2>2
  <1>12. ASSUME NEW r \in net, NEW out, ApiKeys!KeyRevoked(r, out)  PROVE Goal
    <2>1. ASSUME out = "success"  PROVE Goal
      <3>1. /\ r.to = "revoke"
            /\ net' = ApiKeys!Refreshed(r)
            /\ ui' = ApiKeys!Loading([ApiKeys!Freed("revoke") EXCEPT !.revoke = 0])
        BY <1>12, <2>1 DEF ApiKeys!KeyRevoked, ApiKeys!Settle
      <3>2. Answered(r, {"keys", "stats"}, Flags, Single)
        BY <3>1 DEF Answered, ApiKeys!Refreshed, ApiKeys!Loading,
               ApiKeys!Fetching, ApiKeys!fetchKeys, ApiKeys!Freed
      <3>3. QED
        BY <3>2, AnsweredIsSteady
    <2>2. ASSUME out # "success"  PROVE Goal
      <3>1. /\ r.to = "revoke"
            /\ net' = net \ {r}
            /\ ui' = ApiKeys!Freed("revoke")
        BY <1>12, <2>2 DEF ApiKeys!KeyRevoked, ApiKeys!Settle
      <3>2. Answered(r, {}, Flags, Single)
        BY <3>1 DEF Answered, ApiKeys!Refreshed, ApiKeys!Loading,
               ApiKeys!Fetching, ApiKeys!fetchKeys, ApiKeys!Freed
      <3>3. QED
        BY <3>2, AnsweredIsSteady
    <2>3. QED
      BY <2>1, <2>2
  <1>13. ASSUME NEW r \in net, NEW out, ApiKeys!FetchedStats(r, out)  PROVE Goal
    BY <1>13 DEF ApiKeys!FetchedStats, ApiKeys!SetStats, ApiKeys!Freed,
           ApiKeys!Settle
  <1>14. QED
    BY <1>1, <1>2, <1>3, <1>4, <1>5, <1>6, <1>7, <1>8, <1>9, <1>10, <1>11,
       <1>12, <1>13
       DEF ApiKeysStep, ApiKeys!Click, ApiKeys!Answer

CacheFlags == {"cache/stats", "policies", "lookup", "purge", "purge-older",
               "upload"}
CacheSingle == {"purge", "purge-older"}

LEMMA CacheAsks == \A c, t, a : Adds(Cache!Ask(c, t, a), c, t)
PROOF
  <1>1. \A c, t, a : \E i : Cache!Ask(c, t, a) = c \cup {Request(i, t, a)}
    BY DEF Cache!Ask, Request
  <1>2. QED
    BY <1>1, OneMore

\* The e-mail cache: one purge of each kind at a time.
LEMMA CacheSteady ==
  ASSUME CacheStep, Settled(CacheFlags, CacheSingle)
  PROVE  Steady(CacheFlags, CacheSingle)
PROOF
  <1> DEFINE Flags == CacheFlags
  <1> DEFINE Single == CacheSingle
  <1> DEFINE Goal == Steady(Flags, Single)
  <1> USE CacheAsks, Settling, Empty
      DEF Adds, Settled, Mounted, Left, SamePage, Spinning, Alone, Steady,
          CacheFlags, CacheSingle
  <1>1. CASE Cache!RefreshButton
    BY <1>1 DEF Cache!RefreshButton, Cache!fetchStats, Cache!CanCall,
           Cache!None, Cache!Ready
  <1>2. ASSUME NEW p, Cache!EditPolicies(p)  PROVE Goal
    BY <1>2 DEF Cache!EditPolicies, Cache!None
  <1>3. CASE Cache!onSavePolicies
    BY <1>3 DEF Cache!onSavePolicies, Cache!PoliciesForm, Cache!CanCall,
           Cache!None, Cache!Ready, Cache!Send
  <1>4. CASE Cache!SavedExpires
    BY <1>4 DEF Cache!SavedExpires
  <1>5. ASSUME NEW e, Cache!onLookup(e)  PROVE Goal
    BY <1>5 DEF Cache!onLookup, Cache!LookupForm, Cache!CanCall, Cache!None,
           Cache!Ready, Cache!Send
  <1>6. CASE Cache!OpenInvalidate
    BY <1>6 DEF Cache!OpenInvalidate, Cache!None
  <1>7. ASSUME NEW p, Cache!OpenPurge(p)  PROVE Goal
    BY <1>7 DEF Cache!OpenPurge, Cache!None, Cache!Ready
  <1>8. ASSUME NEW m, Cache!ConfirmPhrase(m)  PROVE Goal
    BY <1>8 DEF Cache!ConfirmPhrase, Cache!Rendered, Cache!None
  <1>9. CASE Cache!CancelModal
    BY <1>9 DEF Cache!CancelModal, Cache!None
  <1>10. CASE Cache!doDeleteCache
    BY <1>10 DEF Cache!doDeleteCache, Cache!Rendered, Cache!CanCall,
           Cache!None, Cache!Send
  <1>11. CASE Cache!handlePurge
    BY <1>11 DEF Cache!handlePurge, Cache!SubmitPurge, Cache!PurgeModal,
           Cache!Rendered, Cache!CanCall, Cache!None, Cache!Ready, Cache!Send,
           Cache!Submit
  <1>12. CASE Cache!handlePurgeOlder
    BY <1>12 DEF Cache!handlePurgeOlder, Cache!SubmitPurge, Cache!PurgeModal,
           Cache!Rendered, Cache!CanCall, Cache!None, Cache!Ready, Cache!Send,
           Cache!Submit
  <1>13. CASE Cache!uploadFile
    BY <1>13 DEF Cache!uploadFile, Cache!ChooseFile, Cache!DropFile,
           Cache!CanCall, Cache!None, Cache!Ready, Cache!Send, Cache!Submit
  <1>14. ASSUME NEW r \in net, NEW out, Cache!FetchedStats(r, out)  PROVE Goal
    BY <1>14 DEF Cache!FetchedStats, Cache!Freed, Cache!Settle
  <1>15. ASSUME NEW r \in net, NEW out, Cache!PoliciesSaved(r, out)  PROVE Goal
    BY <1>15 DEF Cache!PoliciesSaved, Cache!Freed, Cache!Settle
  <1>16. ASSUME NEW r \in net, NEW out, Cache!LookedUp(r, out)  PROVE Goal
    BY <1>16 DEF Cache!LookedUp, Cache!Freed, Cache!Settle
  <1>17. ASSUME NEW r \in net, NEW out, Cache!CacheDeleted(r, out)  PROVE Goal
    <2>1. ASSUME out = "success"  PROVE Goal
      <3>1. /\ r.to = "invalidate"
            /\ Cache!Mutated(r, [Cache!Freed("lookup") EXCEPT
                             !.found = Cache!None, !.typed = @ \ {"invalidate"},
                             !.modal = IF @ = "invalidate" THEN Cache!None ELSE @])
        BY <1>17, <2>1 DEF Cache!CacheDeleted, Cache!Settle
      <3>2. Answered(r, {"cache/stats"}, Flags, Single)
        BY <3>1 DEF Answered, Cache!Mutated, Cache!fetchStats, Cache!Freed,
               Cache!None
      <3>3. QED
        BY <3>2, AnsweredIsSteady
    <2>2. ASSUME out # "success"  PROVE Goal
      <3>1. /\ r.to = "invalidate"
            /\ net' = net \ {r}
            /\ ui' = ui
        BY <1>17, <2>2 DEF Cache!CacheDeleted, Cache!Settle
      <3>2. Answered(r, {}, Flags, Single)
        BY <3>1 DEF Answered, Cache!Mutated, Cache!fetchStats, Cache!Freed,
               Cache!None
      <3>3. QED
        BY <3>2, AnsweredIsSteady
    <2>3. QED
      BY <2>1, <2>2
  <1>18. ASSUME NEW r \in net, NEW out, Cache!Purged(r, out)  PROVE Goal
    <2>1. ASSUME out = "success"  PROVE Goal
      <3>1. /\ r.to \in Cache!Purges
            /\ Cache!Mutated(r, [ui EXCEPT !.typed = ui.typed \ {r.to},
                                   !.modal = IF ui.modal = r.to THEN Cache!None ELSE ui.modal])
        BY <1>18, <2>1 DEF Cache!Purged, Cache!Purges
      <3>2. Answered(r, {"cache/stats"}, Flags, Single)
        BY <3>1 DEF Answered, Cache!Purges, Cache!Mutated, Cache!fetchStats,
               Cache!Freed, Cache!None
      <3>3. QED
        BY <3>2, AnsweredIsSteady
    <2>2. ASSUME out # "success"  PROVE Goal
      <3>1. /\ net' = net \ {r}
            /\ ui' = Cache!Freed(r.to)
        BY <1>18, <2>2 DEF Cache!Purged, Cache!Purges
      <3>2. Answered(r, {}, Flags, Single)
        BY <3>1 DEF Answered, Cache!Purges, Cache!Mutated, Cache!fetchStats,
               Cache!Freed, Cache!None
      <3>3. QED
        BY <3>2, AnsweredIsSteady
    <2>3. QED
      BY <2>1, <2>2
  <1>19. ASSUME NEW r \in net, NEW out, Cache!Uploaded(r, out)  PROVE Goal
    <2>1. ASSUME out = "success"  PROVE Goal
      <3>1. /\ r.to = "upload"
            /\ Cache!Mutated(r, ui)
        BY <1>19, <2>1 DEF Cache!Uploaded, Cache!Settle
      <3>2. Answered(r, {"cache/stats"}, Flags, Single)
        BY <3>1 DEF Answered, Cache!Mutated, Cache!fetchStats, Cache!Freed
      <3>3. QED
        BY <3>2, AnsweredIsSteady
    <2>2. ASSUME out # "success"  PROVE Goal
      <3>1. /\ r.to = "upload"
            /\ net' = net \ {r}
            /\ ui' = Cache!Freed("upload")
        BY <1>19, <2>2 DEF Cache!Uploaded, Cache!Settle
      <3>2. Answered(r, {}, Flags, Single)
        BY <3>1 DEF Answered, Cache!Mutated, Cache!fetchStats, Cache!Freed
      <3>3. QED
        BY <3>2, AnsweredIsSteady
    <2>3. QED
      BY <2>1, <2>2
  <1>20. QED
    BY <1>1, <1>2, <1>3, <1>4, <1>5, <1>6, <1>7, <1>8, <1>9, <1>10, <1>11,
       <1>12, <1>13, <1>14, <1>15, <1>16, <1>17, <1>18, <1>19
       DEF CacheStep, Cache!Click, Cache!Answer

LogsFlags == {"logs", "clear"}
LogsSingle == {"clear"}

LEMMA LogsLoads ==
  ASSUME NEW calls, NEW u, NEW loading, NEW mode, NEW level,
         Logs!loadPage(calls, u, loading, mode, level)
  PROVE  /\ loading => net' = calls /\ ui' = u
         /\ ~loading => /\ \E arg : net' = Logs!Ask(calls, "logs", arg)
                        /\ ui' = [u EXCEPT !.busy = u.busy \cup {"logs"}]
PROOF BY DEF Logs!loadPage

LEMMA LogsAsks == \A c, t, a : Adds(Logs!Ask(c, t, a), c, t)
PROOF
  <1>1. \A c, t, a : \E i : Logs!Ask(c, t, a) = c \cup {Request(i, t, a)}
    BY DEF Logs!Ask, Request
  <1>2. QED
    BY <1>1, OneMore

\* The system log: one clear-out at a time, however its pages are loaded.
LEMMA LogsSteady ==
  ASSUME LogsStep, Settled(LogsFlags, LogsSingle)
  PROVE  Steady(LogsFlags, LogsSingle)
PROOF
  <1> DEFINE Flags == LogsFlags
  <1> DEFINE Single == LogsSingle
  <1> DEFINE Goal == Steady(Flags, Single)
  <1> USE LogsAsks, Settling, Empty
      DEF Adds, Settled, Mounted, Left, SamePage, Spinning, Alone, Steady,
          LogsFlags, LogsSingle
  <1>1. ASSUME NEW level, Logs!FilterLevel(level)  PROVE Goal
    <2> DEFINE u == Logs!clearLogs([ui EXCEPT !.level = level, !.initial = TRUE])
    <2>1. CASE Logs!Ready("logs")
      <3>1. Logs!loadPage(net, u, FALSE, "reset", level)
        BY <1>1, <2>1 DEF Logs!FilterLevel
      <3>2. /\ \E arg : net' = Logs!Ask(net, "logs", arg)
            /\ ui' = [u EXCEPT !.busy = u.busy \cup {"logs"}]
        BY <3>1, LogsLoads
      <3>3. QED
        BY <3>2, <2>1 DEF Logs!Ready, Logs!clearLogs
    <2>2. CASE ~Logs!Ready("logs")
      <3>1. Logs!loadPage(net, u, TRUE, "reset", level)
        BY <1>1, <2>2 DEF Logs!FilterLevel
      <3>2. net' = net /\ ui' = u
        BY <3>1, LogsLoads
      <3>3. QED
        BY <3>2 DEF Logs!clearLogs
    <2>3. QED
      BY <2>1, <2>2
  <1>2. CASE Logs!Intersecting
    <2>1. Logs!loadPage(net, ui, FALSE, "append", ui.level) /\ Logs!Ready("logs")
      BY <1>2 DEF Logs!Intersecting
    <2>2. /\ \E arg : net' = Logs!Ask(net, "logs", arg)
          /\ ui' = [ui EXCEPT !.busy = ui.busy \cup {"logs"}]
      BY <2>1, LogsLoads
    <2>3. QED
      BY <2>2
  <1>3. CASE Logs!handleRefresh
    <2> DEFINE u == Logs!clearLogs([ui EXCEPT !.initial = TRUE])
    <2>1. Logs!loadPage(net, u, FALSE, "reset", ui.level)
      BY <1>3 DEF Logs!handleRefresh
    <2>2. /\ \E arg : net' = Logs!Ask(net, "logs", arg)
          /\ ui' = [u EXCEPT !.busy = u.busy \cup {"logs"}]
      BY <2>1, LogsLoads
    <2>3. QED
      BY <2>2 DEF Logs!clearLogs
  <1>4. CASE Logs!handleOpenClearDialog
    BY <1>4 DEF Logs!handleOpenClearDialog
  <1>5. CASE Logs!TypeClearPhrase
    BY <1>5 DEF Logs!TypeClearPhrase, Logs!Ready
  <1>6. CASE Logs!CancelClear
    BY <1>6 DEF Logs!CancelClear, Logs!Ready
  <1>7. CASE Logs!handleConfirmClear
    BY <1>7 DEF Logs!handleConfirmClear, Logs!ClearDialog, Logs!CanCall,
           Logs!Ready, Logs!Send
  <1>8. CASE Logs!WriteLog
    BY <1>8 DEF Logs!WriteLog
  <1>9. ASSUME NEW lost, Logs!handleLogUpdate(lost)  PROVE Goal
    BY <1>9 DEF Logs!handleLogUpdate, Logs!addLiveLog
  <1>10. ASSUME NEW r \in net, NEW out, Logs!PageLoaded(r, out)  PROVE Goal
    BY <1>10 DEF Logs!PageLoaded, Logs!setInitial, Logs!appendLogs,
           Logs!Freed, Logs!Settle
  <1>11. ASSUME NEW r \in net, NEW out, Logs!Cleared(r, out)  PROVE Goal
    <2> DEFINE u == Logs!Freed("clear")
    <2> DEFINE v == Logs!clearLogs([u EXCEPT !.dialog = FALSE, !.typed = FALSE, !.initial = TRUE])
    <2>1. r.to = "clear"
      BY <1>11 DEF Logs!Cleared
    <2>2. ASSUME out # "success"  PROVE Answered(r, {}, Flags, Single)
      <3>1. net' = net \ {r} /\ ui' = u
        BY <1>11, <2>2 DEF Logs!Cleared
      <3>2. QED
        BY <2>1, <3>1 DEF Answered, Logs!Freed
    <2>3. ASSUME out = "success"
          PROVE  Logs!loadPage(net \ {r}, v, r.arg.loading, "reset", r.arg.level)
      BY <1>11, <2>3 DEF Logs!Cleared
    <2>4. ASSUME out = "success", r.arg.loading  PROVE Answered(r, {}, Flags, Single)
      <3>1. Logs!loadPage(net \ {r}, v, r.arg.loading, "reset", r.arg.level)
        BY <2>3, <2>4
      <3>2. net' = net \ {r} /\ ui' = v
        BY <3>1, <2>4 DEF Logs!loadPage
      <3>3. QED
        BY <2>1, <3>2 DEF Answered, Logs!Freed, Logs!clearLogs
    <2>5. ASSUME out = "success", ~r.arg.loading
          PROVE  Answered(r, {"logs"}, Flags, Single)
      <3>1. /\ \E arg : net' = Logs!Ask(net \ {r}, "logs", arg)
            /\ ui' = [v EXCEPT !.busy = v.busy \cup {"logs"}]
        BY <2>3, <2>5, LogsLoads
      <3>2. QED
        BY <2>1, <3>1 DEF Answered, Logs!Freed, Logs!clearLogs
    <2>6. QED
      BY <2>2, <2>4, <2>5, AnsweredIsSteady
  <1>12. QED
    BY <1>1, <1>2, <1>3, <1>4, <1>5, <1>6, <1>7, <1>8, <1>9, <1>10, <1>11
       DEF LogsStep, Logs!Click, Logs!Answer

LicenseFlags == {"maintenance", "license", "backup", "upload", "restore"}
LicenseSingle == {"backup", "upload", "restore", "maintenance"}

LEMMA LicenseAsks == \A c, t, a : Adds(License!Ask(c, t, a), c, t)
PROOF
  <1>1. \A c, t, a : \E i : License!Ask(c, t, a) = c \cup {Request(i, t, a)}
    BY DEF License!Ask, Request
  <1>2. QED
    BY <1>1, OneMore

\* The license and the backups: each of the four forms one at a time.
LEMMA LicenseSteady ==
  ASSUME LicenseStep, Settled(LicenseFlags, LicenseSingle)
  PROVE  Steady(LicenseFlags, LicenseSingle)
PROOF
  <1> DEFINE Flags == LicenseFlags
  <1> DEFINE Single == LicenseSingle
  <1> DEFINE Goal == Steady(Flags, Single)
  <1> USE LicenseAsks, Settling, Empty
      DEF Adds, Settled, Mounted, Left, SamePage, Spinning, Alone, Steady,
          LicenseFlags, LicenseSingle
  <1>1. CASE License!RefreshStatus
    BY <1>1 DEF License!RefreshStatus, License!Overlay,
           License!fetchSystemStatus, License!CanCall, License!None,
           License!Ready
  <1>2. CASE License!ToggleMaintenance
    BY <1>2 DEF License!ToggleMaintenance, License!Overlay, License!None,
           License!Ready
  <1>3. CASE License!handleSaveMaintenance
    BY <1>3 DEF License!handleSaveMaintenance, License!MaintenanceButton,
           License!Overlay, License!CanCall, License!None, License!Ready,
           License!Send
  <1>4. ASSUME NEW open, License!EditLicense(open)  PROVE Goal
    BY <1>4 DEF License!EditLicense, License!Overlay, License!Freed,
           License!None, License!Ready
  <1>5. CASE License!onLicenseSubmit
    BY <1>5 DEF License!onLicenseSubmit, License!LicenseForm, License!Overlay,
           License!CanCall, License!None, License!Ready, License!Send,
           License!Submit
  <1>6. ASSUME NEW kind, License!generateBackup(kind)  PROVE Goal
    BY <1>6 DEF License!generateBackup, License!BackupButtons,
           License!Overlay, License!CanCall, License!None, License!Ready,
           License!Send
  <1>7. ASSUME NEW release, License!uploadBackupFile(release)  PROVE Goal
    BY <1>7 DEF License!uploadBackupFile, License!UploadZone, License!Overlay,
           License!CanCall, License!None, License!Ready, License!Send
  <1>8. ASSUME NEW b, License!deleteBackup(b)  PROVE Goal
    BY <1>8 DEF License!deleteBackup, License!Overlay, License!CanCall,
           License!None, License!Ready, License!Send
  <1>9. ASSUME NEW b, License!OpenRestore(b)  PROVE Goal
    BY <1>9 DEF License!OpenRestore, License!Overlay, License!None,
           License!Ready
  <1>10. CASE License!CancelRestore
    BY <1>10 DEF License!CancelRestore, License!None, License!Ready
  <1>11. CASE License!startRestore
    BY <1>11 DEF License!startRestore, License!RestoreDialog, License!CanCall,
           License!None, License!Ready, License!Send
  <1>12. ASSUME NEW r \in net, NEW out, License!Fetched(r, out)  PROVE Goal
    BY <1>12 DEF License!Fetched
  <1>13. ASSUME NEW r \in net, NEW out, License!MaintenanceSaved(r, out)  PROVE Goal
    <2>1. Answered(r, {}, Flags, Single)
      BY <1>13 DEF Answered, License!MaintenanceSaved, License!Freed,
             License!Settle
    <2>2. QED
      BY <2>1, AnsweredIsSteady
  <1>14. ASSUME NEW r \in net, NEW out, License!LicenseSaved(r, out)  PROVE Goal
    BY <1>14 DEF License!LicenseSaved, License!Freed, License!Settle
  <1>15. ASSUME NEW r \in net, NEW out, License!Stored(r, out)  PROVE Goal
    <2>1. ASSUME out = "success", r.to = "upload" /\ r.arg.release  PROVE Goal
      <3>1. /\ r.to \in {"backup", "upload"}
            /\ net' = License!fetchSystemStatus(net \ {r})
            /\ ui' = License!Freed(r.to)
        BY <1>15, <2>1 DEF License!Stored
      <3>2. Answered(r, {"status"}, Flags, Single)
        BY <3>1 DEF Answered, License!fetchSystemStatus, License!fetchBackups,
               License!Freed
      <3>3. QED
        BY <3>2, AnsweredIsSteady
    <2>2. ASSUME out = "success", ~(r.to = "upload" /\ r.arg.release)  PROVE Goal
      <3>1. /\ r.to \in {"backup", "upload"}
            /\ net' = License!fetchBackups(net \ {r})
            /\ ui' = License!Freed(r.to)
        BY <1>15, <2>2 DEF License!Stored
      <3>2. Answered(r, {"backups"}, Flags, Single)
        BY <3>1 DEF Answered, License!fetchSystemStatus, License!fetchBackups,
               License!Freed
      <3>3. QED
        BY <3>2, AnsweredIsSteady
    <2>3. ASSUME out # "success"  PROVE Goal
      <3>1. /\ net' = net \ {r}
            /\ ui' = License!Freed(r.to)
        BY <1>15, <2>3 DEF License!Stored
      <3>2. Answered(r, {}, Flags, Single)
        BY <3>1 DEF Answered, License!fetchSystemStatus, License!fetchBackups,
               License!Freed
      <3>3. QED
        BY <3>2, AnsweredIsSteady
    <2>4. QED
      BY <2>1, <2>2, <2>3
  <1>16. ASSUME NEW r \in net, NEW out, License!BackupDeleted(r, out)  PROVE Goal
    BY <1>16 DEF License!BackupDeleted, License!Settle
  <1>17. ASSUME NEW r \in net, NEW out, License!Restored(r, out)  PROVE Goal
    <2>1. ASSUME out = "success"  PROVE Goal
      <3>1. /\ r.to = "restore"
            /\ net' = License!fetchBackups(License!fetchSystemStatus(net \ {r}))
            /\ ui' = License!Freed("restore")
        BY <1>17, <2>1 DEF License!Restored
      <3>2. Answered(r, {"status", "backups"}, Flags, Single)
        BY <3>1 DEF Answered, License!fetchBackups, License!fetchSystemStatus,
               License!Freed
      <3>3. QED
        BY <3>2, AnsweredIsSteady
    <2>2. ASSUME out # "success"  PROVE Goal
      <3>1. /\ r.to = "restore"
            /\ net' = net \ {r}
            /\ ui' = License!Freed("restore")
        BY <1>17, <2>2 DEF License!Restored
      <3>2. Answered(r, {}, Flags, Single)
        BY <3>1 DEF Answered, License!fetchBackups, License!fetchSystemStatus,
               License!Freed
      <3>3. QED
        BY <3>2, AnsweredIsSteady
    <2>3. QED
      BY <2>1, <2>2
  <1>18. QED
    BY <1>1, <1>2, <1>3, <1>4, <1>5, <1>6, <1>7, <1>8, <1>9, <1>10, <1>11,
       <1>12, <1>13, <1>14, <1>15, <1>16, <1>17
       DEF LicenseStep, License!Click, License!Answer

BrandFlags == {"brand", "save"}

LEMMA BrandAsks == \A c, t, a : Adds(Brand!Ask(c, t, a), c, t)
PROOF
  <1>1. \A c, t, a : \E i : Brand!Ask(c, t, a) = c \cup {Request(i, t, a)}
    BY DEF Brand!Ask, Request
  <1>2. QED
    BY <1>1, OneMore

\* The brand: the read at the start and the save.
LEMMA BrandSteady ==
  ASSUME BrandStep, Settled(BrandFlags, {})
  PROVE  Steady(BrandFlags, {})
PROOF
  <1> DEFINE Flags == BrandFlags
  <1> DEFINE Single == {}
  <1> DEFINE Goal == Steady(Flags, Single)
  <1> USE BrandAsks, Settling, Empty
      DEF Adds, Settled, Mounted, Left, SamePage, Spinning, Alone, Steady,
          BrandFlags
  <1>1. ASSUME NEW f, Brand!EditForm(f)  PROVE Goal
    BY <1>1 DEF Brand!EditForm
  <1>2. CASE Brand!OpenEditor
    BY <1>2 DEF Brand!OpenEditor, Brand!None
  <1>3. CASE Brand!CloseEditor
    BY <1>3 DEF Brand!CloseEditor, Brand!None
  <1>4. CASE Brand!handleSaveScript
    BY <1>4 DEF Brand!handleSaveScript, Brand!None
  <1>5. ASSUME NEW s, Brand!handleToggleScript(s)  PROVE Goal
    BY <1>5 DEF Brand!handleToggleScript
  <1>6. ASSUME NEW s, Brand!handleEditScript(s)  PROVE Goal
    BY <1>6 DEF Brand!handleEditScript
  <1>7. ASSUME NEW s, Brand!handleDeleteScript(s)  PROVE Goal
    BY <1>7 DEF Brand!handleDeleteScript
  <1>8. CASE Brand!handleSaveSubmit
    BY <1>8 DEF Brand!handleSaveSubmit, Brand!SaveButton, Brand!CanCall,
           Brand!Ready, Brand!Send
  <1>9. ASSUME NEW r \in net, NEW out, Brand!RefreshedSettings(r, out)  PROVE Goal
    BY <1>9 DEF Brand!RefreshedSettings, Brand!Hydrate, Brand!Freed
  <1>10. ASSUME NEW r \in net, NEW out, Brand!BrandSaved(r, out)  PROVE Goal
    <2>1. ASSUME out = "success"  PROVE Goal
      <3>1. /\ r.to = "save"
            /\ net' = Brand!Ask(net \ {r}, "router", [read |-> ui.srv])
            /\ ui' = [Brand!Freed("save") EXCEPT !.form = r.arg.read.form, !.conf = r.arg.read.form]
        BY <1>10, <2>1 DEF Brand!BrandSaved, Brand!Settle, Brand!SettleAndAsk
      <3>2. Answered(r, {"router"}, Flags, Single)
        BY <3>1 DEF Answered, Brand!Freed
      <3>3. QED
        BY <3>2, AnsweredIsSteady
    <2>2. ASSUME out # "success"  PROVE Goal
      <3>1. /\ r.to = "save"
            /\ net' = net \ {r}
            /\ ui' = Brand!Freed("save")
        BY <1>10, <2>2 DEF Brand!BrandSaved, Brand!Settle, Brand!SettleAndAsk
      <3>2. Answered(r, {}, Flags, Single)
        BY <3>1 DEF Answered, Brand!Freed
      <3>3. QED
        BY <3>2, AnsweredIsSteady
    <2>3. QED
      BY <2>1, <2>2
  <1>11. QED
    BY <1>1, <1>2, <1>3, <1>4, <1>5, <1>6, <1>7, <1>8, <1>9, <1>10
       DEF BrandStep, Brand!Click, Brand!Answer

PackageFlags == {"submit", "delete"}
PackageSingle == {"delete"}

LEMMA PackageAsks == \A c, t, a : Adds(Package!Ask(c, t, a), c, t)
PROOF
  <1>1. \A c, t, a : \E i : Package!Ask(c, t, a) = c \cup {Request(i, t, a)}
    BY DEF Package!Ask, Request
  <1>2. QED
    BY <1>1, OneMore

\* The packages: one deletion at a time; the form may be sent anew.
LEMMA PackageSteady ==
  ASSUME PackageStep, Settled(PackageFlags, PackageSingle)
  PROVE  Steady(PackageFlags, PackageSingle)
PROOF
  <1> DEFINE Flags == PackageFlags
  <1> DEFINE Single == PackageSingle
  <1> DEFINE Goal == Steady(Flags, Single)
  <1> USE PackageAsks, Settling, Empty
      DEF Adds, Settled, Mounted, Left, SamePage, Spinning, Alone, Steady,
          PackageFlags, PackageSingle
  <1>1. CASE Package!openAdd
    BY <1>1 DEF Package!openAdd, Package!OpenForm, Package!Uncovered,
           Package!None
  <1>2. CASE Package!CloseForm
    BY <1>2 DEF Package!CloseForm
  <1>3. CASE Package!CancelDelete
    BY <1>3 DEF Package!CancelDelete, Package!DeleteDialog, Package!None,
           Package!Ready
  <1>4. CASE Package!deletePlan
    BY <1>4 DEF Package!deletePlan, Package!DeleteDialog, Package!CanCall,
           Package!None, Package!Ready, Package!Send, Package!Submit
  <1>5. ASSUME NEW p, Package!openEdit(p)  PROVE Goal
    BY <1>5 DEF Package!openEdit, Package!OpenForm, Package!Uncovered,
           Package!None
  <1>6. ASSUME NEW p, Package!toggleListed(p)  PROVE Goal
    BY <1>6 DEF Package!toggleListed, Package!updatePackageFlags,
           Package!Uncovered, Package!Toggled, Package!CanCall, Package!None,
           Package!Send
  <1>7. ASSUME NEW p, Package!togglePopular(p)  PROVE Goal
    BY <1>7 DEF Package!togglePopular, Package!updatePackageFlags,
           Package!Uncovered, Package!Toggled, Package!CanCall, Package!None,
           Package!Send
  <1>8. ASSUME NEW p, Package!OpenDelete(p)  PROVE Goal
    BY <1>8 DEF Package!OpenDelete, Package!Uncovered, Package!None
  <1>9. ASSUME NEW flags, Package!onSubmit(flags)  PROVE Goal
    BY <1>9 DEF Package!onSubmit, Package!FormModal, Package!CanCall,
           Package!None, Package!Ready, Package!Send, Package!Submit
  <1>10. ASSUME NEW r \in net, NEW out, Package!Submitted(r, out)  PROVE Goal
    BY <1>10 DEF Package!Submitted, Package!Prepended, Package!Replaced,
           Package!Demoted, Package!Freed, Package!Settle
  <1>11. ASSUME NEW r \in net, NEW out, Package!FlagsUpdated(r, out)  PROVE Goal
    BY <1>11 DEF Package!FlagsUpdated, Package!Replaced, Package!Demoted,
           Package!Settle
  <1>12. ASSUME NEW r \in net, NEW out, Package!PlanDeleted(r, out)  PROVE Goal
    <2>1. Answered(r, {}, Flags, Single)
      BY <1>12 DEF Answered, Package!PlanDeleted, Package!Freed, Package!None,
             Package!Settle
    <2>2. QED
      BY <2>1, AnsweredIsSteady
  <1>13. QED
    BY <1>1, <1>2, <1>3, <1>4, <1>5, <1>6, <1>7, <1>8, <1>9, <1>10, <1>11,
       <1>12
       DEF PackageStep, Package!Click, Package!Answer

SmtpFlags == {"template", "save"}

LEMMA SmtpAsks == \A c, t, a : Adds(Smtp!Ask(c, t, a), c, t)
PROOF
  <1>1. \A c, t, a : \E i : Smtp!Ask(c, t, a) = c \cup {Request(i, t, a)}
    BY DEF Smtp!Ask, Request
  <1>2. QED
    BY <1>1, OneMore

\* The e-mail settings and templates.
LEMMA SmtpSteady ==
  ASSUME SmtpStep, Settled(SmtpFlags, {})
  PROVE  Steady(SmtpFlags, {})
PROOF
  <1> DEFINE Flags == SmtpFlags
  <1> DEFINE Single == {}
  <1> DEFINE Goal == Steady(Flags, Single)
  <1> USE SmtpAsks, Settling, Empty
      DEF Adds, Settled, Mounted, Left, SamePage, Spinning, Alone, Steady,
          SmtpFlags
  <1>1. ASSUME NEW d, Smtp!EditTemplate(d)  PROVE Goal
    BY <1>1 DEF Smtp!EditTemplate
  <1>2. ASSUME NEW d, Smtp!ToggleTemplate(d)  PROVE Goal
    BY <1>2 DEF Smtp!ToggleTemplate, Smtp!flushTemplateDraft
  <1>3. ASSUME NEW key, Smtp!handleSelectTemplate(key)  PROVE Goal
    BY <1>3 DEF Smtp!handleSelectTemplate, Smtp!loadTemplateIntoForm,
           Smtp!flushTemplateDraft
  <1>4. ASSUME NEW host, NEW typed, Smtp!EditAccount(host, typed)  PROVE Goal
    BY <1>4 DEF Smtp!EditAccount
  <1>5. CASE Smtp!ProgrammaticEnds
    BY <1>5 DEF Smtp!ProgrammaticEnds
  <1>6. CASE Smtp!ToggleActive
    BY <1>6 DEF Smtp!ToggleActive, Smtp!hasValidCredentials
  <1>7. CASE Smtp!handleSaveSettings
    BY <1>7 DEF Smtp!handleSaveSettings, Smtp!AccountButtons,
           Smtp!flushTemplateDraft, Smtp!hasValidCredentials, Smtp!CanCall,
           Smtp!Ready, Smtp!Send
  <1>8. CASE Smtp!handleTestConnection
    BY <1>8 DEF Smtp!handleTestConnection, Smtp!AccountButtons,
           Smtp!flushTemplateDraft, Smtp!CanCall, Smtp!None, Smtp!Ready,
           Smtp!Send
  <1>9. CASE Smtp!handleSaveTemplate
    BY <1>9 DEF Smtp!handleSaveTemplate, Smtp!TemplateForm, Smtp!CanCall,
           Smtp!Ready, Smtp!Send, Smtp!Submit
  <1>10. ASSUME NEW r \in net, NEW out, Smtp!FetchedData(r, out)  PROVE Goal
    BY <1>10 DEF Smtp!FetchedData, Smtp!loadTemplateIntoForm, Smtp!Settle
  <1>11. ASSUME NEW r \in net, NEW out, Smtp!SettingsSaved(r, out)  PROVE Goal
    BY <1>11 DEF Smtp!SettingsSaved, Smtp!Freed, Smtp!Settle
  <1>12. ASSUME NEW r \in net, NEW out, Smtp!Tested(r, out)  PROVE Goal
    BY <1>12 DEF Smtp!Tested, Smtp!Settle
  <1>13. ASSUME NEW r \in net, NEW out, Smtp!TemplateSaved(r, out)  PROVE Goal
    BY <1>13 DEF Smtp!TemplateSaved, Smtp!Freed, Smtp!Settle
  <1>14. QED
    BY <1>1, <1>2, <1>3, <1>4, <1>5, <1>6, <1>7, <1>8, <1>9, <1>10, <1>11,
       <1>12, <1>13
       DEF SmtpStep, Smtp!Click, Smtp!Answer

ProfileFlags == {"refresh", "name", "password", "webhook"}
ProfileSingle == {"password"}

LEMMA ProfileAsks == \A c, t, a : Adds(Profile!Ask(c, t, a), c, t)
PROOF
  <1>1. \A c, t, a : \E i : Profile!Ask(c, t, a) = c \cup {Request(i, t, a)}
    BY DEF Profile!Ask, Request
  <1>2. QED
    BY <1>1, OneMore

\* The profile: one change of the password at a time.
LEMMA ProfileSteady ==
  ASSUME ProfileStep, Settled(ProfileFlags, ProfileSingle)
  PROVE  Steady(ProfileFlags, ProfileSingle)
PROOF
  <1> DEFINE Flags == ProfileFlags
  <1> DEFINE Single == ProfileSingle
  <1> DEFINE Goal == Steady(Flags, Single)
  <1> USE ProfileAsks, Settling, Empty
      DEF Adds, Settled, Mounted, Left, SamePage, Spinning, Alone, Steady,
          ProfileFlags, ProfileSingle
  <1>1. ASSUME NEW n, Profile!EditName(n)  PROVE Goal
    BY <1>1 DEF Profile!EditName
  <1>2. ASSUME NEW u, Profile!EditUrl(u)  PROVE Goal
    BY <1>2 DEF Profile!EditUrl
  <1>3. CASE Profile!onUpdateName
    BY <1>3 DEF Profile!onUpdateName, Profile!NameForm, Profile!CanCall,
           Profile!Ready, Profile!Send
  <1>4. CASE Profile!onChangePassword
    BY <1>4 DEF Profile!onChangePassword, Profile!PasswordForm,
           Profile!CanCall, Profile!Ready, Profile!Send, Profile!Submit
  <1>5. CASE Profile!onSaveWebhook
    <2> DEFINE u == [ui EXCEPT !.busy = ui.busy \cup {"webhook"}]
    <2>1. Profile!saveWebhook(u, "webhook", Profile!trim(ui.urlForm), FALSE)
      BY <1>5 DEF Profile!onSaveWebhook
    <2>2. \E arg : net' = Profile!Ask(net, "webhook", arg)
      BY <2>1 DEF Profile!saveWebhook, Profile!Send
    <2>3. /\ {"page", "busy"} \subseteq DOMAIN u
          /\ u.page = ui.page
          /\ u.busy = ui.busy \cup {"webhook"}
      OBVIOUS
    <2>4. {"page", "busy"} \subseteq DOMAIN ui' /\ ui'.page = u.page /\ ui'.busy = u.busy
      <3> HIDE DEF u
      <3>1. QED
        BY <2>1, <2>3 DEF Profile!saveWebhook
    <2>5. QED
      BY <2>2, <2>3, <2>4
  <1>13. ASSUME NEW url, NEW b, Profile!saveWebhook(ui, "secret", url, b)  PROVE Goal
    <2>1. \E arg : net' = Profile!Ask(net, "secret", arg)
      BY <1>13 DEF Profile!saveWebhook, Profile!Send
    <2>2. Mounted' /\ ui'.page = ui.page /\ ui'.busy = ui.busy
      BY <1>13 DEF Profile!saveWebhook
    <2>3. QED
      BY <2>1, <2>2
  <1>6. CASE Profile!onRegenerateSecret
    <2>1. \E url : Profile!saveWebhook(ui, "secret", url, TRUE)
      BY <1>6 DEF Profile!onRegenerateSecret
    <2>2. QED
      BY <2>1, <1>13
  <1>7. CASE Profile!onClearWebhook
    BY <1>7, <1>13 DEF Profile!onClearWebhook
  <1>8. CASE Profile!DismissSecret
    BY <1>8 DEF Profile!DismissSecret
  <1>9. ASSUME NEW r \in net, NEW out, Profile!Refreshed(r, out)  PROVE Goal
    BY <1>9 DEF Profile!Refreshed, Profile!Freed, Profile!Settle
  <1>10. ASSUME NEW r \in net, NEW out, Profile!NameUpdated(r, out)  PROVE Goal
    BY <1>10 DEF Profile!NameUpdated, Profile!patchSidebarName, Profile!Freed,
           Profile!Settle
  <1>11. ASSUME NEW r \in net, NEW out, Profile!PasswordChanged(r, out)  PROVE Goal
    <2>1. Answered(r, {}, Flags, Single)
      BY <1>11 DEF Answered, Profile!PasswordChanged, Profile!Freed,
             Profile!Settle
    <2>2. QED
      BY <2>1, AnsweredIsSteady
  <1>12. ASSUME NEW r \in net, NEW out, Profile!WebhookSaved(r, out)  PROVE Goal
    <2>1. /\ r.to \in {"webhook", "secret"} /\ net' = net \ {r}
          /\ Mounted' /\ ui'.page = ui.page
          /\ ui'.busy = ui.busy \ {"webhook"} \/ ui'.busy = ui.busy \ {r.to}
      BY <1>12 DEF Profile!WebhookSaved, Profile!Freed
    <2>2. Answered(r, {}, Flags, Single)
      BY <2>1 DEF Answered
    <2>3. QED
      BY <2>2, AnsweredIsSteady
  <1>14. QED
    BY <1>1, <1>2, <1>3, <1>4, <1>5, <1>6, <1>7, <1>8, <1>9, <1>10, <1>11,
       <1>12
       DEF ProfileStep, Profile!Click, Profile!Answer

DomainFlags == {"domains", "add", "upload"}
DomainSingle == {"add"}

LEMMA DomainAsks == \A c, t, a : Adds(Domain!Ask(c, t, a), c, t)
PROOF
  <1>1. \A c, t, a : \E i : Domain!Ask(c, t, a) = c \cup {Request(i, t, a)}
    BY DEF Domain!Ask, Request
  <1>2. QED
    BY <1>1, OneMore

\* The domain lists: one addition at a time.
LEMMA DomainSteady ==
  ASSUME DomainStep, Settled(DomainFlags, DomainSingle)
  PROVE  Steady(DomainFlags, DomainSingle)
PROOF
  <1> DEFINE Flags == DomainFlags
  <1> DEFINE Single == DomainSingle
  <1> DEFINE Goal == Steady(Flags, Single)
  <1> USE DomainAsks, Settling, Empty
      DEF Adds, Settled, Mounted, Left, SamePage, Spinning, Alone, Steady,
          DomainFlags, DomainSingle
  <1>1. ASSUME NEW t, Domain!TypeFilter(t)  PROVE Goal
    BY <1>1 DEF Domain!TypeFilter
  <1>2. ASSUME NEW n, Domain!TurnPage(n)  PROVE Goal
    BY <1>2 DEF Domain!TurnPage, Domain!Ready
  <1>3. CASE Domain!Debounced
    BY <1>3 DEF Domain!Debounced, Domain!fetchDomains, Domain!Query,
           Domain!CanCall
  <1>4. CASE Domain!handleAddSubmit
    BY <1>4 DEF Domain!handleAddSubmit, Domain!AddForm, Domain!Lists,
           Domain!Query, Domain!CanCall, Domain!Ready, Domain!Send
  <1>5. CASE Domain!handleFileUpload
    BY <1>5 DEF Domain!handleFileUpload, Domain!Query, Domain!CanCall,
           Domain!Send
  <1>6. ASSUME NEW d, Domain!handleToggleExcluded(d)  PROVE Goal
    BY <1>6 DEF Domain!handleToggleExcluded, Domain!RowButtons,
           Domain!CanCall, Domain!Send
  <1>7. ASSUME NEW d, Domain!handleDeleteDomain(d)  PROVE Goal
    BY <1>7 DEF Domain!handleDeleteDomain, Domain!RowButtons, Domain!CanCall,
           Domain!Send
  <1>8. ASSUME NEW r \in net, NEW out, Domain!FetchedDomains(r, out)  PROVE Goal
    BY <1>8 DEF Domain!FetchedDomains, Domain!Freed, Domain!Settle
  <1>9. ASSUME NEW r \in net, NEW out, Domain!DomainsAdded(r, out)  PROVE Goal
    <2>1. ASSUME out = "success"  PROVE Goal
      <3>1. /\ r.to \in {"add", "upload"}
            /\ net' = Domain!fetchDomains(net \ {r}, r.arg.back)
            /\ ui' = [Domain!Freed(r.to) EXCEPT !.busy = @ \cup {"domains"}]
        BY <1>9, <2>1 DEF Domain!DomainsAdded
      <3>2. Answered(r, {"domains"}, Flags, Single)
        BY <3>1 DEF Answered, Domain!fetchDomains, Domain!Freed
      <3>3. QED
        BY <3>2, AnsweredIsSteady
    <2>2. ASSUME out # "success"  PROVE Goal
      <3>1. /\ net' = net \ {r}
            /\ ui' = Domain!Freed(r.to)
        BY <1>9, <2>2 DEF Domain!DomainsAdded
      <3>2. Answered(r, {}, Flags, Single)
        BY <3>1 DEF Answered, Domain!fetchDomains, Domain!Freed
      <3>3. QED
        BY <3>2, AnsweredIsSteady
    <2>3. QED
      BY <2>1, <2>2
  <1>10. ASSUME NEW r \in net, NEW out, Domain!ExcludedToggled(r, out)  PROVE Goal
    BY <1>10 DEF Domain!ExcludedToggled, Domain!None, Domain!Settle
  <1>11. ASSUME NEW r \in net, NEW out, Domain!DomainDeleted(r, out)  PROVE Goal
    BY <1>11 DEF Domain!DomainDeleted, Domain!None, Domain!Settle
  <1>12. QED
    BY <1>1, <1>2, <1>3, <1>4, <1>5, <1>6, <1>7, <1>8, <1>9, <1>10, <1>11
       DEF DomainStep, Domain!Click, Domain!Answer

JobListFlags == {"jobs"}

\* The job an action of the list waits for, one of each kind.
ActingJobs ==
  "acting" \in DOMAIN ui /\ DOMAIN ui.acting = {"delete", "retry", "pause", "resume"}

LEMMA JobListAsks == \A c, t, a : Adds(JobList!Ask(c, t, a), c, t)
PROOF
  <1>1. \A c, t, a : \E i : JobList!Ask(c, t, a) = c \cup {Request(i, t, a)}
    BY DEF JobList!Ask, Request
  <1>2. QED
    BY <1>1, OneMore

\* The list of jobs, whose actions spin on the row of their job.
LEMMA JobListSteady ==
  ASSUME JobListStep, Settled(JobListFlags, {}),
         ActingJobs
  PROVE  Steady(JobListFlags, {})
PROOF
  <1> DEFINE Flags == JobListFlags
  <1> DEFINE Single == {}
  <1> DEFINE Goal == Steady(Flags, Single)
  <1> USE JobListAsks, Settling, Empty
      DEF Adds, Settled, Mounted, Left, SamePage, Spinning, Alone, Steady,
          JobListFlags, ActingJobs
  <1>1. CASE JobList!Refresh
    BY <1>1 DEF JobList!Refresh, JobList!fetchJobs, JobList!Skeletons,
           JobList!OfPage, JobList!total, JobList!rows, JobList!Newer,
           JobList!StoreEmpty, JobList!CanCall
  <1>2. ASSUME NEW offset, JobList!TurnPage(offset)  PROVE Goal
    BY <1>2 DEF JobList!TurnPage, JobList!rows, JobList!total,
           JobList!fetchJobs, JobList!StoreEmpty, JobList!OfPage,
           JobList!Newer, JobList!CanCall, JobList!Ready
  <1>3. ASSUME NEW j, JobList!handleDeleteJob(j)  PROVE Goal
    BY <1>3 DEF JobList!handleDeleteJob, JobList!Act, JobList!Offered,
           JobList!Allowed, JobList!Carried, JobList!rows, JobList!StoreEmpty,
           JobList!CanCall, JobList!Send
  <1>4. ASSUME NEW j, JobList!handleRetryJob(j)  PROVE Goal
    BY <1>4 DEF JobList!handleRetryJob, JobList!Act, JobList!Offered,
           JobList!Allowed, JobList!Carried, JobList!rows, JobList!StoreEmpty,
           JobList!CanCall, JobList!Send
  <1>5. ASSUME NEW j, JobList!handlePauseJob(j)  PROVE Goal
    BY <1>5 DEF JobList!handlePauseJob, JobList!Act, JobList!Offered,
           JobList!Allowed, JobList!Carried, JobList!rows, JobList!StoreEmpty,
           JobList!CanCall, JobList!Send
  <1>6. ASSUME NEW j, JobList!handleResumeJob(j)  PROVE Goal
    BY <1>6 DEF JobList!handleResumeJob, JobList!Act, JobList!Offered,
           JobList!Allowed, JobList!Carried, JobList!rows, JobList!StoreEmpty,
           JobList!CanCall, JobList!Send
  <1>7. ASSUME NEW j, JobList!JobUpdate(j)  PROVE Goal
    BY <1>7 DEF JobList!JobUpdate, JobList!updateJob
  <1>8. ASSUME NEW j, NEW status, JobList!Finish(j, status)  PROVE Goal
    BY <1>8 DEF JobList!Finish
  <1>9. ASSUME NEW r \in net, NEW out, JobList!FetchedJobs(r, out)  PROVE Goal
    BY <1>9 DEF JobList!FetchedJobs, JobList!Freed, JobList!Settle
  <1>10. ASSUME NEW r \in net, NEW out, JobList!Acted(r, out)  PROVE Goal
    <2>1. ASSUME out = "success"  PROVE Goal
      <3>1. /\ r.to \in DOMAIN ui.acting
            /\ net' = JobList!fetchJobs(net \ {r}, r.arg.offset)
            /\ ui' = [[ui EXCEPT !.acting[r.to] = 0] EXCEPT !.busy = JobList!Skeletons]
        BY <1>10, <2>1 DEF JobList!Acted
      <3>2. Answered(r, {"jobs"}, Flags, Single)
        BY <3>1 DEF Answered, JobList!fetchJobs, JobList!Skeletons,
               JobList!OfPage, JobList!total, JobList!rows, JobList!Newer,
               JobList!StoreEmpty
      <3>3. QED
        BY <3>2, AnsweredIsSteady
    <2>2. ASSUME out # "success"  PROVE Goal
      <3>1. /\ r.to \in DOMAIN ui.acting
            /\ net' = net \ {r}
            /\ ui' = [ui EXCEPT !.acting[r.to] = 0]
        BY <1>10, <2>2 DEF JobList!Acted
      <3>2. Answered(r, {}, Flags, Single)
        BY <3>1 DEF Answered, JobList!fetchJobs, JobList!Skeletons,
               JobList!OfPage, JobList!total, JobList!rows, JobList!Newer,
               JobList!StoreEmpty
      <3>3. QED
        BY <3>2, AnsweredIsSteady
    <2>3. QED
      BY <2>1, <2>2
  <1>11. QED
    BY <1>1, <1>2, <1>3, <1>4, <1>5, <1>6, <1>7, <1>8, <1>9, <1>10
       DEF JobListStep, JobList!Click, JobList!Answer

UploadFlags == {"upload", "stats"}
UploadSingle == {"upload"}

LEMMA UploadAsks == \A c, t, a : Adds(Upload!Ask(c, t, a), c, t)
PROOF
  <1>1. \A c, t, a : \E i : Upload!Ask(c, t, a) = c \cup {Request(i, t, a)}
    BY DEF Upload!Ask, Request
  <1>2. QED
    BY <1>1, OneMore

\* The bulk upload: one upload at a time.
LEMMA UploadSteady ==
  ASSUME UploadStep, Settled(UploadFlags, UploadSingle)
  PROVE  Steady(UploadFlags, UploadSingle)
PROOF
  <1> DEFINE Flags == UploadFlags
  <1> DEFINE Single == UploadSingle
  <1> DEFINE Goal == Steady(Flags, Single)
  <1> USE UploadAsks, Settling, Empty
      DEF Adds, Settled, Mounted, Left, SamePage, Spinning, Alone, Steady,
          UploadFlags, UploadSingle
  <1>1. CASE Upload!SelectFile
    BY <1>1 DEF Upload!SelectFile, Upload!handleDrop, Upload!ChooseFile,
           Upload!handleFileSelect, Upload!Ready
  <1>2. CASE Upload!ClearFile
    BY <1>2 DEF Upload!ClearFile
  <1>3. CASE Upload!handleUpload
    BY <1>3 DEF Upload!handleUpload, Upload!UploadButton, Upload!available,
           Upload!Mint, Upload!Submission, Upload!CanCall, Upload!Ready,
           Upload!Send
  <1>4. CASE Upload!StatsPushed
    BY <1>4 DEF Upload!StatsPushed, Upload!SetStats
  <1>5. ASSUME NEW r \in net, NEW out, Upload!Uploaded(r, out)  PROVE Goal
    <2>1. ASSUME out # "success" \/ (r.arg.made = "created" /\ r.arg.cost > r.arg.available)
          PROVE  Goal
      <3>1. /\ r.to = "upload"
            /\ net' = net \ {r}
            /\ ui' = Upload!Freed("upload")
        BY <1>5, <2>1 DEF Upload!Uploaded
      <3>2. Answered(r, {}, Flags, Single)
        BY <3>1 DEF Answered, Upload!Fetching, Upload!Loading, Upload!Charged,
               Upload!Minus, Upload!SetStats, Upload!Freed
      <3>3. QED
        BY <3>2, AnsweredIsSteady
    <2>2. ASSUME out = "success", ~(r.arg.made = "created" /\ r.arg.cost > r.arg.available),
                 r.arg.made = "duplicate"
          PROVE  Goal
      <3>1. /\ r.to = "upload"
            /\ net' = net \ {r}
            /\ ui' = [Upload!Freed("upload") EXCEPT !.stats = r.arg.key, !.key = 0, !.file = <<>>]
        BY <1>5, <2>2 DEF Upload!Uploaded
      <3>2. Answered(r, {}, Flags, Single)
        BY <3>1 DEF Answered, Upload!Fetching, Upload!Loading, Upload!Charged,
               Upload!Minus, Upload!SetStats, Upload!Freed
      <3>3. QED
        BY <3>2, AnsweredIsSteady
    <2>3. ASSUME out = "success", ~(r.arg.made = "created" /\ r.arg.cost > r.arg.available),
                 r.arg.made # "duplicate"
          PROVE  Goal
      <3>1. /\ r.to = "upload"
            /\ net' = Upload!Fetching(net \ {r}, ui.srv.credits)
            /\ ui' = Upload!Loading(
                       Upload!Charged([Upload!Freed("upload") EXCEPT !.stats = r.arg.key,
                                                                     !.key = 0, !.file = <<>>],
                                      r.arg))
        BY <1>5, <2>3 DEF Upload!Uploaded
      <3>2. Answered(r, {"stats"}, Flags, Single)
        BY <3>1 DEF Answered, Upload!Fetching, Upload!Loading, Upload!Charged,
               Upload!Minus, Upload!SetStats, Upload!Freed
      <3>3. QED
        BY <3>2, AnsweredIsSteady
    <2>4. QED
      BY <2>1, <2>2, <2>3
  <1>6. ASSUME NEW r \in net, NEW out, Upload!FetchedStats(r, out)  PROVE Goal
    BY <1>6 DEF Upload!FetchedStats, Upload!SetStats, Upload!Freed,
           Upload!Settle
  <1>7. QED
    BY <1>1, <1>2, <1>3, <1>4, <1>5, <1>6
       DEF UploadStep, Upload!Click, Upload!Answer

VerifyFlags == {"verify", "stats"}
VerifySingle == {"verify"}

LEMMA VerifyAsks == \A c, t, a : Adds(Verify!Ask(c, t, a), c, t)
PROOF
  <1>1. \A c, t, a : \E i : Verify!Ask(c, t, a) = c \cup {Request(i, t, a)}
    BY DEF Verify!Ask, Request
  <1>2. QED
    BY <1>1, OneMore

\* The single verification: one at a time.
LEMMA VerifySteady ==
  ASSUME VerifyStep, Settled(VerifyFlags, VerifySingle)
  PROVE  Steady(VerifyFlags, VerifySingle)
PROOF
  <1> DEFINE Flags == VerifyFlags
  <1> DEFINE Single == VerifySingle
  <1> DEFINE Goal == Steady(Flags, Single)
  <1> USE VerifyAsks, Settling, Empty
      DEF Adds, Settled, Mounted, Left, SamePage, Spinning, Alone, Steady,
          VerifyFlags, VerifySingle
  <1>1. ASSUME NEW e, Verify!TypeEmail(e)  PROVE Goal
    BY <1>1 DEF Verify!TypeEmail, Verify!Form, Verify!Ready
  <1>2. CASE Verify!handleVerify
    <2> DEFINE u == Verify!Debited(ui)
    <2>1. Verify!Ready("verify") /\ \E arg : net' = Verify!Ask(net, "verify", arg)
      BY <1>2 DEF Verify!handleVerify, Verify!Form, Verify!Send
    <2>2. {"page", "busy"} \subseteq DOMAIN u /\ u.page = ui.page /\ u.busy = ui.busy
      BY DEF Verify!Debited, Verify!SetStats
    <2>3. \E left : ui' = [u EXCEPT !.busy = u.busy \cup {"verify"}, !.failed = FALSE, !.srv = left]
      BY <1>2 DEF Verify!handleVerify
    <2>4. Mounted' /\ ui'.page = ui.page /\ ui'.busy = ui.busy \cup {"verify"}
      <3> HIDE DEF u
      <3>1. QED
        BY <2>2, <2>3
    <2>5. QED
      BY <2>1, <2>4 DEF Verify!Ready
  <1>3. CASE Verify!StatsUpdate
    BY <1>3 DEF Verify!StatsUpdate, Verify!SetStats
  <1>4. CASE Verify!CreditUpdate
    BY <1>4 DEF Verify!CreditUpdate
  <1>5. CASE Verify!UserUpdate
    <2> DEFINE u == [ui EXCEPT !.balance = ui.srv]
    <2>1. CASE ui.shown # <<>>
      <3>1. net' = net /\ ui' = Verify!SetStats(u, ui.srv)
        BY <1>5, <2>1 DEF Verify!UserUpdate
      <3>2. QED
        BY <3>1 DEF Verify!SetStats
    <2>2. CASE ui.shown = <<>>
      <3>1. net' = Verify!Fetching(net, ui.srv) /\ ui' = Verify!Loading(u)
        BY <1>5, <2>2 DEF Verify!UserUpdate
      <3>2. QED
        BY <3>1 DEF Verify!Fetching, Verify!Loading
    <2>3. QED
      BY <2>1, <2>2
  <1>6. ASSUME NEW c, Verify!Elsewhere(c)  PROVE Goal
    BY <1>6 DEF Verify!Elsewhere
  <1>7. ASSUME NEW r \in net, NEW out, Verify!Verified(r, out)  PROVE Goal
    <2>1. ASSUME out = "success"  PROVE Goal
      <3>1. /\ r.to = "verify"
            /\ net' = Verify!Fetching(net \ {r}, ui.srv)
            /\ ui' = Verify!Loading([Verify!Freed("verify") EXCEPT !.result = r.arg.email])
        BY <1>7, <2>1 DEF Verify!Verified
      <3>2. Answered(r, {"stats"}, Flags, Single)
        BY <3>1 DEF Answered, Verify!Fetching, Verify!Loading,
               Verify!RolledBack, Verify!SetStats, Verify!Freed
      <3>3. QED
        BY <3>2, AnsweredIsSteady
    <2>2. ASSUME out # "success"  PROVE Goal
      <3>1. /\ r.to = "verify"
            /\ net' = net \ {r}
            /\ ui' = Verify!RolledBack(Verify!Freed("verify"), r.arg)
        BY <1>7, <2>2 DEF Verify!Verified
      <3>2. Answered(r, {}, Flags, Single)
        BY <3>1 DEF Answered, Verify!Fetching, Verify!Loading,
               Verify!RolledBack, Verify!SetStats, Verify!Freed
      <3>3. QED
        BY <3>2, AnsweredIsSteady
    <2>3. QED
      BY <2>1, <2>2
  <1>8. ASSUME NEW r \in net, NEW out, Verify!FetchedStats(r, out)  PROVE Goal
    BY <1>8 DEF Verify!FetchedStats, Verify!SetStats, Verify!Freed,
           Verify!Settle
  <1>9. QED
    BY <1>1, <1>2, <1>3, <1>4, <1>5, <1>6, <1>7, <1>8
       DEF VerifyStep, Verify!Click, Verify!Answer

PaymentFlags == {"save", "test"}
PaymentSingle == {"test"}

LEMMA PaymentAsks == \A c, t, a : Adds(Payment!Ask(c, t, a), c, t)
PROOF
  <1>1. \A c, t, a : \E i : Payment!Ask(c, t, a) = c \cup {Request(i, t, a)}
    BY DEF Payment!Ask, Request
  <1>2. QED
    BY <1>1, OneMore

\* The payment settings: one test of a provider at a time.
LEMMA PaymentSteady ==
  ASSUME PaymentStep, Settled(PaymentFlags, PaymentSingle)
  PROVE  Steady(PaymentFlags, PaymentSingle)
PROOF
  <1> DEFINE Flags == PaymentFlags
  <1> DEFINE Single == PaymentSingle
  <1> DEFINE Goal == Steady(Flags, Single)
  <1> USE PaymentAsks, Settling, Empty
      DEF Adds, Settled, Mounted, Left, SamePage, Spinning, Alone, Steady,
          PaymentFlags, PaymentSingle
  <1>1. ASSUME NEW next, Payment!handleProviderSwitch(next)  PROVE Goal
    BY <1>1 DEF Payment!handleProviderSwitch, Payment!formFromGateway
  <1>2. ASSUME NEW enabled, NEW typed, Payment!EditForm(enabled, typed)  PROVE Goal
    BY <1>2 DEF Payment!EditForm
  <1>3. CASE Payment!onSubmit
    BY <1>3 DEF Payment!onSubmit, Payment!SaveButton,
           Payment!validateBeforeSubmit, Payment!CanCall, Payment!Ready,
           Payment!Send, Payment!Submit
  <1>4. CASE Payment!testGateway
    BY <1>4 DEF Payment!testGateway, Payment!TestButton, Payment!CanCall,
           Payment!Ready, Payment!Send, Payment!Submit
  <1>5. ASSUME NEW r \in net, NEW out, Payment!Saved(r, out)  PROVE Goal
    BY <1>5 DEF Payment!Saved, Payment!formFromGateway, Payment!Freed,
           Payment!Settle
  <1>6. ASSUME NEW r \in net, NEW out, Payment!Tested(r, out)  PROVE Goal
    BY <1>6 DEF Payment!Tested, Payment!Freed, Payment!Settle
  <1>7. QED
    BY <1>1, <1>2, <1>3, <1>4, <1>5, <1>6
       DEF PaymentStep, Payment!Click, Payment!Answer

CreditFlags == {"packages", "pay"}
CreditSingle == {"pay"}

LEMMA CreditAsks == \A c, t, a : Adds(Credit!Ask(c, t, a), c, t)
PROOF
  <1>1. \A c, t, a : \E i : Credit!Ask(c, t, a) = c \cup {Request(i, t, a)}
    BY DEF Credit!Ask, Request
  <1>2. QED
    BY <1>1, OneMore

\* The credits: one payment is started at a time.
LEMMA CreditSteady ==
  ASSUME CreditStep, Settled(CreditFlags, CreditSingle)
  PROVE  Steady(CreditFlags, CreditSingle)
PROOF
  <1> DEFINE Flags == CreditFlags
  <1> DEFINE Single == CreditSingle
  <1> DEFINE Goal == Steady(Flags, Single)
  <1> USE CreditAsks, Settling, Empty
      DEF Adds, Settled, Mounted, Left, SamePage, Spinning, Alone, Steady,
          CreditFlags, CreditSingle
  <1>1. CASE Credit!HandleReturn
    BY <1>1 DEF Credit!HandleReturn, Credit!CanCall, Credit!None, Credit!Send
  <1>2. CASE Credit!CloseCheckout
    BY <1>2 DEF Credit!CloseCheckout, Credit!None, Credit!Ready
  <1>3. ASSUME NEW p, Credit!SelectPackage(p)  PROVE Goal
    BY <1>3 DEF Credit!SelectPackage, Credit!None
  <1>4. CASE Credit!handleCryptoPurchase
    BY <1>4 DEF Credit!handleCryptoPurchase, Credit!Purchase, Credit!Checkout,
           Credit!CanCall, Credit!None, Credit!Ready, Credit!Send,
           Credit!Submit
  <1>5. CASE Credit!handleStripePurchase
    BY <1>5 DEF Credit!handleStripePurchase, Credit!Purchase, Credit!Checkout,
           Credit!CanCall, Credit!None, Credit!Ready, Credit!Send,
           Credit!Submit
  <1>6. CASE Credit!handlePaypalPurchase
    BY <1>6 DEF Credit!handlePaypalPurchase, Credit!Purchase, Credit!Checkout,
           Credit!CanCall, Credit!None, Credit!Ready, Credit!Send,
           Credit!Submit
  <1>7. ASSUME NEW r \in net, NEW out, Credit!Fetched(r, out)  PROVE Goal
    <2>1. Answered(r, {}, Flags, Single)
      BY <1>7 DEF Answered, Credit!Fetched, Credit!setPackages, Credit!Freed,
             Credit!Settle
    <2>2. QED
      BY <2>1, AnsweredIsSteady
  <1>8. ASSUME NEW r \in net, NEW out, Credit!ReturnHandled(r, out)  PROVE Goal
    BY <1>8 DEF Credit!ReturnHandled
  <1>9. ASSUME NEW r \in net, NEW out, Credit!CheckoutCreated(r, out)  PROVE Goal
    <2>1. CASE r.to = "pay" /\ net' = Credit!Ask(net \ {r}, "pay", [method |-> "leave"]) /\ ui' = ui
      <3>1. Sent(net') = Sent(net \ {r}) \cup {"pay"} /\ ("pay" \notin Sent(net \ {r}) => Lone(net', "pay"))
        BY <2>1, CreditAsks
      <3>2. Lone(net, "pay") /\ "pay" \in ui.busy
        BY <2>1 DEF Sent
      <3>3. "pay" \notin Sent(net \ {r})
        BY <2>1, <3>2
      <3>4. Sent(net') \subseteq Sent(net) /\ Sent(net) \subseteq Sent(net')
        BY <2>1, <3>1 DEF Sent
      <3>5. QED
        BY <2>1, <3>1, <3>2, <3>3, <3>4
    <2>2. CASE /\ r.to = "pay" /\ net' = net \ {r}
               /\ ui' = (IF out = "success"
                         THEN [Credit!Freed("pay") EXCEPT !.selected = Credit!None]
                         ELSE Credit!Freed("pay"))
      <3>1. Answered(r, {}, Flags, Single)
        BY <2>2 DEF Answered, Credit!Freed, Credit!None
      <3>2. QED
        BY <3>1, AnsweredIsSteady
    <2>3. QED
      BY <1>9, <2>1, <2>2 DEF Credit!CheckoutCreated, Credit!SettleAndAsk
  <1>10. ASSUME NEW r \in net, Credit!CheckoutOpened(r)  PROVE Goal
    BY <1>10 DEF Credit!CheckoutOpened, Credit!Leave
  <1>11. QED
    BY <1>1, <1>2, <1>3, <1>4, <1>5, <1>6, <1>7, <1>8, <1>9, <1>10
       DEF CreditStep, Credit!Click, Credit!Answer

HistoryFlags == {}

LEMMA HistoryAsks == \A c, t, a : Adds(History!Ask(c, t, a), c, t)
PROOF
  <1>1. \A c, t, a : \E i : History!Ask(c, t, a) = c \cup {Request(i, t, a)}
    BY DEF History!Ask, Request
  <1>2. QED
    BY <1>1, OneMore

\* The history of the credits, which has no spinner.
LEMMA HistorySteady ==
  ASSUME HistoryStep, Settled(HistoryFlags, {})
  PROVE  Steady(HistoryFlags, {})
PROOF
  <1> DEFINE Flags == HistoryFlags
  <1> DEFINE Single == {}
  <1> DEFINE Goal == Steady(Flags, Single)
  <1> USE HistoryAsks, Settling, Empty
      DEF Adds, Settled, Mounted, Left, SamePage, Spinning, Alone, Steady,
          HistoryFlags
  <1>1. CASE History!OnFocus
    BY <1>1 DEF History!OnFocus, History!fetchData, History!CanCall,
           History!Send
  <1>2. CASE History!Recorded
    BY <1>2 DEF History!Recorded
  <1>3. ASSUME NEW offset, History!TurnPage(offset)  PROVE Goal
    BY <1>3 DEF History!TurnPage, History!fetchData, History!CanCall,
           History!Send
  <1>4. ASSUME NEW r \in net, NEW out, History!StatsFetched(r, out)  PROVE Goal
    <2>1. ASSUME out = "thrown"  PROVE Answered(r, {}, Flags, Single)
      BY <1>4, <2>1 DEF Answered, History!StatsFetched, History!Settle,
             History!SettleAndAsk
    <2>2. ASSUME out # "thrown"  PROVE Answered(r, {"history"}, Flags, Single)
      BY <1>4, <2>2 DEF Answered, History!StatsFetched, History!Settle,
             History!SettleAndAsk
    <2>3. QED
      BY <2>1, <2>2, AnsweredIsSteady
  <1>5. ASSUME NEW r \in net, NEW out, History!TransactionsFetched(r, out)  PROVE Goal
    BY <1>5 DEF History!TransactionsFetched, History!Settle
  <1>6. QED
    BY <1>1, <1>2, <1>3, <1>4, <1>5
       DEF HistoryStep, History!Click, History!Answer

TransferFlags == {"transfer", "stats"}
TransferSingle == {"transfer"}

LEMMA TransferAsks == \A c, t, a : Adds(Transfer!Ask(c, t, a), c, t)
PROOF
  <1>1. \A c, t, a : \E i : Transfer!Ask(c, t, a) = c \cup {Request(i, t, a)}
    BY DEF Transfer!Ask, Request
  <1>2. QED
    BY <1>1, OneMore

\* The transfer of credits: one at a time.
LEMMA TransferSteady ==
  ASSUME TransferStep, Settled(TransferFlags, TransferSingle)
  PROVE  Steady(TransferFlags, TransferSingle)
PROOF
  <1> DEFINE Flags == TransferFlags
  <1> DEFINE Single == TransferSingle
  <1> DEFINE Goal == Steady(Flags, Single)
  <1> USE TransferAsks, Settling, Empty
      DEF Adds, Settled, Mounted, Left, SamePage, Spinning, Alone, Steady,
          TransferFlags, TransferSingle
  <1>1. ASSUME NEW n, Transfer!Enter(n)  PROVE Goal
    BY <1>1 DEF Transfer!Enter, Transfer!Form, Transfer!Ready
  <1>2. CASE Transfer!onTransfer
    BY <1>2 DEF Transfer!onTransfer, Transfer!Form, Transfer!CanCall,
           Transfer!Ready, Transfer!Send
  <1>3. CASE Transfer!StatsUpdate
    BY <1>3 DEF Transfer!StatsUpdate, Transfer!SetStats
  <1>4. CASE Transfer!CreditUpdate
    BY <1>4 DEF Transfer!CreditUpdate
  <1>5. CASE Transfer!UserUpdate
    <2> DEFINE u == [ui EXCEPT !.balance = ui.srv]
    <2>1. CASE ui.shown # <<>>
      <3>1. net' = net /\ ui' = Transfer!SetStats(u, ui.srv)
        BY <1>5, <2>1 DEF Transfer!UserUpdate
      <3>2. QED
        BY <3>1 DEF Transfer!SetStats
    <2>2. CASE ui.shown = <<>>
      <3>1. net' = Transfer!Fetching(net, ui.srv) /\ ui' = Transfer!Loading(u)
        BY <1>5, <2>2 DEF Transfer!UserUpdate
      <3>2. QED
        BY <3>1 DEF Transfer!Fetching, Transfer!Loading
    <2>3. QED
      BY <2>1, <2>2
  <1>6. ASSUME NEW r \in net, NEW out, Transfer!Transferred(r, out)  PROVE Goal
    <2>1. ASSUME out = "success"  PROVE Goal
      <3>1. /\ r.to = "transfer"
            /\ net' = Transfer!Fetching(net \ {r}, ui.srv)
            /\ LET paid == [Transfer!Freed("transfer") EXCEPT !.amount = 0,
                                                              !.balance = r.arg.left]
               IN ui' = Transfer!Loading(IF ui.shown = <<>> THEN paid
                                         ELSE Transfer!SetStats(paid, r.arg.left))
        BY <1>6, <2>1 DEF Transfer!Transferred
      <3>2. Answered(r, {"stats"}, Flags, Single)
        BY <3>1 DEF Answered, Transfer!Fetching, Transfer!Loading,
               Transfer!SetStats, Transfer!Freed
      <3>3. QED
        BY <3>2, AnsweredIsSteady
    <2>2. ASSUME out # "success"  PROVE Goal
      <3>1. /\ r.to = "transfer"
            /\ net' = net \ {r}
            /\ ui' = Transfer!Freed("transfer")
        BY <1>6, <2>2 DEF Transfer!Transferred
      <3>2. Answered(r, {}, Flags, Single)
        BY <3>1 DEF Answered, Transfer!Fetching, Transfer!Loading,
               Transfer!SetStats, Transfer!Freed
      <3>3. QED
        BY <3>2, AnsweredIsSteady
    <2>3. QED
      BY <2>1, <2>2
  <1>7. ASSUME NEW r \in net, NEW out, Transfer!FetchedStats(r, out)  PROVE Goal
    BY <1>7 DEF Transfer!FetchedStats, Transfer!SetStats, Transfer!Freed,
           Transfer!Settle
  <1>8. QED
    BY <1>1, <1>2, <1>3, <1>4, <1>5, <1>6, <1>7
       DEF TransferStep, Transfer!Click, Transfer!Answer

SecurityFlags == {}

LEMMA SecurityAsks == \A c, t, a : Adds(Security!Ask(c, t, a), c, t)
PROOF
  <1>1. \A c, t, a : \E i : Security!Ask(c, t, a) = c \cup {Request(i, t, a)}
    BY DEF Security!Ask, Request
  <1>2. QED
    BY <1>1, OneMore

\* The public verifier, which has no spinner.
LEMMA SecuritySteady ==
  ASSUME SecurityStep, Settled(SecurityFlags, {})
  PROVE  Steady(SecurityFlags, {})
PROOF
  <1> DEFINE Flags == SecurityFlags
  <1> DEFINE Single == {}
  <1> DEFINE Goal == Steady(Flags, Single)
  <1> USE SecurityAsks, Settling, Empty
      DEF Adds, Settled, Mounted, Left, SamePage, Spinning, Alone, Steady,
          SecurityFlags
  <1>1. CASE Security!ForceSync
    BY <1>1 DEF Security!ForceSync, Security!initialize, Security!Read,
           Security!Newest, Security!First, Security!CanCall
  <1>2. CASE Security!Visit
    BY <1>2 DEF Security!Visit
  <1>3. CASE Security!Block
    BY <1>3 DEF Security!Block
  <1>4. ASSUME NEW l, Security!addLog(l)  PROVE Goal
    BY <1>4 DEF Security!addLog, Security!Shown, Security!First
  <1>5. ASSUME NEW b, Security!addBlocked(b)  PROVE Goal
    BY <1>5 DEF Security!addBlocked
  <1>6. ASSUME NEW b, Security!unblockClient(b)  PROVE Goal
    BY <1>6 DEF Security!unblockClient, Security!CanCall
  <1>7. ASSUME NEW c, Security!handleSettingsUpdate(c)  PROVE Goal
    BY <1>7 DEF Security!handleSettingsUpdate, Security!CanCall
  <1>8. ASSUME NEW r \in net, NEW out, Security!LoadedDashboard(r, out)  PROVE Goal
    <2>1. ASSUME out = "thrown"  PROVE Answered(r, {}, Flags, Single)
      BY <1>8, <2>1 DEF Answered, Security!LoadedDashboard, Security!Read,
             Security!Newest, Security!First
    <2>2. ASSUME out # "thrown"  PROVE Answered(r, {"verify-logs"}, Flags, Single)
      BY <1>8, <2>2 DEF Answered, Security!LoadedDashboard, Security!Read,
             Security!Newest, Security!First
    <2>3. QED
      BY <2>1, <2>2, AnsweredIsSteady
  <1>9. ASSUME NEW r \in net, NEW out, Security!LoadedLogs(r, out)  PROVE Goal
    <2>1. ASSUME out = "thrown"  PROVE Answered(r, {}, Flags, Single)
      BY <1>9, <2>1 DEF Answered, Security!LoadedLogs, Security!Read,
             Security!Newest, Security!First
    <2>2. ASSUME out # "thrown"  PROVE Answered(r, {"blocklist"}, Flags, Single)
      BY <1>9, <2>2 DEF Answered, Security!LoadedLogs, Security!Read,
             Security!Newest, Security!First
    <2>3. QED
      BY <2>1, <2>2, AnsweredIsSteady
  <1>10. ASSUME NEW r \in net, NEW out, Security!LoadedBlocklist(r, out)  PROVE Goal
    BY <1>10 DEF Security!LoadedBlocklist, Security!Settle
  <1>11. ASSUME NEW r \in net, NEW out, Security!SettingsUpdated(r, out)  PROVE Goal
    BY <1>11 DEF Security!SettingsUpdated, Security!Settle
  <1>12. ASSUME NEW r \in net, NEW out, Security!Unblocked(r, out)  PROVE Goal
    BY <1>12 DEF Security!Unblocked, Security!Settle
  <1>13. QED
    BY <1>1, <1>2, <1>3, <1>4, <1>5, <1>6, <1>7, <1>8, <1>9, <1>10, <1>11,
       <1>12
       DEF SecurityStep, Security!Click, Security!Answer

JobDetailsFlags == {"retry", "pause", "resume", "delete"}
JobDetailsSingle == {"pause", "resume", "retry", "delete"}

LEMMA JobDetailsAsks == \A c, t, a : Adds(JobDetails!Ask(c, t, a), c, t)
PROOF
  <1>1. \A c, t, a : \E i : JobDetails!Ask(c, t, a) = c \cup {Request(i, t, a)}
    BY DEF JobDetails!Ask, Request
  <1>2. QED
    BY <1>1, OneMore

\* The page of a job: each of its four actions one at a time.
LEMMA JobDetailsSteady ==
  ASSUME JobDetailsStep, Settled(JobDetailsFlags, JobDetailsSingle)
  PROVE  Steady(JobDetailsFlags, JobDetailsSingle)
PROOF
  <1> DEFINE Flags == JobDetailsFlags
  <1> DEFINE Single == JobDetailsSingle
  <1> DEFINE Goal == Steady(Flags, Single)
  <1> USE JobDetailsAsks, Settling, Empty
      DEF Adds, Settled, Mounted, Left, SamePage, Spinning, Alone, Steady,
          JobDetailsFlags, JobDetailsSingle
  <1>1. CASE JobDetails!JobUpdate
    BY <1>1 DEF JobDetails!JobUpdate, JobDetails!JobStatus
  <1>2. CASE JobDetails!handleRetryJob
    BY <1>2 DEF JobDetails!handleRetryJob, JobDetails!Act, JobDetails!Button,
           JobDetails!Allowed, JobDetails!job, JobDetails!CanCall,
           JobDetails!Ready, JobDetails!Send
  <1>3. CASE JobDetails!handlePauseJob
    BY <1>3 DEF JobDetails!handlePauseJob, JobDetails!Act, JobDetails!Button,
           JobDetails!Allowed, JobDetails!job, JobDetails!CanCall,
           JobDetails!Ready, JobDetails!Send
  <1>4. CASE JobDetails!handleResumeJob
    BY <1>4 DEF JobDetails!handleResumeJob, JobDetails!Act, JobDetails!Button,
           JobDetails!Allowed, JobDetails!job, JobDetails!CanCall,
           JobDetails!Ready, JobDetails!Send
  <1>5. CASE JobDetails!handleDeleteJob
    BY <1>5 DEF JobDetails!handleDeleteJob, JobDetails!Act, JobDetails!Button,
           JobDetails!Allowed, JobDetails!job, JobDetails!CanCall,
           JobDetails!Ready, JobDetails!Send
  <1>6. ASSUME NEW status, JobDetails!Finish(status)  PROVE Goal
    BY <1>6 DEF JobDetails!Finish
  <1>7. ASSUME NEW r \in net, NEW out, JobDetails!FetchedDetails(r, out)  PROVE Goal
    BY <1>7 DEF JobDetails!FetchedDetails, JobDetails!Mine, JobDetails!Settle
  <1>8. ASSUME NEW r \in net, NEW out, JobDetails!Acted(r, out)  PROVE Goal
    <2>1. ASSUME out = "success"  PROVE Goal
      <3>1. /\ r.to \in {"retry", "pause", "resume"}
            /\ net' = JobDetails!fetchJobDetails(net \ {r})
            /\ ui' = JobDetails!Freed(r.to)
        BY <1>8, <2>1 DEF JobDetails!Acted
      <3>2. Answered(r, {"status"}, Flags, Single)
        BY <3>1 DEF Answered, JobDetails!fetchJobDetails, JobDetails!Freed
      <3>3. QED
        BY <3>2, AnsweredIsSteady
    <2>2. ASSUME out # "success"  PROVE Goal
      <3>1. /\ r.to \in {"retry", "pause", "resume"}
            /\ net' = net \ {r}
            /\ ui' = JobDetails!Freed(r.to)
        BY <1>8, <2>2 DEF JobDetails!Acted
      <3>2. Answered(r, {}, Flags, Single)
        BY <3>1 DEF Answered, JobDetails!fetchJobDetails, JobDetails!Freed
      <3>3. QED
        BY <3>2, AnsweredIsSteady
    <2>3. QED
      BY <2>1, <2>2
  <1>9. ASSUME NEW r \in net, NEW out, JobDetails!Deleted(r, out)  PROVE Goal
    <2>1. ASSUME out = "success"  PROVE Goal
      <3>1. /\ r.to = "delete"
            /\ net' = JobDetails!Ask(net \ {r}, "delete", JobDetails!Leaving)
            /\ ui' = ui
        BY <1>9, <2>1 DEF JobDetails!Deleted, JobDetails!SettleAndAsk
      <3>2. Adds(net', net \ {r}, "delete")
        BY <3>1, JobDetailsAsks
      <3>3. "delete" \notin Sent(net \ {r})
        BY <3>1
      <3>4. Sent(net') \subseteq Sent(net) /\ Sent(net) \subseteq Sent(net')
        BY <3>1, <3>2 DEF Sent
      <3>5. Lone(net', "delete") /\ \A t : Lone(net, t) => Lone(net', t)
        BY <3>1, <3>2, <3>3
      <3>6. QED
        BY <3>1, <3>4, <3>5
    <2>2. ASSUME out # "success"  PROVE Goal
      <3>1. /\ r.to = "delete"
            /\ net' = net \ {r}
            /\ ui' = JobDetails!Freed("delete")
        BY <1>9, <2>2 DEF JobDetails!Deleted, JobDetails!Settle
      <3>2. Answered(r, {}, Flags, Single)
        BY <3>1 DEF Answered, JobDetails!Freed
      <3>3. QED
        BY <3>2, AnsweredIsSteady
    <2>3. QED
      BY <2>1, <2>2
  <1>10. ASSUME NEW r \in net, JobDetails!ListShown(r)  PROVE Goal
    BY <1>10 DEF JobDetails!ListShown, JobDetails!Leave
  <1>11. QED
    BY <1>1, <1>2, <1>3, <1>4, <1>5, <1>6, <1>7, <1>8, <1>9, <1>10
       DEF JobDetailsStep, JobDetails!Click, JobDetails!Answer

-----------------------------------------------------------------------------

LEMMA JobListActs == ASSUME JobListStep, ActingJobs  PROVE ActingJobs'
PROOF
  <1> DEFINE Goal == ActingJobs'
  <1> USE DEF ActingJobs
  <1>1. CASE JobList!Refresh
    BY <1>1 DEF JobList!Refresh
  <1>2. ASSUME NEW offset, JobList!TurnPage(offset)  PROVE Goal
    BY <1>2 DEF JobList!TurnPage
  <1>3. ASSUME NEW a \in {"delete", "retry", "pause", "resume"}, NEW j, JobList!Act(a, j)
        PROVE  Goal
    BY <1>3 DEF JobList!Act
  <1>4. ASSUME NEW j, JobList!JobUpdate(j)  PROVE Goal
    <2>1. CASE j \in DOMAIN ui.rows
      BY <1>4, <2>1 DEF JobList!JobUpdate, JobList!updateJob
    <2>2. CASE j \notin DOMAIN ui.rows
      <3>1. PICK rows, more : ui' = [ui EXCEPT !.rows = rows, !.total = more]
        BY <1>4, <2>2 DEF JobList!JobUpdate, JobList!updateJob
      <3>2. QED
        BY <3>1
    <2>3. QED
      BY <2>1, <2>2
  <1>5. ASSUME NEW j, NEW status, JobList!Finish(j, status)  PROVE Goal
    BY <1>5 DEF JobList!Finish
  <1>6. ASSUME NEW r \in net, NEW out, JobList!FetchedJobs(r, out)  PROVE Goal
    BY <1>6 DEF JobList!FetchedJobs, JobList!Freed
  <1>7. ASSUME NEW r \in net, NEW out, JobList!Acted(r, out)  PROVE Goal
    <2> DEFINE u == [ui EXCEPT !.acting[r.to] = 0]
    <2>1. ui' = [u EXCEPT !.busy = JobList!Skeletons] \/ ui' = u
      BY <1>7 DEF JobList!Acted
    <2>2. DOMAIN u = DOMAIN ui /\ DOMAIN u.acting = DOMAIN ui.acting
      OBVIOUS
    <2> HIDE DEF u
    <2>3. QED
      BY <2>1, <2>2
  <1>8. QED
    BY <1>1, <1>2, <1>3, <1>4, <1>5, <1>6, <1>7
       DEF JobListStep, JobList!Click, JobList!Answer, JobList!handleDeleteJob,
           JobList!handleRetryJob, JobList!handlePauseJob, JobList!handleResumeJob

\* A job's page does not pause and resume it at once.
OneControl == "busy" \in DOMAIN ui /\ ~({"pause", "resume"} \subseteq ui.busy)

LEMMA JobDetailsControls == ASSUME JobDetailsStep, OneControl  PROVE OneControl'
PROOF
  <1> DEFINE Goal == OneControl'
  <1> USE DEF OneControl
  <1>1. CASE JobDetails!JobUpdate
    BY <1>1 DEF JobDetails!JobUpdate
  <1>2. ASSUME NEW a, JobDetails!Act(a)  PROVE Goal
    BY <1>2 DEF JobDetails!Act, JobDetails!Button, JobDetails!Ready
  <1>3. ASSUME NEW status, JobDetails!Finish(status)  PROVE Goal
    BY <1>3 DEF JobDetails!Finish
  <1>4. ASSUME NEW r \in net, NEW out, JobDetails!FetchedDetails(r, out)  PROVE Goal
    BY <1>4 DEF JobDetails!FetchedDetails
  <1>5. ASSUME NEW r \in net, NEW out, JobDetails!Acted(r, out)  PROVE Goal
    BY <1>5 DEF JobDetails!Acted, JobDetails!Freed
  <1>6. ASSUME NEW r \in net, NEW out, JobDetails!Deleted(r, out)  PROVE Goal
    BY <1>6 DEF JobDetails!Deleted, JobDetails!Freed
  <1>7. ASSUME NEW r \in net, JobDetails!ListShown(r)  PROVE Goal
    BY <1>7 DEF JobDetails!ListShown, JobDetails!Leave
  <1>8. QED
    BY <1>1, <1>2, <1>3, <1>4, <1>5, <1>6, <1>7
       DEF JobDetailsStep, JobDetails!Click, JobDetails!Answer, JobDetails!handleRetryJob,
           JobDetails!handlePauseJob, JobDetails!handleResumeJob, JobDetails!handleDeleteJob

\* A confirmation that waits is open, and the other one is not.
OneKeyDialog ==
  /\ {"busy", "rotate", "revoke"} \subseteq DOMAIN ui
  /\ ui.rotate = 0 \/ ui.revoke = 0
  /\ "rotate" \in ui.busy => ui.rotate # 0
  /\ "revoke" \in ui.busy => ui.revoke # 0

LEMMA ApiKeysDialogs == ASSUME ApiKeysStep, OneKeyDialog  PROVE OneKeyDialog'
PROOF
  <1> DEFINE Goal == OneKeyDialog'
  <1> USE DEF OneKeyDialog
  <1>1. CASE ApiKeys!onCreateKey
    BY <1>1 DEF ApiKeys!onCreateKey
  <1>2. CASE ApiKeys!DismissLatest
    BY <1>2 DEF ApiKeys!DismissLatest
  <1>3. ASSUME NEW d \in {"detail", "rotate", "revoke"}, NEW k \in ApiKeys!KeyIds,
               ApiKeys!OpenKeyDialog(d, k)
        PROVE  Goal
    <2>1. ui.rotate = 0 /\ ui.revoke = 0 /\ ui' = [ui EXCEPT ![d] = k]
      BY <1>3 DEF ApiKeys!OpenKeyDialog, ApiKeys!Uncovered
    <2>2. ui'.busy = ui.busy /\ DOMAIN ui' = DOMAIN ui
      BY <2>1
    <2>3. ui'.rotate = 0 \/ ui'.revoke = 0
      BY <2>1
    <2>4. "rotate" \notin ui.busy /\ "revoke" \notin ui.busy
      BY <2>1
    <2>5. QED
      BY <2>2, <2>3, <2>4
  <1>4. CASE ApiKeys!CloseDetail
    BY <1>4 DEF ApiKeys!CloseDetail
  <1>5. CASE ApiKeys!CancelRotate
    BY <1>5 DEF ApiKeys!CancelRotate, ApiKeys!RotateDialog, ApiKeys!Ready
  <1>6. CASE ApiKeys!CancelRevoke
    BY <1>6 DEF ApiKeys!CancelRevoke, ApiKeys!RevokeDialog, ApiKeys!Ready
  <1>7. CASE ApiKeys!handleRotateKey
    BY <1>7 DEF ApiKeys!handleRotateKey, ApiKeys!RotateDialog
  <1>8. CASE ApiKeys!handleRevokeKey
    BY <1>8 DEF ApiKeys!handleRevokeKey, ApiKeys!RevokeDialog
  <1>9. ASSUME NEW r \in net, NEW out, ApiKeys!FetchedKeys(r, out)  PROVE Goal
    BY <1>9 DEF ApiKeys!FetchedKeys
  <1>10. ASSUME NEW r \in net, NEW out, ApiKeys!KeyCreated(r, out)  PROVE Goal
    <2>1. CASE out = "success"
      <3>1. PICK latest : ui' = ApiKeys!Loading([ApiKeys!Freed("create") EXCEPT !.latest = latest])
        BY <1>10, <2>1 DEF ApiKeys!KeyCreated
      <3>2. QED
        BY <3>1 DEF ApiKeys!Freed, ApiKeys!Loading
    <2>2. CASE out # "success"
      BY <1>10, <2>2 DEF ApiKeys!KeyCreated, ApiKeys!Freed
    <2>3. QED
      BY <2>1, <2>2
  <1>11. ASSUME NEW r \in net, NEW out, ApiKeys!KeyRotated(r, out)  PROVE Goal
    BY <1>11 DEF ApiKeys!KeyRotated, ApiKeys!Freed
  <1>12. ASSUME NEW r \in net, NEW out, ApiKeys!KeyRevoked(r, out)  PROVE Goal
    <2>1. CASE out = "success"
      <3>1. ui' = ApiKeys!Loading([ApiKeys!Freed("revoke") EXCEPT !.revoke = 0])
        BY <1>12, <2>1 DEF ApiKeys!KeyRevoked
      <3>2. QED
        BY <3>1 DEF ApiKeys!Freed, ApiKeys!Loading
    <2>2. CASE out # "success"
      BY <1>12, <2>2 DEF ApiKeys!KeyRevoked, ApiKeys!Freed
    <2>3. QED
      BY <2>1, <2>2
  <1>13. ASSUME NEW r \in net, NEW out, ApiKeys!FetchedStats(r, out)  PROVE Goal
    BY <1>13 DEF ApiKeys!FetchedStats, ApiKeys!SetStats, ApiKeys!Freed
  <1>14. QED
    BY <1>1, <1>2, <1>3, <1>4, <1>5, <1>6, <1>7, <1>8, <1>9, <1>10, <1>11, <1>12, <1>13
       DEF ApiKeysStep, ApiKeys!Click, ApiKeys!Answer

\* Neither purge is asked for while the other runs.
OnePurge ==
  /\ {"busy", "modal"} \subseteq DOMAIN ui
  /\ ~({"purge", "purge-older"} \subseteq ui.busy)
  /\ ui.modal = "purge" => "purge-older" \notin ui.busy
  /\ ui.modal = "purge-older" => "purge" \notin ui.busy

LEMMA CachePurges == ASSUME CacheStep, OnePurge  PROVE OnePurge'
PROOF
  <1> DEFINE Goal == OnePurge'
  <1> USE DEF OnePurge
  <1>0. ASSUME NEW r, NEW u, Cache!Mutated(r, u), DOMAIN u = DOMAIN ui, u.busy \subseteq ui.busy,
               u.modal \in {ui.modal, Cache!None}
        PROVE  Goal
    <2>1. ui' = [u EXCEPT !.busy = (@ \ {r.to}) \cup {"cache/stats"}]
      BY <1>0 DEF Cache!Mutated
    <2>2. /\ DOMAIN ui' = DOMAIN ui /\ ui'.modal \in {ui.modal, "none"}
          /\ ui'.busy \subseteq ui.busy \cup {"cache/stats"}
      BY <1>0, <2>1 DEF Cache!None
    <2>3. QED
      BY <2>2
  <1>1. CASE Cache!RefreshButton
    BY <1>1 DEF Cache!RefreshButton
  <1>2. ASSUME NEW p, Cache!EditPolicies(p)  PROVE Goal
    BY <1>2 DEF Cache!EditPolicies
  <1>3. CASE Cache!onSavePolicies
    BY <1>3 DEF Cache!onSavePolicies
  <1>4. CASE Cache!SavedExpires
    BY <1>4 DEF Cache!SavedExpires
  <1>5. ASSUME NEW e, Cache!onLookup(e)  PROVE Goal
    BY <1>5 DEF Cache!onLookup
  <1>6. CASE Cache!OpenInvalidate
    BY <1>6 DEF Cache!OpenInvalidate
  <1>7. ASSUME NEW p, Cache!OpenPurge(p)  PROVE Goal
    BY <1>7 DEF Cache!OpenPurge, Cache!Ready
  <1>8. ASSUME NEW m, Cache!ConfirmPhrase(m)  PROVE Goal
    BY <1>8 DEF Cache!ConfirmPhrase
  <1>9. CASE Cache!CancelModal
    BY <1>9 DEF Cache!CancelModal, Cache!None
  <1>10. CASE Cache!doDeleteCache
    BY <1>10 DEF Cache!doDeleteCache
  <1>11. CASE Cache!handlePurge
    BY <1>11 DEF Cache!handlePurge, Cache!SubmitPurge, Cache!PurgeModal, Cache!Rendered,
             Cache!Submit
  <1>12. CASE Cache!handlePurgeOlder
    BY <1>12 DEF Cache!handlePurgeOlder, Cache!SubmitPurge, Cache!PurgeModal,
             Cache!Rendered, Cache!Submit
  <1>13. CASE Cache!uploadFile
    BY <1>13 DEF Cache!uploadFile, Cache!Submit
  <1>14. ASSUME NEW r \in net, NEW out, Cache!FetchedStats(r, out)  PROVE Goal
    BY <1>14 DEF Cache!FetchedStats, Cache!Freed
  <1>15. ASSUME NEW r \in net, NEW out, Cache!PoliciesSaved(r, out)  PROVE Goal
    BY <1>15 DEF Cache!PoliciesSaved, Cache!Freed
  <1>16. ASSUME NEW r \in net, NEW out, Cache!LookedUp(r, out)  PROVE Goal
    BY <1>16 DEF Cache!LookedUp, Cache!Freed
  <1>17. ASSUME NEW r \in net, NEW out, Cache!CacheDeleted(r, out)  PROVE Goal
    <2> DEFINE u == [Cache!Freed("lookup") EXCEPT !.found = Cache!None, !.typed = @ \ {"invalidate"},
                       !.modal = IF @ = "invalidate" THEN Cache!None ELSE @]
    <2>1. CASE out = "success"
      <3>1. Cache!Mutated(r, u)
        BY <1>17, <2>1 DEF Cache!CacheDeleted
      <3>2. /\ DOMAIN u = DOMAIN ui
            /\ u.busy \subseteq ui.busy
            /\ u.modal \in {ui.modal, Cache!None}
        BY DEF Cache!Freed
      <3> HIDE DEF u
      <3>3. QED
        BY <1>0, <3>1, <3>2
    <2>2. CASE out # "success"
      BY <1>17, <2>2 DEF Cache!CacheDeleted
    <2>3. QED
      BY <2>1, <2>2
  <1>18. ASSUME NEW r \in net, NEW out, Cache!Purged(r, out)  PROVE Goal
    <2> DEFINE u == [ui EXCEPT !.typed = @ \ {r.to}, !.modal = IF @ = r.to THEN Cache!None ELSE @]
    <2>1. CASE out = "success"
      <3>1. Cache!Mutated(r, u)
        BY <1>18, <2>1 DEF Cache!Purged
      <3>2. /\ DOMAIN u = DOMAIN ui
            /\ u.busy \subseteq ui.busy
            /\ u.modal \in {ui.modal, Cache!None}
        OBVIOUS
      <3> HIDE DEF u
      <3>3. QED
        BY <1>0, <3>1, <3>2
    <2>2. CASE out # "success"
      BY <1>18, <2>2 DEF Cache!Purged, Cache!Freed
    <2>3. QED
      BY <2>1, <2>2
  <1>19. ASSUME NEW r \in net, NEW out, Cache!Uploaded(r, out)  PROVE Goal
    BY <1>19 DEF Cache!Uploaded, Cache!Mutated, Cache!Freed
  <1>20. QED
    BY <1>1, <1>2, <1>3, <1>4, <1>5, <1>6, <1>7, <1>8, <1>9, <1>10, <1>11, <1>12, <1>13,
       <1>14, <1>15, <1>16, <1>17, <1>18, <1>19
       DEF CacheStep, Cache!Click, Cache!Answer

\* The keys the server gave out are never older than the last rotation that
\* was answered.
KeyOrder ==
  /\ {"key", "acked", "srvKey"} \subseteq DOMAIN ui
  /\ ui.key \in Nat /\ ui.acked \in Nat /\ ui.srvKey \in Nat
  /\ ui.key = 0 \/ ui.key >= ui.acked
  /\ ui.srvKey >= ui.acked
  /\ \A r \in net : r.to = "key" =>
       r.arg.key \in Nat /\ r.arg.key >= ui.acked /\ r.arg.key <= ui.srvKey

LEMMA ServerKeys == ASSUME ServerStep, KeyOrder, Lone(net, "key")  PROVE KeyOrder'
PROOF
  <1> DEFINE Goal == KeyOrder'
  <1> DEFINE Keys(calls) == {r \in calls : r.to = "key"}
  <1>1. \A c, t, a : t # "key" => Keys(Server!Ask(c, t, a)) = Keys(c)
    <2>1. \A i, t, a : Request(i, t, a).to = t
      BY DEF Request
    <2>2. \A c, t, a : \E i : Server!Ask(c, t, a) = c \cup {Request(i, t, a)}
      BY DEF Server!Ask, Request
    <2>3. QED
      BY <2>1, <2>2
  <1>2. ASSUME Keys(net') \subseteq Keys(net), DOMAIN ui' = DOMAIN ui, ui'.key = ui.key,
               ui'.acked = ui.acked, ui'.srvKey = ui.srvKey
        PROVE  Goal
    BY <1>2 DEF KeyOrder
  <1> DEFINE Quiet == /\ Keys(net') \subseteq Keys(net) /\ DOMAIN ui' = DOMAIN ui
                      /\ ui'.key = ui.key /\ ui'.acked = ui.acked /\ ui'.srvKey = ui.srvKey
  <1> USE <1>1 DEF KeyOrder
  <1>3. ASSUME NEW silent, Server!fetchServers(silent)  PROVE Quiet
    <2>1. PICK list : net' = Server!Ask(net, "server/list", [list |-> list])
      BY <1>3 DEF Server!fetchServers, Server!Send
    <2>2. ui' = [ui EXCEPT !.busy = @ \cup {"server/list"}] \/ ui' = ui
      BY <1>3 DEF Server!fetchServers
    <2>3. QED
      BY <2>1, <2>2
  <1>4. ASSUME NEW r \in net, NEW u, Server!RefetchAfter(r, u), DOMAIN u = DOMAIN ui,
               u.key = ui.key, u.acked = ui.acked, u.srvKey = ui.srvKey
        PROVE  Quiet
    <2>1. PICK list : net' = Server!Ask(net \ {r}, "server/list", [list |-> list])
      BY <1>4 DEF Server!RefetchAfter
    <2>2. ui' = [u EXCEPT !.busy = @ \cup {"server/list"}] \/ ui' = u
      BY <1>4 DEF Server!RefetchAfter
    <2>3. Keys(net') = Keys(net \ {r})
      BY <2>1
    <2>4. QED
      BY <2>2, <2>3, <1>4
  <1>5. CASE Server!RefreshButton \/ Server!OnFocus
    BY <1>2, <1>3, <1>5 DEF Server!RefreshButton, Server!OnFocus
  <1>6. CASE Server!OpenAddDialog
    BY <1>6 DEF Server!OpenAddDialog
  <1>7. CASE Server!CloseAddDialog
    BY <1>7 DEF Server!CloseAddDialog
  <1>8. CASE Server!onAddServer
    <2>1. /\ net' = Server!Ask(net, "server/add", [on |-> Server!None])
          /\ ui' = [ui EXCEPT !.busy = @ \cup {"server/add"}]
      BY <1>8 DEF Server!onAddServer, Server!Submit, Server!Send
    <2>2. QED
      BY <2>1, <1>2
  <1>9. ASSUME NEW s, Server!OpenManage(s)  PROVE Goal
    BY <1>9 DEF Server!OpenManage, Server!Manage
  <1>10. CASE Server!CloseManage
    BY <1>10 DEF Server!CloseManage, Server!Unmanaged
  <1>11. CASE Server!handleWarmupSave
    <2>1. PICK a : /\ net' = Server!Ask(Server!Ask(net, "server/save", a), "server/save", a)
                   /\ ui' = [ui EXCEPT !.busy = @ \cup {"server/save"}]
      BY <1>11 DEF Server!handleWarmupSave
    <2>2. Keys(net') = Keys(net)
      BY <2>1
    <2>3. QED
      BY <2>1, <2>2, <1>2
  <1>12. CASE Server!handleToggleServer
    <2>1. /\ net' = Server!Ask(net, "server/toggle", [on |-> ui.manage])
          /\ ui' = Server!Unmanaged(ui)
      BY <1>12 DEF Server!handleToggleServer, Server!Send
    <2>2. QED
      BY <2>1, <1>2 DEF Server!Unmanaged
  <1>13. ASSUME NEW step, Server!TypeDeletePhrase(step)  PROVE Goal
    BY <1>13 DEF Server!TypeDeletePhrase
  <1>14. CASE Server!doDeleteServer
    <2>1. /\ net' = Server!Ask(net, "server/delete", [on |-> ui.manage[1]])
          /\ ui' = Server!Unmanaged(ui)
      BY <1>14 DEF Server!doDeleteServer, Server!Send
    <2>2. QED
      BY <2>1, <1>2 DEF Server!Unmanaged
  <1>15. CASE Server!toggleReveal
    BY <1>15 DEF Server!toggleReveal
  <1>16. CASE Server!copyToClipboard
    BY <1>16 DEF Server!copyToClipboard
  <1>17. CASE Server!OpenRotate \/ Server!CancelPassword
    BY <1>17 DEF Server!OpenRotate, Server!CancelPassword
  <1>18. CASE Server!onPasswordAction
    <2> DEFINE arg(done, now) == [what |-> ui.modal, done |-> done, key |-> now]
    <2>1. PICK done \in BOOLEAN, now \in {ui.srvKey, ui.srvKey + 1} :
            /\ net' = Server!Ask(net, "key", arg(done, now))
            /\ ui' = [ui EXCEPT !.busy = @ \cup {"key"}, !.srvKey = now]
      BY <1>18 DEF Server!onPasswordAction, Server!Send
    <2>2. PICK i : net' = net \cup {Request(i, "key", arg(done, now))}
      BY <2>1 DEF Server!Ask, Request
    <2>3. Request(i, "key", arg(done, now)).arg.key = now
      BY DEF Request
    <2>4. /\ DOMAIN ui' = DOMAIN ui /\ ui'.key = ui.key /\ ui'.acked = ui.acked
          /\ ui'.srvKey = now
      BY <2>1
    <2> HIDE DEF arg
    <2>5. now \in Nat /\ now >= ui.srvKey /\ now >= ui.acked
      BY <2>1
    <2>6. ASSUME NEW r \in net', r.to = "key"
          PROVE  r.arg.key \in Nat /\ r.arg.key >= ui.acked /\ r.arg.key <= now
      BY <2>2, <2>3, <2>5, <2>6
    <2>7. QED
      BY <2>4, <2>5, <2>6
  <1>19. CASE Server!Pushed
    BY <1>19 DEF Server!Pushed, Server!HandleServerUpdate, Server!HandleWorkerUpdate,
             Server!setServers, Server!applyWorkerHeartbeat
  <1>20. ASSUME NEW r \in net, NEW out, Server!FetchedServers(r, out)  PROVE Goal
    BY <1>20 DEF Server!FetchedServers, Server!setServers, Server!Freed, Server!Settle
  <1>21. ASSUME NEW r \in net, NEW out, Server!AddServerDone(r, out)  PROVE Goal
    <2>1. CASE out = "success"
      <3>1. Server!RefetchAfter(r, [Server!Freed("server/add") EXCEPT !.adding = FALSE])
        BY <1>21, <2>1 DEF Server!AddServerDone
      <3>2. Quiet
        BY <1>4, <3>1 DEF Server!Freed
      <3>3. QED
        BY <1>2, <3>2
    <2>2. CASE out # "success"
      BY <1>21, <2>2 DEF Server!AddServerDone, Server!Settle, Server!Freed
    <2>3. QED
      BY <2>1, <2>2
  <1>22. ASSUME NEW r \in net, NEW out, Server!WarmupSaved(r, out)  PROVE Goal
    <2>1. CASE Server!FirstSaved(r, out)
      <3>1. PICK other, t, a :
              /\ other \in net \ {r} /\ t \in {"server/late", "server/save"}
              /\ net' = Server!Ask(net \ {r, other}, t, a)
        BY <2>1, Zenon DEF Server!FirstSaved
      <3>2. ui' = Server!Freed("server/save") \/ ui' = ui
        BY <2>1 DEF Server!FirstSaved
      <3>3. Keys(net') = Keys(net \ {r, other})
        BY <3>1
      <3>4. QED
        BY <1>2, <3>2, <3>3 DEF Server!Freed
    <2>2. CASE Server!RefetchAfter(r, Server!Unmanaged(Server!Freed("server/save")))
      <3>1. Quiet
        BY <1>4, <2>2 DEF Server!Freed, Server!Unmanaged
      <3>2. QED
        BY <1>2, <3>1
    <2>3. CASE net' = net \ {r} /\ (ui' = Server!Freed("server/save") \/ ui' = ui)
      BY <1>2, <2>3 DEF Server!Freed
    <2>4. QED
      BY <1>22, <2>1, <2>2, <2>3 DEF Server!WarmupSaved, Server!BothSaved, Server!Settle
  <1>23. ASSUME NEW r \in net, NEW out, Server!ServerMutated(r, out)  PROVE Goal
    <2>1. CASE out = "success"
      <3>1. Quiet
        BY <1>4, <1>23, <2>1 DEF Server!ServerMutated
      <3>2. QED
        BY <1>2, <3>1
    <2>2. CASE out # "success"
      BY <1>23, <2>2 DEF Server!ServerMutated
    <2>3. QED
      BY <2>1, <2>2
  <1>24. ASSUME NEW r \in net, NEW out, Server!PasswordActionDone(r, out)  PROVE Goal
    <2>1. r.to = "key" /\ net' = net \ {r}
      BY <1>24 DEF Server!PasswordActionDone, Server!Settle
    <2>2. \A s \in net' : s.to # "key"
      BY <2>1 DEF Lone
    <2>3. CASE out = "success"
      <3>1. ui' = [Server!Freed("key") EXCEPT
                     !.key = r.arg.key, !.shown = TRUE, !.modal = Server!None,
                     !.acked = IF r.arg.what = "rotate" THEN r.arg.key ELSE @]
        BY <1>24, <2>3 DEF Server!PasswordActionDone
      <3>2. /\ DOMAIN ui' = DOMAIN ui /\ ui'.key = r.arg.key /\ ui'.srvKey = ui.srvKey
            /\ ui'.acked \in {r.arg.key, ui.acked}
        BY <3>1 DEF Server!Freed
      <3>3. QED
        BY <2>1, <2>2, <3>2
    <2>4. CASE out # "success"
      BY <1>24, <2>2, <2>4 DEF Server!PasswordActionDone, Server!Freed
    <2>5. QED
      BY <2>3, <2>4
  <1>25. QED
    BY <1>5, <1>6, <1>7, <1>8, <1>9, <1>10, <1>11, <1>12, <1>13, <1>14, <1>15, <1>16, <1>17,
       <1>18, <1>19, <1>20, <1>21, <1>22, <1>23, <1>24
       DEF ServerStep, Server!Click, Server!Answer

\* The forms with a captcha go on to fetch the settings: one request for both,
\* and the flag of the form for as long as it runs.
Form(name) == {name, "config"}
Apart(calls, group) == \A r, s \in calls : r.to \in group /\ s.to \in group => r = s
Waiting(name) ==
  /\ {"page", "busy", "token"} \subseteq DOMAIN ui
  /\ ui.busy \subseteq {name}
  /\ Apart(net, Form(name))
  /\ name \in ui.busy <=> Sent(net) \cap Form(name) # {}

AddsTo(more, calls, t, group) ==
  /\ calls \subseteq more
  /\ Sent(more) = Sent(calls) \cup {t}
  /\ Sent(calls) \cap group = {} => Apart(more, group)
  /\ t \notin group /\ Apart(calls, group) => Apart(more, group)


LEMMA OneMoreInGroup ==
  \A calls, i, t, a, group : AddsTo(calls \cup {Request(i, t, a)}, calls, t, group)
PROOF
  <1>1. \A i, t, a : Request(i, t, a).to = t
    BY DEF Request
  <1>2. QED
    BY <1>1 DEF AddsTo, Sent, Apart

LEMMA HomeAsks == \A c, t, a, g : AddsTo(Home!Ask(c, t, a), c, t, g)
PROOF
  <1>1. \A c, t, a : \E i : Home!Ask(c, t, a) = c \cup {Request(i, t, a)}
    BY DEF Home!Ask, Request
  <1>2. QED
    BY <1>1, OneMoreInGroup

LEMMA ContactAsks == \A c, t, a, g : AddsTo(Contact!Ask(c, t, a), c, t, g)
PROOF
  <1>1. \A c, t, a : \E i : Contact!Ask(c, t, a) = c \cup {Request(i, t, a)}
    BY DEF Contact!Ask, Request
  <1>2. QED
    BY <1>1, OneMoreInGroup

LEMMA SettlingApart ==
  \A calls, r, group :
    /\ Sent(calls) \ {r.to} \subseteq Sent(calls \ {r})
    /\ Sent(calls \ {r}) \subseteq Sent(calls)
    /\ Apart(calls, group) => Apart(calls \ {r}, group)
    /\ r \in calls /\ r.to \in group /\ Apart(calls, group)
         => Sent(calls \ {r}) \cap group = {}
PROOF BY DEF Sent, Apart

\* What an answer must do: an answer that ends the check clears the flag, the
\* fetch of the settings keeps it, and any other one leaves it alone.
LEMMA HomeSteady ==
  ASSUME HomeStep, Waiting("verify"), Sent(net) \subseteq {"status", "verify", "config"}
  PROVE  /\ (ui'.page = "home" /\ Waiting("verify")') \/ (Left /\ Mounted)'
         /\ Sent(net') \subseteq {"status", "verify", "config"}
         /\ \A r \in net \ net' :
              r.to = "verify" /\ ui'.page = "home" => ui'.token = 0
PROOF
  <1> DEFINE G == Form("verify")
  <1> DEFINE Kept == /\ (ui'.page = "home" /\ Waiting("verify")') \/ (Left /\ Mounted)'
                     /\ Sent(net') \subseteq {"status", "verify", "config"}
  <1> DEFINE Used == \A r \in net \ net' :
                       r.to = "verify" /\ ui'.page = "home" => ui'.token = 0
  <1> DEFINE Goal == Kept /\ Used
  <1> USE HomeAsks, SettlingApart, Empty DEF AddsTo, Left
  <1>0. ui.page = "home"
    BY DEF HomeStep, On
  <1>1. CASE Home!TypeEmail
    <2>1. net' = net /\ ui' = [ui EXCEPT !.email = ~@, !.shown = FALSE]
      BY <1>1 DEF Home!TypeEmail
    <2>2. QED
      BY <2>1, <1>0 DEF Waiting
  <1>2. ASSUME NEW u, NEW token, Home!submitVerify(u, token),
               u.busy = ui.busy, u.page = "home", {"page", "busy", "token"} \subseteq DOMAIN u
        PROVE  Goal
    <2>1. CASE "verify" \in u.busy \/ ~u.email
      <3>1. net' = net /\ ui' = u
        BY <1>2, <2>1 DEF Home!submitVerify
      <3>2. QED
        BY <3>1, <1>2 DEF Waiting
    <2>2. CASE ~("verify" \in u.busy \/ ~u.email)
      <3>1. /\ net' = Home!Ask(net, "verify", [token |-> token])
            /\ ui' = [u EXCEPT !.busy = @ \cup {"verify"}, !.pending = FALSE, !.shown = FALSE]
        BY <1>2, <2>2 DEF Home!submitVerify, Home!Send
      <3>2. ui'.page = "home" /\ ui'.busy = ui.busy \cup {"verify"}
            /\ {"page", "busy", "token"} \subseteq DOMAIN ui'
        BY <3>1, <1>2
      <3>3. Sent(net) \cap G = {}
        BY <2>2, <1>2 DEF Waiting
      <3>4. Apart(net', G) /\ Sent(net') = Sent(net) \cup {"verify"} /\ net \subseteq net'
        BY <3>1, <3>3
      <3>5. QED
        BY <3>2, <3>4 DEF Waiting, Form
    <2>3. QED
      BY <2>1, <2>2
  <1>3. CASE Home!handleVerify
    <2>1. CASE ui.known /\ ui.remaining = <<0>>
      <3>1. ui' = [page |-> "left", busy |-> {}] /\ net' = {}
        BY <1>3, <2>1 DEF Home!handleVerify, Home!Leave
      <3>2. ui'.page = "left" /\ ui'.busy = {} /\ Mounted'
        BY <3>1 DEF Mounted
      <3>3. QED
        BY <3>1, <3>2
    <2>2. CASE ~(ui.known /\ ui.remaining = <<0>>) /\ Home!needsCaptcha /\ ui.token = 0
      <3>1. net' = net /\ ui' = [ui EXCEPT !.pending = TRUE, !.visible = TRUE, !.shown = FALSE]
        BY <1>3, <2>2 DEF Home!handleVerify
      <3>2. QED
        BY <3>1, <1>0 DEF Waiting
    <2>3. CASE ~(ui.known /\ ui.remaining = <<0>>) /\ ~(Home!needsCaptcha /\ ui.token = 0)
      <3>1. Home!submitVerify(ui, ui.token)
        BY <1>3, <2>3 DEF Home!handleVerify
      <3>2. QED
        BY <3>1, <1>2, <1>0 DEF Waiting
    <2>4. QED
      BY <2>1, <2>2, <2>3
  <1>4. CASE Home!handleTurnstileToken
    <2> DEFINE u == [ui EXCEPT !.minted = @ + 1, !.token = ui.minted + 1]
    <2>1. u.busy = ui.busy /\ u.page = "home" /\ {"page", "busy", "token"} \subseteq DOMAIN u
      BY <1>0 DEF Waiting
    <2>2. \/ Home!submitVerify(u, u.token)
          \/ ui' = u /\ net' = net
          \/ ui' = [ui EXCEPT !.token = 0] /\ net' = net
      BY <1>4 DEF Home!handleTurnstileToken
    <2>3. CASE Home!submitVerify(u, u.token)
      <3> HIDE DEF u
      <3>1. QED
        BY <2>3, <2>1, <1>2
    <2>4. CASE ui' = u /\ net' = net
      BY <2>4, <2>1 DEF Waiting
    <2>5. CASE ui' = [ui EXCEPT !.token = 0] /\ net' = net
      BY <2>5, <1>0 DEF Waiting
    <2>6. QED
      BY <2>2, <2>3, <2>4, <2>5
  <1>5. ASSUME NEW r \in net, NEW out, Home!FetchedStatus(r, out)  PROVE Goal
    <2>1. r.to = "status" /\ net' = net \ {r}
      BY <1>5 DEF Home!FetchedStatus, Home!Settle
    <2>2. ui'.page = "home" /\ ui'.busy = ui.busy /\ DOMAIN ui' = DOMAIN ui
      BY <1>5, <1>0 DEF Home!FetchedStatus
    <2>3. /\ Apart(net', G)
          /\ Sent(net') \subseteq Sent(net)
          /\ Sent(net) \ {"status"} \subseteq Sent(net')
      BY <2>1 DEF Waiting
    <2>4. QED
      BY <2>1, <2>2, <2>3 DEF Waiting, Form
  <1>6. ASSUME NEW r \in net, NEW out, Home!ConfigFetched(r, out)  PROVE Goal
    <2>1. r.to = "config" /\ net' = net \ {r}
      BY <1>6 DEF Home!ConfigFetched, Home!Settle
    <2>2. ui'.page = "home" /\ ui'.busy = ui.busy \ {"verify"} /\ DOMAIN ui' = DOMAIN ui
      BY <1>6, <1>0 DEF Home!ConfigFetched, Home!Recovered, Home!Freed
    <2>3. Apart(net', G) /\ Sent(net') \subseteq Sent(net) /\ Sent(net') \cap G = {}
      BY <2>1 DEF Waiting, Form
    <2>4. QED
      BY <2>1, <2>2, <2>3 DEF Waiting, Form
  <1>7. ASSUME NEW r \in net, NEW out, Home!Verified(r, out)  PROVE Goal
    <2>1. r.to = "verify"
      BY <1>7 DEF Home!Verified
    <2>2. /\ Apart(net \ {r}, G)
          /\ Sent(net \ {r}) \subseteq Sent(net)
          /\ Sent(net \ {r}) \cap G = {}
      BY <2>1 DEF Waiting, Form
    <2>3. CASE /\ \/ net' = net \ {r}
                  \/ \E arg : net' = Home!Ask(net \ {r}, "status", arg)
               /\ ui' = Home!Finished
      <3>1. /\ ui'.page = "home" /\ ui'.busy = ui.busy \ {"verify"} /\ DOMAIN ui' = DOMAIN ui
            /\ ui'.token = 0
        BY <2>3, <1>0 DEF Home!Finished, Home!Freed, Waiting
      <3>2. /\ Apart(net', G)
            /\ Sent(net') \subseteq Sent(net) \cup {"status"}
            /\ Sent(net') \cap G = {}
        <4>1. CASE net' = net \ {r}
          BY <4>1, <2>2
        <4>2. CASE net' # net \ {r}
          <5>1. PICK arg : net' = Home!Ask(net \ {r}, "status", arg)
            BY <4>2, <2>3
          <5>2. "status" \notin G
            BY DEF Form
          <5>3. Apart(net', G) /\ Sent(net') = Sent(net \ {r}) \cup {"status"}
            BY <5>1, <5>2, <2>2
          <5>4. /\ Sent(net') \subseteq Sent(net) \cup {"status"}
                /\ \A t \in Sent(net') : t \notin G
            BY <5>2, <5>3, <2>2
          <5>5. QED
            BY <5>3, <5>4
        <4>3. QED
          BY <4>1, <4>2
      <3>3. QED
        BY <3>1, <3>2 DEF Waiting, Form
    <2>4. CASE Home!recoverCaptchaChallenge(r) /\ ui.key
      <3>1. /\ net' = net \ {r}
            /\ ui' = Home!Recovered(Home!Challenged([ui EXCEPT !.shown = TRUE]))
        BY <2>4 DEF Home!recoverCaptchaChallenge
      <3>2. /\ ui'.page = "home" /\ ui'.busy = ui.busy \ {"verify"} /\ DOMAIN ui' = DOMAIN ui
            /\ ui'.token = 0
        BY <3>1, <1>0 DEF Home!Recovered, Home!Challenged, Waiting
      <3>3. QED
        BY <3>1, <3>2, <2>2 DEF Waiting, Form
    <2>5. CASE Home!recoverCaptchaChallenge(r) /\ ~ui.key
      <3>1. /\ net' = Home!Ask(net \ {r}, "config", [token |-> 0])
            /\ ui' = Home!Challenged([ui EXCEPT !.shown = TRUE])
        BY <2>5 DEF Home!recoverCaptchaChallenge
      <3>2. /\ ui'.page = "home" /\ ui'.busy = ui.busy /\ DOMAIN ui' = DOMAIN ui
            /\ ui'.token = 0
        BY <3>1, <1>0 DEF Home!Challenged, Waiting
      <3>3. Apart(net', G) /\ Sent(net') = Sent(net \ {r}) \cup {"config"}
        BY <3>1, <2>2
      <3>4. "verify" \in ui.busy
        BY <2>1 DEF Waiting, Sent, Form
      <3>5. QED
        BY <3>2, <3>3, <3>4, <2>2 DEF Waiting, Form
    <2>6. QED
      BY <1>7, <2>3, <2>4, <2>5 DEF Home!Verified, Home!fetchStatus
  <1>8. QED
    BY <1>1, <1>3, <1>4, <1>5, <1>6, <1>7 DEF HomeStep, Home!Click, Home!Answer

LEMMA ContactSteady ==
  ASSUME ContactStep, Waiting("contact"),
         Sent(net) \subseteq {"settings", "contact", "config"}
  PROVE  /\ ui'.page = "contact" /\ Waiting("contact")'
         /\ Sent(net') \subseteq {"settings", "contact", "config"}
         /\ \A r \in net \ net' : r.to = "contact" => ui'.token = 0
PROOF
  <1> DEFINE G == Form("contact")
  <1> DEFINE Goal == /\ ui'.page = "contact" /\ Waiting("contact")'
                     /\ Sent(net') \subseteq {"settings", "contact", "config"}
                     /\ \A r \in net \ net' : r.to = "contact" => ui'.token = 0
  <1> USE ContactAsks, SettlingApart DEF AddsTo
  <1>0. ui.page = "contact"
    BY DEF ContactStep, On
  <1>1. ASSUME net' = net, ui'.page = "contact", ui'.busy = ui.busy,
               {"page", "busy", "token"} \subseteq DOMAIN ui'
        PROVE  Goal
    BY <1>1 DEF Waiting
  <1>2. CASE Contact!Fields
    BY <1>0, <1>1, <1>2 DEF Contact!Fields, Waiting
  <1>3. ASSUME NEW u, NEW token, Contact!submitContact(u, token),
               u.busy = ui.busy, u.page = "contact", {"page", "busy", "token"} \subseteq DOMAIN u
        PROVE  Goal
    <2>1. CASE "contact" \in u.busy
      <3>1. net' = net /\ ui' = u
        BY <1>3, <2>1 DEF Contact!submitContact
      <3>2. QED
        BY <3>1, <1>1, <1>3
    <2>2. CASE "contact" \notin u.busy /\ ~u.filled
      <3>1. /\ net' = net
            /\ ui' = [u EXCEPT !.status = "error", !.visible = FALSE, !.pending = FALSE]
        BY <1>3, <2>2 DEF Contact!submitContact
      <3>2. QED
        BY <3>1, <1>1, <1>3
    <2>3. CASE "contact" \notin u.busy /\ u.filled
      <3>1. /\ net' = Contact!Ask(net, "contact", [token |-> token])
            /\ ui' = [u EXCEPT !.busy = @ \cup {"contact"}, !.pending = FALSE,
                               !.status = Contact!None]
        BY <1>3, <2>3 DEF Contact!submitContact, Contact!Send
      <3>2. ui'.page = "contact" /\ ui'.busy = ui.busy \cup {"contact"}
            /\ {"page", "busy", "token"} \subseteq DOMAIN ui'
        BY <3>1, <1>3
      <3>3. Sent(net) \cap G = {}
        BY <2>3, <1>3 DEF Waiting
      <3>4. Apart(net', G) /\ Sent(net') = Sent(net) \cup {"contact"} /\ net \subseteq net'
        BY <3>1, <3>3
      <3>5. QED
        BY <3>2, <3>4 DEF Waiting, Form
    <2>4. QED
      BY <2>1, <2>2, <2>3
  <1>4. CASE Contact!handleSubmit
    <2>1. CASE ~ui.filled
      <3>1. net' = net /\ ui' = [ui EXCEPT !.status = "error"]
        BY <1>4, <2>1 DEF Contact!handleSubmit
      <3>2. QED
        BY <3>1, <1>0, <1>1 DEF Waiting
    <2>2. CASE ui.filled /\ Contact!needsCaptcha /\ ui.token = 0
      <3>1. /\ net' = net
            /\ ui' = [ui EXCEPT !.pending = TRUE, !.visible = TRUE, !.status = Contact!None]
        BY <1>4, <2>2 DEF Contact!handleSubmit
      <3>2. QED
        BY <3>1, <1>0, <1>1 DEF Waiting
    <2>3. CASE ui.filled /\ ~(Contact!needsCaptcha /\ ui.token = 0)
      <3>1. Contact!submitContact(ui, ui.token)
        BY <1>4, <2>3 DEF Contact!handleSubmit
      <3>2. QED
        BY <3>1, <1>3, <1>0 DEF Waiting
    <2>4. QED
      BY <2>1, <2>2, <2>3
  <1>5. CASE Contact!handleTurnstileToken
    <2> DEFINE u == [ui EXCEPT !.minted = @ + 1, !.token = ui.minted + 1]
    <2>1. u.busy = ui.busy /\ u.page = "contact" /\ {"page", "busy", "token"} \subseteq DOMAIN u
      BY <1>0 DEF Waiting
    <2>2. \/ Contact!submitContact(u, u.token)
          \/ ui' = u /\ net' = net
          \/ ui' = [ui EXCEPT !.token = 0] /\ net' = net
      BY <1>5 DEF Contact!handleTurnstileToken
    <2>3. CASE Contact!submitContact(u, u.token)
      <3> HIDE DEF u
      <3>1. QED
        BY <2>3, <2>1, <1>3
    <2>4. CASE ui' = u /\ net' = net
      BY <2>4, <2>1, <1>1
    <2>5. CASE ui' = [ui EXCEPT !.token = 0] /\ net' = net
      BY <2>5, <1>0, <1>1 DEF Waiting
    <2>6. QED
      BY <2>2, <2>3, <2>4, <2>5
  <1>6. ASSUME NEW r \in net, NEW out, Contact!FetchedSettings(r, out)  PROVE Goal
    <2>1. r.to = "settings" /\ net' = net \ {r}
      BY <1>6 DEF Contact!FetchedSettings, Contact!Settle
    <2>2. ui'.page = "contact" /\ ui'.busy = ui.busy /\ DOMAIN ui' = DOMAIN ui
      BY <1>6, <1>0 DEF Contact!FetchedSettings
    <2>3. /\ Apart(net', G) /\ Sent(net') \subseteq Sent(net)
          /\ Sent(net) \ {"settings"} \subseteq Sent(net')
      BY <2>1 DEF Waiting
    <2>4. QED
      BY <2>1, <2>2, <2>3 DEF Waiting, Form
  <1>7. ASSUME NEW r \in net, NEW out, Contact!ConfigFetched(r, out)  PROVE Goal
    <2>1. r.to = "config" /\ net' = net \ {r}
      BY <1>7 DEF Contact!ConfigFetched, Contact!Settle
    <2>2. ui'.page = "contact" /\ ui'.busy = ui.busy \ {"contact"} /\ DOMAIN ui' = DOMAIN ui
      BY <1>7, <1>0 DEF Contact!ConfigFetched, Contact!Recovered, Contact!Freed
    <2>3. Apart(net', G) /\ Sent(net') \subseteq Sent(net) /\ Sent(net') \cap G = {}
      BY <2>1 DEF Waiting, Form
    <2>4. QED
      BY <2>1, <2>2, <2>3 DEF Waiting, Form
  <1>8. ASSUME NEW r \in net, NEW out, Contact!Sent(r, out)  PROVE Goal
    <2> DEFINE done == [Contact!Freed("contact") EXCEPT !.token = 0, !.visible = FALSE]
    <2> DEFINE u == [ui EXCEPT !.token = 0, !.required = TRUE, !.status = "error"]
    <2>1. r.to = "contact"
      BY <1>8 DEF Contact!Sent
    <2>2. /\ Apart(net \ {r}, G) /\ Sent(net \ {r}) \subseteq Sent(net)
          /\ Sent(net \ {r}) \cap G = {}
      BY <2>1 DEF Waiting, Form
    <2>3. CASE /\ net' = net \ {r}
               /\ \/ ui' = [done EXCEPT !.status = "success", !.filled = FALSE]
                  \/ ui' = [done EXCEPT !.status = "error"]
                  \/ ui' = Contact!Recovered(u)
      <3>1. /\ ui'.page = "contact" /\ ui'.busy = ui.busy \ {"contact"}
            /\ DOMAIN ui' = DOMAIN ui /\ ui'.token = 0
        BY <2>3, <1>0 DEF Contact!Recovered, Contact!Freed, Waiting
      <3>2. QED
        BY <2>2, <2>3, <3>1 DEF Waiting, Form
    <2>4. CASE Contact!recoverCaptchaChallenge(r) /\ ~ui.key
      <3>1. ui' = u
        BY <2>4 DEF Contact!recoverCaptchaChallenge
      <3>2. PICK c : net' = Contact!Ask(net \ {r}, "config", c)
        BY <2>4 DEF Contact!recoverCaptchaChallenge
      <3>3. /\ ui'.page = "contact" /\ ui'.busy = ui.busy
            /\ DOMAIN ui' = DOMAIN ui /\ ui'.token = 0
        BY <3>1, <1>0 DEF Waiting
      <3>4. Apart(net', G) /\ Sent(net') = Sent(net \ {r}) \cup {"config"}
        BY <3>2, <2>2
      <3>5. "contact" \in ui.busy
        BY <2>1 DEF Waiting, Sent, Form
      <3>6. QED
        BY <3>3, <3>4, <3>5, <2>2 DEF Waiting, Form
    <2>5. CASE Contact!recoverCaptchaChallenge(r) /\ ui.key
      <3>1. net' = net \ {r} /\ ui' = Contact!Recovered(u)
        BY <2>5 DEF Contact!recoverCaptchaChallenge
      <3>2. QED
        BY <3>1, <2>3
    <2>6. QED
      BY <1>8, <2>3, <2>4, <2>5 DEF Contact!Sent
  <1>9. QED
    BY <1>2, <1>4, <1>5, <1>6, <1>7, <1>8 DEF ContactStep, Contact!Click, Contact!Answer

\* The buttons of a page of the account, and what a good answer confirms.
Buttons(at) == {at} \cup IF at \in Account!Coded THEN {Account!Resend(at)} ELSE {}
Going == {"login", "register", "forgot-password"}
Confirms(to, srv) ==
  /\ to = "verify-email" => srv.account = "active"
  /\ to = "reset-password" => srv.changes > 0

\* A request of the account: its own page's button sent it, or the page it
\* belongs to is gone; what it confirms has happened on the server.
Honest(r, at, srv) ==
  /\ {"arg", "id", "to"} \subseteq DOMAIN r /\ {"own", "ok", "next"} \subseteq DOMAIN r.arg
  /\ r.arg.own \in BOOLEAN
  /\ r.to \in Account!Route \cup {"resend-verification", "resend-reset"}
  /\ r.arg.own => r.to \in Buttons(at)
  /\ r.arg.ok => Confirms(r.to, srv)
  /\ r.to \in Going => r.arg.next \in (Account!Route \cup {"dashboard"}) \ {r.to}

HonestPage ==
  /\ {"page", "busy", "at", "done", "srv"} \subseteq DOMAIN ui
  /\ {"account", "changes"} \subseteq DOMAIN ui.srv /\ ui.srv.changes \in Nat
  /\ ui.at \in Account!Route
  /\ ui.busy \subseteq Buttons(ui.at)
  /\ \A r \in net : Honest(r, ui.at, ui.srv)
  /\ \A f \in ui.busy : \E r \in net : r.to = f /\ r.arg.own
  /\ ui.done => IF ui.at = "verify-email" THEN ui.srv.account = "active" ELSE ui.srv.changes > 0

\* The server only goes forward.
Later(srv, new) ==
  /\ DOMAIN new = DOMAIN srv
  /\ srv.account = "active" => new.account = "active"
  /\ new.changes \in Nat /\ new.changes >= srv.changes

LEMMA AccountAsks ==
  \A c, t, a : \E i : Account!Ask(c, t, a) = c \cup {Request(i, t, a)}
PROOF BY DEF Account!Ask, Request

\* A request that is left behind is the one it was, but for its id.
LEMMA LeftBehind ==
  ASSUME NEW at, NEW srv, NEW calls, \A s \in calls : Honest(s, at, srv),
         NEW r \in Account!Orphaned(calls)
  PROVE  \E s \in calls :
           /\ DOMAIN r = DOMAIN s /\ DOMAIN r.arg = DOMAIN s.arg /\ r.to = s.to
           /\ r.arg.own = FALSE /\ r.arg.ok = s.arg.ok /\ r.arg.next = s.arg.next
           /\ r.id = s.id \/ \E a : r.id = Account!Free(calls \ {s}, s.to, a)
PROOF
  <1>1. PICK s \in calls :
          r = IF ~s.arg.own THEN s
              ELSE [s EXCEPT !.arg = [s.arg EXCEPT !.own = FALSE],
                             !.id = Account!Free(calls \ {s}, s.to, [s.arg EXCEPT !.own = FALSE])]
    BY Zenon DEF Account!Orphaned
  <1>2. Honest(s, at, srv)
    OBVIOUS
  <1>3. CASE ~s.arg.own
    BY <1>1, <1>2, <1>3 DEF Honest
  <1>4. CASE s.arg.own
    <2> DEFINE id == Account!Free(calls \ {s}, s.to, [s.arg EXCEPT !.own = FALSE])
    <2>1. r = [s EXCEPT !.arg = [s.arg EXCEPT !.own = FALSE], !.id = id]
      BY <1>1, <1>4
    <2> HIDE DEF id
    <2>2. /\ DOMAIN r = DOMAIN s /\ r.to = s.to /\ r.arg = [s.arg EXCEPT !.own = FALSE]
          /\ r.id = id
      BY <1>2, <2>1 DEF Honest
    <2>3. /\ DOMAIN r.arg = DOMAIN s.arg /\ r.arg.own = FALSE
          /\ r.arg.ok = s.arg.ok /\ r.arg.next = s.arg.next
      BY <1>2, <2>2 DEF Honest
    <2>4. \E a : r.id = Account!Free(calls \ {s}, s.to, a)
      BY <2>2 DEF id
    <2>5. QED
      BY <2>2, <2>3, <2>4
  <1>5. QED
    BY <1>2, <1>3, <1>4 DEF Honest

\* A page that is gone leaves its requests behind, none of which is its own.
LEMMA MovesOn ==
  ASSUME HonestPage, ui.page = "account", NEW route \in Account!Route, NEW notice,
         NEW calls \in SUBSET net, route # ui.at, Account!GoTo(route, notice, calls)
  PROVE  HonestPage' /\ ui'.page = "account"
PROOF
  <1>1. ui' = Account!Mounted(ui, route, notice) /\ net' = Account!Orphaned(calls)
    BY DEF Account!GoTo
  <1>2. /\ DOMAIN ui' = DOMAIN ui /\ ui'.page = "account" /\ ui'.busy = {} /\ ui'.at = route
        /\ ui'.done = FALSE /\ ui'.srv = ui.srv
    BY <1>1 DEF Account!Mounted, HonestPage
  <1>3. ASSUME NEW r \in net'  PROVE Honest(r, route, ui.srv)
    <2>1. \A s \in calls : Honest(s, ui.at, ui.srv)
      BY DEF HonestPage
    <2>2. PICK s \in calls :
            /\ DOMAIN r = DOMAIN s /\ DOMAIN r.arg = DOMAIN s.arg /\ r.to = s.to
            /\ r.arg.own = FALSE /\ r.arg.ok = s.arg.ok /\ r.arg.next = s.arg.next
      BY <1>1, <2>1, LeftBehind, Zenon
    <2>3. QED
      BY <2>1, <2>2 DEF Honest
  <1>4. QED
    BY <1>2, <1>3 DEF HonestPage

\* An answer that stays on the page: the flag of a request of its own goes.
LEMMA Stays ==
  ASSUME HonestPage, NEW r \in net, net' = net \ {r},
         DOMAIN ui' = DOMAIN ui, ui'.at = ui.at, ui'.srv = ui.srv,
         ui'.busy \subseteq ui.busy, r.arg.own => r.to \notin ui'.busy,
         ui'.done => ui.done \/ IF ui.at = "verify-email" THEN ui.srv.account = "active"
                                ELSE ui.srv.changes > 0
  PROVE  HonestPage'
PROOF BY DEF HonestPage

\* A button sends its request, and the server acts on it or not.
LEMMA Calls ==
  ASSUME HonestPage, ui.page = "account", NEW to, NEW ok, NEW next, NEW srv,
         Account!Call(to, ok, next, srv),
         to \in Buttons(ui.at) \cap (Account!Route \cup {"resend-verification", "resend-reset"}),
         Later(ui.srv, srv), ok => Confirms(to, srv),
         to \in Going => next \in (Account!Route \cup {"dashboard"}) \ {to}
  PROVE  HonestPage' /\ ui'.page = "account"
PROOF
  <1> DEFINE arg == [own |-> TRUE, ok |-> ok, next |-> next]
  <1>1. /\ DOMAIN ui' = DOMAIN ui /\ ui'.page = "account" /\ ui'.at = ui.at
        /\ ui'.busy = ui.busy \cup {to} /\ ui'.srv = srv /\ ui'.done = ui.done
    BY DEF Account!Call, HonestPage
  <1>2. PICK i : net' = net \cup {Request(i, to, arg)}
    BY AccountAsks DEF Account!Call, Account!Send
  <1>3. Honest(Request(i, to, arg), ui.at, srv) /\ Request(i, to, arg).to = to
        /\ Request(i, to, arg).arg.own
    BY DEF Honest, Request
  <1>4. ASSUME NEW r \in net  PROVE Honest(r, ui.at, srv)
    <2>1. Honest(r, ui.at, ui.srv)
      BY DEF HonestPage
    <2>2. Confirms(r.to, ui.srv) => Confirms(r.to, srv)
      BY DEF Confirms, Later, HonestPage
    <2>3. QED
      BY <2>1, <2>2 DEF Honest
  <1>5. ui'.done => IF ui.at = "verify-email" THEN srv.account = "active" ELSE srv.changes > 0
    BY <1>1 DEF Later, HonestPage
  <1>6. \A r \in net' : Honest(r, ui'.at, ui'.srv)
    BY <1>1, <1>2, <1>3, <1>4
  <1>7. \A f \in ui'.busy : \E r \in net' : r.to = f /\ r.arg.own
    <2> HIDE DEF arg
    <2>1. QED
      BY <1>1, <1>2, <1>3 DEF HonestPage
  <1>8. ui'.srv.changes \in Nat /\ {"account", "changes"} \subseteq DOMAIN ui'.srv
    BY <1>1 DEF Later, HonestPage
  <1>9. QED
    BY <1>1, <1>5, <1>6, <1>7, <1>8 DEF HonestPage

LEMMA Unmoved == ASSUME HonestPage  PROVE Later(ui.srv, ui.srv)
PROOF BY DEF HonestPage, Later

LEMMA AccountSteady ==
  ASSUME AccountStep, HonestPage
  PROVE  (HonestPage' /\ ui'.page = "account") \/ (Left /\ Mounted)'
PROOF
  <1> DEFINE Goal == (HonestPage' /\ ui'.page = "account") \/ (Left /\ Mounted)'
  <1>0. ui.page = "account"
    BY DEF AccountStep, On
  <1>1. ASSUME NEW r \in net, net' = net \ {r},
               ui' = IF r.arg.own THEN Account!Freed(r.to) ELSE ui
        PROVE  Goal
    <2>1. /\ DOMAIN ui' = DOMAIN ui /\ ui'.at = ui.at /\ ui'.srv = ui.srv /\ ui'.page = ui.page
          /\ ui'.done = ui.done
          /\ ui'.busy = IF r.arg.own THEN ui.busy \ {r.to} ELSE ui.busy
      BY <1>1 DEF Account!Freed, HonestPage
    <2>2. QED
      BY <1>0, <1>1, <2>1, Stays
  <1>2. ASSUME NEW route \in Account!Route, Account!FollowLink(route)  PROVE Goal
    <2>1. PICK notice : Account!GoTo(route, notice, net)
      BY <1>2 DEF Account!FollowLink
    <2>2. route # ui.at
      BY <1>2 DEF Account!FollowLink, Account!Links
    <2>3. QED
      BY <1>0, <2>1, <2>2, MovesOn
  <1>3. ASSUME NEW p \in Account!Coded, Account!ServerMinute(p)  PROVE Goal
    <2>1. ui' = [ui EXCEPT !.srv.cool[p] = FALSE] /\ net' = net
      BY <1>3 DEF Account!ServerMinute
    <2>2. /\ DOMAIN ui' = DOMAIN ui
          /\ ui'.at = ui.at
          /\ ui'.page = ui.page
          /\ ui'.done = ui.done
          /\ ui'.busy = ui.busy /\ DOMAIN ui'.srv = DOMAIN ui.srv
          /\ ui'.srv.account = ui.srv.account /\ ui'.srv.changes = ui.srv.changes
      BY <2>1 DEF HonestPage
    <2>3. \A r \in net' : Honest(r, ui'.at, ui'.srv)
      BY <2>1, <2>2 DEF HonestPage, Honest, Confirms
    <2>4. QED
      BY <1>0, <2>1, <2>2, <2>3 DEF HonestPage
  <1>4. CASE Account!CountedDown
    <2>1. ui' = [ui EXCEPT !.cooldown = FALSE] /\ net' = net
      BY <1>4 DEF Account!CountedDown
    <2>2. QED
      BY <1>0, <2>1 DEF HonestPage
  <1>5. CASE Account!LoginForm
    <2>1. PICK right \in BOOLEAN :
            Account!Call("login", right /\ ui.srv.account = "active", "dashboard", ui.srv)
      BY <1>5 DEF Account!LoginForm
    <2>2. ui.at = "login"
      BY <1>5 DEF Account!LoginForm, Account!Form
    <2>3. QED
      BY <1>0, <2>1, <2>2, Unmoved, Calls DEF Buttons, Going, Confirms, Account!Route
  <1>6. CASE Account!RegisterForm
    <2> DEFINE made == [ui.srv EXCEPT !.account = IF ui.srv.waits THEN "pending" ELSE "active"]
    <2>1. ui.at = "register"
      BY <1>6 DEF Account!RegisterForm, Account!Form
    <2>2. \/ /\ ui.srv.account = "none"
             /\ \E srv \in {made, Account!Issued(made, "verify-email")},
                    next \in {"verify-email", "login"} :
                  Account!Call("register", TRUE, next, srv)
          \/ Account!Call("register", FALSE, "login", ui.srv)
      BY <1>6 DEF Account!RegisterForm
    <2>3. ASSUME ui.srv.account = "none",
                 NEW srv \in {made, Account!Issued(made, "verify-email")}
          PROVE  Later(ui.srv, srv)
      <3>1. DOMAIN made = DOMAIN ui.srv /\ made.changes = ui.srv.changes
        BY DEF HonestPage
      <3> HIDE DEF made
      <3>2. DOMAIN srv = DOMAIN ui.srv /\ srv.changes = ui.srv.changes
        <4>1. ASSUME NEW old
              PROVE  /\ DOMAIN Account!Issued(old, "verify-email") = DOMAIN old
                     /\ Account!Issued(old, "verify-email").changes = old.changes
          BY DEF Account!Issued
        <4>2. QED
          BY <3>1, <2>3, <4>1
      <3>3. QED
        BY <2>3, <3>2 DEF Later, HonestPage
    <2>4. ASSUME NEW srv, NEW next \in {"verify-email", "login"}, NEW ok, Later(ui.srv, srv),
                 Account!Call("register", ok, next, srv)
          PROVE  Goal
      BY <1>0, <2>1, <2>4, Calls DEF Buttons, Going, Confirms, Account!Route
    <2> HIDE DEF made
    <2>5. QED
      BY <2>2, <2>3, <2>4, Unmoved
  <1>7. ASSUME NEW p  PROVE Later(ui.srv, Account!Issued(ui.srv, p))
    BY DEF Account!Issued, Later, HonestPage
  <1>8. CASE Account!ForgotPassword
    <2>1. ui.at = "forgot-password"
      BY <1>8 DEF Account!ForgotPassword, Account!Form
    <2>2. PICK srv \in {ui.srv, Account!Issued(ui.srv, "reset-password")} :
            Account!Call("forgot-password", TRUE, "reset-password", srv)
      BY <1>8 DEF Account!ForgotPassword
    <2>3. Later(ui.srv, srv)
      BY <2>2, <1>7, Unmoved
    <2>4. QED
      BY <1>0, <2>1, <2>2, <2>3, Calls DEF Buttons, Going, Confirms, Account!Route
  <1>9. ASSUME NEW code, Account!VerifyEmail(code)  PROVE Goal
    <2> DEFINE new == [ui.srv EXCEPT !.account = "active", !.code["verify-email"] = 0]
    <2>1. ui.at = "verify-email"
      BY <1>9 DEF Account!VerifyEmail, Account!Form
    <2>2. PICK ok \in BOOLEAN, srv \in {ui.srv, new} :
            /\ Account!Call("verify-email", ok, "", srv)
            /\ ok => srv = new \/ ui.srv.account = "active"
      BY <1>9 DEF Account!VerifyEmail
    <2>3. Later(ui.srv, new) /\ new.account = "active"
      BY DEF Later, HonestPage
    <2> HIDE DEF new
    <2>4. Later(ui.srv, srv) /\ (ok => srv.account = "active")
      BY <2>2, <2>3, Unmoved DEF Later
    <2>5. QED
      BY <1>0, <2>1, <2>2, <2>4, Calls DEF Buttons, Going, Confirms, Account!Route
  <1>10. ASSUME NEW code, Account!ResetPassword(code)  PROVE Goal
    <2> DEFINE new == [ui.srv EXCEPT !.changes = @ + 1, !.code["reset-password"] = 0]
    <2>1. ui.at = "reset-password"
      BY <1>10 DEF Account!ResetPassword, Account!Form
    <2>2. PICK ok \in BOOLEAN, srv \in {ui.srv, new} :
            Account!Call("reset-password", ok, "", srv) /\ (ok => srv = new)
      BY <1>10 DEF Account!ResetPassword
    <2>3. Later(ui.srv, new) /\ new.changes > 0
      BY DEF Later, HonestPage
    <2> HIDE DEF new
    <2>4. Later(ui.srv, srv) /\ (ok => srv.changes > 0)
      BY <2>2, <2>3, Unmoved
    <2>5. QED
      BY <1>0, <2>1, <2>2, <2>4, Calls DEF Buttons, Going, Confirms, Account!Route
  <1>11. CASE Account!onResend
    <2>1. ui.at \in Account!Coded
      BY <1>11 DEF Account!onResend
    <2>2. PICK ok \in BOOLEAN, srv \in {ui.srv, Account!Issued(ui.srv, ui.at)} :
            Account!Call(Account!Resend(ui.at), ok, "", srv)
      BY <1>11 DEF Account!onResend
    <2>3. Later(ui.srv, srv)
      BY <2>2, <1>7, Unmoved
    <2>4. QED
      BY <1>0, <2>1, <2>2, <2>3, Calls
         DEF Buttons, Going, Confirms, Account!Coded, Account!Resend
  <1>12. ASSUME NEW r \in net, NEW out, Account!Pushed(r, out)  PROVE Goal
    <2>1. r.to \in Going /\ Honest(r, ui.at, ui.srv)
      BY <1>12 DEF Account!Pushed, Going, HonestPage
    <2>2. CASE out = "success" /\ r.arg.next = "dashboard"
      <3>1. ui' = [page |-> "left", busy |-> {}] /\ net' = {}
        BY <1>12, <2>2 DEF Account!Pushed, Account!Leave
      <3>2. QED
        BY <3>1 DEF Left, Mounted
    <2>3. CASE out = "success" /\ r.arg.next # "dashboard"
      <3>1. PICK notice : Account!GoTo(r.arg.next, notice, net \ {r})
        BY <1>12, <2>3 DEF Account!Pushed
      <3>2. r.arg.next \in Account!Route /\ r.arg.next # r.to
        BY <2>1, <2>3 DEF Honest
      <3>3. CASE r.arg.next # ui.at
        BY <1>0, <3>1, <3>2, <3>3, MovesOn
      <3>4. CASE r.arg.next = ui.at
        <4>1. ui' = [ui EXCEPT !.notice = notice] /\ net' = net \ {r}
          BY <3>1, <3>4 DEF Account!GoTo, Account!Mounted
        <4>2. ~r.arg.own
          BY <2>1, <3>2, <3>4
             DEF Honest, Buttons, Going, Account!Coded, Account!Resend
        <4>3. /\ DOMAIN ui' = DOMAIN ui /\ ui'.at = ui.at /\ ui'.srv = ui.srv
              /\ ui'.page = ui.page /\ ui'.done = ui.done /\ ui'.busy = ui.busy
          BY <4>1 DEF HonestPage
        <4>4. QED
          BY <1>0, <4>1, <4>2, <4>3, Stays
      <3>5. QED
        BY <3>3, <3>4
    <2>4. CASE out # "success"
      BY <1>1, <1>12, <2>4 DEF Account!Pushed
    <2>5. QED
      BY <2>2, <2>3, <2>4
  <1>13. ASSUME NEW r \in net, NEW out, Account!Confirmed(r, out)  PROVE Goal
    <2>1. /\ net' = net \ {r} /\ r.to \in Account!Coded /\ Honest(r, ui.at, ui.srv)
      BY <1>13 DEF Account!Confirmed, HonestPage
    <2>2. CASE r.arg.own /\ out = "success"
      <3>1. ui' = [Account!Freed(r.to) EXCEPT !.done = TRUE] /\ r.arg.ok
        BY <1>13, <2>2 DEF Account!Confirmed, Account!Honest
      <3>2. /\ DOMAIN ui' = DOMAIN ui /\ ui'.at = ui.at /\ ui'.srv = ui.srv
            /\ ui'.page = ui.page /\ ui'.busy = ui.busy \ {r.to}
        BY <3>1 DEF Account!Freed, HonestPage
      <3>3. IF ui.at = "verify-email" THEN ui.srv.account = "active" ELSE ui.srv.changes > 0
        BY <2>1, <2>2, <3>1
           DEF Honest, Buttons, Confirms, Account!Coded, Account!Resend
      <3>4. QED
        BY <1>0, <2>1, <3>2, <3>3, Stays
    <2>3. CASE ~(r.arg.own /\ out = "success")
      <3>1. ui' = IF r.arg.own THEN Account!Freed(r.to) ELSE ui
        BY <1>13, <2>3 DEF Account!Confirmed
      <3>2. QED
        BY <1>1, <2>1, <3>1
    <2>4. QED
      BY <2>2, <2>3
  <1>14. ASSUME NEW r \in net, NEW out, Account!Resent(r, out)  PROVE Goal
    <2>1. CASE ~r.arg.own
      BY <1>1, <1>14, <2>1 DEF Account!Resent
    <2>2. CASE r.arg.own
      <3>1. /\ net' = net \ {r}
            /\ ui' = [Account!Freed(r.to) EXCEPT !.cooldown = @ \/ out # "thrown"]
        BY <1>14, <2>2 DEF Account!Resent
      <3>2. /\ DOMAIN ui' = DOMAIN ui /\ ui'.at = ui.at /\ ui'.srv = ui.srv
            /\ ui'.page = ui.page /\ ui'.done = ui.done /\ ui'.busy = ui.busy \ {r.to}
        BY <3>1 DEF Account!Freed, HonestPage
      <3>3. QED
        BY <1>0, <3>1, <3>2, Stays
    <2>3. QED
      BY <2>1, <2>2
  <1>15. QED
    BY <1>2, <1>3, <1>4, <1>5, <1>6, <1>8, <1>9, <1>10, <1>11, <1>12, <1>13, <1>14
       DEF AccountStep, Account!Click, Account!Answer

-----------------------------------------------------------------------------

\* The badge, package by package.
OnePopular(plans) ==
  \A p, q \in DOMAIN plans : "popular" \in plans[p] /\ "popular" \in plans[q] => p = q

\* An answer that marks a package takes the mark from all others; one that
\* does not, changes that package alone.
LEMMA MarksOne ==
  ASSUME NEW plans, OnePopular(plans), NEW p, NEW flags,
         NEW merged \in {Package!Prepended(plans, p, flags), Package!Replaced(plans, p, flags)}
  PROVE  OnePopular(IF "popular" \in flags THEN Package!Demoted(merged, p) ELSE merged)
PROOF
  <1>1. CASE "popular" \in flags
    <2>1. \A q \in DOMAIN merged : q # p => "popular" \notin Package!Demoted(merged, p)[q]
      BY DEF Package!Demoted
    <2>2. DOMAIN Package!Demoted(merged, p) = DOMAIN merged
      BY DEF Package!Demoted
    <2>3. QED
      BY <1>1, <2>1, <2>2 DEF OnePopular
  <1>2. CASE "popular" \notin flags
    <2>1. ASSUME NEW q \in DOMAIN merged
          PROVE  (q = p /\ merged[q] = flags) \/ (q \in DOMAIN plans /\ merged[q] = plans[q])
      <3>1. CASE merged = Package!Prepended(plans, p, flags)
        BY <3>1 DEF Package!Prepended
      <3>2. CASE merged = Package!Replaced(plans, p, flags)
        BY <3>2 DEF Package!Replaced
      <3>3. QED
        BY <3>1, <3>2
    <2>2. QED
      BY <1>2, <2>1 DEF OnePopular
  <1>3. QED
    BY <1>1, <1>2

PackageBadges == "plans" \in DOMAIN ui /\ OnePopular(ui.plans)

LEMMA PackageMarks == ASSUME PackageStep, PackageBadges  PROVE PackageBadges'
PROOF
  <1> DEFINE Goal == PackageBadges'
  <1> USE DEF PackageBadges
  <1>0. ASSUME NEW p, NEW flags, "plans" \in DOMAIN ui',
               NEW merged \in {Package!Prepended(ui.plans, p, flags),
                               Package!Replaced(ui.plans, p, flags)},
               ui'.plans = IF "popular" \in flags THEN Package!Demoted(merged, p) ELSE merged
        PROVE  Goal
    BY <1>0, MarksOne
  <1>1. ASSUME NEW id, Package!OpenForm(id)  PROVE Goal
    BY <1>1 DEF Package!OpenForm
  <1>2. CASE Package!CloseForm
    BY <1>2 DEF Package!CloseForm
  <1>3. ASSUME NEW flags, Package!onSubmit(flags)  PROVE Goal
    BY <1>3 DEF Package!onSubmit, Package!Submit
  <1>4. ASSUME NEW p, NEW flag, Package!updatePackageFlags(p, flag)  PROVE Goal
    BY <1>4 DEF Package!updatePackageFlags
  <1>5. ASSUME NEW p, Package!OpenDelete(p)  PROVE Goal
    BY <1>5 DEF Package!OpenDelete
  <1>6. CASE Package!CancelDelete
    BY <1>6 DEF Package!CancelDelete
  <1>7. CASE Package!deletePlan
    BY <1>7 DEF Package!deletePlan, Package!Submit
  <1>8. ASSUME NEW r \in net, NEW out, Package!Submitted(r, out)  PROVE Goal
    <2>1. CASE out = "success"
      <3> DEFINE merged == IF r.arg.create THEN Package!Prepended(ui.plans, r.arg.id, r.arg.flags)
                           ELSE Package!Replaced(ui.plans, r.arg.id, r.arg.flags)
      <3> DEFINE plans == IF "popular" \in r.arg.flags THEN Package!Demoted(merged, r.arg.id)
                          ELSE merged
      <3>1. ui' = [Package!Freed("submit") EXCEPT !.modal = <<>>, !.plans = plans]
        BY <1>8, <2>1 DEF Package!Submitted
      <3>2. merged \in {Package!Prepended(ui.plans, r.arg.id, r.arg.flags),
                        Package!Replaced(ui.plans, r.arg.id, r.arg.flags)}
        OBVIOUS
      <3> HIDE DEF merged
      <3>3. "plans" \in DOMAIN ui' /\ ui'.plans = plans
        BY <3>1 DEF Package!Freed
      <3>4. QED
        BY <1>0, <3>2, <3>3
    <2>2. CASE out # "success"
      BY <1>8, <2>2 DEF Package!Submitted, Package!Freed
    <2>3. QED
      BY <2>1, <2>2
  <1>9. ASSUME NEW r \in net, NEW out, Package!FlagsUpdated(r, out)  PROVE Goal
    <2>1. CASE out = "success"
      <3> DEFINE merged == Package!Replaced(ui.plans, r.arg.id, r.arg.flags)
      <3> DEFINE plans == IF "popular" \in r.arg.flags THEN Package!Demoted(merged, r.arg.id)
                          ELSE merged
      <3>1. ui' = [ui EXCEPT !.plans = plans]
        BY <1>9, <2>1 DEF Package!FlagsUpdated
      <3> HIDE DEF merged
      <3>2. "plans" \in DOMAIN ui' /\ ui'.plans = plans
        BY <3>1
      <3>3. QED
        BY <1>0, <3>2 DEF merged
    <2>2. CASE out # "success"
      BY <1>9, <2>2 DEF Package!FlagsUpdated
    <2>3. QED
      BY <2>1, <2>2
  <1>10. ASSUME NEW r \in net, NEW out, Package!PlanDeleted(r, out)  PROVE Goal
    <2>1. CASE out = "success"
      <3> DEFINE kept == [q \in DOMAIN ui.plans \ {r.arg.id} |-> ui.plans[q]]
      <3>1. ui' = [Package!Freed("delete") EXCEPT !.plans = kept, !.remove = Package!None]
        BY <1>10, <2>1 DEF Package!PlanDeleted, Package!Freed
      <3>2. OnePopular(kept)
        BY DEF OnePopular
      <3> HIDE DEF kept
      <3>3. QED
        BY <3>1, <3>2 DEF Package!Freed
    <2>2. CASE out # "success"
      BY <1>10, <2>2 DEF Package!PlanDeleted, Package!Freed
    <2>3. QED
      BY <2>1, <2>2
  <1>11. QED
    BY <1>1, <1>2, <1>3, <1>4, <1>5, <1>6, <1>7, <1>8, <1>9, <1>10
       DEF PackageStep, Package!Click, Package!Answer, Package!openAdd, Package!openEdit,
           Package!toggleListed, Package!togglePopular

\* The key of a selection is the key of every job made of it, until the key
\* is thrown away without the selection.
SelectionKey ==
  /\ {"file", "picked", "key", "minted", "spoiled", "srv"} \subseteq DOMAIN ui
  /\ {"jobs", "credits"} = DOMAIN ui.srv
  /\ ui.picked \in Nat /\ ui.minted \in Nat /\ ui.spoiled \in BOOLEAN
  /\ \A a \in ui.srv.jobs : a.file \in Nat /\ a.file <= ui.picked
  /\ ui.file # <<>> =>
       /\ ui.file[1].id \in Nat /\ ui.file[1].id <= ui.picked
       /\ ~ui.spoiled =>
            ui.key # 0 /\ \A a \in ui.srv.jobs : a.file = ui.file[1].id => a.key = ui.key
  /\ ~ui.spoiled => \A a, b \in ui.srv.jobs : a.file = b.file => a.key = b.key

LEMMA UploadKeepsKey == ASSUME UploadStep, SelectionKey  PROVE SelectionKey'
PROOF
  <1> DEFINE Goal == SelectionKey'
  <1>0. ASSUME DOMAIN ui' = DOMAIN ui, ui'.picked = ui.picked, ui'.minted = ui.minted,
               ui'.spoiled = ui.spoiled, ui'.srv = ui.srv,
               (ui'.file = ui.file /\ ui'.key = ui.key) \/ ui'.file = <<>>
        PROVE  Goal
    BY <1>0 DEF SelectionKey
  <1>1. ASSUME NEW cost, NEW good, Upload!handleFileSelect(cost, good)  PROVE Goal
    <2>1. CASE good
      <3> DEFINE file == [id |-> ui.picked + 1, cost |-> cost]
      <3>1. ui' = [ui EXCEPT !.stats = 0, !.picked = @ + 1, !.minted = @ + 1,
                             !.key = ui.minted + 1, !.file = <<file>>]
        BY <1>1, <2>1 DEF Upload!handleFileSelect
      <3> HIDE DEF file
      <3>2. /\ DOMAIN ui' = DOMAIN ui
            /\ ui'.picked = ui.picked + 1
            /\ ui'.minted = ui.minted + 1
            /\ ui'.key = ui.minted + 1 /\ ui'.file[1] = file /\ ui'.srv = ui.srv
            /\ ui'.spoiled = ui.spoiled
        BY <3>1 DEF SelectionKey
      <3>3. file.id = ui.picked + 1
        BY DEF file
      <3>4. QED
        BY <3>2, <3>3 DEF SelectionKey
    <2>2. CASE ~good
      <3>1. ui' = [ui EXCEPT !.stats = 0, !.key = 0, !.spoiled = @ \/ ui.file # <<>>]
        BY <1>1, <2>2 DEF Upload!handleFileSelect
      <3>2. /\ DOMAIN ui' = DOMAIN ui /\ ui'.picked = ui.picked /\ ui'.minted = ui.minted
            /\ ui'.file = ui.file /\ ui'.srv = ui.srv
            /\ ui'.spoiled = (ui.spoiled \/ ui.file # <<>>)
        BY <3>1 DEF SelectionKey
      <3>3. QED
        BY <3>2 DEF SelectionKey
    <2>3. QED
      BY <2>1, <2>2
  <1>2. CASE Upload!ClearFile
    <2>1. ui' = [ui EXCEPT !.file = <<>>, !.key = 0]
      BY <1>2 DEF Upload!ClearFile
    <2>2. QED
      BY <1>0, <2>1 DEF SelectionKey
  <1>3. CASE Upload!handleUpload
    <2> DEFINE file == ui.file[1]
    <2> DEFINE key == IF ui.key = 0 THEN ui.minted + 1 ELSE ui.key
    <2> DEFINE new == [file |-> file.id, key |-> key]
    <2>1. ui.file # <<>>
      BY <1>3 DEF Upload!handleUpload, Upload!UploadButton
    <2>2. PICK made :
            ui' = [ui EXCEPT !.busy = @ \cup {"upload"}, !.key = key,
                             !.minted = IF ui.key = 0 THEN key ELSE @,
                             !.srv = IF made = "created"
                                     THEN [credits |-> @.credits - file.cost,
                                           jobs |-> @.jobs \cup {new}]
                                     ELSE @]
      BY <1>3 DEF Upload!handleUpload, Upload!Mint
    <2>3. new.file = file.id /\ new.key = key
      OBVIOUS
    <2> HIDE DEF new, file, key
    <2>4. /\ DOMAIN ui' = DOMAIN ui /\ ui'.picked = ui.picked /\ ui'.file = ui.file
          /\ ui'.minted = IF ui.key = 0 THEN key ELSE ui.minted
          /\ ui'.key = key /\ ui'.spoiled = ui.spoiled
          /\ \/ ui'.srv = ui.srv
             \/ DOMAIN ui'.srv = DOMAIN ui.srv /\ ui'.srv.jobs = ui.srv.jobs \cup {new}
      BY <2>2 DEF SelectionKey
    <2>5. key # 0 /\ (~ui.spoiled => key = ui.key) /\ (ui.key = 0 => key \in Nat)
      BY <2>1 DEF SelectionKey, key
    <2>6. \A a \in ui'.srv.jobs : a \in ui.srv.jobs \/ a = new
      BY <2>4
    <2>7. \A a \in ui'.srv.jobs : a.file \in Nat /\ a.file <= ui.picked
      BY <2>1, <2>3, <2>6 DEF SelectionKey, file
    <2>8. ~ui.spoiled => \A a \in ui'.srv.jobs : a.file = ui.file[1].id => a.key = key
      BY <2>1, <2>3, <2>5, <2>6 DEF SelectionKey
    <2>9. ~ui.spoiled => \A a, b \in ui'.srv.jobs : a.file = b.file => a.key = b.key
      BY <2>1, <2>3, <2>6, <2>8 DEF SelectionKey, file
    <2>10. QED
      BY <2>1, <2>4, <2>5, <2>7, <2>8, <2>9 DEF SelectionKey
  <1>4. CASE Upload!StatsPushed
    BY <1>0, <1>4 DEF Upload!StatsPushed, Upload!SetStats
  <1>5. ASSUME NEW r \in net, NEW out, Upload!Uploaded(r, out)  PROVE Goal
    <2> DEFINE u == Upload!Freed("upload")
    <2> DEFINE done == [u EXCEPT !.stats = r.arg.key, !.key = 0, !.file = <<>>]
    <2>1. ui' = u \/ ui' = done \/ ui' = Upload!Loading(Upload!Charged(done, r.arg))
      BY <1>5 DEF Upload!Uploaded
    <2>2. /\ DOMAIN done = DOMAIN ui /\ done.picked = ui.picked /\ done.minted = ui.minted
          /\ done.spoiled = ui.spoiled /\ done.srv = ui.srv /\ done.file = <<>>
      BY DEF SelectionKey, Upload!Freed
    <2>3. CASE ui' = u
      BY <1>0, <2>3 DEF SelectionKey, Upload!Freed
    <2> HIDE DEF done
    <2>4. CASE ui' = done
      BY <1>0, <2>2, <2>4
    <2>5. CASE ui' = Upload!Loading(Upload!Charged(done, r.arg))
      <3> DEFINE c == Upload!Charged(done, r.arg)
      <3>1. /\ DOMAIN c = DOMAIN ui /\ c.picked = ui.picked /\ c.minted = ui.minted
            /\ c.spoiled = ui.spoiled /\ c.srv = ui.srv /\ c.file = <<>>
        BY <2>2 DEF Upload!Charged, Upload!SetStats
      <3> HIDE DEF c
      <3>2. ui' = [c EXCEPT !.busy = @ \cup {"stats"}]
        BY <2>5 DEF c, Upload!Loading
      <3>3. QED
        BY <1>0, <3>1, <3>2
    <2>6. QED
      BY <2>1, <2>3, <2>4, <2>5
  <1>6. ASSUME NEW r \in net, NEW out, Upload!FetchedStats(r, out)  PROVE Goal
    BY <1>0, <1>6 DEF Upload!FetchedStats, Upload!SetStats, Upload!Freed
  <1>7. QED
    BY <1>1, <1>2, <1>3, <1>4, <1>5, <1>6
       DEF UploadStep, Upload!Click, Upload!Answer, Upload!SelectFile

LEMMA FirstRequest ==
  \A calls, t : Adds(calls, {}, t) => Sent(calls) = {t} /\ \A u : Lone(calls, u)
PROOF BY Empty DEF Adds

LEMMA UsersOpens ==
  ASSUME Users!Init
  PROVE  /\ ui.page = "users" /\ Settled(UsersFlags, {})
         /\ "contact" \notin Sent(net)
PROOF
  <1>1. ui.page = "users" /\ ui.busy = {} /\ {"page", "busy"} \subseteq DOMAIN ui
    BY DEF Users!Init
  <1>2. \E arg : net = Users!Ask({}, "users", arg)
    BY DEF Users!Init
  <1>3. Sent(net) = {"users"} /\ \A u : Lone(net, u)
    BY <1>2, UsersAsks, FirstRequest
  <1>9. QED
    BY <1>1, <1>3 DEF Settled, Mounted, Spinning, Alone, UsersFlags

LEMMA ServerOpens ==
  ASSUME Server!Init
  PROVE  /\ ui.page = "server" /\ Settled(ServerFlags, ServerSingle)
         /\ "contact" \notin Sent(net) /\ KeyOrder
PROOF
  <1>1. ui.page = "server" /\ ui.busy = {} /\ {"page", "busy"} \subseteq DOMAIN ui
    BY DEF Server!Init
  <1>2. \E arg : net = Server!Ask({}, "server/list", arg)
    BY DEF Server!Init
  <1>3. Sent(net) = {"server/list"} /\ \A u : Lone(net, u)
    BY <1>2, ServerAsks, FirstRequest
  <1>4. KeyOrder
    <2>1. /\ {"key", "acked", "srvKey"} \subseteq DOMAIN ui
          /\ ui.key = 0 /\ ui.acked = 0 /\ ui.srvKey = 1
      BY DEF Server!Init
    <2>2. \A r \in net : r.to # "key"
      BY <1>3 DEF Sent
    <2>3. QED
      BY <2>1, <2>2 DEF KeyOrder
  <1>9. QED
    BY <1>1, <1>3, <1>4 DEF Settled, Mounted, Spinning, Alone, ServerFlags, ServerSingle

LEMMA JobControlOpens ==
  ASSUME JobControl!Init
  PROVE  /\ ui.page = "jobcontrol" /\ Settled(JobControlFlags, JobControlSingle)
         /\ "contact" \notin Sent(net)
PROOF
  BY JobControlAsks, Empty DEF JobControl!Init, Adds, Settled, Mounted,
    Spinning, Alone, JobControlFlags, JobControlSingle

LEMMA ApiKeysOpens ==
  ASSUME ApiKeys!Init
  PROVE  /\ ui.page = "apikeys" /\ Settled(ApiKeysFlags, ApiKeysSingle)
         /\ "contact" \notin Sent(net) /\ OneKeyDialog
PROOF
  BY ApiKeysAsks, Empty DEF ApiKeys!Init, ApiKeys!KeyIds, Adds, Settled,
    Mounted, Spinning, Alone, ApiKeysFlags, ApiKeysSingle, OneKeyDialog

LEMMA CacheOpens ==
  ASSUME Cache!Init
  PROVE  /\ ui.page = "cache" /\ Settled(CacheFlags, CacheSingle)
         /\ "contact" \notin Sent(net) /\ OnePurge
PROOF
  BY CacheAsks, Empty DEF Cache!Init, Cache!None, Adds, Settled, Mounted,
    Spinning, Alone, CacheFlags, CacheSingle, OnePurge

LEMMA LogsOpens ==
  ASSUME Logs!Init
  PROVE  /\ ui.page = "logs" /\ Settled(LogsFlags, LogsSingle)
         /\ "contact" \notin Sent(net)
PROOF
  <1> DEFINE Busy == ui.busy = {} \/ (ui.busy = {"logs"} /\ Sent(net) = {"logs"})
  <1>1. PICK n \in 0 .. MaxLog :
          LET empty == [page |-> "logs", busy |-> {}, rows |-> <<>>, more |-> TRUE,
                        cursor |-> 0, initial |-> FALSE, level |-> Logs!None,
                        dialog |-> FALSE, typed |-> FALSE, last |-> n, pushed |-> n,
                        cleared |-> 0]
              newest == [i \in 1 .. n |-> n + 1 - i]
              list == [rows |-> Logs!First(PAGE_SIZE, newest), more |-> n > PAGE_SIZE]
          IN IF n > 0
             THEN ui = Logs!setInitial(empty, list) /\ net = {}
             ELSE /\ ui = [Logs!setInitial(empty, list) EXCEPT !.busy = {"logs"}, !.initial = TRUE]
                  /\ net = Logs!Ask({}, "logs", [mode |-> "reset", list |-> list])
    BY DEF Logs!Init
  <1>2. CASE n > 0
    BY <1>1, <1>2, Empty
       DEF Logs!setInitial, Settled, Mounted, Spinning, Alone, LogsFlags, LogsSingle
  <1>3. CASE ~(n > 0)
    <2>1. ui.page = "logs" /\ ui.busy = {"logs"} /\ {"page", "busy"} \subseteq DOMAIN ui
      BY <1>1, <1>3 DEF Logs!setInitial
    <2>2. \E arg : net = Logs!Ask({}, "logs", arg)
      BY <1>1, <1>3
    <2>3. Sent(net) = {"logs"} /\ \A u : Lone(net, u)
      BY <2>2, LogsAsks, FirstRequest
    <2>4. QED
      BY <2>1, <2>3 DEF Settled, Mounted, Spinning, Alone, LogsFlags, LogsSingle
  <1>4. QED
    BY <1>2, <1>3

LEMMA LicenseOpens ==
  ASSUME License!Init
  PROVE  /\ ui.page = "license" /\ Settled(LicenseFlags, LicenseSingle)
         /\ "contact" \notin Sent(net)
PROOF
  BY LicenseAsks, Empty DEF License!Init, License!None, Adds, Settled,
    Mounted, Spinning, Alone, LicenseFlags, LicenseSingle

LEMMA BrandOpens ==
  ASSUME Brand!Init
  PROVE  /\ ui.page = "brand" /\ Settled(BrandFlags, {})
         /\ "contact" \notin Sent(net)
PROOF
  BY BrandAsks, Empty DEF Brand!Init, Brand!Lists, Brand!NoScripts,
    Brand!None, Adds, Settled, Mounted, Spinning, Alone, BrandFlags

LEMMA PackageOpens ==
  ASSUME Package!Init
  PROVE  /\ ui.page = "packages" /\ Settled(PackageFlags, PackageSingle)
         /\ "contact" \notin Sent(net) /\ PackageBadges
PROOF
  <1>1. ui.page = "packages" /\ ui.busy = {} /\ {"page", "busy"} \subseteq DOMAIN ui
    BY DEF Package!Init
  <1>2. net = {}
    BY DEF Package!Init
  <1>3. Sent(net) = {} /\ \A u : Lone(net, u)
    BY <1>2, Empty
  <1>4. PackageBadges
    BY DEF Package!Init, PackageBadges, OnePopular
  <1>9. QED
    BY <1>1, <1>3, <1>4 DEF Settled, Mounted, Spinning, Alone, PackageFlags, PackageSingle

LEMMA SmtpOpens ==
  ASSUME Smtp!Init
  PROVE  /\ ui.page = "smtp" /\ Settled(SmtpFlags, {})
         /\ "contact" \notin Sent(net)
PROOF
  BY SmtpAsks, Empty DEF Smtp!Init, Adds, Settled, Mounted, Spinning, Alone,
    SmtpFlags

LEMMA ProfileOpens ==
  ASSUME Profile!Init
  PROVE  /\ ui.page = "profile" /\ Settled(ProfileFlags, ProfileSingle)
         /\ "contact" \notin Sent(net)
PROOF
  <1>1. ui.page = "profile" /\ ui.busy = {"refresh"} /\ {"page", "busy"} \subseteq DOMAIN ui
    <2>1. PICK n, u, held, set :
            ui = [page |-> "profile", busy |-> {"refresh"}, srv |-> held, name |-> n,
                  nameForm |-> n, sidebar |-> n, url |-> u, urlForm |-> u,
                  hasSecret |-> set, revealed |-> 0]
      BY DEF Profile!Init
    <2>2. QED
      BY <2>1
  <1>2. \E arg : net = Profile!Ask({}, "refresh", arg)
    BY DEF Profile!Init
  <1>3. Sent(net) = {"refresh"} /\ \A u : Lone(net, u)
    BY <1>2, ProfileAsks, FirstRequest
  <1>9. QED
    BY <1>1, <1>3 DEF Settled, Mounted, Spinning, Alone, ProfileFlags, ProfileSingle

LEMMA DomainOpens ==
  ASSUME Domain!Init
  PROVE  /\ ui.page = "domains" /\ Settled(DomainFlags, DomainSingle)
         /\ "contact" \notin Sent(net)
PROOF
  <1>1. ui.page = "domains" /\ ui.busy = {"domains"} /\ {"page", "busy"} \subseteq DOMAIN ui
    <2>1. PICK list \in Domain!Lists :
            ui = [page |-> "domains", busy |-> {"domains"}, srv |-> list, rows |-> list,
                  of |-> Domain!Query("", 1), search |-> "", current |-> 1, due |-> FALSE,
                  acting |-> Domain!None]
      BY DEF Domain!Init
    <2>2. QED
      BY <2>1
  <1>2. \E arg : net = Domain!Ask({}, "domains", arg)
    BY DEF Domain!Init
  <1>3. Sent(net) = {"domains"} /\ \A u : Lone(net, u)
    BY <1>2, DomainAsks, FirstRequest
  <1>9. QED
    BY <1>1, <1>3 DEF Settled, Mounted, Spinning, Alone, DomainFlags, DomainSingle

LEMMA JobListOpens ==
  ASSUME JobList!Init
  PROVE  /\ ui.page = "jobs" /\ Settled(JobListFlags, {})
         /\ "contact" \notin Sent(net) /\ ActingJobs
PROOF
  BY JobListAsks, Empty DEF JobList!Init, JobList!rows, JobList!OfPage,
    JobList!total, JobList!StoreEmpty, JobList!Newer, Adds, Settled, Mounted,
    Spinning, Alone, JobListFlags, ActingJobs

LEMMA UploadOpens ==
  ASSUME Upload!Init
  PROVE  /\ ui.page = "upload" /\ Settled(UploadFlags, UploadSingle)
         /\ "contact" \notin Sent(net) /\ SelectionKey
PROOF
  BY UploadAsks, Empty DEF Upload!Init, Adds, Settled, Mounted, Spinning,
    Alone, UploadFlags, UploadSingle, SelectionKey

LEMMA VerifyOpens ==
  ASSUME Verify!Init
  PROVE  /\ ui.page = "verify" /\ Settled(VerifyFlags, VerifySingle)
         /\ "contact" \notin Sent(net)
PROOF
  <1>1. ui.page = "verify" /\ ui.busy = {} /\ {"page", "busy"} \subseteq DOMAIN ui
    <2>1. PICK c \in Credits, seen \in {<<>>} \cup {<<n>> : n \in Credits}, m \in BOOLEAN :
            ui = [page |-> "verify", busy |-> {}, maintenance |-> m, shown |-> seen,
                  balance |-> c, srv |-> c, email |-> "", failed |-> FALSE,
                  result |-> Verify!None]
      BY DEF Verify!Init
    <2>2. QED
      BY <2>1
  <1>2. net = {}
    BY DEF Verify!Init
  <1>3. Sent(net) = {} /\ \A u : Lone(net, u)
    BY <1>2, Empty
  <1>9. QED
    BY <1>1, <1>3 DEF Settled, Mounted, Spinning, Alone, VerifyFlags, VerifySingle

LEMMA PaymentOpens ==
  ASSUME Payment!Init
  PROVE  /\ ui.page = "payment" /\ Settled(PaymentFlags, PaymentSingle)
         /\ "contact" \notin Sent(net)
PROOF
  BY PaymentAsks, Empty DEF Payment!Init, Payment!Gateways,
    Payment!formFromGateway, Adds, Settled, Mounted, Spinning, Alone,
    PaymentFlags, PaymentSingle

LEMMA CreditOpens ==
  ASSUME Credit!Init
  PROVE  /\ ui.page = "credits" /\ Settled(CreditFlags, CreditSingle)
         /\ "contact" \notin Sent(net)
PROOF
  BY CreditAsks, Empty DEF Credit!Init, Credit!Stored, Credit!Returns,
    Credit!Seeded, Credit!fetchPackages, Credit!setPackages, Credit!None,
    Adds, Settled, Mounted, Spinning, Alone, CreditFlags, CreditSingle

LEMMA HistoryOpens ==
  ASSUME History!Init
  PROVE  /\ ui.page = "history" /\ Settled(HistoryFlags, {})
         /\ "contact" \notin Sent(net)
PROOF
  BY HistoryAsks, Empty DEF History!Init, Adds, Settled, Mounted, Spinning,
    Alone, HistoryFlags

LEMMA TransferOpens ==
  ASSUME Transfer!Init
  PROVE  /\ ui.page = "transfer" /\ Settled(TransferFlags, TransferSingle)
         /\ "contact" \notin Sent(net)
PROOF
  BY TransferAsks, Empty DEF Transfer!Init, Adds, Settled, Mounted, Spinning,
    Alone, TransferFlags, TransferSingle

LEMMA SecurityOpens ==
  ASSUME Security!Init
  PROVE  /\ ui.page = "security" /\ Settled(SecurityFlags, {})
         /\ "contact" \notin Sent(net)
PROOF
  <1>1. ui.page = "security" /\ ui.busy = {} /\ {"page", "busy"} \subseteq DOMAIN ui
    <2>1. PICK srv, seen :
            ui = Security!Fresh(srv) \/ ui = Security!hydrate(Security!Fresh(srv), seen)
      BY DEF Security!Init
    <2>2. /\ Security!Fresh(srv).page = "security" /\ Security!Fresh(srv).busy = {}
          /\ {"page", "busy"} \subseteq DOMAIN Security!Fresh(srv)
      BY DEF Security!Fresh
    <2>3. QED
      BY <2>1, <2>2 DEF Security!hydrate
  <1>2. net = {} \/ \E arg : net = Security!Ask({}, "dashboard", arg)
    BY DEF Security!Init, Security!initialize
  <1>3. Sent(net) \subseteq {"dashboard"} /\ \A u : Lone(net, u)
    BY <1>2, SecurityAsks, FirstRequest, Empty
  <1>4. QED
    BY <1>1, <1>3 DEF Settled, Mounted, Spinning, Alone

LEMMA JobDetailsOpens ==
  ASSUME JobDetails!Init
  PROVE  /\ ui.page = "details" /\ Settled(JobDetailsFlags, JobDetailsSingle)
         /\ "contact" \notin Sent(net) /\ OneControl
PROOF
  BY JobDetailsAsks, Empty DEF JobDetails!Init, JobDetails!JobStatus,
    JobDetails!Details, JobDetails!Mine, Adds, Settled, Mounted, Spinning,
    Alone, JobDetailsFlags, JobDetailsSingle, OneControl

LEMMA HomeOpens ==
  ASSUME Home!Init
  PROVE  /\ ui.page = "home" /\ Waiting("verify")
         /\ Sent(net) \subseteq {"status", "verify", "config"}
PROOF
  <1>1. /\ ui.page = "home" /\ ui.busy = {} /\ {"page", "busy", "token"} \subseteq DOMAIN ui
    BY DEF Home!Init
  <1>2. PICK arg : net = Home!Ask({}, "status", arg)
    BY DEF Home!Init
  <1>3. Sent(net) = {"status"} /\ Apart(net, Form("verify"))
    BY <1>2, HomeAsks, Empty DEF AddsTo
  <1>4. QED
    BY <1>1, <1>3 DEF Waiting, Form

LEMMA ContactOpens ==
  ASSUME Contact!Init
  PROVE  /\ ui.page = "contact" /\ Waiting("contact")
         /\ Sent(net) \subseteq {"settings", "contact", "config"}
PROOF
  <1>1. /\ ui.page = "contact" /\ ui.busy = {} /\ {"page", "busy", "token"} \subseteq DOMAIN ui
    BY DEF Contact!Init
  <1>2. net = {} \/ \E arg : net = Contact!Ask({}, "settings", arg)
    BY DEF Contact!Init
  <1>3. Sent(net) \subseteq {"settings"} /\ Apart(net, Form("contact"))
    <2>1. CASE net = {}
      BY <2>1, Empty DEF Apart
    <2>2. ASSUME NEW arg, net = Contact!Ask({}, "settings", arg)
          PROVE  Sent(net) \subseteq {"settings"} /\ Apart(net, Form("contact"))
      BY <2>2, ContactAsks, Empty DEF AddsTo
    <2>3. QED
      BY <1>2, <2>1, <2>2
  <1>4. QED
    BY <1>1, <1>3 DEF Waiting, Form

LEMMA AccountOpens == ASSUME Account!Init  PROVE ui.page = "account" /\ HonestPage
PROOF
  <1>1. /\ ui.page = "account" /\ ui.busy = {} /\ ui.at = "login" /\ ui.done = FALSE
        /\ {"page", "busy", "at", "done", "srv"} \subseteq DOMAIN ui
        /\ {"account", "changes"} \subseteq DOMAIN ui.srv /\ ui.srv.changes = 0
    BY DEF Account!Init
  <1>2. net = {}
    BY DEF Account!Init
  <1>3. QED
    BY <1>1, <1>2 DEF HonestPage, Account!Route

-----------------------------------------------------------------------------
(* The rows of a log.                                                      *)

\* Entries in a row, none of them twice; and no more than n of them.
NoRepeat(rows) ==
  /\ rows \in Seq(Nat)
  /\ \A i, j \in 1 .. Len(rows) : rows[i] = rows[j] => i = j
Log(n, rows) == NoRepeat(rows) /\ Len(rows) <= n

LEMMA NotBelow ==
  ASSUME NEW j \in Nat, NEW k \in Nat, ~(j < k)
  PROVE  k <= j
PROOF
  OBVIOUS

\* Proofs by the smallest counterexample: what the recursive function of Among
\* computes is shown for each of its arguments so, and not by induction.
LEMMA LeastNumber ==
  ASSUME NEW C \in SUBSET Nat, C # {}
  PROVE  \E k \in C : \A j \in C : k <= j
PROOF
  <1>1. PICK k \in C : \A j \in C : ~(<<j, k>> \in OpToRel(<, Nat))
    BY NatLessThanWellFounded, WFMin
  <1>2. ASSUME NEW j \in C PROVE k <= j
    <2>1. j \in Nat /\ k \in Nat
      BY <1>1
    <2>2. j < k => <<j, k>> \in OpToRel(<, Nat)
      BY <2>1 DEF OpToRel
    <2>3. ~(j < k)
      BY <1>1, <1>2, <2>2
    <2>4. QED
      BY <2>1, <2>3, NotBelow
  <1>3. QED
    BY <1>2

\* The newest entry first; the first n of a log.
LEMMA CountingDown ==
  ASSUME NEW n \in Nat
  PROVE  NoRepeat([i \in 1 .. n |-> n + 1 - i])
PROOF
  <1> DEFINE rows == [i \in 1 .. n |-> n + 1 - i]
  <1>1. rows \in Seq(Nat) /\ Len(rows) = n
    OBVIOUS
  <1>2. QED
    BY <1>1 DEF NoRepeat

LEMMA FirstOfLog ==
  ASSUME NEW rows, NoRepeat(rows), NEW n \in Nat
  PROVE  Log(n, SubSeq(rows, 1, IF n < Len(rows) THEN n ELSE Len(rows)))
PROOF
  <1> DEFINE m == IF n < Len(rows) THEN n ELSE Len(rows)
             some == SubSeq(rows, 1, m)
  <1>1. m \in Nat /\ m <= n /\ m <= Len(rows) /\ rows \in Seq(Nat)
    BY DEF NoRepeat
  <1> HIDE DEF m
  <1>2. /\ some \in Seq(Nat) /\ Len(some) = m
        /\ \A i \in 1 .. m : some[i] = rows[i]
    BY <1>1
  <1> HIDE DEF some
  <1>3. \A i, j \in 1 .. m : some[i] = some[j] => i = j
    <2>1. 1 .. m \subseteq 1 .. Len(rows)
      BY <1>1
    <2>2. QED
      BY <1>2, <2>1 DEF NoRepeat
  <1>4. NoRepeat(some) /\ Len(some) <= n
    BY <1>1, <1>2, <1>3 DEF NoRepeat
  <1>5. QED
    BY <1>4 DEF Log, some, m

\* Two logs that share no entry, put together.
LEMMA JoinedLogs ==
  ASSUME NEW rows, NoRepeat(rows), NEW more, NoRepeat(more),
         \A i \in 1 .. Len(rows), j \in 1 .. Len(more) : rows[i] # more[j]
  PROVE  NoRepeat(rows \o more)
PROOF
  <1> DEFINE all == rows \o more
  <1>1. rows \in Seq(Nat) /\ more \in Seq(Nat)
    BY DEF NoRepeat
  <1>2. /\ all \in Seq(Nat) /\ Len(all) = Len(rows) + Len(more)
        /\ \A i \in 1 .. Len(all) :
             all[i] = IF i <= Len(rows) THEN rows[i] ELSE more[i - Len(rows)]
    BY <1>1
  <1> HIDE DEF all
  <1>3. ASSUME NEW i \in 1 .. Len(all), NEW j \in 1 .. Len(all), all[i] = all[j]
        PROVE  i = j
    <2>1. Len(rows) \in Nat /\ Len(more) \in Nat
      BY <1>1
    <2>2. CASE i <= Len(rows) /\ j <= Len(rows)
      <3>1. i \in 1 .. Len(rows) /\ j \in 1 .. Len(rows)
        BY <2>1, <2>2
      <3>2. rows[i] = rows[j]
        BY <1>2, <1>3, <2>2
      <3>3. QED
        BY <3>1, <3>2 DEF NoRepeat
    <2>3. CASE ~(i <= Len(rows)) /\ ~(j <= Len(rows))
      <3>1. i - Len(rows) \in 1 .. Len(more) /\ j - Len(rows) \in 1 .. Len(more)
        BY <1>2, <2>1, <2>3
      <3>2. more[i - Len(rows)] = more[j - Len(rows)]
        BY <1>2, <1>3, <2>3
      <3>3. i - Len(rows) = j - Len(rows)
        BY <3>1, <3>2 DEF NoRepeat
      <3>4. QED
        BY <2>1, <3>3
    <2>4. CASE i <= Len(rows) /\ ~(j <= Len(rows))
      <3>1. i \in 1 .. Len(rows) /\ j - Len(rows) \in 1 .. Len(more)
        BY <1>2, <2>1, <2>4
      <3>2. QED
        BY <1>2, <1>3, <2>4, <3>1
    <2>5. CASE ~(i <= Len(rows)) /\ j <= Len(rows)
      <3>1. j \in 1 .. Len(rows) /\ i - Len(rows) \in 1 .. Len(more)
        BY <1>2, <2>1, <2>5
      <3>2. QED
        BY <1>2, <1>3, <2>5, <3>1
    <2>6. QED
      BY <2>2, <2>3, <2>4, <2>5
  <1>4. QED
    BY <1>2, <1>3 DEF NoRepeat, all

\* One more entry, in front or behind.
LEMMA OneInFront ==
  ASSUME NEW rows, NoRepeat(rows), NEW l \in Nat,
         l \notin {rows[i] : i \in 1 .. Len(rows)}
  PROVE  NoRepeat(<<l>> \o rows)
PROOF
  <1>1. NoRepeat(<<l>>)
    BY DEF NoRepeat
  <1>2. \A i \in 1 .. Len(<<l>>), j \in 1 .. Len(rows) : <<l>>[i] # rows[j]
    OBVIOUS
  <1>3. QED
    BY <1>1, <1>2, JoinedLogs

LEMMA OneBehind ==
  ASSUME NEW rows, NoRepeat(rows), NEW l \in Nat,
         \A i \in 1 .. Len(rows) : rows[i] # l
  PROVE  NoRepeat(Append(rows, l)) /\ Len(Append(rows, l)) = Len(rows) + 1
         /\ \A i \in 1 .. Len(rows) + 1 :
              Append(rows, l)[i] = IF i <= Len(rows) THEN rows[i] ELSE l
PROOF
  <1> DEFINE all == Append(rows, l)
  <1>1. rows \in Seq(Nat)
    BY DEF NoRepeat
  <1>2. /\ all \in Seq(Nat) /\ Len(all) = Len(rows) + 1
        /\ \A i \in 1 .. Len(rows) + 1 :
             all[i] = IF i <= Len(rows) THEN rows[i] ELSE l
    BY <1>1
  <1> HIDE DEF all
  <1>3. ASSUME NEW i \in 1 .. Len(all), NEW j \in 1 .. Len(all), all[i] = all[j]
        PROVE  i = j
    BY <1>1, <1>2, <1>3 DEF NoRepeat
  <1>4. QED
    BY <1>2, <1>3 DEF NoRepeat, all

\* What Among computes of the first n entries.
IsKept(g, rows, S, n) ==
  g = [i \in 0 .. n |->
         IF i = 0 THEN <<>>
         ELSE IF rows[i] \in S THEN Append(g[i - 1], rows[i]) ELSE g[i - 1]]

\* There is such a function for every list.
LEMMA KeptExists ==
  ASSUME NEW rows, NEW S, NEW n \in Nat
  PROVE  \E g : IsKept(g, rows, S, n)
PROOF
  <1> DEFINE Has(m) == \E g : IsKept(g, rows, S, m)
             C == {m \in Nat : ~Has(m)}
  <1> HIDE DEF Has
  <1>0. SUFFICES ASSUME C # {} PROVE FALSE
    <2>1. Has(n)
      BY <1>0
    <2>2. QED
      BY <2>1 DEF Has
  <1>1. PICK k \in C : \A j \in C : k <= j
    <2>1. C \in SUBSET Nat
      OBVIOUS
    <2> HIDE DEF C
    <2>2. QED
      BY <1>0, <2>1, LeastNumber
  <1>2. k \in Nat /\ ~Has(k)
    BY <1>1
  <1>3. k # 0
    <2>1. IsKept([i \in 0 .. 0 |-> <<>>], rows, S, 0)
      BY DEF IsKept
    <2>2. QED
      BY <1>2, <2>1 DEF Has
  <1>4. PICK f : IsKept(f, rows, S, k - 1)
    <2>1. k - 1 \in Nat /\ ~(k <= k - 1)
      BY <1>2, <1>3
    <2>2. k - 1 \notin C
      <3> HIDE DEF C
      <3>1. QED
        BY <1>1, <2>1
    <2>3. Has(k - 1)
      BY <2>1, <2>2
    <2>4. QED
      BY <2>3 DEF Has
  <1> DEFINE next(i, x) == IF rows[i] \in S THEN Append(x, rows[i]) ELSE x
             g == [i \in 0 .. k |-> IF i = k THEN next(k, f[k - 1]) ELSE f[i]]
  <1>5. /\ f[0] = <<>>
        /\ \A i \in 1 .. k - 1 : f[i] = next(i, f[i - 1])
    <2> DEFINE value(i) == IF i = 0 THEN <<>> ELSE next(i, f[i - 1])
    <2>1. k - 1 \in Nat
      BY <1>2, <1>3
    <2>2. f = [i \in 0 .. k - 1 |-> value(i)]
      BY <1>4 DEF IsKept
    <2> HIDE DEF next, value
    <2>3. \A i \in 0 .. k - 1 : f[i] = value(i)
      BY <2>2, Zenon
    <2>4. 0 \in 0 .. k - 1 /\ \A i \in 1 .. k - 1 : i \in 0 .. k - 1 /\ i # 0
      BY <2>1
    <2>5. QED
      BY <2>3, <2>4 DEF value
  <1> HIDE DEF next
  <1>6. /\ g[0] = <<>> /\ g[k] = next(k, f[k - 1])
        /\ \A i \in 0 .. k - 1 : g[i] = f[i]
    BY <1>2, <1>3, <1>5
  <1>7. \A i \in 0 .. k : g[i] = IF i = 0 THEN <<>> ELSE next(i, g[i - 1])
    BY <1>2, <1>3, <1>5, <1>6
  <1>8. g = [i \in 0 .. k |-> g[i]]
    OBVIOUS
  <1> HIDE DEF g
  <1>9. g = [i \in 0 .. k |-> IF i = 0 THEN <<>> ELSE next(i, g[i - 1])]
    BY <1>7, <1>8
  <1>10. IsKept(g, rows, S, k)
    BY <1>9 DEF IsKept, next
  <1>11. QED
    BY <1>2, <1>10 DEF Has

\* Entries of the first n that are in the set.
Selected(x, rows, S, n) ==
  \A j \in 1 .. Len(x) : \E k \in 1 .. n : x[j] = rows[k] /\ rows[k] \in S

LEMMA KeptOnce ==
  ASSUME NEW rows, NoRepeat(rows), NEW S, NEW n \in Nat, n <= Len(rows),
         NEW g, IsKept(g, rows, S, n)
  PROVE  NoRepeat(g[n]) /\ Selected(g[n], rows, S, n)
PROOF
  <1> DEFINE Good(m) == NoRepeat(g[m]) /\ Selected(g[m], rows, S, m)
             C == {m \in 0 .. n : ~Good(m)}
  <1> SUFFICES ASSUME C # {} PROVE FALSE
    <2>1. n \in 0 .. n
      OBVIOUS
    <2>2. QED
      BY <2>1
  <1>1. PICK m \in C : \A j \in C : m <= j
    <2>1. C \in SUBSET Nat
      OBVIOUS
    <2> HIDE DEF C
    <2>2. QED
      BY <2>1, LeastNumber
  <1>2. m \in 0 .. n /\ ~Good(m)
    BY <1>1
  <1>3. CASE m = 0
    <2>1. g[m] = <<>>
      BY <1>3 DEF IsKept
    <2>2. QED
      BY <1>2, <2>1 DEF NoRepeat, Selected
  <1>4. CASE m # 0
    <2> DEFINE x == g[m - 1]
               l == rows[m]
    <2>1. m - 1 \in 0 .. n /\ m - 1 \notin C
      BY <1>1, <1>2, <1>4
    <2>2. NoRepeat(x) /\ Selected(x, rows, S, m - 1)
      BY <2>1
    <2>3. g[m] = IF l \in S THEN Append(x, l) ELSE x
      BY <1>2, <1>4 DEF IsKept
    <2>4. m \in 1 .. Len(rows) /\ l \in Nat
      BY <1>2, <1>4 DEF NoRepeat
    <2> HIDE DEF x, l
    <2>5. CASE l \notin S
      BY <1>2, <1>4, <2>2, <2>3, <2>5 DEF Selected
    <2>6. CASE l \in S
      <3>1. \A j \in 1 .. Len(x) : x[j] # l
        <4>1. SUFFICES ASSUME NEW j \in 1 .. Len(x), NEW k \in 1 .. m - 1,
                              rows[k] = l
                       PROVE  FALSE
          BY <2>2 DEF Selected
        <4>2. k \in 1 .. Len(rows) /\ k # m
          BY <1>2, <2>4, <4>1
        <4>3. QED
          BY <2>4, <4>1, <4>2 DEF NoRepeat, l
      <3>2. NoRepeat(g[m])
        BY <2>2, <2>3, <2>4, <2>6, <3>1, OneBehind
      <3>3. /\ Len(g[m]) = Len(x) + 1
            /\ \A j \in 1 .. Len(x) + 1 :
                 g[m][j] = IF j <= Len(x) THEN x[j] ELSE l
        BY <2>2, <2>3, <2>4, <2>6, <3>1, OneBehind
      <3>4. Len(x) \in Nat
        BY <2>2 DEF NoRepeat
      <3>5. ASSUME NEW j \in 1 .. Len(g[m])
            PROVE  \E k \in 1 .. m : g[m][j] = rows[k] /\ rows[k] \in S
        <4>1. CASE j <= Len(x)
          <5>1. PICK k \in 1 .. m - 1 : x[j] = rows[k] /\ rows[k] \in S
            BY <2>2, <4>1, <3>4 DEF Selected
          <5>2. k \in 1 .. m
            BY <1>2
          <5>3. g[m][j] = x[j]
            BY <3>3, <3>4, <4>1
          <5>4. QED
            BY <5>1, <5>2, <5>3
        <4>2. CASE ~(j <= Len(x))
          <5>1. g[m][j] = l /\ m \in 1 .. m
            BY <1>2, <1>4, <3>3, <3>4, <4>2
          <5>2. QED
            BY <2>6, <5>1 DEF l
        <4>3. QED
          BY <4>1, <4>2
      <3>6. Selected(g[m], rows, S, m)
        BY <3>5 DEF Selected
      <3>7. QED
        BY <1>2, <3>2, <3>6
    <2>7. QED
      BY <2>5, <2>6
  <1>5. QED
    BY <1>3, <1>4

\* Sorting entries out of a log leaves a log, of entries that were to stay.
LEMMA AmongOnce ==
  ASSUME NEW rows, NoRepeat(rows), NEW S
  PROVE  /\ NoRepeat(Logs!Among(rows, S))
         /\ \A j \in 1 .. Len(Logs!Among(rows, S)) : Logs!Among(rows, S)[j] \in S
PROOF
  <1> DEFINE kept == CHOOSE g : IsKept(g, rows, S, Len(rows))
  <1>1. Logs!Among(rows, S) = kept[Len(rows)]
    BY DEF Logs!Among, IsKept
  <1>2. Len(rows) \in Nat
    BY DEF NoRepeat
  <1>3. IsKept(kept, rows, S, Len(rows))
    BY <1>2, KeptExists
  <1> HIDE DEF kept
  <1>4. Len(rows) <= Len(rows)
    BY <1>2
  <1> DEFINE n == Len(rows)
  <1> HIDE DEF n
  <1>5. n \in Nat /\ n <= Len(rows) /\ IsKept(kept, rows, S, n)
    BY <1>2, <1>3, <1>4 DEF n
  <1>6. NoRepeat(kept[n]) /\ Selected(kept[n], rows, S, n)
    BY <1>5, KeptOnce
  <1>7. Logs!Among(rows, S) = kept[n]
    BY <1>1 DEF n
  <1>8. QED
    BY <1>6, <1>7 DEF Selected

\* The rows of the system log, and those an answer brings.
LogPage(u) ==
  /\ {"rows", "last", "pushed"} \subseteq DOMAIN u
  /\ u.last \in Nat /\ u.pushed \in Nat /\ Log(MAX_BUFFER, u.rows)
LogAnswers(calls) == \A r \in calls : r.to = "logs" => NoRepeat(r.arg.list.rows)
LogsRows == LogPage(ui) /\ LogAnswers(net)

LEMMA LogsAsked ==
  \A c, t, a : \A r \in Logs!Ask(c, t, a) : r \in c \/ (r.to = t /\ r.arg = a)
PROOF
  BY DEF Logs!Ask

\* What is cut to the buffer or to a page is a log that fits.
LEMMA FirstLogs ==
  ASSUME NEW rows, NoRepeat(rows)
  PROVE  /\ Log(MAX_BUFFER, Logs!First(MAX_BUFFER, rows))
         /\ NoRepeat(Logs!First(PAGE_SIZE, rows))
PROOF
  <1>1. MAX_BUFFER \in Nat /\ PAGE_SIZE \in Nat
    BY LogsAssumption
  <1>2. QED
    BY <1>1, FirstOfLog DEF Logs!First, Log

\* The server lists every entry once, from the newest to the oldest.
LEMMA LogsLists ==
  ASSUME NEW level, NEW before, ui.last \in Nat
  PROVE  NoRepeat(Logs!List(level, before).rows)
PROOF
  <1> DEFINE newest == [i \in 1 .. ui.last |-> ui.last + 1 - i]
             S == {l \in ui.cleared + 1 .. ui.last : l < before /\ Logs!Matches(level, l)}
             all == Logs!Among(newest, S)
  <1>1. NoRepeat(newest)
    BY CountingDown
  <1>2. Logs!List(level, before).rows = Logs!First(PAGE_SIZE, all)
    BY DEF Logs!List
  <1> HIDE DEF newest, S
  <1>3. NoRepeat(all)
    BY <1>1, AmongOnce
  <1>4. QED
    BY <1>2, <1>3, FirstLogs

\* Each operation of the store leaves a log on the page.
LEMMA InitialLogs ==
  ASSUME NEW u, LogPage(u), NEW list, NoRepeat(list.rows)
  PROVE  LogPage(Logs!setInitial(u, list))
PROOF
  BY FirstLogs DEF LogPage, Logs!setInitial

LEMMA AppendedLogs ==
  ASSUME NEW u, LogPage(u), NEW list, NoRepeat(list.rows)
  PROVE  LogPage(Logs!appendLogs(u, list))
PROOF
  <1> DEFINE new == Logs!Among(list.rows, (1 .. MaxLog) \ Logs!Shown(u))
             all == u.rows \o new
  <1>1. /\ NoRepeat(new)
        /\ \A j \in 1 .. Len(new) : new[j] \in (1 .. MaxLog) \ Logs!Shown(u)
    BY AmongOnce
  <1>2. NoRepeat(u.rows)
    BY DEF LogPage, Log
  <1> HIDE DEF new
  <1>3. \A i \in 1 .. Len(u.rows), j \in 1 .. Len(new) : u.rows[i] # new[j]
    BY <1>1 DEF Logs!Shown
  <1>4. NoRepeat(all)
    BY <1>1, <1>2, <1>3, JoinedLogs
  <1>5. Log(MAX_BUFFER, Logs!First(MAX_BUFFER, all))
    BY <1>4, FirstLogs
  <1> DEFINE v == Logs!appendLogs(u, list)
  <1>6. /\ DOMAIN v = DOMAIN u /\ v.last = u.last /\ v.pushed = u.pushed
        /\ "rows" \in DOMAIN u => v.rows = Logs!First(MAX_BUFFER, all)
    BY DEF Logs!appendLogs, new
  <1> HIDE DEF v, all
  <1>7. QED
    BY <1>5, <1>6 DEF LogPage, v

LEMMA LiveLogs ==
  ASSUME NEW u, LogPage(u), NEW l \in Nat
  PROVE  LogPage(Logs!addLiveLog(u, l))
PROOF
  <1> DEFINE all == <<l>> \o u.rows
  <1>1. CASE l \in Logs!Shown(u)
    BY <1>1 DEF Logs!addLiveLog
  <1>2. CASE l \notin Logs!Shown(u)
    <2>1. NoRepeat(u.rows)
      BY DEF LogPage, Log
    <2>2. NoRepeat(all)
      BY <1>2, <2>1, OneInFront DEF Logs!Shown
    <2>3. Log(MAX_BUFFER, Logs!First(MAX_BUFFER, all))
      BY <2>2, FirstLogs
    <2>4. Logs!addLiveLog(u, l) = [u EXCEPT !.rows = Logs!First(MAX_BUFFER, all)]
      BY <1>2 DEF Logs!addLiveLog
    <2> HIDE DEF all
    <2>5. QED
      BY <2>3, <2>4 DEF LogPage
  <1>3. QED
    BY <1>1, <1>2

LEMMA NoLogs ==
  ASSUME NEW u, LogPage(u)
  PROVE  LogPage(Logs!clearLogs(u))
PROOF
  <1>1. Log(MAX_BUFFER, <<>>)
    BY LogsAssumption DEF Log, NoRepeat
  <1>2. QED
    BY <1>1 DEF LogPage, Logs!clearLogs

\* A page of the log is asked for: what it will bring is a log.
LEMMA LoadedLogs ==
  ASSUME NEW calls, LogAnswers(calls), NEW u, LogPage(u), ui.last \in Nat,
         NEW loading, NEW mode, NEW level,
         Logs!loadPage(calls, u, loading, mode, level)
  PROVE  LogPage(ui') /\ LogAnswers(net')
PROOF
  <1>1. CASE loading
    BY <1>1 DEF Logs!loadPage
  <1>2. CASE ~loading
    <2>1. PICK before :
            /\ net' = Logs!Ask(calls, "logs", [mode |-> mode, list |-> Logs!List(level, before)])
            /\ ui' = [u EXCEPT !.busy = u.busy \cup {"logs"}]
      BY <1>2 DEF Logs!loadPage
    <2>2. LogPage(ui')
      BY <2>1 DEF LogPage
    <2> DEFINE list == Logs!List(level, before)
    <2>3. NoRepeat(list.rows)
      BY LogsLists
    <2> HIDE DEF list
    <2>4. net' = Logs!Ask(calls, "logs", [mode |-> mode, list |-> list])
      BY <2>1 DEF list
    <2>5. ASSUME NEW r \in net', r.to = "logs"  PROVE NoRepeat(r.arg.list.rows)
      BY <2>3, <2>4, <2>5, LogsAsked DEF LogAnswers
    <2>6. QED
      BY <2>2, <2>5 DEF LogAnswers
  <1>3. QED
    BY <1>1, <1>2

\* Every step of the system log page keeps its rows, and those on the way, distinct.
LEMMA LogsKeepRows == ASSUME LogsStep, LogsRows  PROVE LogsRows'
PROOF
  <1> DEFINE Goal == LogPage(ui') /\ LogAnswers(net')
  <1> SUFFICES Goal
    BY DEF LogsRows
  <1>0. LogPage(ui) /\ LogAnswers(net) /\ ui.last \in Nat /\ ui.pushed \in Nat
    BY DEF LogsRows, LogPage
  <1>1. ASSUME NEW level, Logs!FilterLevel(level)  PROVE Goal
    <2> DEFINE v == [ui EXCEPT !.level = level, !.initial = TRUE]
               u == Logs!clearLogs(v)
    <2>1. LogPage(v)
      BY <1>0 DEF LogPage
    <2>2. Logs!loadPage(net, u, ~Logs!Ready("logs"), "reset", level)
      BY <1>1 DEF Logs!FilterLevel
    <2> HIDE DEF v
    <2>3. LogPage(u)
      BY <2>1, NoLogs
    <2>4. QED
      BY <1>0, <2>2, <2>3, LoadedLogs
  <1>2. CASE Logs!Intersecting
    <2>1. Logs!loadPage(net, ui, FALSE, "append", ui.level)
      BY <1>2 DEF Logs!Intersecting
    <2>2. QED
      BY <1>0, <2>1, LoadedLogs
  <1>3. CASE Logs!handleRefresh
    <2> DEFINE v == [ui EXCEPT !.initial = TRUE]
               u == Logs!clearLogs(v)
    <2>1. LogPage(v)
      BY <1>0 DEF LogPage
    <2>2. Logs!loadPage(net, u, FALSE, "reset", ui.level)
      BY <1>3 DEF Logs!handleRefresh
    <2> HIDE DEF v
    <2>3. LogPage(u)
      BY <2>1, NoLogs
    <2>4. QED
      BY <1>0, <2>2, <2>3, LoadedLogs
  <1>4. CASE Logs!handleOpenClearDialog
    BY <1>0, <1>4 DEF Logs!handleOpenClearDialog, LogPage
  <1>5. CASE Logs!TypeClearPhrase
    BY <1>0, <1>5 DEF Logs!TypeClearPhrase, LogPage
  <1>6. CASE Logs!CancelClear
    BY <1>0, <1>6 DEF Logs!CancelClear, LogPage
  <1>7. CASE Logs!handleConfirmClear
    <2>1. LogPage(ui')
      BY <1>0, <1>7 DEF Logs!handleConfirmClear, LogPage
    <2>2. \E arg : net' = Logs!Ask(net, "clear", arg)
      BY <1>7 DEF Logs!handleConfirmClear, Logs!Send
    <2>3. LogAnswers(net')
      BY <1>0, <2>2, LogsAsked DEF LogAnswers
    <2>4. QED
      BY <2>1, <2>3
  <1>8. CASE Logs!WriteLog
    BY <1>0, <1>8 DEF Logs!WriteLog, LogPage
  <1>9. ASSUME NEW lost, Logs!handleLogUpdate(lost)  PROVE Goal
    <2> DEFINE u == [ui EXCEPT !.pushed = ui.pushed + 1]
    <2>1. LogPage(u) /\ u.pushed \in Nat
      BY <1>0 DEF LogPage
    <2>2. (ui' = u \/ ui' = Logs!addLiveLog(u, u.pushed)) /\ net' = net
      BY <1>9 DEF Logs!handleLogUpdate
    <2> HIDE DEF u
    <2>3. QED
      BY <1>0, <2>1, <2>2, LiveLogs
  <1>10. ASSUME NEW r \in net, NEW out, Logs!PageLoaded(r, out)  PROVE Goal
    <2> DEFINE done == [Logs!Freed("logs") EXCEPT !.initial = FALSE]
    <2>1. LogPage(done)
      BY <1>0 DEF LogPage, Logs!Freed
    <2>2. /\ r.to = "logs" /\ net' = net \ {r}
          /\ \/ ui' = done \/ ui' = Logs!setInitial(done, r.arg.list)
             \/ ui' = Logs!appendLogs(done, r.arg.list)
      BY <1>10 DEF Logs!PageLoaded, Logs!Settle
    <2> HIDE DEF done
    <2>3. NoRepeat(r.arg.list.rows)
      BY <1>0, <2>2 DEF LogAnswers
    <2>4. LogPage(ui')
      BY <2>1, <2>2, <2>3, InitialLogs, AppendedLogs
    <2>5. LogAnswers(net')
      BY <1>0, <2>2 DEF LogAnswers
    <2>6. QED
      BY <2>4, <2>5
  <1>11. ASSUME NEW r \in net, NEW out, Logs!Cleared(r, out)  PROVE Goal
    <2> DEFINE u == Logs!Freed("clear")
               w == [u EXCEPT !.dialog = FALSE, !.typed = FALSE, !.initial = TRUE]
               v == Logs!clearLogs(w)
    <2>1. LogPage(u) /\ LogPage(w) /\ LogAnswers(net \ {r})
      BY <1>0 DEF LogPage, LogAnswers, Logs!Freed
    <2>2. \/ net' = net \ {r} /\ ui' = u
          \/ Logs!loadPage(net \ {r}, v, r.arg.loading, "reset", r.arg.level)
      BY <1>11 DEF Logs!Cleared
    <2> HIDE DEF u, w
    <2>3. LogPage(v)
      BY <2>1, NoLogs
    <2> HIDE DEF v
    <2>4. CASE net' = net \ {r} /\ ui' = u
      BY <2>1, <2>4
    <2>5. CASE Logs!loadPage(net \ {r}, v, r.arg.loading, "reset", r.arg.level)
      BY <1>0, <2>1, <2>3, <2>5, LoadedLogs
    <2>6. QED
      BY <2>2, <2>4, <2>5
  <1>12. QED
    BY <1>1, <1>2, <1>3, <1>4, <1>5, <1>6, <1>7, <1>8, <1>9, <1>10, <1>11
       DEF LogsStep, Logs!Click, Logs!Answer

\* What the rendered page shows.
LEMMA LogsOpenRows == ASSUME Logs!Init  PROVE LogsRows
PROOF
  <1>1. PICK n \in 0 .. MaxLog :
          LET empty == [page |-> "logs", busy |-> {}, rows |-> <<>>, more |-> TRUE,
                        cursor |-> 0, initial |-> FALSE, level |-> Logs!None,
                        dialog |-> FALSE, typed |-> FALSE, last |-> n, pushed |-> n,
                        cleared |-> 0]
              newest == [i \in 1 .. n |-> n + 1 - i]
              list == [rows |-> Logs!First(PAGE_SIZE, newest), more |-> n > PAGE_SIZE]
          IN IF n > 0
             THEN ui = Logs!setInitial(empty, list) /\ net = {}
             ELSE /\ ui = [Logs!setInitial(empty, list) EXCEPT !.busy = {"logs"}, !.initial = TRUE]
                  /\ net = Logs!Ask({}, "logs", [mode |-> "reset", list |-> list])
    BY DEF Logs!Init
  <1> DEFINE empty == [page |-> "logs", busy |-> {}, rows |-> <<>>, more |-> TRUE,
                       cursor |-> 0, initial |-> FALSE, level |-> Logs!None,
                       dialog |-> FALSE, typed |-> FALSE, last |-> n, pushed |-> n,
                       cleared |-> 0]
             newest == [i \in 1 .. n |-> n + 1 - i]
             list == [rows |-> Logs!First(PAGE_SIZE, newest), more |-> n > PAGE_SIZE]
             u == Logs!setInitial(empty, list)
  <1>2. \/ ui = u /\ net = {}
        \/ /\ ui = [u EXCEPT !.busy = {"logs"}, !.initial = TRUE]
           /\ net = Logs!Ask({}, "logs", [mode |-> "reset", list |-> list])
    BY <1>1
  <1>3. n \in Nat
    BY LogsAssumption
  <1>4. NoRepeat(newest)
    BY <1>3, CountingDown
  <1> HIDE DEF newest
  <1>5. NoRepeat(list.rows)
    BY <1>4, FirstLogs
  <1>6. LogPage(empty)
    BY <1>3, LogsAssumption DEF LogPage, Log, NoRepeat
  <1> HIDE DEF list, empty
  <1>7. LogPage(u)
    BY <1>5, <1>6, InitialLogs
  <1> HIDE DEF u
  <1>8. LogPage(ui)
    BY <1>2, <1>7 DEF LogPage
  <1>9. LogAnswers(net)
    BY <1>2, <1>5, LogsAsked DEF LogAnswers
  <1>10. QED
    BY <1>8, <1>9 DEF LogsRows

\* The rows of the public verifier's log, and those an answer brings.
VisitPage(u) ==
  /\ {"rows", "srv"} \subseteq DOMAIN u /\ "visits" \in DOMAIN u.srv
  /\ u.srv.visits \in Nat /\ Log(MAX_SHOWN, u.rows)
VisitAnswers(calls) == \A r \in calls : r.to = "verify-logs" => Log(MAX_SHOWN, r.arg.rows)
SecurityRows == VisitPage(ui) /\ VisitAnswers(net)

LEMMA SecurityAsked ==
  \A c, t, a : \A r \in Security!Ask(c, t, a) : r \in c \/ (r.to = t /\ r.arg = a)
PROOF
  BY DEF Security!Ask

\* The server reads every visit once.
LEMMA VisitsListed ==
  ASSUME NEW srv, srv.visits \in Nat
  PROVE  Log(MAX_SHOWN, Security!Read(srv).rows)
PROOF
  <1> DEFINE newest == [i \in 1 .. srv.visits |-> srv.visits + 1 - i]
  <1>1. NoRepeat(newest)
    BY CountingDown
  <1>2. Security!Read(srv).rows = Security!First(MAX_SHOWN, newest)
    BY DEF Security!Read, Security!Newest
  <1> HIDE DEF newest
  <1>3. QED
    BY <1>1, <1>2, FirstOfLog, SecurityAssumption DEF Security!First

LEMMA AskedVisits ==
  ASSUME NEW calls, VisitAnswers(calls), NEW to, NEW srv, srv.visits \in Nat
  PROVE  VisitAnswers(Security!Ask(calls, to, Security!Read(srv)))
PROOF
  <1> DEFINE read == Security!Read(srv)
  <1>1. Log(MAX_SHOWN, read.rows)
    BY VisitsListed
  <1> HIDE DEF read
  <1>2. \A r \in Security!Ask(calls, to, read) : r \in calls \/ r.arg = read
    BY SecurityAsked
  <1>3. QED
    BY <1>1, <1>2 DEF VisitAnswers, read

\* Every step of the public verifier page keeps its rows distinct.
LEMMA SecurityKeepsRows == ASSUME SecurityStep, SecurityRows  PROVE SecurityRows'
PROOF
  <1> DEFINE Goal == VisitPage(ui') /\ VisitAnswers(net')
  <1> SUFFICES Goal
    BY DEF SecurityRows
  <1>0. VisitPage(ui) /\ VisitAnswers(net) /\ ui.srv.visits \in Nat
    BY DEF SecurityRows, VisitPage
  <1>1. CASE Security!ForceSync
    BY <1>0, <1>1, AskedVisits DEF Security!ForceSync, Security!initialize
  <1>2. CASE Security!Visit
    BY <1>0, <1>2 DEF Security!Visit, VisitPage
  <1>3. CASE Security!Block
    BY <1>0, <1>3 DEF Security!Block, VisitPage
  <1>4. ASSUME NEW l \in 1 .. MaxVisit, Security!addLog(l)  PROVE Goal
    <2> DEFINE u == [ui EXCEPT !.heard.visits = l]
               all == <<l>> \o ui.rows
    <2>1. VisitPage(u) /\ u.rows = ui.rows
      BY <1>0 DEF VisitPage
    <2>2. net' = net /\ ui' = IF l \in Security!Shown(ui) THEN u
                              ELSE [u EXCEPT !.rows = Security!First(MAX_SHOWN, <<l>> \o u.rows)]
      BY <1>4 DEF Security!addLog
    <2>3. ASSUME l \notin Security!Shown(ui)
          PROVE  Log(MAX_SHOWN, Security!First(MAX_SHOWN, all))
      <3>1. l \in Nat /\ NoRepeat(ui.rows)
        BY <1>0 DEF VisitPage, Log
      <3>2. NoRepeat(all)
        BY <2>3, <3>1, OneInFront DEF Security!Shown
      <3>3. QED
        BY <3>2, FirstOfLog, SecurityAssumption DEF Security!First
    <2> HIDE DEF u
    <2>4. VisitPage(ui')
      <3>1. CASE l \in Security!Shown(ui)
        BY <2>1, <2>2, <3>1
      <3>2. CASE l \notin Security!Shown(ui)
        <4>1. ui' = [u EXCEPT !.rows = Security!First(MAX_SHOWN, all)]
          BY <2>1, <2>2, <3>2
        <4> HIDE DEF all
        <4>2. QED
          BY <2>1, <2>3, <3>2, <4>1 DEF VisitPage
      <3>3. QED
        BY <3>1, <3>2
    <2>5. QED
      BY <1>0, <2>2, <2>4
  <1>5. ASSUME NEW b, Security!addBlocked(b)  PROVE Goal
    BY <1>0, <1>5 DEF Security!addBlocked, VisitPage
  <1>6. ASSUME NEW b, Security!unblockClient(b)  PROVE Goal
    <2>1. VisitPage(ui')
      BY <1>0, <1>6 DEF Security!unblockClient, VisitPage
    <2>2. \E arg : net' = Security!Ask(net, "unblock", arg)
      BY <1>6 DEF Security!unblockClient
    <2>3. QED
      BY <1>0, <2>1, <2>2, SecurityAsked DEF VisitAnswers
  <1>7. ASSUME NEW c, Security!handleSettingsUpdate(c)  PROVE Goal
    <2>1. VisitPage(ui')
      BY <1>0, <1>7 DEF Security!handleSettingsUpdate, VisitPage
    <2>2. \E arg : net' = Security!Ask(net, "settings", arg)
      BY <1>7 DEF Security!handleSettingsUpdate
    <2>3. QED
      BY <1>0, <2>1, <2>2, SecurityAsked DEF VisitAnswers
  <1>8. ASSUME NEW r \in net, NEW out,
               Security!LoadedDashboard(r, out) \/ Security!LoadedLogs(r, out)
        PROVE  Goal
    <2>1. VisitPage(ui')
      BY <1>0, <1>8 DEF Security!LoadedDashboard, Security!LoadedLogs, VisitPage, VisitAnswers
    <2>2. VisitAnswers(net \ {r})
      BY <1>0 DEF VisitAnswers
    <2>3. net' = net \ {r} \/ \E to : net' = Security!Ask(net \ {r}, to, Security!Read(ui.srv))
      BY <1>8 DEF Security!LoadedDashboard, Security!LoadedLogs
    <2>4. QED
      BY <1>0, <2>1, <2>2, <2>3, AskedVisits
  <1>9. ASSUME NEW r \in net, NEW out,
               \/ Security!LoadedBlocklist(r, out) \/ Security!SettingsUpdated(r, out)
               \/ Security!Unblocked(r, out)
        PROVE  Goal
    <2>1. VisitPage(ui')
      BY <1>0, <1>9 DEF Security!LoadedBlocklist, Security!SettingsUpdated,
             Security!Unblocked, VisitPage
    <2>2. net' = net \ {r}
      BY <1>9 DEF Security!LoadedBlocklist, Security!SettingsUpdated,
             Security!Unblocked, Security!Settle
    <2>3. QED
      BY <1>0, <2>1, <2>2 DEF VisitAnswers
  <1>10. QED
    BY <1>1, <1>2, <1>3, <1>4, <1>5, <1>6, <1>7, <1>8, <1>9
       DEF SecurityStep, Security!Click, Security!Answer

LEMMA SecurityOpenRows == ASSUME Security!Init  PROVE SecurityRows
PROOF
  <1> DEFINE From(v, old, k, s, t, b) ==
               LET srv == [visits |-> v, blocks |-> k, blocked |-> b, set |-> s]
                   visited == [srv EXCEPT !.visits = old, !.set = t]
               IN /\ old <= v
                  /\ \/ ui = Security!Fresh(srv) /\ net = Security!initialize({}, srv)
                     \/ ui = Security!hydrate(Security!Fresh(srv), Security!Read(srv)) /\ net = {}
                     \/ /\ ui = Security!hydrate(Security!Fresh(srv), Security!Read(visited))
                        /\ net = Security!initialize({}, srv)
  <1>1. PICK v \in 0 .. MaxVisit, old \in 0 .. MaxVisit : \E k, s, t, b : From(v, old, k, s, t, b)
    <2>1. \E v \in 0 .. MaxVisit, old \in 0 .. MaxVisit, k \in 0 .. MaxBlock,
             s, t \in Security!Values :
            \E b \in SUBSET (1 .. k) : From(v, old, k, s, t, b)
      BY DEF Security!Init
    <2> HIDE DEF From
    <2>2. QED
      BY <2>1
  <1>0. PICK k, s, t, b : From(v, old, k, s, t, b)
    BY <1>1
  <1> DEFINE srv == [visits |-> v, blocks |-> k, blocked |-> b, set |-> s]
             visited == [srv EXCEPT !.visits = old, !.set = t]
  <1>2. /\ \/ ui = Security!Fresh(srv)
           \/ ui = Security!hydrate(Security!Fresh(srv), Security!Read(srv))
           \/ ui = Security!hydrate(Security!Fresh(srv), Security!Read(visited))
        /\ net = {} \/ net = Security!Ask({}, "dashboard", Security!Read(srv))
    BY <1>0 DEF Security!initialize
  <1>3. /\ srv.visits \in Nat /\ visited.visits \in Nat /\ "visits" \in DOMAIN srv
    BY SecurityAssumption
  <1> HIDE DEF srv, visited
  <1>4. VisitPage(Security!Fresh(srv))
    BY <1>3, SecurityAssumption DEF VisitPage, Security!Fresh, Log, NoRepeat
  <1>5. \A read : Log(MAX_SHOWN, read.rows) =>
                    VisitPage(Security!hydrate(Security!Fresh(srv), read))
    BY <1>4 DEF VisitPage, Security!hydrate
  <1>6. VisitPage(ui)
    BY <1>2, <1>3, <1>4, <1>5, VisitsListed
  <1>7. VisitAnswers({})
    BY DEF VisitAnswers
  <1>8. VisitAnswers(net)
    BY <1>2, <1>3, <1>7, AskedVisits
  <1>9. QED
    BY <1>6, <1>8 DEF SecurityRows

PageName ==
  {"users", "server", "jobcontrol", "apikeys", "cache", "logs", "license",
   "brand", "packages", "smtp", "profile", "domains", "jobs", "details",
   "upload", "verify", "home", "payment", "credits", "history", "account",
   "contact", "transfer", "security"}

\* What is true of the page that is open.
PagesInv ==
  /\ Mounted /\ ui.page \in PageName \cup {"left"}
  /\ "contact" \in Sent(net) => On("contact")
  /\ On("left") => Left
  /\ On("users") => Settled(UsersFlags, {})
  /\ On("server") => Settled(ServerFlags, ServerSingle) /\ KeyOrder
  /\ On("jobcontrol") => Settled(JobControlFlags, JobControlSingle)
  /\ On("apikeys") => Settled(ApiKeysFlags, ApiKeysSingle) /\ OneKeyDialog
  /\ On("cache") => Settled(CacheFlags, CacheSingle) /\ OnePurge
  /\ On("logs") => Settled(LogsFlags, LogsSingle) /\ LogsRows
  /\ On("license") => Settled(LicenseFlags, LicenseSingle)
  /\ On("brand") => Settled(BrandFlags, {})
  /\ On("packages") => Settled(PackageFlags, PackageSingle) /\ PackageBadges
  /\ On("smtp") => Settled(SmtpFlags, {})
  /\ On("profile") => Settled(ProfileFlags, ProfileSingle)
  /\ On("domains") => Settled(DomainFlags, DomainSingle)
  /\ On("jobs") => Settled(JobListFlags, {}) /\ ActingJobs
  /\ On("details") => Settled(JobDetailsFlags, JobDetailsSingle) /\ OneControl
  /\ On("upload") => Settled(UploadFlags, UploadSingle) /\ SelectionKey
  /\ On("verify") => Settled(VerifyFlags, VerifySingle)
  /\ On("home") => Waiting("verify") /\ Sent(net) \subseteq {"status", "verify", "config"}
  /\ On("payment") => Settled(PaymentFlags, PaymentSingle)
  /\ On("credits") => Settled(CreditFlags, CreditSingle)
  /\ On("history") => Settled(HistoryFlags, {})
  /\ On("account") => HonestPage
  /\ On("contact") => Waiting("contact") /\ Sent(net) \subseteq {"settings", "contact", "config"}
  /\ On("transfer") => Settled(TransferFlags, TransferSingle)
  /\ On("security") => Settled(SecurityFlags, {}) /\ SecurityRows

\* A page that was left has nothing that could break.
LEMMA LeftAlone == ASSUME Left', Mounted'  PROVE PagesInv'
PROOF
  <1>1. Sent(net') = {}
    BY Empty DEF Left
  <1>2. QED
    BY <1>1 DEF PagesInv, On, Left, PageName

LEMMA UsersHolds == ASSUME UsersStep, PagesInv  PROVE PagesInv'
PROOF
  <1>1. On("users")
    BY DEF UsersStep
  <1>2. Steady(UsersFlags, {})
    BY <1>1, UsersSteady DEF PagesInv
  <1>4. CASE Left'
    BY <1>2, <1>4, LeftAlone DEF Steady, SamePage
  <1>5. CASE ui'.page = "users"
    BY <1>1, <1>2, <1>5
       DEF PagesInv, On, PageName, Steady, SamePage, Settled
  <1>6. QED
    BY <1>1, <1>2, <1>4, <1>5 DEF Steady, SamePage, On

LEMMA ServerHolds == ASSUME ServerStep, PagesInv  PROVE PagesInv'
PROOF
  <1>1. On("server")
    BY DEF ServerStep
  <1>2. Steady(ServerFlags, ServerSingle)
    BY <1>1, ServerSteady DEF PagesInv
  <1>3. KeyOrder'
    BY <1>1, ServerKeys DEF PagesInv, Settled, Alone, ServerSingle
  <1>4. CASE Left'
    BY <1>2, <1>4, LeftAlone DEF Steady, SamePage
  <1>5. CASE ui'.page = "server"
    BY <1>1, <1>2, <1>3, <1>5
       DEF PagesInv, On, PageName, Steady, SamePage, Settled
  <1>6. QED
    BY <1>1, <1>2, <1>4, <1>5 DEF Steady, SamePage, On

LEMMA JobControlHolds == ASSUME JobControlStep, PagesInv  PROVE PagesInv'
PROOF
  <1>1. On("jobcontrol")
    BY DEF JobControlStep
  <1>2. Steady(JobControlFlags, JobControlSingle)
    BY <1>1, JobControlSteady DEF PagesInv
  <1>4. CASE Left'
    BY <1>2, <1>4, LeftAlone DEF Steady, SamePage
  <1>5. CASE ui'.page = "jobcontrol"
    BY <1>1, <1>2, <1>5
       DEF PagesInv, On, PageName, Steady, SamePage, Settled
  <1>6. QED
    BY <1>1, <1>2, <1>4, <1>5 DEF Steady, SamePage, On

LEMMA ApiKeysHolds == ASSUME ApiKeysStep, PagesInv  PROVE PagesInv'
PROOF
  <1>1. On("apikeys")
    BY DEF ApiKeysStep
  <1>2. Steady(ApiKeysFlags, ApiKeysSingle)
    BY <1>1, ApiKeysSteady DEF PagesInv
  <1>3. OneKeyDialog'
    BY <1>1, ApiKeysDialogs DEF PagesInv
  <1>4. CASE Left'
    BY <1>2, <1>4, LeftAlone DEF Steady, SamePage
  <1>5. CASE ui'.page = "apikeys"
    BY <1>1, <1>2, <1>3, <1>5
       DEF PagesInv, On, PageName, Steady, SamePage, Settled
  <1>6. QED
    BY <1>1, <1>2, <1>4, <1>5 DEF Steady, SamePage, On

LEMMA CacheHolds == ASSUME CacheStep, PagesInv  PROVE PagesInv'
PROOF
  <1>1. On("cache")
    BY DEF CacheStep
  <1>2. Steady(CacheFlags, CacheSingle)
    BY <1>1, CacheSteady DEF PagesInv
  <1>3. OnePurge'
    BY <1>1, CachePurges DEF PagesInv
  <1>4. CASE Left'
    BY <1>2, <1>4, LeftAlone DEF Steady, SamePage
  <1>5. CASE ui'.page = "cache"
    BY <1>1, <1>2, <1>3, <1>5
       DEF PagesInv, On, PageName, Steady, SamePage, Settled
  <1>6. QED
    BY <1>1, <1>2, <1>4, <1>5 DEF Steady, SamePage, On

LEMMA LogsHolds == ASSUME LogsStep, PagesInv  PROVE PagesInv'
PROOF
  <1>1. On("logs")
    BY DEF LogsStep
  <1>2. Steady(LogsFlags, LogsSingle)
    BY <1>1, LogsSteady DEF PagesInv
  <1>3. LogsRows'
    BY <1>1, LogsKeepRows DEF PagesInv
  <1>4. CASE Left'
    BY <1>2, <1>4, LeftAlone DEF Steady, SamePage
  <1>5. CASE ui'.page = "logs"
    BY <1>1, <1>2, <1>3, <1>5
       DEF PagesInv, On, PageName, Steady, SamePage, Settled
  <1>6. QED
    BY <1>1, <1>2, <1>4, <1>5 DEF Steady, SamePage, On

LEMMA LicenseHolds == ASSUME LicenseStep, PagesInv  PROVE PagesInv'
PROOF
  <1>1. On("license")
    BY DEF LicenseStep
  <1>2. Steady(LicenseFlags, LicenseSingle)
    BY <1>1, LicenseSteady DEF PagesInv
  <1>4. CASE Left'
    BY <1>2, <1>4, LeftAlone DEF Steady, SamePage
  <1>5. CASE ui'.page = "license"
    BY <1>1, <1>2, <1>5
       DEF PagesInv, On, PageName, Steady, SamePage, Settled
  <1>6. QED
    BY <1>1, <1>2, <1>4, <1>5 DEF Steady, SamePage, On

LEMMA BrandHolds == ASSUME BrandStep, PagesInv  PROVE PagesInv'
PROOF
  <1>1. On("brand")
    BY DEF BrandStep
  <1>2. Steady(BrandFlags, {})
    BY <1>1, BrandSteady DEF PagesInv
  <1>4. CASE Left'
    BY <1>2, <1>4, LeftAlone DEF Steady, SamePage
  <1>5. CASE ui'.page = "brand"
    BY <1>1, <1>2, <1>5
       DEF PagesInv, On, PageName, Steady, SamePage, Settled
  <1>6. QED
    BY <1>1, <1>2, <1>4, <1>5 DEF Steady, SamePage, On

LEMMA PackageHolds == ASSUME PackageStep, PagesInv  PROVE PagesInv'
PROOF
  <1>1. On("packages")
    BY DEF PackageStep
  <1>2. Steady(PackageFlags, PackageSingle)
    BY <1>1, PackageSteady DEF PagesInv
  <1>3. PackageBadges'
    BY <1>1, PackageMarks DEF PagesInv
  <1>4. CASE Left'
    BY <1>2, <1>4, LeftAlone DEF Steady, SamePage
  <1>5. CASE ui'.page = "packages"
    BY <1>1, <1>2, <1>3, <1>5
       DEF PagesInv, On, PageName, Steady, SamePage, Settled
  <1>6. QED
    BY <1>1, <1>2, <1>4, <1>5 DEF Steady, SamePage, On

LEMMA SmtpHolds == ASSUME SmtpStep, PagesInv  PROVE PagesInv'
PROOF
  <1>1. On("smtp")
    BY DEF SmtpStep
  <1>2. Steady(SmtpFlags, {})
    BY <1>1, SmtpSteady DEF PagesInv
  <1>4. CASE Left'
    BY <1>2, <1>4, LeftAlone DEF Steady, SamePage
  <1>5. CASE ui'.page = "smtp"
    BY <1>1, <1>2, <1>5
       DEF PagesInv, On, PageName, Steady, SamePage, Settled
  <1>6. QED
    BY <1>1, <1>2, <1>4, <1>5 DEF Steady, SamePage, On

LEMMA ProfileHolds == ASSUME ProfileStep, PagesInv  PROVE PagesInv'
PROOF
  <1>1. On("profile")
    BY DEF ProfileStep
  <1>2. Steady(ProfileFlags, ProfileSingle)
    BY <1>1, ProfileSteady DEF PagesInv
  <1>4. CASE Left'
    BY <1>2, <1>4, LeftAlone DEF Steady, SamePage
  <1>5. CASE ui'.page = "profile"
    BY <1>1, <1>2, <1>5
       DEF PagesInv, On, PageName, Steady, SamePage, Settled
  <1>6. QED
    BY <1>1, <1>2, <1>4, <1>5 DEF Steady, SamePage, On

LEMMA DomainHolds == ASSUME DomainStep, PagesInv  PROVE PagesInv'
PROOF
  <1>1. On("domains")
    BY DEF DomainStep
  <1>2. Steady(DomainFlags, DomainSingle)
    BY <1>1, DomainSteady DEF PagesInv
  <1>4. CASE Left'
    BY <1>2, <1>4, LeftAlone DEF Steady, SamePage
  <1>5. CASE ui'.page = "domains"
    BY <1>1, <1>2, <1>5
       DEF PagesInv, On, PageName, Steady, SamePage, Settled
  <1>6. QED
    BY <1>1, <1>2, <1>4, <1>5 DEF Steady, SamePage, On

LEMMA JobListHolds == ASSUME JobListStep, PagesInv  PROVE PagesInv'
PROOF
  <1>1. On("jobs")
    BY DEF JobListStep
  <1>2. Steady(JobListFlags, {})
    BY <1>1, JobListSteady DEF PagesInv, ActingJobs
  <1>3. ActingJobs'
    BY <1>1, JobListActs DEF PagesInv
  <1>4. CASE Left'
    BY <1>2, <1>4, LeftAlone DEF Steady, SamePage
  <1>5. CASE ui'.page = "jobs"
    BY <1>1, <1>2, <1>3, <1>5
       DEF PagesInv, On, PageName, Steady, SamePage, Settled
  <1>6. QED
    BY <1>1, <1>2, <1>4, <1>5 DEF Steady, SamePage, On

LEMMA JobDetailsHolds == ASSUME JobDetailsStep, PagesInv  PROVE PagesInv'
PROOF
  <1>1. On("details")
    BY DEF JobDetailsStep
  <1>2. Steady(JobDetailsFlags, JobDetailsSingle)
    BY <1>1, JobDetailsSteady DEF PagesInv
  <1>3. OneControl'
    BY <1>1, JobDetailsControls DEF PagesInv
  <1>4. CASE Left'
    BY <1>2, <1>4, LeftAlone DEF Steady, SamePage
  <1>5. CASE ui'.page = "details"
    BY <1>1, <1>2, <1>3, <1>5
       DEF PagesInv, On, PageName, Steady, SamePage, Settled
  <1>6. QED
    BY <1>1, <1>2, <1>4, <1>5 DEF Steady, SamePage, On

LEMMA UploadHolds == ASSUME UploadStep, PagesInv  PROVE PagesInv'
PROOF
  <1>1. On("upload")
    BY DEF UploadStep
  <1>2. Steady(UploadFlags, UploadSingle)
    BY <1>1, UploadSteady DEF PagesInv
  <1>3. SelectionKey'
    BY <1>1, UploadKeepsKey DEF PagesInv
  <1>4. CASE Left'
    BY <1>2, <1>4, LeftAlone DEF Steady, SamePage
  <1>5. CASE ui'.page = "upload"
    BY <1>1, <1>2, <1>3, <1>5
       DEF PagesInv, On, PageName, Steady, SamePage, Settled
  <1>6. QED
    BY <1>1, <1>2, <1>4, <1>5 DEF Steady, SamePage, On

LEMMA VerifyHolds == ASSUME VerifyStep, PagesInv  PROVE PagesInv'
PROOF
  <1>1. On("verify")
    BY DEF VerifyStep
  <1>2. Steady(VerifyFlags, VerifySingle)
    BY <1>1, VerifySteady DEF PagesInv
  <1>4. CASE Left'
    BY <1>2, <1>4, LeftAlone DEF Steady, SamePage
  <1>5. CASE ui'.page = "verify"
    BY <1>1, <1>2, <1>5
       DEF PagesInv, On, PageName, Steady, SamePage, Settled
  <1>6. QED
    BY <1>1, <1>2, <1>4, <1>5 DEF Steady, SamePage, On

LEMMA HomeHolds == ASSUME HomeStep, PagesInv  PROVE PagesInv'
PROOF
  <1>1. On("home")
    BY DEF HomeStep
  <1>2. /\ (ui'.page = "home" /\ Waiting("verify")') \/ (Left /\ Mounted)'
        /\ Sent(net') \subseteq {"status", "verify", "config"}
    BY <1>1, HomeSteady DEF PagesInv
  <1>3. CASE (Left /\ Mounted)'
    BY <1>3, LeftAlone
  <1>4. CASE ui'.page = "home" /\ Waiting("verify")'
    BY <1>2, <1>4 DEF PagesInv, On, PageName, Mounted, Waiting
  <1>5. QED
    BY <1>2, <1>3, <1>4

LEMMA PaymentHolds == ASSUME PaymentStep, PagesInv  PROVE PagesInv'
PROOF
  <1>1. On("payment")
    BY DEF PaymentStep
  <1>2. Steady(PaymentFlags, PaymentSingle)
    BY <1>1, PaymentSteady DEF PagesInv
  <1>4. CASE Left'
    BY <1>2, <1>4, LeftAlone DEF Steady, SamePage
  <1>5. CASE ui'.page = "payment"
    BY <1>1, <1>2, <1>5
       DEF PagesInv, On, PageName, Steady, SamePage, Settled
  <1>6. QED
    BY <1>1, <1>2, <1>4, <1>5 DEF Steady, SamePage, On

LEMMA CreditHolds == ASSUME CreditStep, PagesInv  PROVE PagesInv'
PROOF
  <1>1. On("credits")
    BY DEF CreditStep
  <1>2. Steady(CreditFlags, CreditSingle)
    BY <1>1, CreditSteady DEF PagesInv
  <1>4. CASE Left'
    BY <1>2, <1>4, LeftAlone DEF Steady, SamePage
  <1>5. CASE ui'.page = "credits"
    BY <1>1, <1>2, <1>5
       DEF PagesInv, On, PageName, Steady, SamePage, Settled
  <1>6. QED
    BY <1>1, <1>2, <1>4, <1>5 DEF Steady, SamePage, On

LEMMA HistoryHolds == ASSUME HistoryStep, PagesInv  PROVE PagesInv'
PROOF
  <1>1. On("history")
    BY DEF HistoryStep
  <1>2. Steady(HistoryFlags, {})
    BY <1>1, HistorySteady DEF PagesInv
  <1>4. CASE Left'
    BY <1>2, <1>4, LeftAlone DEF Steady, SamePage
  <1>5. CASE ui'.page = "history"
    BY <1>1, <1>2, <1>5
       DEF PagesInv, On, PageName, Steady, SamePage, Settled
  <1>6. QED
    BY <1>1, <1>2, <1>4, <1>5 DEF Steady, SamePage, On

LEMMA AccountHolds == ASSUME AccountStep, PagesInv  PROVE PagesInv'
PROOF
  <1>1. On("account")
    BY DEF AccountStep
  <1>2. (HonestPage' /\ ui'.page = "account") \/ (Left /\ Mounted)'
    BY <1>1, AccountSteady DEF PagesInv
  <1>3. CASE (Left /\ Mounted)'
    BY <1>3, LeftAlone
  <1>4. CASE HonestPage' /\ ui'.page = "account"
    <2>1. "contact" \notin Sent(net')
      BY <1>4 DEF HonestPage, Honest, Sent, Account!Route
    <2>2. QED
      BY <1>4, <2>1 DEF PagesInv, On, PageName, Mounted, HonestPage
  <1>5. QED
    BY <1>2, <1>3, <1>4

LEMMA ContactHolds == ASSUME ContactStep, PagesInv  PROVE PagesInv'
PROOF
  <1>1. On("contact")
    BY DEF ContactStep
  <1>2. /\ ui'.page = "contact" /\ Waiting("contact")'
        /\ Sent(net') \subseteq {"settings", "contact", "config"}
    BY <1>1, ContactSteady DEF PagesInv
  <1>3. QED
    BY <1>2 DEF PagesInv, On, PageName, Mounted, Waiting

LEMMA TransferHolds == ASSUME TransferStep, PagesInv  PROVE PagesInv'
PROOF
  <1>1. On("transfer")
    BY DEF TransferStep
  <1>2. Steady(TransferFlags, TransferSingle)
    BY <1>1, TransferSteady DEF PagesInv
  <1>4. CASE Left'
    BY <1>2, <1>4, LeftAlone DEF Steady, SamePage
  <1>5. CASE ui'.page = "transfer"
    BY <1>1, <1>2, <1>5
       DEF PagesInv, On, PageName, Steady, SamePage, Settled
  <1>6. QED
    BY <1>1, <1>2, <1>4, <1>5 DEF Steady, SamePage, On

LEMMA SecurityHolds == ASSUME SecurityStep, PagesInv  PROVE PagesInv'
PROOF
  <1>1. On("security")
    BY DEF SecurityStep
  <1>2. Steady(SecurityFlags, {})
    BY <1>1, SecuritySteady DEF PagesInv
  <1>3. SecurityRows'
    BY <1>1, SecurityKeepsRows DEF PagesInv
  <1>4. CASE Left'
    BY <1>2, <1>4, LeftAlone DEF Steady, SamePage
  <1>5. CASE ui'.page = "security"
    BY <1>1, <1>2, <1>3, <1>5
       DEF PagesInv, On, PageName, Steady, SamePage, Settled
  <1>6. QED
    BY <1>1, <1>2, <1>4, <1>5 DEF Steady, SamePage, On

LEMMA PagesOpen == ASSUME Init  PROVE PagesInv
PROOF
  <1>1. CASE Users!Init
    BY <1>1, UsersOpens DEF PagesInv, On, PageName, Mounted, Settled
  <1>2. CASE Server!Init
    BY <1>2, ServerOpens DEF PagesInv, On, PageName, Mounted, Settled
  <1>3. CASE JobControl!Init
    BY <1>3, JobControlOpens DEF PagesInv, On, PageName, Mounted, Settled
  <1>4. CASE ApiKeys!Init
    BY <1>4, ApiKeysOpens DEF PagesInv, On, PageName, Mounted, Settled
  <1>5. CASE Cache!Init
    BY <1>5, CacheOpens DEF PagesInv, On, PageName, Mounted, Settled
  <1>6. CASE Logs!Init
    BY <1>6, LogsOpens, LogsOpenRows DEF PagesInv, On, PageName, Mounted, Settled
  <1>7. CASE License!Init
    BY <1>7, LicenseOpens DEF PagesInv, On, PageName, Mounted, Settled
  <1>8. CASE Brand!Init
    BY <1>8, BrandOpens DEF PagesInv, On, PageName, Mounted, Settled
  <1>9. CASE Package!Init
    BY <1>9, PackageOpens DEF PagesInv, On, PageName, Mounted, Settled
  <1>10. CASE Smtp!Init
    BY <1>10, SmtpOpens DEF PagesInv, On, PageName, Mounted, Settled
  <1>11. CASE Profile!Init
    BY <1>11, ProfileOpens DEF PagesInv, On, PageName, Mounted, Settled
  <1>12. CASE Domain!Init
    BY <1>12, DomainOpens DEF PagesInv, On, PageName, Mounted, Settled
  <1>13. CASE JobList!Init
    BY <1>13, JobListOpens DEF PagesInv, On, PageName, Mounted, Settled
  <1>14. CASE JobDetails!Init
    BY <1>14, JobDetailsOpens DEF PagesInv, On, PageName, Mounted, Settled
  <1>15. CASE Upload!Init
    BY <1>15, UploadOpens DEF PagesInv, On, PageName, Mounted, Settled
  <1>16. CASE Verify!Init
    BY <1>16, VerifyOpens DEF PagesInv, On, PageName, Mounted, Settled
  <1>17. CASE Home!Init
    BY <1>17, HomeOpens DEF PagesInv, On, PageName, Mounted, Waiting
  <1>18. CASE Payment!Init
    BY <1>18, PaymentOpens DEF PagesInv, On, PageName, Mounted, Settled
  <1>19. CASE Credit!Init
    BY <1>19, CreditOpens DEF PagesInv, On, PageName, Mounted, Settled
  <1>20. CASE History!Init
    BY <1>20, HistoryOpens DEF PagesInv, On, PageName, Mounted, Settled
  <1>21. CASE Account!Init
    BY <1>21, AccountOpens
       DEF PagesInv, On, PageName, Mounted, HonestPage, Honest, Sent, Account!Route
  <1>22. CASE Contact!Init
    BY <1>22, ContactOpens DEF PagesInv, On, PageName, Mounted, Waiting
  <1>23. CASE Transfer!Init
    BY <1>23, TransferOpens DEF PagesInv, On, PageName, Mounted, Settled
  <1>24. CASE Security!Init
    BY <1>24, SecurityOpens, SecurityOpenRows DEF PagesInv, On, PageName, Mounted, Settled
  <1>25. QED
    BY <1>1, <1>2, <1>3, <1>4, <1>5, <1>6, <1>7, <1>8, <1>9, <1>10, <1>11,
       <1>12, <1>13, <1>14, <1>15, <1>16, <1>17, <1>18, <1>19, <1>20, <1>21,
       <1>22, <1>23, <1>24 DEF Init

LEMMA PagesStep == ASSUME PagesInv, [Next]_page  PROVE PagesInv'
PROOF
  <1>1. CASE UsersStep
    BY <1>1, UsersHolds
  <1>2. CASE ServerStep
    BY <1>2, ServerHolds
  <1>3. CASE JobControlStep
    BY <1>3, JobControlHolds
  <1>4. CASE ApiKeysStep
    BY <1>4, ApiKeysHolds
  <1>5. CASE CacheStep
    BY <1>5, CacheHolds
  <1>6. CASE LogsStep
    BY <1>6, LogsHolds
  <1>7. CASE LicenseStep
    BY <1>7, LicenseHolds
  <1>8. CASE BrandStep
    BY <1>8, BrandHolds
  <1>9. CASE PackageStep
    BY <1>9, PackageHolds
  <1>10. CASE SmtpStep
    BY <1>10, SmtpHolds
  <1>11. CASE ProfileStep
    BY <1>11, ProfileHolds
  <1>12. CASE DomainStep
    BY <1>12, DomainHolds
  <1>13. CASE JobListStep
    BY <1>13, JobListHolds
  <1>14. CASE JobDetailsStep
    BY <1>14, JobDetailsHolds
  <1>15. CASE UploadStep
    BY <1>15, UploadHolds
  <1>16. CASE VerifyStep
    BY <1>16, VerifyHolds
  <1>17. CASE HomeStep
    BY <1>17, HomeHolds
  <1>18. CASE PaymentStep
    BY <1>18, PaymentHolds
  <1>19. CASE CreditStep
    BY <1>19, CreditHolds
  <1>20. CASE HistoryStep
    BY <1>20, HistoryHolds
  <1>21. CASE AccountStep
    BY <1>21, AccountHolds
  <1>22. CASE ContactStep
    BY <1>22, ContactHolds
  <1>23. CASE TransferStep
    BY <1>23, TransferHolds
  <1>24. CASE SecurityStep
    BY <1>24, SecurityHolds
  <1>25. CASE UNCHANGED page
    BY <1>25 DEF page, PagesInv, Mounted, Left, On, Settled, Spinning, Alone, Waiting,
            HonestPage, ActingJobs, OneControl, OneKeyDialog, OnePurge, KeyOrder,
            PackageBadges, SelectionKey, LogsRows, LogPage, LogAnswers,
            SecurityRows, VisitPage, VisitAnswers
  <1>26. QED
    BY <1>1, <1>2, <1>3, <1>4, <1>5, <1>6, <1>7, <1>8, <1>9, <1>10, <1>11,
       <1>12, <1>13, <1>14, <1>15, <1>16, <1>17, <1>18, <1>19, <1>20, <1>21,
       <1>22, <1>23, <1>24, <1>25 DEF Next

\* PagesInv holds in every state: each page opens in it, each step of a page
\* keeps it, and going from page to page starts it anew.
THEOREM PagesInvariant == Spec => []PagesInv
PROOF
  <1>1. Init => PagesInv
    BY PagesOpen
  <1>2. PagesInv /\ [Next]_page => PagesInv'
    BY PagesStep
  <1>3. QED
    BY <1>1, <1>2, PTL DEF Spec

\* Every spinner has its request: whatever is disabled or spins on a page waits
\* for the answer to a request in flight, never for one that was lost track of.
THEOREM SpinnersEnd == Spec => []SpinnerHasRequest
PROOF
  <1>1. PagesInv => SpinnerHasRequest
    <2> SUFFICES ASSUME PagesInv, NEW f \in ui.busy
                 PROVE  \E to \in WaitsFor(f) : Asking(to)
      BY DEF SpinnerHasRequest
    <2>1. CASE On("home")
      <3>1. f = "verify" /\ \E r \in net : r.to \in {"verify", "config"}
        BY <2>1 DEF PagesInv, Waiting, Form, Sent
      <3>2. QED
        BY <2>1, <3>1 DEF WaitsFor, Asking
    <2>2. CASE On("contact")
      <3>1. f = "contact" /\ \E r \in net : r.to \in {"contact", "config"}
        BY <2>2 DEF PagesInv, Waiting, Form, Sent
      <3>2. QED
        BY <2>2, <3>1 DEF WaitsFor, Asking, On
    <2>3. CASE On("account")
      <3>1. \E r \in net : r.to = f
        BY <2>3 DEF PagesInv, HonestPage
      <3>2. QED
        BY <3>1 DEF WaitsFor, Asking
    <2>4. CASE ~On("home") /\ ~On("contact") /\ ~On("account")
      <3>1. \/ Left
            \/ \E flags, lone : Settled(flags, lone)
        BY <2>4 DEF PagesInv, PageName, On
      <3>2. f \in Sent(net)
        BY <3>1 DEF Left, Settled, Spinning
      <3>3. QED
        BY <3>2 DEF Sent, WaitsFor, Asking
    <2>5. QED
      BY <2>1, <2>2, <2>3, <2>4
  <1>2. QED
    BY <1>1, PagesInvariant, PTL

LEMMA AtMostOneOf ==
  ASSUME NEW S, \A x, y \in S : x = y
  PROVE  Cardinality(S) <= 1
PROOF
  <1>1. CASE S = {}
    BY <1>1, FS_EmptySet
  <1>2. CASE S # {}
    <2>1. PICK x \in S : TRUE
      BY <1>2
    <2>2. S = {x}
      BY <2>1
    <2>3. Cardinality(S) = 1
      BY <2>2, FS_Singleton
    <2>4. QED
      BY <2>3
  <1>3. QED
    BY <1>1, <1>2

LEMMA LoneGroup ==
  ASSUME NEW t, Lone(net, t)
  PROVE  Cardinality({r \in net : r.to \in {t}}) <= 1
PROOF
  <1>1. \A r, s \in {q \in net : q.to \in {t}} : r = s
    BY DEF Lone
  <1>2. QED
    BY <1>1, AtMostOneOf

LEMMA ApartGroup ==
  ASSUME NEW group, Apart(net, group)
  PROVE  Cardinality({r \in net : r.to \in group}) <= 1
PROOF
  <1>1. \A r, s \in {q \in net : q.to \in group} : r = s
    BY DEF Apart
  <1>2. QED
    BY <1>1, AtMostOneOf

\* Two requests that a page sends one at a time, and never both.
LEMMA EitherGroup ==
  ASSUME NEW flags, NEW lone, Settled(flags, lone), NEW s \in lone, NEW t \in lone,
         ~({s, t} \subseteq ui.busy)
  PROVE  Apart(net, {s, t})
PROOF BY DEF Settled, Alone, Lone, Sent, Apart

\* What a page means to send one at a time it does send one at a time.
THEOREM OneAnswerAtATime == Spec => []OneAtATime
PROOF
  <1>1. PagesInv => OneAtATime
    <2> SUFFICES ASSUME PagesInv  PROVE OneAtATime
      OBVIOUS
    <2> DEFINE Alright(groups) == \A g \in groups : Cardinality({r \in net : r.to \in g}) <= 1
    <2>1. \A flags, lone : Settled(flags, lone) =>
            \A t \in lone : Cardinality({r \in net : r.to \in {t}}) <= 1
      BY LoneGroup DEF Settled, Alone
    <2>2. CASE On("server")
      <3>1. Exclusive = {{"key"}}
        BY <2>2 DEF Exclusive, On
      <3>2. \A t \in {"key"} : Cardinality({r \in net : r.to \in {t}}) <= 1
        BY <2>1, <2>2 DEF PagesInv, ServerSingle
      <3>3. QED
        BY <3>1, <3>2 DEF OneAtATime
    <2>3. CASE On("jobcontrol")
      <3>1. Exclusive = {{"cleanup"}}
        BY <2>3 DEF Exclusive, On
      <3>2. \A t \in {"cleanup"} : Cardinality({r \in net : r.to \in {t}}) <= 1
        BY <2>1, <2>3 DEF PagesInv, JobControlSingle
      <3>3. QED
        BY <3>1, <3>2 DEF OneAtATime
    <2>4. CASE On("apikeys")
      <3>1. Exclusive = {{"create"}, {"rotate", "revoke"}}
        BY <2>4 DEF Exclusive, On
      <3>2. \A t \in {"create"} : Cardinality({r \in net : r.to \in {t}}) <= 1
        BY <2>1, <2>4 DEF PagesInv, ApiKeysSingle
      <3>3. Apart(net, {"rotate", "revoke"})
        <4>1. Settled(ApiKeysFlags, ApiKeysSingle)
          BY <2>4 DEF PagesInv
        <4>2. ~({"rotate", "revoke"} \subseteq ui.busy)
          BY <2>4 DEF PagesInv, OneKeyDialog
        <4>3. QED
          BY <4>1, <4>2, EitherGroup DEF ApiKeysSingle
      <3>4. Cardinality({r \in net : r.to \in {"rotate", "revoke"}}) <= 1
        BY <2>4, <3>3, ApartGroup
      <3>5. QED
        BY <3>1, <3>2, <3>3, <3>4 DEF OneAtATime
    <2>5. CASE On("cache")
      <3>1. Exclusive = {{"purge", "purge-older"}}
        BY <2>5 DEF Exclusive, On
      <3>2. Cardinality({r \in net : r.to \in {"purge", "purge-older"}}) <= 1
        BY <2>5, ApartGroup, EitherGroup DEF PagesInv, CacheSingle, OnePurge
      <3>3. QED
        BY <3>1, <3>2 DEF OneAtATime
    <2>6. CASE On("logs")
      <3>1. Exclusive = {{"clear"}}
        BY <2>6 DEF Exclusive, On
      <3>2. \A t \in {"clear"} : Cardinality({r \in net : r.to \in {t}}) <= 1
        BY <2>1, <2>6 DEF PagesInv, LogsSingle
      <3>3. QED
        BY <3>1, <3>2 DEF OneAtATime
    <2>7. CASE On("license")
      <3>1. Exclusive = {{"backup"}, {"upload"}, {"restore"}, {"maintenance"}}
        BY <2>7 DEF Exclusive, On
      <3>2. \A t \in {"backup", "upload", "restore", "maintenance"} :
              Cardinality({r \in net : r.to \in {t}}) <= 1
        BY <2>1, <2>7 DEF PagesInv, LicenseSingle
      <3>3. QED
        BY <3>1, <3>2 DEF OneAtATime
    <2>8. CASE On("packages")
      <3>1. Exclusive = {{"delete"}}
        BY <2>8 DEF Exclusive, On
      <3>2. \A t \in {"delete"} : Cardinality({r \in net : r.to \in {t}}) <= 1
        BY <2>1, <2>8 DEF PagesInv, PackageSingle
      <3>3. QED
        BY <3>1, <3>2 DEF OneAtATime
    <2>9. CASE On("profile")
      <3>1. Exclusive = {{"password"}}
        BY <2>9 DEF Exclusive, On
      <3>2. \A t \in {"password"} : Cardinality({r \in net : r.to \in {t}}) <= 1
        BY <2>1, <2>9 DEF PagesInv, ProfileSingle
      <3>3. QED
        BY <3>1, <3>2 DEF OneAtATime
    <2>10. CASE On("domains")
      <3>1. Exclusive = {{"add"}}
        BY <2>10 DEF Exclusive, On
      <3>2. \A t \in {"add"} : Cardinality({r \in net : r.to \in {t}}) <= 1
        BY <2>1, <2>10 DEF PagesInv, DomainSingle
      <3>3. QED
        BY <3>1, <3>2 DEF OneAtATime
    <2>11. CASE On("details")
      <3>1. Exclusive = {{"pause", "resume"}, {"retry"}, {"delete"}}
        BY <2>11 DEF Exclusive, On
      <3>2. \A t \in {"retry", "delete"} : Cardinality({r \in net : r.to \in {t}}) <= 1
        BY <2>1, <2>11 DEF PagesInv, JobDetailsSingle
      <3>3. Apart(net, {"pause", "resume"})
        <4>1. Settled(JobDetailsFlags, JobDetailsSingle)
          BY <2>11 DEF PagesInv
        <4>2. ~({"pause", "resume"} \subseteq ui.busy)
          BY <2>11 DEF PagesInv, OneControl
        <4>3. QED
          BY <4>1, <4>2, EitherGroup DEF JobDetailsSingle
      <3>4. Cardinality({r \in net : r.to \in {"pause", "resume"}}) <= 1
        BY <2>11, <3>3, ApartGroup
      <3>5. QED
        BY <3>1, <3>2, <3>3, <3>4 DEF OneAtATime
    <2>12. CASE On("upload")
      <3>1. Exclusive = {{"upload"}}
        BY <2>12 DEF Exclusive, On
      <3>2. \A t \in {"upload"} : Cardinality({r \in net : r.to \in {t}}) <= 1
        BY <2>1, <2>12 DEF PagesInv, UploadSingle
      <3>3. QED
        BY <3>1, <3>2 DEF OneAtATime
    <2>13. CASE On("verify")
      <3>1. Exclusive = {{"verify"}}
        BY <2>13 DEF Exclusive, On
      <3>2. \A t \in {"verify"} : Cardinality({r \in net : r.to \in {t}}) <= 1
        BY <2>1, <2>13 DEF PagesInv, VerifySingle
      <3>3. QED
        BY <3>1, <3>2 DEF OneAtATime
    <2>14. CASE On("home")
      <3>1. Exclusive = {{"verify", "config"}}
        BY <2>14 DEF Exclusive, On
      <3>2. Cardinality({r \in net : r.to \in {"verify", "config"}}) <= 1
        BY <2>14, ApartGroup DEF PagesInv, Waiting, Form
      <3>3. QED
        BY <3>1, <3>2 DEF OneAtATime
    <2>15. CASE On("contact")
      <3>1. Exclusive = {{"contact", "config"}}
        BY <2>15 DEF Exclusive, On
      <3>2. Cardinality({r \in net : r.to \in {"contact", "config"}}) <= 1
        BY <2>15, ApartGroup DEF PagesInv, Waiting, Form
      <3>3. QED
        BY <3>1, <3>2 DEF OneAtATime
    <2>16. CASE On("transfer")
      <3>1. Exclusive = {{"transfer"}}
        BY <2>16 DEF Exclusive, On
      <3>2. \A t \in {"transfer"} : Cardinality({r \in net : r.to \in {t}}) <= 1
        BY <2>1, <2>16 DEF PagesInv, TransferSingle
      <3>3. QED
        BY <3>1, <3>2 DEF OneAtATime
    <2>17. CASE On("payment")
      <3>1. Exclusive = {{"test"}}
        BY <2>17 DEF Exclusive, On
      <3>2. \A t \in {"test"} : Cardinality({r \in net : r.to \in {t}}) <= 1
        BY <2>1, <2>17 DEF PagesInv, PaymentSingle
      <3>3. QED
        BY <3>1, <3>2 DEF OneAtATime
    <2>18. CASE On("credits")
      <3>1. Exclusive = {{"pay"}}
        BY <2>18 DEF Exclusive, On
      <3>2. \A t \in {"pay"} : Cardinality({r \in net : r.to \in {t}}) <= 1
        BY <2>1, <2>18 DEF PagesInv, CreditSingle
      <3>3. QED
        BY <3>1, <3>2 DEF OneAtATime
    <2>19. CASE /\ ~On("server") /\ ~On("jobcontrol") /\ ~On("apikeys") /\ ~On("cache")
               /\ ~On("logs") /\ ~On("license") /\ ~On("packages") /\ ~On("profile")
               /\ ~On("domains") /\ ~On("details") /\ ~On("upload") /\ ~On("verify")
               /\ ~On("home") /\ ~On("contact") /\ ~On("transfer") /\ ~On("payment")
               /\ ~On("credits")
      <3>1. Exclusive = {}
        BY <2>19 DEF Exclusive
      <3>2. QED
        BY <3>1 DEF OneAtATime
    <2>20. QED
      BY <2>2, <2>3, <2>4, <2>5, <2>6, <2>7, <2>8, <2>9,
         <2>10, <2>11, <2>12, <2>13, <2>14, <2>15, <2>16, <2>17, <2>18, <2>19
  <1>2. QED
    BY <1>1, PagesInvariant, PTL

\* One package at most is marked, however the answers of several edits come in.
THEOREM OneBadge == Spec => []AtMostOnePopular
PROOF
  <1>1. PagesInv => AtMostOnePopular
    <2> SUFFICES ASSUME PagesInv, On("packages")
                 PROVE  Cardinality({p \in DOMAIN ui.plans : "popular" \in ui.plans[p]}) <= 1
      BY DEF AtMostOnePopular
    <2>1. \A p, q \in {x \in DOMAIN ui.plans : "popular" \in ui.plans[x]} : p = q
      BY DEF PagesInv, PackageBadges, OnePopular
    <2>2. QED
      BY <2>1, AtMostOneOf
  <1>2. QED
    BY <1>1, PagesInvariant, PTL

\* A log shows an entry once and stays within its buffer, in whatever order
\* pages, live entries, filters, refreshes and a clear-out come.
THEOREM LogsShowEntriesOnce == Spec => []LogRowsDistinct
PROOF
  <1>1. PagesInv => LogRowsDistinct
    <2>1. ASSUME PagesInv, On("logs")  PROVE Log(MAX_BUFFER, ui.rows)
      BY <2>1 DEF PagesInv, LogsRows, LogPage
    <2>2. ASSUME PagesInv, On("security")  PROVE Log(MAX_SHOWN, ui.rows)
      BY <2>2 DEF PagesInv, SecurityRows, VisitPage
    <2>3. ~(On("logs") /\ On("security"))
      BY DEF On
    <2>4. QED
      BY <2>1, <2>2, <2>3 DEF LogRowsDistinct, Log, NoRepeat
  <1>2. QED
    BY <1>1, PagesInvariant, PTL

\* The page never goes back to a worker key older than an answered rotation.
THEOREM KeysGoForward == Spec => []KeyFollowsRotation
PROOF
  <1>1. PagesInv => KeyFollowsRotation
    BY DEF PagesInv, KeyFollowsRotation, KeyOrder
  <1>2. QED
    BY <1>1, PagesInvariant, PTL

\* The uploads of one selection carry one key, unless it was thrown away.
THEOREM RetriesAreOneJob == Spec => []RetriesShareAKey
PROOF
  <1>1. PagesInv => RetriesShareAKey
    BY DEF PagesInv, RetriesShareAKey, SelectionKey
  <1>2. QED
    BY <1>1, PagesInvariant, PTL

\* What a page of the account confirms has happened.
THEOREM ConfirmationsAreTrue == Spec => []ConfirmationIsTrue
PROOF
  <1>1. PagesInv => ConfirmationIsTrue
    BY DEF PagesInv, ConfirmationIsTrue, HonestPage
  <1>2. QED
    BY <1>1, PagesInvariant, PTL

\* A captcha token is used for one request, whatever its answer.
THEOREM TokensAreUsedOnce == Spec => TokenUsedOnce
PROOF
  <1> DEFINE Used(r) == ui'.token # r.arg.token \/ r.arg.token = 0
  <1> DEFINE Step == \A r \in net \ net' :
                       (r.to = "verify" /\ On("home") /\ ui'.page = "home") \/ r.to = "contact"
                       => Used(r)
  <1>1. ASSUME PagesInv, HomeStep  PROVE Step
    <2>1. On("home")
      BY <1>1 DEF HomeStep
    <2>2. \A r \in net : r.to # "contact"
      BY <1>1, <2>1 DEF PagesInv, Sent
    <2>3. \A r \in net \ net' : r.to = "verify" /\ ui'.page = "home" => ui'.token = 0
      BY <1>1, <2>1, HomeSteady DEF PagesInv
    <2>4. QED
      BY <2>2, <2>3
  <1>2. ASSUME PagesInv, ContactStep  PROVE Step
    <2>1. On("contact") /\ ~On("home")
      BY <1>2 DEF ContactStep, On
    <2>2. \A r \in net \ net' : r.to = "contact" => ui'.token = 0
      BY <1>2, <2>1, ContactSteady DEF PagesInv
    <2>3. QED
      BY <2>1, <2>2
  <1>3. ASSUME PagesInv, ~On("home"), ~On("contact")  PROVE Step
    BY <1>3 DEF PagesInv, Sent
  <1>4. ASSUME PagesInv, [Next]_page  PROVE Step
    <2>1. CASE UNCHANGED page
      BY <2>1 DEF page
    <2>2. CASE Next /\ On("home")
      <3>1. HomeStep
        BY <2>2 DEF Next, On, UsersStep, ServerStep, JobControlStep, ApiKeysStep, CacheStep,
             LogsStep, LicenseStep, BrandStep, PackageStep, SmtpStep, ProfileStep, DomainStep,
             JobListStep, JobDetailsStep, UploadStep, VerifyStep, PaymentStep, CreditStep,
             HistoryStep, AccountStep, ContactStep, TransferStep, SecurityStep
      <3>2. QED
        BY <1>1, <1>4, <3>1
    <2>3. CASE Next /\ On("contact")
      <3>1. ContactStep
        BY <2>3 DEF Next, On, UsersStep, ServerStep, JobControlStep, ApiKeysStep, CacheStep,
             LogsStep, LicenseStep, BrandStep, PackageStep, SmtpStep, ProfileStep, DomainStep,
             JobListStep, JobDetailsStep, UploadStep, VerifyStep, HomeStep, PaymentStep,
             CreditStep, HistoryStep, AccountStep, TransferStep, SecurityStep
      <3>2. QED
        BY <1>2, <1>4, <3>1
    <2>4. QED
      BY <1>3, <1>4, <2>1, <2>2, <2>3
  <1>5. PagesInv /\ [Next]_page =>
          [\A r \in net \ net' :
             \/ r.to = "verify" /\ On("home") /\ ui'.page = "home"
             \/ r.to = "contact"
             => ui'.token # r.arg.token \/ r.arg.token = 0]_page
    BY <1>4
  <1>6. QED
    BY <1>5, PagesInvariant, PTL DEF Spec, TokenUsedOnce

=============================================================================
