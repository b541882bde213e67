---------------------------- MODULE SecurityPage ----------------------------
(***************************************************************************)
(* The public verifier page of the administration (app/admin/public-      *)
(* verifier/_components/security-dashboard-client.tsx), its store          *)
(* (stores/security-store.ts) and the entries pushed to it (hooks/        *)
(* use-security-web-socket.ts).  A visit and a block are numbers in the    *)
(* order they happened.                                                   *)
(***************************************************************************)
EXTENDS Page, Sequences

CONSTANTS
  MaxVisit, MaxBlock,  \* bounds: the checks of visitors, the blocks
  Controls,            \* the settings of the page, "toggle" and "limit"
  MAX_SHOWN            \* 50 in the code

First(n, rows) == SubSeq(rows, 1, IF n < Len(rows) THEN n ELSE Len(rows))
Newest(n) == First(MAX_SHOWN, [i \in 1 .. n |-> n + 1 - i])
Shown(u) == {u.rows[i] : i \in 1 .. Len(u.rows)}

\* A setting has one of two values.
Values == [Controls -> BOOLEAN]

\* What the three requests of initialize read.
Read(srv) == [set |-> srv.set, count |-> Cardinality(srv.blocked),
              rows |-> Newest(srv.visits), blocked |-> srv.blocked]

\* hydrate: all three at once, from the server's rendering of the page.
hydrate(u, read) ==
  [u EXCEPT !.set = read.set, !.count = read.count, !.rows = read.rows,
            !.blocked = read.blocked, !.loaded = TRUE]

initialize(calls, srv) == Ask(calls, "dashboard", Read(srv))

\* The page with a store that holds nothing yet.
Fresh(srv) ==
  [page |-> "security", busy |-> {}, rows |-> <<>>, blocked |-> {}, count |-> 0,
   set |-> [c \in Controls |-> TRUE], loaded |-> FALSE,
   srv |-> srv, heard |-> [visits |-> srv.visits, blocks |-> srv.blocks]]

\* The store starts empty, from the rendered page, or with what it held when
\* the page was last left; only the second asks for nothing.
Init ==
  \E v \in 0 .. MaxVisit, old \in 0 .. MaxVisit, k \in 0 .. MaxBlock, s, t \in Values :
    \E b \in SUBSET (1 .. k) :
      LET srv == [visits |-> v, blocks |-> k, blocked |-> b, set |-> s]
          visited == [srv EXCEPT !.visits = old, !.set = t]
      IN /\ old <= v
         /\ \/ ui = Fresh(srv) /\ net = initialize({}, srv)
            \/ ui = hydrate(Fresh(srv), Read(srv)) /\ net = {}
            \/ ui = hydrate(Fresh(srv), Read(visited)) /\ net = initialize({}, srv)

\* "Force Sync": nothing keeps two of them from overlapping.
ForceSync == CanCall /\ net' = initialize(net, ui.srv) /\ UNCHANGED ui

\* initialize: dashboard, log and blocklist one after the other; each success
\* is put into the store, and a request that is thrown ends it.
LoadedDashboard(r, out) ==
  /\ r.to = "dashboard"
  /\ net' = IF out = "thrown" THEN net \ {r} ELSE Ask(net \ {r}, "verify-logs", Read(ui.srv))
  /\ ui' = IF out = "success" THEN [ui EXCEPT !.set = r.arg.set, !.count = r.arg.count] ELSE ui

LoadedLogs(r, out) ==
  /\ r.to = "verify-logs"
  /\ net' = IF out = "thrown" THEN net \ {r} ELSE Ask(net \ {r}, "blocklist", Read(ui.srv))
  /\ ui' = IF out = "success" THEN [ui EXCEPT !.rows = r.arg.rows] ELSE ui

LoadedBlocklist(r, out) ==
  /\ Settle(r, "blocklist")
  /\ LET u == IF out = "success" THEN [ui EXCEPT !.blocked = r.arg.blocked] ELSE ui
     IN ui' = IF out = "thrown" THEN u ELSE [u EXCEPT !.loaded = TRUE]

\* A visitor checks an address; a visitor is blocked.
Visit ==
  /\ ui.srv.visits < MaxVisit
  /\ ui' = [ui EXCEPT !.srv.visits = @ + 1]
  /\ UNCHANGED net

Block ==
  /\ ui.srv.blocks < MaxBlock
  /\ ui' = [ui EXCEPT !.srv.blocks = @ + 1, !.srv.blocked = @ \cup {ui.srv.blocks + 1}]
  /\ UNCHANGED net

\* The pushed entries, in order, some of which the socket misses.
addLog(l) ==
  /\ l \in ui.heard.visits + 1 .. ui.srv.visits
  /\ LET u == [ui EXCEPT !.heard.visits = l]
     IN ui' = IF l \in Shown(ui) THEN u ELSE [u EXCEPT !.rows = First(MAX_SHOWN, <<l>> \o @)]
  /\ UNCHANGED net

addBlocked(b) ==
  /\ b \in ui.heard.blocks + 1 .. ui.srv.blocks
  /\ LET u == [ui EXCEPT !.heard.blocks = b]
     IN ui' = IF b \in ui.blocked THEN u
              ELSE [u EXCEPT !.blocked = @ \cup {b}, !.count = @ + 1]
  /\ UNCHANGED net

\* A control shows its new value at once.  The value to go back to is read
\* after that, so a change that is refused stays on the page.
handleSettingsUpdate(c) ==
  /\ CanCall
  /\ LET value == ~ui.set[c]
         shown == [ui EXCEPT !.set[c] = value]
     IN \E done \in BOOLEAN :
          /\ net' = Ask(net, "settings", [done |-> done, control |-> c, prev |-> shown.set[c]])
          /\ ui' = IF done THEN [shown EXCEPT !.srv.set[c] = value] ELSE shown

SettingsUpdated(r, out) ==
  /\ Settle(r, "settings")
  /\ out # "thrown" => (out = "success" <=> r.arg.done)
  /\ ui' = IF out = "success" THEN ui ELSE [ui EXCEPT !.set[r.arg.control] = r.arg.prev]

\* Unblocking asks for the word UNBLOCK; what is typed goes to the server.
unblockClient(b) ==
  /\ CanCall /\ b \in ui.blocked
  /\ \E typed \in BOOLEAN :
       LET done == typed /\ b \in ui.srv.blocked
       IN /\ net' = Ask(net, "unblock", [done |-> done, id |-> b])
          /\ ui' = IF done THEN [ui EXCEPT !.srv.blocked = @ \ {b}] ELSE ui

Unblocked(r, out) ==
  /\ Settle(r, "unblock")
  /\ out # "thrown" => (out = "success" <=> r.arg.done)
  /\ ui' = IF out # "success" THEN ui
           ELSE [ui EXCEPT !.blocked = @ \ {r.arg.id}, !.count = IF @ > 0 THEN @ - 1 ELSE 0]

Click ==
  \/ ForceSync \/ Visit \/ Block
  \/ \E l \in 1 .. MaxVisit : addLog(l)
  \/ \E b \in 1 .. MaxBlock : addBlocked(b) \/ unblockClient(b)
  \/ \E c \in Controls : handleSettingsUpdate(c)

Answer(r, out) ==
  \/ LoadedDashboard(r, out) \/ LoadedLogs(r, out) \/ LoadedBlocklist(r, out)
  \/ SettingsUpdated(r, out) \/ Unblocked(r, out)
=============================================================================
