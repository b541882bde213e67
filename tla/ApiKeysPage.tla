---------------------------- MODULE ApiKeysPage ----------------------------
(***************************************************************************)
(* The API keys of a user (features/api-keys/components/                  *)
(* api-keys-client.tsx).  A key is a number, its token the pair of the     *)
(* number and the rotation it comes from.                                 *)
(***************************************************************************)
EXTENDS Page, DashboardStore

CONSTANTS
  KeyLimit,    \* the active keys a user may have; 5 in the code
  MaxRotation  \* bound: rotations of one key

KeyIds == 1 .. KeyLimit + 1

\* What the server holds: live, the active keys; made, the last key created;
\* srv, the rotations of each.

Init ==
  /\ ui = [page |-> "apikeys", busy |-> {}, keys |-> {}, srv |-> [k \in KeyIds |-> 0],
           live |-> {}, made |-> 0, latest |-> <<>>, detail |-> 0, rotate |-> 0, revoke |-> 0,
           shown |-> <<>>]
  /\ net = Ask({}, "keys", [keys |-> {}])

fetchKeys(calls, live) == Ask(calls, "keys", [keys |-> live])

FetchedKeys(r, out) ==
  /\ Settle(r, "keys")
  /\ ui' = IF out = "success" THEN [ui EXCEPT !.keys = r.arg.keys] ELSE ui

isLimitReached == Cardinality(ui.keys) >= KeyLimit

\* A dialog covers the page.
Uncovered == ui.detail = 0 /\ ui.rotate = 0 /\ ui.revoke = 0

CreateForm == Uncovered /\ ~isLimitReached /\ Ready("create")

\* The server creates the key or refuses; its answer may be lost.
onCreateKey ==
  /\ CreateForm
  /\ \E done \in BOOLEAN :
       LET new == ui.made + 1
       IN /\ done => Cardinality(ui.live) < KeyLimit /\ new \in KeyIds
          /\ Send("create", [done |-> done, key |-> IF done THEN new ELSE 0])
          /\ ui' = [ui EXCEPT !.busy = @ \cup {"create"},
                              !.made = IF done THEN new ELSE @,
                              !.live = IF done THEN @ \cup {new} ELSE @]

\* Keys and statistics are read again.
Refreshed(r) == Fetching(fetchKeys(net \ {r}, ui.live), 0)

KeyCreated(r, out) ==
  /\ r.to = "create"
  /\ out # "thrown" => (out = "success" <=> r.arg.done)
  /\ IF out = "success"
     THEN /\ net' = Refreshed(r)
          /\ ui' = Loading([Freed("create") EXCEPT !.latest = <<r.arg.key, ui.srv[r.arg.key]>>])
     ELSE Settle(r, "create") /\ ui' = Freed("create")

DismissLatest ==
  /\ Uncovered /\ ui.latest # <<>>
  /\ ui' = [ui EXCEPT !.latest = <<>>]
  /\ UNCHANGED net

\* The menu of a row; rotation and revocation are offered for active keys.
OpenKeyDialog(d, k) ==
  /\ Uncovered /\ k \in ui.keys
  /\ ui' = [ui EXCEPT ![d] = k]
  /\ UNCHANGED net

CloseDetail == ui.detail # 0 /\ ui' = [ui EXCEPT !.detail = 0] /\ UNCHANGED net

\* Both confirmations hold their buttons while they wait.
RotateDialog == ui.rotate # 0 /\ Ready("rotate")
RevokeDialog == ui.revoke # 0 /\ Ready("revoke")

CancelRotate == RotateDialog /\ ui' = [ui EXCEPT !.rotate = 0] /\ UNCHANGED net
CancelRevoke == RevokeDialog /\ ui' = [ui EXCEPT !.revoke = 0] /\ UNCHANGED net

handleRotateKey ==
  /\ RotateDialog
  /\ \E done \in BOOLEAN :
       LET now == IF done THEN ui.srv[ui.rotate] + 1 ELSE ui.srv[ui.rotate]
       IN /\ done => ui.rotate \in ui.live /\ now <= MaxRotation
          /\ Send("rotate", [done |-> done, token |-> <<ui.rotate, now>>])
          /\ ui' = [ui EXCEPT !.busy = @ \cup {"rotate"}, !.srv[ui.rotate] = now]

KeyRotated(r, out) ==
  /\ r.to = "rotate"
  /\ out # "thrown" => (out = "success" <=> r.arg.done)
  /\ IF out = "success"
     THEN /\ net' = fetchKeys(net \ {r}, ui.live)
          /\ ui' = [Freed("rotate") EXCEPT !.latest = r.arg.token, !.rotate = 0]
     ELSE Settle(r, "rotate") /\ ui' = Freed("rotate")

handleRevokeKey ==
  /\ RevokeDialog
  /\ \E done \in BOOLEAN :
       /\ Send("revoke", [done |-> done])
       /\ ui' = [ui EXCEPT !.busy = @ \cup {"revoke"},
                           !.live = IF done THEN @ \ {ui.revoke} ELSE @]

KeyRevoked(r, out) ==
  /\ r.to = "revoke"
  /\ out # "thrown" => (out = "success" <=> r.arg.done)
  /\ IF out = "success"
     THEN net' = Refreshed(r) /\ ui' = Loading([Freed("revoke") EXCEPT !.revoke = 0])
     ELSE Settle(r, "revoke") /\ ui' = Freed("revoke")

Click ==
  \/ onCreateKey \/ DismissLatest
  \/ \E d \in {"detail", "rotate", "revoke"}, k \in KeyIds : OpenKeyDialog(d, k)
  \/ CloseDetail \/ CancelRotate \/ CancelRevoke
  \/ handleRotateKey \/ handleRevokeKey

Answer(r, out) ==
  \/ FetchedKeys(r, out) \/ KeyCreated(r, out) \/ KeyRotated(r, out)
  \/ KeyRevoked(r, out) \/ FetchedStats(r, out)
=============================================================================
