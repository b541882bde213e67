---------------------------- MODULE LicensePage ----------------------------
(***************************************************************************)
(* The license, backup and maintenance page of the administration         *)
(* (app/admin/license/license-client.tsx).                                *)
(***************************************************************************)
EXTENDS Page

CONSTANT Backups   \* the names of backup files

Kinds == {"Storage Data", "Database", "User Details"}

\* srv is what the server keeps.
Init ==
  \E b \in SUBSET Backups, m \in BOOLEAN :
    /\ ui = [page |-> "license", busy |-> {}, backups |-> b, srv |-> b,
             mode |-> m, srvMode |-> m, editing |-> FALSE, restore |-> None]
    /\ net = {}

\* A restore in progress, or its confirmation, covers the page.
Overlay == ~Ready("restore") \/ ui.restore # None

fetchSystemStatus(calls) == Ask(calls, "status", [backups |-> {}])
fetchBackups(calls) == Ask(calls, "backups", [backups |-> ui.srv])

RefreshStatus ==
  ~Overlay /\ CanCall /\ net' = fetchSystemStatus(net) /\ UNCHANGED ui

Fetched(r, out) ==
  /\ r.to \in {"status", "backups"}
  /\ net' = net \ {r}
  /\ ui' = IF r.to = "backups" /\ out = "success"
           THEN [ui EXCEPT !.backups = r.arg.backups] ELSE ui

ToggleMaintenance ==
  ~Overlay /\ ui' = [ui EXCEPT !.mode = ~@] /\ UNCHANGED net

MaintenanceButton == ~Overlay /\ Ready("maintenance")

handleSaveMaintenance ==
  /\ MaintenanceButton
  /\ \E done \in BOOLEAN :
       /\ Send("maintenance", [done |-> done])
       /\ ui' = [ui EXCEPT !.busy = @ \cup {"maintenance"},
                           !.srvMode = IF done THEN ui.mode ELSE @]

MaintenanceSaved(r, out) ==
  /\ Settle(r, "maintenance")
  /\ out # "thrown" => (out = "success" <=> r.arg.done)
  /\ ui' = Freed("maintenance")

\* Opening and closing the license form resets it, and isSubmitting with it.
EditLicense(open) ==
  /\ ~Overlay /\ ui.editing # open
  /\ ui' = [Freed("license") EXCEPT !.editing = open]
  /\ UNCHANGED net

LicenseForm == ~Overlay /\ ui.editing /\ Ready("license")

onLicenseSubmit == LicenseForm /\ Submit("license", [done |-> TRUE])

LicenseSaved(r, out) ==
  /\ Settle(r, "license")
  /\ ui' = IF out = "success" THEN [Freed("license") EXCEPT !.editing = FALSE]
           ELSE Freed("license")

\* One flag holds the three backup buttons.
BackupButtons == ~Overlay /\ Ready("backup")

generateBackup(kind) ==
  /\ BackupButtons
  /\ \E new \in SUBSET Backups :
       /\ Cardinality(new) <= 1
       /\ Send("backup", [kind |-> kind])
       /\ ui' = [ui EXCEPT !.busy = @ \cup {"backup"}, !.srv = @ \cup new]

\* An upload is a backup, or a release whose metadata are registered; dropping
\* a file is held off during an upload, like choosing one.
UploadZone == ~Overlay /\ Ready("upload")

uploadBackupFile(release) ==
  /\ UploadZone
  /\ \E new \in SUBSET Backups :
       /\ Cardinality(new) <= 1
       /\ Send("upload", [release |-> release])
       /\ ui' = [ui EXCEPT !.busy = @ \cup {"upload"},
                           !.srv = IF release THEN @ ELSE @ \cup new]

Stored(r, out) ==
  /\ r.to \in {"backup", "upload"}
  /\ net' = IF out # "success" THEN net \ {r}
            ELSE IF r.to = "upload" /\ r.arg.release THEN fetchSystemStatus(net \ {r})
            ELSE fetchBackups(net \ {r})
  /\ ui' = Freed(r.to)

\* A row: deletion is sent at once and takes the row away on success.
deleteBackup(b) ==
  /\ ~Overlay /\ b \in ui.backups
  /\ \E done \in BOOLEAN :
       /\ Send("delete", [name |-> b, done |-> done])
       /\ ui' = [ui EXCEPT !.srv = IF done THEN @ \ {b} ELSE @]

BackupDeleted(r, out) ==
  /\ Settle(r, "delete")
  /\ out # "thrown" => (out = "success" <=> r.arg.done)
  /\ ui' = IF out = "success" THEN [ui EXCEPT !.backups = @ \ {r.arg.name}] ELSE ui

OpenRestore(b) ==
  /\ ~Overlay /\ b \in ui.backups
  /\ ui' = [ui EXCEPT !.restore = b]
  /\ UNCHANGED net

CancelRestore ==
  /\ Ready("restore") /\ ui.restore # None
  /\ ui' = [ui EXCEPT !.restore = None]
  /\ UNCHANGED net

RestoreDialog == Ready("restore") /\ ui.restore # None

startRestore ==
  /\ RestoreDialog
  /\ ui' = [ui EXCEPT !.busy = @ \cup {"restore"}, !.restore = None]
  /\ Send("restore", [name |-> ui.restore])

Restored(r, out) ==
  /\ r.to = "restore"
  /\ net' = IF out = "success" THEN fetchBackups(fetchSystemStatus(net \ {r}))
            ELSE net \ {r}
  /\ ui' = Freed("restore")

Click ==
  \/ RefreshStatus \/ ToggleMaintenance \/ handleSaveMaintenance
  \/ \E open \in BOOLEAN : EditLicense(open)
  \/ onLicenseSubmit
  \/ \E kind \in Kinds : generateBackup(kind)
  \/ \E release \in BOOLEAN : uploadBackupFile(release)
  \/ \E b \in Backups : deleteBackup(b) \/ OpenRestore(b)
  \/ CancelRestore \/ startRestore

Answer(r, out) ==
  \/ Fetched(r, out) \/ MaintenanceSaved(r, out) \/ LicenseSaved(r, out)
  \/ Stored(r, out) \/ BackupDeleted(r, out) \/ Restored(r, out)
=============================================================================
