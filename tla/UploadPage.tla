----------------------------- MODULE UploadPage -----------------------------
(***************************************************************************)
(* The bulk upload form (features/bulk-upload/components/form.tsx) against *)
(* what the API makes of a submission: one job for each idempotency key.  *)
(* A selection of a file is a number, and so is a key.                    *)
(***************************************************************************)
EXTENDS Page, DashboardStore

CONSTANTS
  Costs,      \* what the job of a file may cost
  Credits,    \* what the user may have at first
  MaxSelect,  \* bound: the files selected
  MaxKey      \* bound: the keys minted

\* srv holds the credits and the jobs of the server; spoiled says that the
\* selection's key was thrown away without the selection.
Init ==
  \E c \in Credits, seen \in {<<>>} \cup {<<n>> : n \in Credits}, m \in BOOLEAN :
    /\ ui = [page |-> "upload", busy |-> {}, maintenance |-> m, shown |-> seen, balance |-> c,
             srv |-> [credits |-> c, jobs |-> {}], file |-> <<>>, picked |-> 0,
             key |-> 0, minted |-> 0, stats |-> 0, spoiled |-> FALSE]
    /\ net = {}

\* A file of the wrong kind or size is turned away, after the key and the
\* outcome of the last upload have been cleared.
handleFileSelect(cost, good) ==
  /\ ui.picked < MaxSelect /\ ui.minted < MaxKey
  /\ ui' = IF good
           THEN [ui EXCEPT !.stats = 0, !.picked = @ + 1, !.minted = @ + 1,
                           !.key = ui.minted + 1, !.file = <<[id |-> ui.picked + 1, cost |-> cost]>>]
           ELSE [ui EXCEPT !.stats = 0, !.key = 0, !.spoiled = @ \/ ui.file # <<>>]
  /\ UNCHANGED net

\* Dropping a file is always possible, choosing one while there is none.
handleDrop == ~ui.maintenance
ChooseFile == ui.file = <<>> /\ Ready("upload") /\ ~ui.maintenance

SelectFile ==
  (handleDrop \/ ChooseFile) /\ \E cost \in Costs, good \in BOOLEAN : handleFileSelect(cost, good)

ClearFile ==
  /\ ui.file # <<>>
  /\ ui' = [ui EXCEPT !.file = <<>>, !.key = 0]
  /\ UNCHANGED net

available == IF ui.shown # <<>> THEN ui.shown[1] ELSE ui.balance

UploadButton == ui.file # <<>> /\ ~ui.maintenance /\ Ready("upload")

\* What the API makes of a file and its key: the job the key already has, a
\* new one that is charged, or a refusal.
Submission(cost, key) ==
  LET jobOf == {job \in ui.srv.jobs : job.key = key}
  IN CASE jobOf # {} -> {"duplicate", "refused"}
       [] jobOf = {} /\ ui.srv.credits >= cost -> {"created", "refused"}
       [] OTHER -> {"refused"}

\* A key is minted when the selection has none.  Mutant: for every try.
MintAlways == TRUE
Mint == ui.key = 0

handleUpload ==
  /\ UploadButton /\ available >= 1
  /\ LET file == ui.file[1]
         key == IF Mint THEN ui.minted + 1 ELSE ui.key
     IN /\ key <= MaxKey
        /\ \E made \in Submission(file.cost, key) :
             /\ Send("upload", [made |-> made, cost |-> file.cost, key |-> key,
                                available |-> available, shown |-> ui.shown])
             /\ ui' = [ui EXCEPT
                         !.busy = @ \cup {"upload"}, !.key = key,
                         !.minted = IF Mint THEN key ELSE @,
                         !.srv = IF made = "created"
                                 THEN [credits |-> @.credits - file.cost,
                                       jobs |-> @.jobs \cup {[file |-> file.id, key |-> key]}]
                                 ELSE @]

Minus(a, b) == IF a > b THEN a - b ELSE 0

\* The charge is taken off the statistics as they were at the click, and off
\* the balance as it is now, both only if there were statistics at the click;
\* then the statistics are fetched.
Charged(u, arg) ==
  IF arg.shown = <<>> THEN u
  ELSE SetStats([u EXCEPT !.balance = Minus(@, arg.cost)], Minus(arg.shown[1], arg.cost))

\* A success takes the selection and the key away, whatever they are by now.
Uploaded(r, out) ==
  /\ r.to = "upload"
  /\ out # "thrown" => (out = "success" <=> r.arg.made # "refused")
  /\ LET u == Freed("upload")
         done == [u EXCEPT !.stats = r.arg.key, !.key = 0, !.file = <<>>]
     IN IF out # "success" \/ (r.arg.made = "created" /\ r.arg.cost > r.arg.available)
        THEN net' = net \ {r} /\ ui' = u
        ELSE IF r.arg.made = "duplicate" THEN net' = net \ {r} /\ ui' = done
        ELSE /\ net' = Fetching(net \ {r}, ui.srv.credits)
             /\ ui' = Loading(Charged(done, r.arg))

\* The statistics are pushed after a change.
StatsPushed ==
  /\ ui.shown # <<ui.srv.credits>>
  /\ ui' = SetStats(ui, ui.srv.credits)
  /\ UNCHANGED net

Click == SelectFile \/ ClearFile \/ handleUpload \/ StatsPushed

Answer(r, out) == Uploaded(r, out) \/ FetchedStats(r, out)
=============================================================================
