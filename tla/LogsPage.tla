------------------------------ MODULE LogsPage ------------------------------
(***************************************************************************)
(* The system log page (app/admin/logs/logs-client.tsx), its store         *)
(* (stores/logs-store.ts) and the live entries (hooks/                    *)
(* use-logs-web-socket.ts).  A log entry is its number; every second one   *)
(* is an error.                                                           *)
(***************************************************************************)
EXTENDS Page, Sequences

CONSTANTS
  MaxLog,     \* bound: the entries ever written
  PAGE_SIZE,  \* entries of one answer; 50 in the code
  MAX_BUFFER  \* entries the page keeps; 500 in the code

Levels == {None, "ERROR"}
NoCursor == MaxLog + 1
Matches(level, l) == level = None \/ l % 2 = 0

First(n, rows) == SubSeq(rows, 1, IF n < Len(rows) THEN n ELSE Len(rows))

\* The entries of a list that are in a set, in their order.
Among(rows, S) ==
  LET kept[i \in 0 .. Len(rows)] ==
        IF i = 0 THEN <<>>
        ELSE IF rows[i] \in S THEN Append(kept[i - 1], rows[i]) ELSE kept[i - 1]
  IN  kept[Len(rows)]

\* What the server answers: the newest entries not yet cleared, below the
\* cursor, newest first, and whether there are more.
List(level, before) ==
  LET all == Among([i \in 1 .. ui.last |-> ui.last + 1 - i],
                   {l \in ui.cleared + 1 .. ui.last : l < before /\ Matches(level, l)})
  IN [rows |-> First(PAGE_SIZE, all), more |-> Len(all) > PAGE_SIZE]

\* The cursor is the last row of an answer that has more behind it.
Cursor(list) == IF list.more THEN list.rows[Len(list.rows)] ELSE 0

\* The store.
setInitial(u, list) ==
  [u EXCEPT !.rows = First(MAX_BUFFER, list.rows), !.more = list.more,
            !.cursor = Cursor(list)]

Shown(u) == {u.rows[i] : i \in 1 .. Len(u.rows)}

\* Mutant: what is shown already is not sorted out.
appendLogsBlindly(u, list) ==
  [u EXCEPT !.rows = First(MAX_BUFFER, @ \o list.rows), !.more = list.more,
            !.cursor = Cursor(list)]

appendLogs(u, list) ==
  LET new == Among(list.rows, (1 .. MaxLog) \ Shown(u))
  IN [u EXCEPT !.rows = First(MAX_BUFFER, @ \o new),
               !.more = list.more /\ Len(u.rows) + Len(new) < MAX_BUFFER,
               !.cursor = Cursor(list)]

addLiveLog(u, l) ==
  IF l \in Shown(u) THEN u ELSE [u EXCEPT !.rows = First(MAX_BUFFER, <<l>> \o @)]

clearLogs(u) == [u EXCEPT !.rows = <<>>, !.more = FALSE, !.cursor = 0]

Init ==
  \E n \in 0 .. MaxLog :
    LET empty == [page |-> "logs", busy |-> {}, rows |-> <<>>, more |-> TRUE,
                  cursor |-> 0, initial |-> FALSE, level |-> None,
                  dialog |-> FALSE, typed |-> FALSE, last |-> n, pushed |-> n,
                  cleared |-> 0]
        newest == [i \in 1 .. n |-> n + 1 - i]
        list == [rows |-> First(PAGE_SIZE, newest), more |-> n > PAGE_SIZE]
    IN IF n > 0
       THEN ui = setInitial(empty, list) /\ net = {}
       ELSE /\ ui = [setInitial(empty, list) EXCEPT !.busy = {"logs"}, !.initial = TRUE]
            /\ net = Ask({}, "logs", [mode |-> "reset", list |-> list])

\* loadPage of a render that saw "loading": it gives up while a page is being
\* loaded, and the other load's answer has to do.
loadPage(calls, u, loading, mode, level) ==
  IF loading THEN net' = calls /\ ui' = u
  ELSE LET before == IF mode = "append" /\ u.cursor # 0 THEN u.cursor ELSE NoCursor
       IN /\ net' = Ask(calls, "logs", [mode |-> mode, list |-> List(level, before)])
          /\ ui' = [u EXCEPT !.busy = @ \cup {"logs"}]

PageLoaded(r, out) ==
  /\ Settle(r, "logs")
  /\ LET done == [Freed("logs") EXCEPT !.initial = FALSE]
     IN ui' = IF out # "success" THEN done
              ELSE IF r.arg.mode = "reset" THEN setInitial(done, r.arg.list)
              ELSE appendLogs(done, r.arg.list)

\* A change of the level or of the search empties the list and reloads it.
FilterLevel(level) ==
  /\ CanCall /\ level # ui.level
  /\ LET u == clearLogs([ui EXCEPT !.level = level, !.initial = TRUE])
     IN loadPage(net, u, ~Ready("logs"), "reset", level)

\* The end of the list comes into view: the next page is appended.
Intersecting ==
  /\ CanCall /\ ui.more /\ Ready("logs") /\ ~ui.initial
  /\ loadPage(net, ui, FALSE, "append", ui.level)

handleRefresh ==
  /\ CanCall /\ Ready("logs") /\ ~ui.dialog
  /\ loadPage(net, clearLogs([ui EXCEPT !.initial = TRUE]), FALSE, "reset", ui.level)

handleOpenClearDialog ==
  ~ui.dialog /\ ui' = [ui EXCEPT !.dialog = TRUE, !.typed = FALSE] /\ UNCHANGED net

TypeClearPhrase ==
  /\ ui.dialog /\ Ready("clear")
  /\ ui' = [ui EXCEPT !.typed = ~@]
  /\ UNCHANGED net

CancelClear ==
  /\ ui.dialog /\ Ready("clear")
  /\ ui' = [ui EXCEPT !.dialog = FALSE, !.typed = FALSE]
  /\ UNCHANGED net

ClearDialog == ui.dialog /\ ui.typed /\ Ready("clear")

\* Clearing: the continuation closes over isLoading and the filter of the
\* moment of the click.
handleConfirmClear ==
  /\ ClearDialog
  /\ \E done \in BOOLEAN :
       /\ Send("clear", [done |-> done, loading |-> ~Ready("logs"), level |-> ui.level])
       /\ ui' = [ui EXCEPT !.busy = @ \cup {"clear"},
                           !.cleared = IF done THEN ui.last ELSE @]

Cleared(r, out) ==
  /\ r.to = "clear"
  /\ out # "thrown" => (out = "success" <=> r.arg.done)
  /\ LET u == Freed("clear")
     IN IF out = "success"
        THEN loadPage(net \ {r},
                      clearLogs([u EXCEPT !.dialog = FALSE, !.typed = FALSE, !.initial = TRUE]),
                      r.arg.loading, "reset", r.arg.level)
        ELSE net' = net \ {r} /\ ui' = u

\* The server writes an entry; it is pushed in order, or lost on the way.
WriteLog ==
  ui.last < MaxLog /\ ui' = [ui EXCEPT !.last = @ + 1] /\ UNCHANGED net

handleLogUpdate(lost) ==
  /\ ui.pushed < ui.last
  /\ LET u == [ui EXCEPT !.pushed = @ + 1]
     IN ui' = IF lost THEN u ELSE addLiveLog(u, u.pushed)
  /\ UNCHANGED net

Click ==
  \/ \E level \in Levels : FilterLevel(level)
  \/ Intersecting \/ handleRefresh
  \/ handleOpenClearDialog \/ TypeClearPhrase \/ CancelClear \/ handleConfirmClear
  \/ WriteLog
  \/ \E lost \in BOOLEAN : handleLogUpdate(lost)

Answer(r, out) == PageLoaded(r, out) \/ Cleared(r, out)
=============================================================================
