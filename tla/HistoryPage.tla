---------------------------- MODULE HistoryPage ----------------------------
(***************************************************************************)
(* The credit history (app/(dashboard)/dashboard/credits/history/         *)
(* history-client.tsx).  Rows are known by the offset they answer.        *)
(***************************************************************************)
EXTENDS Page

CONSTANTS
  MaxRows,  \* bound: the transactions of the user
  limit     \* rows of one page; 10 in the code

Init ==
  \E n \in 0 .. MaxRows :
    /\ ui = [page |-> "history", busy |-> {}, offset |-> 0, rows |-> 0, total |-> n, srv |-> n]
    /\ net = Ask({}, "stats", [offset |-> 0, total |-> 0])

\* fetchData closes over the offset: the statistics, then the transactions.
fetchData(offset) == Send("stats", [offset |-> offset, total |-> 0])

StatsFetched(r, out) ==
  /\ IF out = "thrown" THEN Settle(r, "stats")
     ELSE SettleAndAsk(r, "stats", "history", [offset |-> r.arg.offset, total |-> ui.srv])
  /\ UNCHANGED ui

TransactionsFetched(r, out) ==
  /\ Settle(r, "history")
  /\ ui' = IF out = "success" THEN [ui EXCEPT !.rows = r.arg.offset, !.total = r.arg.total]
           ELSE ui

OnFocus == fetchData(ui.offset) /\ UNCHANGED ui

TurnPage(offset) ==
  /\ ui.total > ui.rows
  /\ \/ ui.offset > 0 /\ offset = IF ui.offset < limit THEN 0 ELSE ui.offset - limit
     \/ offset = ui.offset + limit /\ offset < ui.total
  /\ ui' = [ui EXCEPT !.offset = offset]
  /\ fetchData(offset)

\* A credit is used or bought.
Recorded == ui.srv < MaxRows /\ ui' = [ui EXCEPT !.srv = @ + 1] /\ UNCHANGED net

Click == OnFocus \/ Recorded \/ \E offset \in 0 .. MaxRows : TurnPage(offset)

Answer(r, out) == StatsFetched(r, out) \/ TransactionsFetched(r, out)
=============================================================================
