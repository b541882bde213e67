--------------------------- MODULE DashboardStore ---------------------------
(***************************************************************************)
(* The dashboard statistics every page of a user shares                    *)
(* (stores/dashboard-store.ts): the number of credits they show.  A page   *)
(* that uses them has a field "shown", <<n>>, or <<>> when it is not known. *)
(***************************************************************************)
EXTENDS Page

\* fetchStats(TRUE): the calls with the request for the statistics added, and
\* the page with isLoadingStats set.
Fetching(calls, credits) == Ask(calls, "stats", [credits |-> credits])
Loading(u) == [u EXCEPT !.busy = @ \cup {"stats"}]

\* setStats, also called when the statistics are pushed.
SetStats(u, credits) == [u EXCEPT !.shown = <<credits>>]

\* What the socket pushes to a page that shows a balance (app-shell.tsx): the
\* statistics, the balance alone, or the user, whose statistics are asked for
\* when the page has none.
StatsUpdate ==
  /\ ui.shown # <<ui.srv>>
  /\ ui' = SetStats(ui, ui.srv)
  /\ UNCHANGED net

CreditUpdate ==
  /\ ui.balance # ui.srv
  /\ ui' = [ui EXCEPT !.balance = ui.srv]
  /\ UNCHANGED net

UserUpdate ==
  /\ ui.balance # ui.srv
  /\ LET u == [ui EXCEPT !.balance = ui.srv]
     IN IF ui.shown # <<>> THEN ui' = SetStats(u, ui.srv) /\ UNCHANGED net
        ELSE CanCall /\ net' = Fetching(net, ui.srv) /\ ui' = Loading(u)

FetchedStats(r, out) ==
  /\ Settle(r, "stats")
  /\ ui' = IF out = "success" THEN SetStats(Freed("stats"), r.arg.credits)
           ELSE Freed("stats")
=============================================================================
