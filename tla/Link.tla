-------------------------------- MODULE Link --------------------------------
(***************************************************************************)
(* What the pages may rely on: the live link of a tab to the server, and   *)
(* the indicator that shows it.  The indicator comes on only as the link   *)
(* comes up, and a link that was lost is shown until the loss is noticed.  *)
(***************************************************************************)
VARIABLES
  link,   \* "off": the tab wants none; "down", "up", or "lost": not noticed yet
  shown   \* the indicator

LinkInit == link = "off" /\ shown = FALSE

TurnOn == link = "off" /\ link' = "down" /\ UNCHANGED shown

GoUp == link = "down" /\ link' = "up" /\ shown' = TRUE

Lose == link = "up" /\ link' = "lost" /\ UNCHANGED shown

Notice == link = "lost" /\ link' = "down" /\ shown' = FALSE

TurnOff == link # "off" /\ link' = "off" /\ shown' = FALSE

LinkNext == TurnOn \/ GoUp \/ Lose \/ Notice \/ TurnOff

LinkSpec == LinkInit /\ [][LinkNext]_<<link, shown>>
=============================================================================
