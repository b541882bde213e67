--------------------------- MODULE MCBulkAccept ---------------------------
(***************************************************************************)
(* Values for the runs of BulkAccept: the key "upload" stands for a list   *)
(* of two chargeable addresses, "junk" for one without any, and "big" for  *)
(* one that two credits cannot pay.                                        *)
(***************************************************************************)
EXTENDS BulkAccept, TLC

ListCharge == [k \in Keys |-> CASE k = "junk" -> 0 [] k = "big" -> 3
                                  [] OTHER -> 2]

Bound(blip, forget, mute, send, refund, slow, crash) ==
  [e \in Events |->
     CASE e = "blip" -> blip [] e = "forget" -> forget [] e = "mute" -> mute
       [] e = "queue" -> send [] e = "refund" -> refund
       [] e = "slow" -> slow [] e = "crash" -> crash]

\* One failure of each kind.
FaultLimits == Bound(1, 1, 1, 1, 1, 1, 1)

NoFault == Bound(0, 0, 0, 0, 0, 0, 0)
=============================================================================
