----------------------------- MODULE MCRealtime -----------------------------
(***************************************************************************)
(* The run of Realtime: one administrator and one customer; two requests   *)
(* to the session's handlers at once, so that the answers of two tabs      *)
(* cross; two sockets, so that one could be left behind; and one failure,  *)
(* wherever it happens.                                                   *)
(***************************************************************************)
EXTENDS Realtime
=============================================================================
