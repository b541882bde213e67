------------------------------ MODULE MCPages ------------------------------
(***************************************************************************)
(* The runs of Pages: one page is open at a time, and the configuration    *)
(* says which may be (Start).  A page has the one row, or the two, that its *)
(* hazards need (two packages, one of which is popular; two settings, one  *)
(* of which is saved), and two requests in flight, so that their answers   *)
(* can cross.                                                             *)
(***************************************************************************)
EXTENDS Pages
=============================================================================
