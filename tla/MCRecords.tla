----------------------------- MODULE MCRecords -----------------------------
(***************************************************************************)
(* An instance of Records for TLC: one shipment, with or without a         *)
(* milestone.  A deposit of 10 pays a fee and one of 5, the fee being      *)
(* rounded down, does not.                                                 *)
(***************************************************************************)
EXTENDS Records

CONSTANT pickup

OneMilestone == {<<>>, <<<<pickup, 100>>>>}
=============================================================================
