------------------------------ MODULE MCLimits ------------------------------
(***************************************************************************)
(* An instance of Limits, and with it of Shipment and Audit, for TLC: two  *)
(* shipments, each with or without a milestone.                            *)
(***************************************************************************)
EXTENDS Limits

CONSTANT pickup

OneMilestone == {<<>>, <<<<pickup, 100>>>>}
=============================================================================
