----------------------------- MODULE MCShipment -----------------------------
(***************************************************************************)
(* Instances of Shipment for TLC.  The amount, the fee and the schedules   *)
(* are chosen so that integer division truncates: 10 tokens less a fee of  *)
(* 10% leave 9, and 33% of 9 is 2 with a remainder.                        *)
(***************************************************************************)
EXTENDS Audit

CONSTANTS pickup, port

NoMilestones == {<<>>}
\* None, one that adds up to 100% and one that does not.
TwoMilestones ==
    {<<>>, <<<<pickup, 33>>, <<port, 67>>>>, <<<<pickup, 33>>, <<port, 66>>>>}
=============================================================================
