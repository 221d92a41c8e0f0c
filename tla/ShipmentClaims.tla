--------------------------- MODULE ShipmentClaims ---------------------------
(***************************************************************************)
(* What comments of the source say of the shipment contract and the code   *)
(* does not do.  Each property is the claim as it is written; the run that *)
(* checks it ends in a counterexample.                                     *)
(***************************************************************************)
EXTENDS MCShipment

\* lib.rs, on cancel_shipment: "If escrow exists, triggers automatic refund
\* to the Company."  A shipment that turns Cancelled and whose escrow is
\* cleared in the same step gives the sender that escrow back.
CancelRefunds ==
    [][\A i \in Ids :
          LET r == ship[i] IN
          /\ r.status \notin Terminal
          /\ ship'[i].status = "Cancelled" /\ ship'[i].escrow < r.escrow
          => bal'[r.sender] = bal[r.sender] + r.escrow]_vars
=============================================================================
