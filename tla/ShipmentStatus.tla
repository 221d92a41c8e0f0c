--------------------------- MODULE ShipmentStatus ---------------------------
(***************************************************************************)
(* The shipment statuses and the two transition tables of the contract:    *)
(* ShipmentStatus::is_valid_transition (types.rs), which update_status and *)
(* confirm_delivery consult, and is_valid_recovery_transition              *)
(* (recovery.rs), which the admin's recover_shipment consults.             *)
(***************************************************************************)

\* The variants of enum ShipmentStatus.
ShipmentStatus ==
    {"Created", "InTransit", "AtCheckpoint", "PartiallyDelivered",
     "Delivered", "Disputed", "Cancelled", "PartiallyRefunded"}

\* The two statuses finalize_if_settled and archive_shipment treat as the end.
Terminal == {"Delivered", "Cancelled"}

\* The arms of the match, as the set of targets of each source.  The guarded
\* arms (_, Cancelled) and (_, Disputed) add nothing to the explicit ones:
\* Delivered, Cancelled and Disputed are excluded from them or already listed,
\* and PartiallyRefunded is cut off by an earlier arm.
is_valid_transition(from, to) ==
    to \in CASE from = "Created" -> {"InTransit", "Cancelled", "Disputed"}
             [] from = "InTransit" ->
                  {"AtCheckpoint", "PartiallyDelivered", "Delivered",
                   "Disputed", "Cancelled"}
             [] from = "AtCheckpoint" ->
                  {"InTransit", "PartiallyDelivered", "Delivered",
                   "Disputed", "Cancelled"}
             [] from = "PartiallyDelivered" ->
                  {"PartiallyDelivered", "Delivered", "Disputed", "Cancelled"}
             [] from = "Disputed" ->
                  {"Cancelled", "Delivered", "PartiallyRefunded"}
             [] OTHER -> {}

\* (_, Cancelled) comes first in the match, so it is allowed even from the
\* terminal states that the later arm rejects.
is_valid_recovery_transition(from, to) ==
    \/ to = "Cancelled"
    \/ to = "Disputed" /\ from \in {"Created", "InTransit", "AtCheckpoint"}
    \/ to = "Delivered" /\ from \in {"Disputed", "InTransit", "AtCheckpoint"}
    \/ <<from, to>> \in {<<"Created", "InTransit">>,
                         <<"InTransit", "AtCheckpoint">>,
                         <<"AtCheckpoint", "InTransit">>}
=============================================================================
