------------------------------- MODULE Audit -------------------------------
(***************************************************************************)
(* What the shipment contract reports about its own state: the consistency *)
(* audit of consistency.rs, whole and page by page, the health check of    *)
(* diagnostics.rs and the summaries by status and by storage.              *)
(*                                                                         *)
(* These entry points change nothing, so they are operators on the state   *)
(* of module Shipment.  A list of violations is the set of its members.    *)
(* The two checks on timestamps are left out, the timestamps being so.     *)
(***************************************************************************)
EXTENDS Shipment

MAX_BATCH_QUERY_SIZE == 50
DEFAULT_CONSISTENCY_SAMPLE_LIMIT == 100
DEFAULT_HEALTH_SAMPLE_LIMIT == 100

get_shipment_count == counter

get_escrow_balance(i) == escrowKey[i]

effective_batch_query_limit == MAX_BATCH_QUERY_SIZE

\* The last id of the window that starts at start_id.
WindowEnd(start_id, limit) ==
    IF start_id + limit - 1 < get_shipment_count
    THEN start_id + limit - 1 ELSE get_shipment_count

-----------------------------------------------------------------------------
(***************************************************************************)
(* consistency.rs                                                          *)
(***************************************************************************)
check_shipment_invariants(i) ==
    LET r == ship[i]
        found == [EscrowMismatch |-> r.escrow # get_escrow_balance(i),
                  InvalidFinalization |->
                      r.finalized /\ (r.status \notin Terminal \/ r.escrow # 0),
                  MilestoneViolation |-> ~ r.paid \subseteq Symbols(r.schedule)]
    IN  IF ~ get_shipment(i)
        THEN {<<"MissingShipment", i>>}
        ELSE {<<v, i>> : v \in {w \in DOMAIN found : found[w]}}

\* The counters are compared only when the window is the whole set.
check_status_count_consistency_range(start_id, end_id) ==
    LET Actual(s) == Cardinality({i \in start_id .. end_id :
                                     get_shipment(i) /\ ship[i].status = s})
        is_full_scan == start_id = 1 /\ end_id >= get_shipment_count
    IN  IF /\ start_id \in 1 .. get_shipment_count
           /\ is_full_scan
           /\ \E s \in ShipmentStatus : statusCount[s] # Actual(s)
        THEN {<<"StatusCountMismatch">>}
        ELSE {}

check_all_consistency_range(start_id, limit) ==
    LET end_id == WindowEnd(start_id, limit) IN
    IF start_id \notin 1 .. get_shipment_count \/ limit = 0
    THEN {}
    ELSE UNION {check_shipment_invariants(i) : i \in start_id .. end_id}
             \cup check_status_count_consistency_range(start_id, end_id)

check_all_consistency ==
    check_all_consistency_range(1, DEFAULT_CONSISTENCY_SAMPLE_LIMIT)

\* For the admin and operators.
check_consistency_violations == check_all_consistency

-----------------------------------------------------------------------------
(***************************************************************************)
(* diagnostics.rs, without the list storage_inconsistencies: that one      *)
(* needs the entries module Records adds.                                  *)
(***************************************************************************)
\* Mutant of run_system_health_check_range: the window is one id too long.
run_health_check_overlapping(start_id, limit) ==
    LET over == Terminal \cup {"Disputed"}
        found == {i \in start_id .. WindowEnd(start_id, limit + 1) : get_shipment(i)}
        active == {i \in found : ship[i].status \notin over}
    IN
    [sum_of_escrow_balances |->
         SumTo([i \in Ids |-> IF i \in found THEN ship[i].escrow ELSE 0],
               MaxShipments),
     active_shipments_counted |-> Cardinality(active),
     anomalous_shipment_ids |->
         {i \in active : ship[i].status = "InTransit" /\ ship[i].deadline < now}]

run_system_health_check_range(start_id, limit) ==
    LET over == Terminal \cup {"Disputed"}
        found == {i \in start_id .. WindowEnd(start_id, limit) : get_shipment(i)}
        active == {i \in found : ship[i].status \notin over}
    IN
    [sum_of_escrow_balances |->
         SumTo([i \in Ids |-> IF i \in found THEN ship[i].escrow ELSE 0],
               MaxShipments),
     active_shipments_counted |-> Cardinality(active),
     anomalous_shipment_ids |->
         {i \in active : ship[i].status = "InTransit" /\ ship[i].deadline < now}]

run_system_health_check ==
    run_system_health_check_range(1, DEFAULT_HEALTH_SAMPLE_LIMIT)

\* For the admin and operators, both of them.
check_contract_health == run_system_health_check

check_contract_health_paginated(start_id, limit) ==
    IF limit \in 1 .. effective_batch_query_limit
    THEN run_system_health_check_range(start_id, limit)
    ELSE "InvalidConfig"

-----------------------------------------------------------------------------
(***************************************************************************)
(* The summaries.                                                          *)
(***************************************************************************)
get_status_count(s) == statusCount[s]

\* There is no field for PartiallyRefunded.
get_status_summary ==
    [s \in ShipmentStatus \ {"PartiallyRefunded"} |-> get_status_count(s)]

get_non_terminal_count ==
    get_status_count("Created") + get_status_count("InTransit")
        + get_status_count("AtCheckpoint") + get_status_count("PartiallyDelivered")
        + get_status_count("Disputed")

\* The sample is capped at 100 shipments.
get_ttl_health_summary ==
    LET sampled == IF get_shipment_count < 100 THEN get_shipment_count ELSE 100
        persistent == Cardinality({i \in 1 .. sampled : loc[i] = "persistent"})
    IN
    [sampled_count |-> sampled,
     persistent_count |-> persistent,
     missing_or_archived_count |-> sampled - persistent,
     persistent_percentage |->
         IF sampled = 0 THEN 0 ELSE (persistent * 100) \div sampled]

\* What validation.rs answers before a shipment is written to.
preflight_check_shipment_available(i) ==
    CASE loc[i] = "archived" -> "ShipmentUnavailable"
      [] loc[i] = "absent" -> "ShipmentNotFound"
      [] OTHER -> IF ship[i].finalized THEN "ShipmentFinalized" ELSE "Ok"

-----------------------------------------------------------------------------
(***************************************************************************)
(* Properties.                                                             *)
(***************************************************************************)

\* The consistency audit finds nothing after any sequence of lifecycle calls,
\* on any page of any size: every handler that writes the record, the Escrow
\* entry, the flag and the status counters leaves them in agreement, and no
\* window is refused, skipped or read past the last shipment.
AuditFindsNothing ==
    /\ check_consistency_violations = {}
    /\ \A start_id \in 0 .. MaxShipments + 1, limit \in 0 .. MaxShipments :
           check_all_consistency_range(start_id, limit) = {}

\* The reports agree with one another and with the token contract.  Any two
\* pages of the health check that together cover the shipments add up to the
\* whole; the escrow it finds is covered by the contract's balance; as long as
\* its sample takes in every shipment, what it counts as active is the
\* non-terminal count less the disputes, which it takes to be over, and with
\* PartiallyRefunded, which that count leaves out; nothing but archival takes a
\* shipment out of persistent storage; and every shipment it calls anomalous
\* passes the preflight check and is one that check_deadline can close and
\* refund.
ReportsAgree ==
    LET whole == check_contract_health IN
    /\ \A k, l \in 1 .. MaxShipments :
           LET a == check_contract_health_paginated(1, k)
               b == check_contract_health_paginated(k + 1, l)
           IN  {k, l} \subseteq 1 .. effective_batch_query_limit /\ counter <= k + l =>
               /\ a.sum_of_escrow_balances + b.sum_of_escrow_balances =
                      whole.sum_of_escrow_balances
               /\ a.active_shipments_counted + b.active_shipments_counted =
                      whole.active_shipments_counted
               /\ a.anomalous_shipment_ids \cap b.anomalous_shipment_ids = {}
               /\ a.anomalous_shipment_ids \cup b.anomalous_shipment_ids =
                      whole.anomalous_shipment_ids
    /\ whole.sum_of_escrow_balances <= bal[Contract]
    /\ counter <= DEFAULT_HEALTH_SAMPLE_LIMIT =>
           whole.active_shipments_counted =
               get_non_terminal_count - get_status_summary["Disputed"]
                   + get_status_count("PartiallyRefunded")
    /\ get_ttl_health_summary.persistent_percentage = IF counter = 0 THEN 0 ELSE 100
    /\ \A i \in whole.anomalous_shipment_ids :
           /\ preflight_check_shipment_available(i) = "Ok"
           /\ validate_shipment_invariants(Cancelled(ship[i]))
           /\ ship[i].escrow <= bal[Contract]
=============================================================================
