------------------------------- MODULE Limits -------------------------------
(***************************************************************************)
(* The limit on the active shipments of a company, which the admin may     *)
(* change between any two calls: one for all companies, and one of its own *)
(* for a company that was given one.                                       *)
(*                                                                         *)
(* Module Shipment has the constant ShipmentLimit in this place.  Here it  *)
(* is what initialize stores and the largest limit ever set.               *)
(***************************************************************************)
EXTENDS Audit

CONSTANTS
    GlobalLimits,     \* the limits set_shipment_limit is called with
    CompanyLimits     \* the limits set_company_shipment_limit is called with

ASSUME LimitsAssumption == GlobalLimits \cup CompanyLimits \subseteq 0 .. ShipmentLimit

VARIABLES
    limit,            \* instance storage: DataKey::ShipmentLimit
    companyLimit      \* instance storage: DataKey::CompanyShipmentLimit(company)

limVars == <<limit, companyLimit>>

\* A company without a limit of its own.
NoLimit == -1

get_shipment_limit == limit

get_company_shipment_limit(c) == companyLimit[c]

get_effective_shipment_limit(c) ==
    IF get_company_shipment_limit(c) = NoLimit
    THEN get_shipment_limit ELSE get_company_shipment_limit(c)

get_active_shipment_count(c) == activeCount[c]

set_shipment_limit(n) ==
    /\ ~ paused
    /\ limit' = n
    /\ UNCHANGED <<vars, companyLimit>>

set_company_shipment_limit(c, n) ==
    /\ ~ paused
    /\ companyLimit' = [companyLimit EXCEPT ![c] = n]
    /\ UNCHANGED <<vars, limit>>

\* create_shipment and create_shipments_batch compare with the limit in force.
WithinLimit ==
    \A c \in Companies :
        activeCount'[c] > activeCount[c] =>
            activeCount'[c] <= get_effective_shipment_limit(c)

LimInit ==
    /\ Init
    /\ limit = ShipmentLimit
    /\ companyLimit = [c \in Companies |-> NoLimit]

LimNext ==
    \/ LifecycleNext /\ WithinLimit /\ UNCHANGED limVars
    \/ \E n \in GlobalLimits : set_shipment_limit(n)
    \/ \E c \in Companies, n \in CompanyLimits : set_company_shipment_limit(c, n)

LimitedLifecycle == LimInit /\ [][LimNext]_<<vars, limVars>>

-----------------------------------------------------------------------------
\* The limit on the active count is a limit on the shipments.  The count of a
\* company is never below the number of its shipments still under way (no
\* handler decrements it twice for one shipment, and a dispute that reopens a
\* Delivered one finds it still counted), so after a creation, single or in a
\* batch, there are no more of them than the limit then in force, however often
\* the admin raised and lowered it before
\* (storage.rs, get_effective_shipment_limit, decrement_active_shipment_count).
LimitHolds ==
    [][\A c \in Companies :
          LET live == Cardinality(LiveShipments(c)') IN
          /\ live <= get_active_shipment_count(c)'
          /\ get_active_shipment_count(c)' > get_active_shipment_count(c) =>
                live <= get_effective_shipment_limit(c)
      ]_<<vars, limVars>>
=============================================================================
