---------------------------- MODULE Dependencies ----------------------------
(***************************************************************************)
(* Shipments that wait for other shipments: add_shipment_dependency, the   *)
(* cycle search it relies on, and the check update_status makes before a   *)
(* shipment may go InTransit.                                              *)
(***************************************************************************)
EXTENDS Naturals, Sequences, Functions, ShipmentStatus

CONSTANTS
    Ids,           \* shipments that were created
    MaxPrereqs     \* bound: length of a shipment's list of prerequisites

ASSUME DependenciesAssumption == MaxPrereqs \in Nat

\* A shipment whose archived record has expired: get_shipment finds nothing.
Gone == "Gone"

VARIABLES
    status,     \* status of the record get_shipment returns, or Gone
    prereqs     \* DataKey::ShipmentDependents(id)

vars == <<status, prereqs>>

-----------------------------------------------------------------------------

\* The loop of would_create_cycle: top of the stack last, visited as a set.
RECURSIVE Search(_, _, _)
Search(target, stack, visited) ==
    IF stack = <<>> THEN FALSE
    ELSE LET current == stack[Len(stack)]
             rest == SubSeq(stack, 1, Len(stack) - 1)
         IN  \/ current = target
             \/ /\ current # target
                /\ IF current \in visited
                     THEN Search(target, rest, visited)
                     ELSE Search(target, rest \o prereqs[current],
                                 visited \cup {current})

\* Mutant of would_create_cycle: only the prerequisites of the new one are seen.
direct_cycle(dependent, prereq) ==
    dependent \in {prereq} \cup Range(prereqs[prereq])

would_create_cycle(dependent, prereq) == Search(dependent, <<prereq>>, {})

Init ==
    /\ status = [s \in Ids |-> "Created"]
    /\ prereqs = [s \in Ids |-> <<>>]

\* Mutant of add_shipment_dependency: the cycle search is not made.
add_unsearched(dependent, prereq) ==
    /\ dependent # prereq
    /\ status[dependent] # Gone /\ status[prereq] # Gone
    /\ Len(prereqs[dependent]) < MaxPrereqs
    /\ prereqs' = [prereqs EXCEPT ![dependent] = Append(@, prereq)]
    /\ UNCHANGED status

add_shipment_dependency(dependent, prereq) ==
    /\ dependent # prereq
    /\ status[dependent] # Gone /\ status[prereq] # Gone
    /\ ~ would_create_cycle(dependent, prereq)
    /\ Len(prereqs[dependent]) < MaxPrereqs
    /\ prereqs' = [prereqs EXCEPT ![dependent] = Append(@, prereq)]
    /\ UNCHANGED status

SetStatus(s, new_status) ==
    /\ status' = [status EXCEPT ![s] = new_status]
    /\ UNCHANGED prereqs

\* Mutant of update_status: the status compared is the shipment's own.
update_status_own(s, new_status) ==
    /\ is_valid_transition(status[s], new_status)
    /\ new_status = "InTransit" =>
          \A p \in Range(prereqs[s]) : status[s] = "Delivered"
    /\ SetStatus(s, new_status)

update_status(s, new_status) ==
    /\ is_valid_transition(status[s], new_status)
    /\ new_status = "InTransit" =>
          \A p \in Range(prereqs[s]) : status[p] = "Delivered"
    /\ SetStatus(s, new_status)

(***************************************************************************)
(* The other entry points that change a status, each with the statuses it  *)
(* starts from.  None of them looks at the prerequisites.  Escrow is not   *)
(* part of this module: whether a terminal shipment is finalized is open.  *)
(* The admin's recovery, which may set any status, is left to Shipment.    *)
(***************************************************************************)
Open == ShipmentStatus \ Terminal

confirm_delivery(s) ==
    is_valid_transition(status[s], "Delivered") /\ SetStatus(s, "Delivered")

confirm_partial_delivery(s) ==
    /\ status[s] \in {"InTransit", "AtCheckpoint", "PartiallyDelivered"}
    /\ \E t \in {"PartiallyDelivered", "Delivered"} : SetStatus(s, t)

\* cancel_shipment, force_cancel_shipment, refund_escrow and check_deadline.
CancelOpen(s) == status[s] \in Open /\ SetStatus(s, "Cancelled")

\* raise_dispute and report_condition_breach.
DisputeUncancelled(s) ==
    /\ status[s] \in ShipmentStatus \ {"Cancelled", "Disputed"}
    /\ SetStatus(s, "Disputed")

resolve_dispute(s) ==
    status[s] = "Disputed" /\ \E t \in Terminal : SetStatus(s, t)

\* ForceRelease and ForceRefund.
execute_force(s) == status[s] \in Open /\ \E t \in Terminal : SetStatus(s, t)

\* The shipment is archived and the archived record runs out.
ExpireArchived(s) == status[s] \in Terminal /\ SetStatus(s, Gone)

AddNext == \E d, p \in Ids : add_shipment_dependency(d, p)

Next ==
    \/ AddNext
    \/ \E s \in Ids :
          \/ \E t \in ShipmentStatus : update_status(s, t)
          \/ confirm_delivery(s) \/ confirm_partial_delivery(s)
          \/ CancelOpen(s) \/ DisputeUncancelled(s)
          \/ resolve_dispute(s) \/ execute_force(s)
          \/ ExpireArchived(s)

Spec == Init /\ [][Next]_vars

\* Fairness: a carrier that may let its shipment depart, or deliver it, does so
\* in the end.  Nobody is assumed to add or to drop anything.
FairSpec ==
    /\ Spec
    /\ \A s \in Ids : /\ WF_vars(update_status(s, "InTransit"))
                      /\ WF_vars(update_status(s, "Delivered"))

-----------------------------------------------------------------------------

\* No group of shipments waits for itself: in every set of shipments one has no
\* prerequisite in the set.  This says there is no cycle without following any
\* path, unlike would_create_cycle (lib.rs).
NoCircularWait ==
    \A S \in SUBSET Ids : S # {} =>
        \E s \in S : Range(prereqs[s]) \cap S = {}

\* Closed sets of shipments: with a shipment also its prerequisites.
Closed(S) == \A s \in S : Range(prereqs[s]) \subseteq S

\* The depth-first search is exact: it answers yes if and only if the dependent
\* is in every closed set that holds the prerequisite, that is, if it is the
\* prerequisite or the prerequisite waits for it.
SearchIsExact ==
    \A d, p \in Ids :
        would_create_cycle(d, p) <=>
            \A S \in SUBSET Ids : p \in S /\ Closed(S) => d \in S

\* As long as no shipment is cancelled, disputed or expired, every shipment is
\* delivered in the end: neither the order in which dependencies are added nor
\* one added to a shipment that is under way leaves a shipment waiting forever.
AllArrive ==
    [](\A s \in Ids : status[s] \in {"Created", "InTransit", "AtCheckpoint",
                                    "PartiallyDelivered", "Delivered"})
        => \A s \in Ids : <>(status[s] = "Delivered")
=============================================================================
