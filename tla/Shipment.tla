------------------------------ MODULE Shipment ------------------------------
(***************************************************************************)
(* The shipment contract: shipments, their escrow and the counters kept    *)
(* beside them.  One action per entry point that changes this state.       *)
(*                                                                         *)
(* The host runs an entry point as one transaction and discards all its    *)
(* writes when it returns an error, so a call is one step and a call that  *)
(* fails is a stutter: the guards of an action are the early returns of    *)
(* the handler, in the conjunction of everything that must hold for Ok.    *)
(*                                                                         *)
(* Who may call what is the subject of module Roles, and repeated calls    *)
(* are the subject of module Throttle.  Here every action is enabled for   *)
(* whichever caller the handler accepts: no effect below depends on who    *)
(* the caller is (deposit_escrow excepted, whose caller pays).             *)
(***************************************************************************)
EXTENDS Integers, Sequences, FiniteSets, ShipmentStatus, Fees, Sums

CONSTANTS
    Companies,        \* addresses with the Company role
    Carriers,         \* addresses with the Carrier role
    Contract,         \* the contract's own address
    Treasury,         \* the address the platform fee goes to
    Milestones,       \* checkpoint symbols
    Schedules,        \* the payment_milestones offered to create_shipment
    Deadlines,        \* the deadlines offered to create_shipment
    Amounts,          \* the amounts offered to deposit_escrow
    Percents,         \* the percentages offered to confirm_partial_delivery
    ShipmentLimit,    \* active shipments a company may have
    BatchLimit,       \* config.batch_operation_limit
    Grace,            \* config.deadline_grace_seconds
    AutoDispute,      \* config.auto_dispute_breach
    MaxRecoveries,    \* recovery records kept per shipment (20 in the code)
    InitialBalance,   \* tokens each company starts with
    MaxShipments,     \* bound: shipments ever created
    MaxTime           \* bound: ledger time

Ids == 1 .. MaxShipments
Accounts == Companies \cup Carriers \cup {Contract, Treasury}

ASSUME ConstantsAssumption ==
    /\ Companies # {} /\ Carriers # {}
    /\ Contract \notin Companies \cup Carriers \cup {Treasury}
    /\ \A s \in Schedules : s \in Seq(Milestones \X Nat)
    /\ <<>> \in Schedules
    /\ Deadlines \subseteq Nat /\ Amounts \subseteq Nat \ {0}
    /\ Percents \subseteq 1 .. 100
    /\ ShipmentLimit \in Nat /\ BatchLimit \in Nat /\ Grace \in Nat
    /\ AutoDispute \in BOOLEAN /\ MaxRecoveries \in Nat
    /\ InitialBalance \in Nat /\ MaxShipments \in Nat /\ MaxTime \in Nat

VARIABLES
    now,           \* ledger timestamp
    paused,        \* instance storage: DataKey::Paused
    counter,       \* instance storage: DataKey::ShipmentCount
    ship,          \* the record get_shipment returns for each id
    loc,           \* where get_shipment finds it
    escrowKey,     \* persistent storage: DataKey::Escrow, 0 when absent
    statusCount,   \* instance storage: DataKey::StatusCount
    activeCount,   \* instance storage: DataKey::ActiveShipmentCount
    recoveries,    \* persistent storage: number of recovery records per id
    bal            \* balances in the token contract

vars == <<now, paused, counter, ship, loc, escrowKey, statusCount,
          activeCount, recoveries, bal>>

\* struct Shipment.  Hashes, timestamps and the integration nonce are left
\* out: no guard reads them.  paid_milestones and milestones_completed are
\* vectors that a symbol is pushed to at most once and whose order is not
\* read, hence sets.
Record ==
    [sender : Companies, carrier : Carriers, status : ShipmentStatus,
     escrow : Nat, total : Nat, schedule : Schedules,
     paid : SUBSET Milestones, completed : SUBSET Milestones,
     deadline : Nat, finalized : BOOLEAN]

\* Stands for "no record" in ship; never read by an action.
Blank ==
    [sender |-> CHOOSE c \in Companies : TRUE,
     carrier |-> CHOOSE k \in Carriers : TRUE,
     status |-> "Created", escrow |-> 0, total |-> 0, schedule |-> <<>>,
     paid |-> {}, completed |-> {}, deadline |-> 0, finalized |-> FALSE]

(***************************************************************************)
(* Storage.  get_shipment looks in persistent storage and then among the   *)
(* archived copies in temporary storage.  A copy left in temporary storage *)
(* is hidden while a persistent record exists and overwritten by the next  *)
(* archive_shipment, so one record and its location say all there is.      *)
(***************************************************************************)
Locations == {"absent", "persistent", "archived"}

get_shipment(i) == loc[i] # "absent"

set_shipment(i, r) ==
    /\ ship' = [ship EXCEPT ![i] = r]
    /\ loc' = [loc EXCEPT ![i] = "persistent"]

\* Mutant of validate_shipment_invariants: the Created clause is missing.
validate_without_created(r) ==
    /\ r.total >= 0 /\ r.escrow >= 0
    /\ r.escrow <= r.total
    /\ r.finalized => r.status \in Terminal /\ r.escrow = 0

validate_shipment_invariants(r) ==
    /\ r.total >= 0 /\ r.escrow >= 0
    /\ r.escrow <= r.total
    /\ r.finalized => r.status \in Terminal /\ r.escrow = 0
    /\ ~ (r.status = "Disputed" /\ r.finalized)
    /\ ~ (r.status = "Created" /\ r.paid # {})

persist_shipment(i, r) ==
    /\ validate_shipment_invariants(r)
    /\ set_shipment(i, r)
    /\ escrowKey' = [escrowKey EXCEPT ![i] = r.escrow]

\* Mutant of finalize_if_settled: the escrow is not looked at.
finalize_if_terminal(r) ==
    IF r.status \in Terminal THEN [r EXCEPT !.finalized = TRUE] ELSE r

finalize_if_settled(r) ==
    IF r.status \in Terminal /\ r.escrow = 0
    THEN [r EXCEPT !.finalized = TRUE]
    ELSE r

\* decrement_status_count of the old status, increment of the new one.  The
\* decrement saturates at 0.
MoveStatusCount(from, to) ==
    statusCount' = [statusCount EXCEPT ![from] = IF @ > 0 THEN @ - 1 ELSE 0,
                                       ![to] = @ + 1]

decrement_active_shipment_count(c) ==
    activeCount' = [activeCount EXCEPT ![c] = IF @ > 0 THEN @ - 1 ELSE 0]

\* transfer of the token contract, as the handlers use it: it fails, and the
\* call with it, when the payer lacks the amount.
invoke_token_transfer(from, to, amount) ==
    /\ bal[from] >= amount
    /\ bal' = [bal EXCEPT ![from] = @ - amount, ![to] = @ + amount]

(***************************************************************************)
(* Milestone schedules: sequences of <<symbol, percentage>>.               *)
(***************************************************************************)
Symbols(schedule) == {schedule[k][1] : k \in DOMAIN schedule}

PositionOf(schedule, m) == CHOOSE k \in DOMAIN schedule : schedule[k][1] = m

PercentOf(schedule, S) ==
    SumTo([k \in DOMAIN schedule |->
             IF schedule[k][1] \in S THEN schedule[k][2] ELSE 0],
          Len(schedule))

validate_milestones(schedule) ==
    schedule # <<>> =>
        /\ \A j, k \in DOMAIN schedule :
              schedule[j][1] = schedule[k][1] => j = k
        /\ \A k \in DOMAIN schedule : schedule[k][2] \in 1 .. 100
        /\ PercentOf(schedule, Milestones) = 100

-----------------------------------------------------------------------------
Init ==
    /\ now = 0
    /\ paused = FALSE
    /\ counter = 0
    /\ ship = [i \in Ids |-> Blank]
    /\ loc = [i \in Ids |-> "absent"]
    /\ escrowKey = [i \in Ids |-> 0]
    /\ statusCount = [s \in ShipmentStatus |-> 0]
    /\ activeCount = [c \in Companies |-> 0]
    /\ recoveries = [i \in Ids |-> 0]
    /\ bal = [a \in Accounts |-> IF a \in Companies THEN InitialBalance ELSE 0]

\* The ledger closes and time moves on.
Tick ==
    /\ now < MaxTime
    /\ now' = now + 1
    /\ UNCHANGED <<paused, counter, ship, loc, escrowKey, statusCount,
                   activeCount, bal, recoveries>>

pause ==
    /\ paused' = TRUE
    /\ UNCHANGED <<now, counter, ship, loc, escrowKey, statusCount,
                   activeCount, bal, recoveries>>

unpause ==
    /\ paused' = FALSE
    /\ UNCHANGED <<now, counter, ship, loc, escrowKey, statusCount,
                   activeCount, bal, recoveries>>

(***************************************************************************)
(* Creation.                                                               *)
(***************************************************************************)
ShipmentInput ==
    [carrier : Carriers, schedule : Schedules, deadline : Deadlines]

NewShipment(c, input) ==
    [sender |-> c, carrier |-> input.carrier, status |-> "Created",
     escrow |-> 0, total |-> 0, schedule |-> input.schedule,
     paid |-> {}, completed |-> {}, deadline |-> input.deadline,
     finalized |-> FALSE]

create_shipment(c, input) ==
    LET i == counter + 1 IN
    /\ ~ paused
    /\ validate_milestones(input.schedule)
    /\ input.deadline > now
    /\ activeCount[c] < ShipmentLimit
    /\ i \in Ids
    /\ persist_shipment(i, NewShipment(c, input))
    /\ counter' = i
    /\ statusCount' = [statusCount EXCEPT !["Created"] = @ + 1]
    /\ activeCount' = [activeCount EXCEPT ![c] = @ + 1]
    /\ UNCHANGED <<now, paused, bal, recoveries>>

\* The loop over the inputs, all or nothing.
create_shipments_batch(c, inputs) ==
    LET n == Len(inputs)
        new == counter + 1 .. counter + n
    IN
    /\ ~ paused
    /\ n <= BatchLimit
    /\ activeCount[c] + n <= ShipmentLimit
    /\ \A k \in 1 .. n : /\ validate_milestones(inputs[k].schedule)
                         /\ inputs[k].deadline > now
    /\ new \subseteq Ids
    /\ ship' = [i \in Ids |-> IF i \in new
                              THEN NewShipment(c, inputs[i - counter])
                              ELSE ship[i]]
    /\ loc' = [i \in Ids |-> IF i \in new THEN "persistent" ELSE loc[i]]
    /\ escrowKey' = [i \in Ids |-> IF i \in new THEN 0 ELSE escrowKey[i]]
    /\ counter' = counter + n
    /\ statusCount' = [statusCount EXCEPT !["Created"] = @ + n]
    /\ activeCount' = [activeCount EXCEPT ![c] = @ + n]
    /\ UNCHANGED <<now, paused, bal, recoveries>>

(***************************************************************************)
(* Funding.  The gross amount moves to the contract, the platform fee on   *)
(* to the treasury, and the rest becomes the escrow of the shipment.       *)
(***************************************************************************)
\* Mutant of deposit_escrow: a shipment that holds escrow is funded again.
deposit_again(from, i, amount) ==
    LET r == ship[i]
        fee == PlatformFee(amount)
        net == amount - fee
    IN
    /\ ~ paused
    /\ get_shipment(i)
    /\ ~ r.finalized
    /\ r.status = "Created"
    /\ bal[from] >= amount
    /\ bal' = [bal EXCEPT ![from] = @ - amount,
                          ![Contract] = @ + amount - fee,
                          ![Treasury] = @ + fee]
    /\ persist_shipment(i, [r EXCEPT !.escrow = net, !.total = net])
    /\ UNCHANGED <<now, paused, counter, statusCount, activeCount, recoveries>>

deposit_escrow(from, i, amount) ==
    LET r == ship[i]
        fee == PlatformFee(amount)
        net == amount - fee
    IN
    /\ ~ paused
    /\ get_shipment(i)
    /\ ~ r.finalized
    /\ r.status = "Created"
    /\ r.escrow = 0
    /\ bal[from] >= amount
    /\ bal[Contract] + amount >= fee
    /\ bal' = [bal EXCEPT ![from] = @ - amount,
                          ![Contract] = @ + amount - fee,
                          ![Treasury] = @ + fee]
    /\ persist_shipment(i, [r EXCEPT !.escrow = net, !.total = net])
    /\ UNCHANGED <<now, paused, counter, statusCount, activeCount, recoveries>>

(***************************************************************************)
(* Transport.                                                              *)
(***************************************************************************)
update_status(i, new) ==
    LET r == ship[i] IN
    /\ ~ paused
    /\ get_shipment(i)
    /\ ~ r.finalized
    /\ is_valid_transition(r.status, new)
    /\ MoveStatusCount(r.status, new)
    /\ persist_shipment(i, finalize_if_settled([r EXCEPT !.status = new]))
    /\ UNCHANGED <<now, paused, counter, activeCount, bal, recoveries>>

handoff_shipment(i, new_carrier) ==
    LET r == ship[i] IN
    /\ get_shipment(i)
    /\ ~ r.finalized
    /\ r.status \notin Terminal
    /\ persist_shipment(i, [r EXCEPT !.carrier = new_carrier])
    /\ UNCHANGED <<now, paused, counter, statusCount, activeCount, bal,
                   recoveries>>

\* Mutant of report_condition_breach: require_not_finalized is missing.
report_breach_unchecked(i) ==
    LET r == ship[i] IN
    /\ AutoDispute
    /\ get_shipment(i)
    /\ r.status \notin {"Cancelled", "Disputed"}
    /\ set_shipment(i, [r EXCEPT !.status = "Disputed"])
    /\ MoveStatusCount(r.status, "Disputed")
    /\ UNCHANGED <<now, paused, counter, escrowKey, activeCount, bal,
                   recoveries>>

\* A Critical breach, with auto_dispute_breach on.  Every other report only
\* counts and emits.  The write is set_shipment: Escrow is left alone.
report_condition_breach(i) ==
    LET r == ship[i] IN
    /\ AutoDispute
    /\ get_shipment(i)
    /\ ~ r.finalized
    /\ r.status \notin {"Cancelled", "Disputed"}
    /\ set_shipment(i, [r EXCEPT !.status = "Disputed"])
    /\ MoveStatusCount(r.status, "Disputed")
    /\ UNCHANGED <<now, paused, counter, escrowKey, activeCount, bal,
                   recoveries>>

(***************************************************************************)
(* Release to the carrier.  internal_release_escrow pays at most what the  *)
(* escrow still holds; when it pays anything it persists the reduced       *)
(* record, so the record has to be valid at that point.                    *)
(***************************************************************************)
ActualRelease(r, amount) == IF amount > r.escrow THEN r.escrow ELSE amount

Released(r, amount) == [r EXCEPT !.escrow = @ - ActualRelease(r, amount)]

\* Mutant of internal_release_escrow: set_shipment in place of
\* persist_shipment, so that the Escrow entry is not written.
release_without_mirror(i, r, amount) ==
    /\ invoke_token_transfer(Contract, r.carrier, ActualRelease(r, amount))
    /\ UNCHANGED escrowKey

internal_release_escrow(i, r, amount) ==
    LET paid == ActualRelease(r, amount) IN
    /\ paid > 0 => validate_shipment_invariants(Released(r, amount))
    /\ invoke_token_transfer(Contract, r.carrier, paid)
    /\ escrowKey' = IF paid > 0
                    THEN [escrowKey EXCEPT ![i] = r.escrow - paid]
                    ELSE escrowKey

confirm_delivery(i) ==
    LET r == ship[i]
        delivered == [r EXCEPT !.status = "Delivered"]
        settled == finalize_if_settled(Released(delivered, r.escrow))
    IN
    /\ ~ paused
    /\ get_shipment(i)
    /\ ~ r.finalized
    /\ is_valid_transition(r.status, "Delivered")
    /\ MoveStatusCount(r.status, "Delivered")
    /\ decrement_active_shipment_count(r.sender)
    /\ invoke_token_transfer(Contract, r.carrier, r.escrow)
    /\ persist_shipment(i, settled)
    /\ UNCHANGED <<now, paused, counter, recoveries>>

confirm_partial_delivery(i, percent) ==
    LET r == ship[i]
        amount == checked_mul_div(r.total, percent, 100)
        new_total_released == (r.total - r.escrow) + amount
        new == IF new_total_released = r.total
               THEN "Delivered" ELSE "PartiallyDelivered"
        settled == finalize_if_settled(
                       Released([r EXCEPT !.status = new], amount))
    IN
    /\ ~ paused
    /\ get_shipment(i)
    /\ ~ r.finalized
    /\ r.status \in {"InTransit", "AtCheckpoint", "PartiallyDelivered"}
    /\ amount > 0
    /\ new_total_released <= r.total
    /\ MoveStatusCount(r.status, new)
    /\ IF new = "Delivered"
       THEN decrement_active_shipment_count(r.sender)
       ELSE UNCHANGED activeCount
    /\ invoke_token_transfer(Contract, r.carrier, ActualRelease(r, amount))
    /\ persist_shipment(i, settled)
    /\ UNCHANGED <<now, paused, counter, recoveries>>

\* What a milestone pays: its share of the total, or everything that is left
\* when it completes the schedule.
MilestoneRelease(r, m, done) ==
    IF PercentOf(r.schedule, done \cup {m}) = 100
    THEN r.escrow
    ELSE checked_mul_div(r.total, r.schedule[PositionOf(r.schedule, m)][2], 100)

MarkPaid(r, M) == [r EXCEPT !.paid = @ \cup M, !.completed = @ \cup M]

\* A checkpoint outside the schedule pays nothing and changes nothing here.
record_milestone(i, m) ==
    LET r == ship[i]
        marked == MarkPaid(r, {m})
        amount == MilestoneRelease(r, m, r.paid)
    IN
    /\ ~ paused
    /\ get_shipment(i)
    /\ ~ r.finalized
    /\ r.status = "InTransit"
    /\ m \in Symbols(r.schedule)
    /\ m \notin r.paid
    /\ internal_release_escrow(i, marked, amount)
    /\ set_shipment(i, finalize_if_settled(Released(marked, amount)))
    /\ UNCHANGED <<now, paused, counter, statusCount, activeCount, recoveries>>

\* The loop over the checkpoints: M is the set of those that are in the
\* schedule and not yet paid; the others are skipped.  Each pays its own
\* share, capped by what is left, so together they pay the capped sum.
record_milestones_batch(i, M) ==
    LET r == ship[i]
        marked == MarkPaid(r, M)
        amount == SumTo([k \in DOMAIN r.schedule |->
                           IF r.schedule[k][1] \in M
                           THEN checked_mul_div(r.total, r.schedule[k][2], 100)
                           ELSE 0],
                        Len(r.schedule))
    IN
    /\ ~ paused
    /\ Cardinality(M) <= BatchLimit
    /\ get_shipment(i)
    /\ ~ r.finalized
    /\ r.status = "InTransit"
    /\ M # {}
    /\ M \subseteq Symbols(r.schedule) \ r.paid
    /\ internal_release_escrow(i, marked, amount)
    /\ set_shipment(i, finalize_if_settled(Released(marked, amount)))
    /\ UNCHANGED <<now, paused, counter, statusCount, activeCount, recoveries>>

\* Positions count from 1 here and from 0 in the code.  A release of 0 marks
\* nothing, but the trailing finalize_if_settled and set_shipment still run.
release_milestone_payment(i, m) ==
    LET r == ship[i]
        amount == MilestoneRelease(r, m, r.completed)
        marked == IF amount > 0 THEN MarkPaid(r, {m}) ELSE r
    IN
    /\ ~ paused
    /\ get_shipment(i)
    /\ ~ r.finalized
    /\ m \in Symbols(r.schedule)
    /\ m \notin r.completed
    /\ Cardinality(r.completed) >= PositionOf(r.schedule, m) - 1
    /\ internal_release_escrow(i, marked, amount)
    /\ set_shipment(i, finalize_if_settled(Released(marked, amount)))
    /\ UNCHANGED <<now, paused, counter, statusCount, activeCount, recoveries>>

release_escrow(i) ==
    LET r == ship[i] IN
    /\ ~ paused
    /\ get_shipment(i)
    /\ ~ r.finalized
    /\ r.status = "Delivered"
    /\ r.escrow # 0
    /\ invoke_token_transfer(Contract, r.carrier, r.escrow)
    /\ persist_shipment(i, finalize_if_settled(Released(r, r.escrow)))
    /\ UNCHANGED <<now, paused, counter, statusCount, activeCount, recoveries>>

(***************************************************************************)
(* Cancellation and refund.                                                *)
(***************************************************************************)
\* Mutant of Cancelled: the escrow amount is not cleared.
CancelledKeepingEscrow(r) == [r EXCEPT !.status = "Cancelled"]

Cancelled(r) == [r EXCEPT !.status = "Cancelled", !.escrow = 0]

\* Mutant of cancel_shipment: the active count is decremented again for a
\* shipment that was cancelled before.
cancel_and_decrement(i) ==
    LET r == ship[i] IN
    /\ ~ paused
    /\ get_shipment(i)
    /\ ~ r.finalized
    /\ r.status \notin {"Delivered", "Disputed"}
    /\ persist_shipment(i, finalize_if_settled(Cancelled(r)))
    /\ MoveStatusCount(r.status, "Cancelled")
    /\ decrement_active_shipment_count(r.sender)
    /\ UNCHANGED <<now, paused, counter, bal, recoveries>>

\* The escrow is cleared and its key removed; no token moves.
cancel_shipment(i) ==
    LET r == ship[i] IN
    /\ ~ paused
    /\ get_shipment(i)
    /\ ~ r.finalized
    /\ r.status \notin {"Delivered", "Disputed"}
    /\ persist_shipment(i, finalize_if_settled(Cancelled(r)))
    /\ MoveStatusCount(r.status, "Cancelled")
    /\ IF r.status # "Cancelled"
       THEN decrement_active_shipment_count(r.sender)
       ELSE UNCHANGED activeCount
    /\ UNCHANGED <<now, paused, counter, bal, recoveries>>

force_cancel_shipment(i) ==
    LET r == ship[i] IN
    /\ ~ paused
    /\ get_shipment(i)
    /\ ~ r.finalized
    /\ r.status \notin Terminal
    /\ invoke_token_transfer(Contract, r.sender, r.escrow)
    /\ persist_shipment(i, finalize_if_settled(Cancelled(r)))
    /\ MoveStatusCount(r.status, "Cancelled")
    /\ decrement_active_shipment_count(r.sender)
    /\ UNCHANGED <<now, paused, counter, recoveries>>

refund_escrow(i) ==
    LET r == ship[i] IN
    /\ ~ paused
    /\ get_shipment(i)
    /\ ~ r.finalized
    /\ r.status \in {"Created", "Cancelled"}
    /\ r.escrow # 0
    /\ invoke_token_transfer(Contract, r.sender, r.escrow)
    /\ persist_shipment(i, finalize_if_settled(Cancelled(r)))
    /\ MoveStatusCount(r.status, "Cancelled")
    /\ IF r.status # "Cancelled"
       THEN decrement_active_shipment_count(r.sender)
       ELSE UNCHANGED activeCount
    /\ UNCHANGED <<now, paused, counter, recoveries>>

\* Mutant of check_deadline: it is subject to pause.
check_deadline_unless_paused(i) ==
    LET r == ship[i] IN
    /\ ~ paused
    /\ get_shipment(i)
    /\ now >= r.deadline + Grace
    /\ r.status \notin {"Delivered", "Disputed", "Cancelled"}
    /\ persist_shipment(i, Cancelled(r))
    /\ MoveStatusCount(r.status, "Cancelled")
    /\ decrement_active_shipment_count(r.sender)
    /\ invoke_token_transfer(Contract, r.sender, r.escrow)
    /\ UNCHANGED <<now, paused, counter, recoveries>>

\* Anyone may call it, paused or not; it does not finalize.
check_deadline(i) ==
    LET r == ship[i] IN
    /\ get_shipment(i)
    /\ now >= r.deadline + Grace
    /\ r.status \notin {"Delivered", "Disputed", "Cancelled"}
    /\ persist_shipment(i, Cancelled(r))
    /\ MoveStatusCount(r.status, "Cancelled")
    /\ decrement_active_shipment_count(r.sender)
    /\ invoke_token_transfer(Contract, r.sender, r.escrow)
    /\ UNCHANGED <<now, paused, counter, recoveries>>

(***************************************************************************)
(* Disputes.                                                               *)
(***************************************************************************)
\* Mutant of raise_dispute: a cancelled shipment may be disputed.
raise_dispute_if_cancelled(i) ==
    LET r == ship[i] IN
    /\ ~ paused
    /\ get_shipment(i)
    /\ ~ r.finalized
    /\ r.status # "Disputed"
    /\ persist_shipment(i, [r EXCEPT !.status = "Disputed"])
    /\ MoveStatusCount(r.status, "Disputed")
    /\ UNCHANGED <<now, paused, counter, activeCount, bal, recoveries>>

raise_dispute(i) ==
    LET r == ship[i] IN
    /\ ~ paused
    /\ get_shipment(i)
    /\ ~ r.finalized
    /\ r.status \notin {"Cancelled", "Disputed"}
    /\ persist_shipment(i, [r EXCEPT !.status = "Disputed"])
    /\ MoveStatusCount(r.status, "Disputed")
    /\ UNCHANGED <<now, paused, counter, activeCount, bal, recoveries>>

DisputeResolution == {"ReleaseToCarrier", "RefundToCompany"}

resolve_dispute(i, resolution) ==
    LET r == ship[i]
        toCarrier == resolution = "ReleaseToCarrier"
        new == IF toCarrier THEN "Delivered" ELSE "Cancelled"
        recipient == IF toCarrier THEN r.carrier ELSE r.sender
        resolved == [r EXCEPT !.status = new, !.escrow = 0]
    IN
    /\ ~ paused
    /\ get_shipment(i)
    /\ ~ r.finalized
    /\ r.status = "Disputed"
    /\ r.escrow # 0
    /\ invoke_token_transfer(Contract, recipient, r.escrow)
    /\ MoveStatusCount("Disputed", new)
    /\ decrement_active_shipment_count(r.sender)
    /\ persist_shipment(i, finalize_if_settled(resolved))
    /\ UNCHANGED <<now, paused, counter, recoveries>>

\* The ForceRelease and ForceRefund arms of execute_proposal, once the
\* multisig has approved (module Governance).
execute_force(i, new) ==
    LET r == ship[i]
        recipient == IF new = "Delivered" THEN r.carrier ELSE r.sender
        forced == [r EXCEPT !.status = new, !.escrow = 0]
    IN
    /\ get_shipment(i)
    /\ r.status \notin Terminal
    /\ invoke_token_transfer(Contract, recipient, r.escrow)
    /\ MoveStatusCount(r.status, new)
    /\ decrement_active_shipment_count(r.sender)
    /\ persist_shipment(i, finalize_if_settled(forced))
    /\ UNCHANGED <<now, paused, counter, recoveries>>

\* The metadata itself is left out; what remains is the persist_shipment.
set_shipment_metadata(i) ==
    /\ ~ paused
    /\ get_shipment(i)
    /\ ~ ship[i].finalized
    /\ persist_shipment(i, ship[i])
    /\ UNCHANGED <<now, paused, counter, statusCount, activeCount, bal,
                   recoveries>>

(***************************************************************************)
(* Archival.  The record moves to temporary storage and its Escrow entry   *)
(* is removed, whatever it held.  The counters are left as they are.       *)
(***************************************************************************)
archive_shipment(i) ==
    /\ loc[i] = "persistent"
    /\ ship[i].status \in Terminal
    /\ loc' = [loc EXCEPT ![i] = "archived"]
    /\ escrowKey' = [escrowKey EXCEPT ![i] = 0]
    /\ recoveries' = [recoveries EXCEPT ![i] = 0]
    /\ UNCHANGED <<now, paused, counter, ship, statusCount, activeCount,
                   bal>>

\* The host drops a temporary entry whose time to live has run out.
ExpireArchived(i) ==
    /\ loc[i] = "archived"
    /\ loc' = [loc EXCEPT ![i] = "absent"]
    /\ ship' = [ship EXCEPT ![i] = Blank]
    /\ UNCHANGED <<now, paused, counter, escrowKey, statusCount, activeCount,
                   bal, recoveries>>

(***************************************************************************)
(* Recovery, for the admin only.  Each of these writes the record with     *)
(* set_shipment and touches neither Escrow nor the counters nor the token; *)
(* append_recovery_record fails, and the call with it, at the limit.       *)
(***************************************************************************)
Rewrite(i, r) ==
    /\ get_shipment(i)
    /\ set_shipment(i, r)
    /\ recoveries[i] < MaxRecoveries
    /\ recoveries' = [recoveries EXCEPT ![i] = @ + 1]
    /\ UNCHANGED <<now, paused, counter, escrowKey, statusCount, activeCount,
                   bal>>

verify_escrow_consistency(r) == r.escrow >= 0 /\ r.escrow <= r.total

recover_shipment(i, target) ==
    /\ ship[i].status # target
    /\ is_valid_recovery_transition(ship[i].status, target)
    /\ verify_escrow_consistency(ship[i])
    /\ Rewrite(i, [ship[i] EXCEPT !.status = target])

unlock_escrow(i) ==
    /\ ship[i].escrow # 0
    /\ Rewrite(i, [ship[i] EXCEPT !.escrow = 0])

clear_finalization(i) ==
    /\ ship[i].finalized
    /\ Rewrite(i, [ship[i] EXCEPT !.finalized = FALSE])

rollback_on_external_failure(i, previous_status) ==
    Rewrite(i, [ship[i] EXCEPT !.finalized = FALSE, !.status = previous_status])

-----------------------------------------------------------------------------
CreateNext ==
    \E c \in Companies :
        \/ \E input \in ShipmentInput : create_shipment(c, input)
        \/ \E n \in 1 .. BatchLimit : \E inputs \in [1 .. n -> ShipmentInput] :
               create_shipments_batch(c, inputs)

DeliverNext(i) ==
    \/ \E c \in Companies, a \in Amounts : deposit_escrow(c, i, a)
    \/ \E s \in ShipmentStatus : update_status(i, s)
    \/ \E k \in Carriers : handoff_shipment(i, k)
    \/ report_condition_breach(i)
    \/ confirm_delivery(i)
    \/ \E p \in Percents : confirm_partial_delivery(i, p)
    \/ \E m \in Milestones : record_milestone(i, m)
    \/ \E M \in SUBSET Milestones : record_milestones_batch(i, M)
    \/ \E m \in Milestones : release_milestone_payment(i, m)
    \/ release_escrow(i)
    \/ set_shipment_metadata(i)

SettleNext(i) ==
    \/ cancel_shipment(i)
    \/ force_cancel_shipment(i)
    \/ refund_escrow(i)
    \/ check_deadline(i)
    \/ raise_dispute(i)
    \/ \E res \in DisputeResolution : resolve_dispute(i, res)
    \/ \E s \in Terminal : execute_force(i, s)

ArchiveNext(i) ==
    \/ archive_shipment(i)
    \/ ExpireArchived(i)

RecoveryNext(i) ==
    \/ \E s \in ShipmentStatus : recover_shipment(i, s)
    \/ unlock_escrow(i)
    \/ clear_finalization(i)
    \/ \E s \in ShipmentStatus : rollback_on_external_failure(i, s)

\* What the parties and the admin do in the ordinary course of a shipment.
LifecycleNext ==
    \/ Tick
    \/ pause
    \/ unpause
    \/ CreateNext
    \/ \E i \in Ids : DeliverNext(i)
    \/ \E i \in Ids : SettleNext(i)

Next ==
    \/ LifecycleNext
    \/ \E i \in Ids : ArchiveNext(i)
    \/ \E i \in Ids : RecoveryNext(i)

Lifecycle == Init /\ [][LifecycleNext]_vars

\* With recovery but no archival.  In the two together the status counts grow
\* without bound: archival clears the recovery records and with them their
\* limit.
WithRecovery == Init /\ [][LifecycleNext \/ \E i \in Ids : RecoveryNext(i)]_vars

Spec == Init /\ [][Next]_vars

\* check_deadline is permissionless and pause does not stop it, so an
\* automated caller can always run it; the ledger keeps closing.
FairRecovery ==
    /\ WithRecovery
    /\ WF_vars(Tick)
    /\ \A i \in Ids : WF_vars(check_deadline(i))

-----------------------------------------------------------------------------
(***************************************************************************)
(* Properties.                                                             *)
(***************************************************************************)

\* Every variable has its type.
TypeOK ==
    /\ now \in Nat /\ paused \in BOOLEAN /\ counter \in 0 .. MaxShipments
    /\ ship \in [Ids -> Record]
    /\ loc \in [Ids -> Locations]
    /\ escrowKey \in [Ids -> Nat]
    /\ statusCount \in [ShipmentStatus -> Nat]
    /\ activeCount \in [Companies -> Nat]
    /\ recoveries \in [Ids -> 0 .. MaxRecoveries]
    /\ bal \in [Accounts -> Nat]

\* The money view of the contract: what each shipment has in escrow.
Owed == [i \in Ids |-> ship[i].escrow]

TotalOwed == SumTo(Owed, MaxShipments)

\* The contract always holds at least what its records say it holds in escrow,
\* over all shipments together: no release, refund or fee of one shipment is
\* ever paid out of another one's deposit, and none fails for lack of tokens.
Solvent == TotalOwed <= bal[Contract]

\* A finalized shipment is Delivered or Cancelled and owes nothing.  Not every
\* writer validates this (set_shipment does not), and neither check_deadline
\* nor execute_proposal looks at the flag: they rely on it.
FinalizedSettled ==
    \A i \in Ids : ship[i].finalized =>
        ship[i].status \in Terminal /\ ship[i].escrow = 0

\* What the milestones marked as paid are worth together.
Earned(r) ==
    SumTo([k \in DOMAIN r.schedule |->
             IF r.schedule[k][1] \in r.paid
             THEN checked_mul_div(r.total, r.schedule[k][2], 100)
             ELSE 0],
          Len(r.schedule))

\* A milestone is marked as paid only if its share of the total has left the
\* escrow: by record_milestone, record_milestones_batch or
\* release_milestone_payment, in any order and mixed with partial deliveries,
\* recoveries and new deposits; and the two lists of milestones agree.
MilestonesPaidFor ==
    \A i \in Ids :
        /\ ship[i].total - ship[i].escrow >= Earned(ship[i])
        /\ ship[i].paid = ship[i].completed
        /\ ship[i].paid \subseteq Symbols(ship[i].schedule)

\* The shipments of company c still under way.
LiveShipments(c) ==
    {i \in Ids : /\ get_shipment(i)
                 /\ ship[i].sender = c
                 /\ ship[i].status \notin Terminal}

\* Cancelled is left by no handler, and Delivered only by a dispute over an
\* escrow that was not yet released.
TerminalDiscipline ==
    [][\A i \in Ids : loc[i] # "absent" /\ loc'[i] # "absent" =>
          /\ ship[i].status = "Cancelled" => ship'[i].status = "Cancelled"
          /\ ship[i].status = "Delivered" /\ ship'[i].status # "Delivered" =>
                ship'[i].status = "Disputed" /\ ship[i].escrow > 0
      ]_vars

\* No handler changes a finalized record any more, whether or not it checks
\* the flag itself; only its archived copy may expire.
FinalizedFrozen ==
    [][\A i \in Ids : ship[i].finalized =>
          ship'[i] = ship[i] \/ loc'[i] = "absent"]_vars

\* Once the deadline and its grace period are over, a shipment is eventually
\* delivered, cancelled or under dispute, whatever its parties do.
DeadlineEnforced ==
    \A i \in Ids :
        (get_shipment(i) /\ now >= ship[i].deadline + Grace)
            ~> ship[i].status \in {"Delivered", "Cancelled", "Disputed"}

Vault == INSTANCE EscrowVault WITH owed <- Owed

\* Whatever the entry points do, seen from the token they only fill an empty
\* account, pay an account out to the shipment's company or a carrier by
\* exactly the amount the account goes down, or write an account off.
ImplementsVault == Vault!VaultSpec
=============================================================================
