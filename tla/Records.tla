------------------------------ MODULE Records ------------------------------
(***************************************************************************)
(* The shipment contract with what it keeps and announces beside the       *)
(* shipments, the side records of module Journal, and with the copy that   *)
(* an archived shipment leaves in temporary storage.                       *)
(*                                                                         *)
(* Every action is the action of module Shipment for the same entry point, *)
(* conjoined with what that entry point does here.  The effect is a chain  *)
(* of operators on the side record of the shipment, one per emitter or     *)
(* storage helper the handler calls, innermost first.                      *)
(***************************************************************************)
EXTENDS Shipment, Journal

CONSTANTS
    MaxEvents,        \* bound: events with a key published for one shipment
    MaxTracking,      \* bound: the last of them that may be a tracking event
    MaxAppended,      \* bound: a shipment's notes, evidence and breaches together
    MaxNonce          \* bound: the integration nonce

ASSUME RecordsAssumption ==
    {MaxEvents, MaxTracking, MaxAppended, MaxNonce} \subseteq Nat

VARIABLES
    side,       \* the side record of each shipment
    copy,       \* the entry ArchivedShipment in temporary storage
    totals,     \* instance storage: TotalEscrowVolume and TotalDisputes
    touched     \* history: written to while only the archived copy was left

recVars == <<side, copy, totals, touched>>

allVars == <<vars, recVars>>

-----------------------------------------------------------------------------
RecInit ==
    /\ Init
    /\ side = [i \in Ids |-> NoRecord]
    /\ copy = [i \in Ids |-> "none"]
    /\ totals = [volume |-> 0, disputes |-> 0]
    /\ touched = [i \in Ids |-> FALSE]

WithinBounds(x) ==
    /\ x.sent <= MaxEvents
    /\ x.nonce <= MaxNonce
    /\ x.notes + x.evidence + x.breaches <= MaxAppended

add_total_escrow_volume(amount) ==
    totals' = [totals EXCEPT !.volume = @ + amount]

increment_total_disputes == totals' = [totals EXCEPT !.disputes = @ + 1]

\* A handler that leaves x behind for shipment i, and one that leaves the
\* totals alone.
Write(i, x) ==
    /\ WithinBounds(x)
    /\ side' = [side EXCEPT ![i] = x]
    /\ touched' = [touched EXCEPT ![i] = @ \/ loc[i] = "archived"]
    /\ UNCHANGED copy

Keep(i, x) == Write(i, x) /\ UNCHANGED totals

NoSideEffect == UNCHANGED recVars

(***************************************************************************)
(* The entry points of module Shipment.                                    *)
(***************************************************************************)
Create(c, input) ==
    LET i == counter + 1 IN
    /\ create_shipment(c, input)
    /\ Keep(i, emit_shipment_created(side[i]))

CreateBatch(c, inputs) ==
    /\ create_shipments_batch(c, inputs)
    /\ side' = [i \in Ids |-> IF i \in counter + 1 .. counter'
                              THEN emit_shipment_created(side[i])
                              ELSE side[i]]
    /\ UNCHANGED <<copy, totals, touched>>

Deposit(from, i, amount) ==
    LET fee == PlatformFee(amount)
        y == Settled(side[i], "Deposit", amount)
        x == IF fee > 0 THEN emit_platform_fee_collected(y) ELSE y
    IN
    /\ deposit_escrow(from, i, amount)
    /\ add_total_escrow_volume(amount)
    /\ Write(i, emit_escrow_deposited(BumpNonce(x), amount - fee))

UpdateStatus(i, new) ==
    /\ update_status(i, new)
    /\ IF new = "Disputed" THEN increment_total_disputes ELSE UNCHANGED totals
    /\ Write(i, emit_status_updated(
                    set_status_hash(
                        set_last_status_update(BumpNonce(side[i])), new), new))

\* The milestone of a handoff is counted but not held against the limit.
Handoff(i, k) ==
    /\ handoff_shipment(i, k)
    /\ Keep(i, emit_milestone_recorded(BumpNonce(side[i])))

\* A report that opens a dispute: Critical, with auto_dispute_breach on.
CriticalBreach(i) ==
    /\ side[i].breaches < MaxBreaches
    /\ report_condition_breach(i)
    /\ increment_total_disputes
    /\ Write(i, emit_dispute_raised(
                    BumpNonce(increment_breach_event_count(side[i]))))

\* Every other report: the shipment itself is left alone.
ReportBreach(i) ==
    /\ get_shipment(i)
    /\ ~ ship[i].finalized
    /\ side[i].breaches < MaxBreaches
    /\ Keep(i, increment_breach_event_count(side[i]))
    /\ UNCHANGED vars

ConfirmDelivery(i) ==
    LET r == ship[i] IN
    /\ confirm_delivery(i)
    /\ Keep(i, emit_delivery_success(
                   emit_delivery_confirmed(
                       ReleaseTo(set_confirmation_hash(side[i]),
                                 ActualRelease(r, r.escrow)))))

ConfirmPartialDelivery(i, p) ==
    LET r == ship[i] IN
    /\ confirm_partial_delivery(i, p)
    /\ Keep(i, emit_status_updated(
                   ReleaseTo(set_confirmation_hash(side[i]),
                             ActualRelease(r, checked_mul_div(r.total, p, 100))),
                   ship'[i].status))

RecordMilestone(i, m) ==
    LET r == ship[i] IN
    /\ side[i].milestones < MaxMilestones
    /\ record_milestone(i, m)
    /\ Keep(i, ReleaseTo(
                   emit_milestone_payment_released(
                       emit_milestone_recorded(side[i])),
                   ActualRelease(r, MilestoneRelease(r, m, r.paid))))

RecordMilestonesBatch(i, M) ==
    LET r == ship[i]
        share == [k \in DOMAIN r.schedule |->
                     checked_mul_div(r.total, r.schedule[k][2], 100)]
        reached == {k \in DOMAIN r.schedule : r.schedule[k][1] \in M}
    IN
    /\ side[i].milestones + Cardinality(M) <= MaxMilestones
    /\ record_milestones_batch(i, M)
    /\ Keep(i, ReleaseEach(side[i], r.escrow, share, reached))

\* A checkpoint that is not in the schedule.  The record is written back all
\* the same, after finalize_if_settled, which does nothing to it InTransit.
RecordCheckpoint(i) ==
    /\ ~ paused
    /\ get_shipment(i)
    /\ ~ ship[i].finalized
    /\ ship[i].status = "InTransit"
    /\ side[i].milestones < MaxMilestones
    /\ set_shipment(i, ship[i])
    /\ Keep(i, emit_milestone_recorded(side[i]))
    /\ UNCHANGED <<now, paused, counter, escrowKey, statusCount, activeCount,
                   recoveries, bal>>

ReleaseMilestone(i, m) ==
    LET r == ship[i]
        amount == MilestoneRelease(r, m, r.completed)
    IN
    /\ release_milestone_payment(i, m)
    /\ Keep(i, IF amount > 0
               THEN ReleaseTo(emit_milestone_payment_released(side[i]),
                              ActualRelease(r, amount))
               ELSE side[i])

ReleaseEscrow(i) ==
    /\ release_escrow(i)
    /\ Keep(i, ReleaseTo(side[i], ActualRelease(ship[i], ship[i].escrow)))

\* Mutant of SetMetadata: require_not_finalized is missing.
set_metadata_unchecked(i) ==
    /\ ~ paused
    /\ get_shipment(i)
    /\ persist_shipment(i, ship[i])
    /\ Keep(i, BumpNonce(side[i]))
    /\ UNCHANGED <<now, paused, counter, statusCount, activeCount, bal,
                   recoveries>>

SetMetadata(i) ==
    /\ set_shipment_metadata(i)
    /\ Keep(i, BumpNonce(side[i]))

\* Mutant of CancelShipment: the nonce stays.
cancel_without_nonce(i) ==
    LET owed == ship[i].escrow
        x == IF owed > 0 THEN emit_escrow_released(side[i], owed) ELSE side[i]
    IN
    /\ cancel_shipment(i)
    /\ Keep(i, emit_shipment_cancelled(x))

\* The event says "released", to the sender.
CancelShipment(i) ==
    LET owed == ship[i].escrow
        x == BumpNonce(side[i])
    IN
    /\ cancel_shipment(i)
    /\ Keep(i, emit_shipment_cancelled(
                   IF owed > 0 THEN emit_escrow_released(x, owed) ELSE x))

ForceCancel(i) ==
    LET owed == ship[i].escrow
        x == IF owed > 0 THEN emit_escrow_refunded(side[i], owed) ELSE side[i]
    IN
    /\ force_cancel_shipment(i)
    /\ Keep(i, emit_force_cancelled(BumpNonce(x)))

Refund(i) ==
    /\ refund_escrow(i)
    /\ Keep(i, emit_escrow_refunded(
                   BumpNonce(Settled(side[i], "Refund", ship[i].escrow)),
                   ship[i].escrow))

CheckDeadline(i) ==
    LET owed == ship[i].escrow
        x == BumpNonce(side[i])
    IN
    /\ check_deadline(i)
    /\ Keep(i, emit_shipment_expired(
                   IF owed > 0 THEN emit_escrow_refunded(x, owed) ELSE x))

RaiseDispute(i) ==
    /\ raise_dispute(i)
    /\ increment_total_disputes
    /\ Write(i, emit_dispute_raised(
                    set_escrow_freeze_reason(BumpNonce(side[i]))))

\* The freeze reason is left as it is.
ResolveDispute(i, resolution) ==
    LET owed == ship[i].escrow
        x == side[i]
    IN
    /\ resolve_dispute(i, resolution)
    /\ Keep(i, emit_dispute_resolved(
                   IF resolution = "ReleaseToCarrier"
                   THEN emit_escrow_released(
                            BumpNonce(Settled(x, "Release", owed)), owed)
                   ELSE emit_escrow_refunded(
                            BumpNonce(Settled(x, "Refund", owed)), owed),
                   ship'[i].status))

ExecuteForce(i, new) ==
    LET owed == ship[i].escrow
        x == IF owed = 0 THEN side[i]
             ELSE IF new = "Delivered" THEN emit_escrow_released(side[i], owed)
             ELSE emit_escrow_refunded(side[i], owed)
    IN
    /\ execute_force(i, new)
    /\ Keep(i, ProposalExecuted(BumpNonce(x), new))

(***************************************************************************)
(* Entry points that only concern the side record.                         *)
(***************************************************************************)
\* Allowed for every shipment that can be read, finalized or archived too.
append_note_hash(i) ==
    /\ ~ paused
    /\ get_shipment(i)
    /\ side[i].notes < MaxNotes
    /\ Keep(i, emit_note_appended(
                   set_note_hash(increment_note_count(side[i]), side[i].notes)))
    /\ UNCHANGED vars

add_dispute_evidence_hash(i) ==
    /\ ~ paused
    /\ get_shipment(i)
    /\ ~ ship[i].finalized
    /\ ship[i].status = "Disputed"
    /\ side[i].evidence < MaxEvidence
    /\ set_shipment(i, ship[i])
    /\ Keep(i, emit_evidence_added(
                   BumpNonce(set_evidence_hash(increment_evidence_count(side[i]),
                                               side[i].evidence))))
    /\ UNCHANGED <<now, paused, counter, escrowKey, statusCount, activeCount,
                   recoveries, bal>>

report_geofence_event(i) ==
    /\ ~ paused
    /\ get_shipment(i)
    /\ ~ ship[i].finalized
    /\ side[i].sent < MaxTracking
    /\ Keep(i, emit_geofence_event(side[i]))
    /\ UNCHANGED vars

\* Not subject to pause.
update_eta(i) ==
    /\ get_shipment(i)
    /\ ~ ship[i].finalized
    /\ side[i].sent < MaxTracking
    /\ Keep(i, emit_eta_updated(side[i]))
    /\ UNCHANGED vars

(***************************************************************************)
(* Archival.                                                               *)
(***************************************************************************)
Archive(i) ==
    /\ archive_shipment(i)
    /\ side' = [side EXCEPT ![i] =
                   purge_status_hashes(
                       purge_dispute_evidence(
                           purge_shipment_notes(purge_counters(@))))]
    /\ copy' = [copy EXCEPT ![i] = IF ship[i].finalized THEN "final" ELSE "open"]
    /\ UNCHANGED <<totals, touched>>

Expire(i) ==
    /\ ExpireArchived(i)
    /\ copy' = [copy EXCEPT ![i] = "none"]
    /\ UNCHANGED <<side, totals, touched>>

\* The copy behind a record that was written back to persistent storage.
ExpireHidden(i) ==
    /\ loc[i] = "persistent"
    /\ copy[i] # "none"
    /\ copy' = [copy EXCEPT ![i] = "none"]
    /\ UNCHANGED <<vars, side, totals, touched>>

-----------------------------------------------------------------------------
(***************************************************************************)
(* Queries.  One that is refused is FALSE or nothing.                      *)
(***************************************************************************)
\* None is a settlement's id, ids being positive.
get_active_settlement(i) == side[i].active

get_settlement_count(i) == Len(side[i].settlements)

get_settlement(i, id) == side[i].settlements[id]

\* With the hash of the last confirmation, that is.
verify_delivery_proof(i) == get_shipment(i) /\ side[i].confirmed

assert_delivery_hash(i) == get_shipment(i) /\ side[i].confirmed

get_status_hash(i, status) == get_shipment(i) /\ status \in side[i].hashes

\* With the last hash recorded for the status.
verify_data_hash(i, status) == get_shipment(i) /\ get_status_hash(i, status)

assert_data_hash(i, status) == get_shipment(i) /\ get_status_hash(i, status)

get_integration_nonce(i) == side[i].nonce

get_note_count(i) == side[i].notes

\* There is no check of the index: what is not stored is not found.
get_note_hash(i, index) == get_shipment(i) /\ index \in side[i].noteAt

get_dispute_evidence_count(i) == side[i].evidence

get_dispute_evidence_hash(i, index) ==
    /\ get_shipment(i)
    /\ index < get_dispute_evidence_count(i)
    /\ index \in side[i].evidenceAt

\* There are no fields for PartiallyDelivered and PartiallyRefunded.
get_analytics ==
    [total_shipments |-> counter,
     total_escrow_volume |-> totals.volume,
     total_disputes |-> totals.disputes,
     counts |-> [s \in ShipmentStatus \ {"PartiallyDelivered", "PartiallyRefunded"}
                   |-> statusCount[s]]]

(***************************************************************************)
(* Diagnostics.                                                            *)
(***************************************************************************)
has_persistent_shipment(i) == loc[i] = "persistent"

is_shipment_archived(i) == copy[i] # "none"

\* The field "state" of get_restore_diagnostics.
get_restore_diagnostics(i) ==
    CASE has_persistent_shipment(i) /\ is_shipment_archived(i) ->
             "InconsistentDualPresence"
      [] has_persistent_shipment(i) -> "ActivePersistent"
      [] is_shipment_archived(i) -> "ArchivedExpected"
      [] OTHER -> "Missing"

get_recovery_record_count(i) == recoveries[i]

has_event_count_entry(x) == x.events > 0

has_confirmation_hash_entry(x) == x.confirmed

has_last_status_update_entry(x) == x.updated

\* The Escrow entry is not looked at here: archive_shipment removes it and it
\* is only ever set together with the persistent record.
has_orphaned_counters(i) ==
    LET x == side[i] IN
    \/ has_event_count_entry(x)
    \/ has_confirmation_hash_entry(x)
    \/ has_last_status_update_entry(x)
    \/ x.milestones > 0 \/ x.breaches > 0 \/ x.active > 0 \/ x.frozen
    \/ x.notes > 0 \/ x.evidence > 0
    \/ get_recovery_record_count(i) > 0

\* The ids that the loop of run_system_health_check_range puts on the list
\* storage_inconsistencies.
storage_inconsistencies(start_id, limit) ==
    LET over == Terminal \cup {"Disputed"}
        last == IF start_id + limit - 1 < counter
                THEN start_id + limit - 1 ELSE counter
    IN  {i \in start_id .. last :
            get_shipment(i) =>
                \/ ship[i].escrow # escrowKey[i]
                \/ ~ has_persistent_shipment(i) /\ ship[i].status \notin over
                \/ /\ ~ has_persistent_shipment(i) /\ ship[i].status \in over
                   /\ has_orphaned_counters(i)}

-----------------------------------------------------------------------------
RecNext ==
    \/ (Tick \/ pause \/ unpause) /\ NoSideEffect
    \/ \E c \in Companies :
           \/ \E input \in ShipmentInput : Create(c, input)
           \/ \E n \in 1 .. BatchLimit : \E inputs \in [1 .. n -> ShipmentInput] :
                  CreateBatch(c, inputs)
    \/ \E i \in Ids :
           \/ \E c \in Companies, a \in Amounts : Deposit(c, i, a)
           \/ \E s \in ShipmentStatus : UpdateStatus(i, s)
           \/ \E k \in Carriers : Handoff(i, k)
           \/ CriticalBreach(i)
           \/ ReportBreach(i)
           \/ ConfirmDelivery(i)
           \/ \E p \in Percents : ConfirmPartialDelivery(i, p)
           \/ \E m \in Milestones : RecordMilestone(i, m)
           \/ \E M \in SUBSET Milestones : RecordMilestonesBatch(i, M)
           \/ RecordCheckpoint(i)
           \/ \E m \in Milestones : ReleaseMilestone(i, m)
           \/ ReleaseEscrow(i)
           \/ SetMetadata(i)
           \/ CancelShipment(i)
           \/ ForceCancel(i)
           \/ Refund(i)
           \/ CheckDeadline(i)
           \/ RaiseDispute(i)
           \/ \E res \in DisputeResolution : ResolveDispute(i, res)
           \/ \E s \in Terminal : ExecuteForce(i, s)
           \/ append_note_hash(i)
           \/ add_dispute_evidence_hash(i)
           \/ report_geofence_event(i)
           \/ update_eta(i)
           \/ Archive(i)
           \/ Expire(i)
           \/ ExpireHidden(i)

RecSpec == RecInit /\ [][RecNext]_allVars

-----------------------------------------------------------------------------
(***************************************************************************)
(* Properties.                                                             *)
(***************************************************************************)

\* An indexer that follows the events, and drops those whose key it has seen,
\* has the right status and escrow for every shipment after every call;
\* whatever proof of delivery or hash of a status was announced to it can be
\* verified while the shipment is in persistent storage, unless
\* confirm_partial_delivery announced it, which stores the hash elsewhere than
\* with the status; and compute_idempotency_key gives it the
\* key an event was published with, except for the two topics the helper gets
\* wrong (geofence_event, whose emitter uses another domain than the table, and
\* milestone_payment_released, which is too long for its buffer).  It holds
\* until an archived shipment is written to again: archive_shipment resets the
\* event counter (events.rs, generate_idempotency_key, next_event_counter).
IndexerAgrees ==
    \A i \in Ids : loc[i] # "absent" /\ ~ touched[i] =>
        /\ side[i].seen.status = ship[i].status
        /\ side[i].seen.escrow = ship[i].escrow
        /\ loc[i] = "persistent" =>
              /\ side[i].seen.proof => verify_delivery_proof(i) /\ assert_delivery_hash(i)
              /\ \A s \in side[i].seen.hashed \ {"PartiallyDelivered", "Delivered"} :
                     verify_data_hash(i, s) /\ assert_data_hash(i, s)
        /\ \A k \in side[i].keys :
              k[2] \notin {"geofence_event", "milestone_payment_released"} =>
                 compute_idempotency_key(k[2], k[3]) = k

\* The health check reports a shipment only for a reason: its archived copy
\* has expired, it was archived with escrow in it, or it was written to after
\* it was archived.  Archival itself leaves no entry behind that the check
\* looks for, and of the status hashes at most that of PartiallyRefunded.  The
\* notes and the evidence of a dispute are found at the indices their counts
\* promise and at no other, before and after: an index that archival has freed
\* never brings an old hash back (lib.rs, get_note_hash,
\* get_dispute_evidence_hash; storage.rs, purge_shipment_notes).
ArchiveLeavesNothing ==
    /\ \A i \in storage_inconsistencies(1, MaxShipments) :
           \/ loc[i] = "absent"
           \/ loc[i] = "archived" /\ ship[i].escrow > 0
           \/ touched[i]
    /\ \A i \in Ids : loc[i] = "archived" /\ ~ touched[i] =>
           side[i].hashes \subseteq {"PartiallyRefunded"}
    /\ \A i \in Ids : get_shipment(i) =>
           /\ {k \in 0 .. MaxNotes : get_note_hash(i, k)} = 0 .. get_note_count(i) - 1
           /\ {k \in 0 .. MaxEvidence : get_dispute_evidence_hash(i, k)} =
                  0 .. get_dispute_evidence_count(i) - 1

\* get_restore_diagnostics finds a shipment in both storages only if it was
\* archived before it was finalized (after check_deadline, or Delivered with
\* escrow left): a settled shipment is in one place.
SettledInOnePlace ==
    \A i \in Ids :
        get_restore_diagnostics(i) = "InconsistentDualPresence" =>
            copy[i] = "open"

\* What the settlement records of shipment i add up to.  A deposit is recorded
\* with its fee.
Explained(i) ==
    LET Worth(s) == IF s.operation = "Deposit"
                    THEN s.amount - PlatformFee(s.amount)
                    ELSE - s.amount
        n == get_settlement_count(i)
    IN  SumTo([k \in 1 .. n |-> Worth(get_settlement(i, k))], n)

Deposited(i) ==
    LET n == get_settlement_count(i)
        Gross(s) == IF s.operation = "Deposit" THEN s.amount ELSE 0
    IN  SumTo([k \in 1 .. n |-> Gross(get_settlement(i, k))], n)

\* The settlement records of a shipment explain its escrow: a call changes the
\* escrow by what the records it adds amount to, and leaves all of them
\* Completed and none active.  What cancel_shipment clears, and what
\* force_cancel_shipment, check_deadline and an executed proposal pay, is in no
\* record: they take all the escrow there is, into Cancelled or Delivered.
\* get_analytics agrees with the records: the volume it reports is that of the
\* deposits, fee included, and the disputes it counts are the shipments that
\* became Disputed, by whichever of the three ways there are.
SettlementsExplain ==
    [][/\ get_analytics.total_escrow_volume' =
             SumTo([i \in Ids |-> Deposited(i)'], MaxShipments)
       /\ get_analytics.total_disputes' - get_analytics.total_disputes =
             Cardinality({i \in Ids : /\ ship[i].status # "Disputed"
                                      /\ ship'[i].status = "Disputed"})
       /\ \A i \in Ids : loc'[i] # "absent" =>
          /\ get_active_settlement(i)' = 0
          /\ \A k \in 1 .. get_settlement_count(i)' :
                 /\ get_settlement(i, k)' \in SettlementRecord
                 /\ get_settlement(i, k)'.state = "Completed"
          /\ loc[i] # "absent" =>
                 \/ ship'[i].escrow - ship[i].escrow = Explained(i)' - Explained(i)
                 \/ /\ get_settlement_count(i)' = get_settlement_count(i)
                    /\ ship'[i].escrow = 0
                    /\ ship'[i].status \in Terminal
      ]_allVars

\* The integration nonce tells two states of a shipment apart: a call that
\* changes its status or escrow raises it, and none lowers it.  The exception
\* is confirm_delivery of a shipment without escrow.
NonceAdvances ==
    [][\A i \in Ids : loc[i] # "absent" /\ loc'[i] # "absent" =>
          /\ get_integration_nonce(i)' >= get_integration_nonce(i)
          /\ \/ ship'[i].status # ship[i].status
             \/ ship'[i].escrow # ship[i].escrow
             => \/ get_integration_nonce(i)' > get_integration_nonce(i)
                \/ ship'[i].status = "Delivered" /\ ship[i].escrow = 0
      ]_allVars
=============================================================================
