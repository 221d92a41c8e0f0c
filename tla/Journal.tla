------------------------------ MODULE Journal ------------------------------
(***************************************************************************)
(* What the shipment contract keeps and announces beside one shipment: the *)
(* counters, hashes and notes, the integration nonce, the settlement       *)
(* records and the events with their idempotency keys.  One operator on    *)
(* the side record x of a shipment for each emitter or storage helper.     *)
(*                                                                         *)
(* The fields keys, sent and seen are not the contract's.  They belong to  *)
(* an indexer that follows the events, takes an event whose key it already *)
(* has for a duplicate, and keeps its own view of the shipment.            *)
(***************************************************************************)
EXTENDS Integers, Sequences, ShipmentStatus

CONSTANTS
    MaxMilestones,    \* config.max_milestones_per_shipment
    MaxBreaches,      \* config.max_breaches_per_shipment
    MaxNotes,         \* config.max_notes_per_shipment
    MaxEvidence       \* config.max_evidence_per_dispute

ASSUME JournalAssumption ==
    {MaxMilestones, MaxBreaches, MaxNotes, MaxEvidence} \subseteq Nat

\* The side record of a shipment nothing was ever written for.  Its settlements
\* are numbered from 1 here; in the code one counter numbers those of all
\* shipments.  active is the entry ActiveSettlement, 0 when there is none.
\* noteAt and evidenceAt are the indices with an entry ShipmentNote and
\* DisputeEvidence.  In seen: the status, the escrow that is left, the statuses
\* a data hash came with and whether a delivery was confirmed with a hash, as
\* far as the indexer knows.
NoRecord ==
    [events |-> 0, milestones |-> 0, breaches |-> 0,
     notes |-> 0, noteAt |-> {}, evidence |-> 0, evidenceAt |-> {},
     hashes |-> {}, confirmed |-> FALSE, updated |-> FALSE,
     frozen |-> FALSE, nonce |-> 0, settlements |-> <<>>, active |-> 0,
     keys |-> {}, sent |-> 0,
     seen |-> [status |-> "Created", escrow |-> 0, hashed |-> {}, proof |-> FALSE]]

-----------------------------------------------------------------------------
(***************************************************************************)
(* Storage.  An absent counter reads as 0, and none is ever stored as 0.   *)
(***************************************************************************)
\* Mutant of increment_event_count: the count stays.
keep_event_count(x) == x

increment_event_count(x) == [x EXCEPT !.events = @ + 1]

increment_milestone_event_count(x) == [x EXCEPT !.milestones = @ + 1]

increment_breach_event_count(x) == [x EXCEPT !.breaches = @ + 1]

increment_note_count(x) == [x EXCEPT !.notes = @ + 1]

set_note_hash(x, index) == [x EXCEPT !.noteAt = @ \cup {index}]

increment_evidence_count(x) == [x EXCEPT !.evidence = @ + 1]

set_evidence_hash(x, index) == [x EXCEPT !.evidenceAt = @ \cup {index}]

set_status_hash(x, status) == [x EXCEPT !.hashes = @ \cup {status}]

set_last_status_update(x) == [x EXCEPT !.updated = TRUE]

set_confirmation_hash(x) == [x EXCEPT !.confirmed = TRUE]

set_escrow_freeze_reason(x) == [x EXCEPT !.frozen = TRUE]

\* shipment.integration_nonce.saturating_add(1).  The nonce is a field of the
\* shipment, so it is archived with it.
BumpNonce(x) == [x EXCEPT !.nonce = @ + 1]

\* Mutant of purge_counters: the breach count stays behind.
purge_but_breaches(x) ==
    [x EXCEPT !.events = 0, !.milestones = 0, !.confirmed = FALSE,
              !.updated = FALSE, !.frozen = FALSE, !.active = 0]

\* remove_event_count, remove_milestone_event_count, remove_breach_event_count,
\* remove_confirmation_hash, remove_last_status_update,
\* remove_escrow_freeze_reason and clear_active_settlement.
purge_counters(x) ==
    [x EXCEPT !.events = 0, !.milestones = 0, !.breaches = 0,
              !.confirmed = FALSE, !.updated = FALSE, !.frozen = FALSE,
              !.active = 0]

purge_shipment_notes(x) ==
    [x EXCEPT !.noteAt = @ \ 0 .. x.notes - 1, !.notes = 0]

purge_dispute_evidence(x) ==
    [x EXCEPT !.evidenceAt = @ \ 0 .. x.evidence - 1, !.evidence = 0]

\* PartiallyRefunded is not in the list of statuses the loop goes through.
purge_status_hashes(x) == [x EXCEPT !.hashes = @ \cap {"PartiallyRefunded"}]

-----------------------------------------------------------------------------
(***************************************************************************)
(* Settlements.  A call that fails rolls its record back, so that no       *)
(* record is ever seen Failed.                                             *)
(***************************************************************************)
SettlementState == {"None", "Pending", "Completed", "Failed"}

SettlementOperation == {"Deposit", "Release", "Refund", "MilestonePayment"}

\* Without the addresses, the timestamps and the error code.
SettlementRecord ==
    [operation : SettlementOperation, state : SettlementState, amount : Nat]

set_settlement(x, id, settlement) ==
    [x EXCEPT !.settlements =
        IF id > Len(@) THEN Append(@, settlement) ELSE [@ EXCEPT ![id] = settlement]]

set_active_settlement(x, id) == [x EXCEPT !.active = id]

clear_active_settlement(x) == [x EXCEPT !.active = 0]

increment_settlement_counter(x) == Len(x.settlements) + 1

create_settlement(x, operation, amount) ==
    LET id == increment_settlement_counter(x) IN
    set_active_settlement(
        set_settlement(x, id, [operation |-> operation, amount |-> amount,
                               state |-> "Pending"]), id)

complete_settlement(x, id) ==
    clear_active_settlement(
        set_settlement(x, id, [x.settlements[id] EXCEPT !.state = "Completed"]))

\* The record around a transfer that succeeds.
Settled(x, operation, amount) ==
    LET y == create_settlement(x, operation, amount)
    IN  complete_settlement(y, y.active)

-----------------------------------------------------------------------------
(***************************************************************************)
(* Idempotency keys.  A key hashes the domain tag, the shipment id, the    *)
(* topic and the event counter; SHA-256 is taken to be injective, and the  *)
(* keys of each shipment are kept apart, so the id is left out.            *)
(***************************************************************************)
generate_idempotency_key(domain, topic, event_counter) ==
    <<domain, topic, event_counter>>

next_event_counter(x) == x.events + 1

\* The rows of NON_DEFAULT_HASH_DOMAINS for topics that are emitted with a key.
hash_domain_for_symbol(topic) ==
    CASE topic \in {"escrow_deposited", "escrow_released", "escrow_refunded",
                    "milestone_payment_released"} -> "ESCROW"
      [] topic = "dispute_resolved" -> "DISPUTE"
      [] topic = "geofence_event" -> "CONDITION"
      [] topic = "platform_fee_collected" -> "PLATFORM"
      [] OTHER -> "SHIPMENT"

\* The entry point an indexer recomputes a key with.  It copies at most 32
\* bytes of the XDR of the topic, of which 8 are a header: slicing a topic of
\* more than 24 characters out of them fails.  The one such topic that is
\* emitted with a key is milestone_payment_released, with 26.
compute_idempotency_key(topic, event_counter) ==
    IF topic = "milestone_payment_released"
    THEN "panic"
    ELSE generate_idempotency_key(hash_domain_for_symbol(topic), topic,
                                  event_counter)

\* Publish with a key, count, and let the indexer read it: a key it has seen
\* makes it skip the event, another one takes it to the view "seen".
Publish(x, domain, topic, seen) ==
    LET key == generate_idempotency_key(domain, topic, next_event_counter(x))
    IN  increment_event_count(
            [x EXCEPT !.keys = @ \cup {key},
                      !.sent = @ + 1,
                      !.seen = IF key \in x.keys THEN @ ELSE seen])

emit_shipment_created(x) == Publish(x, "SHIPMENT", "shipment_created", x.seen)

emit_status_updated(x, new) ==
    Publish(x, "SHIPMENT", "status_updated",
            [x.seen EXCEPT !.status = new, !.hashed = @ \cup {new}])

emit_milestone_recorded(x) ==
    increment_milestone_event_count(
        Publish(x, "SHIPMENT", "milestone_recorded", x.seen))

emit_escrow_deposited(x, amount) ==
    Publish(x, "ESCROW", "escrow_deposited", [x.seen EXCEPT !.escrow = @ + amount])

emit_escrow_released(x, amount) ==
    Publish(x, "ESCROW", "escrow_released", [x.seen EXCEPT !.escrow = @ - amount])

\* Whoever refunds a shipment cancels it.
emit_escrow_refunded(x, amount) ==
    Publish(x, "ESCROW", "escrow_refunded",
            [x.seen EXCEPT !.escrow = @ - amount, !.status = "Cancelled"])

emit_milestone_payment_released(x) ==
    Publish(x, "ESCROW", "milestone_payment_released", x.seen)

emit_platform_fee_collected(x) ==
    Publish(x, "PLATFORM", "platform_fee_collected", x.seen)

emit_shipment_cancelled(x) ==
    Publish(x, "SHIPMENT", "shipment_cancelled",
            [x.seen EXCEPT !.status = "Cancelled"])

emit_shipment_expired(x) ==
    Publish(x, "SHIPMENT", "shipment_expired",
            [x.seen EXCEPT !.status = "Cancelled"])

emit_delivery_success(x) == Publish(x, "SHIPMENT", "delivery_success", x.seen)

emit_delivery_confirmed(x) ==
    Publish(x, "SHIPMENT", "delivery_confirmed",
            [x.seen EXCEPT !.status = "Delivered", !.proof = TRUE])

emit_dispute_resolved(x, new) ==
    Publish(x, "DISPUTE", "dispute_resolved", [x.seen EXCEPT !.status = new])

\* The emitter passes the shipment domain, not the one of the table.
emit_geofence_event(x) == Publish(x, "SHIPMENT", "geofence_event", x.seen)

emit_eta_updated(x) == Publish(x, "SHIPMENT", "eta_updated", x.seen)

\* These three are counted but have no key.
emit_force_cancelled(x) ==
    increment_event_count([x EXCEPT !.seen.status = "Cancelled"])

emit_note_appended(x) == increment_event_count(x)

emit_evidence_added(x) == increment_event_count(x)

\* Neither key nor count.
emit_dispute_raised(x) == [x EXCEPT !.seen.status = "Disputed"]

\* The event "executed" of execute_proposal, which carries the action.
ProposalExecuted(x, new) == [x EXCEPT !.seen.status = new]

-----------------------------------------------------------------------------
(***************************************************************************)
(* Payments to the carrier.                                                *)
(***************************************************************************)
\* Mutant of ReleaseTo: the payment leaves no settlement record.
release_unrecorded(x, actual) ==
    IF actual > 0 THEN emit_escrow_released(BumpNonce(x), actual) ELSE x

\* internal_release_escrow, when it pays anything.
ReleaseTo(x, actual) ==
    IF actual > 0
    THEN emit_escrow_released(BumpNonce(Settled(x, "Release", actual)), actual)
    ELSE x

\* The loop of record_milestones_batch over the milestones that were reached,
\* each paid its share out of what the others left of the escrow.
ReleaseEach(x, escrow, share, reached) ==
    LET after[k \in 0 .. Len(share)] ==
            IF k = 0 THEN [x |-> x, left |-> escrow]
            ELSE LET last == after[k - 1]
                     actual == IF share[k] > last.left THEN last.left ELSE share[k]
                 IN  IF k \notin reached THEN last
                     ELSE [x |-> ReleaseTo(emit_milestone_payment_released(
                                               emit_milestone_recorded(last.x)), actual),
                           left |-> last.left - actual]
    IN  after[Len(share)].x
=============================================================================
