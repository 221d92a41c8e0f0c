--------------------------- MODULE JournalProofs ----------------------------
(***************************************************************************)
(* Proofs about the operators of Journal, for every number of events,      *)
(* notes and settlements.  A handler leaves behind a side record that it   *)
(* reaches from the old one in steps, one per emitter and storage helper;  *)
(* Reaches carries along the chain what the properties need to know of it, *)
(* and each lemma adds a link.                                             *)
(***************************************************************************)
EXTENDS Journal, Fees, FiniteSets, SumsProofs

\* The topics that compute_idempotency_key gets wrong.
Misnamed == {"geofence_event", "milestone_payment_released"}

\* The domain tags and the topics of the events with a key.
Domains == {"SHIPMENT", "ESCROW", "DISPUTE", "PLATFORM"}

Topics ==
    {"shipment_created", "status_updated", "milestone_recorded",
     "shipment_cancelled", "shipment_expired", "delivery_success",
     "delivery_confirmed", "eta_updated", "escrow_deposited", "escrow_released",
     "escrow_refunded", "dispute_resolved", "platform_fee_collected"} \cup Misnamed

\* What the indexer knows of a shipment.
View ==
    [status : ShipmentStatus, escrow : Int, hashed : SUBSET ShipmentStatus,
     proof : BOOLEAN]

\* The type of a side record.
Side ==
    [events : Nat, milestones : Nat, breaches : Nat,
     notes : Nat, noteAt : SUBSET Nat, evidence : Nat, evidenceAt : SUBSET Nat,
     hashes : SUBSET ShipmentStatus, confirmed : BOOLEAN, updated : BOOLEAN,
     frozen : BOOLEAN, nonce : Nat, settlements : Seq(SettlementRecord),
     active : Nat, keys : SUBSET (Domains \X Topics \X Nat), sent : Nat,
     seen : View]

\* What confirm_partial_delivery announces and does not store with the status.
Unstored == {"PartiallyDelivered", "Delivered"}

\* Every key but theirs has the domain of the table.
Keyed(domain, topic) ==
    /\ domain \in Domains /\ topic \in Topics
    /\ topic \notin Misnamed => hash_domain_for_symbol(topic) = domain

Named(x) == \A k \in x.keys : k[2] \notin Misnamed => hash_domain_for_symbol(k[2]) = k[1]

\* The indexer takes no new event for an old one, and can verify what it was
\* told.
Listening(x) ==
    /\ Named(x)
    /\ \A k \in x.keys : k[3] <= x.events
    /\ x.seen.proof => x.confirmed
    /\ x.seen.hashed \ Unstored \subseteq x.hashes

\* The notes and the evidence are where their counts say.
Indexed(x) ==
    /\ x.notes <= MaxNotes /\ x.noteAt = 0 .. x.notes - 1
    /\ x.evidence <= MaxEvidence /\ x.evidenceAt = 0 .. x.evidence - 1

\* No settlement is under way.
Booked(x) ==
    /\ x.active = 0
    /\ \A k \in 1 .. Len(x.settlements) : x.settlements[k].state = "Completed"

\* What every handler keeps true of a side record.
Follows(x, y) ==
    /\ y \in Side
    /\ Indexed(x) => Indexed(y)
    /\ Booked(x) => Booked(y)
    /\ Listening(x) => Listening(y)
    /\ x.confirmed => y.confirmed

\* And where y stands: n nonces above x, with the settlements q, known to the
\* indexer with status s and escrow e.
Reaches(x, y, n, q, s, e) ==
    /\ Follows(x, y)
    /\ y.nonce = x.nonce + n
    /\ y.settlements = q
    /\ Listening(x) => y.seen.status = s /\ y.seen.escrow = e

\* A settlement that went through.
Done(operation, amount) ==
    [operation |-> operation, amount |-> amount, state |-> "Completed"]

(***************************************************************************)
(* The links of the chain.                                                 *)
(***************************************************************************)

\* The fields of a side record.
LEMMA SideFields ==
    ASSUME NEW x \in Side
    PROVE  /\ x.events \in Nat /\ x.milestones \in Nat /\ x.breaches \in Nat
           /\ x.notes \in Nat /\ x.evidence \in Nat /\ x.nonce \in Nat
           /\ x.noteAt \in SUBSET Nat /\ x.evidenceAt \in SUBSET Nat
           /\ x.hashes \in SUBSET ShipmentStatus
           /\ x.confirmed \in BOOLEAN /\ x.frozen \in BOOLEAN
           /\ x.settlements \in Seq(SettlementRecord) /\ x.active \in Nat
           /\ x.keys \in SUBSET (Domains \X Topics \X Nat)
           /\ x.seen \in View
           /\ x.seen.status \in ShipmentStatus /\ x.seen.escrow \in Int
           /\ x.seen.hashed \in SUBSET ShipmentStatus /\ x.seen.proof \in BOOLEAN
<1>1. x.seen \in View
  BY DEF Side
<1>2. /\ x.seen.status \in ShipmentStatus /\ x.seen.escrow \in Int
      /\ x.seen.hashed \in SUBSET ShipmentStatus /\ x.seen.proof \in BOOLEAN
  BY <1>1 DEF View
<1> QED BY <1>1, <1>2, Zenon DEF Side

\* The chain starts where the record is.
LEMMA Here ==
    ASSUME NEW x \in Side
    PROVE  Reaches(x, x, 0, x.settlements, x.seen.status, x.seen.escrow)
BY SideFields, SMT, SMTT(40) DEF Reaches, Follows

\* The next link is added to what was reached.
LEMMA Link ==
    ASSUME NEW x \in Side, NEW y, NEW z, NEW m \in Nat, NEW n \in Nat, NEW q, NEW p,
           NEW s, NEW t, NEW e, NEW f, NEW s1, NEW e1,
           Reaches(x, y, m, q, s, e), Reaches(y, z, n, p, s1, e1),
           Listening(x) => s1 = t /\ e1 = f
    PROVE  Reaches(x, z, m + n, p, t, f)
<1>1. y \in Side /\ x.nonce \in Nat
  BY SideFields DEF Reaches, Follows
<1>2. z.nonce = x.nonce + (m + n)
  BY <1>1, SMT, SMTT(40) DEF Reaches
<1>3. Follows(x, z)
  BY Zenon DEF Reaches, Follows
<1> QED BY <1>2, <1>3, Zenon DEF Reaches, Follows

\* An event with a key: the indexer that has taken every event so far takes
\* this one too.
LEMMA PublishLink ==
    ASSUME NEW x \in Side, NEW domain, NEW topic, Keyed(domain, topic),
           NEW seen \in View, NEW y, y = Publish(x, domain, topic, seen),
           Listening(x) => /\ seen.proof => x.confirmed
                           /\ seen.hashed \ Unstored \subseteq x.hashes
    PROVE  Reaches(x, y, 0, x.settlements, seen.status, seen.escrow)
<1> DEFINE key == <<domain, topic, x.events + 1>>
           told == IF key \in x.keys THEN x.seen ELSE seen
           z == [x EXCEPT !.keys = x.keys \cup {key}, !.sent = x.sent + 1, !.seen = told]
<1>1. /\ x.events \in Nat /\ x.seen \in View
      /\ x.keys \in SUBSET (Domains \X Topics \X Nat) /\ x.nonce \in Nat
  BY SideFields
<1>2. key \in Domains \X Topics \X Nat /\ told \in View
  BY <1>1, SMT, SMTT(40) DEF Keyed
<1>3. y = [z EXCEPT !.events = @ + 1]
  BY DEF Publish, generate_idempotency_key, next_event_counter, increment_event_count
<1>4. key[1] = domain /\ key[2] = topic /\ key[3] = x.events + 1
  OBVIOUS
<1>5. x.keys \cup {key} \in SUBSET (Domains \X Topics \X Nat)
  BY <1>1, <1>2
<1>6. Listening(x) => told = seen
  BY <1>1, <1>4, SMT, SMTT(40) DEF Listening
<1> HIDE DEF key, told
<1>7. z \in Side
  <2>1. x.sent + 1 \in Nat
    BY SMT, SMTT(40) DEF Side
  <2> QED BY <1>2, <1>5, <2>1, Zenon DEF Side
<1>8. /\ z.events = x.events /\ z.keys = x.keys \cup {key}
      /\ z.seen = told /\ z.confirmed = x.confirmed /\ z.hashes = x.hashes
      /\ z.nonce = x.nonce /\ z.settlements = x.settlements /\ z.active = x.active
      /\ z.notes = x.notes /\ z.noteAt = x.noteAt
      /\ z.evidence = x.evidence /\ z.evidenceAt = x.evidenceAt
  BY DEF Side
<1> HIDE DEF z
<1>9. y \in Side
  <2>1. z.events + 1 \in Nat
    BY <1>1, <1>8, SMT, SMTT(40)
  <2> QED BY <1>3, <1>7, <2>1, Zenon DEF Side
<1>10. /\ y.events = x.events + 1 /\ y.keys = x.keys \cup {key}
      /\ y.seen = told /\ y.confirmed = x.confirmed /\ y.hashes = x.hashes
      /\ y.nonce = x.nonce /\ y.settlements = x.settlements /\ y.active = x.active
      /\ y.notes = x.notes /\ y.noteAt = x.noteAt
      /\ y.evidence = x.evidence /\ y.evidenceAt = x.evidenceAt
  BY <1>3, <1>7, <1>8 DEF Side
<1>11. ASSUME Listening(x) PROVE Listening(y)
  <2>1. Named(y)
    BY <1>4, <1>10, <1>11 DEF Listening, Named, Keyed
  <2>2. \A k \in y.keys : k[3] <= y.events
    <3>1. \A k \in x.keys : k[3] \in Nat /\ k[3] <= x.events
      BY <1>1, <1>11 DEF Listening
    <3> QED BY <1>1, <1>4, <1>10, <3>1, SMT, SMTT(40)
  <2>3. y.seen.proof => y.confirmed
    BY <1>6, <1>10, <1>11, Zenon
  <2>4. y.seen.hashed \ Unstored \subseteq y.hashes
    BY <1>6, <1>10, <1>11, Zenon
  <2> QED BY <2>1, <2>2, <2>3, <2>4 DEF Listening
<1>12. (Indexed(x) => Indexed(y)) /\ (Booked(x) => Booked(y))
  BY <1>10, Zenon DEF Indexed, Booked
<1>13. Follows(x, y)
  BY <1>9, <1>10, <1>11, <1>12, Zenon DEF Follows
<1>14. y.nonce = x.nonce + 0
  BY <1>1, <1>10, SMT, SMTT(40)
<1> QED BY <1>6, <1>10, <1>13, <1>14, Zenon DEF Reaches

\* Changes that no event with a key goes with: what the indexer can verify is
\* not taken back.
LEMMA PlainLink ==
    ASSUME NEW x \in Side, NEW y \in Side, NEW n \in Nat,
           y.nonce = x.nonce + n, y.events >= x.events, y.keys = x.keys,
           x.hashes \subseteq y.hashes, x.confirmed => y.confirmed,
           Indexed(x) => Indexed(y), Booked(x) => Booked(y),
           y.seen.hashed = x.seen.hashed, y.seen.proof = x.seen.proof
    PROVE  Reaches(x, y, n, y.settlements, y.seen.status, y.seen.escrow)
<1>1. ASSUME Listening(x) PROVE Listening(y)
  <2>1. Named(y)
    BY <1>1 DEF Listening, Named
  <2>2. \A k \in y.keys : k[3] <= y.events
    <3>1. \A k \in x.keys : k[3] \in Nat /\ k[3] <= x.events
      BY <1>1, SideFields DEF Listening
    <3>2. x.events \in Nat /\ y.events \in Nat
      BY SideFields
    <3> QED BY <3>1, <3>2, SMT, SMTT(40)
  <2>3. y.seen.proof => y.confirmed
    BY <1>1, Zenon DEF Listening
  <2>4. y.seen.hashed \ Unstored \subseteq y.hashes
    BY <1>1 DEF Listening
  <2> QED BY <2>1, <2>2, <2>3, <2>4 DEF Listening
<1> QED BY <1>1, Zenon DEF Reaches, Follows

\* The nonce.
LEMMA Bumped ==
    ASSUME NEW x \in Side, NEW y, NEW n \in Nat, NEW q, NEW s, NEW e,
           Reaches(x, y, n, q, s, e)
    PROVE  Reaches(x, BumpNonce(y), n + 1, q, s, e)
<1> DEFINE z == BumpNonce(y)
<1>1. y \in Side /\ y.nonce \in Nat /\ y.events \in Nat
  BY SideFields DEF Reaches, Follows
<1>0. z \in Side
  <2>1. y.nonce + 1 \in Nat
    BY <1>1, SMT, SMTT(40)
  <2> QED BY <1>1, <2>1, Zenon DEF BumpNonce, Side
<1>2. /\ z.nonce = y.nonce + 1 /\ z.events = y.events /\ z.keys = y.keys
      /\ z.hashes = y.hashes /\ z.confirmed = y.confirmed /\ z.seen = y.seen
      /\ z.settlements = y.settlements /\ z.active = y.active
      /\ z.notes = y.notes /\ z.noteAt = y.noteAt
      /\ z.evidence = y.evidence /\ z.evidenceAt = y.evidenceAt
  BY <1>1 DEF BumpNonce, Side
<1> HIDE DEF z
<1>3. (Indexed(y) => Indexed(z)) /\ (Booked(y) => Booked(z))
  BY <1>2, Zenon DEF Indexed, Booked
<1>4. z.events >= y.events
  BY <1>1, <1>2, SMT, SMTT(40)
<1>5. Reaches(y, z, 1, z.settlements, z.seen.status, z.seen.escrow)
  BY <1>0, <1>1, <1>2, <1>3, <1>4, PlainLink
<1>6. z.settlements = q /\ (Listening(x) => z.seen.status = s /\ z.seen.escrow = e)
  BY <1>2, Zenon DEF Reaches
<1>7. Reaches(y, z, 1, q, z.seen.status, z.seen.escrow)
  BY <1>5, <1>6
<1> QED BY <1>6, <1>7, Link DEF z

\* A count or a flag that the indexer is told nothing of.
LEMMA Noted ==
    ASSUME NEW x \in Side, NEW y, NEW n \in Nat, NEW q, NEW s, NEW e,
           Reaches(x, y, n, q, s, e), NEW z,
           \/ z = increment_milestone_event_count(y)
           \/ z = increment_breach_event_count(y)
           \/ z = set_last_status_update(y)
           \/ z = set_escrow_freeze_reason(y)
           \/ z = set_confirmation_hash(y)
           \/ \E new \in ShipmentStatus : z = set_status_hash(y, new)
    PROVE  Reaches(x, z, n, q, s, e)
<1>1. /\ y \in Side /\ y.nonce \in Nat /\ y.events \in Nat
      /\ y.milestones + 1 \in Nat /\ y.breaches + 1 \in Nat
      /\ \A new \in ShipmentStatus : y.hashes \cup {new} \in SUBSET ShipmentStatus
  BY SideFields, SMT, SMTT(40) DEF Reaches, Follows
<1>2. z \in Side
  <2>1. CASE z = increment_milestone_event_count(y)
    BY <1>1, <2>1, Zenon DEF increment_milestone_event_count, Side
  <2>2. CASE z = increment_breach_event_count(y)
    BY <1>1, <2>2, Zenon DEF increment_breach_event_count, Side
  <2>3. CASE z = set_last_status_update(y)
    BY <1>1, <2>3, Zenon DEF set_last_status_update, Side
  <2>4. CASE z = set_escrow_freeze_reason(y)
    BY <1>1, <2>4, Zenon DEF set_escrow_freeze_reason, Side
  <2>5. CASE z = set_confirmation_hash(y)
    BY <1>1, <2>5, Zenon DEF set_confirmation_hash, Side
  <2>6. ASSUME NEW new \in ShipmentStatus, z = set_status_hash(y, new) PROVE z \in Side
    BY <1>1, <2>6, Zenon DEF set_status_hash, Side
  <2> QED BY <2>1, <2>2, <2>3, <2>4, <2>5, <2>6
<1>3. /\ z.nonce = y.nonce /\ z.events = y.events /\ z.keys = y.keys
      /\ z.seen = y.seen /\ z.settlements = y.settlements /\ z.active = y.active
      /\ z.notes = y.notes /\ z.noteAt = y.noteAt
      /\ z.evidence = y.evidence /\ z.evidenceAt = y.evidenceAt
      /\ y.hashes \subseteq z.hashes
      /\ z.confirmed = y.confirmed \/ z.confirmed = TRUE
  BY <1>1, ZenonT(40) DEF increment_milestone_event_count, increment_breach_event_count,
              set_last_status_update, set_escrow_freeze_reason,
              set_confirmation_hash, set_status_hash, Side
<1>4. y.confirmed => z.confirmed
  BY <1>3, Zenon
<1>5. (Indexed(y) => Indexed(z)) /\ (Booked(y) => Booked(z))
  BY <1>3, Zenon DEF Indexed, Booked
<1>6. z.events >= y.events /\ z.nonce = y.nonce + 0
  BY <1>1, <1>3, SMT, SMTT(40)
<1>7. Reaches(y, z, 0, z.settlements, z.seen.status, z.seen.escrow)
  BY <1>1, <1>2, <1>3, <1>4, <1>5, <1>6, PlainLink
<1>8. z.settlements = q /\ (Listening(x) => z.seen.status = s /\ z.seen.escrow = e)
  BY <1>3, Zenon DEF Reaches
<1>9. Reaches(y, z, 0, q, z.seen.status, z.seen.escrow)
  BY <1>7, <1>8
<1>10. Reaches(x, z, n + 0, q, s, e)
  BY <1>8, <1>9, Link
<1> QED BY <1>10, SMT, SMTT(40)

\* What the indexer is told without a key: a status.
LEMMA Hinted ==
    ASSUME NEW x \in Side, NEW y, NEW n \in Nat, NEW q, NEW s, NEW e,
           Reaches(x, y, n, q, s, e), NEW z, NEW t \in ShipmentStatus,
           \/ z = ProposalExecuted(y, t)
           \/ z = emit_dispute_raised(y) /\ t = "Disputed"
           \/ z = emit_force_cancelled(y) /\ t = "Cancelled"
    PROVE  Reaches(x, z, n, q, t, e)
<1>1. y \in Side /\ y.nonce \in Nat /\ y.events \in Nat /\ y.seen \in View
  BY SideFields DEF Reaches, Follows
<1> DEFINE v == [y.seen EXCEPT !.status = t]
<1>1a. v \in View
  BY <1>1, Zenon DEF View
<1>2. /\ v.status = t /\ v.escrow = y.seen.escrow
      /\ v.hashed = y.seen.hashed /\ v.proof = y.seen.proof
  BY <1>1 DEF View
<1>3. z = [y EXCEPT !.seen = v] \/ z = [y EXCEPT !.seen = v, !.events = y.events + 1]
  BY <1>1, Zenon DEF ProposalExecuted, emit_dispute_raised, emit_force_cancelled,
              increment_event_count, Side
<1> HIDE DEF v
<1>3a. z \in Side
  <2>1. y.events + 1 \in Nat
    BY <1>1, SMT, SMTT(40)
  <2>2. [y EXCEPT !.seen = v] \in Side
    BY <1>1a, <1>1, Zenon DEF Side
  <2>3. [y EXCEPT !.seen = v, !.events = y.events + 1] \in Side
    BY <1>1a, <1>1, <2>1, Zenon DEF Side
  <2> QED BY <1>3, <2>2, <2>3, Zenon
<1>4. /\ z.nonce = y.nonce /\ z.keys = y.keys
      /\ z.seen = v /\ z.settlements = y.settlements /\ z.active = y.active
      /\ z.notes = y.notes /\ z.noteAt = y.noteAt
      /\ z.evidence = y.evidence /\ z.evidenceAt = y.evidenceAt
      /\ z.hashes = y.hashes /\ z.confirmed = y.confirmed
  BY <1>1, <1>3, Zenon DEF Side
<1>5. z.events >= y.events /\ z.nonce = y.nonce + 0
  <2>1. z.events = y.events \/ z.events = y.events + 1
    BY <1>1, <1>3, Zenon DEF Side
  <2> QED BY <1>1, <1>4, <2>1, SMT, SMTT(40)
<1>6. (Indexed(y) => Indexed(z)) /\ (Booked(y) => Booked(z))
  BY <1>4, Zenon DEF Indexed, Booked
<1>6a. z.seen.hashed = y.seen.hashed /\ z.seen.proof = y.seen.proof
  BY <1>2, <1>4
<1>7. Reaches(y, z, 0, z.settlements, z.seen.status, z.seen.escrow)
  BY <1>1, <1>3a, <1>4, <1>5, <1>6, <1>6a, PlainLink
<1>8. z.settlements = q /\ (Listening(x) => z.seen.status = t /\ z.seen.escrow = e)
  BY <1>2, <1>4, Zenon DEF Reaches
<1>9. Reaches(y, z, 0, q, z.seen.status, z.seen.escrow)
  BY <1>7, <1>8
<1>10. Reaches(x, z, n + 0, q, t, e)
  BY <1>8, <1>9, Link
<1> QED BY <1>10, SMT, SMTT(40)

\* What the indexer is told with a key.
LEMMA Told ==
    ASSUME NEW x \in Side, NEW y, NEW n \in Nat, NEW q, NEW s, NEW e,
           Reaches(x, y, n, q, s, e),
           NEW domain, NEW topic, Keyed(domain, topic), NEW seen \in View,
           Listening(y) => /\ seen.proof => y.confirmed
                           /\ seen.hashed \ Unstored \subseteq y.hashes,
           NEW t, NEW f, Listening(x) => seen.status = t /\ seen.escrow = f
    PROVE  Reaches(x, Publish(y, domain, topic, seen), n, q, t, f)
<1> DEFINE z == Publish(y, domain, topic, seen)
<1>1. y \in Side /\ y.settlements = q
  BY DEF Reaches, Follows
<1>2. Reaches(y, z, 0, y.settlements, seen.status, seen.escrow)
  BY <1>1, PublishLink
<1> HIDE DEF z
<1>3. Reaches(y, z, 0, q, seen.status, seen.escrow)
  BY <1>1, <1>2
<1>4. Reaches(x, z, n + 0, q, t, f)
  BY <1>3, Link
<1> QED BY <1>4, SMT, SMTT(40) DEF z

\* The domains that the emitters use.
LEMMA EmitterDomains ==
    /\ Keyed("SHIPMENT", "shipment_created") /\ Keyed("SHIPMENT", "status_updated")
    /\ Keyed("SHIPMENT", "milestone_recorded") /\ Keyed("SHIPMENT", "eta_updated")
    /\ Keyed("SHIPMENT", "shipment_cancelled") /\ Keyed("SHIPMENT", "shipment_expired")
    /\ Keyed("SHIPMENT", "delivery_success") /\ Keyed("SHIPMENT", "delivery_confirmed")
    /\ Keyed("SHIPMENT", "geofence_event")
    /\ Keyed("ESCROW", "escrow_deposited") /\ Keyed("ESCROW", "escrow_released")
    /\ Keyed("ESCROW", "escrow_refunded")
    /\ Keyed("ESCROW", "milestone_payment_released")
    /\ Keyed("DISPUTE", "dispute_resolved")
    /\ Keyed("PLATFORM", "platform_fee_collected")
BY DEF Keyed, Domains, Topics, Misnamed, hash_domain_for_symbol

\* An event that changes nothing in the indexer's view.
LEMMA SameViewEvent ==
    ASSUME NEW x \in Side, NEW y, NEW n \in Nat, NEW q, NEW s, NEW e,
           Reaches(x, y, n, q, s, e), NEW domain, NEW topic, Keyed(domain, topic)
    PROVE  Reaches(x, Publish(y, domain, topic, y.seen), n, q, s, e)
<1>1. y.seen \in View
  BY SideFields DEF Reaches, Follows
<1>2. Listening(y) => /\ y.seen.proof => y.confirmed
                      /\ y.seen.hashed \ Unstored \subseteq y.hashes
  BY Zenon DEF Listening
<1>3. Listening(x) => y.seen.status = s /\ y.seen.escrow = e
  BY DEF Reaches
<1> QED BY <1>1, <1>2, <1>3, Told

\* These are all the events of that kind.
LEMMA SameViewEvents ==
    ASSUME NEW x \in Side, NEW y, NEW n \in Nat, NEW q, NEW s, NEW e,
           Reaches(x, y, n, q, s, e)
    PROVE  /\ Reaches(x, emit_shipment_created(y), n, q, s, e)
           /\ Reaches(x, emit_milestone_recorded(y), n, q, s, e)
           /\ Reaches(x, emit_milestone_payment_released(y), n, q, s, e)
           /\ Reaches(x, emit_platform_fee_collected(y), n, q, s, e)
           /\ Reaches(x, emit_delivery_success(y), n, q, s, e)
           /\ Reaches(x, emit_geofence_event(y), n, q, s, e)
           /\ Reaches(x, emit_eta_updated(y), n, q, s, e)
<1>1. Reaches(x, emit_shipment_created(y), n, q, s, e)
  BY SameViewEvent, EmitterDomains DEF emit_shipment_created
<1>2. Reaches(x, emit_milestone_recorded(y), n, q, s, e)
  <2>1. Reaches(x, Publish(y, "SHIPMENT", "milestone_recorded", y.seen), n, q, s, e)
    BY SameViewEvent, EmitterDomains
  <2> QED BY <2>1, Noted DEF emit_milestone_recorded
<1>3. Reaches(x, emit_milestone_payment_released(y), n, q, s, e)
  BY SameViewEvent, EmitterDomains DEF emit_milestone_payment_released
<1>4. Reaches(x, emit_platform_fee_collected(y), n, q, s, e)
  BY SameViewEvent, EmitterDomains DEF emit_platform_fee_collected
<1>5. Reaches(x, emit_delivery_success(y), n, q, s, e)
  BY SameViewEvent, EmitterDomains DEF emit_delivery_success
<1>6. Reaches(x, emit_geofence_event(y), n, q, s, e)
  BY SameViewEvent, EmitterDomains DEF emit_geofence_event
<1>7. Reaches(x, emit_eta_updated(y), n, q, s, e)
  BY SameViewEvent, EmitterDomains DEF emit_eta_updated
<1> QED BY <1>1, <1>2, <1>3, <1>4, <1>5, <1>6, <1>7

\* An event that announces a status and an escrow.
LEMMA NewViewEvent ==
    ASSUME NEW x \in Side, NEW y, NEW n \in Nat, NEW q, NEW s, NEW e,
           Reaches(x, y, n, q, s, e), NEW domain, NEW topic, Keyed(domain, topic),
           NEW seen \in View, seen.hashed = y.seen.hashed,
           seen.proof = y.seen.proof,
           NEW t, NEW f, Listening(x) => seen.status = t /\ seen.escrow = f
    PROVE  Reaches(x, Publish(y, domain, topic, seen), n, q, t, f)
<1>1. Listening(y) => /\ seen.proof => y.confirmed
                      /\ seen.hashed \ Unstored \subseteq y.hashes
  BY Zenon DEF Listening
<1> QED BY <1>1, Told

\* The events about money.
LEMMA AmountEvents ==
    ASSUME NEW x \in Side, NEW y, NEW n \in Nat, NEW q, NEW s, NEW e \in Int,
           Reaches(x, y, n, q, s, e), NEW a \in Int
    PROVE  /\ Reaches(x, emit_escrow_deposited(y, a), n, q, s, e + a)
           /\ Reaches(x, emit_escrow_released(y, a), n, q, s, e - a)
           /\ Reaches(x, emit_escrow_refunded(y, a), n, q, "Cancelled", e - a)
<1>1. /\ y.seen \in View /\ y.seen.escrow \in Int
      /\ y.seen.escrow + a \in Int /\ y.seen.escrow - a \in Int
      /\ Listening(x) => y.seen.status = s /\ y.seen.escrow = e
  BY SideFields, SMT, SMTT(40) DEF Reaches, Follows
<1>2. Reaches(x, emit_escrow_deposited(y, a), n, q, s, e + a)
  <2> DEFINE v == [y.seen EXCEPT !.escrow = @ + a]
  <2>1a. v \in View
    BY <1>1, Zenon DEF View
  <2>1. /\ v.hashed = y.seen.hashed /\ v.proof = y.seen.proof
        /\ v.status = y.seen.status /\ v.escrow = y.seen.escrow + a
    BY <1>1 DEF View
  <2> HIDE DEF v
  <2>2. Listening(x) => v.status = s /\ v.escrow = e + a
    BY <1>1, <2>1
  <2>3. Reaches(x, Publish(y, "ESCROW", "escrow_deposited", v), n, q, s, e + a)
    BY <2>1a, <2>1, <2>2, NewViewEvent, EmitterDomains, Zenon
  <2> QED BY <2>3 DEF emit_escrow_deposited, v
<1>3. Reaches(x, emit_escrow_released(y, a), n, q, s, e - a)
  <2> DEFINE v == [y.seen EXCEPT !.escrow = @ - a]
  <2>1a. v \in View
    BY <1>1, Zenon DEF View
  <2>1. /\ v.hashed = y.seen.hashed /\ v.proof = y.seen.proof
        /\ v.status = y.seen.status /\ v.escrow = y.seen.escrow - a
    BY <1>1 DEF View
  <2> HIDE DEF v
  <2>2. Listening(x) => v.status = s /\ v.escrow = e - a
    BY <1>1, <2>1
  <2>3. Reaches(x, Publish(y, "ESCROW", "escrow_released", v), n, q, s, e - a)
    BY <2>1a, <2>1, <2>2, NewViewEvent, EmitterDomains
  <2> QED BY <2>3 DEF emit_escrow_released, v
<1>4. Reaches(x, emit_escrow_refunded(y, a), n, q, "Cancelled", e - a)
  <2> DEFINE v == [y.seen EXCEPT !.escrow = @ - a, !.status = "Cancelled"]
  <2>1a. v \in View
    BY <1>1, Zenon DEF View, ShipmentStatus
  <2>1. /\ v.hashed = y.seen.hashed /\ v.proof = y.seen.proof
        /\ v.status = "Cancelled" /\ v.escrow = y.seen.escrow - a
    BY <1>1 DEF View
  <2> HIDE DEF v
  <2>2. Listening(x) => v.status = "Cancelled" /\ v.escrow = e - a
    BY <1>1, <2>1
  <2>3. Reaches(x, Publish(y, "ESCROW", "escrow_refunded", v), n, q, "Cancelled", e - a)
    BY <2>1a, <2>1, <2>2, NewViewEvent, EmitterDomains
  <2> QED BY <2>3 DEF emit_escrow_refunded, v
<1> QED BY <1>2, <1>3, <1>4

\* The events that only announce a status.
LEMMA StatusEvents ==
    ASSUME NEW x \in Side, NEW y, NEW n \in Nat, NEW q, NEW s, NEW e,
           Reaches(x, y, n, q, s, e), NEW z, NEW t \in ShipmentStatus,
           \/ z = emit_dispute_resolved(y, t)
           \/ z = emit_shipment_cancelled(y) /\ t = "Cancelled"
           \/ z = emit_shipment_expired(y) /\ t = "Cancelled"
    PROVE  Reaches(x, z, n, q, t, e)
<1> DEFINE v == [y.seen EXCEPT !.status = t]
<1>1. /\ y.seen \in View
      /\ Listening(x) => y.seen.status = s /\ y.seen.escrow = e
  BY SideFields DEF Reaches, Follows
<1>2a. v \in View
  BY <1>1, Zenon DEF View
<1>2. /\ v.hashed = y.seen.hashed /\ v.proof = y.seen.proof
      /\ v.status = t /\ v.escrow = y.seen.escrow
  BY <1>1 DEF View
<1>3. \/ z = Publish(y, "DISPUTE", "dispute_resolved", v)
      \/ z = Publish(y, "SHIPMENT", "shipment_cancelled", v)
      \/ z = Publish(y, "SHIPMENT", "shipment_expired", v)
  BY DEF emit_dispute_resolved, emit_shipment_cancelled, emit_shipment_expired
<1> HIDE DEF v
<1>4. Listening(x) => v.status = t /\ v.escrow = e
  BY <1>1, <1>2
<1>5. /\ Reaches(x, Publish(y, "DISPUTE", "dispute_resolved", v), n, q, t, e)
      /\ Reaches(x, Publish(y, "SHIPMENT", "shipment_cancelled", v), n, q, t, e)
      /\ Reaches(x, Publish(y, "SHIPMENT", "shipment_expired", v), n, q, t, e)
  BY <1>2a, <1>2, <1>4, NewViewEvent, EmitterDomains
<1> QED BY <1>3, <1>5, Zenon

\* A status that comes with a hash, which is stored with it.
LEMMA HashedEvent ==
    ASSUME NEW x \in Side, NEW y, NEW n \in Nat, NEW q, NEW s, NEW e,
           Reaches(x, y, n, q, s, e), NEW t \in ShipmentStatus,
           t \in y.hashes \cup Unstored
    PROVE  Reaches(x, emit_status_updated(y, t), n, q, t, e)
<1> DEFINE v == [y.seen EXCEPT !.status = t, !.hashed = @ \cup {t}]
<1>1. /\ y.seen \in View /\ y.seen.hashed \cup {t} \in SUBSET ShipmentStatus
      /\ Listening(x) => y.seen.status = s /\ y.seen.escrow = e
  BY SideFields DEF Reaches, Follows
<1>2a. v \in View
  BY <1>1, Zenon DEF View
<1>2. /\ v.hashed = y.seen.hashed \cup {t}
      /\ v.proof = y.seen.proof /\ v.status = t /\ v.escrow = y.seen.escrow
  BY <1>1 DEF View
<1> HIDE DEF v
<1>3. Listening(x) => v.status = t /\ v.escrow = e
  BY <1>1, <1>2
<1>4. Listening(y) => (v.proof => y.confirmed)
  BY <1>2, Zenon DEF Listening
<1>5. Listening(y) => v.hashed \ Unstored \subseteq y.hashes
  BY <1>2 DEF Listening
<1>6. Reaches(x, Publish(y, "SHIPMENT", "status_updated", v), n, q, t, e)
  BY <1>2a, <1>2, <1>3, <1>4, <1>5, Told, EmitterDomains, Zenon
<1> QED BY <1>6 DEF emit_status_updated, v

\* A delivery that comes with a proof, which is stored.
LEMMA ProofEvent ==
    ASSUME NEW x \in Side, NEW y, NEW n \in Nat, NEW q, NEW s, NEW e,
           Reaches(x, y, n, q, s, e), y.confirmed
    PROVE  Reaches(x, emit_delivery_confirmed(y), n, q, "Delivered", e)
<1> DEFINE v == [y.seen EXCEPT !.status = "Delivered", !.proof = TRUE]
<1>1. /\ y.seen \in View
      /\ Listening(x) => y.seen.status = s /\ y.seen.escrow = e
  BY SideFields DEF Reaches, Follows
<1>2a. v \in View
  BY <1>1, Zenon DEF View, ShipmentStatus
<1>2. /\ v.hashed = y.seen.hashed
      /\ v.status = "Delivered" /\ v.escrow = y.seen.escrow
  BY <1>1 DEF View
<1> HIDE DEF v
<1>3. Listening(x) => v.status = "Delivered" /\ v.escrow = e
  BY <1>1, <1>2
<1>4. Listening(y) => v.hashed \ Unstored \subseteq y.hashes
  BY <1>2 DEF Listening
<1>5. Reaches(x, Publish(y, "SHIPMENT", "delivery_confirmed", v), n, q, "Delivered", e)
  BY <1>2a, <1>2, <1>3, <1>4, Told, EmitterDomains
<1> QED BY <1>5 DEF emit_delivery_confirmed, v

\* The record around a transfer ends up Completed and no longer active.
LEMMA SettledLink ==
    ASSUME NEW x \in Side, NEW y, NEW n \in Nat, NEW q, NEW s, NEW e,
           Reaches(x, y, n, q, s, e), NEW operation \in SettlementOperation,
           NEW amount \in Nat
    PROVE  Reaches(x, Settled(y, operation, amount), n,
                   Append(q, Done(operation, amount)), s, e)
<1> DEFINE m == Len(q)
           open == [operation |-> operation, amount |-> amount, state |-> "Pending"]
           done == Done(operation, amount)
           u == [y EXCEPT !.settlements = Append(q, open)]
           v == [u EXCEPT !.active = m + 1]
           w == [v EXCEPT !.settlements = Append(q, done)]
           z == [w EXCEPT !.active = 0]
<1>1. y \in Side /\ y.settlements = q /\ q \in Seq(SettlementRecord) /\ m \in Nat
  BY SideFields, SMT, SMTT(40) DEF Reaches, Follows
<1>2. open \in SettlementRecord /\ done \in SettlementRecord /\ done.state = "Completed"
  BY DEF SettlementRecord, SettlementState, Done
<1>3. /\ Append(q, open) \in Seq(SettlementRecord)
      /\ Len(Append(q, open)) = m + 1 /\ Append(q, open)[m + 1] = open
      /\ Append(q, done) \in Seq(SettlementRecord)
  BY <1>1, <1>2, SMT, SMTT(40)
<1>4. [Append(q, open) EXCEPT ![m + 1] = done] = Append(q, done)
  <2> DEFINE a == Append(q, open)
             b == Append(q, done)
  <2>1. /\ Len(a) = m + 1 /\ Len(b) = m + 1 /\ b[m + 1] = done
        /\ \A k \in 1 .. m : a[k] = q[k] /\ b[k] = q[k]
    BY <1>1, <1>2, SMT, SMTT(40)
  <2> HIDE DEF a, b, m, open, done
  <2>2. a \in [1 .. m + 1 -> SettlementRecord] /\ b \in [1 .. m + 1 -> SettlementRecord]
    <3>1. a \in Seq(SettlementRecord) /\ b \in Seq(SettlementRecord)
      BY <1>3, Zenon DEF a, b
    <3> QED BY <2>1, <3>1, SMT, SMTT(40)
  <2>3. m + 1 \in 1 .. m + 1 /\ \A k \in 1 .. m + 1 : k # m + 1 => k \in 1 .. m
    BY <1>1, SMT, SMTT(40)
  <2>4. \A k \in 1 .. m + 1 : [a EXCEPT ![m + 1] = done][k] = b[k]
    BY <2>1, <2>2, <2>3, Zenon
  <2>5. [a EXCEPT ![m + 1] = done] \in [1 .. m + 1 -> SettlementRecord]
    BY <1>2, <2>2, Zenon
  <2> QED BY <2>2, <2>4, <2>5, Zenon DEF a, b
<1>5. [open EXCEPT !.state = "Completed"] = done
  BY SMT, SMTT(40) DEF Done
<1> HIDE DEF open, done, m
<1>6. u \in Side /\ v \in Side /\ w \in Side /\ z \in Side
  <2>1. m + 1 \in Nat /\ 0 \in Nat
    BY <1>1, SMT, SMTT(40)
  <2>2. u \in Side
    BY <1>1, <1>3, Zenon DEF Side
  <2>3. v \in Side
    BY <2>1, <2>2, Zenon DEF Side
  <2>4. w \in Side
    BY <1>3, <2>3, Zenon DEF Side
  <2>5. z \in Side
    BY <2>1, <2>4, Zenon DEF Side
  <2> QED BY <2>2, <2>3, <2>4, <2>5
<1>7. create_settlement(y, operation, amount) = v
  <2>0. m + 1 > Len(y.settlements)
    BY <1>1, SMT, SMTT(40) DEF m
  <2>1. set_settlement(y, m + 1, open) = u
    BY <1>1, <2>0, Zenon DEF set_settlement
  <2> QED BY <1>1, <2>1, Zenon DEF create_settlement, increment_settlement_counter,
                            set_active_settlement, open, m
<1>8. v.active = m + 1 /\ v.settlements = Append(q, open)
  BY <1>1, <1>6 DEF Side
<1>9. complete_settlement(v, m + 1) = z
  <2>1. [v.settlements[m + 1] EXCEPT !.state = "Completed"] = done
    BY <1>3, <1>5, <1>8
  <2>2. ~ (m + 1 > Len(v.settlements))
    BY <1>1, <1>3, <1>8, SMT, SMTT(40)
  <2>3. set_settlement(v, m + 1, done) = w
    BY <1>4, <1>8, <2>2, Zenon DEF set_settlement
  <2> QED BY <2>1, <2>3, Zenon DEF complete_settlement, clear_active_settlement
<1>10. Settled(y, operation, amount) = z
  BY <1>7, <1>8, <1>9 DEF Settled
<1>11. /\ z.nonce = y.nonce /\ z.events = y.events /\ z.keys = y.keys
       /\ z.hashes = y.hashes /\ z.confirmed = y.confirmed /\ z.seen = y.seen
       /\ z.settlements = Append(q, done) /\ z.active = 0
       /\ z.notes = y.notes /\ z.noteAt = y.noteAt
       /\ z.evidence = y.evidence /\ z.evidenceAt = y.evidenceAt
  BY <1>1, <1>6, SMT, SMTT(40) DEF Side
<1> HIDE DEF z
<1>12. Indexed(y) => Indexed(z)
  BY <1>11, Zenon DEF Indexed
<1>13. Booked(y) => Booked(z)
  <2>1. \A k \in 1 .. Len(Append(q, done)) :
           \/ k \in 1 .. Len(q) /\ Append(q, done)[k] = q[k]
           \/ Append(q, done)[k] = done
    BY <1>1, <1>2, SMT, SMTT(40)
  <2> QED BY <1>1, <1>2, <1>11, <2>1, SMT, SMTT(40) DEF Booked
<1>14. z.events >= y.events /\ z.nonce = y.nonce + 0
  BY <1>1, <1>11, SideFields, SMT, SMTT(40)
<1>15. Reaches(y, z, 0, z.settlements, z.seen.status, z.seen.escrow)
  <2>1. 0 \in Nat /\ y.hashes \subseteq z.hashes
    BY <1>11
  <2> QED BY <1>1, <1>6, <1>11, <1>12, <1>13, <1>14, <2>1, PlainLink, Zenon
<1>16. Listening(x) => z.seen.status = s /\ z.seen.escrow = e
  BY <1>11, Zenon DEF Reaches
<1>17. Reaches(y, z, 0, Append(q, done), z.seen.status, z.seen.escrow)
  BY <1>11, <1>15
<1>18. Reaches(x, z, n + 0, Append(q, done), s, e)
  BY <1>16, <1>17, Link
<1> QED BY <1>10, <1>18, SMT, SMTT(40) DEF done

\* A note or a piece of evidence goes where the count says.
LEMMA Appended ==
    ASSUME NEW x \in Side, NEW z,
           \/ /\ x.notes < MaxNotes
              /\ z = emit_note_appended(set_note_hash(increment_note_count(x), x.notes))
           \/ /\ x.evidence < MaxEvidence
              /\ z = emit_evidence_added(BumpNonce(
                         set_evidence_hash(increment_evidence_count(x), x.evidence)))
    PROVE  \E n \in Nat : Reaches(x, z, n, x.settlements, x.seen.status, x.seen.escrow)
<1>1. /\ x.notes \in Nat /\ x.evidence \in Nat /\ x.events \in Nat /\ x.nonce \in Nat
      /\ x.notes + 1 \in Nat /\ x.evidence + 1 \in Nat /\ x.events + 1 \in Nat
      /\ x.nonce + 1 \in Nat
      /\ x.noteAt \cup {x.notes} \in SUBSET Nat
      /\ x.evidenceAt \cup {x.evidence} \in SUBSET Nat
      /\ MaxNotes \in Nat /\ MaxEvidence \in Nat
  <2>1. /\ x.notes \in Nat /\ x.evidence \in Nat /\ x.events \in Nat /\ x.nonce \in Nat
        /\ x.noteAt \in SUBSET Nat /\ x.evidenceAt \in SUBSET Nat
    BY SideFields
  <2>2. MaxNotes \in Nat /\ MaxEvidence \in Nat
    BY JournalAssumption
  <2> QED BY <2>1, <2>2, SMT, SMTT(40)
<1>2. CASE /\ x.notes < MaxNotes
           /\ z = emit_note_appended(set_note_hash(increment_note_count(x), x.notes))
  <2>1. z = [x EXCEPT !.notes = x.notes + 1, !.noteAt = x.noteAt \cup {x.notes},
                      !.events = x.events + 1]
    BY <1>2 DEF emit_note_appended, set_note_hash, increment_note_count,
                increment_event_count, Side
  <2>2. z \in Side
    BY <1>1, <2>1, Zenon DEF Side
  <2>3. /\ z.notes = x.notes + 1 /\ z.noteAt = x.noteAt \cup {x.notes}
        /\ z.events = x.events + 1 /\ z.nonce = x.nonce + 0 /\ z.keys = x.keys
        /\ z.seen = x.seen /\ z.settlements = x.settlements /\ z.active = x.active
        /\ z.evidence = x.evidence /\ z.evidenceAt = x.evidenceAt
        /\ z.hashes = x.hashes /\ z.confirmed = x.confirmed
    BY <1>1, <2>1, SMT, SMTT(40) DEF Side
  <2>4. Booked(x) => Booked(z)
    BY <2>3 DEF Booked
  <2>5. Indexed(x) => Indexed(z)
    <3>1. ASSUME x.noteAt = 0 .. x.notes - 1 PROVE z.noteAt = 0 .. z.notes - 1
      BY <1>1, <2>3, <3>1, SMTT(20), SMTT(40)
    <3>2. z.notes <= MaxNotes
      BY <1>1, <1>2, <2>3, SMT, SMTT(40)
    <3> QED BY <2>3, <3>1, <3>2 DEF Indexed
  <2>6. z.events >= x.events
    BY <1>1, <2>3, SMT, SMTT(40)
  <2>7. Reaches(x, z, 0, z.settlements, z.seen.status, z.seen.escrow)
    BY <2>2, <2>3, <2>4, <2>5, <2>6, PlainLink
  <2> QED BY <2>3, <2>7
<1>3. CASE /\ x.evidence < MaxEvidence
           /\ z = emit_evidence_added(BumpNonce(
                      set_evidence_hash(increment_evidence_count(x), x.evidence)))
  <2>1. z = [x EXCEPT !.evidence = x.evidence + 1,
                      !.evidenceAt = x.evidenceAt \cup {x.evidence},
                      !.nonce = x.nonce + 1, !.events = x.events + 1]
    BY <1>3 DEF emit_evidence_added, set_evidence_hash, increment_evidence_count,
                increment_event_count, BumpNonce, Side
  <2>2. z \in Side
    BY <1>1, <2>1, Zenon DEF Side
  <2>3. /\ z.evidence = x.evidence + 1 /\ z.evidenceAt = x.evidenceAt \cup {x.evidence}
        /\ z.events = x.events + 1 /\ z.nonce = x.nonce + 1 /\ z.keys = x.keys
        /\ z.seen = x.seen /\ z.settlements = x.settlements /\ z.active = x.active
        /\ z.notes = x.notes /\ z.noteAt = x.noteAt
        /\ z.hashes = x.hashes /\ z.confirmed = x.confirmed
    BY <1>1, <2>1 DEF Side
  <2>4. Booked(x) => Booked(z)
    BY <2>3 DEF Booked
  <2>5. Indexed(x) => Indexed(z)
    <3>1. ASSUME x.evidenceAt = 0 .. x.evidence - 1 PROVE z.evidenceAt = 0 .. z.evidence - 1
      BY <1>1, <2>3, <3>1, SMTT(20), SMTT(40)
    <3>2. z.evidence <= MaxEvidence
      BY <1>1, <1>3, <2>3, SMT, SMTT(40)
    <3> QED BY <2>3, <3>1, <3>2 DEF Indexed
  <2>6. z.events >= x.events
    BY <1>1, <2>3, SMT, SMTT(40)
  <2>7. Reaches(x, z, 1, z.settlements, z.seen.status, z.seen.escrow)
    BY <2>2, <2>3, <2>4, <2>5, <2>6, PlainLink
  <2> QED BY <2>3, <2>7
<1> QED BY <1>2, <1>3
(***************************************************************************)
(* What the settlements of a shipment add up to.                           *)
(***************************************************************************)

\* What a settlement adds to the escrow, and to the volume; the sums of a list.
WorthOf(r) ==
    IF r.operation = "Deposit"
    THEN r.amount - PlatformFee(r.amount)
    ELSE - r.amount
GrossOf(r) == IF r.operation = "Deposit" THEN r.amount ELSE 0
Explains(q) == SumTo([k \in 1 .. Len(q) |-> WorthOf(q[k])], Len(q))
PaidIn(q) == SumTo([k \in 1 .. Len(q) |-> GrossOf(q[k])], Len(q))

\* What a settlement is worth is a number.
LEMMA WorthType ==
    ASSUME NEW r \in SettlementRecord
    PROVE  WorthOf(r) \in Int /\ GrossOf(r) \in Nat
<1>1. r.amount \in Nat /\ FeeBps \in Nat
  BY FeesAssumption, SMT, SMTT(40) DEF SettlementRecord
<1> DEFINE p == r.amount * FeeBps
<1>2. p \in Nat
  BY <1>1, SMT, SMTT(40)
<1> HIDE DEF p
<1>3. p \div 10000 \in Int
  BY <1>2, SMT, SMTT(40)
<1>4. PlatformFee(r.amount) \in Int
  BY <1>3, SMT, SMTT(40) DEF PlatformFee, checked_mul_div, p
<1> HIDE DEF p
<1> QED BY <1>1, <1>4, SMT, SMTT(40) DEF WorthOf, GrossOf

\* The sums of a list are numbers.
LEMMA ExplainsType ==
    ASSUME NEW q \in Seq(SettlementRecord)
    PROVE  Explains(q) \in Int /\ PaidIn(q) \in Nat
<1> DEFINE n == Len(q)
           f == [k \in 1 .. n |-> WorthOf(q[k])]
           a == [k \in 1 .. n |-> GrossOf(q[k])]
<1>1. n \in Nat /\ \A k \in 1 .. n : q[k] \in SettlementRecord
  BY SMT, SMTT(40)
<1>2. f \in [1 .. n -> Int] /\ a \in [1 .. n -> Nat]
  BY <1>1, WorthType
<1> HIDE DEF f, a
<1>3. SumTo(f, n) \in Int /\ SumTo(a, n) \in Nat
  BY <1>1, <1>2, SumToType, SumNat, Zenon
<1> QED BY <1>3 DEF Explains, PaidIn, f, a

\* They grow by one term with the list.
LEMMA ExplainsAppend ==
    ASSUME NEW q \in Seq(SettlementRecord), NEW r \in SettlementRecord
    PROVE  /\ Explains(Append(q, r)) = Explains(q) + WorthOf(r)
           /\ PaidIn(Append(q, r)) = PaidIn(q) + GrossOf(r)
<1> DEFINE n == Len(q)
           p == Append(q, r)
           f == [k \in 1 .. n |-> WorthOf(q[k])]
           g == [k \in 1 .. n + 1 |-> WorthOf(p[k])]
           a == [k \in 1 .. n |-> GrossOf(q[k])]
           b == [k \in 1 .. n + 1 |-> GrossOf(p[k])]
<1>1. /\ n \in Nat /\ Len(p) = n + 1 /\ p[n + 1] = r
      /\ \A k \in 1 .. n : p[k] = q[k] /\ q[k] \in SettlementRecord
  BY SMT, SMTT(40)
<1> HIDE DEF n, p
<1>2. \A k \in 1 .. n + 1 : p[k] \in SettlementRecord
  BY <1>1, SMT, SMTT(40)
<1>3. /\ f \in [1 .. n -> Int] /\ g \in [1 .. n + 1 -> Int]
      /\ a \in [1 .. n -> Int] /\ b \in [1 .. n + 1 -> Int]
  BY <1>1, <1>2, WorthType, SMT, SMTT(40)
<1>4. \A k \in 1 .. n : g[k] = f[k] /\ b[k] = a[k]
  BY <1>1, SMT, SMTT(40)
<1>5. g[n + 1] = WorthOf(r) /\ b[n + 1] = GrossOf(r)
  BY <1>1, SMT, SMTT(40)
<1>6. /\ Explains(q) = SumTo(f, n) /\ PaidIn(q) = SumTo(a, n)
      /\ Explains(p) = SumTo(g, n + 1) /\ PaidIn(p) = SumTo(b, n + 1)
  BY <1>1 DEF Explains, PaidIn, n
<1> HIDE DEF f, g, a, b
<1>7. SumTo(g, n + 1) = SumTo(f, n) + g[n + 1]
  BY <1>1, <1>3, <1>4, SumOneMore, Zenon
<1>8. SumTo(b, n + 1) = SumTo(a, n) + b[n + 1]
  BY <1>1, <1>3, <1>4, SumOneMore, Zenon
<1> QED BY <1>5, <1>6, <1>7, <1>8 DEF p

\* What one more settlement that went through makes of them.
LEMMA ExplainsDone ==
    ASSUME NEW q \in Seq(SettlementRecord), NEW a \in Nat
    PROVE  /\ \A op \in {"Release", "Refund"} :
                 /\ Append(q, Done(op, a)) \in Seq(SettlementRecord)
                 /\ Explains(Append(q, Done(op, a))) = Explains(q) - a
                 /\ PaidIn(Append(q, Done(op, a))) = PaidIn(q)
           /\ Append(q, Done("Deposit", a)) \in Seq(SettlementRecord)
           /\ Explains(Append(q, Done("Deposit", a))) =
                 Explains(q) + (a - PlatformFee(a))
           /\ PaidIn(Append(q, Done("Deposit", a))) = PaidIn(q) + a
<1>1. \A op \in {"Release", "Refund", "Deposit"} : Done(op, a) \in SettlementRecord
  BY ZenonT(40) DEF Done, SettlementRecord, SettlementState, SettlementOperation
<1>2. /\ \A op \in {"Release", "Refund"} :
            WorthOf(Done(op, a)) = - a /\ GrossOf(Done(op, a)) = 0
      /\ WorthOf(Done("Deposit", a)) = a - PlatformFee(a)
      /\ GrossOf(Done("Deposit", a)) = a
  BY SMT, SMTT(40) DEF Done, WorthOf, GrossOf
<1>3. Explains(q) \in Int /\ PaidIn(q) \in Nat
  BY ExplainsType
<1>4. \A op \in {"Release", "Refund", "Deposit"} :
         /\ Append(q, Done(op, a)) \in Seq(SettlementRecord)
         /\ Explains(Append(q, Done(op, a))) = Explains(q) + WorthOf(Done(op, a))
         /\ PaidIn(Append(q, Done(op, a))) = PaidIn(q) + GrossOf(Done(op, a))
  BY <1>1, ExplainsAppend, SMT, SMTT(40)
<1>5. ASSUME NEW op \in {"Release", "Refund"}
      PROVE  /\ Append(q, Done(op, a)) \in Seq(SettlementRecord)
             /\ Explains(Append(q, Done(op, a))) = Explains(q) - a
             /\ PaidIn(Append(q, Done(op, a))) = PaidIn(q)
  BY <1>2, <1>3, <1>4, SMT, SMTT(40)
<1> QED BY <1>2, <1>4, <1>5, SMT, SMTT(40)

(***************************************************************************)
(* The chains of the handlers.                                             *)
(***************************************************************************)

\* The side record y that a call leaves behind for x answers to what the call
\* did to the shipment: it went from status s0 and escrow e0 to s1 and e1, and
\* v was deposited.
Answers(x, y, v, s0, e0, s1, e1) ==
    /\ Follows(x, y)
    /\ y.nonce >= x.nonce
    /\ s1 # s0 \/ e1 # e0 => y.nonce > x.nonce \/ (s1 = "Delivered" /\ e0 = 0)
    /\ Listening(x) /\ x.seen.status = s0 /\ x.seen.escrow = e0 =>
          y.seen.status = s1 /\ y.seen.escrow = e1
    /\ PaidIn(y.settlements) = PaidIn(x.settlements) + v
    /\ \/ e1 - e0 = Explains(y.settlements) - Explains(x.settlements)
       \/ y.settlements = x.settlements /\ e1 = 0 /\ s1 \in Terminal

\* A chain that pays a out of the escrow, with a settlement record for it.
LEMMA PaidAnswer ==
    ASSUME NEW x \in Side, NEW y, NEW n \in Nat, NEW q \in Seq(SettlementRecord),
           NEW t, NEW a \in Nat, NEW s0, NEW e0 \in Nat, NEW s1,
           Reaches(x, y, n, q, t, x.seen.escrow - a),
           Explains(q) = Explains(x.settlements) - a,
           PaidIn(q) = PaidIn(x.settlements),
           t = s1 \/ (t = x.seen.status /\ s1 = s0),
           n > 0 \/ (a = 0 /\ s1 = s0) \/ (s1 = "Delivered" /\ e0 = 0)
    PROVE  Answers(x, y, 0, s0, e0, s1, e0 - a)
<1>1. /\ x.nonce \in Nat /\ x.seen.escrow \in Int
      /\ x.settlements \in Seq(SettlementRecord)
  BY SideFields
<1>2. Explains(x.settlements) \in Int /\ PaidIn(x.settlements) \in Nat
  BY <1>1, ExplainsType
<1>3. /\ Follows(x, y) /\ y.nonce = x.nonce + n /\ y.settlements = q
      /\ Listening(x) => y.seen.status = t /\ y.seen.escrow = x.seen.escrow - a
  BY Zenon DEF Reaches
<1>4. /\ y.nonce >= x.nonce
      /\ s1 # s0 \/ e0 - a # e0 => y.nonce > x.nonce \/ (s1 = "Delivered" /\ e0 = 0)
  BY <1>1, <1>3, SMT, SMTT(40)
<1>5. /\ PaidIn(y.settlements) = PaidIn(x.settlements) + 0
      /\ (e0 - a) - e0 = Explains(y.settlements) - Explains(x.settlements)
  BY <1>2, <1>3, SMT, SMTT(40)
<1>6. Listening(x) /\ x.seen.status = s0 /\ x.seen.escrow = e0 =>
         y.seen.status = s1 /\ y.seen.escrow = e0 - a
  BY <1>3, Zenon
<1> QED BY <1>3, <1>4, <1>5, <1>6, Zenon DEF Answers

\* A chain that leaves status, escrow and settlements alone.
LEMMA QuietAnswer ==
    ASSUME NEW x \in Side, NEW y, NEW n \in Nat, NEW s0, NEW e0 \in Nat,
           Reaches(x, y, n, x.settlements, x.seen.status, x.seen.escrow)
    PROVE  Answers(x, y, 0, s0, e0, s0, e0)
<1> DEFINE q == x.settlements
<1>1. q \in Seq(SettlementRecord) /\ x.seen.escrow \in Int
  BY SideFields
<1>2. Explains(q) \in Int /\ PaidIn(q) \in Nat
  BY <1>1, ExplainsType
<1>3. Explains(q) = Explains(q) - 0 /\ x.seen.escrow - 0 = x.seen.escrow /\ e0 - 0 = e0
  BY <1>1, <1>2, SMT, SMTT(40)
<1>4. Reaches(x, y, n, q, x.seen.status, x.seen.escrow - 0)
  BY <1>3
<1>5. Answers(x, y, 0, s0, e0, s0, e0 - 0)
  BY <1>1, <1>3, <1>4, PaidAnswer, Zenon
<1> QED BY <1>3, <1>5

\* A chain that changes the status, or closes the shipment and takes what there
\* is without a record.
LEMMA StatusAnswer ==
    ASSUME NEW x \in Side, NEW y, NEW n \in Nat \ {0}, NEW s0, NEW e0 \in Nat,
           NEW s1, NEW a \in Nat, a = 0 \/ (a = e0 /\ s1 \in Terminal),
           Reaches(x, y, n, x.settlements, s1, x.seen.escrow - a)
    PROVE  Answers(x, y, 0, s0, e0, s1, e0 - a)
<1> DEFINE q == x.settlements
<1>1. x.nonce \in Nat /\ x.seen.escrow \in Int /\ q \in Seq(SettlementRecord)
  BY SideFields
<1>2. Explains(q) \in Int /\ PaidIn(q) \in Nat
  BY <1>1, ExplainsType
<1>3. /\ Follows(x, y) /\ y.nonce = x.nonce + n /\ y.settlements = q
      /\ Listening(x) => y.seen.status = s1 /\ y.seen.escrow = x.seen.escrow - a
  BY Zenon DEF Reaches
<1>4. y.nonce >= x.nonce /\ y.nonce > x.nonce /\ PaidIn(q) = PaidIn(q) + 0
  BY <1>1, <1>2, <1>3, SMT, SMTT(40)
<1>5. (e0 - a) - e0 = Explains(q) - Explains(q) \/ (e0 - a = 0 /\ s1 \in Terminal)
  BY <1>2, SMT, SMTT(40)
<1>6. Listening(x) /\ x.seen.status = s0 /\ x.seen.escrow = e0 =>
         y.seen.status = s1 /\ y.seen.escrow = e0 - a
  BY <1>3, Zenon
<1> QED BY <1>3, <1>4, <1>5, <1>6, Zenon DEF Answers

\* The handlers that leave status and escrow alone.
LEMMA QuietChains ==
    ASSUME NEW x \in Side, NEW s0, NEW e0 \in Nat, NEW y,
           \/ y = emit_milestone_recorded(BumpNonce(x))
           \/ y = increment_breach_event_count(x)
           \/ y = emit_milestone_recorded(x)
           \/ y = BumpNonce(x)
           \/ /\ x.notes < MaxNotes
              /\ y = emit_note_appended(set_note_hash(increment_note_count(x), x.notes))
           \/ /\ x.evidence < MaxEvidence
              /\ y = emit_evidence_added(BumpNonce(
                         set_evidence_hash(increment_evidence_count(x), x.evidence)))
           \/ y = emit_geofence_event(x)
           \/ y = emit_eta_updated(x)
    PROVE  Answers(x, y, 0, s0, e0, s0, e0)
<1> DEFINE Quiet(z, n) == Reaches(x, z, n, x.settlements, x.seen.status, x.seen.escrow)
<1>1. Quiet(x, 0)
  BY Here
<1>2. Quiet(BumpNonce(x), 0 + 1)
  BY <1>1, Bumped
<1>3. /\ Quiet(emit_milestone_recorded(x), 0) /\ Quiet(emit_geofence_event(x), 0)
      /\ Quiet(emit_eta_updated(x), 0)
  BY <1>1, SameViewEvents
<1>4. Quiet(emit_milestone_recorded(BumpNonce(x)), 0 + 1)
  BY <1>2, SameViewEvents, SMT, SMTT(40)
<1>5. Quiet(increment_breach_event_count(x), 0)
  BY <1>1, Noted
<1>6. \E n \in Nat : Quiet(y, n)
  BY <1>2, <1>3, <1>4, <1>5, Appended, SMT, SMTT(40)
<1> QED BY <1>6, QuietAnswer

\* Those that change the status and nothing else.
LEMMA StatusChains ==
    ASSUME NEW x \in Side, NEW s0, NEW e0 \in Nat, NEW s1 \in ShipmentStatus, NEW y,
           \/ y = emit_status_updated(
                     set_status_hash(set_last_status_update(BumpNonce(x)), s1), s1)
           \/ /\ s1 = "Disputed"
              /\ y = emit_dispute_raised(BumpNonce(increment_breach_event_count(x)))
           \/ /\ s1 = "Disputed"
              /\ y = emit_dispute_raised(set_escrow_freeze_reason(BumpNonce(x)))
    PROVE  Answers(x, y, 0, s0, e0, s1, e0)
<1> DEFINE Now(z, n, s) == Reaches(x, z, n, x.settlements, s, x.seen.escrow)
           u == set_last_status_update(BumpNonce(x))
           v == set_status_hash(u, s1)
           w == BumpNonce(increment_breach_event_count(x))
           z == set_escrow_freeze_reason(BumpNonce(x))
<1>1. Now(x, 0, x.seen.status)
  BY Here
<1>2. Now(BumpNonce(x), 0 + 1, x.seen.status)
  BY <1>1, Bumped
<1>3. Now(increment_breach_event_count(x), 0, x.seen.status)
  BY <1>1, Noted
<1>4. Now(w, 0 + 1, x.seen.status)
  BY <1>3, Bumped
<1>5. Now(u, 0 + 1, x.seen.status) /\ Now(z, 0 + 1, x.seen.status)
  BY <1>2, Noted, SMT, SMTT(40)
<1>6. Now(v, 0 + 1, x.seen.status)
  BY <1>5, Noted, SMT, SMTT(40)
<1>7. s1 \in v.hashes
  <2>1. u \in Side
    BY <1>5 DEF Reaches, Follows
  <2> HIDE DEF u
  <2> QED BY <2>1 DEF set_status_hash, Side
<1> HIDE DEF u, v, w, z
<1>8. Now(emit_status_updated(v, s1), 0 + 1, s1)
  BY <1>6, <1>7, HashedEvent, SMT, SMTT(40)
<1>9. s1 = "Disputed" => /\ Now(emit_dispute_raised(w), 0 + 1, s1)
                         /\ Now(emit_dispute_raised(z), 0 + 1, s1)
  BY <1>4, <1>5, Hinted, SMT, SMTT(40)
<1>10. Now(y, 0 + 1, s1)
  BY <1>8, <1>9, Zenon DEF u, v, w, z
<1>11. /\ x.seen.escrow - 0 = x.seen.escrow /\ e0 - 0 = e0
       /\ 0 + 1 \in Nat \ {0} /\ 0 \in Nat
  BY SideFields, SMT, SMTT(40)
<1>12. Reaches(x, y, 0 + 1, x.settlements, s1, x.seen.escrow - 0)
  BY <1>10, <1>11
<1>13. Answers(x, y, 0, s0, e0, s1, e0 - 0)
  BY <1>11, <1>12, StatusAnswer, Zenon
<1> QED BY <1>11, <1>13

\* Those that close the shipment without a settlement record.
LEMMA ClosingChains ==
    ASSUME NEW x \in Side, NEW s0, NEW e0 \in Nat, NEW s1 \in Terminal, NEW y,
           \/ /\ s1 = "Cancelled"
              /\ y = emit_shipment_cancelled(
                         IF e0 > 0 THEN emit_escrow_released(BumpNonce(x), e0)
                         ELSE BumpNonce(x))
           \/ /\ s1 = "Cancelled"
              /\ y = emit_force_cancelled(BumpNonce(
                         IF e0 > 0 THEN emit_escrow_refunded(x, e0) ELSE x))
           \/ /\ s1 = "Cancelled"
              /\ y = emit_shipment_expired(
                         IF e0 > 0 THEN emit_escrow_refunded(BumpNonce(x), e0)
                         ELSE BumpNonce(x))
           \/ y = ProposalExecuted(BumpNonce(
                      IF e0 = 0 THEN x
                      ELSE IF s1 = "Delivered" THEN emit_escrow_released(x, e0)
                      ELSE emit_escrow_refunded(x, e0)), s1)
    PROVE  Answers(x, y, 0, s0, e0, s1, 0)
<1> DEFINE q == x.settlements
           e == x.seen.escrow
           b == BumpNonce(x)
           u == IF e0 > 0 THEN emit_escrow_released(b, e0) ELSE b
           v == IF e0 > 0 THEN emit_escrow_refunded(x, e0) ELSE x
           w == IF e0 > 0 THEN emit_escrow_refunded(b, e0) ELSE b
           z == IF e0 = 0 THEN x
                ELSE IF s1 = "Delivered" THEN emit_escrow_released(x, e0)
                ELSE emit_escrow_refunded(x, e0)
<1>1. /\ e \in Int /\ e0 \in Int /\ e - e0 \in Int /\ s1 \in ShipmentStatus
      /\ 0 \in Nat /\ 0 + 1 \in Nat
  BY SideFields, SMT, SMTT(40) DEF Terminal, ShipmentStatus
<1>2. Reaches(x, x, 0, q, x.seen.status, e)
  BY Here
<1>3. Reaches(x, b, 0 + 1, q, x.seen.status, e)
  BY <1>2, Bumped, Zenon
<1> HIDE DEF b
<1>4. ASSUME NEW n \in Nat, NEW c, Reaches(x, c, n, q, x.seen.status, e)
      PROVE  /\ e0 > 0 => /\ Reaches(x, emit_escrow_released(c, e0), n, q,
                                      x.seen.status, e - e0)
                          /\ Reaches(x, emit_escrow_refunded(c, e0), n, q,
                                      "Cancelled", e - e0)
             /\ ~ (e0 > 0) => Reaches(x, c, n, q, x.seen.status, e - e0)
  <2>1. CASE e0 > 0
    BY <1>1, <1>4, <2>1, AmountEvents, Zenon
  <2>2. CASE ~ (e0 > 0)
    <3>1. e - e0 = e
      BY <1>1, <2>2, SMT, SMTT(40)
    <3> QED BY <1>4, <2>2, <3>1
  <2> QED BY <2>1, <2>2, Zenon
<1>5. /\ \E t : Reaches(x, u, 0 + 1, q, t, e - e0)
      /\ \E t : Reaches(x, w, 0 + 1, q, t, e - e0)
  BY <1>1, <1>3, <1>4, Zenon
<1>6. /\ \E t : Reaches(x, v, 0, q, t, e - e0)
      /\ \E t : Reaches(x, z, 0, q, t, e - e0)
  <2>1. e0 = 0 <=> ~ (e0 > 0)
    BY SMT, SMTT(40)
  <2> QED BY <1>2, <1>4, <2>1
<1> HIDE DEF u, v, w, z
<1>7. /\ \E t : Reaches(x, BumpNonce(v), 0 + 1, q, t, e - e0)
      /\ \E t : Reaches(x, BumpNonce(z), 0 + 1, q, t, e - e0)
  BY <1>6, Bumped, Zenon
<1>8. s1 = "Cancelled" =>
         /\ Reaches(x, emit_shipment_cancelled(u), 0 + 1, q, s1, e - e0)
         /\ Reaches(x, emit_shipment_expired(w), 0 + 1, q, s1, e - e0)
         /\ Reaches(x, emit_force_cancelled(BumpNonce(v)), 0 + 1, q, s1, e - e0)
  BY <1>1, <1>5, <1>7, StatusEvents, Hinted, Zenon
<1>9. Reaches(x, ProposalExecuted(BumpNonce(z), s1), 0 + 1, q, s1, e - e0)
  BY <1>1, <1>7, Hinted, Zenon
<1>10. Reaches(x, y, 0 + 1, q, s1, e - e0)
  BY <1>8, <1>9, Zenon DEF b, u, v, w, z
<1>11. 0 + 1 \in Nat \ {0} /\ e0 - e0 = 0
  BY SMT, SMTT(40)
<1>12. Answers(x, y, 0, s0, e0, s1, e0 - e0)
  BY <1>10, <1>11, StatusAnswer, Zenon
<1> QED BY <1>11, <1>12

\* Those that close it with one.
LEMMA SettlingChains ==
    ASSUME NEW x \in Side, NEW s0, NEW e0 \in Nat, NEW s1 \in ShipmentStatus, NEW y,
           \/ /\ s1 = "Cancelled"
              /\ y = emit_escrow_refunded(BumpNonce(Settled(x, "Refund", e0)), e0)
           \/ y = emit_dispute_resolved(
                      emit_escrow_released(BumpNonce(Settled(x, "Release", e0)), e0), s1)
           \/ y = emit_dispute_resolved(
                      emit_escrow_refunded(BumpNonce(Settled(x, "Refund", e0)), e0), s1)
    PROVE  Answers(x, y, 0, s0, e0, s1, 0)
<1> DEFINE q == x.settlements
           e == x.seen.escrow
           out(op) == Append(q, Done(op, e0))
           b(op) == BumpNonce(Settled(x, op, e0))
<1>1. /\ e \in Int /\ e - e0 \in Int /\ q \in Seq(SettlementRecord)
      /\ Reaches(x, x, 0, q, x.seen.status, e)
  BY SideFields, Here, SMT, SMTT(40)
<1>2. ASSUME NEW op \in {"Release", "Refund"}
      PROVE  /\ Reaches(x, b(op), 0 + 1, out(op), x.seen.status, e)
             /\ out(op) \in Seq(SettlementRecord)
             /\ Explains(out(op)) = Explains(q) - e0
             /\ PaidIn(out(op)) = PaidIn(q)
  <2>1. Reaches(x, Settled(x, op, e0), 0, out(op), x.seen.status, e)
    BY <1>1, SettledLink, Zenon DEF SettlementOperation
  <2> HIDE DEF out
  <2>2. Reaches(x, b(op), 0 + 1, out(op), x.seen.status, e)
    BY <2>1, Bumped, ZenonT(40)
  <2>3. /\ out(op) \in Seq(SettlementRecord)
        /\ Explains(out(op)) = Explains(q) - e0
        /\ PaidIn(out(op)) = PaidIn(q)
    BY <1>1, ExplainsDone, SMT, SMTT(40) DEF out
  <2> QED BY <2>2, <2>3
<1> DEFINE u == emit_escrow_released(b("Release"), e0)
           v == emit_escrow_refunded(b("Refund"), e0)
<1> HIDE DEF out, b
<1>3. /\ Reaches(x, u, 0 + 1, out("Release"), x.seen.status, e - e0)
      /\ Reaches(x, v, 0 + 1, out("Refund"), "Cancelled", e - e0)
  <2>1. 0 + 1 \in Nat /\ e0 \in Int
    BY SMT, SMTT(40)
  <2>2. /\ Reaches(x, b("Release"), 0 + 1, out("Release"), x.seen.status, e)
        /\ Reaches(x, b("Refund"), 0 + 1, out("Refund"), x.seen.status, e)
    BY <1>2, Zenon
  <2>3. Reaches(x, u, 0 + 1, out("Release"), x.seen.status, e - e0)
    BY <1>1, <2>1, <2>2, AmountEvents
  <2>4. Reaches(x, v, 0 + 1, out("Refund"), "Cancelled", e - e0)
    BY <1>1, <2>1, <2>2, AmountEvents, Zenon
  <2> QED BY <2>3, <2>4
<1> HIDE DEF u, v
<1>4. /\ Reaches(x, emit_dispute_resolved(u, s1), 0 + 1, out("Release"), s1, e - e0)
      /\ Reaches(x, emit_dispute_resolved(v, s1), 0 + 1, out("Refund"), s1, e - e0)
  BY <1>3, StatusEvents, SMT, SMTT(40)
<1>5. \E op \in {"Release", "Refund"} : Reaches(x, y, 0 + 1, out(op), s1, e - e0)
  BY <1>3, <1>4, Zenon DEF u, v, b
<1>6. PICK op \in {"Release", "Refund"} : Reaches(x, y, 0 + 1, out(op), s1, e - e0)
  BY <1>5
<1>7. 0 + 1 \in Nat /\ 0 + 1 > 0 /\ e0 - e0 = 0
  BY SMT, SMTT(40)
<1>8. Answers(x, y, 0, s0, e0, s1, e0 - e0)
  BY <1>2, <1>6, <1>7, PaidAnswer, Zenon
<1> QED BY <1>7, <1>8, Zenon

\* A chain that adds a to an escrow of 0, out of a deposit of v.
LEMMA DepositAnswer ==
    ASSUME NEW x \in Side, NEW y, NEW n \in Nat \ {0}, NEW q, NEW a \in Int,
           NEW v, NEW s0,
           Reaches(x, y, n, q, x.seen.status, x.seen.escrow + a),
           Explains(q) = Explains(x.settlements) + a,
           PaidIn(q) = PaidIn(x.settlements) + v
    PROVE  Answers(x, y, v, s0, 0, s0, a)
<1>1. /\ x.nonce \in Nat /\ x.seen.escrow \in Int
      /\ x.settlements \in Seq(SettlementRecord)
  BY SideFields
<1>2. Explains(x.settlements) \in Int
  BY <1>1, ExplainsType
<1>3. /\ Follows(x, y) /\ y.nonce = x.nonce + n /\ y.settlements = q
      /\ Listening(x) => y.seen.status = x.seen.status /\ y.seen.escrow = x.seen.escrow + a
  BY Zenon DEF Reaches
<1>4. /\ y.nonce >= x.nonce /\ y.nonce > x.nonce
      /\ a - 0 = Explains(q) - Explains(x.settlements)
      /\ x.seen.escrow = 0 => x.seen.escrow + a = a
  BY <1>1, <1>2, <1>3, SMT, SMTT(40)
<1>5. Listening(x) /\ x.seen.status = s0 /\ x.seen.escrow = 0 =>
         y.seen.status = s0 /\ y.seen.escrow = a
  BY <1>3, <1>4, Zenon
<1> QED BY <1>3, <1>4, <1>5, Zenon DEF Answers

\* A deposit is recorded with its gross amount, and what is left of it after
\* the fee is announced.
LEMMA DepositChain ==
    ASSUME NEW x \in Side, NEW s0, NEW amount \in Nat, NEW fee, NEW y,
           fee = PlatformFee(amount), fee \in Nat,
           y = emit_escrow_deposited(
                   BumpNonce(
                       IF fee > 0
                       THEN emit_platform_fee_collected(Settled(x, "Deposit", amount))
                       ELSE Settled(x, "Deposit", amount)), amount - fee)
    PROVE  Answers(x, y, amount, s0, 0, s0, amount - fee)
<1> DEFINE q == x.settlements
           e == x.seen.escrow
           s == x.seen.status
           p == Append(q, Done("Deposit", amount))
           u == Settled(x, "Deposit", amount)
           v == IF fee > 0 THEN emit_platform_fee_collected(u) ELSE u
           a == amount - fee
<1>0. 0 \in Nat /\ 0 + 1 \in Nat /\ "Deposit" \in SettlementOperation
  BY SMT, SMTT(40) DEF SettlementOperation
<1>1. /\ x.nonce \in Nat /\ e \in Int /\ q \in Seq(SettlementRecord)
      /\ Reaches(x, x, 0, q, s, e)
  BY SideFields, Here, SMT, SMTT(40)
<1>2. a \in Int /\ Explains(q) \in Int /\ PaidIn(q) \in Nat
  BY <1>1, ExplainsType, SMT, SMTT(40)
<1>3. Reaches(x, u, 0, p, s, e)
  BY <1>0, <1>1, SettledLink, Zenon
<1>4. Explains(p) = Explains(q) + a /\ PaidIn(p) = PaidIn(q) + amount
  BY <1>1, ExplainsDone, SMT, SMTT(40)
<1> HIDE DEF p, u, a
<1>5. Reaches(x, v, 0, p, s, e)
  BY <1>0, <1>3, SameViewEvents, Zenon
<1> HIDE DEF v
<1>6. Reaches(x, BumpNonce(v), 0 + 1, p, s, e)
  BY <1>0, <1>5, Bumped, Zenon
<1>7. Reaches(x, emit_escrow_deposited(BumpNonce(v), a), 0 + 1, p, s, e + a)
  BY <1>0, <1>1, <1>2, <1>6, AmountEvents, Zenon
<1>8. Reaches(x, y, 0 + 1, p, s, e + a)
  BY <1>7, Zenon DEF a, v, u
<1>9. 0 + 1 \in Nat \ {0}
  BY SMT, SMTT(40)
<1>10. Answers(x, y, amount, s0, 0, s0, a)
  BY <1>1, <1>2, <1>4, <1>8, <1>9, DepositAnswer, Zenon
<1> QED BY <1>10, SMT, SMTT(40) DEF a

\* The chain goes on from settlements q and escrow e to z, which has paid a.
PaidDown(x, z, n, q, s, e, a) ==
    \E m \in Nat, p \in Seq(SettlementRecord) :
        /\ Reaches(x, z, m, p, s, e - a)
        /\ Explains(p) = Explains(q) - a
        /\ PaidIn(p) = PaidIn(q)
        /\ n > 0 \/ a > 0 => m > 0

\* internal_release_escrow: what it pays is recorded, announced and numbered.
LEMMA ReleaseLink ==
    ASSUME NEW x \in Side, NEW y, NEW n \in Nat, NEW q \in Seq(SettlementRecord),
           NEW s, NEW e \in Int, Reaches(x, y, n, q, s, e), NEW a \in Nat
    PROVE  PaidDown(x, ReleaseTo(y, a), n, q, s, e, a)
<1>1. Explains(q) \in Int
  BY ExplainsType
<1>2. CASE a > 0
  <2> DEFINE p == Append(q, Done("Release", a))
             z == BumpNonce(Settled(y, "Release", a))
  <2>1. Reaches(x, Settled(y, "Release", a), n, p, s, e)
    BY SettledLink, ZenonT(40) DEF SettlementOperation
  <2>2. p \in Seq(SettlementRecord) /\ Explains(p) = Explains(q) - a /\ PaidIn(p) = PaidIn(q)
    BY ExplainsDone, SMT, SMTT(40)
  <2> HIDE DEF p
  <2>3. Reaches(x, z, n + 1, p, s, e)
    BY <2>1, Bumped
  <2>4. n + 1 \in Nat /\ n + 1 > 0 /\ a \in Int
    BY SMT, SMTT(40)
  <2>5. ReleaseTo(y, a) = emit_escrow_released(z, a)
    BY <1>2 DEF ReleaseTo
  <2> HIDE DEF z
  <2>6. Reaches(x, ReleaseTo(y, a), n + 1, p, s, e - a)
    BY <2>3, <2>4, <2>5, AmountEvents
  <2> QED BY <2>2, <2>4, <2>6, Zenon DEF PaidDown
<1>3. CASE a = 0
  <2>1. ReleaseTo(y, a) = y /\ e - a = e /\ Explains(q) = Explains(q) - a
    BY <1>1, <1>3, SMT, SMTT(40) DEF ReleaseTo
  <2>2. Reaches(x, ReleaseTo(y, a), n, q, s, e - a)
    BY <2>1
  <2>3. n > 0 \/ a > 0 => n > 0
    BY <1>3, SMT, SMTT(40)
  <2> QED BY <2>1, <2>2, <2>3 DEF PaidDown
<1> QED BY <1>2, <1>3, SMT, SMTT(40)

\* Those that pay the carrier a out of the escrow.
LEMMA PayingChains ==
    ASSUME NEW x \in Side, NEW s0, NEW e0 \in Nat, NEW s1 \in ShipmentStatus,
           NEW a \in Nat, NEW y,
           \/ /\ s1 = "Delivered" /\ a = e0
              /\ y = emit_delivery_success(
                         emit_delivery_confirmed(ReleaseTo(set_confirmation_hash(x), a)))
           \/ /\ s1 \in Unstored /\ a > 0
              /\ y = emit_status_updated(ReleaseTo(set_confirmation_hash(x), a), s1)
           \/ /\ s1 = s0
              /\ y = ReleaseTo(
                         emit_milestone_payment_released(emit_milestone_recorded(x)), a)
           \/ s1 = s0 /\ y = ReleaseTo(emit_milestone_payment_released(x), a)
           \/ s1 = s0 /\ y = ReleaseTo(x, a)
    PROVE  Answers(x, y, 0, s0, e0, s1, e0 - a)
<1> DEFINE q == x.settlements
           s == x.seen.status
           e == x.seen.escrow
           c == set_confirmation_hash(x)
           d == ReleaseTo(c, a)
           Paid(z, n, p, t) ==
               /\ Reaches(x, z, n, p, t, e - a)
               /\ Explains(p) = Explains(q) - a /\ PaidIn(p) = PaidIn(q)
<1>1. /\ e \in Int /\ e - a \in Int /\ q \in Seq(SettlementRecord)
      /\ Reaches(x, x, 0, q, s, e)
  BY SideFields, Here, SMT, SMTT(40)
<1>2. ASSUME NEW z, Reaches(x, z, 0, q, s, e)
      PROVE  \E m \in Nat, p \in Seq(SettlementRecord) :
                 Paid(ReleaseTo(z, a), m, p, s) /\ (a > 0 => m > 0)
  <2>1. PaidDown(x, ReleaseTo(z, a), 0, q, s, e, a)
    BY <1>1, <1>2, ReleaseLink, Zenon
  <2> QED BY <2>1, Zenon DEF PaidDown
<1>3. Reaches(x, c, 0, q, s, e)
  BY <1>1, Noted, Zenon
<1>4. c \in Side /\ c.confirmed
  <2>1. c.confirmed = TRUE
    BY DEF set_confirmation_hash, Side
  <2> QED BY <1>3, <2>1, Zenon DEF Reaches, Follows
<1>5. d.confirmed
  <2>1. /\ Reaches(c, c, 0, c.settlements, c.seen.status, c.seen.escrow)
        /\ c.settlements \in Seq(SettlementRecord) /\ c.seen.escrow \in Int
    BY <1>4, Here, SideFields, Zenon
  <2>2. PaidDown(c, d, 0, c.settlements, c.seen.status, c.seen.escrow, a)
    BY <1>4, <2>1, ReleaseLink
  <2> QED BY <1>4, <2>2, Zenon DEF PaidDown, Reaches, Follows
<1> HIDE DEF c
<1>6. CASE s1 = s0 /\ \E z : Reaches(x, z, 0, q, s, e) /\ y = ReleaseTo(z, a)
  <2>1. PICK m \in Nat, p \in Seq(SettlementRecord) :
           Paid(y, m, p, s) /\ (a > 0 => m > 0)
    BY <1>2, <1>6, Zenon
  <2>2. m > 0 \/ a = 0
    BY <2>1, SMT, SMTT(40)
  <2> QED BY <1>1, <1>6, <2>1, <2>2, PaidAnswer, Zenon
<1>7. /\ Reaches(x, emit_milestone_payment_released(emit_milestone_recorded(x)), 0, q, s, e)
      /\ Reaches(x, emit_milestone_payment_released(x), 0, q, s, e)
  BY <1>1, SameViewEvents, Zenon
<1>8. PICK m \in Nat, p \in Seq(SettlementRecord) :
         Paid(d, m, p, s) /\ (a > 0 => m > 0)
  BY <1>2, <1>3
<1> HIDE DEF d
<1>9. CASE /\ s1 = "Delivered" /\ a = e0
           /\ y = emit_delivery_success(emit_delivery_confirmed(d))
  <2>1. Reaches(x, emit_delivery_confirmed(d), m, p, "Delivered", e - a)
    BY <1>1, <1>5, <1>8, ProofEvent
  <2>2. Reaches(x, y, m, p, s1, e - a)
    BY <1>1, <1>9, <2>1, SameViewEvents, Zenon
  <2>3. m > 0 \/ e0 = 0
    BY <1>8, <1>9, SMT, SMTT(40)
  <2> QED BY <1>1, <1>8, <1>9, <2>2, <2>3, PaidAnswer, ZenonT(40)
<1>10. CASE s1 \in Unstored /\ a > 0 /\ y = emit_status_updated(d, s1)
  <2>1. Reaches(x, y, m, p, s1, e - a)
    BY <1>8, <1>10, HashedEvent
  <2> QED BY <1>1, <1>8, <1>10, <2>1, PaidAnswer, Zenon
<1> QED BY <1>1, <1>6, <1>7, <1>9, <1>10, ZenonT(40) DEF c, d

(***************************************************************************)
(* The loop of record_milestones_batch.                                    *)
(***************************************************************************)

\* What an escrow pays of an amount.
AtMost(escrow, amount) == IF amount > escrow THEN escrow ELSE amount

\* The shares of the milestones that were reached.
Reached(share, reached) ==
    [k \in 1 .. Len(share) |-> IF k \in reached THEN share[k] ELSE 0]

\* One round of the loop, milestone k, and f the run of n rounds.
Round(share, reached, k, last) ==
    LET actual == IF share[k] > last.left THEN last.left ELSE share[k] IN
    IF k \notin reached THEN last
    ELSE [x |-> ReleaseTo(emit_milestone_payment_released(
                              emit_milestone_recorded(last.x)), actual),
          left |-> last.left - actual]

IsRun(f, start, share, reached, n) ==
    f = [k \in 0 .. n |-> IF k = 0 THEN start
                          ELSE Round(share, reached, k, f[k - 1])]

\* After rounds worth "sum" together: g.left is the escrow with all of it paid
\* that there was, and g.x was reached from x by as much.
Paying(x, escrow, g, sum) ==
    /\ sum \in Nat
    /\ g.left = escrow - AtMost(escrow, sum)
    /\ \E m \in Nat, p \in Seq(SettlementRecord) :
          /\ Reaches(x, g.x, m, p, x.seen.status, x.seen.escrow - AtMost(escrow, sum))
          /\ Explains(p) = Explains(x.settlements) - AtMost(escrow, sum)
          /\ PaidIn(p) = PaidIn(x.settlements)
          /\ AtMost(escrow, sum) > 0 => m > 0

\* There is a run of every length.
LEMMA RunExists ==
    ASSUME NEW n \in Nat, NEW start, NEW share, NEW reached
    PROVE  \E f : IsRun(f, start, share, reached, n)
<1> DEFINE Go(k, last) == Round(share, reached, k, last)
           Run(f, m) == IsRun(f, start, share, reached, m)
           T == {m \in Nat : m <= n /\ ~ \E f : Run(f, m)}
<1>1. SUFFICES ASSUME n \in T PROVE FALSE
  BY SMT, SMTT(40)
<1>2. PICK m \in T : \A i \in T : m <= i
  BY <1>1, LeastElement, Zenon
<1>3. CASE m = 0
  <2> DEFINE z == [k \in 0 .. 0 |-> start]
  <2>1. Run(z, 0)
    BY SMT, SMTT(40) DEF IsRun
  <2> QED BY <1>2, <1>3, <2>1
<1>4. CASE m # 0
  <2>1. m - 1 \in Nat /\ m - 1 \notin T /\ m \in 1 .. n
    BY <1>2, <1>4, SMT, SMTT(40)
  <2>2. PICK f : Run(f, m - 1)
    BY <1>2, <2>1, SMT, SMTT(40)
  <2> DEFINE g == [k \in 0 .. m |-> IF k = m THEN Go(m, f[m - 1]) ELSE f[k]]
  <2>3. f = [k \in 0 .. m - 1 |-> IF k = 0 THEN start ELSE Go(k, f[k - 1])]
    BY <2>2, Zenon DEF IsRun
  <2> HIDE DEF Go
  <2>4. ASSUME NEW k \in 0 .. m
        PROVE  g[k] = IF k = 0 THEN start ELSE Go(k, g[k - 1])
    <3>1. CASE k = m
      BY <1>4, <2>1, <3>1, SMT, SMTT(40)
    <3>2. CASE k # m /\ k # 0
      <4>1. k \in 0 .. m - 1 /\ k - 1 \in 0 .. m /\ k - 1 # m
        BY <2>1, <3>2, SMT, SMTT(40)
      <4>2. g[k] = f[k] /\ g[k - 1] = f[k - 1]
        BY <3>2, <4>1
      <4> QED BY <2>3, <3>2, <4>1, <4>2
    <3>3. CASE k # m /\ k = 0
      <4>1. 0 \in 0 .. m - 1
        BY <2>1, SMT, SMTT(40)
      <4> QED BY <2>3, <3>3, <4>1
    <3> QED BY <3>1, <3>2, <3>3, Zenon
  <2>5. g = [k \in 0 .. m |-> IF k = 0 THEN start ELSE Go(k, g[k - 1])]
    BY <2>4
  <2> HIDE DEF g
  <2>6. Run(g, m)
    BY <2>5 DEF IsRun, Go
  <2> QED BY <1>2, <2>6
<1> QED BY <1>3, <1>4

\* One more round.
LEMMA RoundPays ==
    ASSUME NEW x \in Side, NEW escrow \in Nat, NEW share \in Seq(Nat), NEW reached,
           NEW g, NEW sum, Paying(x, escrow, g, sum), NEW k \in 1 .. Len(share)
    PROVE  Paying(x, escrow, Round(share, reached, k, g), sum + Reached(share, reached)[k])
<1> DEFINE a == AtMost(escrow, sum)
           b == IF share[k] > g.left THEN g.left ELSE share[k]
           e == x.seen.escrow
           q == x.settlements
           u == emit_milestone_payment_released(emit_milestone_recorded(g.x))
           h == Round(share, reached, k, g)
<1>1. share[k] \in Nat
  BY SMT, SMTT(40)
<1>2. sum \in Nat /\ g.left = escrow - a
  BY DEF Paying
<1>3. a \in Nat /\ a <= escrow
  BY <1>2, SMT, SMTT(40) DEF AtMost
<1>4. e \in Int /\ q \in Seq(SettlementRecord) /\ Explains(q) \in Int
  BY SideFields, ExplainsType
<1>5. CASE k \notin reached
  <2>1. h = g /\ Reached(share, reached)[k] = 0
    BY <1>5 DEF Round, Reached
  <2>2. sum + 0 = sum
    BY <1>2, SMT, SMTT(40)
  <2> QED BY <2>1, <2>2
<1>6. CASE k \in reached
  <2>1. h.x = ReleaseTo(u, b) /\ h.left = g.left - b /\ Reached(share, reached)[k] = share[k]
    BY <1>6, Zenon DEF Round, Reached
  <2>2. PICK m \in Nat, p \in Seq(SettlementRecord) :
          /\ Reaches(x, g.x, m, p, x.seen.status, e - a)
          /\ Explains(p) = Explains(q) - a
          /\ PaidIn(p) = PaidIn(q)
          /\ a > 0 => m > 0
    BY DEF Paying
  <2> HIDE DEF h
  <2>3. b \in Nat /\ AtMost(escrow, sum + share[k]) = a + b
    BY <1>1, <1>2, SMT, SMTT(40) DEF AtMost
  <2> HIDE DEF a, b
  <2> DEFINE w == e - a
  <2>4. w \in Int
    BY <1>3, <1>4, SMTT(20), SMTT(40)
  <2>5. Reaches(x, u, m, p, x.seen.status, w)
    BY <2>2, <2>4, SameViewEvents, Zenon
  <2> HIDE DEF u, w
  <2>6. PICK n \in Nat, o \in Seq(SettlementRecord) :
          /\ Reaches(x, ReleaseTo(u, b), n, o, x.seen.status, w - b)
          /\ Explains(o) = Explains(p) - b
          /\ PaidIn(o) = PaidIn(p)
          /\ m > 0 \/ b > 0 => n > 0
    <3>1. PaidDown(x, ReleaseTo(u, b), m, p, x.seen.status, w, b)
      BY <2>3, <2>4, <2>5, ReleaseLink, Zenon
    <3> QED BY <3>1 DEF PaidDown
  <2>7. /\ w - b = e - (a + b)
        /\ Explains(o) = Explains(q) - (a + b) /\ PaidIn(o) = PaidIn(q)
        /\ a + b > 0 => n > 0
        /\ h.left = escrow - (a + b) /\ sum + share[k] \in Nat
    <3>1. w - b = e - (a + b)
      BY <1>3, <1>4, <2>3, SMTT(20), SMTT(40) DEF w
    <3>2. h.left = escrow - (a + b)
      BY <1>2, <1>3, <2>1, <2>3, SMT, SMTT(40)
    <3>3. Explains(o) = Explains(q) - (a + b) /\ PaidIn(o) = PaidIn(q)
      BY <1>3, <1>4, <2>2, <2>3, <2>6, SMTT(20), SMTT(40)
    <3>4. a + b > 0 => n > 0
      BY <1>3, <2>2, <2>3, <2>6, SMTT(20), SMTT(40)
    <3> QED BY <1>1, <1>2, <3>1, <3>2, <3>3, <3>4, SMT, SMTT(40)
  <2>8. Reaches(x, h.x, n, o, x.seen.status, e - (a + b))
    BY <2>1, <2>6, <2>7, Zenon
  <2>9. Paying(x, escrow, h, sum + share[k])
    BY <2>3, <2>7, <2>8, Zenon DEF Paying
  <2> QED BY <2>1, <2>9, Zenon DEF h
<1> QED BY <1>5, <1>6

\* Together the rounds pay the shares that were reached, as far as the escrow
\* goes.
LEMMA LoopChain ==
    ASSUME NEW x \in Side, NEW s0, NEW e0 \in Nat, NEW share \in Seq(Nat), NEW reached
    PROVE  LET sum == SumTo(Reached(share, reached), Len(share)) IN
           /\ sum \in Nat
           /\ Answers(x, ReleaseEach(x, e0, share, reached), 0, s0, e0, s0,
                      e0 - AtMost(e0, sum))
<1> DEFINE n == Len(share)
           start == [x |-> x, left |-> e0]
           f == CHOOSE g : IsRun(g, start, share, reached, n)
           sh == Reached(share, reached)
           p == PartialSums(sh, n)
           T == {m \in Nat : m <= n /\ ~ Paying(x, e0, f[m], p[m])}
           q == x.settlements
           e == x.seen.escrow
<1>1. ReleaseEach(x, e0, share, reached) = f[n].x
  BY DEF ReleaseEach, IsRun, Round
<1>2. n \in Nat /\ sh \in [1 .. n -> Int]
  BY SMT, SMTT(40) DEF Reached
<1>3. IsRun(f, start, share, reached, n)
  BY <1>2, RunExists
<1>4. IsPartialSums(p, sh, n) /\ SumTo(sh, n) = p[n]
  BY <1>2, PartialSumsSolve, Zenon DEF SumTo
<1> HIDE DEF f, n, sh, p
<1>5. f[0] = start /\ \A k \in 1 .. n : f[k] = Round(share, reached, k, f[k - 1])
  BY <1>2, <1>3, SMT, SMTT(40) DEF IsRun
<1>6. e \in Int /\ q \in Seq(SettlementRecord) /\ Explains(q) \in Int
  BY SideFields, ExplainsType
<1>7. T = {}
  <2> SUFFICES ASSUME T # {} PROVE FALSE
    OBVIOUS
  <2>1. PICK m \in T : \A i \in T : m <= i
    BY LeastElement, Zenon
  <2>2. CASE m = 0
    <3>1. p[0] = 0 /\ AtMost(e0, 0) = 0
      BY <1>2, <1>4, SMT, SMTT(40) DEF IsPartialSums, AtMost
    <3>2. Reaches(x, x, 0, q, x.seen.status, e)
      BY Here, Zenon
    <3>3. /\ e - 0 = e /\ e0 = e0 - 0 /\ ~ (0 > 0)
          /\ Explains(q) = Explains(q) - 0
      BY <1>6, SMTT(20), SMTT(40)
    <3>4. f[0].x = x /\ f[0].left = e0
      BY <1>5, SMTT(20), SMTT(40)
    <3>5. Paying(x, e0, f[0], 0)
      BY <1>6, <3>1, <3>2, <3>3, <3>4, Zenon DEF Paying
    <3> QED BY <2>1, <2>2, <3>1, <3>5, Zenon
  <2>3. CASE m # 0
    <3>1. m \in 1 .. n /\ m - 1 \in Nat /\ m - 1 \notin T /\ m - 1 <= n
      BY <1>2, <2>1, <2>3, SMT, SMTT(40)
    <3>2. Paying(x, e0, f[m - 1], p[m - 1])
      BY <3>1
    <3>3. p[m] = p[m - 1] + sh[m]
      BY <1>4, <3>1, Zenon DEF IsPartialSums
    <3>4. f[m] = Round(share, reached, m, f[m - 1])
      BY <1>5, <3>1, Zenon
    <3>5. Paying(x, e0, f[m], p[m - 1] + sh[m])
      BY <3>1, <3>2, <3>4, RoundPays, Zenon DEF sh, n
    <3> QED BY <2>1, <3>3, <3>5, Zenon
  <2> QED BY <2>2, <2>3
<1> DEFINE sum == SumTo(sh, n)
           a == AtMost(e0, sum)
<1>8. Paying(x, e0, f[n], sum)
  BY <1>2, <1>4, <1>7, SMTT(20), SMTT(40)
<1>9. sum \in Nat
  BY <1>8, Zenon DEF Paying
<1>10. PICK m \in Nat, o \in Seq(SettlementRecord) :
          /\ Reaches(x, f[n].x, m, o, x.seen.status, e - a)
          /\ Explains(o) = Explains(q) - a
          /\ PaidIn(o) = PaidIn(q)
          /\ a > 0 => m > 0
  BY <1>8 DEF Paying
<1> HIDE DEF sum
<1>11. a \in Nat
  BY <1>9, Zenon DEF AtMost
<1> HIDE DEF a
<1>12. m > 0 \/ a = 0
  BY <1>10, <1>11, SMT, SMTT(40)
<1>13. Answers(x, f[n].x, 0, s0, e0, s0, e0 - a)
  BY <1>10, <1>11, <1>12, PaidAnswer, Zenon
<1> QED BY <1>1, <1>9, <1>13, Zenon DEF sum, a, sh, n

(***************************************************************************)
(* The first entry and the last.                                           *)
(***************************************************************************)

\* Nothing is stored for x beside the nonce, the settlements and what an
\* archived shipment may keep.
Bare(x) ==
    /\ x.events = 0 /\ x.milestones = 0 /\ x.breaches = 0 /\ x.active = 0
    /\ x.notes = 0 /\ x.evidence = 0
    /\ ~ x.confirmed /\ ~ x.updated /\ ~ x.frozen
    /\ x.hashes \subseteq {"PartiallyRefunded"}

\* The record of a shipment that does not exist, and the one that its creation
\* leaves behind.
LEMMA Opening ==
    LET y == emit_shipment_created(NoRecord) IN
    /\ NoRecord \in Side /\ Indexed(NoRecord) /\ Booked(NoRecord)
    /\ y \in Side /\ Indexed(y) /\ Booked(y) /\ Listening(y)
    /\ y.seen.status = "Created" /\ y.seen.escrow = 0
    /\ NoRecord.settlements = << >> /\ y.settlements = << >> /\ PaidIn(<< >>) = 0
<1> DEFINE x == NoRecord
           view == [status |-> "Created", escrow |-> 0, hashed |-> {}, proof |-> FALSE]
           y == emit_shipment_created(x)
<1>1. view \in View
  BY SMT, SMTT(40) DEF View, ShipmentStatus
<1>2. << >> \in Seq(SettlementRecord) /\ Len(<< >>) = 0
  BY SMT, SMTT(40)
<1>3. x \in Side
  BY <1>1, <1>2, ZenonT(40) DEF NoRecord, Side
<1>4. /\ x.events = 0 /\ x.settlements = << >> /\ x.active = 0 /\ x.keys = {}
      /\ x.notes = 0 /\ x.noteAt = {} /\ x.evidence = 0 /\ x.evidenceAt = {}
      /\ x.hashes = {} /\ x.seen.status = "Created" /\ x.seen.escrow = 0
      /\ x.seen.hashed = {} /\ x.seen.proof = FALSE
  BY DEF NoRecord
<1> HIDE DEF x
<1>5. Indexed(x)
  BY <1>4, JournalAssumption, SMT, SMTT(40) DEF Indexed
<1>6. Booked(x)
  BY <1>2, <1>4, SMT, SMTT(40) DEF Booked
<1>7. Listening(x)
  BY <1>4, Zenon DEF Listening, Named
<1>8. Reaches(x, y, 0, x.settlements, x.seen.status, x.seen.escrow)
  BY <1>3, Here, SameViewEvents, Zenon
<1>9. PaidIn(<< >>) = 0
  <2> DEFINE f == [k \in 1 .. 0 |-> GrossOf(<< >>[k])]
             z == [k \in 1 .. 0 |-> 0]
  <2>1. f = z
    BY SMT, SMTT(40)
  <2>2. SumTo(z, 0) = 0
    BY SumOfZeros, Zenon
  <2> HIDE DEF f, z
  <2>3. PaidIn(<< >>) = SumTo(f, 0)
    BY <1>2, Zenon DEF PaidIn, f
  <2> QED BY <2>1, <2>2, <2>3, Zenon
<1> QED BY <1>3, <1>4, <1>5, <1>6, <1>7, <1>8, <1>9, Zenon DEF Reaches, Follows, x

\* What archive_shipment leaves behind.
LEMMA Purged ==
    ASSUME NEW x \in Side, NEW y, Indexed(x), Booked(x),
           y = purge_status_hashes(purge_dispute_evidence(
                   purge_shipment_notes(purge_counters(x))))
    PROVE  /\ y \in Side /\ Indexed(y) /\ Booked(y) /\ Bare(y)
           /\ y.keys = x.keys /\ y.seen = x.seen /\ y.nonce = x.nonce
           /\ y.settlements = x.settlements
<1> DEFINE u == purge_counters(x)
           v == [u EXCEPT !.noteAt = u.noteAt \ 0 .. u.notes - 1, !.notes = 0]
           w == [v EXCEPT !.evidenceAt = v.evidenceAt \ 0 .. v.evidence - 1, !.evidence = 0]
<1>1. 0 \in Nat /\ FALSE \in BOOLEAN
  OBVIOUS
<1>2. u \in Side
  BY <1>1, Zenon DEF purge_counters, Side
<1>3. /\ u.events = 0 /\ u.milestones = 0 /\ u.breaches = 0 /\ u.active = 0
      /\ u.confirmed = FALSE /\ u.updated = FALSE /\ u.frozen = FALSE
      /\ u.notes = x.notes /\ u.noteAt = x.noteAt /\ u.evidence = x.evidence
      /\ u.evidenceAt = x.evidenceAt /\ u.hashes = x.hashes
      /\ u.keys = x.keys /\ u.seen = x.seen /\ u.nonce = x.nonce
      /\ u.settlements = x.settlements
  BY Zenon DEF purge_counters, Side
<1>4. v = purge_shipment_notes(u)
  BY Zenon DEF purge_shipment_notes
<1> HIDE DEF u
<1>5. u.noteAt \ 0 .. u.notes - 1 = {}
  BY <1>3 DEF Indexed
<1>6. v \in Side
  BY <1>1, <1>2, <1>5, Zenon DEF Side
<1>7. /\ v.events = 0 /\ v.milestones = 0 /\ v.breaches = 0 /\ v.active = 0
      /\ v.confirmed = FALSE /\ v.updated = FALSE /\ v.frozen = FALSE
      /\ v.notes = 0 /\ v.noteAt = {} /\ v.evidence = x.evidence
      /\ v.evidenceAt = x.evidenceAt /\ v.hashes = x.hashes
      /\ v.keys = x.keys /\ v.seen = x.seen /\ v.nonce = x.nonce
      /\ v.settlements = x.settlements
  BY <1>2, <1>3, <1>5, Zenon DEF Side
<1>8. w = purge_dispute_evidence(v)
  BY Zenon DEF purge_dispute_evidence
<1> HIDE DEF v
<1>9. v.evidenceAt \ 0 .. v.evidence - 1 = {}
  BY <1>7 DEF Indexed
<1>10. w \in Side
  BY <1>1, <1>6, <1>9, Zenon DEF Side
<1>11. /\ w.events = 0 /\ w.milestones = 0 /\ w.breaches = 0 /\ w.active = 0
       /\ w.confirmed = FALSE /\ w.updated = FALSE /\ w.frozen = FALSE
       /\ w.notes = 0 /\ w.noteAt = {} /\ w.evidence = 0
       /\ w.evidenceAt = {} /\ w.hashes = x.hashes
       /\ w.keys = x.keys /\ w.seen = x.seen /\ w.nonce = x.nonce
       /\ w.settlements = x.settlements
  BY <1>6, <1>7, <1>9, Zenon DEF Side
<1>12. y = [w EXCEPT !.hashes = w.hashes \cap {"PartiallyRefunded"}]
  BY <1>4, <1>8, Zenon DEF purge_status_hashes, u
<1> HIDE DEF w
<1>13. w.hashes \cap {"PartiallyRefunded"} \in SUBSET ShipmentStatus
  BY <1>10, SideFields
<1>14. y \in Side
  BY <1>10, <1>12, <1>13, Zenon DEF Side
<1>15. /\ y.events = 0 /\ y.milestones = 0 /\ y.breaches = 0 /\ y.active = 0
       /\ y.confirmed = FALSE /\ y.updated = FALSE /\ y.frozen = FALSE
       /\ y.notes = 0 /\ y.noteAt = {} /\ y.evidence = 0
       /\ y.evidenceAt = {} /\ y.hashes = w.hashes \cap {"PartiallyRefunded"}
       /\ y.keys = x.keys /\ y.seen = x.seen /\ y.nonce = x.nonce
       /\ y.settlements = x.settlements
  BY <1>10, <1>11, <1>12, ZenonT(40) DEF Side
<1>16. Indexed(y)
  BY <1>15, JournalAssumption, SMT, SMTT(40) DEF Indexed
<1>17. Booked(y)
  BY <1>15, Zenon DEF Booked
<1>18. Bare(y)
  <2>1. y.hashes \subseteq {"PartiallyRefunded"}
    BY <1>15
  <2> QED BY <1>15, <2>1, Zenon DEF Bare
<1> QED BY <1>14, <1>15, <1>16, <1>17, <1>18, Zenon

\* How many shipments a call can make Disputed: none or one.
LEMMA OneOrNone ==
    ASSUME NEW k
    PROVE  Cardinality({}) = 0 /\ Cardinality({k}) = 1
<1> DEFINE Count(S, f) ==
               f = [T \in SUBSET S |-> IF T = {} THEN 0
                                      ELSE 1 + f[T \ {CHOOSE x : x \in T}]]
<1>1. Cardinality({}) = (CHOOSE f : Count({}, f))[{}]
  BY DEF Cardinality
<1>2. Cardinality({k}) = (CHOOSE f : Count({k}, f))[{k}]
  BY DEF Cardinality
<1>3. Count({}, [T \in SUBSET {} |-> 0])
  OBVIOUS
<1>4. Count({k}, [T \in SUBSET {k} |-> IF T = {} THEN 0 ELSE 1])
  <2> DEFINE g == [T \in SUBSET {k} |-> IF T = {} THEN 0 ELSE 1]
  <2>1. ASSUME NEW T \in SUBSET {k}, T # {}
        PROVE  T \ {CHOOSE x : x \in T} = {}
    BY <2>1
  <2>2. g[{}] = 0
    OBVIOUS
  <2>3. ASSUME NEW T \in SUBSET {k}
        PROVE  g[T] = IF T = {} THEN 0 ELSE 1 + g[T \ {CHOOSE x : x \in T}]
    BY <2>1, <2>2, SMT, SMTT(40)
  <2> QED BY <2>3
<1>5. Count({}, CHOOSE f : Count({}, f))
  <2> HIDE DEF Count
  <2> QED BY <1>3
<1>6. Count({k}, CHOOSE f : Count({k}, f))
  <2> HIDE DEF Count
  <2> QED BY <1>4, Zenon
<1> DEFINE e == CHOOSE f : Count({}, f)
           o == CHOOSE f : Count({k}, f)
<1> HIDE DEF e, o
<1>7. e[{}] = 0
  BY <1>5, Zenon DEF e
<1>8. o[{}] = 0
  BY <1>6, Zenon DEF o
<1>9. {k} \ {CHOOSE x : x \in {k}} = {}
  OBVIOUS
<1>10. o[{k}] = 1 + o[{}]
  BY <1>6, <1>9, Zenon DEF o
<1> QED BY <1>1, <1>2, <1>7, <1>8, <1>10, SMT, SMTT(40) DEF e, o

(***************************************************************************)
(* A side record beside its shipment, which has status s and escrow e, is  *)
(* final or not, is kept in one of the three places, was written to after  *)
(* its archival or not (dirty), has the Escrow entry key and the archived  *)
(* copy kept.                                                              *)
(***************************************************************************)

Tidy(x, s, e, final, place, dirty, key, kept) ==
    /\ Indexed(x) /\ Booked(x)
    /\ place = "archived" => s \in Terminal
    /\ kept = "final" => place = "archived" /\ final
    /\ ~ dirty /\ place # "absent" =>
          /\ x.seen.status = s /\ x.seen.escrow = e /\ Named(x)
          /\ place = "persistent" => Listening(x) /\ key = e
          /\ place = "archived" => Bare(x) /\ key = 0

\* A shipment that does not exist, and one that was just created.
LEMMA TidyOpening ==
    ASSUME NEW s, NEW e, NEW final, NEW dirty, NEW key
    PROVE  /\ Tidy(NoRecord, s, e, final, "absent", dirty, key, "none")
           /\ Tidy(emit_shipment_created(NoRecord), "Created", 0, final,
                   "persistent", dirty, 0, "none")
<1> DEFINE y == emit_shipment_created(NoRecord)
<1>1. /\ Indexed(NoRecord) /\ Booked(NoRecord)
      /\ Indexed(y) /\ Booked(y) /\ Listening(y) /\ Named(y)
      /\ y.seen.status = "Created" /\ y.seen.escrow = 0
  BY Opening, Zenon DEF Listening
<1> HIDE DEF y
<1> QED BY <1>1, Zenon DEF Tidy, y

\* A call that answers to what it does to the shipment.  It leaves the shipment
\* in persistent storage or touches nothing but the side record.
Carried(x, y, v, s0, e0, f0, p0, d0, k0, s1, e1, f1, p1, d1, k1) ==
    /\ Answers(x, y, v, s0, e0, s1, e1)
    /\ p0 \in {"persistent", "archived"}
    /\ \/ p1 = "persistent" /\ ~ f0
       \/ p1 = p0 /\ s1 = s0 /\ e1 = e0 /\ f1 = f0
    /\ d0 \/ p0 = "archived" => d1
    /\ k0 = e0 => k1 = e1

LEMMA TidyAnswer ==
    ASSUME NEW x, NEW y, NEW v, NEW s0, NEW e0, NEW f0, NEW p0, NEW d0, NEW k0,
           NEW s1, NEW e1, NEW f1, NEW p1, NEW d1, NEW k1, NEW kept,
           Tidy(x, s0, e0, f0, p0, d0, k0, kept),
           Carried(x, y, v, s0, e0, f0, p0, d0, k0, s1, e1, f1, p1, d1, k1)
    PROVE  Tidy(y, s1, e1, f1, p1, d1, k1, kept)
<1>1. /\ Indexed(y) /\ Booked(y)
      /\ Listening(x) => Listening(y)
      /\ Listening(x) /\ x.seen.status = s0 /\ x.seen.escrow = e0 =>
            y.seen.status = s1 /\ y.seen.escrow = e1
  BY Zenon DEF Tidy, Carried, Answers, Follows
<1>2. p1 = "archived" => s1 \in Terminal
  <2>1. "persistent" # "archived"
    BY Zenon
  <2> QED BY <2>1, Zenon DEF Tidy, Carried
<1>3. kept = "final" => p1 = "archived" /\ f1
  <2>1. kept = "final" => p0 = "archived" /\ f0
    BY Zenon DEF Tidy
  <2> QED BY <2>1, SMT, SMTT(40) DEF Carried
<1>4. ASSUME ~ d1
      PROVE  /\ y.seen.status = s1 /\ y.seen.escrow = e1 /\ Listening(y) /\ Named(y)
             /\ k1 = e1 /\ p1 = "persistent"
  <2>1. ~ d0 /\ p0 = "persistent" /\ p0 # "absent" /\ p1 = "persistent"
    <3>1. ~ d0 /\ p0 # "archived"
      BY <1>4, Zenon DEF Carried
    <3>2. p0 = "persistent"
      BY <3>1, Zenon DEF Carried
    <3> QED BY <3>1, <3>2, Zenon DEF Carried
  <2>2. Listening(x) /\ x.seen.status = s0 /\ x.seen.escrow = e0 /\ k0 = e0
    BY <2>1, Zenon DEF Tidy
  <2>3. Listening(y) /\ Named(y)
    BY <1>1, <2>2, Zenon DEF Listening
  <2>4. k1 = e1
    BY <2>2, Zenon DEF Carried
  <2> QED BY <1>1, <2>1, <2>2, <2>3, <2>4, Zenon
<1>5. "persistent" # "archived"
  OBVIOUS
<1> QED BY <1>1, <1>2, <1>3, <1>4, <1>5, Zenon DEF Tidy

\* Archival: the record is purged and the copy written.
LEMMA TidyArchive ==
    ASSUME NEW x \in Side, NEW y, NEW s \in Terminal, NEW e, NEW final \in BOOLEAN,
           NEW dirty, NEW key, NEW kept,
           Tidy(x, s, e, final, "persistent", dirty, key, kept),
           y = purge_status_hashes(purge_dispute_evidence(
                   purge_shipment_notes(purge_counters(x))))
    PROVE  Tidy(y, s, e, final, "archived", dirty, 0,
                IF final THEN "final" ELSE "open")
<1>1. Indexed(x) /\ Booked(x)
  BY Zenon DEF Tidy
<1>2. /\ Indexed(y) /\ Booked(y) /\ Bare(y)
      /\ y.keys = x.keys /\ y.seen = x.seen
  BY <1>1, Purged, Zenon
<1>3. ~ dirty => x.seen.status = s /\ x.seen.escrow = e /\ Named(x)
  BY DEF Tidy
<1>4. ~ dirty => y.seen.status = s /\ y.seen.escrow = e /\ Named(y)
  BY <1>2, <1>3, Zenon DEF Named
<1>5. (IF final THEN "final" ELSE "open") = "final" => final
  OBVIOUS
<1>6. "archived" # "persistent"
  OBVIOUS
<1> QED BY <1>2, <1>4, <1>5, <1>6, Zenon DEF Tidy

\* The archived copy expires, or the one behind a record that was written back.
LEMMA TidyExpire ==
    ASSUME NEW x, NEW s, NEW e, NEW f, NEW place, NEW dirty, NEW key, NEW kept,
           Tidy(x, s, e, f, place, dirty, key, kept),
           NEW s1, NEW e1, NEW f1
    PROVE  /\ Tidy(x, s1, e1, f1, "absent", dirty, key, "none")
           /\ Tidy(x, s, e, f, place, dirty, key, "none")
<1>1. "none" # "final" /\ "absent" # "archived"
  OBVIOUS
<1> QED BY <1>1, Zenon DEF Tidy

\* compute_idempotency_key gives back the keys that were well named.
LEMMA NamedKeys ==
    ASSUME NEW x \in Side, Named(x), NEW k \in x.keys,
           k[2] \notin {"geofence_event", "milestone_payment_released"}
    PROVE  compute_idempotency_key(k[2], k[3]) = k
<1>1. k \in Domains \X Topics \X Nat
  BY SideFields, Zenon
<1>2. k = <<k[1], k[2], k[3]>>
  BY <1>1, SMT, SMTT(40)
<1>3. hash_domain_for_symbol(k[2]) = k[1] /\ k[2] # "milestone_payment_released"
  BY Zenon DEF Named, Misnamed
<1> QED BY <1>2, <1>3, Zenon DEF compute_idempotency_key, generate_idempotency_key

=============================================================================
