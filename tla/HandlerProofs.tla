--------------------------- MODULE HandlerProofs ----------------------------
(***************************************************************************)
(* The handlers of Records.  JournalProofs says what the chain of each     *)
(* handler makes of a side record, ShipmentProofs what the handler does to *)
(* the shipment.  Here every handler is shown to pair the two: the chain   *)
(* answers to the change of the shipment.                                  *)
(***************************************************************************)
EXTENDS Records, ShipmentProofs, JournalProofs

(***************************************************************************)
(* What a handler leaves behind.                                           *)
(***************************************************************************)

Totals == [volume : Nat, disputes : Nat]

\* What a handler may rely on.
Ready == Sound /\ side \in [Ids -> Side] /\ totals \in Totals

\* One more dispute, if the shipment became Disputed.
Escalates(k) ==
    IF ship[k].status # "Disputed" /\ ship'[k].status = "Disputed" THEN 1 ELSE 0

\* A side record for shipment k that answers to what the call did to the
\* shipment itself, and the totals with it.
Enters(k) ==
    \E y : \E v \in Nat :
        /\ side' = [side EXCEPT ![k] = y]
        /\ touched' = [touched EXCEPT ![k] = @ \/ loc[k] = "archived"]
        /\ copy' = copy
        /\ totals' \in Totals
        /\ totals'.volume = totals.volume + v
        /\ totals'.disputes = totals.disputes + Escalates(k)
        /\ Answers(side[k], y, v, ship[k].status, ship[k].escrow,
                   ship'[k].status, ship'[k].escrow)

\* What every handler starts from.
LEMMA SideStart ==
    ASSUME Ready, NEW k \in Ids
    PROVE  /\ side[k] \in Side /\ ship[k] \in Record
           /\ ship[k].escrow \in Nat /\ ship[k].total \in Nat
           /\ ship[k].status \in ShipmentStatus
           /\ totals.volume \in Nat /\ totals.disputes \in Nat
<1>1. side[k] \in Side
  BY DEF Ready
<1>2. totals.volume \in Nat /\ totals.disputes \in Nat
  BY ZenonT(40) DEF Ready, Totals
<1>3. /\ ship[k] \in Record /\ ship[k].escrow \in Nat /\ ship[k].total \in Nat
      /\ ship[k].status \in ShipmentStatus
  BY Start, ZenonT(40) DEF Ready
<1> QED BY <1>1, <1>2, <1>3, ZenonT(40)

\* The record that a handler writes is the one in the next state.
LEMMA ShipAfter ==
    ASSUME Ready, NEW k \in Ids, NEW new, set_shipment(k, new) \/ persist_shipment(k, new)
    PROVE  ship'[k] = new
<1>1. ship \in [Ids -> Record]
  BY ZenonT(40) DEF Ready, Sound, TypeOK
<1> QED BY <1>1, ZenonT(40) DEF set_shipment, persist_shipment

\* A handler that leaves the totals alone raises no dispute.
LEMMA Kept ==
    ASSUME Ready, NEW k \in Ids, NEW y, Keep(k, y),
           Answers(side[k], y, 0, ship[k].status, ship[k].escrow,
                   ship'[k].status, ship'[k].escrow),
           ship'[k].status # "Disputed" \/ ship'[k].status = ship[k].status
    PROVE  Enters(k)
<1>1. Escalates(k) = 0
  BY Zenon DEF Escalates
<1>2. totals' = totals /\ totals \in Totals /\ 0 \in Nat
  BY DEF Keep, Ready
<1>3. totals.volume = totals.volume + 0 /\ totals.disputes = totals.disputes + 0
  BY SideStart, SMT, SMTT(40)
<1>4. /\ side' = [side EXCEPT ![k] = y]
      /\ touched' = [touched EXCEPT ![k] = @ \/ loc[k] = "archived"]
      /\ copy' = copy
  BY Zenon DEF Keep, Write
<1> QED BY <1>1, <1>2, <1>3, <1>4, ZenonT(40) DEF Enters

\* One that raises a dispute counts it.
LEMMA Raised ==
    ASSUME Ready, NEW k \in Ids, NEW y, Write(k, y), increment_total_disputes,
           Answers(side[k], y, 0, ship[k].status, ship[k].escrow,
                   "Disputed", ship[k].escrow),
           ship[k].status # "Disputed",
           ship'[k].status = "Disputed", ship'[k].escrow = ship[k].escrow
    PROVE  Enters(k)
<1>1. Escalates(k) = 1
  BY Zenon DEF Escalates
<1>2. /\ totals.volume \in Nat /\ totals.disputes \in Nat /\ totals \in Totals
      /\ totals' = [totals EXCEPT !.disputes = @ + 1]
  BY SideStart, ZenonT(40) DEF Ready, increment_total_disputes
<1>3. /\ totals' \in Totals /\ totals'.volume = totals.volume + 0
      /\ totals'.disputes = totals.disputes + 1 /\ 0 \in Nat
  BY <1>2, SMT, SMTT(40) DEF Totals
<1>4. /\ side' = [side EXCEPT ![k] = y]
      /\ touched' = [touched EXCEPT ![k] = @ \/ loc[k] = "archived"]
      /\ copy' = copy
  BY DEF Write
<1> QED BY <1>1, <1>3, <1>4, ZenonT(40) DEF Enters

(***************************************************************************)
(* The handlers, one by one.                                               *)
(***************************************************************************)

\* Those that leave status and escrow alone.
LEMMA QuietHandlers ==
    ASSUME Ready, NEW k \in Ids,
           \/ \E c \in Carriers : Handoff(k, c)
           \/ ReportBreach(k) \/ RecordCheckpoint(k) \/ SetMetadata(k)
           \/ append_note_hash(k) \/ add_dispute_evidence_hash(k)
           \/ report_geofence_event(k) \/ update_eta(k)
    PROVE  Enters(k)
<1> DEFINE x == side[k]
           r == ship[k]
           Quiet(y) == Answers(x, y, 0, r.status, r.escrow, r.status, r.escrow)
<1>1. x \in Side /\ r \in Record /\ r.escrow \in Nat
  BY SideStart, Zenon
<1>2. ASSUME NEW y, Keep(k, y), Quiet(y),
             ship'[k].status = r.status, ship'[k].escrow = r.escrow
      PROVE  Enters(k)
  BY <1>2, Kept, ZenonT(40)
<1> HIDE DEF Quiet
<1>3. CASE \E c \in Carriers : Handoff(k, c)
  <2> DEFINE y == emit_milestone_recorded(BumpNonce(x))
  <2>1. PICK c \in Carriers : Handoff(k, c)
    BY <1>3, ZenonT(40)
  <2>2. ship'[k] = [r EXCEPT !.carrier = c] /\ Keep(k, y)
    BY <2>1, ShipAfter, ZenonT(40) DEF Handoff, handoff_shipment
  <2>3. Quiet(y)
    BY <1>1, QuietChains, ZenonT(40) DEF Quiet
  <2> HIDE DEF y
  <2>4. ship'[k].status = r.status /\ ship'[k].escrow = r.escrow
    BY <1>1, <2>2, ZenonT(40) DEF Record
  <2> QED BY <1>2, <2>2, <2>3, <2>4, ZenonT(40)
<1>4. CASE ReportBreach(k)
  <2>1. Quiet(increment_breach_event_count(x))
    BY <1>1, QuietChains, ZenonT(40) DEF Quiet
  <2> QED BY <1>2, <1>4, <2>1, ZenonT(40) DEF ReportBreach, vars
<1>5. CASE RecordCheckpoint(k)
  <2>1. Quiet(emit_milestone_recorded(x))
    BY <1>1, QuietChains, ZenonT(40) DEF Quiet
  <2>2. ship'[k] = r /\ Keep(k, emit_milestone_recorded(x))
    BY <1>5, ShipAfter, ZenonT(40) DEF RecordCheckpoint
  <2> QED BY <1>2, <2>1, <2>2, ZenonT(40)
<1>6. CASE SetMetadata(k)
  <2>1. Quiet(BumpNonce(x))
    BY <1>1, QuietChains, ZenonT(40) DEF Quiet
  <2>2. ship'[k] = r /\ Keep(k, BumpNonce(x))
    BY <1>6, ShipAfter, ZenonT(40) DEF SetMetadata, set_shipment_metadata
  <2> QED BY <1>2, <2>1, <2>2
<1>7. CASE append_note_hash(k)
  <2> DEFINE y == emit_note_appended(set_note_hash(increment_note_count(x), x.notes))
  <2>1. ship' = ship /\ x.notes < MaxNotes /\ Keep(k, y)
    BY <1>7, ZenonT(40) DEF append_note_hash, vars
  <2>2. Quiet(y)
    BY <1>1, <2>1, QuietChains, ZenonT(40) DEF Quiet
  <2> HIDE DEF y
  <2> QED BY <1>2, <2>1, <2>2, ZenonT(40)
<1>8. CASE add_dispute_evidence_hash(k)
  <2> DEFINE y == emit_evidence_added(BumpNonce(
                      set_evidence_hash(increment_evidence_count(x), x.evidence)))
  <2>1. ship'[k] = r /\ x.evidence < MaxEvidence /\ Keep(k, y)
    BY <1>8, ShipAfter, ZenonT(40) DEF add_dispute_evidence_hash
  <2>2. Quiet(y)
    BY <1>1, <2>1, QuietChains, ZenonT(40) DEF Quiet
  <2> HIDE DEF y
  <2> QED BY <1>2, <2>1, <2>2, ZenonT(40)
<1>9. CASE report_geofence_event(k)
  <2>1. Quiet(emit_geofence_event(x))
    BY <1>1, QuietChains, ZenonT(40) DEF Quiet
  <2> QED BY <1>2, <1>9, <2>1, ZenonT(40) DEF report_geofence_event, vars
<1>10. CASE update_eta(k)
  <2>1. Quiet(emit_eta_updated(x))
    BY <1>1, QuietChains, ZenonT(40) DEF Quiet
  <2> QED BY <1>2, <1>10, <2>1, ZenonT(40) DEF update_eta, vars
<1> QED BY <1>3, <1>4, <1>5, <1>6, <1>7, <1>8, <1>9, <1>10, ZenonT(40)

\* Those that change the status and nothing else.
LEMMA StatusHandlers ==
    ASSUME Ready, NEW k \in Ids,
           \/ \E new \in ShipmentStatus : UpdateStatus(k, new)
           \/ CriticalBreach(k) \/ RaiseDispute(k)
    PROVE  Enters(k)
<1> DEFINE x == side[k]
           r == ship[k]
<1>1. x \in Side /\ r \in Record /\ r.escrow \in Nat /\ "Disputed" \in ShipmentStatus
  BY SideStart, Zenon DEF ShipmentStatus
<1>2. CASE \E new \in ShipmentStatus : UpdateStatus(k, new)
  <2>1. PICK new \in ShipmentStatus : UpdateStatus(k, new)
    BY <1>2, Zenon
  <2> DEFINE y == emit_status_updated(
                      set_status_hash(set_last_status_update(BumpNonce(x)), new), new)
  <2>2. /\ is_valid_transition(r.status, new)
        /\ ship'[k] = finalize_if_settled([r EXCEPT !.status = new])
        /\ IF new = "Disputed" THEN increment_total_disputes ELSE UNCHANGED totals
        /\ Write(k, y)
    BY <2>1, ShipAfter, ZenonT(40) DEF UpdateStatus, update_status
  <2>3. Answers(x, y, 0, r.status, r.escrow, new, r.escrow)
    BY <1>1, StatusChains, ZenonT(40)
  <2> HIDE DEF y
  <2>4. ship'[k].status = new /\ ship'[k].escrow = r.escrow
    BY <1>1, <2>2, StatusRecord, FinalizeRecord, SMTT(20), SMTT(40)
  <2>5. new = "Disputed" => r.status # "Disputed"
    BY <2>2, Zenon DEF is_valid_transition
  <2>6. CASE new = "Disputed"
    BY <2>2, <2>3, <2>4, <2>5, <2>6, Raised, ZenonT(40)
  <2>7. CASE new # "Disputed"
    <3>1. Keep(k, y)
      BY <2>2, <2>7, ZenonT(40) DEF Keep
    <3> QED BY <2>3, <2>4, <2>7, <3>1, Kept, ZenonT(40)
  <2> QED BY <2>6, <2>7, Zenon
<1>3. ASSUME ship'[k] = [r EXCEPT !.status = "Disputed"]
      PROVE  ship'[k].status = "Disputed" /\ ship'[k].escrow = r.escrow
  BY <1>1, <1>3, StatusRecord, SMTT(20), SMTT(40)
<1>4. CASE CriticalBreach(k)
  <2> DEFINE y == emit_dispute_raised(BumpNonce(increment_breach_event_count(x)))
  <2>1. /\ ship'[k] = [r EXCEPT !.status = "Disputed"]
        /\ r.status # "Disputed" /\ increment_total_disputes /\ Write(k, y)
    BY <1>4, ShipAfter, ZenonT(40) DEF CriticalBreach, report_condition_breach
  <2>2. Answers(x, y, 0, r.status, r.escrow, "Disputed", r.escrow)
    BY <1>1, StatusChains, ZenonT(40)
  <2> HIDE DEF y
  <2> QED BY <1>3, <2>1, <2>2, Raised, ZenonT(40)
<1>5. CASE RaiseDispute(k)
  <2> DEFINE y == emit_dispute_raised(set_escrow_freeze_reason(BumpNonce(x)))
  <2>1. /\ ship'[k] = [r EXCEPT !.status = "Disputed"]
        /\ r.status # "Disputed" /\ increment_total_disputes /\ Write(k, y)
    BY <1>5, ShipAfter, ZenonT(40) DEF RaiseDispute, raise_dispute
  <2>2. Answers(x, y, 0, r.status, r.escrow, "Disputed", r.escrow)
    BY <1>1, StatusChains, ZenonT(40)
  <2> HIDE DEF y
  <2> QED BY <1>3, <2>1, <2>2, Raised, Zenon
<1> QED BY <1>2, <1>4, <1>5, ZenonT(40)

\* Those that close the shipment, with a settlement record or without.
LEMMA ClosingHandlers ==
    ASSUME Ready, NEW k \in Ids,
           \/ CancelShipment(k) \/ ForceCancel(k) \/ CheckDeadline(k)
           \/ \E s \in Terminal : ExecuteForce(k, s)
           \/ Refund(k)
           \/ \E res \in DisputeResolution : ResolveDispute(k, res)
    PROVE  Enters(k)
<1> DEFINE x == side[k]
           r == ship[k]
           owed == r.escrow
           b == BumpNonce(x)
           Closes(y, s) == Answers(x, y, 0, r.status, owed, s, 0)
<1>1. x \in Side /\ r \in Record /\ owed \in Nat
  BY SideStart, Zenon
<1>2. /\ "Cancelled" \in Terminal /\ "Delivered" \in Terminal
      /\ \A s \in Terminal : s \in ShipmentStatus /\ s # "Disputed"
  BY Zenon DEF Terminal, ShipmentStatus
<1>3. ASSUME NEW s \in Terminal, NEW y, Keep(k, y), Closes(y, s),
             ship'[k] \in {Closed(r, s), finalize_if_settled(Closed(r, s))}
      PROVE  Enters(k)
  <2>1. ship'[k].status = s /\ ship'[k].escrow = 0
    BY <1>1, <1>3, ClosedRecord, SMTT(20), SMTT(40)
  <2> QED BY <1>2, <1>3, <2>1, Kept, ZenonT(40)
<1> HIDE DEF Closes
<1>4. CASE CancelShipment(k)
  <2> DEFINE y == emit_shipment_cancelled(
                      IF owed > 0 THEN emit_escrow_released(b, owed) ELSE b)
  <2>1. ship'[k] = finalize_if_settled(Closed(r, "Cancelled")) /\ Keep(k, y)
    BY <1>4, ShipAfter, ZenonT(40) DEF CancelShipment, cancel_shipment, Cancelled, Closed
  <2>2. Closes(y, "Cancelled")
    BY <1>1, <1>2, ClosingChains, ZenonT(40) DEF Closes
  <2> HIDE DEF y
  <2> QED BY <1>2, <1>3, <2>1, <2>2, ZenonT(40)
<1>5. CASE ForceCancel(k)
  <2> DEFINE y == emit_force_cancelled(BumpNonce(
                      IF owed > 0 THEN emit_escrow_refunded(x, owed) ELSE x))
  <2>1. ship'[k] = finalize_if_settled(Closed(r, "Cancelled")) /\ Keep(k, y)
    BY <1>5, ShipAfter, ZenonT(40) DEF ForceCancel, force_cancel_shipment, Cancelled, Closed
  <2>2. Closes(y, "Cancelled")
    BY <1>1, <1>2, ClosingChains, ZenonT(40) DEF Closes
  <2> HIDE DEF y
  <2> QED BY <1>2, <1>3, <2>1, <2>2
<1>6. CASE CheckDeadline(k)
  <2> DEFINE y == emit_shipment_expired(
                      IF owed > 0 THEN emit_escrow_refunded(b, owed) ELSE b)
  <2>1. ship'[k] = Closed(r, "Cancelled") /\ Keep(k, y)
    BY <1>6, ShipAfter, Zenon DEF CheckDeadline, check_deadline, Cancelled, Closed
  <2>2. Closes(y, "Cancelled")
    BY <1>1, <1>2, ClosingChains, ZenonT(40) DEF Closes
  <2> HIDE DEF y
  <2> QED BY <1>2, <1>3, <2>1, <2>2, ZenonT(40)
<1>7. CASE \E s \in Terminal : ExecuteForce(k, s)
  <2>1. PICK new \in Terminal : ExecuteForce(k, new)
    BY <1>7, Zenon
  <2> DEFINE y == ProposalExecuted(BumpNonce(
                      IF owed = 0 THEN x
                      ELSE IF new = "Delivered" THEN emit_escrow_released(x, owed)
                      ELSE emit_escrow_refunded(x, owed)), new)
  <2>2. ship'[k] = finalize_if_settled(Closed(r, new)) /\ Keep(k, y)
    BY <2>1, ShipAfter, ZenonT(40) DEF ExecuteForce, execute_force, Closed
  <2>3. Closes(y, new)
    BY <1>1, ClosingChains, ZenonT(40) DEF Closes
  <2> HIDE DEF y
  <2> QED BY <1>3, <2>2, <2>3, ZenonT(40)
<1>8. CASE Refund(k)
  <2> DEFINE y == emit_escrow_refunded(BumpNonce(Settled(x, "Refund", owed)), owed)
  <2>1. ship'[k] = finalize_if_settled(Closed(r, "Cancelled")) /\ Keep(k, y)
    BY <1>8, ShipAfter, Zenon DEF Refund, refund_escrow, Cancelled, Closed
  <2>2. Closes(y, "Cancelled")
    BY <1>1, <1>2, SettlingChains, ZenonT(40) DEF Closes
  <2> HIDE DEF y
  <2> QED BY <1>2, <1>3, <2>1, <2>2
<1>9. CASE \E res \in DisputeResolution : ResolveDispute(k, res)
  <2>1. PICK res \in DisputeResolution : ResolveDispute(k, res)
    BY <1>9, Zenon
  <2> DEFINE s == IF res = "ReleaseToCarrier" THEN "Delivered" ELSE "Cancelled"
             u == emit_escrow_released(BumpNonce(Settled(x, "Release", owed)), owed)
             v == emit_escrow_refunded(BumpNonce(Settled(x, "Refund", owed)), owed)
             y == IF res = "ReleaseToCarrier" THEN u ELSE v
  <2>2. s \in Terminal /\ s \in ShipmentStatus
    BY <1>2, Zenon
  <2>3. /\ ship'[k] = finalize_if_settled(Closed(r, s))
        /\ Keep(k, emit_dispute_resolved(y, ship'[k].status))
    BY <2>1, ShipAfter, ZenonT(40) DEF ResolveDispute, resolve_dispute, Closed
  <2> HIDE DEF s
  <2>4. ship'[k].status = s
    BY <1>1, <2>2, <2>3, ClosedRecord, SMTT(20), SMTT(40)
  <2>5. /\ Closes(emit_dispute_resolved(u, s), s)
        /\ Closes(emit_dispute_resolved(v, s), s)
    BY <1>1, <2>2, SettlingChains, ZenonT(40) DEF Closes
  <2> HIDE DEF u, v
  <2>6. Keep(k, emit_dispute_resolved(y, s)) /\ Closes(emit_dispute_resolved(y, s), s)
    BY <2>3, <2>4, <2>5, ZenonT(40)
  <2> HIDE DEF y
  <2> QED BY <1>3, <2>2, <2>3, <2>6, ZenonT(40)
<1> QED BY <1>4, <1>5, <1>6, <1>7, <1>8, <1>9, ZenonT(40)

\* deposit_escrow records the gross amount and announces what is left of it.
LEMMA DepositHandler ==
    ASSUME Ready, NEW k \in Ids, NEW c \in Companies, NEW amount \in Amounts,
           Deposit(c, k, amount)
    PROVE  Enters(k)
<1> DEFINE x == side[k]
           r == ship[k]
           fee == PlatformFee(amount)
           u == Settled(x, "Deposit", amount)
           y == emit_escrow_deposited(
                    BumpNonce(IF fee > 0 THEN emit_platform_fee_collected(u) ELSE u),
                    amount - fee)
<1>1. /\ x \in Side /\ r \in Record
      /\ totals.volume \in Nat /\ totals.disputes \in Nat /\ totals \in Totals
  BY SideStart, ZenonT(40) DEF Ready
<1>2. amount \in Nat /\ fee \in Nat
  BY ConstantsAssumption, FeeBound, SMTT(20), SMTT(40)
<1>fee. fee = PlatformFee(amount)
  OBVIOUS
<1>3. /\ totals' = [totals EXCEPT !.volume = @ + amount] /\ Write(k, y)
      /\ ship'[k] = [r EXCEPT !.escrow = amount - fee, !.total = amount - fee]
      /\ r.escrow = 0
  <2> DEFINE new == [r EXCEPT !.escrow = amount - fee, !.total = amount - fee]
  <2>1. totals' = [totals EXCEPT !.volume = @ + amount] /\ Write(k, y)
    BY ZenonT(40) DEF Deposit, add_total_escrow_volume
  <2>2. persist_shipment(k, new) /\ r.escrow = 0
    BY ZenonT(40) DEF Deposit, deposit_escrow
  <2> HIDE DEF new
  <2>3. ship'[k] = new
    BY <2>2, ShipAfter, ZenonT(40)
  <2> QED BY <2>1, <2>2, <2>3, ZenonT(40) DEF new
<1> HIDE DEF fee
<1>4. Answers(x, y, amount, r.status, 0, r.status, amount - fee)
  BY <1>1, <1>2, <1>fee, DepositChain, ZenonT(40)
<1> HIDE DEF y
<1>5. ship'[k].escrow = amount - fee /\ ship'[k].status = r.status
  BY <1>1, <1>3, ZenonT(40) DEF Record
<1>6. /\ totals' \in Totals /\ totals'.volume = totals.volume + amount
      /\ totals'.disputes = totals.disputes + 0
  BY <1>1, <1>2, <1>3, SMTT(20), SMTT(40) DEF Totals
<1>7. Escalates(k) = 0
  BY <1>5, Zenon DEF Escalates
<1>8. /\ side' = [side EXCEPT ![k] = y]
      /\ touched' = [touched EXCEPT ![k] = @ \/ loc[k] = "archived"]
      /\ copy' = copy
  BY <1>3, Zenon DEF Write
<1>9. Answers(x, y, amount, r.status, r.escrow, ship'[k].status, ship'[k].escrow)
  BY <1>3, <1>4, <1>5, ZenonT(40)
<1> QED BY <1>2, <1>6, <1>7, <1>8, <1>9, ZenonT(40) DEF Enters

\* Those that pay the carrier out of the escrow.
LEMMA PayingHandlers ==
    ASSUME Ready, NEW k \in Ids,
           \/ ConfirmDelivery(k)
           \/ \E p \in Percents : ConfirmPartialDelivery(k, p)
           \/ \E m \in Milestones : RecordMilestone(k, m)
           \/ \E M \in SUBSET Milestones : RecordMilestonesBatch(k, M)
           \/ \E m \in Milestones : ReleaseMilestone(k, m)
           \/ ReleaseEscrow(k)
    PROVE  Enters(k)
<1> DEFINE x == side[k]
           r == ship[k]
           c == set_confirmation_hash(x)
           Paid(y, s, a) == Answers(x, y, 0, r.status, r.escrow, s, r.escrow - a)
<1>1. /\ x \in Side /\ r \in Record /\ r.escrow \in Nat
      /\ r.total \in Nat /\ r.status \in ShipmentStatus
  BY SideStart, Zenon
<1>2. ASSUME NEW mid \in Record, mid.escrow = r.escrow, NEW amount \in Nat,
             NEW y, Keep(k, y), Paid(y, mid.status, ActualRelease(r, amount)),
             ship'[k] = finalize_if_settled(Released(mid, amount)),
             mid.status # "Disputed" \/ mid.status = r.status
      PROVE  Enters(k)
  <2>1. ActualRelease(mid, amount) = ActualRelease(r, amount)
    BY <1>2, Zenon DEF ActualRelease
  <2>2. /\ ship'[k].status = mid.status
        /\ ship'[k].escrow = r.escrow - ActualRelease(r, amount)
    <3> DEFINE w == Released(mid, amount)
    <3>1. /\ w \in Record /\ w.status = mid.status
          /\ w.escrow = mid.escrow - ActualRelease(mid, amount)
      BY <1>2, ReleasedRecord, ZenonT(40)
    <3>2. ship'[k] = finalize_if_settled(w)
      BY <1>2, Zenon
    <3> HIDE DEF w
    <3>3. ship'[k].status = w.status /\ ship'[k].escrow = w.escrow
      BY <3>1, <3>2, FinalizeRecord, ZenonT(40)
    <3> QED BY <1>2, <2>1, <3>1, <3>3, ZenonT(40)
  <2> QED BY <1>2, <2>2, Kept, ZenonT(40)
<1> HIDE DEF Paid
<1>3. \A amount \in Nat : ActualRelease(r, amount) \in Nat
  BY <1>1, ReleasedRecord, ZenonT(40)
<1>4. ActualRelease(r, r.escrow) = r.escrow
  BY <1>1, Zenon DEF ActualRelease
<1>marked. ASSUME NEW M \in SUBSET Milestones, NEW mid, mid = MarkPaid(r, M)
           PROVE  mid \in Record /\ mid.status = r.status /\ mid.escrow = r.escrow
  BY <1>1, <1>marked, MarkedRecord, SMTT(20), SMTT(40)
<1>5. CASE ConfirmDelivery(k)
  <2> DEFINE y == emit_delivery_success(emit_delivery_confirmed(
                      ReleaseTo(c, ActualRelease(r, r.escrow))))
             d == [r EXCEPT !.status = "Delivered"]
  <2>1. Keep(k, y) /\ ship'[k] = finalize_if_settled(Released(d, r.escrow))
    BY <1>5, ShipAfter, ZenonT(40) DEF ConfirmDelivery, confirm_delivery
  <2>2. "Delivered" \in ShipmentStatus
    BY DEF ShipmentStatus
  <2>3. d \in Record /\ d.status = "Delivered" /\ d.escrow = r.escrow
    BY <1>1, <2>2, StatusRecord, SMTT(20), SMTT(40)
  <2>4. Paid(y, "Delivered", ActualRelease(r, r.escrow))
    BY <1>1, <1>4, <2>2, PayingChains, ZenonT(40) DEF Paid
  <2> HIDE DEF y, d
  <2> QED BY <1>1, <1>2, <2>1, <2>3, <2>4, ZenonT(40)
<1>6. CASE \E p \in Percents : ConfirmPartialDelivery(k, p)
  <2>1. PICK pc \in Percents : ConfirmPartialDelivery(k, pc)
    BY <1>6, Zenon
  <2> DEFINE amount == checked_mul_div(r.total, pc, 100)
             t == IF (r.total - r.escrow) + amount = r.total
                  THEN "Delivered" ELSE "PartiallyDelivered"
             d == [r EXCEPT !.status = t]
             z == ReleaseTo(c, ActualRelease(r, amount))
  <2>2. amount \in Nat
    <3>1. pc \in Nat
      BY ConstantsAssumption, SMTT(20), SMTT(40)
    <3> QED BY <1>1, <3>1, MulDivNat, ZenonT(40)
  <2>3. /\ ship'[k] = finalize_if_settled(Released(d, amount))
        /\ amount > 0 /\ (r.total - r.escrow) + amount <= r.total
        /\ Keep(k, emit_status_updated(z, ship'[k].status))
    BY <2>1, ShipAfter, ZenonT(40) DEF ConfirmPartialDelivery, confirm_partial_delivery
  <2>4. t \in ShipmentStatus /\ t \in Unstored /\ t # "Disputed"
    BY Zenon DEF ShipmentStatus, Unstored
  <2> HIDE DEF amount, t
  <2>5. d \in Record /\ d.status = t /\ d.escrow = r.escrow
    BY <1>1, <2>4, StatusRecord, SMTT(20), SMTT(40)
  <2> HIDE DEF d
  <2>6. ship'[k].status = t
    <3> DEFINE w == Released(d, amount)
    <3>1. w \in Record /\ w.status = t
      BY <2>2, <2>5, ReleasedRecord, ZenonT(40)
    <3>2. ship'[k] = finalize_if_settled(w)
      BY <2>3, ZenonT(40)
    <3> HIDE DEF w
    <3> QED BY <3>1, <3>2, FinalizeRecord, ZenonT(40)
  <2>7. ActualRelease(r, amount) > 0
    <3>1. amount > 0 /\ amount <= r.escrow
      BY <1>1, <2>2, <2>3, SMTT(20), SMTT(40)
    <3> QED BY <1>1, <2>2, <3>1, SMTT(20), SMTT(40) DEF ActualRelease
  <2>8. Paid(emit_status_updated(z, t), t, ActualRelease(r, amount))
    BY <1>1, <1>3, <2>2, <2>4, <2>7, PayingChains, ZenonT(40) DEF Paid
  <2> HIDE DEF z
  <2> QED BY <1>2, <2>2, <2>3, <2>4, <2>5, <2>6, <2>8, ZenonT(40)
<1>7. CASE \E m \in Milestones : RecordMilestone(k, m)
  <2>1. PICK ms \in Milestones : RecordMilestone(k, ms)
    BY <1>7, Zenon
  <2> DEFINE amount == MilestoneRelease(r, ms, r.paid)
             mid == MarkPaid(r, {ms})
             y == ReleaseTo(emit_milestone_payment_released(emit_milestone_recorded(x)),
                            ActualRelease(r, amount))
  <2>2. /\ ship'[k] = finalize_if_settled(Released(mid, amount))
        /\ ms \in Symbols(r.schedule) /\ Keep(k, y)
    BY <2>1, ShipAfter, ZenonT(40) DEF RecordMilestone, record_milestone
  <2>3. amount \in Nat
    BY <1>1, <2>2, MilestoneReleaseWorth, ZenonT(40)
  <2>4. mid \in Record /\ mid.status = r.status /\ mid.escrow = r.escrow
    BY <1>marked, Zenon
  <2> HIDE DEF amount, mid
  <2>5. Paid(y, r.status, ActualRelease(r, amount))
    BY <1>1, <1>3, <2>3, PayingChains, ZenonT(40) DEF Paid
  <2> HIDE DEF y
  <2> QED BY <1>2, <2>2, <2>3, <2>4, <2>5, ZenonT(40)
<1>8. CASE \E m \in Milestones : ReleaseMilestone(k, m)
  <2>1. PICK ms \in Milestones : ReleaseMilestone(k, ms)
    BY <1>8, Zenon
  <2> DEFINE amount == MilestoneRelease(r, ms, r.completed)
             mid == IF amount > 0 THEN MarkPaid(r, {ms}) ELSE r
             z == ReleaseTo(emit_milestone_payment_released(x), ActualRelease(r, amount))
             y == IF amount > 0 THEN z ELSE x
  <2>2. /\ ship'[k] = finalize_if_settled(Released(mid, amount))
        /\ ms \in Symbols(r.schedule) /\ Keep(k, y)
    BY <2>1, ShipAfter, ZenonT(40) DEF ReleaseMilestone, release_milestone_payment
  <2>3. amount \in Nat
    BY <1>1, <2>2, MilestoneReleaseWorth, ZenonT(40)
  <2> HIDE DEF amount
  <2>4. mid \in Record /\ mid.status = r.status /\ mid.escrow = r.escrow
    <3> DEFINE w == MarkPaid(r, {ms})
    <3>1. w \in Record /\ w.status = r.status /\ w.escrow = r.escrow
      BY <1>marked
    <3> HIDE DEF w
    <3> QED BY <1>1, <3>1, ZenonT(40) DEF w
  <2> HIDE DEF mid
  <2>5. Paid(z, r.status, ActualRelease(r, amount))
    BY <1>1, <1>3, <2>3, PayingChains, ZenonT(40) DEF Paid
  <2> HIDE DEF z
  <2>6. CASE amount > 0
    BY <1>2, <2>2, <2>3, <2>4, <2>5, <2>6, ZenonT(40)
  <2>7. CASE amount = 0
    <3>1. ActualRelease(r, amount) = 0 /\ x = ReleaseTo(x, 0)
      BY <1>1, <2>7, SMTT(20), SMTT(40) DEF ActualRelease, ReleaseTo
    <3>2. Paid(ReleaseTo(x, 0), r.status, 0)
      BY <1>1, PayingChains, ZenonT(40) DEF Paid
    <3>3. y = x
      BY <2>7, SMT, SMTT(40)
    <3> QED BY <1>2, <2>2, <2>3, <2>4, <3>1, <3>2, <3>3, ZenonT(40)
  <2> QED BY <2>3, <2>6, <2>7, SMTT(20), SMTT(40)
<1>9. CASE ReleaseEscrow(k)
  <2> DEFINE y == ReleaseTo(x, ActualRelease(r, r.escrow))
  <2>1. ship'[k] = finalize_if_settled(Released(r, r.escrow)) /\ Keep(k, y)
    BY <1>9, ShipAfter, ZenonT(40) DEF ReleaseEscrow, release_escrow
  <2>2. Paid(y, r.status, ActualRelease(r, r.escrow))
    BY <1>1, <1>3, PayingChains, ZenonT(40) DEF Paid
  <2> HIDE DEF y
  <2> QED BY <1>1, <1>2, <2>1, <2>2, ZenonT(40)
<1>10. CASE \E M \in SUBSET Milestones : RecordMilestonesBatch(k, M)
  <2>1. PICK M \in SUBSET Milestones : RecordMilestonesBatch(k, M)
    BY <1>10, Zenon
  <2> DEFINE share == [j \in DOMAIN r.schedule |->
                          checked_mul_div(r.total, r.schedule[j][2], 100)]
             reached == {j \in DOMAIN r.schedule : r.schedule[j][1] \in M}
             sh == [j \in DOMAIN r.schedule |->
                       IF r.schedule[j][1] \in M
                       THEN checked_mul_div(r.total, r.schedule[j][2], 100) ELSE 0]
             n == Len(r.schedule)
             sum == SumTo(sh, n)
             mid == MarkPaid(r, M)
             y == ReleaseEach(x, r.escrow, share, reached)
  <2>2. ship'[k] = finalize_if_settled(Released(mid, sum)) /\ Keep(k, y)
    BY <2>1, ShipAfter, ZenonT(40) DEF RecordMilestonesBatch, record_milestones_batch
  <2>3. /\ r.schedule \in Schedules /\ n \in Nat /\ DOMAIN r.schedule = 1 .. n
        /\ \A j \in 1 .. n : r.schedule[j][2] \in Nat
    BY <1>1, Fields, ScheduleType, ZenonT(40)
  <2>4. \A j \in 1 .. n : checked_mul_div(r.total, r.schedule[j][2], 100) \in Nat
    BY <1>1, <2>3, MulDivNat, ZenonT(40)
  <2>5. share \in Seq(Nat) /\ Len(share) = n
    <3>1. share \in [1 .. n -> Nat]
      BY <2>3, <2>4, ZenonT(40)
    <3> HIDE DEF share, n
    <3> QED BY <2>3, <3>1, SMTT(20), SMTT(40)
  <2>6. Reached(share, reached) = sh
    BY <2>3, <2>5, ZenonT(40) DEF Reached
  <2> HIDE DEF share, reached, sh
  <2>7. sum \in Nat /\ Paid(y, r.status, AtMost(r.escrow, sum))
    BY <1>1, <2>5, <2>6, LoopChain, ZenonT(40) DEF Paid
  <2> HIDE DEF y, sum
  <2>8. AtMost(r.escrow, sum) = ActualRelease(r, sum)
    BY Zenon DEF AtMost, ActualRelease
  <2>9. mid \in Record /\ mid.status = r.status /\ mid.escrow = r.escrow
    BY <1>marked, Zenon
  <2> HIDE DEF mid
  <2> QED BY <1>2, <2>2, <2>7, <2>8, <2>9, ZenonT(40)
<1> QED BY <1>5, <1>6, <1>7, <1>8, <1>9, <1>10, ZenonT(40)

(***************************************************************************)
(* Every call that concerns one shipment.                                  *)
(***************************************************************************)

Shift(k) ==
    /\ Enters(k)
    /\ \/ UNCHANGED vars /\ loc[k] # "absent"
       \/ \E new : Call(k, new)

\* The calls that leave the shipment alone or write it back as it is.
LEMMA AsideShifts ==
    ASSUME Ready, NEW k \in Ids,
           \/ ReportBreach(k) \/ RecordCheckpoint(k) \/ append_note_hash(k)
           \/ add_dispute_evidence_hash(k) \/ report_geofence_event(k) \/ update_eta(k)
    PROVE  Shift(k)
<1>1. Enters(k)
  BY QuietHandlers, ZenonT(40)
<1>2. ASSUME RecordCheckpoint(k) \/ add_dispute_evidence_hash(k)
      PROVE  Call(k, ship[k])
  <2>1. ship[k] \in Record /\ AtRest(ship[k])
    BY Start, Zenon DEF Ready
  <2>2. /\ loc[k] # "absent" /\ set_shipment(k, ship[k]) /\ ~ ship[k].finalized
        /\ UNCHANGED <<now, paused, counter, escrowKey, statusCount, activeCount,
                       recoveries, bal>>
    BY <1>2, ZenonT(40) DEF RecordCheckpoint, add_dispute_evidence_hash, get_shipment
  <2>3. Writes(k, ship[k]) /\ Mirrored(k, ship[k]) /\ StatusFollows(k, ship[k])
    BY <2>1, <2>2, ZenonT(40) DEF Writes, Mirrored, StatusFollows
  <2>4. ActiveFollows(k, ship[k]) /\ MoneyFollows(k, ship[k])
    BY <2>2, ZenonT(40) DEF ActiveFollows, MoneyFollows, Keeps
  <2>5. EndsWell(ship[k], ship[k])
    BY Zenon DEF EndsWell
  <2> QED BY <2>1, <2>2, <2>3, <2>4, <2>5, ZenonT(40) DEF Call
<1>3. CASE RecordCheckpoint(k) \/ add_dispute_evidence_hash(k)
  BY <1>1, <1>2, <1>3, ZenonT(40) DEF Shift
<1>4. CASE \/ ReportBreach(k) \/ append_note_hash(k)
           \/ report_geofence_event(k) \/ update_eta(k)
  <2>1. UNCHANGED vars /\ loc[k] # "absent"
    BY <1>4, Zenon DEF ReportBreach, append_note_hash, report_geofence_event, update_eta,
                       get_shipment
  <2> QED BY <1>1, <2>1, ZenonT(40) DEF Shift
<1> QED BY <1>3, <1>4, ZenonT(40)

\* The others are calls of module Shipment.
LEMMA DeliverShifts ==
    ASSUME Ready, NEW k \in Ids,
           \/ \E c \in Companies, a \in Amounts : Deposit(c, k, a)
           \/ \E s \in ShipmentStatus : UpdateStatus(k, s)
           \/ \E c \in Carriers : Handoff(k, c)
           \/ CriticalBreach(k) \/ ConfirmDelivery(k)
           \/ \E p \in Percents : ConfirmPartialDelivery(k, p)
           \/ \E m \in Milestones : RecordMilestone(k, m)
           \/ \E M \in SUBSET Milestones : RecordMilestonesBatch(k, M)
           \/ \E m \in Milestones : ReleaseMilestone(k, m)
           \/ ReleaseEscrow(k) \/ SetMetadata(k)
    PROVE  Shift(k)
<1>1. Enters(k)
  BY QuietHandlers, StatusHandlers, DepositHandler, PayingHandlers, ZenonT(40)
<1>2. DeliverNext(k)
  <2>0. \A c, a : Deposit(c, k, a) => deposit_escrow(c, k, a)
    BY SMT, SMTT(40) DEF Deposit
  <2>1. /\ \A s : UpdateStatus(k, s) => update_status(k, s)
        /\ \A c : Handoff(k, c) => handoff_shipment(k, c)
        /\ CriticalBreach(k) => report_condition_breach(k)
        /\ ConfirmDelivery(k) => confirm_delivery(k)
        /\ \A p : ConfirmPartialDelivery(k, p) => confirm_partial_delivery(k, p)
    BY ZenonT(40) DEF UpdateStatus, Handoff, CriticalBreach, ConfirmDelivery,
                 ConfirmPartialDelivery
  <2>2. /\ \A m : RecordMilestone(k, m) => record_milestone(k, m)
        /\ \A M : RecordMilestonesBatch(k, M) => record_milestones_batch(k, M)
        /\ \A m : ReleaseMilestone(k, m) => release_milestone_payment(k, m)
        /\ ReleaseEscrow(k) => release_escrow(k)
        /\ SetMetadata(k) => set_shipment_metadata(k)
    BY Zenon DEF RecordMilestone, RecordMilestonesBatch, ReleaseMilestone,
                 ReleaseEscrow, SetMetadata
  <2> QED BY <2>0, <2>1, <2>2, ZenonT(40) DEF DeliverNext
<1>3. \E new : Call(k, new)
  BY <1>2, EveryCall, ZenonT(40) DEF Ready
<1> QED BY <1>1, <1>3, ZenonT(40) DEF Shift

LEMMA SettleShifts ==
    ASSUME Ready, NEW k \in Ids,
           \/ CancelShipment(k) \/ ForceCancel(k) \/ Refund(k) \/ CheckDeadline(k)
           \/ RaiseDispute(k)
           \/ \E res \in DisputeResolution : ResolveDispute(k, res)
           \/ \E s \in Terminal : ExecuteForce(k, s)
    PROVE  Shift(k)
<1>1. Enters(k)
  BY StatusHandlers, ClosingHandlers, ZenonT(40)
<1>2. SettleNext(k)
  BY Zenon DEF SettleNext, CancelShipment, ForceCancel, Refund, CheckDeadline,
               RaiseDispute, ResolveDispute, ExecuteForce
<1>3. \E new : Call(k, new)
  BY <1>2, EveryCall, Zenon DEF Ready
<1> QED BY <1>1, <1>3, ZenonT(40) DEF Shift
=============================================================================
