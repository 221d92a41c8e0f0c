--------------------------- MODULE RecordsProofs ----------------------------
(***************************************************************************)
(* Proofs about Records, for every number of shipments, of events, notes   *)
(* and settlements.  HandlerProofs shows what a handler leaves in a side   *)
(* record; the theorems follow from an invariant that relates the side     *)
(* records to the shipments.                                               *)
(***************************************************************************)
EXTENDS HandlerProofs

(***************************************************************************)
(* The invariant, and what a step does to one shipment.                    *)
(***************************************************************************)

TidyAt(i) ==
    Tidy(side[i], ship[i].status, ship[i].escrow, ship[i].finalized, loc[i],
         touched[i], escrowKey[i], copy[i])

\* Paid in for shipment i, by the settlement records.
Gross == [i \in Ids |-> PaidIn(side[i].settlements)]

\* Without recoveries, which Records leaves out, there is none to record.
RInv ==
    /\ IInv
    /\ side \in [Ids -> Side] /\ touched \in [Ids -> BOOLEAN]
    /\ copy \in [Ids -> {"none", "open", "final"}] /\ totals \in Totals
    /\ \A i \in Ids : recoveries[i] = 0
    /\ \A i \in Ids : i > counter => side[i] = NoRecord /\ copy[i] = "none"
    /\ \A i \in Ids : TidyAt(i)
    /\ totals.volume = SumTo(Gross, MaxShipments)

\* NonceAdvances and SettlementsExplain, for one shipment.
Moved(i) ==
    /\ side'[i].nonce >= side[i].nonce
    /\ ship'[i].status # ship[i].status \/ ship'[i].escrow # ship[i].escrow =>
          \/ side'[i].nonce > side[i].nonce
          \/ ship'[i].status = "Delivered" /\ ship[i].escrow = 0
    /\ \/ ship'[i].escrow - ship[i].escrow =
             Explains(side'[i].settlements) - Explains(side[i].settlements)
       \/ /\ side'[i].settlements = side[i].settlements
          /\ ship'[i].escrow = 0 /\ ship'[i].status \in Terminal

NewDisputes == {i \in Ids : ship[i].status # "Disputed" /\ ship'[i].status = "Disputed"}

Accounted ==
    /\ \A i \in Ids : loc[i] # "absent" /\ loc'[i] # "absent" => Moved(i)
    /\ totals'.disputes - totals.disputes = Cardinality(NewDisputes)
    /\ \A i \in Ids : ship[i].finalized => ship'[i] = ship[i] \/ loc'[i] = "absent"

\* What the next state must be like.
LEMMA RInvNext ==
    ASSUME IInv',
           side' \in [Ids -> Side], touched' \in [Ids -> BOOLEAN],
           copy' \in [Ids -> {"none", "open", "final"}], totals' \in Totals,
           \A i \in Ids : recoveries'[i] = 0,
           \A i \in Ids : i > counter' => side'[i] = NoRecord /\ copy'[i] = "none",
           \A i \in Ids : Tidy(side'[i], ship'[i].status, ship'[i].escrow,
                               ship'[i].finalized, loc'[i], touched'[i],
                               escrowKey'[i], copy'[i]),
           totals'.volume = SumTo(Gross', MaxShipments)
    PROVE  RInv'
<1>1. (\A i \in Ids : TidyAt(i))'
  BY Zenon DEF TidyAt
<1> QED BY <1>1, Zenon DEF RInv

\* What a step may rely on.
LEMMA RStart ==
    ASSUME RInv
    PROVE  /\ Ready /\ TypeOK /\ IInv
           /\ counter \in Nat /\ MaxShipments \in Nat
           /\ ship \in [Ids -> Record] /\ loc \in [Ids -> Locations]
           /\ side \in [Ids -> Side] /\ touched \in [Ids -> BOOLEAN]
           /\ copy \in [Ids -> {"none", "open", "final"}] /\ totals \in Totals
           /\ escrowKey \in [Ids -> Nat] /\ recoveries \in [Ids -> 0 .. MaxRecoveries]
           /\ Gross \in [1 .. MaxShipments -> Int]
<1>1. /\ IInv /\ Sound /\ TypeOK
      /\ side \in [Ids -> Side] /\ touched \in [Ids -> BOOLEAN]
      /\ copy \in [Ids -> {"none", "open", "final"}] /\ totals \in Totals
  BY Zenon DEF RInv, IInv, Sound
<1>2. /\ ship \in [Ids -> Record] /\ loc \in [Ids -> Locations]
      /\ escrowKey \in [Ids -> Nat] /\ recoveries \in [Ids -> 0 .. MaxRecoveries]
      /\ counter \in 0 .. MaxShipments
  BY <1>1, Zenon DEF TypeOK
<1>3. MaxShipments \in Nat /\ counter \in Nat
  BY <1>2, ConstantTypes, SMT, SMTT(40)
<1>4. \A i \in Ids : PaidIn(side[i].settlements) \in Int
  <2>1. ASSUME NEW q \in Seq(SettlementRecord) PROVE PaidIn(q) \in Int
    BY <2>1, ExplainsType, SMT, SMTT(40)
  <2> QED BY <1>1, <2>1, SideFields, ZenonT(40)
<1>5. Gross \in [1 .. MaxShipments -> Int]
  BY <1>4, Zenon DEF Gross, Ids
<1> QED BY <1>1, <1>2, <1>3, <1>5, ZenonT(40) DEF Ready

\* A step that changes neither the shipment nor its nonce and settlements.
LEMMA Unmoved ==
    ASSUME RInv, NEW i \in Ids, ship'[i] = ship[i], side'[i].nonce = side[i].nonce,
           side'[i].settlements = side[i].settlements
    PROVE  Moved(i)
<1>1. side[i] \in Side /\ ship[i].escrow \in Nat
  BY RStart, SideStart, Zenon
<1>2. side[i].nonce \in Nat /\ Explains(side[i].settlements) \in Int
  BY <1>1, SideFields, ExplainsType, ZenonT(40)
<1>3. side'[i].nonce >= side[i].nonce
  BY <1>2, SMT, SMTT(40)
<1>4. ship'[i].escrow - ship[i].escrow =
         Explains(side'[i].settlements) - Explains(side[i].settlements)
  BY <1>1, <1>2, SMTT(20), SMTT(40)
<1> QED BY <1>3, <1>4, ZenonT(40) DEF Moved

\* A step that raises no dispute and counts none.
LEMMA NoDispute ==
    ASSUME RInv, totals' = totals,
           \A i \in Ids : ship'[i].status = "Disputed" => ship[i].status = "Disputed"
    PROVE  totals'.disputes - totals.disputes = Cardinality(NewDisputes)
<1>1. NewDisputes = {}
  BY Zenon DEF NewDisputes
<1>2. totals.disputes \in Nat
  BY RStart, Zenon DEF Totals
<1>3. Cardinality({}) = 0
  BY OneOrNone, Zenon
<1>4. totals'.disputes - totals.disputes = 0
  BY <1>2, SMT, SMTT(40)
<1> QED BY <1>1, <1>3, <1>4, ZenonT(40)

(***************************************************************************)
(* The steps.                                                              *)
(***************************************************************************)

\* What a call about shipment k does to it, in one form for all of them.
LEMMA ShiftShape ==
    ASSUME RInv, NEW k \in Ids, Shift(k)
    PROVE  /\ IInv' /\ counter' = counter /\ recoveries' = recoveries
           /\ \A i \in Ids : i # k =>
                 ship'[i] = ship[i] /\ loc'[i] = loc[i] /\ escrowKey'[i] = escrowKey[i]
           /\ loc[k] \in {"persistent", "archived"}
           /\ \/ loc'[k] = "persistent" /\ ~ ship[k].finalized
              \/ loc'[k] = loc[k] /\ ship'[k] = ship[k]
           /\ escrowKey[k] = ship[k].escrow => escrowKey'[k] = ship'[k].escrow
           /\ ship[k].finalized => ship'[k] = ship[k]
<1>1. /\ IInv /\ ship \in [Ids -> Record] /\ loc \in [Ids -> Locations]
      /\ escrowKey \in [Ids -> Nat]
  BY RStart, Zenon
<1>2. ASSUME loc[k] # "absent" PROVE loc[k] \in {"persistent", "archived"}
  BY <1>1, <1>2, ZenonT(40) DEF Locations
<1>3. CASE UNCHANGED vars /\ loc[k] # "absent"
  <2>1. IInv'
    BY <1>1, <1>3, NextIInv, ZenonT(40)
  <2>2. UNCHANGED <<counter, recoveries, ship, loc, escrowKey>>
    BY <1>3, Zenon DEF vars
  <2> QED BY <1>2, <1>3, <2>1, <2>2, ZenonT(40)
<1>4. CASE \E new : Call(k, new)
  <2>1. PICK new : Call(k, new)
    BY <1>4, ZenonT(40)
  <2>2. IInv'
    BY <1>1, <2>1, CallStep, ZenonT(40)
  <2>3. /\ loc[k] # "absent" /\ ~ ship[k].finalized
        /\ ship' = [ship EXCEPT ![k] = new] /\ loc' = [loc EXCEPT ![k] = "persistent"]
        /\ counter' = counter /\ recoveries' = recoveries /\ Mirrored(k, new)
    BY <2>1, ZenonT(40) DEF Call, Writes, set_shipment
  <2>4. /\ ship'[k] = new /\ loc'[k] = "persistent"
        /\ \A i \in Ids : i # k => ship'[i] = ship[i] /\ loc'[i] = loc[i]
    BY <1>1, <2>3, ZenonT(40)
  <2>5. /\ escrowKey[k] = ship[k].escrow => escrowKey'[k] = new.escrow
        /\ \A i \in Ids : i # k => escrowKey'[i] = escrowKey[i]
    BY <1>1, <2>3, Zenon DEF Mirrored
  <2> QED BY <1>2, <2>2, <2>3, <2>4, <2>5, ZenonT(40)
<1> QED BY <1>3, <1>4, ZenonT(40) DEF Shift

\* A call about one shipment keeps the invariant and accounts for itself.
LEMMA ShiftStep ==
    ASSUME RInv, NEW k \in Ids, Shift(k)
    PROVE  RInv' /\ Accounted
<1>1. /\ IInv' /\ counter' = counter /\ recoveries' = recoveries
      /\ \A i \in Ids : i # k =>
            ship'[i] = ship[i] /\ loc'[i] = loc[i] /\ escrowKey'[i] = escrowKey[i]
      /\ loc[k] \in {"persistent", "archived"}
      /\ \/ loc'[k] = "persistent" /\ ~ ship[k].finalized
         \/ loc'[k] = loc[k] /\ ship'[k] = ship[k]
      /\ escrowKey[k] = ship[k].escrow => escrowKey'[k] = ship'[k].escrow
      /\ ship[k].finalized => ship'[k] = ship[k]
  BY ShiftShape, Zenon
<1>2. PICK y : \E v \in Nat :
          /\ side' = [side EXCEPT ![k] = y]
          /\ touched' = [touched EXCEPT ![k] = @ \/ loc[k] = "archived"]
          /\ copy' = copy
          /\ totals' \in Totals
          /\ totals'.volume = totals.volume + v
          /\ totals'.disputes = totals.disputes + Escalates(k)
          /\ Answers(side[k], y, v, ship[k].status, ship[k].escrow,
                     ship'[k].status, ship'[k].escrow)
  BY Zenon DEF Shift, Enters
<1>3. PICK v \in Nat :
          /\ side' = [side EXCEPT ![k] = y]
          /\ touched' = [touched EXCEPT ![k] = @ \/ loc[k] = "archived"]
          /\ copy' = copy
          /\ totals' \in Totals
          /\ totals'.volume = totals.volume + v
          /\ totals'.disputes = totals.disputes + Escalates(k)
          /\ Answers(side[k], y, v, ship[k].status, ship[k].escrow,
                     ship'[k].status, ship'[k].escrow)
  BY <1>2, ZenonT(40)
<1>4. /\ side \in [Ids -> Side] /\ touched \in [Ids -> BOOLEAN]
      /\ copy \in [Ids -> {"none", "open", "final"}] /\ totals \in Totals
      /\ MaxShipments \in Nat /\ Gross \in [1 .. MaxShipments -> Int]
      /\ counter \in Nat
  BY RStart, ZenonT(40)
<1>5. y \in Side /\ PaidIn(y.settlements) = PaidIn(side[k].settlements) + v
  BY <1>3, Zenon DEF Answers, Follows
<1>6. /\ side' \in [Ids -> Side] /\ side'[k] = y
      /\ \A i \in Ids : i # k => side'[i] = side[i]
  BY <1>3, <1>4, <1>5, ZenonT(40)
<1>7. /\ touched' \in [Ids -> BOOLEAN]
      /\ touched'[k] = (touched[k] \/ loc[k] = "archived")
      /\ \A i \in Ids : i # k => touched'[i] = touched[i]
  BY <1>3, <1>4, ZenonT(40)
<1>8. ASSUME NEW i \in Ids
      PROVE  Tidy(side'[i], ship'[i].status, ship'[i].escrow, ship'[i].finalized,
                  loc'[i], touched'[i], escrowKey'[i], copy'[i])
  <2>1. Tidy(side[i], ship[i].status, ship[i].escrow, ship[i].finalized, loc[i],
             touched[i], escrowKey[i], copy[i])
    BY Zenon DEF RInv, TidyAt
  <2>2. CASE i # k
    BY <1>1, <1>3, <1>6, <1>7, <2>1, <2>2, ZenonT(40)
  <2>3. CASE i = k
    <3>1. \/ loc'[k] = "persistent" /\ ~ ship[k].finalized
          \/ /\ loc'[k] = loc[k] /\ ship'[k].status = ship[k].status
             /\ ship'[k].escrow = ship[k].escrow
             /\ ship'[k].finalized = ship[k].finalized
      BY <1>1, Zenon
    <3>2. /\ loc[k] \in {"persistent", "archived"}
          /\ escrowKey[k] = ship[k].escrow => escrowKey'[k] = ship'[k].escrow
          /\ touched[k] \/ loc[k] = "archived" => touched'[k]
      BY <1>1, <1>7, ZenonT(40)
    <3>3. Answers(side[k], y, v, ship[k].status, ship[k].escrow,
                  ship'[k].status, ship'[k].escrow)
      BY <1>3, Zenon
    <3>4. Carried(side[k], y, v, ship[k].status, ship[k].escrow, ship[k].finalized,
                  loc[k], touched[k], escrowKey[k], ship'[k].status, ship'[k].escrow,
                  ship'[k].finalized, loc'[k], touched'[k], escrowKey'[k])
      BY <3>1, <3>2, <3>3, ZenonT(40) DEF Carried
    <3>5. Tidy(y, ship'[k].status, ship'[k].escrow, ship'[k].finalized, loc'[k],
               touched'[k], escrowKey'[k], copy[k])
      <4>1. Tidy(side[k], ship[k].status, ship[k].escrow, ship[k].finalized, loc[k],
                 touched[k], escrowKey[k], copy[k])
        BY <2>1, <2>3, ZenonT(40)
      <4> QED BY <3>4, <4>1, TidyAnswer, SMTT(20), SMTT(40)
    <3> QED BY <1>3, <1>6, <2>3, <3>5, ZenonT(40)
  <2> QED BY <2>2, <2>3, ZenonT(40)
<1>9. ASSUME NEW i \in Ids, i > counter
      PROVE  side'[i] = NoRecord /\ copy'[i] = "none"
  <2>1. loc[i] = "absent" /\ side[i] = NoRecord /\ copy[i] = "none"
    BY <1>9, Zenon DEF RInv, IInv
  <2>2. i # k
    BY <1>1, <2>1, ZenonT(40)
  <2> QED BY <1>3, <1>6, <2>1, <2>2, ZenonT(40)
<1>10. totals'.volume = SumTo(Gross', MaxShipments)
  <2> DEFINE g == Gross'
             f == Gross
  <2>1. k \in 1 .. MaxShipments /\ PaidIn(side[k].settlements) \in Int /\ f[k] \in Int
    BY <1>4, ZenonT(40) DEF Ids, Gross
  <2>2. /\ \A i \in 1 .. MaxShipments : i # k => g[i] = f[i]
        /\ f[k] = PaidIn(side[k].settlements) /\ g[k] = PaidIn(y.settlements)
    BY <1>6, Zenon DEF Gross, Ids
  <2>3. g \in [1 .. MaxShipments -> Int]
    <3>1. \A i \in Ids : side'[i].settlements \in Seq(SettlementRecord)
      BY <1>6, SideFields, ZenonT(40)
    <3>2. ASSUME NEW q \in Seq(SettlementRecord) PROVE PaidIn(q) \in Int
      BY <3>2, ExplainsType, SMTT(20), SMTT(40)
    <3> QED BY <3>1, <3>2, ZenonT(40) DEF Gross, Ids
  <2>4. totals.volume = SumTo(f, MaxShipments)
    BY Zenon DEF RInv
  <2> HIDE DEF f, g
  <2>5. SumTo(g, MaxShipments) = SumTo(f, MaxShipments) + g[k] - f[k]
    BY <1>4, <2>1, <2>2, <2>3, SumUpdate, ZenonT(40) DEF f
  <2>6. SumTo(f, MaxShipments) \in Int
    BY <1>4, SumToType, ZenonT(40) DEF f
  <2>7. totals'.volume = SumTo(g, MaxShipments)
    BY <1>3, <1>5, <2>1, <2>2, <2>4, <2>5, <2>6, SMTT(20), SMTT(40)
  <2> QED BY <2>7, ZenonT(40) DEF g
<1>11. RInv'
  <2>1. \A i \in Ids : recoveries'[i] = 0
    BY <1>1, Zenon DEF RInv
  <2>2. copy' \in [Ids -> {"none", "open", "final"}] /\ totals' \in Totals
    BY <1>3, <1>4, ZenonT(40)
  <2> QED BY <1>1, <1>6, <1>7, <1>8, <1>9, <1>10, <2>1, <2>2, RInvNext, ZenonT(40)
<1>12. ASSUME NEW i \in Ids PROVE Moved(i)
  <2>1. CASE i = k
    BY <1>3, <1>6, <2>1, ZenonT(40) DEF Answers, Moved
  <2>2. CASE i # k
    BY <1>1, <1>6, <2>2, Unmoved, ZenonT(40)
  <2> QED BY <2>1, <2>2, ZenonT(40)
<1>13. totals'.disputes - totals.disputes = Cardinality(NewDisputes)
  <2>1. totals.disputes \in Nat
    BY <1>4, Zenon DEF Totals
  <2>2. CASE ship[k].status # "Disputed" /\ ship'[k].status = "Disputed"
    <3>1. NewDisputes = {k}
      BY <1>1, <2>2, ZenonT(40) DEF NewDisputes
    <3>2. Escalates(k) = 1
      BY <2>2, ZenonT(40) DEF Escalates
    <3>3. Cardinality({k}) = 1
      BY OneOrNone, ZenonT(40)
    <3>4. totals'.disputes - totals.disputes = 1
      BY <1>3, <2>1, <3>2, SMTT(20), SMTT(40)
    <3> QED BY <3>1, <3>3, <3>4, ZenonT(40)
  <2>3. CASE ~ (ship[k].status # "Disputed" /\ ship'[k].status = "Disputed")
    <3>1. NewDisputes = {}
      BY <1>1, <2>3, ZenonT(40) DEF NewDisputes
    <3>2. Escalates(k) = 0
      BY <2>3, ZenonT(40) DEF Escalates
    <3>3. Cardinality({}) = 0
      BY OneOrNone, ZenonT(40)
    <3>4. totals'.disputes - totals.disputes = 0
      BY <1>3, <2>1, <3>2, SMTT(20), SMTT(40)
    <3> QED BY <3>1, <3>3, <3>4, ZenonT(40)
  <2> QED BY <2>2, <2>3, ZenonT(40)
<1>14. \A i \in Ids : ship[i].finalized => ship'[i] = ship[i]
  BY <1>1, Zenon
<1> QED BY <1>11, <1>12, <1>13, <1>14, ZenonT(40) DEF Accounted

\* Nothing but the clock and the pause flag changes, if anything.
LEMMA StillStep ==
    ASSUME RInv, IInv',
           UNCHANGED <<counter, ship, loc, escrowKey, recoveries, side, copy, totals, touched>>
    PROVE  RInv' /\ Accounted
<1>1. Gross' = Gross
  BY Zenon DEF Gross
<1>2. \A i \in Ids : Tidy(side[i], ship[i].status, ship[i].escrow, ship[i].finalized,
                          loc[i], touched[i], escrowKey[i], copy[i])
  BY Zenon DEF RInv, TidyAt
<1>3. /\ side' \in [Ids -> Side] /\ touched' \in [Ids -> BOOLEAN]
      /\ copy' \in [Ids -> {"none", "open", "final"}] /\ totals' \in Totals
      /\ \A i \in Ids : recoveries'[i] = 0
      /\ \A i \in Ids : i > counter' => side'[i] = NoRecord /\ copy'[i] = "none"
      /\ totals'.volume = SumTo(Gross', MaxShipments)
  BY <1>1, Zenon DEF RInv
<1>4. RInv'
  BY <1>2, <1>3, RInvNext, ZenonT(40)
<1>5. \A i \in Ids : Moved(i)
  BY Unmoved, Zenon
<1>6. totals'.disputes - totals.disputes = Cardinality(NewDisputes)
  BY NoDispute, Zenon
<1> QED BY <1>4, <1>5, <1>6, ZenonT(40) DEF Accounted

\* A creation opens the side records of its shipments.
LEMMA CreationStep ==
    ASSUME RInv,
           \E c \in Companies :
              \/ \E input \in ShipmentInput : Create(c, input)
              \/ \E n \in 1 .. BatchLimit : \E inputs \in [1 .. n -> ShipmentInput] :
                     CreateBatch(c, inputs)
    PROVE  RInv' /\ Accounted
<1>1. /\ IInv /\ TypeOK /\ counter \in Nat /\ MaxShipments \in Nat
      /\ side \in [Ids -> Side] /\ touched \in [Ids -> BOOLEAN]
      /\ copy \in [Ids -> {"none", "open", "final"}] /\ totals \in Totals
  BY RStart, Zenon
<1>2. CreateNext
  BY Zenon DEF CreateNext, Create, CreateBatch
<1>3. PICK c \in Companies, n \in Nat : Creates(c, n)
  BY <1>1, <1>2, EveryCreation, ZenonT(40)
<1>4. IInv'
  BY <1>1, <1>3, CreateStep, ZenonT(40)
<1>5. /\ Fresh(n) \subseteq Ids
      /\ \A i \in Fresh(n) :
            /\ loc'[i] = "persistent" /\ escrowKey'[i] = 0
            /\ ship'[i].status = "Created" /\ ship'[i].escrow = 0
      /\ \A i \in Ids \ Fresh(n) :
            ship'[i] = ship[i] /\ loc'[i] = loc[i] /\ escrowKey'[i] = escrowKey[i]
      /\ counter' = counter + n /\ recoveries' = recoveries
  BY <1>3, ZenonT(40) DEF Creates
<1>6. /\ copy' = copy /\ totals' = totals /\ touched' \in [Ids -> BOOLEAN]
      /\ \A i \in Ids \ Fresh(n) : touched'[i] = touched[i]
      /\ side' = [i \in Ids |-> IF i \in Fresh(n) THEN emit_shipment_created(side[i])
                                ELSE side[i]]
  <2>1. CASE \E d \in Companies, input \in ShipmentInput : Create(d, input)
    <3> DEFINE k == counter + 1
    <3>1. /\ counter' = k /\ k \in Ids /\ copy' = copy /\ totals' = totals
          /\ side' = [side EXCEPT ![k] = emit_shipment_created(side[k])]
          /\ touched' = [touched EXCEPT ![k] = @ \/ loc[k] = "archived"]
      BY <2>1, ZenonT(40) DEF Create, create_shipment, Keep, Write
    <3>2. Fresh(n) = {k}
      BY <1>1, <1>5, <3>1, SMTT(20), SMTT(40) DEF Fresh
    <3> HIDE DEF k
    <3>3. touched' \in [Ids -> BOOLEAN] /\ \A i \in Ids \ {k} : touched'[i] = touched[i]
      BY <1>1, <3>1, ZenonT(40)
    <3>4. side' = [i \in Ids |-> IF i \in {k} THEN emit_shipment_created(side[i])
                                 ELSE side[i]]
      BY <1>1, <3>1, ZenonT(40)
    <3> QED BY <3>1, <3>2, <3>3, <3>4, ZenonT(40)
  <2>2. CASE \E d \in Companies, m \in 1 .. BatchLimit :
                 \E inputs \in [1 .. m -> ShipmentInput] : CreateBatch(d, inputs)
    <3>1. /\ side' = [i \in Ids |-> IF i \in counter + 1 .. counter'
                                    THEN emit_shipment_created(side[i])
                                    ELSE side[i]]
          /\ copy' = copy /\ totals' = totals /\ touched' = touched
      BY <2>2, ZenonT(40) DEF CreateBatch
    <3>2. Fresh(n) = counter + 1 .. counter'
      BY <1>5, ZenonT(40) DEF Fresh
    <3> QED BY <1>1, <3>1, <3>2, ZenonT(40)
  <2> QED BY <2>1, <2>2, ZenonT(40)
<1>7. \A i \in Fresh(n) : i \in Ids /\ i > counter /\ ~ i > counter'
  BY <1>1, <1>5, SMTT(20), SMTT(40) DEF Fresh
<1>8. ASSUME NEW i \in Fresh(n)
      PROVE  /\ loc[i] = "absent" /\ ship[i] = Blank
             /\ side[i] = NoRecord /\ copy[i] = "none"
             /\ side'[i] = emit_shipment_created(NoRecord)
  <2>1. loc[i] = "absent" /\ ship[i] = Blank /\ side[i] = NoRecord /\ copy[i] = "none"
    BY <1>7, Zenon DEF RInv, IInv
  <2> QED BY <1>6, <1>7, <2>1, ZenonT(40)
<1>9. \A i \in Ids \ Fresh(n) : side'[i] = side[i]
  BY <1>6, Zenon
<1>10. /\ emit_shipment_created(NoRecord) \in Side
       /\ emit_shipment_created(NoRecord).settlements = NoRecord.settlements
  BY Opening, Zenon
<1>11. side' \in [Ids -> Side]
  <2>1. \A i \in Ids : side'[i] \in Side
    BY <1>1, <1>8, <1>9, <1>10, ZenonT(40)
  <2> QED BY <1>6, <2>1, ZenonT(40)
<1>12. Gross' = Gross
  <2>1. \A i \in Ids : side'[i].settlements = side[i].settlements
    BY <1>8, <1>9, <1>10, ZenonT(40)
  <2> QED BY <2>1, Zenon DEF Gross
<1>13. ASSUME NEW i \in Ids
       PROVE  Tidy(side'[i], ship'[i].status, ship'[i].escrow, ship'[i].finalized,
                   loc'[i], touched'[i], escrowKey'[i], copy'[i])
  <2>1. CASE i \in Fresh(n)
    <3>1. /\ side'[i] = emit_shipment_created(NoRecord) /\ ship'[i].status = "Created"
          /\ ship'[i].escrow = 0 /\ loc'[i] = "persistent" /\ escrowKey'[i] = 0
          /\ copy'[i] = "none"
      BY <1>5, <1>6, <1>8, <2>1, ZenonT(40)
    <3>2. Tidy(emit_shipment_created(NoRecord), "Created", 0, ship'[i].finalized,
               "persistent", touched'[i], 0, "none")
      BY TidyOpening, ZenonT(40)
    <3> QED BY <3>1, <3>2, ZenonT(40)
  <2>2. CASE i \notin Fresh(n)
    <3>1. Tidy(side[i], ship[i].status, ship[i].escrow, ship[i].finalized, loc[i],
               touched[i], escrowKey[i], copy[i])
      BY Zenon DEF RInv, TidyAt
    <3> QED BY <1>5, <1>6, <1>9, <2>2, <3>1, ZenonT(40)
  <2> QED BY <2>1, <2>2, ZenonT(40)
<1>14. ASSUME NEW i \in Ids, i > counter'
       PROVE  side'[i] = NoRecord /\ copy'[i] = "none"
  <2>1. i \notin Fresh(n)
    BY <1>7, <1>14, ZenonT(40)
  <2>2. i > counter
    BY <1>1, <1>5, <1>14, SMTT(20), SMTT(40) DEF Ids
  <2>3. side[i] = NoRecord /\ copy[i] = "none"
    BY <2>2, Zenon DEF RInv
  <2> QED BY <1>6, <1>9, <2>1, <2>3, ZenonT(40)
<1>15. RInv'
  <2>1. /\ \A i \in Ids : recoveries'[i] = 0
        /\ totals'.volume = SumTo(Gross', MaxShipments)
    BY <1>5, <1>6, <1>12, ZenonT(40) DEF RInv
  <2>2. copy' \in [Ids -> {"none", "open", "final"}] /\ totals' \in Totals
    BY <1>1, <1>6, ZenonT(40)
  <2> QED BY <1>4, <1>6, <1>11, <1>13, <1>14, <2>1, <2>2, RInvNext, ZenonT(40)
<1>16. ASSUME NEW i \in Ids, loc[i] # "absent" PROVE Moved(i)
  <2>1. i \notin Fresh(n)
    BY <1>8, <1>16, ZenonT(40)
  <2>2. ship'[i] = ship[i] /\ side'[i] = side[i]
    BY <1>5, <1>9, <2>1, ZenonT(40)
  <2> QED BY <2>2, Unmoved, ZenonT(40)
<1>17. totals'.disputes - totals.disputes = Cardinality(NewDisputes)
  <2>1. \A i \in Ids : ship'[i].status = "Disputed" => ship[i].status = "Disputed"
    BY <1>5, ZenonT(40)
  <2> QED BY <1>6, <2>1, NoDispute, ZenonT(40)
<1>18. \A i \in Ids : ship[i].finalized => ship'[i] = ship[i]
  <2>1. ~ Blank.finalized
    BY DEF Blank
  <2> QED BY <1>5, <1>8, <2>1, ZenonT(40)
<1> QED BY <1>15, <1>16, <1>17, <1>18, ZenonT(40) DEF Accounted

\* archive_shipment purges the side record and leaves the copy; the copy
\* expires, behind a record that was written back or alone.
LEMMA StoreStep ==
    ASSUME RInv, NEW k \in Ids, Archive(k) \/ Expire(k) \/ ExpireHidden(k)
    PROVE  RInv' /\ Accounted
<1>1. /\ IInv /\ ship \in [Ids -> Record] /\ loc \in [Ids -> Locations]
      /\ side \in [Ids -> Side] /\ touched \in [Ids -> BOOLEAN]
      /\ copy \in [Ids -> {"none", "open", "final"}] /\ totals \in Totals
      /\ escrowKey \in [Ids -> Nat] /\ recoveries \in [Ids -> 0 .. MaxRecoveries]
  BY RStart, ZenonT(40)
<1>2. \A i \in Ids : Tidy(side[i], ship[i].status, ship[i].escrow, ship[i].finalized,
                          loc[i], touched[i], escrowKey[i], copy[i])
  BY Zenon DEF RInv, TidyAt
<1>3. loc[k] # "absent" => ~ k > counter
  BY Zenon DEF IInv, RInv
\* All three concern k alone, its side record, its storage and its copy.
<1>4. ASSUME IInv', NEW z \in Side, NEW kept \in {"none", "open", "final"},
             ~ k > counter,
             side' = [side EXCEPT ![k] = z], copy' = [copy EXCEPT ![k] = kept],
             z.nonce = side[k].nonce, z.settlements = side[k].settlements,
             counter' = counter, totals' = totals, touched' = touched,
             ship'[k] = ship[k] \/ (loc'[k] = "absent" /\ ship'[k] = Blank),
             recoveries'[k] = 0,
             \A i \in Ids : i # k =>
                /\ ship'[i] = ship[i] /\ loc'[i] = loc[i]
                /\ escrowKey'[i] = escrowKey[i] /\ recoveries'[i] = recoveries[i],
             Tidy(z, ship'[k].status, ship'[k].escrow, ship'[k].finalized, loc'[k],
                  touched[k], escrowKey'[k], kept)
      PROVE  RInv' /\ Accounted
  <2> USE <1>4
  <2>1. /\ side' \in [Ids -> Side] /\ side'[k] = z
        /\ \A i \in Ids : i # k => side'[i] = side[i]
    BY <1>1, ZenonT(40)
  <2>2. /\ copy' \in [Ids -> {"none", "open", "final"}] /\ copy'[k] = kept
        /\ \A i \in Ids : i # k => copy'[i] = copy[i]
    BY <1>1, ZenonT(40)
  <2>3. /\ \A i \in Ids : recoveries'[i] = 0
        /\ \A i \in Ids : i > counter' => side'[i] = NoRecord /\ copy'[i] = "none"
    <3>1. /\ \A i \in Ids : recoveries[i] = 0
          /\ \A i \in Ids : i > counter => side[i] = NoRecord /\ copy[i] = "none"
      BY Zenon DEF RInv
    <3> QED BY <2>1, <2>2, <3>1, SMTT(20), SMTT(40)
  <2>4. \A i \in Ids : Tidy(side'[i], ship'[i].status, ship'[i].escrow,
                            ship'[i].finalized, loc'[i], touched'[i],
                            escrowKey'[i], copy'[i])
    BY <1>2, <2>1, <2>2, ZenonT(40)
  <2>5. Gross' = Gross
    <3>1. \A i \in Ids : side'[i].settlements = side[i].settlements
      BY <2>1, ZenonT(40)
    <3> QED BY <3>1, SMTT(20), SMTT(40) DEF Gross
  <2>6. totals'.volume = SumTo(Gross', MaxShipments)
    BY <2>5, ZenonT(40) DEF RInv
  <2>7. touched' \in [Ids -> BOOLEAN] /\ totals' \in Totals
    BY <1>1, ZenonT(40)
  <2>8. RInv'
    BY <2>1, <2>2, <2>3, <2>4, <2>6, <2>7, RInvNext, ZenonT(40)
  <2>9. \A i \in Ids : ship'[i] = ship[i] \/ (loc'[i] = "absent" /\ ship'[i] = Blank)
    BY ZenonT(40)
  <2>10. \A i \in Ids : loc'[i] # "absent" => Moved(i)
    BY <2>1, <2>9, Unmoved, ZenonT(40)
  <2>11. totals'.disputes - totals.disputes = Cardinality(NewDisputes)
    <3>1. Blank.status # "Disputed"
      BY Zenon DEF Blank
    <3>2. \A i \in Ids : ship'[i].status = "Disputed" => ship[i].status = "Disputed"
      BY <2>9, <3>1, ZenonT(40)
    <3> QED BY <3>2, NoDispute, ZenonT(40)
  <2> QED BY <2>8, <2>9, <2>10, <2>11, ZenonT(40) DEF Accounted
<1>5. CASE Archive(k)
  <2> DEFINE x == side[k]
             z == purge_status_hashes(purge_dispute_evidence(
                      purge_shipment_notes(purge_counters(x))))
             kept == IF ship[k].finalized THEN "final" ELSE "open"
  <2>1. /\ archive_shipment(k) /\ side' = [side EXCEPT ![k] = z]
        /\ copy' = [copy EXCEPT ![k] = kept] /\ totals' = totals /\ touched' = touched
    BY <1>5, ZenonT(40) DEF Archive
  <2>2. x \in Side /\ Indexed(x) /\ Booked(x)
    <3>1. Tidy(x, ship[k].status, ship[k].escrow, ship[k].finalized, loc[k],
               touched[k], escrowKey[k], copy[k])
      BY <1>2, ZenonT(40)
    <3> QED BY <1>1, <3>1, ZenonT(40) DEF Tidy
  <2>3. z \in Side /\ z.nonce = x.nonce /\ z.settlements = x.settlements
    <3>1. z = purge_status_hashes(purge_dispute_evidence(
                  purge_shipment_notes(purge_counters(x))))
      BY ZenonT(40)
    <3> HIDE DEF z
    <3> QED BY <2>2, <3>1, Purged, SMTT(20), SMTT(40)
  <2>4. /\ loc[k] = "persistent" /\ ship[k].status \in Terminal
        /\ loc' = [loc EXCEPT ![k] = "archived"] /\ counter' = counter /\ ship' = ship
        /\ escrowKey' = [escrowKey EXCEPT ![k] = 0]
        /\ recoveries' = [recoveries EXCEPT ![k] = 0]
    BY <2>1, ZenonT(40) DEF archive_shipment
  <2>5. ship[k].finalized \in BOOLEAN
    BY <1>1, ZenonT(40) DEF Record
  <2>6. Tidy(z, ship[k].status, ship[k].escrow, ship[k].finalized, "archived",
             touched[k], 0, kept)
    <3>1. Tidy(x, ship[k].status, ship[k].escrow, ship[k].finalized, "persistent",
               touched[k], escrowKey[k], copy[k])
      BY <1>2, <2>4, ZenonT(40)
    <3> QED BY <2>2, <2>4, <2>5, <3>1, TidyArchive, ZenonT(40)
  <2>7. /\ loc'[k] = "archived" /\ escrowKey'[k] = 0 /\ recoveries'[k] = 0
        /\ \A i \in Ids : i # k =>
              /\ ship'[i] = ship[i] /\ loc'[i] = loc[i]
              /\ escrowKey'[i] = escrowKey[i] /\ recoveries'[i] = recoveries[i]
    BY <1>1, <2>4, ZenonT(40)
  <2>8. IInv'
    BY <1>1, <2>1, ArchiveStep, ZenonT(40) DEF ArchiveNext
  <2>9. kept \in {"none", "open", "final"}
    BY <2>5, ZenonT(40)
  <2>10. ~ k > counter
    BY <1>3, <2>4, ZenonT(40)
  <2> HIDE DEF z, kept
  <2> QED BY <1>4, <2>1, <2>3, <2>4, <2>6, <2>7, <2>8, <2>9, <2>10, ZenonT(40)
<1>6. ASSUME Expire(k) \/ ExpireHidden(k)
      PROVE  /\ side' = [side EXCEPT ![k] = side[k]] /\ side[k] \in Side
             /\ copy' = [copy EXCEPT ![k] = "none"]
             /\ "none" \in {"none", "open", "final"}
             /\ totals' = totals /\ touched' = touched
             /\ recoveries[k] = 0
  <2>1. /\ side' = side /\ copy' = [copy EXCEPT ![k] = "none"]
        /\ totals' = totals /\ touched' = touched
    BY <1>6, ZenonT(40) DEF Expire, ExpireHidden
  <2>2. side = [side EXCEPT ![k] = side[k]]
    BY <1>1, ZenonT(40)
  <2> QED BY <1>1, <2>1, <2>2, ZenonT(40) DEF RInv
<1>7. CASE Expire(k)
  <2>1. /\ loc[k] = "archived" /\ loc' = [loc EXCEPT ![k] = "absent"]
        /\ ship' = [ship EXCEPT ![k] = Blank] /\ counter' = counter
        /\ escrowKey' = escrowKey /\ recoveries' = recoveries
    BY <1>7, Zenon DEF Expire, ExpireArchived
  <2>2. /\ loc'[k] = "absent" /\ ship'[k] = Blank
        /\ \A i \in Ids : i # k => ship'[i] = ship[i] /\ loc'[i] = loc[i]
    BY <1>1, <2>1, ZenonT(40)
  <2>3. Tidy(side[k], ship'[k].status, ship'[k].escrow, ship'[k].finalized, "absent",
             touched[k], escrowKey[k], "none")
    <3>1. Tidy(side[k], ship[k].status, ship[k].escrow, ship[k].finalized, loc[k],
               touched[k], escrowKey[k], copy[k])
      BY <1>2, ZenonT(40)
    <3> QED BY <3>1, ZenonT(40) DEF Tidy
  <2>4. IInv'
    BY <1>1, <1>7, ArchiveStep, ZenonT(40) DEF ArchiveNext, Expire
  <2>5. ~ k > counter
    BY <1>3, <2>1, ZenonT(40)
  <2> QED BY <1>4, <1>6, <1>7, <2>1, <2>2, <2>3, <2>4, <2>5, ZenonT(40)
<1>8. CASE ExpireHidden(k)
  <2>1. loc[k] = "persistent" /\ UNCHANGED vars
    BY <1>8, Zenon DEF ExpireHidden
  <2>2. UNCHANGED <<counter, ship, loc, escrowKey, recoveries>>
    BY <2>1, Zenon DEF vars
  <2>3. Tidy(side[k], ship[k].status, ship[k].escrow, ship[k].finalized, loc[k],
             touched[k], escrowKey[k], "none")
    BY <1>2, TidyExpire, ZenonT(40)
  <2>4. IInv'
    BY <1>1, <2>1, NextIInv, ZenonT(40)
  <2>5. ~ k > counter
    BY <1>3, <2>1, ZenonT(40)
  <2> QED BY <1>4, <1>6, <1>8, <2>2, <2>3, <2>4, <2>5, ZenonT(40)
<1> QED BY <1>5, <1>7, <1>8, ZenonT(40)

\* Every step keeps the invariant and accounts for itself.
LEMMA EveryStep ==
    ASSUME RInv, [RecNext]_allVars
    PROVE  RInv' /\ Accounted
<1>1. Ready /\ IInv
  BY RStart, Zenon
<1>2. CASE UNCHANGED allVars
  <2>1. UNCHANGED vars /\ UNCHANGED recVars
    BY <1>2, Zenon DEF allVars
  <2>2. IInv'
    BY <1>1, <2>1, NextIInv, ZenonT(40)
  <2>3. UNCHANGED <<counter, ship, loc, escrowKey, recoveries, side, copy, totals, touched>>
    BY <2>1, ZenonT(40) DEF vars, recVars
  <2> QED BY <2>2, <2>3, StillStep, ZenonT(40)
<1>3. CASE (Tick \/ pause \/ unpause) /\ NoSideEffect
  <2>1. IInv'
    BY <1>1, <1>3, ClockStep, ZenonT(40)
  <2>2. UNCHANGED <<counter, ship, loc, escrowKey, recoveries, side, copy, totals, touched>>
    BY <1>3, ZenonT(40) DEF Tick, pause, unpause, NoSideEffect, recVars
  <2> QED BY <2>1, <2>2, StillStep, Zenon
<1>4. CASE \E c \in Companies :
              \/ \E input \in ShipmentInput : Create(c, input)
              \/ \E n \in 1 .. BatchLimit : \E inputs \in [1 .. n -> ShipmentInput] :
                     CreateBatch(c, inputs)
  BY <1>4, CreationStep, ZenonT(40)
<1>5. ASSUME NEW k \in Ids,
             \/ \E c \in Companies, a \in Amounts : Deposit(c, k, a)
             \/ \E s \in ShipmentStatus : UpdateStatus(k, s)
             \/ \E c \in Carriers : Handoff(k, c)
             \/ CriticalBreach(k) \/ ConfirmDelivery(k)
             \/ \E p \in Percents : ConfirmPartialDelivery(k, p)
             \/ \E m \in Milestones : RecordMilestone(k, m)
             \/ \E M \in SUBSET Milestones : RecordMilestonesBatch(k, M)
             \/ \E m \in Milestones : ReleaseMilestone(k, m)
             \/ ReleaseEscrow(k) \/ SetMetadata(k)
      PROVE  RInv' /\ Accounted
  BY <1>1, <1>5, DeliverShifts, ShiftStep, ZenonT(40)
<1>6. ASSUME NEW k \in Ids,
             \/ CancelShipment(k) \/ ForceCancel(k) \/ Refund(k) \/ CheckDeadline(k)
             \/ RaiseDispute(k)
             \/ \E res \in DisputeResolution : ResolveDispute(k, res)
             \/ \E s \in Terminal : ExecuteForce(k, s)
      PROVE  RInv' /\ Accounted
  BY <1>1, <1>6, SettleShifts, ShiftStep, ZenonT(40)
<1>7. ASSUME NEW k \in Ids,
             \/ ReportBreach(k) \/ RecordCheckpoint(k) \/ append_note_hash(k)
             \/ add_dispute_evidence_hash(k) \/ report_geofence_event(k) \/ update_eta(k)
      PROVE  RInv' /\ Accounted
  BY <1>1, <1>7, AsideShifts, ShiftStep, ZenonT(40)
<1>8. ASSUME NEW k \in Ids, Archive(k) \/ Expire(k) \/ ExpireHidden(k)
      PROVE  RInv' /\ Accounted
  BY <1>8, StoreStep, ZenonT(40)
<1> QED BY <1>2, <1>3, <1>4, <1>5, <1>6, <1>7, <1>8, ZenonT(40) DEF RecNext

(***************************************************************************)
(* The theorems.                                                           *)
(***************************************************************************)

\* Before the first call there is nothing to record.
LEMMA RInitially == RecInit => RInv
<1> SUFFICES ASSUME RecInit PROVE RInv
  BY Zenon
<1>1. /\ Init /\ side = [i \in Ids |-> NoRecord] /\ copy = [i \in Ids |-> "none"]
      /\ totals = [volume |-> 0, disputes |-> 0] /\ touched = [i \in Ids |-> FALSE]
  BY DEF RecInit
<1>2. NoRecord \in Side /\ NoRecord.settlements = << >> /\ PaidIn(<< >>) = 0
  BY Opening, Zenon
<1>3. /\ side \in [Ids -> Side] /\ touched \in [Ids -> BOOLEAN]
      /\ copy \in [Ids -> {"none", "open", "final"}]
      /\ \A i \in Ids : side[i] = NoRecord /\ copy[i] = "none"
  BY <1>1, <1>2, ZenonT(40)
<1>4. totals \in Totals /\ totals.volume = 0
  BY <1>1, Zenon DEF Totals
<1>5. \A i \in Ids : recoveries[i] = 0 /\ loc[i] = "absent"
  BY <1>1, ZenonT(40) DEF Init
<1>6. \A i \in Ids : TidyAt(i)
  <2>1. ASSUME NEW i \in Ids PROVE TidyAt(i)
    <3>1. Tidy(NoRecord, ship[i].status, ship[i].escrow, ship[i].finalized, "absent",
               touched[i], escrowKey[i], "none")
      BY TidyOpening, ZenonT(40)
    <3> QED BY <1>3, <1>5, <3>1, ZenonT(40) DEF TidyAt
  <2> QED BY <2>1, Zenon
<1>7. SumTo(Gross, MaxShipments) = 0
  <2>1. Gross = [i \in 1 .. MaxShipments |-> 0]
    BY <1>2, <1>3, ZenonT(40) DEF Gross, Ids
  <2>2. MaxShipments \in Nat
    BY ConstantTypes, Zenon
  <2> QED BY <2>1, <2>2, SumOfZeros, ZenonT(40)
<1>8. IInv
  BY <1>1, InitIInv, ZenonT(40)
<1> QED BY <1>3, <1>4, <1>5, <1>6, <1>7, <1>8, ZenonT(40) DEF RInv

\* The invariant holds in every reachable state.
THEOREM RecordsInvariant == RecSpec => []RInv
<1>1. RInv /\ [RecNext]_allVars => RInv'
  BY EveryStep, ZenonT(40)
<1> QED BY <1>1, RInitially, PTL DEF RecSpec

\* An indexer that follows the events knows the status and the escrow of every
\* shipment that is in persistent storage or was archived and not written to
\* since, and can verify what it was told, for every number of shipments and
\* events (events.rs, generate_idempotency_key; lib.rs, verify_delivery_proof).
THEOREM IndexerAlwaysAgrees == RecSpec => []IndexerAgrees
<1>1. ASSUME RInv, NEW i \in Ids, loc[i] # "absent", ~ touched[i]
      PROVE  /\ side[i].seen.status = ship[i].status
             /\ side[i].seen.escrow = ship[i].escrow
             /\ loc[i] = "persistent" =>
                   /\ side[i].seen.proof => verify_delivery_proof(i) /\ assert_delivery_hash(i)
                   /\ \A s \in side[i].seen.hashed \ {"PartiallyDelivered", "Delivered"} :
                          verify_data_hash(i, s) /\ assert_data_hash(i, s)
             /\ \A k \in side[i].keys :
                   k[2] \notin {"geofence_event", "milestone_payment_released"} =>
                      compute_idempotency_key(k[2], k[3]) = k
  <2>1. /\ side[i].seen.status = ship[i].status /\ side[i].seen.escrow = ship[i].escrow
        /\ Named(side[i])
        /\ loc[i] = "persistent" => Listening(side[i])
    BY <1>1, Zenon DEF RInv, TidyAt, Tidy
  <2>2. side[i] \in Side
    BY <1>1, RStart, ZenonT(40)
  <2>3. \A k \in side[i].keys :
           k[2] \notin {"geofence_event", "milestone_payment_released"} =>
              compute_idempotency_key(k[2], k[3]) = k
    BY <2>1, <2>2, NamedKeys, ZenonT(40)
  <2>4. ASSUME loc[i] = "persistent"
        PROVE  /\ side[i].seen.proof => verify_delivery_proof(i) /\ assert_delivery_hash(i)
               /\ \A s \in side[i].seen.hashed \ {"PartiallyDelivered", "Delivered"} :
                      verify_data_hash(i, s) /\ assert_data_hash(i, s)
    <3>1. /\ side[i].seen.proof => side[i].confirmed
          /\ side[i].seen.hashed \ {"PartiallyDelivered", "Delivered"} \subseteq side[i].hashes
      BY <2>1, <2>4, ZenonT(40) DEF Listening, Unstored
    <3> QED BY <1>1, <3>1, ZenonT(40) DEF verify_delivery_proof, assert_delivery_hash,
                 verify_data_hash, assert_data_hash, get_status_hash, get_shipment
  <2> QED BY <2>1, <2>3, <2>4, ZenonT(40)
<1>2. RInv => IndexerAgrees
  BY <1>1, ZenonT(40) DEF IndexerAgrees
<1> QED BY <1>2, RecordsInvariant, PTL

\* The health check reports a shipment only for one of the three reasons, and
\* notes and evidence are where their counts say, for every number of shipments,
\* notes and pieces of evidence (storage.rs, purge_shipment_notes; lib.rs,
\* archive_shipment).
THEOREM ArchivesLeaveNothing == RecSpec => []ArchiveLeavesNothing
<1>1. ASSUME RInv, NEW i \in Ids, loc[i] # "absent", ~ touched[i]
      PROVE  \/ ~ \/ ship[i].escrow # escrowKey[i]
                  \/ /\ ~ has_persistent_shipment(i)
                     /\ ship[i].status \notin Terminal \cup {"Disputed"}
                  \/ ~ has_persistent_shipment(i) /\ has_orphaned_counters(i)
             \/ loc[i] = "archived" /\ ship[i].escrow > 0
  <2>1. /\ loc[i] = "archived" => ship[i].status \in Terminal
        /\ loc[i] = "persistent" => escrowKey[i] = ship[i].escrow
        /\ loc[i] = "archived" => Bare(side[i]) /\ escrowKey[i] = 0
        /\ recoveries[i] = 0
    BY <1>1, ZenonT(40) DEF RInv, TidyAt, Tidy
  <2>2. ship[i].escrow \in Nat /\ loc[i] \in {"persistent", "archived"}
    BY <1>1, RStart, SideStart, ZenonT(40) DEF Locations
  <2>3. CASE loc[i] = "persistent"
    BY <2>1, <2>3, ZenonT(40) DEF has_persistent_shipment
  <2>4. CASE loc[i] = "archived"
    <3>1. ~ has_orphaned_counters(i)
      BY <2>1, <2>4, SMTT(20), SMTT(40) DEF Bare, has_orphaned_counters, has_event_count_entry,
           has_confirmation_hash_entry, has_last_status_update_entry,
           get_recovery_record_count
    <3> QED BY <2>1, <2>2, <2>4, <3>1, SMTT(20), SMTT(40)
  <2> QED BY <2>2, <2>3, <2>4, ZenonT(40)
<1>2. ASSUME RInv, NEW i \in storage_inconsistencies(1, MaxShipments)
      PROVE  loc[i] = "absent" \/ (loc[i] = "archived" /\ ship[i].escrow > 0) \/ touched[i]
  <2>1. counter \in 0 .. MaxShipments /\ MaxShipments \in Nat
    BY <1>2, RStart, ConstantTypes, ZenonT(40) DEF TypeOK
  <2>2. /\ i \in Ids
        /\ loc[i] # "absent" =>
              \/ ship[i].escrow # escrowKey[i]
              \/ /\ ~ has_persistent_shipment(i)
                 /\ ship[i].status \notin Terminal \cup {"Disputed"}
              \/ ~ has_persistent_shipment(i) /\ has_orphaned_counters(i)
    BY <1>2, <2>1, SMTT(20), SMTT(40) DEF storage_inconsistencies, get_shipment, Ids
  <2> QED BY <1>1, <1>2, <2>2, ZenonT(40)
<1>3. ASSUME RInv, NEW i \in Ids, loc[i] = "archived", ~ touched[i]
      PROVE  side[i].hashes \subseteq {"PartiallyRefunded"}
  BY <1>3, ZenonT(40) DEF RInv, TidyAt, Tidy, Bare
<1>4. ASSUME RInv, NEW i \in Ids, get_shipment(i)
      PROVE  /\ {k \in 0 .. MaxNotes : get_note_hash(i, k)} = 0 .. get_note_count(i) - 1
             /\ {k \in 0 .. MaxEvidence : get_dispute_evidence_hash(i, k)} =
                    0 .. get_dispute_evidence_count(i) - 1
  <2>1. Indexed(side[i])
    BY <1>4, Zenon DEF RInv, TidyAt, Tidy
  <2>2. side[i].notes \in Nat /\ side[i].evidence \in Nat
    BY <1>4, RStart, SideFields, ZenonT(40)
  <2>3. MaxNotes \in Nat /\ MaxEvidence \in Nat
    BY JournalAssumption, ZenonT(40)
  <2>4. {k \in 0 .. MaxNotes : get_note_hash(i, k)} = 0 .. get_note_count(i) - 1
    BY <1>4, <2>1, <2>2, <2>3, SMTT(20), SMTT(40) DEF Indexed, get_note_hash, get_note_count
  <2>5. {k \in 0 .. MaxEvidence : get_dispute_evidence_hash(i, k)} =
            0 .. get_dispute_evidence_count(i) - 1
    BY <1>4, <2>1, <2>2, <2>3, SMTT(20), SMTT(40) DEF Indexed, get_dispute_evidence_hash,
                                  get_dispute_evidence_count
  <2> QED BY <2>4, <2>5, ZenonT(40)
<1>5. RInv => ArchiveLeavesNothing
  BY <1>2, <1>3, <1>4, ZenonT(40) DEF ArchiveLeavesNothing
<1> QED BY <1>5, RecordsInvariant, PTL

\* A settled shipment is in one storage only, however often shipments are
\* archived, written back and archived again (lib.rs, get_restore_diagnostics).
THEOREM SettledAlwaysInOnePlace == RecSpec => []SettledInOnePlace
<1>1. ASSUME RInv, NEW i \in Ids,
             get_restore_diagnostics(i) = "InconsistentDualPresence"
      PROVE  copy[i] = "open"
  <2>1. loc[i] = "persistent" /\ copy[i] # "none"
    BY <1>1, Zenon DEF get_restore_diagnostics, has_persistent_shipment, is_shipment_archived
  <2>2. copy[i] \in {"none", "open", "final"}
    BY <1>1, RStart, ZenonT(40)
  <2>3. copy[i] = "final" => loc[i] = "archived"
    BY <1>1, Zenon DEF RInv, TidyAt, Tidy
  <2> QED BY <2>1, <2>2, <2>3, ZenonT(40)
<1>2. RInv => SettledInOnePlace
  BY <1>1, ZenonT(40) DEF SettledInOnePlace
<1> QED BY <1>2, RecordsInvariant, PTL

\* A call that changes the status or the escrow of a shipment raises its nonce,
\* but for confirm_delivery without escrow, and none lowers it (lib.rs,
\* integration_nonce).
THEOREM NonceAlwaysAdvances == RecSpec => NonceAdvances
<1>1. ASSUME RInv, [RecNext]_allVars
      PROVE  [\A i \in Ids : loc[i] # "absent" /\ loc'[i] # "absent" =>
                /\ get_integration_nonce(i)' >= get_integration_nonce(i)
                /\ \/ ship'[i].status # ship[i].status
                   \/ ship'[i].escrow # ship[i].escrow
                   => \/ get_integration_nonce(i)' > get_integration_nonce(i)
                      \/ ship'[i].status = "Delivered" /\ ship[i].escrow = 0
             ]_allVars
  BY <1>1, EveryStep, ZenonT(40) DEF Accounted, Moved, get_integration_nonce
<1> QED BY <1>1, RecordsInvariant, PTL DEF RecSpec, NonceAdvances

\* The sums of Records are those of the settlements.
LEMMA ExplainedIs ==
    ASSUME NEW i \in Ids
    PROVE  /\ Explained(i) = Explains(side[i].settlements)
           /\ Explained(i)' = Explains(side'[i].settlements)
           /\ Deposited(i)' = PaidIn(side'[i].settlements)
<1>1. Explained(i) = Explains(side[i].settlements)
  BY SMT, SMTT(40) DEF Explained, Explains, WorthOf, get_settlement_count, get_settlement
<1>2. Explained(i)' = Explains(side'[i].settlements)
  BY SMT, SMTT(40) DEF Explained, Explains, WorthOf, get_settlement_count, get_settlement
<1>3. Deposited(i)' = PaidIn(side'[i].settlements)
  BY DEF Deposited, PaidIn, GrossOf, get_settlement_count, get_settlement
<1> QED BY <1>1, <1>2, <1>3, ZenonT(40)

\* The settlement records explain every change of the escrow, and the totals of
\* get_analytics add up to them, for every number of shipments and settlements
\* (lib.rs, internal_release_escrow, get_analytics; storage.rs).
THEOREM SettlementsAlwaysExplain == RecSpec => SettlementsExplain
<1> DEFINE Body ==
       /\ get_analytics.total_escrow_volume' =
             SumTo([i \in Ids |-> Deposited(i)'], MaxShipments)
       /\ get_analytics.total_disputes' - get_analytics.total_disputes =
             Cardinality({i \in Ids : /\ ship[i].status # "Disputed"
                                      /\ ship'[i].status = "Disputed"})
       /\ \A i \in Ids : loc'[i] # "absent" =>
          /\ get_active_settlement(i)' = 0
          /\ \A k \in 1 .. get_settlement_count(i)' :
                 /\ get_settlement(i, k)' \in SettlementRecord
                 /\ get_settlement(i, k)'.state = "Completed"
          /\ loc[i] # "absent" =>
                 \/ ship'[i].escrow - ship[i].escrow = Explained(i)' - Explained(i)
                 \/ /\ get_settlement_count(i)' = get_settlement_count(i)
                    /\ ship'[i].escrow = 0
                    /\ ship'[i].status \in Terminal
<1>1. ASSUME RInv, [RecNext]_allVars
      PROVE  Body
  <2>1. RInv' /\ Accounted
    BY <1>1, EveryStep, ZenonT(40)
  <2>2. totals'.volume = SumTo(Gross', MaxShipments) /\ side' \in [Ids -> Side]
    BY <2>1, ZenonT(40) DEF RInv
  <2>3. Gross' = [i \in Ids |-> Deposited(i)']
    BY ExplainedIs, ZenonT(40) DEF Gross
  <2>4. get_analytics.total_escrow_volume' = totals'.volume
    BY Zenon DEF get_analytics
  <2>5. get_analytics.total_disputes' - get_analytics.total_disputes =
             Cardinality({i \in Ids : /\ ship[i].status # "Disputed"
                                      /\ ship'[i].status = "Disputed"})
    BY <2>1, Zenon DEF get_analytics, Accounted, NewDisputes
  <2>6. ASSUME NEW i \in Ids
        PROVE  /\ get_active_settlement(i)' = 0
               /\ \A k \in 1 .. get_settlement_count(i)' :
                      /\ get_settlement(i, k)' \in SettlementRecord
                      /\ get_settlement(i, k)'.state = "Completed"
    <3>1. Booked(side'[i])
      BY <2>1, ZenonT(40) DEF RInv, TidyAt, Tidy, Booked
    <3>2. side'[i].settlements \in Seq(SettlementRecord)
      BY <2>2, SideFields, ZenonT(40)
    <3>3. \A k \in 1 .. Len(side'[i].settlements) :
             side'[i].settlements[k] \in SettlementRecord
      BY <3>2, SMTT(20), SMTT(40)
    <3> QED BY <3>1, <3>3, ZenonT(40) DEF Booked, get_active_settlement, get_settlement_count,
                                     get_settlement
  <2>7. ASSUME NEW i \in Ids, loc[i] # "absent", loc'[i] # "absent"
        PROVE  \/ ship'[i].escrow - ship[i].escrow = Explained(i)' - Explained(i)
               \/ /\ get_settlement_count(i)' = get_settlement_count(i)
                  /\ ship'[i].escrow = 0
                  /\ ship'[i].status \in Terminal
    <3>1. Moved(i)
      BY <2>1, <2>7, ZenonT(40) DEF Accounted
    <3> QED BY <3>1, ExplainedIs, ZenonT(40) DEF Moved, get_settlement_count
  <2> QED BY <2>2, <2>3, <2>4, <2>5, <2>6, <2>7, ZenonT(40)
<1>2. RInv /\ [RecNext]_allVars => [Body]_allVars
  BY <1>1, ZenonT(40)
<1> QED BY <1>2, RecordsInvariant, PTL DEF RecSpec, SettlementsExplain

\* A finalized shipment is never changed again, only its archived copy expires
\* (lib.rs, require_not_finalized).
THEOREM FinalizedStaysFrozen == RecSpec => FinalizedFrozen
<1>1. ASSUME RInv, [RecNext]_allVars
      PROVE  [\A i \in Ids : ship[i].finalized =>
                 ship'[i] = ship[i] \/ loc'[i] = "absent"]_vars
  BY <1>1, EveryStep, Zenon DEF Accounted
<1> QED BY <1>1, RecordsInvariant, PTL DEF RecSpec, FinalizedFrozen

=============================================================================
