--------------------------- MODULE ShipmentProofs ---------------------------
(***************************************************************************)
(* Proofs about Shipment, for every number of shipments, companies,        *)
(* carriers, amounts, schedules and limits, and for the whole of Next:     *)
(* lifecycle, archival and recovery.                                       *)
(*                                                                         *)
(* The first half says what an entry point does in the terms the theorems  *)
(* need: every call on one shipment is a Call, every creation Creates, and *)
(* every recovery Recovers.  The theorems then argue about these shapes,   *)
(* not about thirty handlers.                                              *)
(***************************************************************************)
EXTENDS Shipment, SumsProofs

\* A record that is finalized has reached its end and owes nothing.
AtRest(r) == r.finalized => r.status \in Terminal /\ r.escrow = 0

\* The company's active count still has this shipment in it: update_status to
\* Delivered does not take it out, the release of the escrow does not either.
Counted(r) ==
    r.status \notin Terminal \/ (r.status = "Delivered" /\ r.escrow > 0)

\* Delivered and paid out, but open for changes.  Only a recovery gets there.
Reopened(r) == r.status = "Delivered" /\ r.escrow = 0 /\ ~ r.finalized

\* MilestonesPaidFor for one record, and the schedule is one that creation
\* accepts.
MilestonesFit(r) ==
    /\ validate_milestones(r.schedule)
    /\ r.total - r.escrow >= Earned(r)
    /\ r.paid = r.completed
    /\ r.paid \subseteq Symbols(r.schedule)

\* What a handler may rely on.
Sound == TypeOK /\ \A i \in Ids : AtRest(ship[i]) /\ MilestonesFit(ship[i])

\* What most calls leave alone.
SameTerms(r, new) ==
    /\ new.sender = r.sender /\ new.schedule = r.schedule
    /\ new.total = r.total /\ new.paid = r.paid /\ new.completed = r.completed

(***************************************************************************)
(* The facets of a call that writes the record new of shipment k.          *)
(***************************************************************************)
Mirrored(k, new) ==
    \/ escrowKey' = [escrowKey EXCEPT ![k] = new.escrow]
    \/ escrowKey' = escrowKey /\ new.escrow = ship[k].escrow

StatusFollows(k, new) ==
    \/ MoveStatusCount(ship[k].status, new.status)
    \/ statusCount' = statusCount /\ new.status = ship[k].status

ActiveFollows(k, new) ==
    \/ /\ activeCount' = activeCount
       /\ Counted(new) => Counted(ship[k]) \/ Reopened(ship[k])
    \/ /\ decrement_active_shipment_count(ship[k].sender)
       /\ Counted(ship[k]) /\ ~ Counted(new)

Deposits(k, new) ==
    \E from \in Companies, net \in Nat, fee \in Nat :
        /\ ship[k].escrow = 0 /\ new.escrow = net
        /\ net + fee > 0 /\ net + fee <= bal[from]
        /\ bal' = [bal EXCEPT ![from] = @ - net - fee,
                              ![Contract] = @ + net,
                              ![Treasury] = @ + fee]

Pays(k, new) ==
    \E to \in Companies \cup Carriers, amount \in Nat :
        /\ amount <= ship[k].escrow /\ new.escrow = ship[k].escrow - amount
        /\ invoke_token_transfer(Contract, to, amount)

Keeps(k, new) == bal' = bal /\ new.escrow \in {0, ship[k].escrow}

MoneyFollows(k, new) == Deposits(k, new) \/ Pays(k, new) \/ Keeps(k, new)

\* Cancelled is left by no call, Delivered only for Disputed.
EndsWell(r, new) ==
    /\ r.status = "Cancelled" => new.status = "Cancelled"
    /\ r.status = "Delivered" => new.status \in {"Delivered", "Disputed"}
    /\ Reopened(new) => Reopened(r)

Writes(k, new) ==
    /\ new \in Record /\ loc[k] # "absent"
    /\ set_shipment(k, new)
    /\ UNCHANGED <<now, paused, counter>>

Call(k, new) ==
    /\ Writes(k, new)
    /\ recoveries' = recoveries
    /\ ~ ship[k].finalized /\ AtRest(new)
    /\ new.sender = ship[k].sender
    /\ Mirrored(k, new)
    /\ StatusFollows(k, new)
    /\ ActiveFollows(k, new)
    /\ MoneyFollows(k, new)
    /\ EndsWell(ship[k], new)
    /\ MilestonesFit(ship[k]) => MilestonesFit(new)

\* The ids a creation of n shipments uses.
Fresh(n) == counter + 1 .. counter + n

Creates(c, n) ==
    /\ Fresh(n) \subseteq Ids
    /\ ship' \in [Ids -> Record] /\ loc' \in [Ids -> Locations]
    /\ escrowKey' \in [Ids -> Nat]
    /\ \A i \in Fresh(n) :
          /\ loc'[i] = "persistent" /\ escrowKey'[i] = 0
          /\ ship'[i].sender = c /\ ship'[i].status = "Created"
          /\ ship'[i].escrow = 0 /\ ~ ship'[i].finalized
          /\ MilestonesFit(ship'[i])
    /\ \A i \in Ids \ Fresh(n) :
          ship'[i] = ship[i] /\ loc'[i] = loc[i] /\ escrowKey'[i] = escrowKey[i]
    /\ counter' = counter + n
    /\ statusCount' = [statusCount EXCEPT !["Created"] = @ + n]
    /\ activeCount' = [activeCount EXCEPT ![c] = @ + n]
    /\ UNCHANGED <<now, paused, bal, recoveries>>

\* A recovery, seen as a write.
Recovers(k, new) ==
    /\ Writes(k, new)
    /\ AtRest(new)
    /\ recoveries[k] < MaxRecoveries
    /\ recoveries' = [recoveries EXCEPT ![k] = @ + 1]
    /\ UNCHANGED <<escrowKey, statusCount, activeCount>>
    /\ Keeps(k, new)
    /\ MilestonesFit(ship[k]) => MilestonesFit(new)

(***************************************************************************)
(* Records.                                                                *)
(***************************************************************************)

\* The bounds and limits are numbers.
LEMMA ConstantTypes ==
    /\ MaxShipments \in Nat /\ MaxRecoveries \in Nat /\ BatchLimit \in Nat
    /\ InitialBalance \in Nat /\ Deadlines \subseteq Nat
BY ConstantsAssumption, Zenon

\* The fields of a record.
LEMMA Fields ==
    ASSUME NEW r \in Record
    PROVE  /\ r.sender \in Companies /\ r.carrier \in Carriers
           /\ r.status \in ShipmentStatus
           /\ r.escrow \in Nat /\ r.total \in Nat
           /\ r.schedule \in Schedules
           /\ r.paid \in SUBSET Milestones /\ r.completed \in SUBSET Milestones
           /\ r.finalized \in BOOLEAN
BY DEF Record

\* A schedule is a sequence of pairs of a symbol and a percentage.
LEMMA ScheduleType ==
    ASSUME NEW s \in Schedules
    PROVE  /\ s \in Seq(Milestones \X Nat)
           /\ DOMAIN s = 1 .. Len(s) /\ Len(s) \in Nat
           /\ \A j \in DOMAIN s : s[j][1] \in Milestones /\ s[j][2] \in Nat
<1>1. s \in Seq(Milestones \X Nat)
  BY ConstantsAssumption
<1>2. DOMAIN s = 1 .. Len(s) /\ Len(s) \in Nat
  BY <1>1, SMT, SMTT(40)
<1>3. ASSUME NEW j \in DOMAIN s
      PROVE  s[j][1] \in Milestones /\ s[j][2] \in Nat
  <2>1. s[j] \in Milestones \X Nat
    BY <1>1, <1>3, SMT, SMTT(40)
  <2> QED BY <2>1
<1> QED BY <1>1, <1>2, <1>3

\* The blank record is a record.
LEMMA BlankRecord ==
    Blank \in Record /\ Blank.escrow = 0 /\ ~ Blank.finalized
<1>1. /\ (CHOOSE c \in Companies : TRUE) \in Companies
      /\ (CHOOSE k \in Carriers : TRUE) \in Carriers
  BY ConstantsAssumption
<1>2. <<>> \in Schedules
  BY ConstantsAssumption
<1> QED BY <1>1, <1>2 DEF Blank, Record, ShipmentStatus

\* Giving a record another status.
LEMMA StatusRecord ==
    ASSUME NEW r \in Record, NEW s \in ShipmentStatus, NEW new,
           new = [r EXCEPT !.status = s]
    PROVE  /\ new \in Record /\ SameTerms(r, new)
           /\ new.status = s /\ new.escrow = r.escrow
           /\ new.finalized = r.finalized
BY DEF Record, SameTerms

\* Finalizing changes the flag only, and only at the end.
LEMMA FinalizeRecord ==
    ASSUME NEW r \in Record, NEW new, new = finalize_if_settled(r)
    PROVE  /\ new \in Record /\ SameTerms(r, new)
           /\ new.status = r.status /\ new.escrow = r.escrow
           /\ new.finalized <=>
                  r.finalized \/ (r.status \in Terminal /\ r.escrow = 0)
<1>1. CASE r.status \in Terminal /\ r.escrow = 0
  <2>1. new = [r EXCEPT !.finalized = TRUE]
    BY <1>1 DEF finalize_if_settled
  <2>2. /\ new \in Record /\ SameTerms(r, new)
        /\ new.status = r.status /\ new.escrow = r.escrow /\ new.finalized = TRUE
    BY <2>1, Zenon DEF Record, SameTerms
  <2> QED BY <1>1, <2>2, Zenon
<1>2. CASE ~ (r.status \in Terminal /\ r.escrow = 0)
  <2>1. new = r
    BY <1>2 DEF finalize_if_settled
  <2> QED BY <1>2, <2>1, Zenon DEF SameTerms
<1> QED BY <1>1, <1>2

\* The terms stay the same over two edits.
LEMMA SameTermsTransitive ==
    ASSUME NEW r, NEW s, NEW t, SameTerms(r, s), SameTerms(s, t)
    PROVE  SameTerms(r, t)
BY Zenon DEF SameTerms

\* A release takes between 0 and everything from the escrow.
LEMMA ReleasedRecord ==
    ASSUME NEW r \in Record, NEW amount \in Nat
    PROVE  /\ ActualRelease(r, amount) \in Nat
           /\ ActualRelease(r, amount) <= r.escrow
           /\ Released(r, amount) \in Record
           /\ SameTerms(r, Released(r, amount))
           /\ Released(r, amount).escrow = r.escrow - ActualRelease(r, amount)
           /\ Released(r, amount).status = r.status
           /\ Released(r, amount).finalized = r.finalized
<1>1. r.escrow \in Nat
  BY Fields
<1>2. ActualRelease(r, amount) \in Nat /\ ActualRelease(r, amount) <= r.escrow
  BY <1>1, SMT, SMTT(40) DEF ActualRelease
<1>3. r.escrow - ActualRelease(r, amount) \in Nat
  BY <1>1, <1>2, SMT, SMTT(40)
<1> QED BY <1>2, <1>3 DEF Released, Record, SameTerms

(***************************************************************************)
(* What milestones are worth.                                              *)
(***************************************************************************)

\* The share of each milestone of the schedule s that is in S, of a total of t,
\* and what they are worth together.
Shares(t, s, S) ==
    [j \in DOMAIN s |-> IF s[j][1] \in S THEN checked_mul_div(t, s[j][2], 100) ELSE 0]
Worth(t, s, S) == SumTo(Shares(t, s, S), Len(s))

\* The product of two natural numbers, divided, is a natural number, and no
\* more than the exact share.
LEMMA MulDivNat ==
    ASSUME NEW a \in Nat, NEW b \in Nat
    PROVE  /\ checked_mul_div(a, b, 100) \in Nat
           /\ 100 * checked_mul_div(a, b, 100) <= a * b
<1> DEFINE p == a * b
<1>1. p \in Nat
  BY SMT, SMTT(40)
<1> HIDE DEF p
<1>2. p \div 100 \in Nat /\ 100 * (p \div 100) <= p
  BY <1>1, SMT, SMTT(40)
<1> QED BY <1>2 DEF checked_mul_div, p

\* Shares are natural numbers.
LEMMA SharesType ==
    ASSUME NEW t \in Nat, NEW s \in Schedules, NEW S
    PROVE  /\ Shares(t, s, S) \in [1 .. Len(s) -> Nat]
           /\ Shares(t, s, S) \in [1 .. Len(s) -> Int]
           /\ Len(s) \in Nat /\ Worth(t, s, S) \in Nat
<1>1. /\ DOMAIN s = 1 .. Len(s) /\ Len(s) \in Nat
      /\ \A j \in DOMAIN s : s[j][2] \in Nat
  BY ScheduleType
<1>2. \A j \in DOMAIN s : checked_mul_div(t, s[j][2], 100) \in Nat
  BY <1>1, MulDivNat, Zenon
<1>3. Shares(t, s, S) \in [1 .. Len(s) -> Nat]
  BY <1>1, <1>2 DEF Shares
<1>4. Shares(t, s, S) \in [1 .. Len(s) -> Int]
  BY <1>3, SMT, SMTT(40)
<1>5. Worth(t, s, S) \in Nat
  BY <1>1, <1>3, SumNat DEF Worth
<1> QED BY <1>1, <1>3, <1>4, <1>5

\* No milestones are worth nothing.
LEMMA WorthNothing ==
    ASSUME NEW t \in Nat, NEW s \in Schedules
    PROVE  Worth(t, s, {}) = 0
<1>1. DOMAIN s = 1 .. Len(s) /\ Len(s) \in Nat
  BY ScheduleType
<1>2. Shares(t, s, {}) = [j \in 1 .. Len(s) |-> 0]
  BY <1>1 DEF Shares
<1> QED BY <1>1, <1>2, SumOfZeros DEF Worth

\* Milestones that have nothing in common are worth what each set is.
LEMMA WorthAdd ==
    ASSUME NEW t \in Nat, NEW s \in Schedules, NEW S, NEW M, S \cap M = {}
    PROVE  Worth(t, s, S \cup M) = Worth(t, s, S) + Worth(t, s, M)
<1> DEFINE f == Shares(t, s, S)
           g == Shares(t, s, M)
           h == Shares(t, s, S \cup M)
<1>1. /\ f \in [1 .. Len(s) -> Int] /\ g \in [1 .. Len(s) -> Int]
      /\ h \in [1 .. Len(s) -> Int] /\ Len(s) \in Nat
  BY SharesType
<1>2. ASSUME NEW j \in 1 .. Len(s) PROVE h[j] = f[j] + g[j]
  <2>1. j \in DOMAIN s /\ s[j][2] \in Nat
    BY ScheduleType
  <2>2. checked_mul_div(t, s[j][2], 100) \in Nat
    BY <2>1, MulDivNat, Zenon
  <2> QED BY <2>1, <2>2, SMT, SMTT(40) DEF Shares
<1> HIDE DEF f, g, h
<1>3. SumTo(h, Len(s)) = SumTo(f, Len(s)) + SumTo(g, Len(s))
  BY <1>1, <1>2, SumAdd, Zenon
<1> QED BY <1>3 DEF Worth, f, g, h

\* One milestone is worth its percentage of the total: creation accepts a
\* symbol only once in a schedule.
LEMMA WorthOne ==
    ASSUME NEW t \in Nat, NEW s \in Schedules, validate_milestones(s),
           NEW m \in Symbols(s)
    PROVE  Worth(t, s, {m}) = checked_mul_div(t, s[PositionOf(s, m)][2], 100)
<1> DEFINE k == PositionOf(s, m)
           f == Shares(t, s, {m})
<1>1. k \in DOMAIN s /\ s[k][1] = m
  BY DEF Symbols, PositionOf
<1>2. DOMAIN s = 1 .. Len(s) /\ f \in [1 .. Len(s) -> Int] /\ Len(s) \in Nat
  BY ScheduleType, SharesType
<1> HIDE DEF k
<1>3. s # <<>>
  BY <1>1, SMT, SMTT(40)
<1>4. \A j \in DOMAIN s : j # k => s[j][1] # m
  BY <1>1, <1>3, ZenonT(40) DEF validate_milestones
<1>5. \A j \in 1 .. Len(s) : j # k => f[j] = 0
  BY <1>2, <1>4 DEF Shares
<1>6. f[k] = checked_mul_div(t, s[k][2], 100)
  BY <1>1 DEF Shares
<1> HIDE DEF f
<1>7. SumTo(f, Len(s)) = f[k]
  BY <1>1, <1>2, <1>5, SumOneTerm, ZenonT(40)
<1> QED BY <1>6, <1>7 DEF Worth, f, k

\* Milestones are worth at most the total, because the percentages of a
\* schedule add up to 100 and shares are rounded down.
LEMMA WorthAtMost ==
    ASSUME NEW t \in Nat, NEW s \in Schedules, validate_milestones(s), NEW S
    PROVE  Worth(t, s, S) <= t
<1> DEFINE f == Shares(t, s, S)
           g == [j \in DOMAIN s |-> IF s[j][1] \in Milestones THEN s[j][2] ELSE 0]
           n == Len(s)
<1>1. /\ DOMAIN s = 1 .. n /\ n \in Nat /\ f \in [1 .. n -> Nat]
      /\ \A j \in 1 .. n : s[j][1] \in Milestones /\ s[j][2] \in Nat
      /\ Worth(t, s, S) \in Nat
  BY ScheduleType, SharesType
<1>2. CASE s = <<>>
  <2>1. n = 0
    BY <1>2
  <2>2. f = [j \in 1 .. n |-> 0]
    BY <1>1, <2>1, SMT, SMTT(40)
  <2>3. Worth(t, s, S) = 0
    BY <1>1, <2>2, SumOfZeros DEF Worth
  <2> QED BY <2>3, SMT, SMTT(40)
<1>3. CASE s # <<>>
  <2>1. g \in [1 .. n -> Nat]
    BY <1>1
  <2>2. ASSUME NEW j \in 1 .. n PROVE 100 * f[j] <= t * g[j]
    <3>1. /\ 100 * checked_mul_div(t, s[j][2], 100) <= t * s[j][2]
          /\ g[j] = s[j][2] /\ g[j] \in Nat
      BY <1>1, MulDivNat, Zenon
    <3>2. CASE s[j][1] \in S
      BY <1>1, <3>1, <3>2 DEF Shares
    <3>3. CASE s[j][1] \notin S
      <4>1. f[j] = 0
        BY <1>1, <3>3 DEF Shares
      <4>2. t * g[j] \in Nat
        BY <3>1, SMT, SMTT(40)
      <4> QED BY <4>1, <4>2, SMT, SMTT(40)
    <3> QED BY <3>2, <3>3
  <2>3. SumTo(g, n) = 100
    BY <1>3 DEF validate_milestones, PercentOf
  <2> HIDE DEF f, g, n
  <2>4. 100 * SumTo(f, n) <= t * SumTo(g, n)
    BY <1>1, <2>1, <2>2, SumShare, Zenon
  <2>5. 100 * SumTo(f, n) <= t * 100
    BY <2>3, <2>4
  <2>6. Worth(t, s, S) = SumTo(f, n)
    BY DEF Worth, f, n
  <2> QED BY <1>1, <2>5, <2>6, SMT, SMTT(40)
<1> QED BY <1>2, <1>3

\* What is earned is what the paid milestones are worth.
LEMMA EarnedIsWorth ==
    ASSUME NEW r
    PROVE  Earned(r) = Worth(r.total, r.schedule, r.paid)
BY DEF Earned, Worth, Shares

\* A call that keeps the terms and raises no escrow keeps MilestonesFit.
LEMMA TermsFit ==
    ASSUME NEW r \in Record, NEW new \in Record, SameTerms(r, new),
           new.escrow <= r.escrow, MilestonesFit(r)
    PROVE  MilestonesFit(new)
<1>1. Earned(new) = Earned(r)
  BY EarnedIsWorth DEF SameTerms
<1>2. Earned(r) \in Nat
  BY EarnedIsWorth, Fields, SharesType
<1>3. r.total \in Nat /\ r.escrow \in Nat /\ new.escrow \in Nat
  BY Fields
<1>4. new.total - new.escrow >= Earned(new)
  BY <1>1, <1>2, <1>3, SMT, SMTT(40) DEF MilestonesFit, SameTerms
<1> QED BY <1>4 DEF MilestonesFit, SameTerms

\* A record without paid milestones fits, whatever its total.
LEMMA NonePaidFits ==
    ASSUME NEW r \in Record, validate_milestones(r.schedule), r.escrow <= r.total,
           r.paid = {}, r.completed = {}
    PROVE  MilestonesFit(r)
<1>1. r.total \in Nat /\ r.escrow \in Nat /\ r.schedule \in Schedules
  BY Fields
<1>2. Earned(r) = 0
  BY <1>1, EarnedIsWorth, WorthNothing
<1> QED BY <1>1, <1>2, SMT, SMTT(40) DEF MilestonesFit

\* Marking milestones as paid fits if their worth leaves the escrow, or all
\* that was left in it.
LEMMA MarkedFits ==
    ASSUME NEW r \in Record, NEW new \in Record, MilestonesFit(r),
           NEW M \in SUBSET (Symbols(r.schedule) \ r.paid),
           new.schedule = r.schedule, new.total = r.total,
           new.paid = r.paid \cup M, new.completed = r.completed \cup M,
           new.escrow = 0 \/ new.escrow = r.escrow - Worth(r.total, r.schedule, M)
    PROVE  MilestonesFit(new)
<1> DEFINE t == r.total
           s == r.schedule
<1>1. /\ t \in Nat /\ s \in Schedules /\ r.escrow \in Nat /\ new.escrow \in Nat
      /\ validate_milestones(s)
  BY Fields DEF MilestonesFit
<1>2. Earned(new) = Earned(r) + Worth(t, s, M)
  <2>1. r.paid \cap M = {}
    OBVIOUS
  <2> QED BY <1>1, <2>1, EarnedIsWorth, WorthAdd, SMT, SMTT(40)
<1>3. Earned(r) \in Nat /\ Worth(t, s, M) \in Nat /\ Earned(new) <= t
  <2>1. Earned(r) \in Nat /\ Worth(t, s, M) \in Nat
    BY <1>1, EarnedIsWorth, SharesType
  <2>2. Earned(new) <= t
    BY <1>1, EarnedIsWorth, WorthAtMost
  <2> QED BY <2>1, <2>2, Zenon
<1>4. t - r.escrow >= Earned(r)
  BY DEF MilestonesFit
<1>5. new.total - new.escrow >= Earned(new)
  <2> HIDE DEF s, t
  <2>1. new.total = t /\ (new.escrow = 0 \/ new.escrow = r.escrow - Worth(t, s, M))
    BY DEF t, s
  <2> QED BY <1>1, <1>2, <1>3, <1>4, <2>1, SMT, SMTT(40)
<1> QED BY <1>1, <1>5 DEF MilestonesFit

(***************************************************************************)
(* From a handler to a Call.                                               *)
(***************************************************************************)

\* What every handler starts from.
LEMMA Start ==
    ASSUME Sound, NEW k \in Ids
    PROVE  /\ ship[k] \in Record /\ AtRest(ship[k])
           /\ ship[k].sender \in Companies
           /\ ship[k].carrier \in Carriers
           /\ ship[k].status \in ShipmentStatus
           /\ ship[k].escrow \in Nat /\ ship[k].total \in Nat
BY Fields DEF Sound, TypeOK

\* The fee is no more than the amount.
LEMMA FeeBound ==
    ASSUME NEW amount \in Nat
    PROVE  /\ PlatformFee(amount) \in Nat
           /\ PlatformFee(amount) <= amount
<1>1. FeeBps \in Nat /\ FeeBps <= 1000
  BY FeesAssumption, SMT, SMTT(40)
<1> DEFINE p == amount * FeeBps
<1>2. p \in Nat /\ p <= amount * 1000
  BY <1>1, SMT, SMTT(40)
<1> HIDE DEF p
<1>3. p \div 10000 \in Nat /\ p \div 10000 <= amount
  BY <1>2, SMT, SMTT(40)
<1> QED BY <1>3, SMT, SMTT(40) DEF PlatformFee, checked_mul_div, p

\* Marking milestones as paid changes the two lists only.
LEMMA MarkedRecord ==
    ASSUME NEW r \in Record, NEW M \in SUBSET Milestones, NEW new,
           new = MarkPaid(r, M)
    PROVE  /\ new \in Record
           /\ new.sender = r.sender /\ new.carrier = r.carrier
           /\ new.status = r.status
           /\ new.escrow = r.escrow /\ new.total = r.total
           /\ new.schedule = r.schedule /\ new.finalized = r.finalized
           /\ new.paid = r.paid \cup M /\ new.completed = r.completed \cup M
BY Zenon DEF MarkPaid, Record

\* What a milestone of the schedule releases is a natural number, and its
\* worth unless it is the whole escrow.
LEMMA MilestoneReleaseWorth ==
    ASSUME NEW r \in Record, NEW m \in Symbols(r.schedule), NEW done
    PROVE  /\ MilestoneRelease(r, m, done) \in Nat
           /\ MilestonesFit(r) =>
                 \/ MilestoneRelease(r, m, done) = r.escrow
                 \/ MilestoneRelease(r, m, done) = Worth(r.total, r.schedule, {m})
<1>1. r.schedule \in Schedules /\ r.total \in Nat /\ r.escrow \in Nat
  BY Fields
<1>2. PositionOf(r.schedule, m) \in DOMAIN r.schedule
  BY DEF Symbols, PositionOf
<1>3. r.schedule[PositionOf(r.schedule, m)][2] \in Nat
  BY <1>1, <1>2, ScheduleType
<1>4. checked_mul_div(r.total, r.schedule[PositionOf(r.schedule, m)][2], 100) \in Nat
  BY <1>1, <1>3, MulDivNat, Zenon
<1>5. MilestonesFit(r) =>
        Worth(r.total, r.schedule, {m}) =
            checked_mul_div(r.total, r.schedule[PositionOf(r.schedule, m)][2], 100)
  BY <1>1, WorthOne, SMT, SMTT(40) DEF MilestonesFit
<1> QED BY <1>1, <1>4, <1>5 DEF MilestoneRelease

\* A record at its end, with nothing in escrow.
Closed(r, s) == [r EXCEPT !.status = s, !.escrow = 0]

\* A closed record keeps its terms, and all entry points but check_deadline
\* finalize it.
LEMMA ClosedRecord ==
    ASSUME NEW r \in Record, NEW s \in Terminal
    PROVE  /\ Closed(r, s) \in Record /\ SameTerms(r, Closed(r, s))
           /\ Closed(r, s).status = s /\ Closed(r, s).escrow = 0
           /\ finalize_if_settled(Closed(r, s)) \in Record
           /\ SameTerms(r, finalize_if_settled(Closed(r, s)))
           /\ finalize_if_settled(Closed(r, s)).status = s
           /\ finalize_if_settled(Closed(r, s)).escrow = 0
           /\ finalize_if_settled(Closed(r, s)).finalized
<1> DEFINE mid == Closed(r, s)
           new == finalize_if_settled(mid)
<1>1. s \in ShipmentStatus /\ 0 \in Nat
  BY DEF Terminal, ShipmentStatus
<1>2. /\ mid \in Record /\ SameTerms(r, mid)
      /\ mid.status = s /\ mid.escrow = 0
  BY <1>1, Zenon DEF Closed, Record, SameTerms
<1> HIDE DEF mid
<1>3. /\ new \in Record /\ SameTerms(mid, new)
      /\ new.status = s /\ new.escrow = 0 /\ new.finalized
  BY <1>2, FinalizeRecord
<1>4. SameTerms(r, new)
  BY <1>2, <1>3, SameTermsTransitive
<1> QED BY <1>2, <1>3, <1>4 DEF mid

\* Every entry point on one shipment is a Call.
LEMMA EveryCall ==
    ASSUME Sound, NEW k \in Ids, DeliverNext(k) \/ SettleNext(k)
    PROVE  \E new : Call(k, new)
\* A handler that persists the record with its terms unchanged and no more
\* escrow.
<1>PersistCall. ASSUME NEW new \in Record,
                       loc[k] # "absent", ~ ship[k].finalized,
                       persist_shipment(k, new), SameTerms(ship[k], new),
                       new.escrow <= ship[k].escrow,
                       UNCHANGED <<now, paused, counter, recoveries>>,
                       StatusFollows(k, new), ActiveFollows(k, new),
                       Pays(k, new) \/ Keeps(k, new),
                       EndsWell(ship[k], new)
                PROVE  Call(k, new)
  <2> USE <1>PersistCall
  <2>1. ship[k] \in Record
    BY Start, Zenon
  <2>2. MilestonesFit(ship[k]) => MilestonesFit(new)
    BY <2>1, TermsFit, Zenon
  <2>3. AtRest(new) /\ set_shipment(k, new) /\ Mirrored(k, new)
    BY Zenon DEF persist_shipment, validate_shipment_invariants, AtRest, Mirrored
  <2>4. Writes(k, new) /\ recoveries' = recoveries
    BY <2>3 DEF Writes
  <2>5. MoneyFollows(k, new) /\ new.sender = ship[k].sender
    BY Zenon DEF MoneyFollows, SameTerms
  <2> QED BY <2>2, <2>3, <2>4, <2>5, Zenon DEF Call
\* deposit_escrow fills an empty account of a shipment that nothing was paid
\* for: validate_shipment_invariants lets a Created shipment have no paid
\* milestones.
<1>DepositCall. ASSUME NEW from \in Companies, NEW amount \in Amounts,
                       deposit_escrow(from, k, amount)
                PROVE  \E new : Call(k, new)
  <2> USE <1>DepositCall
  <2> DEFINE r == ship[k]
             fee == PlatformFee(amount)
             net == amount - fee
             new == [r EXCEPT !.escrow = net, !.total = net]
  <2>1. amount \in Nat /\ amount > 0 /\ bal \in [Accounts -> Nat]
    BY ConstantsAssumption, SMT, SMTT(40) DEF Sound, TypeOK
  <2>2. fee \in Nat /\ fee <= amount
    BY <2>1, FeeBound, SMT, SMTT(40)
  <2>3. net \in Nat /\ net + fee = amount
    <3> HIDE DEF fee
    <3> QED BY <2>1, <2>2, SMT, SMTT(40)
  <2>4. /\ loc[k] # "absent" /\ ~ r.finalized /\ r.status = "Created" /\ r.escrow = 0
        /\ bal[from] >= amount
        /\ persist_shipment(k, new)
        /\ UNCHANGED <<now, paused, counter, statusCount, activeCount, recoveries>>
    BY SMT, SMTT(40) DEF deposit_escrow, get_shipment
  <2>5. bal' = [bal EXCEPT ![from] = @ - amount,
                           ![Contract] = @ + amount - fee,
                           ![Treasury] = @ + fee]
    BY SMT, SMTT(40) DEF deposit_escrow
  <2> HIDE DEF fee
  <2>6. bal' = [bal EXCEPT ![from] = @ - net - fee,
                           ![Contract] = @ + net,
                           ![Treasury] = @ + fee]
    <3>1. bal[from] \in Nat /\ bal[Contract] \in Nat
      BY <2>1 DEF Accounts
    <3>2. from # Contract
      BY ConstantsAssumption
    <3>3. bal[from] - amount = bal[from] - net - fee
          /\ bal[Contract] + amount - fee = bal[Contract] + net
      BY <2>1, <2>2, <2>3, <3>1, SMT, SMTT(40)
    <3> QED BY <2>5, <3>2, <3>3, Zenon
  <2>7. Deposits(k, new)
    <3>1. new.escrow = net
      BY Start DEF Record
    <3> HIDE DEF net, new
    <3> QED BY <2>1, <2>2, <2>3, <2>4, <2>6, <3>1, Zenon DEF Deposits
  <2> HIDE DEF net
  <2>8. /\ new \in Record /\ new.escrow = net /\ new.total = net
        /\ new.sender = r.sender /\ new.schedule = r.schedule
        /\ new.paid = r.paid /\ new.completed = r.completed
        /\ new.status = "Created" /\ new.finalized = r.finalized
    BY <2>3, <2>4, Start, Zenon DEF Record
  <2> HIDE DEF new
  <2>9. AtRest(new) /\ set_shipment(k, new) /\ Mirrored(k, new) /\ new.paid = {}
    BY <2>4, <2>8, Zenon DEF persist_shipment, validate_shipment_invariants, AtRest, Mirrored
  <2>10. ASSUME MilestonesFit(r) PROVE MilestonesFit(new)
    <3>1. validate_milestones(new.schedule) /\ new.completed = {}
      BY <2>8, <2>9, <2>10, Zenon DEF MilestonesFit
    <3>2. new.escrow <= new.total
      BY <2>3, <2>8, SMTT(20), SMTT(40)
    <3> QED BY <2>8, <2>9, <3>1, <3>2, NonePaidFits, Zenon
  <2>11. /\ StatusFollows(k, new) /\ ActiveFollows(k, new) /\ EndsWell(r, new)
    BY <2>4, <2>8 DEF StatusFollows, ActiveFollows, EndsWell, Counted, Reopened, Terminal
  <2>12. Call(k, new)
    BY <2>4, <2>7, <2>8, <2>9, <2>10, <2>11, Zenon DEF Call, Writes, MoneyFollows
  <2> QED BY <2>12
\* update_status leaves the two ends alone; the escrow and the company's active
\* count are not its business.
<1>UpdateStatusCall. ASSUME NEW s \in ShipmentStatus, update_status(k, s)
                     PROVE  \E new : Call(k, new)
  <2> USE <1>UpdateStatusCall
  <2> DEFINE r == ship[k]
             mid == [r EXCEPT !.status = s]
             new == finalize_if_settled(mid)
  <2>1. /\ loc[k] # "absent" /\ ~ r.finalized /\ is_valid_transition(r.status, s)
        /\ MoveStatusCount(r.status, s) /\ persist_shipment(k, new)
        /\ UNCHANGED <<now, paused, counter, activeCount, bal, recoveries>>
    BY DEF update_status, get_shipment
  <2>2. /\ mid \in Record /\ SameTerms(r, mid)
        /\ mid.status = s /\ mid.escrow = r.escrow /\ mid.finalized = r.finalized
    BY Start, StatusRecord, SMT, SMTT(40)
  <2> HIDE DEF mid
  <2>3. /\ new \in Record /\ SameTerms(r, new) /\ new.status = s
        /\ new.escrow = r.escrow
        /\ new.finalized <=> r.finalized \/ (s \in Terminal /\ r.escrow = 0)
    BY <2>2, FinalizeRecord, SameTermsTransitive
  <2> HIDE DEF new
  <2>4. r.status \notin Terminal
    BY <2>1, Zenon DEF is_valid_transition, Terminal
  <2>5. StatusFollows(k, new) /\ Keeps(k, new) /\ new.escrow <= r.escrow
    BY <2>1, <2>3, Start, SMT, SMTT(40) DEF StatusFollows, Keeps
  <2>6. ActiveFollows(k, new) /\ EndsWell(r, new)
    BY <2>1, <2>3, <2>4, ZenonT(40) DEF ActiveFollows, EndsWell, Counted, Reopened, Terminal
  <2>7. Call(k, new)
    BY <2>1, <2>3, <2>5, <2>6, <1>PersistCall, Zenon
  <2> QED BY <2>7
\* handoff_shipment and set_shipment_metadata keep status and escrow.
<1>HandoffCall. ASSUME \/ \E c \in Carriers : handoff_shipment(k, c)
                       \/ set_shipment_metadata(k)
                PROVE  \E new : Call(k, new)
  <2> USE <1>HandoffCall
  <2> DEFINE r == ship[k]
  <2>1. ASSUME NEW new \in Record, SameTerms(r, new), new.status = r.status,
               new.escrow = r.escrow, new.finalized = r.finalized,
               loc[k] # "absent", ~ r.finalized, persist_shipment(k, new),
               UNCHANGED <<now, paused, counter, statusCount, activeCount, bal,
                           recoveries>>
        PROVE  Call(k, new)
    <3>1. StatusFollows(k, new) /\ Keeps(k, new) /\ new.escrow <= r.escrow
      BY <2>1, Start, SMT, SMTT(40) DEF StatusFollows, Keeps
    <3>2. ActiveFollows(k, new) /\ EndsWell(r, new)
      BY <2>1 DEF ActiveFollows, EndsWell, Counted, Reopened
    <3> QED BY <2>1, <3>1, <3>2, <1>PersistCall, ZenonT(40)
  <2>2. CASE \E c \in Carriers : handoff_shipment(k, c)
    <3>1. PICK c \in Carriers : handoff_shipment(k, c)
      BY <2>2
    <3> DEFINE new == [r EXCEPT !.carrier = c]
    <3>2. /\ loc[k] # "absent" /\ ~ r.finalized /\ persist_shipment(k, new)
          /\ UNCHANGED <<now, paused, counter, statusCount, activeCount, bal,
                         recoveries>>
      BY <3>1 DEF handoff_shipment, get_shipment
    <3>3. /\ new \in Record /\ SameTerms(r, new) /\ new.status = r.status
          /\ new.escrow = r.escrow /\ new.finalized = r.finalized
      BY Start, Zenon DEF Record, SameTerms
    <3> HIDE DEF new
    <3>4. Call(k, new)
      BY <2>1, <3>2, <3>3
    <3> QED BY <3>4
  <2>3. CASE set_shipment_metadata(k)
    <3>1. /\ loc[k] # "absent" /\ ~ r.finalized /\ persist_shipment(k, r)
          /\ UNCHANGED <<now, paused, counter, statusCount, activeCount, bal,
                         recoveries>>
      BY <2>3, Zenon DEF set_shipment_metadata, get_shipment
    <3>2. r \in Record /\ SameTerms(r, r)
      BY Start, Zenon DEF SameTerms
    <3>3. Call(k, r)
      BY <2>1, <3>1, <3>2
    <3> QED BY <3>3, Zenon
  <2> QED BY <2>2, <2>3
\* A dispute, raised by a party or by a Critical breach, reopens a Delivered
\* shipment only while its escrow is there.
<1>DisputeCall. ASSUME raise_dispute(k) \/ report_condition_breach(k)
                PROVE  \E new : Call(k, new)
  <2> USE <1>DisputeCall
  <2> DEFINE r == ship[k]
             new == [r EXCEPT !.status = "Disputed"]
  <2>1. /\ loc[k] # "absent" /\ ~ r.finalized /\ r.status \notin {"Cancelled", "Disputed"}
        /\ MoveStatusCount(r.status, "Disputed") /\ set_shipment(k, new)
        /\ \/ escrowKey' = [escrowKey EXCEPT ![k] = new.escrow]
           \/ escrowKey' = escrowKey
        /\ UNCHANGED <<now, paused, counter, activeCount, bal, recoveries>>
    BY DEF raise_dispute, report_condition_breach, get_shipment, persist_shipment
  <2>2. /\ new \in Record /\ SameTerms(r, new) /\ new.status = "Disputed"
        /\ new.escrow = r.escrow /\ new.finalized = r.finalized
    <3>1. "Disputed" \in ShipmentStatus
      BY Zenon DEF ShipmentStatus
    <3> QED BY <3>1, Start, StatusRecord, SMT, SMTT(40)
  <2> HIDE DEF new
  <2>3. /\ StatusFollows(k, new) /\ Keeps(k, new) /\ new.escrow <= r.escrow
        /\ Mirrored(k, new)
    BY <2>1, <2>2, Start, SMT, SMTT(40) DEF StatusFollows, Keeps, Mirrored
  <2>4. AtRest(new) /\ EndsWell(r, new)
    BY <2>1, <2>2, ZenonT(40) DEF AtRest, EndsWell, Reopened
  <2>5. ActiveFollows(k, new)
    <3>1. Counted(r) \/ Reopened(r)
      BY <2>1, Start, SMTT(20), SMTT(40) DEF Counted, Reopened, Terminal
    <3> QED BY <2>1, <3>1, Zenon DEF ActiveFollows
  <2>6. MilestonesFit(r) => MilestonesFit(new)
    BY <2>2, <2>3, Start, TermsFit, Zenon
  <2>7. new.sender = r.sender
    BY <2>2 DEF SameTerms
  <2>8. Call(k, new)
    BY <2>1, <2>2, <2>3, <2>4, <2>5, <2>6, <2>7, Zenon DEF Call, Writes, MoneyFollows
  <2> QED BY <2>8
\* confirm_delivery pays the whole escrow to the carrier and closes the record.
<1>ConfirmCall. ASSUME confirm_delivery(k)
                PROVE  \E new : Call(k, new)
  <2> USE <1>ConfirmCall
  <2> DEFINE r == ship[k]
             mid == [r EXCEPT !.status = "Delivered"]
             out == Released(mid, r.escrow)
             new == finalize_if_settled(out)
  <2>1. /\ loc[k] # "absent" /\ ~ r.finalized
        /\ is_valid_transition(r.status, "Delivered")
        /\ MoveStatusCount(r.status, "Delivered")
        /\ decrement_active_shipment_count(r.sender)
        /\ invoke_token_transfer(Contract, r.carrier, r.escrow)
        /\ persist_shipment(k, new)
        /\ UNCHANGED <<now, paused, counter, recoveries>>
    BY DEF confirm_delivery, get_shipment
  <2>2. /\ mid \in Record /\ SameTerms(r, mid)
        /\ mid.status = "Delivered" /\ mid.escrow = r.escrow
    <3>1. "Delivered" \in ShipmentStatus
      BY DEF ShipmentStatus
    <3> QED BY <3>1, Start, StatusRecord, SMT, SMTT(40)
  <2> HIDE DEF mid
  <2>3. /\ out \in Record /\ SameTerms(r, out)
        /\ out.status = "Delivered" /\ out.escrow = 0
    <3>1. ActualRelease(mid, r.escrow) = r.escrow /\ r.escrow \in Nat
      BY <2>2, Start DEF ActualRelease
    <3>2. r.escrow - r.escrow = 0
      BY <3>1, SMT, SMTT(40)
    <3>3. /\ out \in Record /\ SameTerms(mid, out) /\ out.status = mid.status
          /\ out.escrow = mid.escrow - r.escrow
      BY <2>2, <3>1, ReleasedRecord, Zenon
    <3>4. SameTerms(r, out)
      BY <2>2, <3>3, SameTermsTransitive, Zenon
    <3> HIDE DEF out
    <3> QED BY <2>2, <3>2, <3>3, <3>4, Zenon
  <2> HIDE DEF out
  <2>4. /\ new \in Record /\ SameTerms(r, new)
        /\ new.status = "Delivered" /\ new.escrow = 0 /\ new.finalized
    BY <2>3, FinalizeRecord, SameTermsTransitive, SMT, SMTT(40) DEF Terminal
  <2> HIDE DEF new
  <2>5. r.status \notin Terminal
    BY <2>1, ZenonT(40) DEF is_valid_transition, Terminal
  <2>6. StatusFollows(k, new) /\ ActiveFollows(k, new) /\ EndsWell(r, new)
    BY <2>1, <2>4, <2>5, SMT, SMTT(40)
       DEF StatusFollows, ActiveFollows, EndsWell, Counted, Reopened, Terminal
  <2>7. Pays(k, new) /\ new.escrow <= r.escrow
    <3> HIDE <1>ConfirmCall
    <3>1. /\ r.escrow \in Nat /\ 0 <= r.escrow /\ r.escrow <= r.escrow
          /\ 0 = r.escrow - r.escrow /\ r.carrier \in Companies \cup Carriers
      BY Start, Fields, SMT, SMTT(40)
    <3> QED BY <2>1, <2>4, <3>1, Zenon DEF Pays
  <2>8. Call(k, new)
    BY <2>1, <2>4, <2>6, <2>7, <1>PersistCall, Zenon
  <2> QED BY <2>8
\* confirm_partial_delivery pays a percentage, at most what the escrow holds,
\* and closes the record exactly when that was the rest of it.
<1>ConfirmPartialCall. ASSUME NEW p \in Percents, confirm_partial_delivery(k, p)
                       PROVE  \E new : Call(k, new)
  <2> USE <1>ConfirmPartialCall
  <2> DEFINE r == ship[k]
             amount == checked_mul_div(r.total, p, 100)
             st == IF (r.total - r.escrow) + amount = r.total
                   THEN "Delivered" ELSE "PartiallyDelivered"
             mid == [r EXCEPT !.status = st]
             out == Released(mid, amount)
             new == finalize_if_settled(out)
  <2>1. /\ loc[k] # "absent" /\ ~ r.finalized
        /\ r.status \in {"InTransit", "AtCheckpoint", "PartiallyDelivered"}
        /\ (r.total - r.escrow) + amount <= r.total
        /\ MoveStatusCount(r.status, st)
        /\ IF st = "Delivered" THEN decrement_active_shipment_count(r.sender)
           ELSE UNCHANGED activeCount
        /\ invoke_token_transfer(Contract, r.carrier, ActualRelease(r, amount))
        /\ persist_shipment(k, new)
        /\ UNCHANGED <<now, paused, counter, recoveries>>
    BY DEF confirm_partial_delivery, get_shipment
  <2>2. amount \in Nat
    <3>1. p \in Nat
      BY ConstantsAssumption, SMT, SMTT(40)
    <3> QED BY <3>1, Start, MulDivNat, Zenon
  <2> HIDE DEF amount
  <2>3. /\ amount <= r.escrow /\ ActualRelease(r, amount) = amount
        /\ st \in ShipmentStatus
        /\ st = "Delivered" => r.escrow - amount = 0
        /\ st \in {"Delivered", "PartiallyDelivered"}
    <3>1. r.total \in Nat /\ r.escrow \in Nat
      BY Start
    <3>2. amount <= r.escrow
      BY <2>1, <2>2, <3>1, SMT, SMTT(40)
    <3>3. (r.total - r.escrow) + amount = r.total => r.escrow - amount = 0
      BY <2>2, <3>1, SMT, SMTT(40)
    <3>4. ActualRelease(r, amount) = amount
      BY <2>2, <3>1, <3>2, SMT, SMTT(40) DEF ActualRelease
    <3>5. st \in ShipmentStatus /\ st \in {"Delivered", "PartiallyDelivered"}
      BY DEF ShipmentStatus
    <3> QED BY <3>2, <3>3, <3>4, <3>5, Zenon
  <2> HIDE DEF st
  <2>4. /\ mid \in Record /\ SameTerms(r, mid)
        /\ mid.status = st /\ mid.escrow = r.escrow /\ mid.finalized = r.finalized
    BY <2>3, Start, StatusRecord, SMT, SMTT(40)
  <2> HIDE DEF mid
  <2>5. /\ out \in Record /\ SameTerms(r, out)
        /\ out.status = st /\ out.escrow = r.escrow - amount
        /\ out.finalized = r.finalized
    <3>1. ActualRelease(mid, amount) = amount
      BY <2>3, <2>4, Zenon DEF ActualRelease
    <3> QED BY <2>2, <2>4, <3>1, ReleasedRecord, SameTermsTransitive, Zenon
  <2> HIDE DEF out
  <2>6. /\ new \in Record /\ SameTerms(r, new)
        /\ new.status = st /\ new.escrow = r.escrow - amount
        /\ st = "Delivered" => new.finalized /\ new.escrow = 0
    BY <2>3, <2>5, FinalizeRecord, SameTermsTransitive, SMT, SMTT(40) DEF Terminal
  <2> HIDE DEF new
  <2>7. StatusFollows(k, new) /\ EndsWell(r, new) /\ ActiveFollows(k, new)
    <3>1. StatusFollows(k, new)
      BY <2>1, <2>6, Zenon DEF StatusFollows
    <3>2. EndsWell(r, new)
      BY <2>1, <2>3, <2>6, Zenon DEF EndsWell, Reopened
    <3>3. Counted(r)
      BY <2>1, Zenon DEF Counted, Terminal
    <3>4. CASE st = "Delivered"
      <4>1. ~ Counted(new)
        BY <2>6, <3>4, SMTT(20), SMTT(40) DEF Counted, Terminal
      <4> QED BY <2>1, <3>1, <3>2, <3>3, <3>4, <4>1, Zenon DEF ActiveFollows
    <3>5. CASE st # "Delivered"
      BY <2>1, <3>1, <3>2, <3>3, <3>5, Zenon DEF ActiveFollows
    <3> QED BY <3>4, <3>5
  <2>8. Pays(k, new)
    BY <2>1, <2>2, <2>3, <2>6, Start, Zenon DEF Pays
  <2>9. new.escrow <= r.escrow
    BY <2>2, <2>6, Start, SMT, SMTT(40)
  <2>10. Call(k, new)
    BY <2>1, <2>6, <2>7, <2>8, <2>9, <1>PersistCall, ZenonT(40)
  <2> QED BY <2>10
\* release_escrow pays what a Delivered shipment still holds.
<1>ReleaseCall. ASSUME release_escrow(k)
                PROVE  \E new : Call(k, new)
  <2> USE <1>ReleaseCall
  <2> DEFINE r == ship[k]
             out == Released(r, r.escrow)
             new == finalize_if_settled(out)
  <2>1. /\ loc[k] # "absent" /\ ~ r.finalized /\ r.status = "Delivered"
        /\ invoke_token_transfer(Contract, r.carrier, r.escrow)
        /\ persist_shipment(k, new)
        /\ UNCHANGED <<now, paused, counter, statusCount, activeCount, recoveries>>
    BY DEF release_escrow, get_shipment
  <2>2. /\ out \in Record /\ SameTerms(r, out)
        /\ out.status = "Delivered" /\ out.escrow = 0
    <3>1. ActualRelease(r, r.escrow) = r.escrow /\ r.escrow \in Nat
      BY Start DEF ActualRelease
    <3>2. r.escrow - r.escrow = 0
      BY <3>1, SMTT(20), SMTT(40)
    <3> QED BY <2>1, <3>1, <3>2, Start, ReleasedRecord, ZenonT(40)
  <2> HIDE DEF out
  <2>3. /\ new \in Record /\ SameTerms(r, new)
        /\ new.status = "Delivered" /\ new.escrow = 0 /\ new.finalized
    BY <2>2, FinalizeRecord, SameTermsTransitive, SMT, SMTT(40) DEF Terminal
  <2> HIDE DEF new
  <2>4. StatusFollows(k, new) /\ ActiveFollows(k, new) /\ EndsWell(r, new)
    BY <2>1, <2>3, SMTT(20), SMTT(40)
       DEF StatusFollows, ActiveFollows, EndsWell, Counted, Reopened, Terminal
  <2>5. Pays(k, new) /\ new.escrow <= r.escrow
    BY <2>1, <2>3, Start, SMTT(20), SMTT(40) DEF Pays
  <2>6. Call(k, new)
    BY <2>1, <2>3, <2>4, <2>5, <1>PersistCall, ZenonT(40)
  <2> QED BY <2>6
\* A milestone payment: internal_release_escrow followed by the write of the
\* record the handler holds, whose milestones M are marked.
<1>MilestoneCall. ASSUME NEW mid \in Record, NEW amount \in Nat,
                         loc[k] # "absent", ~ ship[k].finalized,
                         internal_release_escrow(k, mid, amount),
                         set_shipment(k, finalize_if_settled(Released(mid, amount))),
                         UNCHANGED <<now, paused, counter, statusCount, activeCount, recoveries>>,
                         mid.sender = ship[k].sender, mid.schedule = ship[k].schedule,
                         mid.total = ship[k].total, mid.status = ship[k].status,
                         mid.escrow = ship[k].escrow, mid.finalized = ship[k].finalized,
                         NEW M \in SUBSET (Symbols(ship[k].schedule) \ ship[k].paid),
                         mid.paid = ship[k].paid \cup M,
                         mid.completed = ship[k].completed \cup M,
                         MilestonesFit(ship[k]) =>
                             amount >= mid.escrow \/ amount = Worth(mid.total, mid.schedule, M)
                  PROVE  \E new : Call(k, new)
  <2> USE <1>MilestoneCall
  <2> DEFINE r == ship[k]
             sum == ActualRelease(mid, amount)
             out == Released(mid, amount)
             new == finalize_if_settled(out)
  <2>1. /\ sum \in Nat /\ sum <= r.escrow
        /\ out \in Record /\ SameTerms(mid, out)
        /\ out.escrow = r.escrow - sum
        /\ out.status = r.status /\ out.finalized = r.finalized
    BY ReleasedRecord, ZenonT(40)
  <2>2. /\ invoke_token_transfer(Contract, mid.carrier, sum)
        /\ escrowKey' = IF sum > 0 THEN [escrowKey EXCEPT ![k] = r.escrow - sum]
                        ELSE escrowKey
    BY DEF internal_release_escrow
  <2>3. sum = amount \/ (sum = r.escrow /\ amount > r.escrow)
    BY Zenon DEF ActualRelease
  <2> HIDE DEF out, sum
  <2>4. /\ new \in Record /\ SameTerms(mid, new)
        /\ new.escrow = r.escrow - sum /\ new.status = r.status
        /\ new.finalized <=>
               r.finalized \/ (r.status \in Terminal /\ r.escrow - sum = 0)
    BY <2>1, FinalizeRecord, SameTermsTransitive, ZenonT(40)
  <2>5. set_shipment(k, new)
    BY DEF out
  <2> HIDE DEF new
  <2>6. r.escrow \in Nat /\ new.escrow \in Nat
    BY <2>4, Start, Fields, ZenonT(40)
  <2>7. Mirrored(k, new)
    <3>1. CASE sum > 0
      BY <2>2, <2>4, <3>1, Zenon DEF Mirrored
    <3>2. CASE sum = 0
      <4> HIDE <1>MilestoneCall
      <4>1. new.escrow = r.escrow /\ escrowKey' = escrowKey
        BY <2>2, <2>4, <2>6, <3>2, SMT, SMTT(40)
      <4> QED BY <4>1, Zenon DEF Mirrored
    <3> QED BY <2>1, <3>1, <3>2, SMT, SMTT(40)
  <2>8. Pays(k, new)
    <3>1. mid.carrier \in Companies \cup Carriers
      BY Fields
    <3> QED BY <2>1, <2>2, <2>4, <3>1, ZenonT(40) DEF Pays
  <2>9. AtRest(new)
    BY <2>4, ZenonT(40) DEF AtRest
  <2>10. StatusFollows(k, new)
    BY <2>4, Zenon DEF StatusFollows
  <2>11. ActiveFollows(k, new)
    <3>1. Counted(new) => Counted(r)
      BY <2>1, <2>4, <2>6, SMT, SMTT(40) DEF Counted
    <3> QED BY <3>1, ZenonT(40) DEF ActiveFollows
  <2>12. EndsWell(r, new)
    BY <2>4, Zenon DEF EndsWell, Reopened, Terminal
  <2>13. ASSUME MilestonesFit(r) PROVE MilestonesFit(new)
    <3>1. new.escrow = 0 \/ new.escrow = r.escrow - Worth(r.total, r.schedule, M)
      <4>1. amount >= r.escrow \/ amount = Worth(r.total, r.schedule, M)
        BY <2>13, ZenonT(40)
      <4> HIDE <1>MilestoneCall
      <4> QED BY <2>3, <2>4, <2>6, <4>1, SMT, SMTT(40)
    <3> QED BY <2>4, <2>13, <3>1, Start, MarkedFits, ZenonT(40) DEF SameTerms
  <2>14. new.sender = r.sender
    BY <2>4, Zenon DEF SameTerms
  <2>15. Call(k, new)
    BY <2>4, <2>5, <2>7, <2>8, <2>9, <2>10, <2>11, <2>12, <2>13, <2>14, Zenon
       DEF Call, Writes, MoneyFollows
  <2> QED BY <2>15
\* record_milestone pays the milestone's share, or the rest.
<1>RecordMilestoneCall. ASSUME NEW m \in Milestones, record_milestone(k, m)
                        PROVE  \E new : Call(k, new)
  <2> USE <1>RecordMilestoneCall
  <2> DEFINE r == ship[k]
             mid == MarkPaid(r, {m})
             amount == MilestoneRelease(r, m, r.paid)
  <2>1. /\ loc[k] # "absent" /\ ~ r.finalized
        /\ m \in Symbols(r.schedule) /\ m \notin r.paid
        /\ internal_release_escrow(k, mid, amount)
        /\ set_shipment(k, finalize_if_settled(Released(mid, amount)))
        /\ UNCHANGED <<now, paused, counter, statusCount, activeCount, recoveries>>
    BY Zenon DEF record_milestone, get_shipment
  <2>2. r \in Record /\ r.escrow \in Nat
    BY Start
  <2>3. /\ amount \in Nat
        /\ MilestonesFit(r) =>
               amount = r.escrow \/ amount = Worth(r.total, r.schedule, {m})
    BY <2>1, <2>2, MilestoneReleaseWorth, Zenon
  <2>4. /\ mid \in Record /\ mid.sender = r.sender /\ mid.status = r.status
        /\ mid.escrow = r.escrow /\ mid.total = r.total
        /\ mid.schedule = r.schedule /\ mid.finalized = r.finalized
        /\ mid.paid = r.paid \cup {m} /\ mid.completed = r.completed \cup {m}
    BY <2>2, MarkedRecord, SMTT(20), SMTT(40)
  <2> HIDE DEF mid, amount
  <2>5. MilestonesFit(r) => amount >= mid.escrow
                              \/ amount = Worth(mid.total, mid.schedule, {m})
    BY <2>2, <2>3, <2>4, SMT, SMTT(40)
  <2>6. {m} \in SUBSET (Symbols(r.schedule) \ r.paid)
    BY <2>1, Zenon
  <2> QED BY <2>1, <2>3, <2>4, <2>5, <2>6, <1>MilestoneCall, Zenon
\* record_milestones_batch pays the shares of all of them.
<1>RecordBatchCall. ASSUME NEW M \in SUBSET Milestones,
                           record_milestones_batch(k, M)
                    PROVE  \E new : Call(k, new)
  <2> USE <1>RecordBatchCall
  <2> DEFINE r == ship[k]
             mid == MarkPaid(r, M)
             amount == Worth(r.total, r.schedule, M)
  <2>1. /\ loc[k] # "absent" /\ ~ r.finalized
        /\ M \in SUBSET (Symbols(r.schedule) \ r.paid)
        /\ internal_release_escrow(k, mid, amount)
        /\ set_shipment(k, finalize_if_settled(Released(mid, amount)))
        /\ UNCHANGED <<now, paused, counter, statusCount, activeCount, recoveries>>
    BY Zenon DEF record_milestones_batch, get_shipment, Worth, Shares
  <2>2. r \in Record /\ r.total \in Nat /\ r.schedule \in Schedules
    BY Start, Fields, Zenon
  <2>3. amount \in Nat
    BY <2>2, SharesType, Zenon
  <2>4. /\ mid \in Record /\ mid.sender = r.sender /\ mid.status = r.status
        /\ mid.escrow = r.escrow /\ mid.total = r.total
        /\ mid.schedule = r.schedule /\ mid.finalized = r.finalized
        /\ mid.paid = r.paid \cup M /\ mid.completed = r.completed \cup M
    BY <2>2, MarkedRecord, SMTT(20), SMTT(40)
  <2> HIDE DEF mid
  <2>5. amount = Worth(mid.total, mid.schedule, M)
    BY <2>4
  <2> HIDE DEF amount
  <2> QED BY <2>1, <2>3, <2>4, <2>5, <1>MilestoneCall, Zenon
\* release_milestone_payment marks the milestone only if it pays something.
<1>ReleaseMilestoneCall. ASSUME NEW m \in Milestones,
                                release_milestone_payment(k, m)
                         PROVE  \E new : Call(k, new)
  <2> USE <1>ReleaseMilestoneCall
  <2> DEFINE r == ship[k]
             amount == MilestoneRelease(r, m, r.completed)
             mid == IF amount > 0 THEN MarkPaid(r, {m}) ELSE r
             M == IF amount > 0 THEN {m} ELSE {}
  <2>1. /\ loc[k] # "absent" /\ ~ r.finalized
        /\ m \in Symbols(r.schedule) /\ m \notin r.completed
        /\ internal_release_escrow(k, mid, amount)
        /\ set_shipment(k, finalize_if_settled(Released(mid, amount)))
        /\ UNCHANGED <<now, paused, counter, statusCount, activeCount, recoveries>>
    BY Zenon DEF release_milestone_payment, get_shipment
  <2>2. r \in Record /\ r.escrow \in Nat /\ r.total \in Nat /\ r.schedule \in Schedules
    BY Start, Fields
  <2>3. /\ amount \in Nat
        /\ MilestonesFit(r) =>
               amount = r.escrow \/ amount = Worth(r.total, r.schedule, {m})
    BY <2>1, <2>2, MilestoneReleaseWorth, Zenon
  <2> HIDE DEF amount
  <2>4. /\ mid \in Record /\ mid.sender = r.sender /\ mid.status = r.status
        /\ mid.escrow = r.escrow /\ mid.total = r.total
        /\ mid.schedule = r.schedule /\ mid.finalized = r.finalized
        /\ mid.paid = r.paid \cup M /\ mid.completed = r.completed \cup M
    <3>1. CASE amount > 0
      BY <2>2, <3>1, MarkedRecord, SMTT(20), SMTT(40)
    <3>2. CASE ~ amount > 0
      BY <2>2, <3>2, ZenonT(40)
    <3> QED BY <3>1, <3>2, ZenonT(40)
  <2>5. MilestonesFit(r) => amount >= mid.escrow
                              \/ amount = Worth(mid.total, mid.schedule, M)
    <3>1. Worth(r.total, r.schedule, {}) = 0
      BY <2>2, WorthNothing, Zenon
    <3>2. CASE amount > 0
      <4>1. M = {m}
        BY <3>2, ZenonT(40)
      <4> HIDE <1>ReleaseMilestoneCall
      <4> HIDE DEF M, mid
      <4> QED BY <2>2, <2>3, <2>4, <4>1, SMT, SMTT(40)
    <3>3. CASE amount = 0
      BY <2>4, <3>1, <3>3, SMT, SMTT(40)
    <3> QED BY <2>3, <3>2, <3>3, SMT, SMTT(40)
  <2>6. M \in SUBSET (Symbols(r.schedule) \ r.paid)
    <3>1. r.paid = r.completed
      BY DEF Sound, MilestonesFit
    <3> QED BY <2>1, <3>1, Zenon
  <2> HIDE DEF mid, M
  <2> QED BY <2>1, <2>3, <2>4, <2>5, <2>6, <1>MilestoneCall, Zenon
\* Settlement: the record is closed, what was in escrow goes to one party or
\* nowhere, and the company's active count goes down if it was counted.
<1>CloseCall. ASSUME NEW new \in Record, NEW s \in Terminal,
                     loc[k] # "absent", ~ ship[k].finalized,
                     SameTerms(ship[k], new), new.status = s, new.escrow = 0,
                     new.finalized \/ s = "Cancelled",
                     persist_shipment(k, new),
                     \/ bal' = bal
                     \/ \E to \in Companies \cup Carriers :
                            invoke_token_transfer(Contract, to, ship[k].escrow),
                     MoveStatusCount(ship[k].status, s),
                     IF ship[k].status # "Cancelled"
                     THEN decrement_active_shipment_count(ship[k].sender)
                     ELSE s = "Cancelled" /\ activeCount' = activeCount,
                     ship[k].status # "Delivered",
                     UNCHANGED <<now, paused, counter, recoveries>>
              PROVE  Call(k, new)
  <2> USE <1>CloseCall
  <2> DEFINE r == ship[k]
  <2>1. StatusFollows(k, new) /\ new.escrow <= r.escrow
    BY Start, SMTT(20), SMTT(40) DEF StatusFollows
  <2>2. Pays(k, new) \/ Keeps(k, new)
    <3>1. r.escrow \in Nat /\ 0 = r.escrow - r.escrow
      BY Start, SMTT(20), SMTT(40)
    <3> QED BY <3>1, SMTT(20), SMTT(40) DEF Pays, Keeps
  <2>3. ~ Counted(new)
    BY SMTT(20), SMTT(40) DEF Counted, Terminal
  <2>4. ActiveFollows(k, new)
    <3>1. CASE r.status = "Cancelled"
      BY <2>3, <3>1, Zenon DEF ActiveFollows
    <3>2. CASE r.status # "Cancelled"
      <4>1. Counted(r)
        BY <3>2 DEF Counted, Terminal
      <4> QED BY <2>3, <3>2, <4>1, ZenonT(40) DEF ActiveFollows
    <3> QED BY <3>1, <3>2, Zenon
  <2>5. EndsWell(r, new)
    <3>1. r.status = "Cancelled" => s = "Cancelled"
      BY Zenon
    <3>2. ~ Reopened(new)
      BY DEF Reopened
    <3> QED BY <3>1, <3>2, Zenon DEF EndsWell
  <2> QED BY <2>1, <2>2, <2>4, <2>5, <1>PersistCall, ZenonT(40)
\* A record that is not at its end is not finalized.
<1>OpenNotFinal. ASSUME ship[k].status \notin Terminal
                 PROVE  ~ ship[k].finalized
  BY <1>OpenNotFinal, Start, Zenon DEF AtRest
\* Cancellations and refunds, with or without the tokens.
<1>CancelCall. ASSUME \/ cancel_shipment(k) \/ force_cancel_shipment(k)
                      \/ refund_escrow(k) \/ check_deadline(k)
               PROVE  \E new : Call(k, new)
  <2> USE <1>CancelCall
  <2> DEFINE r == ship[k]
             mid == Cancelled(r)
             new == finalize_if_settled(mid)
  <2>1. /\ r \in Record /\ r.sender \in Companies \cup Carriers
        /\ "Cancelled" \in Terminal
    BY Start, ZenonT(40) DEF Terminal
  <2>2. /\ mid \in Record /\ SameTerms(r, mid)
        /\ mid.status = "Cancelled" /\ mid.escrow = 0
        /\ new \in Record /\ SameTerms(r, new)
        /\ new.status = "Cancelled" /\ new.escrow = 0
    <3>1. mid = Closed(r, "Cancelled")
      BY DEF Cancelled, Closed
    <3> QED BY <2>1, <3>1, ClosedRecord, SMT, SMTT(40)
  <2>3. CASE cancel_shipment(k)
    <3>1. /\ loc[k] # "absent" /\ ~ r.finalized /\ r.status # "Delivered"
          /\ persist_shipment(k, new) /\ MoveStatusCount(r.status, "Cancelled")
          /\ IF r.status # "Cancelled" THEN decrement_active_shipment_count(r.sender)
             ELSE UNCHANGED activeCount
          /\ UNCHANGED <<now, paused, counter, bal, recoveries>>
      BY <2>3, Zenon DEF cancel_shipment, get_shipment
    <3> HIDE DEF new
    <3>2. Call(k, new)
      BY <2>1, <2>2, <3>1, <1>CloseCall, Zenon
    <3> QED BY <3>2
  <2>4. CASE force_cancel_shipment(k)
    <3>1. /\ loc[k] # "absent" /\ ~ r.finalized /\ r.status \notin Terminal
          /\ invoke_token_transfer(Contract, r.sender, r.escrow)
          /\ persist_shipment(k, new) /\ MoveStatusCount(r.status, "Cancelled")
          /\ decrement_active_shipment_count(r.sender)
          /\ UNCHANGED <<now, paused, counter, recoveries>>
      BY <2>4, Zenon DEF force_cancel_shipment, get_shipment
    <3>2. r.status # "Delivered" /\ r.status # "Cancelled"
      BY <3>1, Zenon DEF Terminal
    <3> HIDE DEF new
    <3>3. Call(k, new)
      BY <2>1, <2>2, <3>1, <3>2, <1>CloseCall, Zenon
    <3> QED BY <3>3
  <2>5. CASE refund_escrow(k)
    <3>1. /\ loc[k] # "absent" /\ ~ r.finalized /\ r.status \in {"Created", "Cancelled"}
          /\ invoke_token_transfer(Contract, r.sender, r.escrow)
          /\ persist_shipment(k, new) /\ MoveStatusCount(r.status, "Cancelled")
          /\ IF r.status # "Cancelled" THEN decrement_active_shipment_count(r.sender)
             ELSE UNCHANGED activeCount
          /\ UNCHANGED <<now, paused, counter, recoveries>>
      BY <2>5, Zenon DEF refund_escrow, get_shipment
    <3>2. r.status # "Delivered"
      BY <3>1, Zenon
    <3> HIDE DEF new
    <3>3. Call(k, new)
      BY <2>1, <2>2, <3>1, <3>2, <1>CloseCall, Zenon
    <3> QED BY <3>3
  <2>6. CASE check_deadline(k)
    <3>1. /\ loc[k] # "absent" /\ r.status \notin {"Delivered", "Disputed", "Cancelled"}
          /\ invoke_token_transfer(Contract, r.sender, r.escrow)
          /\ persist_shipment(k, mid) /\ MoveStatusCount(r.status, "Cancelled")
          /\ decrement_active_shipment_count(r.sender)
          /\ UNCHANGED <<now, paused, counter, recoveries>>
      BY <2>6, ZenonT(40) DEF check_deadline, get_shipment
    <3>2. ~ r.finalized /\ r.status # "Delivered" /\ r.status # "Cancelled"
      BY <3>1, <1>OpenNotFinal, Zenon DEF Terminal
    <3> HIDE DEF mid
    <3>3. Call(k, mid)
      BY <2>1, <2>2, <3>1, <3>2, <1>CloseCall, Zenon
    <3> QED BY <3>3
  <2> QED BY <2>3, <2>4, <2>5, <2>6, Zenon
\* resolve_dispute and the forced settlements of a proposal pay the carrier for
\* a delivery and the company for a cancellation.
<1>ResolveCall. ASSUME \/ \E res \in DisputeResolution : resolve_dispute(k, res)
                       \/ \E s \in Terminal : execute_force(k, s)
                PROVE  \E new : Call(k, new)
  <2> USE <1>ResolveCall
  <2> DEFINE r == ship[k]
             To(s) == IF s = "Delivered" THEN r.carrier ELSE r.sender
  <2>1. PICK s \in Terminal :
          /\ loc[k] # "absent" /\ r.status \notin Terminal
          /\ invoke_token_transfer(Contract, To(s), r.escrow)
          /\ MoveStatusCount(r.status, s)
          /\ decrement_active_shipment_count(r.sender)
          /\ persist_shipment(k, finalize_if_settled(Closed(r, s)))
          /\ UNCHANGED <<now, paused, counter, recoveries>>
    <3>1. CASE \E res \in DisputeResolution : resolve_dispute(k, res)
      <4>1. PICK res \in DisputeResolution : resolve_dispute(k, res)
        BY <3>1
      <4>2. CASE res = "ReleaseToCarrier"
        <5>1. "Delivered" \in Terminal /\ "Disputed" \notin Terminal
          BY DEF Terminal
        <5> QED BY <4>1, <4>2, <5>1, Zenon DEF resolve_dispute, get_shipment, Closed
      <4>3. CASE res # "ReleaseToCarrier"
        <5>1. "Cancelled" \in Terminal /\ "Disputed" \notin Terminal
          BY DEF Terminal
        <5> QED BY <4>1, <4>3, <5>1, Zenon DEF resolve_dispute, get_shipment, Closed
      <4> QED BY <4>2, <4>3, Zenon
    <3>2. CASE \E s \in Terminal : execute_force(k, s)
      BY <3>2, Zenon DEF execute_force, get_shipment, Closed
    <3> QED BY <3>1, <3>2, Zenon
  <2> DEFINE new == finalize_if_settled(Closed(r, s))
  <2>2. /\ new \in Record /\ SameTerms(r, new)
        /\ new.status = s /\ new.escrow = 0 /\ new.finalized
    BY Start, ClosedRecord, Zenon
  <2>3. /\ ~ r.finalized /\ r.status # "Delivered" /\ r.status # "Cancelled"
        /\ To(s) \in Companies \cup Carriers
    BY <2>1, Start, <1>OpenNotFinal, ZenonT(40) DEF Terminal
  <2>4. persist_shipment(k, new)
    BY <2>1
  <2> HIDE DEF new, To
  <2>5. Call(k, new)
    BY <2>1, <2>2, <2>3, <2>4, <1>CloseCall, ZenonT(40)
  <2> QED BY <2>5
<1>1. CASE DeliverNext(k)
  BY <1>1, <1>DepositCall, <1>UpdateStatusCall, <1>HandoffCall, <1>DisputeCall, <1>ConfirmCall,
     <1>ConfirmPartialCall, <1>RecordMilestoneCall, <1>RecordBatchCall,
     <1>ReleaseMilestoneCall, <1>ReleaseCall, ZenonT(40) DEF DeliverNext
<1>2. CASE SettleNext(k)
  BY <1>2, <1>CancelCall, <1>DisputeCall, <1>ResolveCall, Zenon DEF SettleNext
<1> QED BY <1>1, <1>2

(***************************************************************************)
(* Creation and recovery.                                                  *)
(***************************************************************************)

\* Every creation Creates.
LEMMA EveryCreation ==
    ASSUME TypeOK, CreateNext
    PROVE  \E c \in Companies, n \in Nat : Creates(c, n)
\* A new shipment is a record that owes nothing.
<1>NewRecord. ASSUME NEW c \in Companies, NEW input \in ShipmentInput
              PROVE  /\ NewShipment(c, input) \in Record
                     /\ NewShipment(c, input).sender = c
                     /\ NewShipment(c, input).status = "Created"
                     /\ NewShipment(c, input).schedule = input.schedule
                     /\ NewShipment(c, input).escrow = 0 /\ NewShipment(c, input).total = 0
                     /\ NewShipment(c, input).paid = {} /\ NewShipment(c, input).completed = {}
                     /\ ~ NewShipment(c, input).finalized
  <2>1. Deadlines \subseteq Nat
    BY ConstantTypes
  <2>2. /\ input.carrier \in Carriers /\ input.schedule \in Schedules
        /\ input.deadline \in Nat
    BY <2>1, Zenon DEF ShipmentInput
  <2> QED BY <2>2, Zenon DEF NewShipment, Record, ShipmentStatus
\* A new shipment has no milestones paid.
<1>NewFits. ASSUME NEW c \in Companies, NEW input \in ShipmentInput,
                   validate_milestones(input.schedule)
            PROVE  MilestonesFit(NewShipment(c, input))
  <2> USE <1>NewFits
  <2> DEFINE r == NewShipment(c, input)
  <2>1. /\ r \in Record /\ r.schedule = input.schedule /\ r.escrow = 0 /\ r.total = 0
        /\ r.paid = {} /\ r.completed = {}
    BY <1>NewRecord, SMTT(20), SMTT(40)
  <2> HIDE DEF r
  <2>2. r.escrow <= r.total
    BY <2>1, SMT, SMTT(40)
  <2>3. MilestonesFit(r)
    BY <2>1, <2>2, NonePaidFits, Zenon
  <2> QED BY <2>3, Zenon DEF r
\* create_shipment creates one.
<1>CreateOne. ASSUME NEW c \in Companies, NEW input \in ShipmentInput,
                     create_shipment(c, input)
              PROVE  Creates(c, 1)
  <2> USE <1>CreateOne
  <2> DEFINE i == counter + 1
             r == NewShipment(c, input)
  <2>1. /\ counter \in Nat
        /\ ship \in [Ids -> Record] /\ loc \in [Ids -> Locations]
        /\ escrowKey \in [Ids -> Nat]
    <3>1. MaxShipments \in Nat
      BY ConstantTypes, Zenon
    <3> QED BY <3>1, SMT, SMTT(40) DEF TypeOK
  <2>2. /\ i \in Ids /\ persist_shipment(i, r) /\ counter' = i
        /\ statusCount' = [statusCount EXCEPT !["Created"] = @ + 1]
        /\ activeCount' = [activeCount EXCEPT ![c] = @ + 1]
        /\ UNCHANGED <<now, paused, bal, recoveries>>
    BY Zenon DEF create_shipment
  <2>3. /\ r \in Record /\ r.sender = c /\ r.status = "Created" /\ r.escrow = 0
        /\ ~ r.finalized
    BY <1>NewRecord, SMT, SMTT(40)
  <2>4. MilestonesFit(r)
    BY <1>NewFits DEF create_shipment
  <2>5. Fresh(1) = {i}
    BY <2>1, SMT, SMTT(40) DEF Fresh
  <2> HIDE DEF r, i
  <2>6. /\ ship' = [ship EXCEPT ![i] = r] /\ loc' = [loc EXCEPT ![i] = "persistent"]
        /\ escrowKey' = [escrowKey EXCEPT ![i] = 0]
    BY <2>2, <2>3, Zenon DEF persist_shipment, set_shipment
  <2>7. /\ ship' \in [Ids -> Record] /\ loc' \in [Ids -> Locations]
        /\ escrowKey' \in [Ids -> Nat]
        /\ ship'[i] = r /\ loc'[i] = "persistent" /\ escrowKey'[i] = 0
    BY <2>1, <2>2, <2>3, <2>6, Zenon DEF Locations
  <2>8. \A j \in Ids \ {i} :
            ship'[j] = ship[j] /\ loc'[j] = loc[j] /\ escrowKey'[j] = escrowKey[j]
    BY <2>1, <2>6
  <2> QED BY <2>2, <2>3, <2>4, <2>5, <2>7, <2>8, Zenon DEF Creates, i
\* create_shipments_batch creates as many as it is given.
<1>CreateMany. ASSUME NEW c \in Companies, NEW n \in Nat,
                      NEW inputs \in [1 .. n -> ShipmentInput],
                      create_shipments_batch(c, inputs)
               PROVE  Creates(c, n)
  <2> USE <1>CreateMany
  <2> DEFINE R(i) == NewShipment(c, inputs[i - counter])
  <2>1. /\ counter \in Nat
        /\ ship \in [Ids -> Record] /\ loc \in [Ids -> Locations]
        /\ escrowKey \in [Ids -> Nat]
    <3>1. MaxShipments \in Nat
      BY ConstantTypes
    <3> QED BY <3>1, SMT, SMTT(40) DEF TypeOK
  <2>2. Len(inputs) = n
    <3>1. inputs \in Seq(ShipmentInput)
      BY SMT, SMTT(40)
    <3> QED BY <3>1, SMT, SMTT(40)
  <2>3. /\ Fresh(n) \subseteq Ids
        /\ \A j \in 1 .. n : validate_milestones(inputs[j].schedule)
        /\ ship' = [i \in Ids |-> IF i \in Fresh(n) THEN R(i) ELSE ship[i]]
        /\ loc' = [i \in Ids |-> IF i \in Fresh(n) THEN "persistent" ELSE loc[i]]
        /\ escrowKey' = [i \in Ids |-> IF i \in Fresh(n) THEN 0 ELSE escrowKey[i]]
        /\ counter' = counter + n
        /\ statusCount' = [statusCount EXCEPT !["Created"] = @ + n]
        /\ activeCount' = [activeCount EXCEPT ![c] = @ + n]
        /\ UNCHANGED <<now, paused, bal, recoveries>>
    BY <2>2, Zenon DEF create_shipments_batch, Fresh
  <2>4. ASSUME NEW i \in Fresh(n)
        PROVE  /\ R(i) \in Record /\ R(i).sender = c /\ R(i).status = "Created"
               /\ R(i).escrow = 0 /\ ~ R(i).finalized /\ MilestonesFit(R(i))
    <3>1. i - counter \in 1 .. n
      BY <2>1, SMT, SMTT(40) DEF Fresh
    <3>2. inputs[i - counter] \in ShipmentInput
      BY <3>1, Zenon
    <3>3. validate_milestones(inputs[i - counter].schedule)
      BY <2>3, <3>1, Zenon
    <3> QED BY <3>2, <3>3, <1>NewRecord, <1>NewFits, SMT, SMTT(40)
  <2> HIDE DEF R
  <2>5. /\ ship' \in [Ids -> Record] /\ loc' \in [Ids -> Locations]
        /\ escrowKey' \in [Ids -> Nat]
    BY <2>1, <2>3, <2>4, Zenon DEF Locations
  <2>6. \A i \in Fresh(n) : ship'[i] = R(i) /\ loc'[i] = "persistent" /\ escrowKey'[i] = 0
    BY <2>3, Zenon
  <2>7. \A i \in Ids \ Fresh(n) :
            ship'[i] = ship[i] /\ loc'[i] = loc[i] /\ escrowKey'[i] = escrowKey[i]
    BY <2>3
  <2> QED BY <2>3, <2>4, <2>5, <2>6, <2>7, Zenon DEF Creates
<1>1. PICK c \in Companies :
          \/ \E input \in ShipmentInput : create_shipment(c, input)
          \/ \E n \in 1 .. BatchLimit : \E inputs \in [1 .. n -> ShipmentInput] :
                 create_shipments_batch(c, inputs)
  BY DEF CreateNext
<1>2. CASE \E input \in ShipmentInput : create_shipment(c, input)
  BY <1>2, <1>CreateOne
<1>3. CASE \E n \in 1 .. BatchLimit : \E inputs \in [1 .. n -> ShipmentInput] :
               create_shipments_batch(c, inputs)
  <2>1. PICK n \in 1 .. BatchLimit : \E inputs \in [1 .. n -> ShipmentInput] :
               create_shipments_batch(c, inputs)
    BY <1>3
  <2>2. n \in Nat
    BY ConstantTypes, SMT, SMTT(40)
  <2> QED BY <2>1, <2>2, <1>CreateMany
<1> QED BY <1>1, <1>2, <1>3, Zenon

\* Recovery changes status, escrow or flag, never so that a finalized record
\* owes something.
LEMMA EveryRecovery ==
    ASSUME Sound, NEW k \in Ids, RecoveryNext(k)
    PROVE  \E new : Recovers(k, new)
<1> DEFINE r == ship[k]
<1>1. r \in Record /\ AtRest(r) /\ r.escrow \in Nat /\ r.status \in ShipmentStatus
  BY Start
<1>2. ASSUME NEW new \in Record, Rewrite(k, new), AtRest(new), SameTerms(r, new),
             new.escrow = 0 \/ new.escrow = r.escrow
      PROVE  \E x : Recovers(k, x)
  <2>1. /\ loc[k] # "absent" /\ set_shipment(k, new) /\ recoveries[k] < MaxRecoveries
        /\ recoveries' = [recoveries EXCEPT ![k] = @ + 1]
        /\ UNCHANGED <<now, paused, counter, escrowKey, statusCount, activeCount,
                       bal>>
    BY <1>2, Zenon DEF Rewrite, get_shipment
  <2>2. new.escrow <= r.escrow
    BY <1>1, <1>2, SMTT(20), SMTT(40)
  <2>3. MilestonesFit(r) => MilestonesFit(new)
    BY <1>1, <1>2, <2>2, TermsFit
  <2>4. Keeps(k, new)
    BY <1>2, <2>1, Zenon DEF Keeps
  <2>5. Recovers(k, new)
    BY <1>2, <2>1, <2>3, <2>4, Zenon DEF Recovers, Writes
  <2> QED BY <2>5, Zenon
<1>3. CASE \E s \in ShipmentStatus : recover_shipment(k, s)
  <2>1. PICK s \in ShipmentStatus : recover_shipment(k, s)
    BY <1>3
  <2> DEFINE new == [r EXCEPT !.status = s]
  <2>2. is_valid_recovery_transition(r.status, s) /\ Rewrite(k, new)
    BY <2>1 DEF recover_shipment
  <2>3. /\ new \in Record /\ SameTerms(r, new) /\ new.escrow = r.escrow
        /\ new.finalized = r.finalized /\ new.status = s
    BY <1>1, StatusRecord, SMT, SMTT(40)
  <2>4. r.status \in Terminal => s \in Terminal
    BY <2>2 DEF Terminal, is_valid_recovery_transition
  <2> HIDE DEF new
  <2>5. AtRest(new)
    BY <1>1, <2>3, <2>4, ZenonT(40) DEF AtRest
  <2> QED BY <1>2, <2>2, <2>3, <2>5, Zenon
<1>4. CASE unlock_escrow(k)
  <2> DEFINE new == [r EXCEPT !.escrow = 0]
  <2>1. Rewrite(k, new)
    BY <1>4 DEF unlock_escrow
  <2>2. /\ new \in Record /\ SameTerms(r, new) /\ new.escrow = 0
        /\ new.finalized = r.finalized /\ new.status = r.status
    BY <1>1 DEF Record, SameTerms
  <2> HIDE DEF new
  <2>3. AtRest(new)
    BY <1>1, <2>2, Zenon DEF AtRest
  <2> QED BY <1>2, <2>1, <2>2, <2>3
<1>5. CASE clear_finalization(k)
  <2> DEFINE new == [r EXCEPT !.finalized = FALSE]
  <2>1. Rewrite(k, new)
    BY <1>5 DEF clear_finalization
  <2>2. /\ new \in Record /\ SameTerms(r, new) /\ new.escrow = r.escrow
        /\ AtRest(new)
    BY <1>1, Zenon DEF Record, SameTerms, AtRest
  <2> HIDE DEF new
  <2> QED BY <1>2, <2>1, <2>2
<1>6. CASE \E s \in ShipmentStatus : rollback_on_external_failure(k, s)
  <2>1. PICK s \in ShipmentStatus : rollback_on_external_failure(k, s)
    BY <1>6
  <2> DEFINE new == [r EXCEPT !.finalized = FALSE, !.status = s]
  <2>2. Rewrite(k, new)
    BY <2>1 DEF rollback_on_external_failure
  <2>3. /\ new \in Record /\ SameTerms(r, new) /\ new.escrow = r.escrow
        /\ AtRest(new)
    BY <1>1, Zenon DEF Record, SameTerms, AtRest
  <2> HIDE DEF new
  <2> QED BY <1>2, <2>2, <2>3
<1> QED BY <1>3, <1>4, <1>5, <1>6, Zenon DEF RecoveryNext

\* The inductive invariant.  Besides the facts to prove it says where the
\* blank records are: a new shipment takes an id that owes nothing.
IInv ==
    /\ Sound
    /\ Solvent
    /\ \A i \in Ids : loc[i] = "absent" => ship[i] = Blank
    /\ \A i \in Ids : i > counter => loc[i] = "absent"

(***************************************************************************)
(* Money.                                                                  *)
(***************************************************************************)

\* In all three cases one account grows by no more than the balance does.
LEMMA MoneyStep ==
    ASSUME TypeOK, NEW k \in Ids, NEW new \in Record, MoneyFollows(k, new)
    PROVE  /\ bal' \in [Accounts -> Nat]
           /\ new.escrow - ship[k].escrow <= bal'[Contract] - bal[Contract]
\* A transfer out of the contract lowers its balance by the amount.
<1>TransferOut. ASSUME NEW to \in Companies \cup Carriers, NEW amount \in Nat,
                       invoke_token_transfer(Contract, to, amount)
                PROVE  /\ bal' \in [Accounts -> Nat]
                       /\ bal'[Contract] = bal[Contract] - amount
  <2> USE <1>TransferOut
  <2>1. Contract \in Accounts /\ to \in Accounts /\ to # Contract
    BY ConstantsAssumption, Zenon DEF Accounts
  <2>2. bal \in [Accounts -> Nat] /\ bal[Contract] >= amount
    BY DEF TypeOK, invoke_token_transfer
  <2>3. bal[Contract] - amount \in Nat /\ bal[to] + amount \in Nat
    BY <2>1, <2>2, SMT, SMTT(40)
  <2> QED BY <2>1, <2>2, <2>3, Zenon DEF invoke_token_transfer
\* A deposit raises its balance by what is left after the fee.
<1>DepositIn. ASSUME NEW from \in Companies, NEW net \in Nat, NEW fee \in Nat,
                     net + fee <= bal[from],
                     bal' = [bal EXCEPT ![from] = @ - net - fee,
                                        ![Contract] = @ + net,
                                        ![Treasury] = @ + fee]
              PROVE  /\ bal' \in [Accounts -> Nat]
                     /\ bal'[Contract] = bal[Contract] + net
  <2> USE <1>DepositIn
  <2>1. /\ Contract \in Accounts /\ from \in Accounts /\ Treasury \in Accounts
        /\ from # Contract /\ Treasury # Contract
    BY ConstantsAssumption, Zenon DEF Accounts
  <2>2. bal \in [Accounts -> Nat]
    BY DEF TypeOK
  <2>3. bal[from] - net - fee \in Nat
    BY <2>1, <2>2, SMT, SMTT(40)
  <2>4. ASSUME NEW a \in Accounts PROVE bal'[a] \in Nat
    BY <2>1, <2>2, <2>3, SMT, SMTT(40)
  <2>5. bal' = [a \in Accounts |-> bal'[a]]
    BY <2>2, Zenon
  <2>6. bal'[Contract] = bal[Contract] + net
    BY <2>1, <2>2, Zenon
  <2> QED BY <2>4, <2>5, <2>6, Zenon
<1>1. /\ new.escrow \in Nat /\ ship[k].escrow \in Nat
      /\ bal \in [Accounts -> Nat] /\ bal[Contract] \in Nat
  BY Fields, Zenon DEF TypeOK, Accounts
<1>2. CASE Deposits(k, new)
  <2>1. PICK from \in Companies, net \in Nat, fee \in Nat :
           /\ ship[k].escrow = 0 /\ new.escrow = net /\ net + fee <= bal[from]
           /\ bal' = [bal EXCEPT ![from] = @ - net - fee,
                                 ![Contract] = @ + net,
                                 ![Treasury] = @ + fee]
    BY <1>2, Zenon DEF Deposits
  <2>2. bal' \in [Accounts -> Nat] /\ bal'[Contract] = bal[Contract] + net
    BY <2>1, <1>DepositIn, Zenon
  <2> QED BY <1>1, <2>1, <2>2, SMT, SMTT(40)
<1>3. CASE Pays(k, new)
  <2>1. PICK to \in Companies \cup Carriers, amount \in Nat :
           /\ new.escrow = ship[k].escrow - amount
           /\ invoke_token_transfer(Contract, to, amount)
    BY <1>3, Zenon DEF Pays
  <2>2. bal' \in [Accounts -> Nat] /\ bal'[Contract] = bal[Contract] - amount
    BY <2>1, <1>TransferOut, Zenon
  <2> QED BY <1>1, <2>1, <2>2, SMTT(20), SMTT(40)
<1>4. CASE Keeps(k, new)
  BY <1>1, <1>4, SMT, SMTT(40) DEF Keeps
<1> QED BY <1>2, <1>3, <1>4, Zenon DEF MoneyFollows

\* If one account changes by no more than the contract's balance does, the
\* contract stays solvent.
LEMMA SolventStep ==
    ASSUME TypeOK, Solvent, NEW k \in Ids,
           ship' \in [Ids -> Record],
           \A i \in Ids : i # k => ship'[i] = ship[i],
           bal' \in [Accounts -> Nat],
           ship'[k].escrow - ship[k].escrow <= bal'[Contract] - bal[Contract]
    PROVE  Solvent'
<1>1. MaxShipments \in Nat /\ Contract \in Accounts
  BY ConstantsAssumption, Zenon DEF Accounts
<1>2. Owed \in [1 .. MaxShipments -> Int] /\ Owed' \in [1 .. MaxShipments -> Int]
  BY SMT, SMTT(40) DEF Owed, Ids, TypeOK, Record
<1>3. \A i \in 1 .. MaxShipments : i # k => Owed'[i] = Owed[i]
  BY Zenon DEF Owed, Ids
<1>4. Owed[k] = ship[k].escrow /\ Owed'[k] = ship'[k].escrow
  BY DEF Owed
<1>5. k \in 1 .. MaxShipments
  BY DEF Ids
<1> DEFINE f == Owed
           g == Owed'
<1> HIDE DEF f, g
<1>6. SumTo(g, MaxShipments) = SumTo(f, MaxShipments) + g[k] - f[k]
  BY <1>1, <1>2, <1>3, <1>5, SumUpdate, Zenon DEF f, g
<1>7. SumTo(f, MaxShipments) \in Int /\ f[k] \in Int /\ g[k] \in Int
  BY <1>1, <1>2, <1>5, SumToType, Zenon DEF f, g
<1>8. bal[Contract] \in Nat /\ bal'[Contract] \in Nat
  BY <1>1, Zenon DEF TypeOK
<1>9. SumTo(f, MaxShipments) <= bal[Contract]
  BY Zenon DEF Solvent, TotalOwed, f
<1>10. SumTo(g, MaxShipments) <= bal'[Contract]
  BY <1>4, <1>6, <1>7, <1>8, <1>9, SMT, SMTT(40) DEF f, g
<1> QED BY <1>10, Zenon DEF Solvent, TotalOwed, g

\* If no account changes and the balance does not fall, likewise.
LEMMA SolventSame ==
    ASSUME TypeOK, Solvent, \A i \in Ids : ship'[i].escrow = ship[i].escrow,
           bal' = bal
    PROVE  Solvent'
<1>1. Owed' = Owed
  BY Zenon DEF Owed
<1> QED BY <1>1 DEF Solvent, TotalOwed

(***************************************************************************)
(* The invariant.                                                          *)
(***************************************************************************)

\* The blank record fits as well as any.
LEMMA BlankFits == Blank \in Record /\ AtRest(Blank) /\ MilestonesFit(Blank)
<1>1. Blank \in Record /\ AtRest(Blank)
  BY BlankRecord, Zenon DEF AtRest
<1>2. /\ Blank.schedule = <<>> /\ Blank.escrow = 0 /\ Blank.total = 0
      /\ Blank.paid = {} /\ Blank.completed = {}
  BY DEF Blank
<1>3. validate_milestones(Blank.schedule) /\ Blank.escrow <= Blank.total
  BY <1>2, SMT, SMTT(40) DEF validate_milestones
<1> QED BY <1>1, <1>2, <1>3, NonePaidFits

\* The invariant holds before the first call.
LEMMA InitIInv == Init => IInv
<1> SUFFICES ASSUME Init PROVE IInv
  OBVIOUS
<1>1. MaxShipments \in Nat /\ Contract \notin Companies /\ InitialBalance \in Nat
      /\ MaxRecoveries \in Nat
  BY ConstantsAssumption
<1>2. TypeOK
  <2>1. ship \in [Ids -> Record]
    BY BlankRecord DEF Init
  <2>2. bal \in [Accounts -> Nat]
    BY <1>1 DEF Init
  <2>3. paused \in BOOLEAN
    BY Zenon DEF Init
  <2>4. now \in Nat /\ counter \in 0 .. MaxShipments
    BY <1>1, SMT, SMTT(40) DEF Init
  <2>5. recoveries \in [Ids -> 0 .. MaxRecoveries]
    BY <1>1, SMT, SMTT(40) DEF Init
  <2>6. /\ loc \in [Ids -> Locations]
        /\ escrowKey \in [Ids -> Nat]
        /\ statusCount \in [ShipmentStatus -> Nat]
        /\ activeCount \in [Companies -> Nat]
    BY DEF Init, Locations
  <2> QED BY <2>1, <2>2, <2>3, <2>4, <2>5, <2>6, Zenon DEF TypeOK
<1>3. Solvent
  <2>1. Owed = [i \in 1 .. MaxShipments |-> 0]
    BY BlankRecord DEF Init, Owed, Ids
  <2>2. TotalOwed = 0
    BY <1>1, <2>1, SumOfZeros, Zenon DEF TotalOwed
  <2>3. bal[Contract] = 0
    BY <1>1 DEF Init, Accounts
  <2> QED BY <2>2, <2>3, SMT, SMTT(40) DEF Solvent
<1>4. \A i \in Ids : ship[i] = Blank /\ loc[i] = "absent"
  BY DEF Init
<1> QED BY <1>2, <1>3, <1>4, BlankFits, Zenon DEF IInv, Sound

\* What the records of the next state must be.
LEMMA SoundNext ==
    ASSUME TypeOK', \A i \in Ids : AtRest(ship'[i]) /\ MilestonesFit(ship'[i])
    PROVE  Sound'
BY Zenon DEF Sound, AtRest, MilestonesFit, Earned, validate_milestones

\* The clock and the pause flag are in no part of the invariant but the types.
LEMMA ClockStep ==
    ASSUME IInv, Tick \/ pause \/ unpause
    PROVE  IInv'
<1>1. /\ counter' = counter /\ ship' = ship /\ loc' = loc /\ bal' = bal
      /\ escrowKey' = escrowKey /\ statusCount' = statusCount
      /\ activeCount' = activeCount /\ recoveries' = recoveries
  BY Zenon DEF Tick, pause, unpause
<1>2. now' \in Nat
  BY SMT, SMTT(40) DEF Tick, pause, unpause, IInv, Sound, TypeOK
<1>3. paused' \in BOOLEAN
  BY Zenon DEF Tick, pause, unpause, IInv, Sound, TypeOK
<1>4. TypeOK'
  BY <1>1, <1>2, <1>3, Zenon DEF IInv, Sound, TypeOK
<1>5. Solvent'
  BY <1>1, SolventSame, Zenon DEF IInv, Sound
<1>6. \A i \in Ids : AtRest(ship'[i]) /\ MilestonesFit(ship'[i])
  BY <1>1, Zenon DEF IInv, Sound
<1>7. Sound'
  BY <1>4, <1>6, SoundNext
<1> QED BY <1>1, <1>5, <1>7, Zenon DEF IInv

\* The counters stay natural numbers, saturation included.
LEMMA StatusCountStep ==
    ASSUME TypeOK, NEW from \in ShipmentStatus, NEW to \in ShipmentStatus,
           MoveStatusCount(from, to)
    PROVE  statusCount' \in [ShipmentStatus -> Nat]
<1>1. statusCount \in [ShipmentStatus -> Nat]
  BY DEF TypeOK
<1>2. ASSUME NEW s \in ShipmentStatus
      PROVE  statusCount'[s] \in Nat
  BY <1>1, SMT, SMTT(40) DEF MoveStatusCount
<1>3. statusCount' = [s \in ShipmentStatus |-> statusCount'[s]]
  BY <1>1, ZenonT(40) DEF MoveStatusCount
<1> QED BY <1>2, <1>3, Zenon

\* A write of a settled record that fits keeps the invariant if the money adds
\* up.
LEMMA WriteStep ==
    ASSUME IInv, NEW k \in Ids, NEW new, Writes(k, new), AtRest(new),
           MilestonesFit(ship[k]) => MilestonesFit(new),
           MoneyFollows(k, new),
           escrowKey' \in [Ids -> Nat],
           statusCount' \in [ShipmentStatus -> Nat],
           activeCount' \in [Companies -> Nat],
           recoveries' \in [Ids -> 0 .. MaxRecoveries]
    PROVE  IInv'
<1>1. /\ new \in Record /\ loc[k] # "absent"
      /\ ship' = [ship EXCEPT ![k] = new]
      /\ loc' = [loc EXCEPT ![k] = "persistent"]
      /\ UNCHANGED <<now, paused, counter>>
  BY Zenon DEF Writes, set_shipment
<1>2. /\ TypeOK /\ ship \in [Ids -> Record] /\ loc \in [Ids -> Locations]
      /\ now \in Nat /\ paused \in BOOLEAN /\ counter \in 0 .. MaxShipments
  BY Zenon DEF IInv, Sound, TypeOK
<1>3. /\ ship' \in [Ids -> Record] /\ ship'[k] = new
      /\ \A i \in Ids : i # k => ship'[i] = ship[i]
  BY <1>1, <1>2, Zenon
<1>4. /\ loc' \in [Ids -> Locations] /\ loc'[k] = "persistent"
      /\ \A i \in Ids : i # k => loc'[i] = loc[i]
  BY <1>1, <1>2, Zenon DEF Locations
<1>5. /\ bal' \in [Accounts -> Nat]
      /\ ship'[k].escrow - ship[k].escrow <= bal'[Contract] - bal[Contract]
  BY <1>1, <1>2, <1>3, MoneyStep, Zenon
<1>6. TypeOK'
  BY <1>1, <1>2, <1>3, <1>4, <1>5, ZenonT(40) DEF TypeOK
<1>7. Solvent'
  BY <1>2, <1>3, <1>5, SolventStep, Zenon DEF IInv
<1>8. \A i \in Ids : AtRest(ship'[i]) /\ MilestonesFit(ship'[i])
  BY <1>3, Zenon DEF IInv, Sound
<1>9. \A i \in Ids : loc'[i] = "absent" => ship'[i] = Blank
  BY <1>3, <1>4, Zenon DEF IInv
<1>10. \A i \in Ids : i > counter' => loc'[i] = "absent"
  BY <1>1, <1>4, Zenon DEF IInv
<1>11. Sound'
  BY <1>6, <1>8, SoundNext, Zenon
<1> QED BY <1>7, <1>9, <1>10, <1>11, Zenon DEF IInv

\* Every call on a shipment keeps the invariant.
LEMMA CallStep ==
    ASSUME IInv, NEW k \in Ids, NEW new, Call(k, new)
    PROVE  IInv'
<1>1. /\ TypeOK /\ ship[k] \in Record /\ new \in Record
      /\ ship[k].sender \in Companies /\ ship[k].status \in ShipmentStatus
      /\ new.status \in ShipmentStatus /\ new.escrow \in Nat
  BY Start, Fields, Zenon DEF Call, Writes, IInv, Sound
<1>2. escrowKey' \in [Ids -> Nat]
  BY <1>1, Zenon DEF Call, Mirrored, TypeOK
<1>3. statusCount' \in [ShipmentStatus -> Nat]
  BY <1>1, StatusCountStep, Zenon DEF Call, StatusFollows, TypeOK
<1>4. activeCount' \in [Companies -> Nat]
  BY <1>1, SMT, SMTT(40) DEF Call, ActiveFollows, decrement_active_shipment_count, TypeOK
<1>5. recoveries' \in [Ids -> 0 .. MaxRecoveries]
  BY <1>1, Zenon DEF Call, TypeOK
<1> QED BY <1>2, <1>3, <1>4, <1>5, WriteStep, Zenon DEF Call

\* So does every recovery.
LEMMA RecoveryStep ==
    ASSUME IInv, NEW k \in Ids, NEW new, Recovers(k, new)
    PROVE  IInv'
<1>1. TypeOK
  BY DEF IInv, Sound
<1>2. /\ escrowKey' \in [Ids -> Nat]
      /\ statusCount' \in [ShipmentStatus -> Nat]
      /\ activeCount' \in [Companies -> Nat]
  BY <1>1, Zenon DEF Recovers, TypeOK
<1>3. recoveries' \in [Ids -> 0 .. MaxRecoveries]
  <2>1. recoveries \in [Ids -> 0 .. MaxRecoveries] /\ MaxRecoveries \in Nat
    BY <1>1, ConstantTypes, Zenon DEF TypeOK
  <2>2. recoveries[k] + 1 \in 0 .. MaxRecoveries
    BY <2>1, SMT, SMTT(40) DEF Recovers
  <2> QED BY <2>1, <2>2, Zenon DEF Recovers
<1>4. MoneyFollows(k, new)
  BY Zenon DEF Recovers, MoneyFollows
<1> QED BY <1>2, <1>3, <1>4, WriteStep, Zenon DEF Recovers

\* So does every creation: records that owe nothing are written under ids that
\* owed nothing.
LEMMA CreateStep ==
    ASSUME IInv, NEW c \in Companies, NEW n \in Nat, Creates(c, n)
    PROVE  IInv'
<1>1. /\ counter \in Nat /\ MaxShipments \in Nat
      /\ statusCount \in [ShipmentStatus -> Nat]
      /\ activeCount \in [Companies -> Nat]
      /\ counter <= MaxShipments
  <2>1. MaxShipments \in Nat
    BY ConstantTypes
  <2> QED BY <2>1, SMT, SMTT(40) DEF IInv, Sound, TypeOK
<1>2. counter' \in 0 .. MaxShipments
  <2>1. CASE n = 0
    BY <1>1, <2>1, SMTT(20), SMTT(40) DEF Creates
  <2>2. CASE n > 0
    <3>1. counter + n \in Fresh(n)
      BY <1>1, <2>2, SMTT(20), SMTT(40) DEF Fresh
    <3>2. counter + n \in 1 .. MaxShipments
      BY <3>1, Zenon DEF Creates, Ids
    <3> QED BY <3>2, SMT, SMTT(40) DEF Creates
  <2> QED BY <2>1, <2>2, SMTT(20), SMTT(40)
<1>3. activeCount' \in [Companies -> Nat]
  BY <1>1, SMTT(20), SMTT(40) DEF Creates
<1>4. statusCount' \in [ShipmentStatus -> Nat]
  BY <1>1, SMTT(20), SMTT(40) DEF Creates, ShipmentStatus
<1>5. TypeOK'
  BY <1>2, <1>3, <1>4, Zenon DEF Creates, IInv, Sound, TypeOK
<1>6. \A i \in Fresh(n) : i \in Ids /\ i > counter /\ i <= counter'
  BY <1>1, SMTT(20), SMTT(40) DEF Creates, Fresh
<1>7. \A i \in Ids : ship'[i].escrow = ship[i].escrow
  <2>1. \A i \in Fresh(n) : ship[i].escrow = 0 /\ ship'[i].escrow = 0
    BY <1>6, BlankRecord, ZenonT(40) DEF IInv, Creates
  <2> QED BY <2>1, Zenon DEF Creates
<1>8. Solvent'
  BY <1>7, SolventSame, Zenon DEF IInv, Sound, Creates
<1>9. \A i \in Ids : AtRest(ship'[i]) /\ MilestonesFit(ship'[i])
  <2>1. \A i \in Fresh(n) : AtRest(ship'[i]) /\ MilestonesFit(ship'[i])
    BY ZenonT(40) DEF Creates, AtRest
  <2> QED BY <2>1 DEF Creates, IInv, Sound
<1>10. \A i \in Ids : loc'[i] = "absent" => ship'[i] = Blank
  BY ZenonT(40) DEF Creates, IInv
<1>11. \A i \in Ids : i > counter' => loc'[i] = "absent"
  <2>1. ASSUME NEW i \in Ids, i > counter' PROVE i \notin Fresh(n) /\ i > counter
    BY <1>1, <2>1, SMT, SMTT(40) DEF Fresh, Creates, Ids
  <2> QED BY <2>1, Zenon DEF Creates, IInv
<1>12. Sound'
  BY <1>5, <1>9, SoundNext
<1> QED BY <1>8, <1>10, <1>11, <1>12, Zenon DEF IInv

\* Archival moves the record; expiry forgets it.
LEMMA ArchiveStep ==
    ASSUME IInv, NEW k \in Ids, ArchiveNext(k)
    PROVE  IInv'
<1>1. /\ TypeOK /\ ship \in [Ids -> Record] /\ loc \in [Ids -> Locations]
      /\ escrowKey \in [Ids -> Nat] /\ MaxRecoveries \in Nat
      /\ recoveries \in [Ids -> 0 .. MaxRecoveries]
      /\ bal \in [Accounts -> Nat] /\ bal[Contract] \in Nat
  BY ConstantTypes, Zenon DEF IInv, Sound, TypeOK, Accounts
<1>2. CASE archive_shipment(k)
  <2>1. /\ loc[k] = "persistent" /\ loc' = [loc EXCEPT ![k] = "archived"]
        /\ escrowKey' = [escrowKey EXCEPT ![k] = 0]
        /\ recoveries' = [recoveries EXCEPT ![k] = 0]
        /\ UNCHANGED <<now, paused, counter, ship, statusCount, activeCount, bal>>
    BY <1>2, Zenon DEF archive_shipment
  <2>2. /\ loc' \in [Ids -> Locations] /\ loc'[k] = "archived"
        /\ \A i \in Ids : i # k => loc'[i] = loc[i]
    BY <1>1, <2>1, Zenon DEF Locations
  <2>3. escrowKey' \in [Ids -> Nat] /\ recoveries' \in [Ids -> 0 .. MaxRecoveries]
    BY <1>1, <2>1, SMTT(20), SMTT(40)
  <2>4. TypeOK'
    BY <1>1, <2>1, <2>2, <2>3, Zenon DEF TypeOK
  <2>5. Solvent'
    BY <1>1, <2>1, SolventSame, Zenon DEF IInv
  <2>6. \A i \in Ids : loc'[i] = "absent" => loc[i] = "absent"
    BY <2>2, Zenon
  <2>7. \A i \in Ids : i > counter => loc'[i] = "absent"
    BY <2>1, <2>2, Zenon DEF IInv
  <2>8. \A i \in Ids : AtRest(ship'[i]) /\ MilestonesFit(ship'[i])
    BY <2>1, Zenon DEF IInv, Sound
  <2>9. Sound'
    BY <2>4, <2>8, SoundNext, Zenon
  <2> QED BY <2>1, <2>5, <2>6, <2>7, <2>9, Zenon DEF IInv
<1>3. CASE ExpireArchived(k)
  <2>1. /\ loc' = [loc EXCEPT ![k] = "absent"] /\ ship' = [ship EXCEPT ![k] = Blank]
        /\ UNCHANGED <<now, paused, counter, escrowKey, statusCount, activeCount,
                       bal, recoveries>>
    BY <1>3, Zenon DEF ExpireArchived
  <2>2. /\ loc' \in [Ids -> Locations] /\ loc'[k] = "absent"
        /\ \A i \in Ids : i # k => loc'[i] = loc[i]
    BY <1>1, <2>1, Zenon DEF Locations
  <2>3. /\ ship' \in [Ids -> Record] /\ ship'[k] = Blank
        /\ \A i \in Ids : i # k => ship'[i] = ship[i]
    BY <1>1, <2>1, BlankRecord, Zenon
  <2>4. TypeOK'
    BY <1>1, <2>1, <2>2, <2>3, Zenon DEF TypeOK
  <2>5. Solvent'
    <3>1. ship'[k].escrow = 0 /\ ship[k].escrow \in Nat
      BY <1>1, <2>3, BlankRecord, Fields, Zenon
    <3>2. ship'[k].escrow - ship[k].escrow <= bal'[Contract] - bal[Contract]
      BY <1>1, <2>1, <3>1, SMT, SMTT(40)
    <3> QED BY <1>1, <2>1, <2>3, <3>2, SolventStep, Zenon DEF IInv
  <2>6. \A i \in Ids : AtRest(ship'[i]) /\ MilestonesFit(ship'[i])
    BY <2>3, BlankFits, Zenon DEF IInv, Sound
  <2>7. \A i \in Ids : loc'[i] = "absent" => ship'[i] = Blank
    BY <2>2, <2>3, Zenon DEF IInv
  <2>8. \A i \in Ids : i > counter' => loc'[i] = "absent"
    BY <2>1, <2>2, ZenonT(40) DEF IInv
  <2>9. Sound'
    BY <2>4, <2>6, SoundNext
  <2> QED BY <2>5, <2>7, <2>8, <2>9, Zenon DEF IInv
<1> QED BY <1>2, <1>3, Zenon DEF ArchiveNext

\* The invariant is inductive for the entry points of the ordinary course.
LEMMA LifecycleIInv == IInv /\ LifecycleNext => IInv'
<1> SUFFICES ASSUME IInv, LifecycleNext PROVE IInv'
  OBVIOUS
<1>1. Sound /\ TypeOK
  BY DEF IInv, Sound
<1>2. CASE Tick \/ pause \/ unpause
  BY <1>2, ClockStep
<1>3. CASE CreateNext
  BY <1>1, <1>3, EveryCreation, CreateStep, Zenon
<1>4. CASE \E i \in Ids : DeliverNext(i)
  BY <1>1, <1>4, EveryCall, CallStep, Zenon
<1>5. CASE \E i \in Ids : SettleNext(i)
  BY <1>1, <1>5, EveryCall, CallStep, Zenon
<1> QED BY <1>2, <1>3, <1>4, <1>5 DEF LifecycleNext

\* The invariant is inductive: every entry point preserves it.
LEMMA NextIInv == IInv /\ [Next]_vars => IInv'
<1> SUFFICES ASSUME IInv, [Next]_vars PROVE IInv'
  OBVIOUS
<1>1. CASE UNCHANGED vars
  <2>1. TypeOK' /\ Solvent'
    BY <1>1, Zenon DEF vars, IInv, Sound, TypeOK, Solvent, TotalOwed, Owed
  <2>2. \A i \in Ids : AtRest(ship'[i]) /\ MilestonesFit(ship'[i])
    BY <1>1 DEF vars, IInv, Sound
  <2>3. Sound'
    BY <2>1, <2>2, SoundNext
  <2> QED BY <1>1, <2>1, <2>3, Zenon DEF IInv, vars
<1>2. CASE LifecycleNext
  BY <1>2, LifecycleIInv
<1>3. CASE \E i \in Ids : ArchiveNext(i)
  BY <1>3, ArchiveStep
<1>4. CASE \E i \in Ids : RecoveryNext(i)
  <2>1. Sound
    BY DEF IInv
  <2> QED BY <1>4, <2>1, EveryRecovery, RecoveryStep, Zenon
<1> QED BY <1>1, <1>2, <1>3, <1>4, ZenonT(40) DEF Next

(***************************************************************************)
(* The theorems.                                                           *)
(***************************************************************************)

\* The inductive invariant holds in every reachable state.
THEOREM Invariance == Spec => []IInv
<1>1. Init => IInv
  BY InitIInv
<1>2. IInv /\ [Next]_vars => IInv'
  BY NextIInv
<1> QED BY <1>1, <1>2, PTL DEF Spec

\* Type correctness, with the saturating counters and every record that any
\* entry point writes.
THEOREM TypeCorrect == Spec => []TypeOK
<1>1. IInv => TypeOK
  BY DEF IInv, Sound
<1> QED BY <1>1, Invariance, PTL

\* The contract holds the tokens its records promise, whatever mix of
\* deposits, releases, refunds, archivals and recoveries has happened.
THEOREM Solvency == Spec => []Solvent
<1>1. IInv => Solvent
  BY Zenon DEF IInv
<1> QED BY <1>1, Invariance, PTL

\* A finalized shipment has reached its end and owes nothing.
THEOREM FinalizedMeansSettled == Spec => []FinalizedSettled
<1>1. IInv => FinalizedSettled
  BY Zenon DEF IInv, Sound, FinalizedSettled, AtRest
<1> QED BY <1>1, Invariance, PTL

\* Every milestone marked as paid has been paid for, for schedules of any
\* length and percentages and amounts that do not divide: rounding never lets
\* a record claim more than has left its escrow.
THEOREM MilestonesAlwaysPaidFor == Spec => []MilestonesPaidFor
<1>1. IInv => MilestonesPaidFor
  BY DEF IInv, Sound, MilestonesPaidFor, MilestonesFit
<1> QED BY <1>1, Invariance, PTL

(***************************************************************************)
(* The refinement: every step of the contract is a step of the vault.      *)
(***************************************************************************)

\* Initially every account is empty and the contract holds nothing.
LEMMA VaultInitially == Init => Vault!VaultInit
<1> SUFFICES ASSUME Init PROVE Vault!VaultInit
  OBVIOUS
<1>1. Owed = [i \in Ids |-> 0]
  BY BlankRecord, Zenon DEF Init, Owed
<1>2. bal[Contract] = 0
  BY ConstantsAssumption DEF Init, Accounts
<1> QED BY <1>1, <1>2, Zenon DEF Vault!VaultInit, Vault!VaultIds, Ids

\* Every entry point is a deposit, a payment, a write-off or nothing to the
\* vault; which of them, its facet says.
LEMMA VaultStep == IInv /\ [Next]_vars => [Vault!VaultNext]_(Vault!vaultVars)
\* A call that changes one record changes one account.
<1>OneAccount. ASSUME TypeOK, NEW k \in Ids, NEW new, ship' = [ship EXCEPT ![k] = new]
               PROVE  Owed' = [Owed EXCEPT ![k] = new.escrow]
  <2> USE <1>OneAccount
  <2>1. ship \in [Ids -> Record]
    BY DEF TypeOK
  <2>2. \A i \in Ids : Owed'[i] = IF i = k THEN new.escrow ELSE ship[i].escrow
    BY <2>1 DEF Owed
  <2> QED BY <2>2, Zenon DEF Owed
\* The money of a call, in the words of the vault.
<1>MoneyIsVaultStep. ASSUME TypeOK, NEW k \in Ids, NEW new \in Record,
                            ship' = [ship EXCEPT ![k] = new], MoneyFollows(k, new)
                     PROVE  [Vault!VaultNext]_(Vault!vaultVars)
  <2> USE <1>MoneyIsVaultStep
  <2>1. /\ k \in Vault!VaultIds /\ Owed[k] = ship[k].escrow
        /\ ship[k] \in Record /\ ship[k].escrow \in Nat /\ new.escrow \in Nat
        /\ Owed = [i \in Ids |-> Owed[i]]
    BY Fields, Zenon DEF Ids, Vault!VaultIds, TypeOK, Owed
  <2>2. Owed' = [Owed EXCEPT ![k] = new.escrow]
    BY <1>OneAccount, Zenon
  <2>3. CASE Deposits(k, new)
    <3>1. PICK from \in Companies, net \in Nat, fee \in Nat :
             /\ ship[k].escrow = 0 /\ new.escrow = net
             /\ net + fee > 0 /\ net + fee <= bal[from]
             /\ bal' = [bal EXCEPT ![from] = @ - net - fee,
                                   ![Contract] = @ + net,
                                   ![Treasury] = @ + fee]
      BY <2>3, Zenon DEF Deposits
    <3>2. bal[from] \in Nat
      BY Zenon DEF TypeOK, Accounts
    <3>3. net \in 0 .. bal[from] /\ fee \in 0 .. bal[from] - net
      BY <3>1, <3>2, SMT, SMTT(40)
    <3>4. Vault!Deposit(k, from)
      BY <2>1, <2>2, <3>1, <3>3, Zenon DEF Vault!Deposit
    <3> QED BY <2>1, <3>4 DEF Vault!VaultNext
  <2>4. CASE Pays(k, new)
    <3>1. PICK to \in Companies \cup Carriers, amount \in Nat :
             /\ amount <= ship[k].escrow /\ new.escrow = ship[k].escrow - amount
             /\ invoke_token_transfer(Contract, to, amount)
      BY <2>4, Zenon DEF Pays
    <3>2. bal' = [bal EXCEPT ![Contract] = @ - amount, ![to] = @ + amount]
      BY <3>1 DEF invoke_token_transfer
    <3>3. CASE amount = 0
      <4>1. Contract \in Accounts /\ to \in Accounts /\ bal \in [Accounts -> Nat]
        BY DEF Accounts, TypeOK
      <4>2. bal' = bal
        BY <3>2, <3>3, <4>1, SMT, SMTT(40)
      <4>3. Owed' = Owed
        BY <2>1, <2>2, <3>1, <3>3, SMT, SMTT(40)
      <4> QED BY <4>2, <4>3, Zenon DEF Vault!vaultVars
    <3>4. CASE amount > 0
      <4>1. amount \in 1 .. Owed[k] /\ Owed' = [Owed EXCEPT ![k] = @ - amount]
        BY <2>1, <2>2, <3>1, <3>4, SMT, SMTT(40)
      <4>2. Vault!Pay(k, to)
        BY <3>2, <4>1, Zenon DEF Vault!Pay
      <4> QED BY <2>1, <4>2, Zenon DEF Vault!VaultNext
    <3> QED BY <3>3, <3>4, SMT, SMTT(40)
  <2>5. CASE Keeps(k, new)
    <3>1. CASE new.escrow = 0
      <4>1. Vault!WriteOff(k)
        BY <2>2, <2>5, <3>1 DEF Keeps, Vault!WriteOff
      <4> QED BY <2>1, <4>1, Zenon DEF Vault!VaultNext
    <3>2. CASE new.escrow = ship[k].escrow
      <4>1. Owed' = Owed /\ bal' = bal
        BY <2>1, <2>2, <2>5, <3>2, ZenonT(40) DEF Keeps
      <4> QED BY <4>1, ZenonT(40) DEF Vault!vaultVars
    <3> QED BY <2>5, <3>1, <3>2, Zenon DEF Keeps
  <2> QED BY <2>3, <2>4, <2>5 DEF MoneyFollows
\* A step that leaves every account and every balance alone is none of the
\* vault's.
<1>VaultStutters. ASSUME \A i \in Ids : ship'[i].escrow = ship[i].escrow, bal' = bal
                  PROVE  [Vault!VaultNext]_(Vault!vaultVars)
  <2> USE <1>VaultStutters
  <2>1. Owed' = Owed
    BY DEF Owed
  <2> QED BY <2>1, Zenon DEF Vault!vaultVars
<1> SUFFICES ASSUME IInv, [Next]_vars PROVE [Vault!VaultNext]_(Vault!vaultVars)
  OBVIOUS
<1>1. Sound /\ TypeOK
  BY DEF IInv, Sound
<1>2. CASE UNCHANGED vars \/ Tick \/ pause \/ unpause
  <2>1. ship' = ship /\ bal' = bal
    BY <1>2 DEF vars, Tick, pause, unpause
  <2> QED BY <2>1, <1>VaultStutters, Zenon
<1>3. CASE CreateNext
  <2>1. PICK c \in Companies, n \in Nat : Creates(c, n)
    BY <1>1, <1>3, EveryCreation, Zenon
  <2>2. \A i \in Fresh(n) : i \in Ids /\ i > counter
    BY <1>1, <2>1, SMTT(20), SMTT(40) DEF Creates, Fresh, TypeOK
  <2>3. \A i \in Fresh(n) : ship'[i].escrow = 0 /\ ship[i].escrow = 0
    BY <2>1, <2>2, BlankRecord, Zenon DEF IInv, Creates
  <2>4. bal' = bal /\ \A i \in Ids : ship'[i].escrow = ship[i].escrow
    BY <2>1, <2>3, Zenon DEF Creates
  <2> QED BY <2>4, <1>VaultStutters
<1>4. CASE \E i \in Ids : DeliverNext(i) \/ SettleNext(i)
  <2>1. PICK i \in Ids : DeliverNext(i) \/ SettleNext(i)
    BY <1>4
  <2>2. PICK new : Call(i, new)
    BY <1>1, <2>1, EveryCall, Zenon
  <2>3. new \in Record /\ ship' = [ship EXCEPT ![i] = new] /\ MoneyFollows(i, new)
    BY <2>2, Zenon DEF Call, Writes, set_shipment
  <2> QED BY <1>1, <2>3, <1>MoneyIsVaultStep, Zenon
<1>5. CASE \E i \in Ids : RecoveryNext(i)
  <2>1. PICK i \in Ids : RecoveryNext(i)
    BY <1>5
  <2>2. PICK new : Recovers(i, new)
    BY <1>1, <2>1, EveryRecovery, Zenon
  <2>3. new \in Record /\ ship' = [ship EXCEPT ![i] = new] /\ MoneyFollows(i, new)
    BY <2>2, ZenonT(40) DEF Recovers, Writes, set_shipment, MoneyFollows
  <2> QED BY <1>1, <2>3, <1>MoneyIsVaultStep, Zenon
<1>6. CASE \E i \in Ids : archive_shipment(i)
  <2>1. ship' = ship /\ bal' = bal
    BY <1>6 DEF archive_shipment
  <2> QED BY <2>1, <1>VaultStutters
<1>7. CASE \E i \in Ids : ExpireArchived(i)
  <2>1. PICK i \in Ids : ship' = [ship EXCEPT ![i] = Blank] /\ bal' = bal
    BY <1>7, Zenon DEF ExpireArchived
  <2>2. Keeps(i, Blank)
    BY <2>1, BlankRecord DEF Keeps
  <2>3. MoneyFollows(i, Blank)
    BY <2>2, Zenon DEF MoneyFollows
  <2> QED BY <1>1, <2>1, <2>3, BlankRecord, <1>MoneyIsVaultStep, Zenon
<1> QED BY <1>2, <1>3, <1>4, <1>5, <1>6, <1>7, Zenon DEF Next, LifecycleNext, ArchiveNext

\* The contract implements the vault: whatever the entry points do, seen from
\* the token they only fill an empty account, pay one out by exactly what it
\* goes down, or write it off.
THEOREM ContractImplementsVault == Spec => ImplementsVault
<1>1. Init => Vault!VaultInit
  BY VaultInitially
<1>2. IInv /\ [Next]_vars => [Vault!VaultNext]_(Vault!vaultVars)
  BY VaultStep
<1>3. Spec => []IInv
  BY Invariance
<1> QED BY <1>1, <1>2, <1>3, PTL DEF Spec, ImplementsVault, Vault!VaultSpec
=============================================================================
