--------------------------- MODULE LifecycleProofs --------------------------
(***************************************************************************)
(* Proofs about the ordinary course of shipments, under limits that change *)
(* at any time: the counters, the Escrow entries and the flags stay in     *)
(* step with the records, whatever their number.                           *)
(***************************************************************************)
EXTENDS ShipmentProofs, Limits, FiniteSetTheorems

\* The shipments in status s, and those the active count of c has in it.
InStatus(s) == {i \in 1 .. counter : ship[i].status = s}

CountedOf(c) == {i \in 1 .. counter : ship[i].sender = c /\ Counted(ship[i])}

\* What is kept beside the records agrees with them.  The active count is an
\* upper bound only: a release of the escrow after update_status to Delivered
\* does not lower it.  That no record is Reopened is what makes it one.
InStep ==
    /\ \A i \in Ids : loc[i] = IF i <= counter THEN "persistent" ELSE "absent"
    /\ \A i \in Ids : escrowKey[i] = ship[i].escrow /\ ~ Reopened(ship[i])
    /\ \A s \in ShipmentStatus : statusCount[s] = Cardinality(InStatus(s))
    /\ \A c \in Companies : Cardinality(CountedOf(c)) <= activeCount[c]

\* The limits are numbers.
LimitsOK ==
    /\ limit \in 0 .. ShipmentLimit
    /\ companyLimit \in [Companies -> 0 .. ShipmentLimit \cup {NoLimit}]

LInv == IInv /\ InStep /\ LimitsOK

(***************************************************************************)
(* Counting.                                                               *)
(***************************************************************************)

\* A set that differs from another in one element at most.
LEMMA OneChange ==
    ASSUME NEW S, IsFiniteSet(S), NEW T, NEW k,
           \A x : x # k => (x \in T <=> x \in S)
    PROVE  /\ IsFiniteSet(T)
           /\ Cardinality(T) = Cardinality(S)
                 + (IF k \in T THEN 1 ELSE 0) - (IF k \in S THEN 1 ELSE 0)
<1> DEFINE U == S \ {k}
<1>1. /\ IsFiniteSet(U) /\ Cardinality(S) \in Nat
      /\ Cardinality(U) = Cardinality(S) - (IF k \in S THEN 1 ELSE 0)
  BY FS_RemoveElement, FS_CardinalityType, SMT, SMTT(40)
<1>2. Cardinality(U) \in Nat /\ k \notin U
  BY <1>1, FS_CardinalityType, Zenon
<1>3. CASE k \in T
  <2>1. T = U \cup {k}
    BY <1>3
  <2> HIDE DEF U
  <2>2. IsFiniteSet(U \cup {k}) /\ Cardinality(U \cup {k}) = Cardinality(U) + 1
    BY <1>1, <1>2, FS_AddElement, Zenon
  <2> QED BY <1>1, <1>2, <1>3, <2>1, <2>2, SMT, SMTT(40)
<1>4. CASE k \notin T
  <2>1. T = U
    BY <1>4
  <2> HIDE DEF U
  <2> QED BY <1>1, <1>2, <1>4, <2>1, SMT, SMTT(40)
<1> QED BY <1>3, <1>4, Zenon

\* Two separate sets of ids.
LEMMA DisjointSum ==
    ASSUME NEW n \in Nat, NEW S \in SUBSET (1 .. n), NEW T \in SUBSET (1 .. n),
           S \cap T = {}
    PROVE  Cardinality(S) + Cardinality(T) = Cardinality(S \cup T)
<1>1. IsFiniteSet(1 .. n)
  BY FS_Interval, SMT, SMTT(40)
<1>2. /\ IsFiniteSet(S) /\ Cardinality(S) \in Nat
      /\ IsFiniteSet(T) /\ Cardinality(T) \in Nat
  BY <1>1, FS_Subset, FS_CardinalityType, Zenon
<1>3. Cardinality(S \cup T) = Cardinality(S) + Cardinality(T) - Cardinality(S \cap T)
  BY <1>2, FS_Union
<1>4. Cardinality(S \cap T) = 0
  BY FS_EmptySet, Zenon
<1> QED BY <1>2, <1>3, <1>4, SMT, SMTT(40)

\* The sets counted are finite.
LEMMA CountedFinite ==
    ASSUME TypeOK
    PROVE  /\ counter \in Nat /\ 1 .. counter \subseteq Ids
           /\ \A s : /\ IsFiniteSet(InStatus(s))
                     /\ Cardinality(InStatus(s)) \in Nat
           /\ \A c : /\ IsFiniteSet(CountedOf(c))
                     /\ Cardinality(CountedOf(c)) \in Nat
<1>1. counter \in Nat /\ counter <= MaxShipments /\ MaxShipments \in Nat
  BY ConstantTypes, SMT, SMTT(40) DEF TypeOK
<1>2. IsFiniteSet(1 .. counter)
  BY <1>1, FS_Interval, SMT, SMTT(40)
<1>3. ASSUME NEW S \in SUBSET (1 .. counter)
      PROVE  IsFiniteSet(S) /\ Cardinality(S) \in Nat
  BY <1>2, FS_Subset, FS_CardinalityType, Zenon
<1>4. \A s : InStatus(s) \in SUBSET (1 .. counter)
  BY DEF InStatus
<1>5. \A c : CountedOf(c) \in SUBSET (1 .. counter)
  BY DEF CountedOf
<1>6. 1 .. counter \subseteq Ids
  BY <1>1, SMT, SMTT(40) DEF Ids
<1> QED BY <1>1, <1>3, <1>4, <1>5, <1>6, ZenonT(40)

(***************************************************************************)
(* The invariant.                                                          *)
(***************************************************************************)

\* Nothing is there before the first call.
LEMMA InitInStep == Init => InStep
<1> SUFFICES ASSUME Init PROVE InStep
  OBVIOUS
<1>1. counter = 0 /\ 1 .. counter = {}
  BY SMT, SMTT(40) DEF Init
<1>2. /\ \A s : InStatus(s) = {}
      /\ \A c : CountedOf(c) = {}
  BY <1>1 DEF InStatus, CountedOf
<1>3. \A i \in Ids : /\ loc[i] = "absent" /\ ship[i] = Blank
                     /\ escrowKey[i] = 0
  BY DEF Init
<1>4. Blank.status = "Created" /\ Blank.escrow = 0
  BY DEF Blank
<1>5. \A i \in Ids : i > counter
  BY <1>1, ConstantTypes, SMT, SMTT(40) DEF Ids
<1>6. \A i \in Ids : loc[i] = IF i <= counter THEN "persistent" ELSE "absent"
  BY <1>1, <1>3, <1>5, SMT, SMTT(40) DEF Ids
<1>7. \A i \in Ids : escrowKey[i] = ship[i].escrow /\ ~ Reopened(ship[i])
  BY <1>3, <1>4, Zenon DEF Reopened
<1>8. /\ \A s \in ShipmentStatus : statusCount[s] = 0
      /\ \A c \in Companies : activeCount[c] = 0
  BY DEF Init
<1>9. /\ \A s : Cardinality(InStatus(s)) = 0
      /\ \A c : Cardinality(CountedOf(c)) = 0
  BY <1>2, FS_EmptySet, Zenon
<1> QED BY <1>6, <1>7, <1>8, <1>9, SMT, SMTT(40) DEF InStep

\* Calls that write no record change nothing that is counted.
LEMMA SameInStep ==
    ASSUME InStep, UNCHANGED <<counter, ship, loc, escrowKey, statusCount, activeCount>>
    PROVE  InStep'
<1>1. /\ \A s : InStatus(s)' = InStatus(s)
      /\ \A c : CountedOf(c)' = CountedOf(c)
  BY DEF InStatus, CountedOf, Counted
<1> QED BY <1>1 DEF InStep, Reopened

\* A call moves one shipment from one status to another and from counted to
\* not counted, never back.
LEMMA CallInStep ==
    ASSUME LInv, NEW k \in Ids, NEW new, Call(k, new)
    PROVE  InStep'
<1>1. /\ TypeOK /\ ship \in [Ids -> Record] /\ loc \in [Ids -> Locations]
      /\ escrowKey \in [Ids -> Nat]
      /\ statusCount \in [ShipmentStatus -> Nat]
      /\ activeCount \in [Companies -> Nat]
  BY Zenon DEF LInv, IInv, Sound, TypeOK
<1>2. /\ new \in Record /\ ship' = [ship EXCEPT ![k] = new]
      /\ loc' = [loc EXCEPT ![k] = "persistent"]
      /\ loc[k] # "absent" /\ counter' = counter
      /\ new.sender = ship[k].sender
      /\ ~ Reopened(new)
  BY Zenon DEF Call, Writes, set_shipment, EndsWell, LInv, InStep
<1>3. /\ counter \in Nat /\ 1 .. counter \subseteq Ids
      /\ k \in 1 .. counter
      /\ ship[k].sender \in Companies
      /\ ship[k].status \in ShipmentStatus /\ new.status \in ShipmentStatus
  <2>1. counter \in Nat /\ 1 .. counter \subseteq Ids
    BY <1>1, CountedFinite, Zenon
  <2>2. k \in 1 .. counter
    BY <1>2, <2>1, SMT, SMTT(40) DEF LInv, InStep, Ids
  <2> QED BY <1>1, <1>2, <2>1, <2>2, Fields, ZenonT(40)
<1>4. \A i \in Ids : ship'[i] = IF i = k THEN new ELSE ship[i]
  BY <1>1, <1>2, Zenon
<1>5. \A i \in Ids : loc'[i] = IF i <= counter' THEN "persistent" ELSE "absent"
  BY <1>1, <1>2, <1>3, Zenon DEF LInv, InStep
<1>6. \A i \in Ids : escrowKey'[i] = ship'[i].escrow /\ ~ Reopened(ship'[i])
  <2>1. escrowKey'[k] = new.escrow
    BY <1>1, Zenon DEF Call, Mirrored, LInv, InStep
  <2>2. \A i \in Ids : i # k => escrowKey'[i] = escrowKey[i]
    BY <1>1, Zenon DEF Call, Mirrored
  <2> QED BY <1>2, <1>4, <2>1, <2>2, SMTT(20), SMTT(40) DEF LInv, InStep
<1>7. ASSUME NEW s \in ShipmentStatus
      PROVE  statusCount'[s] = Cardinality(InStatus(s)')
  <2> DEFINE S == InStatus(s)
             T == InStatus(s)'
  <2>1. /\ k \in S <=> ship[k].status = s
        /\ k \in T <=> new.status = s
        /\ \A x : x # k => (x \in T <=> x \in S)
    BY <1>2, <1>3, <1>4, Zenon DEF InStatus
  <2>2. /\ IsFiniteSet(S) /\ Cardinality(S) \in Nat
        /\ statusCount[s] = Cardinality(S)
    BY <1>1, CountedFinite, Zenon DEF LInv, InStep
  <2> HIDE DEF S, T
  <2>3. Cardinality(T) = Cardinality(S)
             + (IF k \in T THEN 1 ELSE 0) - (IF k \in S THEN 1 ELSE 0)
    BY <2>1, <2>2, OneChange, SMT, SMTT(40)
  <2>4. k \in S => Cardinality(S) > 0
    BY <2>2, FS_EmptySet, SMT, SMTT(40)
  <2>5. CASE MoveStatusCount(ship[k].status, new.status)
    BY <1>1, <1>3, <2>1, <2>2, <2>3, <2>4, <2>5, SMTT(20), SMTT(40) DEF MoveStatusCount, T
  <2>6. CASE statusCount' = statusCount /\ new.status = ship[k].status
    BY <2>1, <2>2, <2>3, <2>6, SMTT(20), SMTT(40) DEF T
  <2> QED BY <2>5, <2>6, Zenon DEF Call, StatusFollows
<1>8. ASSUME NEW c \in Companies
      PROVE  Cardinality(CountedOf(c)') <= activeCount'[c]
  <2> DEFINE S == CountedOf(c)
             T == CountedOf(c)'
  <2>1. /\ k \in S <=> ship[k].sender = c /\ Counted(ship[k])
        /\ k \in T <=> ship[k].sender = c /\ Counted(new)
        /\ \A x : x # k => (x \in T <=> x \in S)
    BY <1>2, <1>3, <1>4, Zenon DEF CountedOf, Counted
  <2>2. /\ IsFiniteSet(S) /\ Cardinality(S) \in Nat
        /\ Cardinality(S) <= activeCount[c] /\ ~ Reopened(ship[k])
        /\ activeCount[c] \in Nat
    BY <1>1, CountedFinite, Zenon DEF LInv, InStep
  <2> HIDE DEF S, T
  <2>3. Cardinality(T) = Cardinality(S)
             + (IF k \in T THEN 1 ELSE 0) - (IF k \in S THEN 1 ELSE 0)
    BY <2>1, <2>2, OneChange, SMT, SMTT(40)
  <2>4. k \in S => Cardinality(S) > 0
    BY <2>2, FS_EmptySet, SMT, SMTT(40)
  <2>5. CASE activeCount' = activeCount /\ (Counted(new) => Counted(ship[k]))
    BY <2>1, <2>2, <2>3, <2>5, SMTT(20), SMTT(40) DEF T
  <2>6. CASE /\ decrement_active_shipment_count(ship[k].sender)
             /\ Counted(ship[k]) /\ ~ Counted(new)
    <3>1. activeCount'[c] = IF c = ship[k].sender
                            THEN IF activeCount[c] > 0 THEN activeCount[c] - 1 ELSE 0
                            ELSE activeCount[c]
      BY <1>1, <1>3, <2>6, Zenon DEF decrement_active_shipment_count
    <3> QED BY <2>1, <2>2, <2>3, <2>4, <2>6, <3>1, SMTT(20), SMTT(40) DEF T
  <2> QED BY <2>2, <2>5, <2>6, Zenon DEF Call, ActiveFollows
<1> QED BY <1>5, <1>6, <1>7, <1>8, ZenonT(40) DEF InStep, Reopened
\* A set and n ids beyond it.
LEMMA AddFresh ==
    ASSUME NEW c0 \in Nat, NEW n \in Nat, NEW S \in SUBSET (1 .. c0)
    PROVE  /\ Cardinality(S) \in Nat
           /\ Cardinality(S \cup (c0 + 1 .. c0 + n)) = Cardinality(S) + n
<1> DEFINE F == c0 + 1 .. c0 + n
<1>1. IsFiniteSet(F) /\ Cardinality(F) = n
  BY FS_Interval, SMT, SMTT(40)
<1>2. IsFiniteSet(S) /\ Cardinality(S) \in Nat
  <2>1. IsFiniteSet(1 .. c0)
    BY FS_Interval, SMT, SMTT(40)
  <2> QED BY <2>1, FS_Subset, FS_CardinalityType, Zenon
<1>3. S \cap F = {}
  BY SMT, SMTT(40)
<1> HIDE DEF F
<1>4. /\ Cardinality(S \cup F) = Cardinality(S) + Cardinality(F) - Cardinality(S \cap F)
  BY <1>1, <1>2, FS_Union, Zenon
<1>5. Cardinality(S \cup F) = Cardinality(S) + n
  BY <1>1, <1>2, <1>3, <1>4, FS_EmptySet, SMTT(20), SMTT(40)
<1> QED BY <1>2, <1>5, Zenon DEF F

\* A creation adds what it counts.
LEMMA CreateInStep ==
    ASSUME LInv, NEW c \in Companies, NEW n \in Nat, Creates(c, n)
    PROVE  InStep'
<1>1. /\ TypeOK /\ statusCount \in [ShipmentStatus -> Nat]
      /\ activeCount \in [Companies -> Nat]
      /\ counter \in Nat /\ 1 .. counter \subseteq Ids
  BY CountedFinite, Zenon DEF LInv, IInv, Sound, TypeOK
<1>2. /\ Fresh(n) \subseteq Ids /\ counter' = counter + n
      /\ \A i \in Fresh(n) :
            /\ loc'[i] = "persistent" /\ escrowKey'[i] = 0
            /\ ship'[i].sender = c /\ ship'[i].status = "Created"
            /\ ship'[i].escrow = 0
      /\ \A i \in Ids \ Fresh(n) :
            ship'[i] = ship[i] /\ loc'[i] = loc[i] /\ escrowKey'[i] = escrowKey[i]
      /\ statusCount' = [statusCount EXCEPT !["Created"] = @ + n]
      /\ activeCount' = [activeCount EXCEPT ![c] = @ + n]
  BY Zenon DEF Creates
<1>3. /\ 1 .. counter' = (1 .. counter) \cup Fresh(n)
      /\ (1 .. counter) \cap Fresh(n) = {}
      /\ \A i \in Ids : i <= counter' <=> i <= counter \/ i \in Fresh(n)
  BY <1>1, <1>2, SMT, SMTT(40) DEF Fresh, Ids
<1>4. \A i \in Ids : loc'[i] = IF i <= counter' THEN "persistent" ELSE "absent"
  <2>1. \A i \in Ids \ Fresh(n) :
           loc'[i] = IF i <= counter THEN "persistent" ELSE "absent"
    BY <1>2, SMT, SMTT(40) DEF LInv, InStep
  <2> QED BY <1>2, <1>3, <2>1, Zenon
<1>5. \A i \in Ids : escrowKey'[i] = ship'[i].escrow /\ ~ Reopened(ship'[i])
  <2>1. \A i \in Fresh(n) : escrowKey'[i] = ship'[i].escrow /\ ~ Reopened(ship'[i])
    BY <1>2, Zenon DEF Reopened
  <2> QED BY <1>2, <2>1, ZenonT(40) DEF LInv, InStep
<1>6. /\ \A i \in 1 .. counter : ship'[i] = ship[i]
      /\ \A i \in Fresh(n) : ship'[i].sender = c /\ ship'[i].status = "Created"
                             /\ Counted(ship'[i])
  BY <1>1, <1>2, <1>3, Zenon DEF Counted, Terminal
<1>7. ASSUME NEW s \in ShipmentStatus
      PROVE  statusCount'[s] = Cardinality(InStatus(s)')
  <2>1. InStatus(s) \in SUBSET (1 .. counter) /\ statusCount[s] = Cardinality(InStatus(s))
    BY DEF InStatus, LInv, InStep
  <2>2. CASE s = "Created"
    <3>1. InStatus(s)' = InStatus(s) \cup Fresh(n)
      BY <1>3, <1>6, <2>2, Zenon DEF InStatus
    <3>2. Cardinality(InStatus(s) \cup Fresh(n)) = Cardinality(InStatus(s)) + n
      BY <1>1, <2>1, AddFresh, Zenon DEF Fresh
    <3> QED BY <1>1, <1>2, <2>1, <2>2, <3>1, <3>2, ZenonT(40)
  <2>3. CASE s # "Created"
    <3>1. InStatus(s)' = InStatus(s)
      BY <1>3, <1>6, <2>3, Zenon DEF InStatus
    <3> QED BY <1>1, <1>2, <2>1, <2>3, <3>1, ZenonT(40)
  <2> QED BY <2>2, <2>3, Zenon
<1>8. ASSUME NEW d \in Companies
      PROVE  Cardinality(CountedOf(d)') <= activeCount'[d]
  <2>1. /\ CountedOf(d) \in SUBSET (1 .. counter)
        /\ Cardinality(CountedOf(d)) <= activeCount[d]
    BY Zenon DEF CountedOf, LInv, InStep
  <2>2. CASE d = c
    <3>1. CountedOf(d)' = CountedOf(d) \cup Fresh(n)
      BY <1>3, <1>6, <2>2, Zenon DEF CountedOf, Counted
    <3>2. /\ Cardinality(CountedOf(d)) \in Nat
          /\ Cardinality(CountedOf(d) \cup Fresh(n)) = Cardinality(CountedOf(d)) + n
      BY <1>1, <2>1, AddFresh, ZenonT(40) DEF Fresh
    <3>3. activeCount'[d] = activeCount[d] + n /\ activeCount[d] \in Nat
      BY <1>1, <1>2, <2>2, Zenon
    <3> QED BY <2>1, <3>1, <3>2, <3>3, SMTT(20), SMTT(40)
  <2>3. CASE d # c
    <3>1. CountedOf(d)' = CountedOf(d)
      BY <1>3, <1>6, <2>3, Zenon DEF CountedOf, Counted
    <3> QED BY <1>1, <1>2, <2>1, <2>3, <3>1, ZenonT(40)
  <2> QED BY <2>2, <2>3, Zenon
<1> QED BY <1>4, <1>5, <1>7, <1>8, Zenon DEF InStep, Reopened

\* The invariant is inductive for the lifecycle under changing limits.
LEMMA LifecycleLInv == LInv /\ [LimNext]_<<vars, limVars>> => LInv'
<1> SUFFICES ASSUME LInv, [LimNext]_<<vars, limVars>> PROVE LInv'
  OBVIOUS
<1>1. Sound /\ TypeOK /\ IInv /\ InStep
  BY DEF LInv, IInv, Sound
<1>2. LimitsOK'
  <2>1. CASE UNCHANGED limVars
    BY <2>1 DEF LInv, LimitsOK, limVars
  <2>2. CASE \E n \in GlobalLimits : set_shipment_limit(n)
    BY <2>2, LimitsAssumption, Zenon DEF LInv, LimitsOK, set_shipment_limit
  <2>3. CASE \E c \in Companies, n \in CompanyLimits : set_company_shipment_limit(c, n)
    BY <2>3, LimitsAssumption, Zenon DEF LInv, LimitsOK, set_company_shipment_limit
  <2> QED BY <2>1, <2>2, <2>3, Zenon DEF LimNext
<1>3. CASE UNCHANGED vars
  <2>1. IInv'
    BY <1>1, <1>3, NextIInv, Zenon
  <2> QED BY <1>1, <1>2, <1>3, <2>1, SameInStep, ZenonT(40) DEF vars, LInv
<1>4. CASE LifecycleNext
  <2>1. IInv'
    BY <1>1, <1>4, LifecycleIInv, Zenon
  <2>2. CASE Tick \/ pause \/ unpause
    <3>1. UNCHANGED <<counter, ship, loc, escrowKey, statusCount, activeCount>>
      BY <2>2, Zenon DEF Tick, pause, unpause
    <3> QED BY <1>1, <1>2, <2>1, <3>1, SameInStep, ZenonT(40) DEF LInv
  <2>3. CASE CreateNext
    <3>1. PICK c \in Companies, n \in Nat : Creates(c, n)
      BY <1>1, <2>3, EveryCreation, Zenon
    <3> QED BY <1>2, <2>1, <3>1, CreateInStep, Zenon DEF LInv
  <2>4. CASE \E i \in Ids : DeliverNext(i) \/ SettleNext(i)
    <3>1. PICK i \in Ids : DeliverNext(i) \/ SettleNext(i)
      BY <2>4
    <3>2. PICK new : Call(i, new)
      BY <1>1, <3>1, EveryCall, Zenon
    <3> QED BY <1>2, <2>1, <3>2, CallInStep, Zenon DEF LInv
  <2> QED BY <1>4, <2>2, <2>3, <2>4, ZenonT(40) DEF LifecycleNext
<1> QED BY <1>3, <1>4, Zenon DEF LimNext, set_shipment_limit, set_company_shipment_limit

\* The invariant holds throughout the lifecycle.
THEOREM LifecycleInvariance == LimitedLifecycle => []LInv
<1>1. LimInit => LInv
  <2>1. LimInit => LimitsOK
    BY ConstantsAssumption, SMT, SMTT(40) DEF LimInit, LimitsOK
  <2> QED BY <2>1, InitIInv, InitInStep, Zenon DEF LimInit, LInv
<1>2. LInv /\ [LimNext]_<<vars, limVars>> => LInv'
  BY LifecycleLInv, Zenon
<1> QED BY <1>1, <1>2, PTL DEF LimitedLifecycle

(***************************************************************************)
(* The audit and the reports.                                              *)
(***************************************************************************)

\* One shipment passes the audit.
LEMMA ShipmentPasses ==
    ASSUME LInv, NEW i \in 1 .. counter
    PROVE  check_shipment_invariants(i) = {}
<1>1. TypeOK /\ i \in Ids /\ i <= counter
  BY CountedFinite, SMTT(20), SMTT(40) DEF LInv, IInv, Sound
<1>2. /\ loc[i] = "persistent" /\ ship[i].escrow = get_escrow_balance(i)
      /\ AtRest(ship[i]) /\ ship[i].paid \subseteq Symbols(ship[i].schedule)
  BY <1>1 DEF LInv, InStep, IInv, Sound, MilestonesFit, get_escrow_balance
<1> DEFINE r == ship[i]
           found == [EscrowMismatch |-> r.escrow # get_escrow_balance(i),
                     InvalidFinalization |->
                         r.finalized /\ (r.status \notin Terminal \/ r.escrow # 0),
                     MilestoneViolation |-> ~ r.paid \subseteq Symbols(r.schedule)]
<1>3. \A w \in DOMAIN found : ~ found[w]
  <2>1. /\ ~ (r.escrow # get_escrow_balance(i))
        /\ ~ (r.finalized /\ (r.status \notin Terminal \/ r.escrow # 0))
        /\ ~ (~ r.paid \subseteq Symbols(r.schedule))
    BY <1>2, Zenon DEF AtRest
  <2>2. /\ ~ found.EscrowMismatch
        /\ ~ found.InvalidFinalization
        /\ ~ found.MilestoneViolation
    BY <2>1, Zenon
  <2>3. DOMAIN found =
            {"EscrowMismatch", "InvalidFinalization", "MilestoneViolation"}
    BY Zenon
  <2> HIDE DEF found
  <2> QED BY <2>2, <2>3, Zenon
<1>4. get_shipment(i)
  BY <1>2, Zenon DEF get_shipment
<1>5. check_shipment_invariants(i) = {<<v, i>> : v \in {w \in DOMAIN found : found[w]}}
  BY <1>4, Zenon DEF check_shipment_invariants
<1> HIDE DEF found
<1> QED BY <1>3, <1>5, Zenon

\* The status counts pass it, on a full scan and, not being compared, on any
\* other.
LEMMA CountsPass ==
    ASSUME LInv, NEW start_id \in Nat, NEW end_id \in Nat, end_id <= counter
    PROVE  check_status_count_consistency_range(start_id, end_id) = {}
<1>1. /\ counter \in Nat /\ 1 .. counter \subseteq Ids
  BY CountedFinite DEF LInv, IInv, Sound
<1>2. SUFFICES ASSUME start_id = 1, end_id >= get_shipment_count
               PROVE  \A s \in ShipmentStatus :
                         statusCount[s] =
                             Cardinality({i \in start_id .. end_id :
                                             get_shipment(i) /\ ship[i].status = s})
  BY Zenon DEF check_status_count_consistency_range
<1>3. TAKE s \in ShipmentStatus
<1>4. start_id .. end_id = 1 .. counter
  BY <1>1, <1>2, SMT, SMTT(40) DEF get_shipment_count
<1>5. \A i \in 1 .. counter : get_shipment(i)
  BY <1>1, SMT, SMTT(40) DEF LInv, InStep, get_shipment
<1>6. {i \in start_id .. end_id : get_shipment(i) /\ ship[i].status = s} = InStatus(s)
  BY <1>4, <1>5, Zenon DEF InStatus
<1> QED BY <1>6, Zenon DEF LInv, InStep

\* Every page passes, whatever its start and size.
LEMMA PagePasses ==
    ASSUME LInv, NEW start_id \in Nat, NEW size \in Nat
    PROVE  check_all_consistency_range(start_id, size) = {}
<1>1. counter \in Nat
  BY CountedFinite, Zenon DEF LInv, IInv, Sound
<1>2. SUFFICES ASSUME start_id \in 1 .. counter, size # 0
               PROVE  check_all_consistency_range(start_id, size) = {}
  BY DEF check_all_consistency_range, get_shipment_count
<1> DEFINE end_id == WindowEnd(start_id, size)
<1>3. end_id \in Nat /\ end_id <= counter
  BY <1>1, <1>2, SMT, SMTT(40) DEF WindowEnd, get_shipment_count
<1> HIDE DEF end_id
<1>4. \A i \in start_id .. end_id : check_shipment_invariants(i) = {}
  <2>1. \A i \in start_id .. end_id : i \in 1 .. counter
    BY <1>1, <1>2, <1>3, SMT, SMTT(40)
  <2> QED BY <2>1, ShipmentPasses, Zenon
<1>5. UNION {check_shipment_invariants(i) : i \in start_id .. end_id} = {}
  BY <1>4, Zenon
<1>6. check_status_count_consistency_range(start_id, end_id) = {}
  BY <1>3, CountsPass, Zenon
<1> QED BY <1>2, <1>5, <1>6, ZenonT(40)
        DEF check_all_consistency_range, end_id, get_shipment_count

\* The consistency audit finds nothing, on any page of any size and for any
\* number of shipments: handlers that write the record, the Escrow entry, the
\* flag and the counters leave them in agreement.
THEOREM AuditAlwaysClean == LimitedLifecycle => []AuditFindsNothing
<1>1. LInv => AuditFindsNothing
  <2> SUFFICES ASSUME LInv PROVE AuditFindsNothing
    OBVIOUS
  <2>1. check_consistency_violations = {}
    BY PagePasses, Zenon DEF check_consistency_violations, check_all_consistency,
                      DEFAULT_CONSISTENCY_SAMPLE_LIMIT
  <2>2. \A start_id \in 0 .. MaxShipments + 1, size \in 0 .. MaxShipments :
           check_all_consistency_range(start_id, size) = {}
    BY PagePasses, ConstantTypes, SMT, SMTT(40)
  <2> QED BY <2>1, <2>2, Zenon DEF AuditFindsNothing
<1> QED BY <1>1, LifecycleInvariance, PTL
(***************************************************************************)
(* The health check of a set of shipments.  Its three figures are additive,*)
(* and the pages are sets of shipments.                                    *)
(***************************************************************************)
EscrowOf(A) == [i \in Ids |-> IF i \in A THEN ship[i].escrow ELSE 0]

SumOf(A) == SumTo(EscrowOf(A), MaxShipments)

ActiveOf(A) == {i \in A : ship[i].status \notin Terminal \cup {"Disputed"}}

LateOf(A) == {i \in ActiveOf(A) : ship[i].status = "InTransit" /\ ship[i].deadline < now}

\* A page is the report on the shipments it ranges over.
LEMMA PageReport ==
    ASSUME LInv, NEW start_id \in Nat \ {0}, NEW size \in Nat
    PROVE  LET rep == run_system_health_check_range(start_id, size)
               A == start_id .. WindowEnd(start_id, size)
           IN  /\ rep.sum_of_escrow_balances = SumOf(A)
               /\ rep.active_shipments_counted = Cardinality(ActiveOf(A))
               /\ rep.anomalous_shipment_ids = LateOf(A)
               /\ A \in SUBSET (1 .. counter)
<1> DEFINE A == start_id .. WindowEnd(start_id, size)
           found == {i \in A : get_shipment(i)}
<1>1. counter \in Nat /\ 1 .. counter \subseteq Ids
  BY CountedFinite DEF LInv, IInv, Sound
<1>2. A \in SUBSET (1 .. counter)
  BY <1>1, SMTT(20), SMTT(40) DEF WindowEnd, get_shipment_count
<1> HIDE DEF A
<1>3. \A i \in 1 .. counter : get_shipment(i)
  BY <1>1, SMT, SMTT(40) DEF LInv, InStep, get_shipment
<1>4. found = A
  BY <1>2, <1>3, Zenon
<1>5. run_system_health_check_range(start_id, size) =
         [sum_of_escrow_balances |-> SumOf(A),
          active_shipments_counted |-> Cardinality(ActiveOf(A)),
          anomalous_shipment_ids |-> LateOf(A)]
  BY <1>4, Zenon DEF run_system_health_check_range, SumOf, EscrowOf, ActiveOf, LateOf, A
<1> QED BY <1>2, <1>5, SMT, SMTT(40) DEF A

\* The escrow of two separate sets of shipments adds up.
LEMMA SumSplits ==
    ASSUME TypeOK, NEW A, NEW B, A \cap B = {}
    PROVE  /\ SumOf(A) \in Nat /\ SumOf(B) \in Nat
           /\ SumOf(A \cup B) = SumOf(A) + SumOf(B)
<1>1. MaxShipments \in Nat /\ \A i \in Ids : ship[i].escrow \in Nat
  BY ConstantTypes, Fields, Zenon DEF TypeOK
<1>2. \A C : /\ EscrowOf(C) \in [1 .. MaxShipments -> Nat]
             /\ EscrowOf(C) \in [1 .. MaxShipments -> Int]
  BY <1>1, SMT, SMTT(40) DEF EscrowOf, Ids
<1>3. \A i \in 1 .. MaxShipments :
          EscrowOf(A \cup B)[i] = EscrowOf(A)[i] + EscrowOf(B)[i]
  BY <1>1, SMT, SMTT(40) DEF EscrowOf, Ids
<1>4. SumOf(A) \in Nat /\ SumOf(B) \in Nat
  BY <1>1, <1>2, SumNat, Zenon DEF SumOf
<1>5. SumOf(A \cup B) = SumOf(A) + SumOf(B)
  BY <1>1, <1>2, <1>3, SumAdd, ZenonT(40) DEF SumOf
<1> QED BY <1>4, <1>5, Zenon

\* No set of shipments has more in escrow than the contract holds.
LEMMA SumCovered ==
    ASSUME TypeOK, Solvent, NEW A
    PROVE  SumOf(A) <= bal[Contract]
<1>1. /\ SumOf(A) \in Nat /\ SumOf(Ids \ A) \in Nat
      /\ SumOf(A \cup (Ids \ A)) = SumOf(A) + SumOf(Ids \ A)
  BY SumSplits, Zenon
<1>2. EscrowOf(A \cup (Ids \ A)) = Owed
  BY DEF EscrowOf, Owed
<1>3. TotalOwed = SumOf(A) + SumOf(Ids \ A)
  BY <1>1, <1>2, ZenonT(40) DEF TotalOwed, SumOf
<1>4. bal[Contract] \in Nat
  BY DEF TypeOK, Accounts
<1> QED BY <1>1, <1>3, <1>4, SMT, SMTT(40) DEF Solvent

\* Nor has a single one.
LEMMA EscrowCovered ==
    ASSUME TypeOK, Solvent, NEW i \in Ids
    PROVE  ship[i].escrow <= bal[Contract]
<1>1. MaxShipments \in Nat /\ \A j \in Ids : ship[j].escrow \in Nat
  BY ConstantTypes, Fields, Zenon DEF TypeOK
<1>2. EscrowOf({i}) \in [1 .. MaxShipments -> Int]
  BY <1>1, SMT, SMTT(40) DEF EscrowOf, Ids
<1>3. /\ i \in 1 .. MaxShipments
      /\ \A j \in 1 .. MaxShipments : j # i => EscrowOf({i})[j] = 0
      /\ EscrowOf({i})[i] = ship[i].escrow
  BY DEF EscrowOf, Ids
<1>4. SumOf({i}) = ship[i].escrow
  BY <1>1, <1>2, <1>3, SumOneTerm, ZenonT(40) DEF SumOf
<1> QED BY <1>4, SumCovered, Zenon

\* Two pages that cover the shipments.
LEMMA PagesAdd ==
    ASSUME LInv, NEW k \in 1 .. 50, NEW l \in 1 .. 50, counter <= k + l
    PROVE  LET a == run_system_health_check_range(1, k)
               b == run_system_health_check_range(k + 1, l)
               whole == run_system_health_check_range(1, 100)
           IN  /\ a.sum_of_escrow_balances + b.sum_of_escrow_balances =
                      whole.sum_of_escrow_balances
               /\ a.active_shipments_counted + b.active_shipments_counted =
                      whole.active_shipments_counted
               /\ a.anomalous_shipment_ids \cap b.anomalous_shipment_ids = {}
               /\ a.anomalous_shipment_ids \cup b.anomalous_shipment_ids =
                      whole.anomalous_shipment_ids
<1>1. TypeOK /\ counter \in Nat
  BY CountedFinite, Zenon DEF LInv, IInv, Sound
<1> DEFINE A == 1 .. WindowEnd(1, k)
           B == k + 1 .. WindowEnd(k + 1, l)
           W == 1 .. WindowEnd(1, 100)
<1>2. A \cap B = {} /\ A \cup B = W
  BY <1>1, SMT, SMTT(40) DEF WindowEnd, get_shipment_count
<1>3. /\ run_system_health_check_range(1, k).sum_of_escrow_balances = SumOf(A)
      /\ run_system_health_check_range(1, k).active_shipments_counted =
             Cardinality(ActiveOf(A))
      /\ run_system_health_check_range(1, k).anomalous_shipment_ids = LateOf(A)
      /\ A \in SUBSET (1 .. counter)
  BY PageReport, SMT, SMTT(40)
<1>4. /\ run_system_health_check_range(k + 1, l).sum_of_escrow_balances = SumOf(B)
      /\ run_system_health_check_range(k + 1, l).active_shipments_counted =
             Cardinality(ActiveOf(B))
      /\ run_system_health_check_range(k + 1, l).anomalous_shipment_ids = LateOf(B)
      /\ B \in SUBSET (1 .. counter)
  BY PageReport, SMTT(20), SMTT(40)
<1>5. /\ run_system_health_check_range(1, 100).sum_of_escrow_balances = SumOf(W)
      /\ run_system_health_check_range(1, 100).active_shipments_counted =
             Cardinality(ActiveOf(W))
      /\ run_system_health_check_range(1, 100).anomalous_shipment_ids = LateOf(W)
  BY PageReport, SMT, SMTT(40)
<1> HIDE DEF A, B, W
<1>6. SumOf(A) + SumOf(B) = SumOf(W)
  BY <1>1, <1>2, SumSplits, Zenon
<1>7. Cardinality(ActiveOf(A)) + Cardinality(ActiveOf(B)) = Cardinality(ActiveOf(W))
  <2>1. /\ ActiveOf(A) \in SUBSET (1 .. counter) /\ ActiveOf(B) \in SUBSET (1 .. counter)
        /\ ActiveOf(A) \cap ActiveOf(B) = {}
        /\ ActiveOf(A) \cup ActiveOf(B) = ActiveOf(W)
    BY <1>2, <1>3, <1>4, ZenonT(40) DEF ActiveOf
  <2> QED BY <1>1, <2>1, DisjointSum, Zenon
<1>8. LateOf(A) \cap LateOf(B) = {} /\ LateOf(A) \cup LateOf(B) = LateOf(W)
  BY <1>2, Zenon DEF LateOf, ActiveOf
<1> QED BY <1>3, <1>4, <1>5, <1>6, <1>7, <1>8, ZenonT(40)

\* What the health check counts as active, in the status counters.
LEMMA ActiveByStatus ==
    ASSUME LInv
    PROVE  Cardinality(ActiveOf(1 .. counter)) =
               get_non_terminal_count - get_status_summary["Disputed"]
                   + get_status_count("PartiallyRefunded")
<1>1. TypeOK /\ counter \in Nat /\ 1 .. counter \subseteq Ids
  BY CountedFinite, Zenon DEF LInv, IInv, Sound
<1>2. \A s \in ShipmentStatus : /\ get_status_count(s) = Cardinality(InStatus(s))
                                /\ get_status_count(s) \in Nat
                                /\ InStatus(s) \in SUBSET (1 .. counter)
  BY <1>1, Zenon DEF LInv, InStep, get_status_count, TypeOK, InStatus
<1> DEFINE C == InStatus("Created")
           T == InStatus("InTransit")
           P == InStatus("AtCheckpoint")
           D == InStatus("PartiallyDelivered")
           R == InStatus("PartiallyRefunded")
<1>3. ActiveOf(1 .. counter) = C \cup T \cup P \cup D \cup R
  <2>1. \A i \in 1 .. counter : ship[i].status \in ShipmentStatus
    BY <1>1, Fields, ZenonT(40) DEF TypeOK
  <2> QED BY <2>1, Zenon DEF ActiveOf, InStatus, ShipmentStatus, Terminal
<1>4. /\ C \in SUBSET (1 .. counter) /\ T \in SUBSET (1 .. counter)
      /\ P \in SUBSET (1 .. counter) /\ D \in SUBSET (1 .. counter)
      /\ R \in SUBSET (1 .. counter)
  BY Zenon DEF InStatus
<1>5. /\ C \cap T = {} /\ (C \cup T) \cap P = {} /\ (C \cup T \cup P) \cap D = {}
      /\ (C \cup T \cup P \cup D) \cap R = {}
  BY Zenon DEF InStatus
<1>6. /\ Cardinality(C) = get_status_count("Created")
      /\ Cardinality(T) = get_status_count("InTransit")
      /\ Cardinality(P) = get_status_count("AtCheckpoint")
      /\ Cardinality(D) = get_status_count("PartiallyDelivered")
      /\ Cardinality(R) = get_status_count("PartiallyRefunded")
  BY <1>2 DEF ShipmentStatus
<1> HIDE DEF C, T, P, D, R
<1>7. Cardinality(C \cup T) = Cardinality(C) + Cardinality(T)
  BY <1>1, <1>4, <1>5, DisjointSum, Zenon
<1>8. Cardinality(C \cup T \cup P) = Cardinality(C \cup T) + Cardinality(P)
  BY <1>1, <1>4, <1>5, DisjointSum, ZenonT(40)
<1>9. Cardinality(C \cup T \cup P \cup D) = Cardinality(C \cup T \cup P) + Cardinality(D)
  BY <1>1, <1>4, <1>5, DisjointSum, ZenonT(40)
<1>10. Cardinality(C \cup T \cup P \cup D \cup R) =
           Cardinality(C \cup T \cup P \cup D) + Cardinality(R)
  BY <1>1, <1>4, <1>5, DisjointSum, ZenonT(40)
<1>11. get_status_summary["Disputed"] = get_status_count("Disputed")
  BY DEF get_status_summary, ShipmentStatus
<1>12. /\ get_status_count("Created") \in Nat /\ get_status_count("InTransit") \in Nat
       /\ get_status_count("AtCheckpoint") \in Nat
       /\ get_status_count("PartiallyDelivered") \in Nat
       /\ get_status_count("PartiallyRefunded") \in Nat
       /\ get_status_count("Disputed") \in Nat
  BY <1>2 DEF ShipmentStatus
<1>13. Cardinality(ActiveOf(1 .. counter)) =
           Cardinality(C) + Cardinality(T) + Cardinality(P) + Cardinality(D)
               + Cardinality(R)
  BY <1>3, <1>7, <1>8, <1>9, <1>10, ZenonT(40)
<1> QED BY <1>6, <1>11, <1>12, <1>13, SMTT(20), SMTT(40) DEF get_non_terminal_count

\* All of n is a hundred percent of it.
LEMMA WholePercentage == ASSUME NEW n \in Nat \ {0} PROVE (n * 100) \div n = 100
<1>1. n * 100 = 100 * n + 0
  BY SMT, SMTT(40)
<1> QED BY <1>1, SMT, SMTT(40)

\* All shipments are in persistent storage.
LEMMA AllPersistent ==
    ASSUME LInv
    PROVE  get_ttl_health_summary.persistent_percentage =
               IF counter = 0 THEN 0 ELSE 100
<1>1. counter \in Nat /\ 1 .. counter \subseteq Ids
  BY CountedFinite, ZenonT(40) DEF LInv, IInv, Sound
<1> DEFINE sampled == IF get_shipment_count < 100 THEN get_shipment_count ELSE 100
           persistent == Cardinality({i \in 1 .. sampled : loc[i] = "persistent"})
<1>2. sampled \in Nat /\ sampled <= counter /\ (sampled = 0 <=> counter = 0)
  BY <1>1, SMTT(20), SMTT(40) DEF get_shipment_count
<1>3. get_ttl_health_summary.persistent_percentage =
          IF sampled = 0 THEN 0 ELSE (persistent * 100) \div sampled
  BY Zenon DEF get_ttl_health_summary
<1> HIDE DEF sampled
<1>4. \A i \in 1 .. sampled : loc[i] = "persistent"
  BY <1>1, <1>2, SMT, SMTT(40) DEF LInv, InStep
<1>5. {i \in 1 .. sampled : loc[i] = "persistent"} = 1 .. sampled
  BY <1>4
<1>6. persistent = sampled
  <2>1. Cardinality(1 .. sampled) = sampled
    BY <1>2, FS_Interval, SMT, SMTT(40)
  <2> QED BY <1>5, <2>1, Zenon
<1> HIDE DEF persistent
<1>7. sampled # 0 => (sampled * 100) \div sampled = 100
  BY <1>2, WholePercentage, Zenon
<1> QED BY <1>2, <1>3, <1>6, <1>7, ZenonT(40)

\* A shipment reported as late can be closed.
LEMMA LateCanClose ==
    ASSUME LInv, NEW A \in SUBSET (1 .. counter), NEW i \in LateOf(A)
    PROVE  /\ preflight_check_shipment_available(i) = "Ok"
           /\ validate_shipment_invariants(Cancelled(ship[i]))
           /\ ship[i].escrow <= bal[Contract]
<1>1. /\ i \in 1 .. counter /\ ship[i].status = "InTransit"
      /\ TypeOK /\ Solvent /\ i \in Ids /\ i <= counter
  BY CountedFinite, SMT, SMTT(40) DEF LateOf, ActiveOf, LInv, IInv, Sound
<1>2. ~ ship[i].finalized
  BY <1>1, ZenonT(40) DEF LInv, IInv, Sound, AtRest, Terminal
<1>3. loc[i] = "persistent"
  BY <1>1 DEF LInv, InStep
<1>4. preflight_check_shipment_available(i) = "Ok"
  BY <1>2, <1>3, Zenon DEF preflight_check_shipment_available
<1>5. /\ ship[i] \in Record /\ ship[i].total \in Nat
  BY <1>1, Fields, Zenon DEF TypeOK
<1>6. /\ Cancelled(ship[i]).status = "Cancelled" /\ Cancelled(ship[i]).escrow = 0
      /\ Cancelled(ship[i]).total = ship[i].total
      /\ Cancelled(ship[i]).finalized = ship[i].finalized
  BY <1>5, Zenon DEF Cancelled, Record
<1>7. validate_shipment_invariants(Cancelled(ship[i]))
  BY <1>2, <1>5, <1>6, SMTT(20), SMTT(40) DEF validate_shipment_invariants
<1> QED BY <1>1, <1>4, <1>7, EscrowCovered, ZenonT(40)

\* The reports agree with one another and with the token contract, for any
\* number of shipments.
THEOREM ReportsAlwaysAgree == LimitedLifecycle => []ReportsAgree
<1>1. LInv => ReportsAgree
  <2> SUFFICES ASSUME LInv PROVE ReportsAgree
    OBVIOUS
  <2> DEFINE whole == run_system_health_check_range(1, 100)
  <2>1. TypeOK /\ Solvent /\ counter \in Nat
    BY CountedFinite, Zenon DEF LInv, IInv, Sound
  <2>2. check_contract_health = whole
    BY Zenon DEF check_contract_health, run_system_health_check, DEFAULT_HEALTH_SAMPLE_LIMIT
  <2>3. /\ whole.sum_of_escrow_balances = SumOf(1 .. WindowEnd(1, 100))
        /\ whole.active_shipments_counted =
               Cardinality(ActiveOf(1 .. WindowEnd(1, 100)))
        /\ whole.anomalous_shipment_ids = LateOf(1 .. WindowEnd(1, 100))
        /\ 1 .. WindowEnd(1, 100) \in SUBSET (1 .. counter)
    BY PageReport, SMTT(20), SMTT(40)
  <2> HIDE DEF whole
  <2>4. ASSUME NEW k \in 1 .. MaxShipments, NEW l \in 1 .. MaxShipments,
               {k, l} \subseteq 1 .. effective_batch_query_limit, counter <= k + l
        PROVE  LET a == check_contract_health_paginated(1, k)
                   b == check_contract_health_paginated(k + 1, l)
               IN  /\ a.sum_of_escrow_balances + b.sum_of_escrow_balances =
                          whole.sum_of_escrow_balances
                   /\ a.active_shipments_counted + b.active_shipments_counted =
                          whole.active_shipments_counted
                   /\ a.anomalous_shipment_ids \cap b.anomalous_shipment_ids = {}
                   /\ a.anomalous_shipment_ids \cup b.anomalous_shipment_ids =
                          whole.anomalous_shipment_ids
    <3>1. k \in 1 .. 50 /\ l \in 1 .. 50
      BY <2>4, Zenon DEF effective_batch_query_limit, MAX_BATCH_QUERY_SIZE
    <3>2. /\ check_contract_health_paginated(1, k) = run_system_health_check_range(1, k)
          /\ check_contract_health_paginated(k + 1, l) =
                 run_system_health_check_range(k + 1, l)
      BY <3>1, Zenon DEF check_contract_health_paginated, effective_batch_query_limit,
                  MAX_BATCH_QUERY_SIZE
    <3>3. LET a == run_system_health_check_range(1, k)
              b == run_system_health_check_range(k + 1, l)
          IN  /\ a.sum_of_escrow_balances + b.sum_of_escrow_balances =
                     whole.sum_of_escrow_balances
              /\ a.active_shipments_counted + b.active_shipments_counted =
                     whole.active_shipments_counted
              /\ a.anomalous_shipment_ids \cap b.anomalous_shipment_ids = {}
              /\ a.anomalous_shipment_ids \cup b.anomalous_shipment_ids =
                     whole.anomalous_shipment_ids
      BY <2>4, <3>1, PagesAdd, ZenonT(40) DEF whole
    <3> QED BY <3>2, <3>3, Zenon
  <2>5. whole.sum_of_escrow_balances <= bal[Contract]
    BY <2>1, <2>3, SumCovered, Zenon
  <2>6. ASSUME counter <= DEFAULT_HEALTH_SAMPLE_LIMIT
        PROVE  whole.active_shipments_counted =
                   get_non_terminal_count - get_status_summary["Disputed"]
                       + get_status_count("PartiallyRefunded")
    <3>1. 1 .. WindowEnd(1, 100) = 1 .. counter
      BY <2>1, <2>6, SMT, SMTT(40) DEF WindowEnd, get_shipment_count, DEFAULT_HEALTH_SAMPLE_LIMIT
    <3> QED BY <2>3, <3>1, ActiveByStatus, ZenonT(40)
  <2>7. \A i \in whole.anomalous_shipment_ids :
           /\ preflight_check_shipment_available(i) = "Ok"
           /\ validate_shipment_invariants(Cancelled(ship[i]))
           /\ ship[i].escrow <= bal[Contract]
    BY <2>3, LateCanClose, ZenonT(40)
  <2> QED BY <2>2, <2>4, <2>5, <2>6, <2>7, AllPersistent, ZenonT(40) DEF ReportsAgree
<1> QED BY <1>1, LifecycleInvariance, PTL

(***************************************************************************)
(* What a step may do.                                                     *)
(***************************************************************************)

\* Cancelled is left by no handler, and Delivered only by a dispute over an
\* escrow that was not yet released, under any interleaving of the handlers.
THEOREM TerminalStaysTerminal == LimitedLifecycle => TerminalDiscipline
<1> DEFINE Keeping(i) ==
              loc[i] # "absent" /\ loc'[i] # "absent" =>
                  /\ ship[i].status = "Cancelled" => ship'[i].status = "Cancelled"
                  /\ ship[i].status = "Delivered" /\ ship'[i].status # "Delivered" =>
                        ship'[i].status = "Disputed" /\ ship[i].escrow > 0
<1>1. LInv /\ [LimNext]_<<vars, limVars>> => [\A i \in Ids : Keeping(i)]_vars
  <2> SUFFICES ASSUME LInv, LifecycleNext, NEW i \in Ids PROVE Keeping(i)
    BY Zenon DEF LimNext, set_shipment_limit, set_company_shipment_limit
  <2>1. Sound /\ TypeOK /\ ship \in [Ids -> Record] /\ counter \in Nat
    BY CountedFinite, Zenon DEF LInv, IInv, Sound, TypeOK
  <2>2. CASE Tick \/ pause \/ unpause
    BY <2>2, Zenon DEF Tick, pause, unpause
  <2>3. CASE CreateNext
    <3>1. PICK c \in Companies, n \in Nat : Creates(c, n)
      BY <2>1, <2>3, EveryCreation, Zenon
    <3>2. i \in Fresh(n) => loc[i] = "absent"
      BY <2>1, <3>1, SMTT(20), SMTT(40) DEF LInv, InStep, Fresh
    <3> QED BY <3>1, <3>2, Zenon DEF Creates
  <2>4. CASE \E k \in Ids : DeliverNext(k) \/ SettleNext(k)
    <3>1. PICK k \in Ids : DeliverNext(k) \/ SettleNext(k)
      BY <2>4, Zenon
    <3>2. PICK new : Call(k, new)
      BY <2>1, <3>1, EveryCall, ZenonT(40)
    <3>3. /\ ship' = [ship EXCEPT ![k] = new]
          /\ ~ ship[k].finalized /\ EndsWell(ship[k], new)
          /\ ~ Reopened(ship[k]) /\ ship[k].escrow \in Nat
      BY <2>1, <3>2, Fields, ZenonT(40) DEF Call, Writes, set_shipment, LInv, InStep
    <3>4. ship[k].status = "Delivered" => ship[k].escrow > 0
      BY <3>3, SMT, SMTT(40) DEF Reopened
    <3> QED BY <2>1, <3>3, <3>4, Zenon DEF EndsWell
  <2> QED BY <2>2, <2>3, <2>4, Zenon DEF LifecycleNext
<1>2. LimitedLifecycle => []LInv
  BY LifecycleInvariance, Zenon
<1> QED BY <1>1, <1>2, PTL DEF LimitedLifecycle, TerminalDiscipline

\* The active count bounds the shipments under way.
LiveWithinCount ==
    \A c \in Companies : /\ Cardinality(LiveShipments(c)) \in Nat
                         /\ activeCount[c] \in Nat
                         /\ Cardinality(LiveShipments(c)) <= activeCount[c]

\* Every shipment under way is counted.
LEMMA LiveCounted == LInv => LiveWithinCount
<1> SUFFICES ASSUME LInv, NEW c \in Companies
             PROVE  /\ Cardinality(LiveShipments(c)) \in Nat
                    /\ activeCount[c] \in Nat
                    /\ Cardinality(LiveShipments(c)) <= activeCount[c]
  BY Zenon DEF LiveWithinCount
<1>1. TypeOK /\ activeCount[c] \in Nat /\ counter \in Nat
  BY CountedFinite, Zenon DEF LInv, IInv, Sound, TypeOK
<1>2. LiveShipments(c) \in SUBSET CountedOf(c)
  BY <1>1, SMT, SMTT(40) DEF LiveShipments, CountedOf, Counted, get_shipment, LInv, InStep, Ids
<1>3. IsFiniteSet(CountedOf(c)) /\ Cardinality(CountedOf(c)) \in Nat
  BY <1>1, CountedFinite, Zenon
<1>4. /\ Cardinality(LiveShipments(c)) \in Nat
      /\ Cardinality(LiveShipments(c)) <= Cardinality(CountedOf(c))
  BY <1>2, <1>3, FS_Subset, FS_CardinalityType, ZenonT(40)
<1>5. Cardinality(CountedOf(c)) <= activeCount[c]
  BY DEF LInv, InStep
<1> QED BY <1>1, <1>3, <1>4, <1>5, SMTT(20), SMTT(40)

\* The limit on the active count is a limit on the shipments under way,
\* whatever limits the admin sets in between.
THEOREM LimitAlwaysHolds == LimitedLifecycle => LimitHolds
<1> DEFINE Bounded(c) ==
              LET live == Cardinality(LiveShipments(c)') IN
              /\ live <= get_active_shipment_count(c)'
              /\ get_active_shipment_count(c)' > get_active_shipment_count(c) =>
                    live <= get_effective_shipment_limit(c)
<1>1. LInv /\ LiveWithinCount' /\ [LimNext]_<<vars, limVars>>
          => [\A c \in Companies : Bounded(c)]_<<vars, limVars>>
  <2> SUFFICES ASSUME LInv, LiveWithinCount', LimNext, NEW c \in Companies
               PROVE  Bounded(c)
    OBVIOUS
  <2>1. /\ Cardinality(LiveShipments(c)') \in Nat /\ activeCount'[c] \in Nat
        /\ Cardinality(LiveShipments(c)') <= activeCount'[c]
    BY DEF LiveWithinCount
  <2>2. activeCount[c] \in Nat /\ get_effective_shipment_limit(c) \in Int
    <3>1. activeCount[c] \in Nat
      BY DEF LInv, IInv, Sound, TypeOK
    <3>2. limit \in Int /\ companyLimit[c] \in Int
      BY ConstantsAssumption, SMT, SMTT(40) DEF LInv, LimitsOK, NoLimit
    <3> QED BY <3>1, <3>2, Zenon DEF get_effective_shipment_limit,
                get_company_shipment_limit, get_shipment_limit
  <2>3. activeCount'[c] > activeCount[c] =>
            activeCount'[c] <= get_effective_shipment_limit(c)
    BY <2>2, SMT, SMTT(40) DEF LimNext, WithinLimit, set_shipment_limit,
                set_company_shipment_limit, vars
  <2> QED BY <2>1, <2>2, <2>3, SMTT(20), SMTT(40) DEF get_active_shipment_count
<1>2. LInv => LiveWithinCount
  BY LiveCounted
<1>3. LimitedLifecycle => []LInv
  BY LifecycleInvariance
<1> QED BY <1>1, <1>2, <1>3, PTL DEF LimitedLifecycle, LimitHolds
=============================================================================
