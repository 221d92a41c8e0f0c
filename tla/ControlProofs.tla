--------------------------- MODULE ControlProofs ----------------------------
(***************************************************************************)
(* Proofs about the controls on a call.  Roles, for any set of accounts:   *)
(* the two places a role is kept agree, and the privileged roles come from *)
(* the admin.  Breaker, for every set of presets and every length of the   *)
(* step between ledgers, whether or not the report of a failed transfer    *)
(* survives.  Throttle, for any companies, keys, timing and configurations *)
(* offered: the quota and the distance between calls.                      *)
(***************************************************************************)
EXTENDS Roles, Breaker, Throttle, SumsProofs, TLAPS

(***************************************************************************)
(* Roles.                                                                  *)
(***************************************************************************)

\* The inductive invariant: RolesAgree speaks of functions and sets whose
\* types it needs.
RolesInv == TypeOK /\ RolesAgree

\* initialize makes the admin a company in both places and nobody anything
\* else.
LEMMA InitRoles == Init => RolesInv
<1> SUFFICES ASSUME Init PROVE RolesInv
  OBVIOUS
<1>1. held \in [Addresses -> SUBSET AllRoles]
  BY DEF Init, AllRoles
<1>2. primary \in [Addresses -> AllRoles \cup {"Unassigned"}]
  BY DEF Init, AllRoles
<1>3. audit \in Seq(AuditLogEntry)
  BY SMT, SMTT(40) DEF Init
<1>4. TypeOK
  BY <1>1, <1>2, <1>3, Zenon DEF Init, TypeOK
<1>5. RolesAgree
  BY DEF Init, RolesAgree, get_role, has_role
<1> QED  BY <1>4, <1>5 DEF RolesInv

\* store_audit_entry keeps the log a sequence of entries: the events the
\* handlers log are event types, and both addresses are accounts.
LEMMA LogType ==
  ASSUME NEW event \in AuditEventType, NEW actor \in Addresses,
         NEW target \in Addresses, TypeOK, Log(event, actor, target)
  PROVE  audit' \in Seq(AuditLogEntry)
<1>1. [event |-> event, actor |-> actor, target |-> target] \in AuditLogEntry
  BY DEF AuditLogEntry
<1>2. audit \in Seq(AuditLogEntry)
  BY DEF TypeOK
<1>3. audit' = Append(audit, [event |-> event, actor |-> actor, target |-> target])
  BY DEF Log, store_audit_entry
<1> QED  BY <1>1, <1>2, <1>3, SMT, SMTT(40)

\* Granting a role, to a party or to a new admin, puts it in both places and
\* takes nothing from anybody.
LEMMA GrantStep ==
  ASSUME NEW r \in AllRoles, NEW t \in Addresses, RolesInv, set_role(t, r)
  PROVE  /\ held' \in [Addresses -> SUBSET AllRoles]
         /\ primary' \in [Addresses -> AllRoles \cup {"Unassigned"}]
         /\ \A a \in Addresses :
               /\ held[a] \subseteq held'[a]
               /\ primary'[a] # "Unassigned" => primary'[a] \in held'[a]
         /\ r \in held'[t]
  BY DEF RolesInv, TypeOK, RolesAgree, set_role, get_role, has_role

\* Every grant, by an operator or by the admin, keeps the invariant.
LEMMA AddStep ==
  ASSUME NEW a \in Addresses, NEW t \in Addresses, NEW r \in AllRoles, RolesInv,
         set_role(t, r), Log("RoleAssigned", a, t), caller' = a,
         UNCHANGED <<admin, paused, suspensions, whitelist>>
  PROVE  RolesInv'
<1>1. audit' \in Seq(AuditLogEntry)
  BY LogType DEF RolesInv, AuditEventType
<1>2. TypeOK'
  BY <1>1, GrantStep DEF RolesInv, TypeOK, suspensions
<1>3. RolesAgree'
  BY GrantStep DEF RolesInv, TypeOK, RolesAgree, get_role, has_role
<1> QED  BY <1>2, <1>3 DEF RolesInv

\* revoke_role clears the legacy slot together with the role it named, and the
\* admin, who may not revoke themselves, stays a company.
LEMMA RevokeStep ==
  ASSUME NEW a \in Addresses, NEW t \in Addresses, RolesInv, revoke_role(a, t)
  PROVE  RolesInv'
<1>1. audit' \in Seq(AuditLogEntry)
  BY LogType DEF RolesInv, AuditEventType, revoke_role
<1>2. TypeOK'
  BY <1>1 DEF RolesInv, TypeOK, revoke_role, revoke_stored_role, get_role,
              suspensions
<1>3. RolesAgree'
  BY DEF RolesInv, TypeOK, RolesAgree, revoke_role, revoke_stored_role,
         get_role, has_role, require_admin
<1> QED  BY <1>2, <1>3 DEF RolesInv

\* Suspending and reactivating leave the roles as they are.
LEMMA SuspendStep ==
  ASSUME NEW a \in Addresses, NEW t \in Addresses, RolesInv,
         \/ suspend_role(a, t) \/ reactivate_role(a, t)
         \/ suspend_carrier(a, t) \/ reactivate_carrier(a, t)
         \/ suspend_company(a, t) \/ reactivate_company(a, t)
  PROVE  RolesInv'
<1>1. RolesAgree'
  BY DEF RolesInv, RolesAgree, suspend_role, reactivate_role, suspend_carrier,
         reactivate_carrier, suspend_company, reactivate_company, roles,
         get_role, has_role
<1>2. CASE suspend_role(a, t)
  <2>1. audit' \in Seq(AuditLogEntry)
    BY <1>2, LogType DEF RolesInv, AuditEventType, suspend_role
  <2>2. TypeOK'
    BY <1>2, <2>1, SMT, SMTT(40) DEF RolesInv, TypeOK, suspend_role, suspend_stored_role,
                      get_role, roles
  <2> QED  BY <1>1, <2>2 DEF RolesInv
<1>3. CASE reactivate_role(a, t)
  <2>1. audit' \in Seq(AuditLogEntry)
    BY <1>3, LogType DEF RolesInv, AuditEventType, reactivate_role
  <2>2. TypeOK'
    BY <1>3, <2>1, Zenon DEF RolesInv, TypeOK, reactivate_role, reactivate_stored_role,
                      get_role, roles
  <2> QED  BY <1>1, <2>2 DEF RolesInv
<1>4. CASE suspend_carrier(a, t) \/ reactivate_carrier(a, t)
  <2>1. TypeOK'
    BY <1>4 DEF RolesInv, TypeOK, suspend_carrier, reactivate_carrier,
                suspend_stored_carrier, reactivate_stored_carrier, roles
  <2> QED  BY <1>1, <2>1 DEF RolesInv
<1>5. CASE suspend_company(a, t) \/ reactivate_company(a, t)
  <2>1. TypeOK'
    BY <1>5 DEF RolesInv, TypeOK, suspend_company, reactivate_company,
                suspend_stored_company, reactivate_stored_company, roles
  <2> QED  BY <1>1, <2>1 DEF RolesInv
<1> QED  BY <1>2, <1>3, <1>4, <1>5, Zenon

\* The whitelist and the pause switch touch no role.
LEMMA OtherStep ==
  ASSUME NEW a \in Addresses, NEW t \in Addresses, RolesInv,
         \/ pause(a) \/ unpause(a)
         \/ add_carrier_to_whitelist(a, t) \/ remove_carrier_from_whitelist(a, t)
  PROVE  RolesInv'
<1>1. RolesAgree'
  BY DEF RolesInv, RolesAgree, pause, unpause, add_carrier_to_whitelist,
         remove_carrier_from_whitelist, roles, get_role, has_role
<1>2. CASE pause(a) \/ unpause(a)
  <2>1. TypeOK'
    BY <1>2, Zenon DEF RolesInv, TypeOK, pause, unpause, roles, suspensions
  <2> QED  BY <1>1, <2>1 DEF RolesInv
<1>3. CASE add_carrier_to_whitelist(a, t)
  <2>1. audit' \in Seq(AuditLogEntry)
    BY <1>3, LogType DEF RolesInv, AuditEventType, add_carrier_to_whitelist
  <2>2. TypeOK'
    BY <1>3, <2>1, SMT, SMTT(40) DEF RolesInv, TypeOK, add_carrier_to_whitelist,
                      set_whitelisted, roles, suspensions
  <2> QED  BY <1>1, <2>2 DEF RolesInv
<1>4. CASE remove_carrier_from_whitelist(a, t)
  <2>1. TypeOK'
    BY <1>4 DEF RolesInv, TypeOK, remove_carrier_from_whitelist,
                remove_whitelisted, roles, suspensions
  <2> QED  BY <1>1, <2>1 DEF RolesInv
<1> QED  BY <1>2, <1>3, <1>4, Zenon

\* Either way of changing the admin makes the new one a company.
LEMMA TransferStep ==
  ASSUME NEW a \in Addresses, NEW t \in Addresses, RolesInv,
         accept_admin_transfer(t) \/ ExecuteTransferAdmin(a, t)
  PROVE  RolesInv'
<1>1. "Company" \in AllRoles /\ set_role(t, "Company")
  BY DEF AllRoles, accept_admin_transfer, ExecuteTransferAdmin, set_company_role
<1>2. admin' = t /\ caller' \in Addresses
  BY DEF accept_admin_transfer, ExecuteTransferAdmin
<1>3. audit' \in Seq(AuditLogEntry)
  <2>1. CASE accept_admin_transfer(t)
    BY <2>1, LogType DEF RolesInv, TypeOK, AuditEventType, accept_admin_transfer
  <2>2. CASE ExecuteTransferAdmin(a, t)
    BY <2>2 DEF RolesInv, TypeOK, ExecuteTransferAdmin
  <2> QED  BY <2>1, <2>2, Zenon
<1>4. UNCHANGED <<paused, suspensions, whitelist>>
  BY DEF accept_admin_transfer, ExecuteTransferAdmin
<1>5. TypeOK'
  BY <1>1, <1>2, <1>3, <1>4, GrantStep, Zenon DEF RolesInv, TypeOK, suspensions
<1>6. RolesAgree'
  BY <1>1, <1>2, GrantStep DEF RolesInv, RolesAgree, get_role, has_role
<1> QED  BY <1>5, <1>6 DEF RolesInv

\* Every entry point keeps the invariant.
LEMMA RolesInvariant == Spec => []RolesInv
<1>1. RolesInv /\ [Next]_vars => RolesInv'
  <2> SUFFICES ASSUME RolesInv, [Next]_vars PROVE RolesInv'
    OBVIOUS
  <2>1. CASE UNCHANGED vars
    BY <2>1 DEF RolesInv, TypeOK, RolesAgree, get_role, has_role, vars, roles,
                suspensions
  <2>2. CASE \E a, t \in Addresses : Administer(a, t)
    <3>1. PICK a \in Addresses, t \in Addresses : Administer(a, t)
      BY <2>2
    <3>2. CASE add_company(a, t) \/ add_carrier(a, t)
      BY <3>2, AddStep DEF add_company, add_carrier, AddByOperator, AllRoles
    <3>3. CASE add_guardian(a, t) \/ add_operator(a, t)
      BY <3>3, AddStep DEF add_guardian, add_operator, AddByAdmin, AllRoles
    <3>4. CASE revoke_role(a, t) \/ remove_guardian(a, t) \/ remove_operator(a, t)
      BY <3>4, RevokeStep DEF remove_guardian, remove_operator
    <3> QED  BY <3>1, <3>2, <3>3, <3>4, SuspendStep DEF Administer
  <2>3. CASE \E a \in Addresses : pause(a) \/ unpause(a)
    BY <2>3, OtherStep
  <2>4. CASE \E a, t \in Addresses : \/ add_carrier_to_whitelist(a, t)
                                     \/ remove_carrier_from_whitelist(a, t)
    BY <2>4, OtherStep
  <2>5. CASE \E a, t \in Addresses :
                accept_admin_transfer(t) \/ ExecuteTransferAdmin(a, t)
    BY <2>5, TransferStep
  <2> QED  BY <2>1, <2>2, <2>3, <2>4, <2>5 DEF Next
<1> QED  BY <1>1, InitRoles, PTL DEF Spec

\* The role the legacy slot names is one its holder has, and the admin is
\* always a company, for every set of accounts and roles handed out and
\* however often the admin changes (storage.rs, set_role, revoke_role).
THEOREM RolesAlwaysAgree == Spec => []RolesAgree
<1>1. RolesInv => RolesAgree
  BY DEF RolesInv
<1> QED  BY <1>1, RolesInvariant, PTL

-----------------------------------------------------------------------------

\* An account's privileged roles: has_role and not suspended by suspend_role.
Privileged(a) == (held[a] \ suspended[a]) \cap {"Guardian", "Operator"}

\* require_role asks no more of a Guardian or an Operator than the two flags.
LEMMA PrivilegedIsEffective ==
  ASSUME NEW a \in Addresses
  PROVE  Effective(a) \cap {"Guardian", "Operator"} = Privileged(a)
  BY DEF Effective, Privileged, require_role, has_role, is_role_suspended, AllRoles

\* A grant of a role other than these two gives nobody a privileged role.
LEMMA PlainGrant ==
  ASSUME TypeOK, NEW r \in {"Company", "Carrier"}, NEW t \in Addresses,
         set_role(t, r), UNCHANGED suspended, NEW b \in Addresses
  PROVE  Privileged(b)' \subseteq Privileged(b)
  BY DEF TypeOK, set_role, Privileged

\* Neither does a step that only takes roles away or suspends them.
LEMMA PlainLoss ==
  ASSUME NEW b \in Addresses, held'[b] \subseteq held[b],
         suspended[b] \subseteq suspended'[b]
  PROVE  Privileged(b)' \subseteq Privileged(b)
  BY DEF Privileged

\* A call that gives somebody a privileged role was signed by the admin.
LEMMA PrivilegeStep ==
  ASSUME TypeOK, [Next]_vars, NEW b \in Addresses, caller' # admin
  PROVE  Privileged(b)' \subseteq Privileged(b)
<1>1. CASE UNCHANGED vars
  BY <1>1, PlainLoss DEF vars, roles, suspensions
<1>2. ASSUME NEW a \in Addresses, NEW t \in Addresses, Administer(a, t)
      PROVE  Privileged(b)' \subseteq Privileged(b)
  <2>1. CASE add_company(a, t) \/ add_carrier(a, t)
    BY <2>1, PlainGrant DEF add_company, add_carrier, AddByOperator, suspensions
  <2>2. CASE add_guardian(a, t) \/ add_operator(a, t) \/ reactivate_role(a, t)
    BY <2>2, Zenon DEF add_guardian, add_operator, AddByAdmin, reactivate_role,
                require_admin
  <2>3. CASE revoke_role(a, t) \/ remove_guardian(a, t) \/ remove_operator(a, t)
    <3>1. held'[b] \subseteq held[b] /\ suspended' = suspended
      BY <2>3, ZenonT(40) DEF TypeOK, revoke_role, remove_guardian, remove_operator,
                  revoke_stored_role, suspensions
    <3> QED  BY <3>1, PlainLoss, Zenon
  <2>4. CASE suspend_role(a, t)
    <3>1. held' = held /\ suspended[b] \subseteq suspended'[b]
      BY <2>4, Zenon DEF TypeOK, suspend_role, suspend_stored_role, roles
    <3> QED  BY <3>1, PlainLoss
  <2>5. CASE \/ suspend_carrier(a, t) \/ reactivate_carrier(a, t)
             \/ suspend_company(a, t) \/ reactivate_company(a, t)
    BY <2>5, PlainLoss, Zenon DEF suspend_carrier, reactivate_carrier, suspend_company,
                           reactivate_company, roles
  <2> QED  BY <1>2, <2>1, <2>2, <2>3, <2>4, <2>5, Zenon DEF Administer
<1>3. CASE \E a \in Addresses : pause(a) \/ unpause(a)
  BY <1>3, PlainLoss, Zenon DEF pause, unpause, roles, suspensions
<1>4. CASE \E a, t \in Addresses : \/ add_carrier_to_whitelist(a, t)
                                   \/ remove_carrier_from_whitelist(a, t)
  BY <1>4, PlainLoss DEF add_carrier_to_whitelist, remove_carrier_from_whitelist,
                         roles, suspensions
<1>5. CASE \E a, t \in Addresses :
              accept_admin_transfer(t) \/ ExecuteTransferAdmin(a, t)
  BY <1>5, PlainGrant DEF accept_admin_transfer, ExecuteTransferAdmin,
                          set_company_role, suspensions
<1> QED  BY <1>1, <1>2, <1>3, <1>4, <1>5, Zenon DEF Next

\* The Guardian and Operator roles become usable only by a call the admin
\* signed, for every set of accounts; an operator can hand out the other two
\* and lift suspensions of parties, never these (lib.rs, add_guardian,
\* add_operator, reactivate_role).
THEOREM PrivilegesComeFromAdmin == Spec => PrivilegeFromAdmin
<1> DEFINE Change == \A a \in Addresses :
              (Effective(a)' \ Effective(a)) \cap {"Guardian", "Operator"} # {} =>
                 caller' = admin
<1>1. TypeOK /\ [Next]_vars => Change
  <2> SUFFICES ASSUME TypeOK, [Next]_vars, NEW a \in Addresses, caller' # admin
               PROVE  (Effective(a)' \ Effective(a)) \cap {"Guardian", "Operator"} = {}
    OBVIOUS
  <2>1. Privileged(a)' \subseteq Privileged(a)
    BY PrivilegeStep
  <2>2. Effective(a)' \cap {"Guardian", "Operator"} = Privileged(a)'
    BY DEF Effective, Privileged, require_role, has_role, is_role_suspended,
           AllRoles
  <2> QED  BY <2>1, <2>2, PrivilegedIsEffective
<1>2. RolesInv => TypeOK
  BY DEF RolesInv
<1> QED  BY <1>1, <1>2, RolesInvariant, PTL DEF Spec, PrivilegeFromAdmin

(***************************************************************************)
(* The circuit breaker.                                                    *)
(***************************************************************************)

\* The inductive invariant.  OpenShields compares quiet with the timeout while
\* should_allow_request compares open_for, so the invariant orders the two; a
\* breaker whose failures are discarded never opens at all.  A closed breaker
\* is one failure short of the largest threshold, or shorter.
BreakerInv ==
    /\ BreakerTypeOK
    /\ breaker.state \in {"Closed", "Open"} /\ breaker.half_open_requests = 0
    /\ breaker.state = "Open" => KeepFailures /\ breaker.open_for <= quiet
    /\ breaker.state = "Closed" => breaker.failure_count < MAX_FAILURE_THRESHOLD
    /\ CountBounded

\* The named configurations are within the limits.
LEMMA NamedConfigs == default \in Configs /\ strict \in Configs /\ permissive \in Configs
<1>1. MAX_RECOVERY_TIMEOUT \in Nat /\ MAX_RECOVERY_TIMEOUT >= 600
  BY SMT, SMTT(40) DEF MAX_RECOVERY_TIMEOUT
<1>2. 300 \in 0 .. MAX_RECOVERY_TIMEOUT /\ 600 \in 0 .. MAX_RECOVERY_TIMEOUT
      /\ 60 \in 0 .. MAX_RECOVERY_TIMEOUT
  BY <1>1, SMT, SMTT(40)
<1>3. {1, 3, 5, 10} \subseteq 1 .. MAX_FAILURE_THRESHOLD
      /\ {1, 3, 5} \subseteq 1 .. MAX_HALF_OPEN_REQUESTS
  BY SMT, SMTT(40) DEF MAX_FAILURE_THRESHOLD, MAX_HALF_OPEN_REQUESTS
<1> QED  BY <1>2, <1>3, ZenonT(40) DEF default, strict, permissive, CircuitBreakerConfig, Configs

\* The configuration resolve returns is within the limits (circuit_breaker.rs,
\* CircuitBreakerPreset::resolve).
LEMMA ResolveType ==
    ASSUME NEW p \in Presets, Resolves(p)
    PROVE  resolve(p) \in Configs
<1>1. p.preset \in {"Default", "Strict", "Permissive", "Custom"}
      /\ p.config \in [failure_threshold : Nat, recovery_timeout : Nat,
                       half_open_max_requests : Nat]
  BY BreakerAssumption
<1>2. CASE p.preset = "Custom"
  <2>1. resolve(p) = p.config
    BY <1>2 DEF resolve
  <2> QED  BY <1>1, <1>2, <2>1 DEF Resolves, Configs
<1>3. CASE p.preset # "Custom"
  <2>1. resolve(p) \in {default, strict, permissive}
    BY <1>1, <1>3 DEF resolve
  <2> QED  BY <2>1, NamedConfigs
<1> QED  BY <1>2, <1>3

\* A new breaker satisfies the invariant, under any configuration.
LEMMA NewIsFine ==
    /\ new \in [state : {"Closed", "Open", "HalfOpen"}, failure_count : Nat,
                open_for : 0 .. Horizon, half_open_requests : Nat]
    /\ new.state = "Closed" /\ new.half_open_requests = 0 /\ new.failure_count = 0
  BY BreakerAssumption, SMT, SMTT(40) DEF new

\* The breaker before the first transfer, under the default configuration, which
\* get_config falls back to, satisfies the invariant.
LEMMA InitBreaker == BreakerInit => BreakerInv
<1> SUFFICES ASSUME BreakerInit PROVE BreakerInv
  OBVIOUS
<1> QED  BY NamedConfigs, NewIsFine, BreakerAssumption, SMT, SMTT(40)
         DEF BreakerInit, BreakerInv, BreakerTypeOK, CountBounded, MAX_FAILURE_THRESHOLD

\* What an admitted transfer leaves when it succeeds: a breaker that was open
\* closes, one that was closed stays as it is.
LEMMA SuccessShape ==
    ASSUME BreakerInv, Allows(breaker)
    PROVE  record_success(Asked(breaker)) =
              IF breaker.state = "Open"
                THEN [breaker EXCEPT !.state = "Closed", !.failure_count = 0]
                ELSE breaker
<1>1. breaker \in [state : {"Closed", "Open", "HalfOpen"}, failure_count : Nat,
                   open_for : 0 .. Horizon, half_open_requests : Nat]
      /\ breaker.state \in {"Closed", "Open"} /\ breaker.half_open_requests = 0
  BY DEF BreakerInv, BreakerTypeOK
<1>2. CASE breaker.state = "Closed"
  BY <1>1, <1>2 DEF Asked, record_success
<1>3. CASE breaker.state = "Open"
  <2>1. Asked(breaker) = [breaker EXCEPT !.state = "HalfOpen", !.half_open_requests = 1]
    BY <1>3 DEF Asked
  <2> QED  BY <1>1, <1>3, <2>1, Zenon DEF record_success
<1> QED  BY <1>1, <1>2, <1>3

\* What it leaves when it fails: an open breaker starts its timeout again, a
\* closed one counts and opens at the threshold.
LEMMA FailureShape ==
    ASSUME BreakerInv, Allows(breaker)
    PROVE  record_failure(Asked(breaker)) =
              IF breaker.state = "Open" THEN [breaker EXCEPT !.open_for = 0]
              ELSE IF breaker.failure_count + 1 >= breakerConfig.failure_threshold
                THEN [breaker EXCEPT !.failure_count = breaker.failure_count + 1,
                                     !.state = "Open", !.open_for = 0]
                ELSE [breaker EXCEPT !.failure_count = breaker.failure_count + 1]
<1>1. breaker \in [state : {"Closed", "Open", "HalfOpen"}, failure_count : Nat,
                   open_for : 0 .. Horizon, half_open_requests : Nat]
      /\ breaker.state \in {"Closed", "Open"} /\ breaker.half_open_requests = 0
  BY DEF BreakerInv, BreakerTypeOK
<1>2. CASE breaker.state = "Closed"
  BY <1>1, <1>2 DEF Asked, record_failure
<1>3. CASE breaker.state = "Open"
  <2> DEFINE b == [breaker EXCEPT !.state = "HalfOpen", !.half_open_requests = 1]
  <2>1. Asked(breaker) = b
    BY <1>3 DEF Asked
  <2>2. b.state = "HalfOpen"
    BY <1>1
  <2>3. record_failure(b) =
           [b EXCEPT !.state = "Open", !.open_for = 0, !.half_open_requests = 0]
    <3> HIDE DEF b
    <3> QED  BY <2>2 DEF record_failure
  <2>4. [b EXCEPT !.state = "Open", !.open_for = 0, !.half_open_requests = 0]
           = [breaker EXCEPT !.open_for = 0]
    BY <1>1, <1>3, ZenonT(40)
  <2> HIDE DEF b
  <2> QED  BY <1>3, <2>1, <2>3, <2>4, Zenon
<1> QED  BY <1>1, <1>2, <1>3, Zenon

\* Every step keeps the invariant: the passage of time, a transfer either way,
\* a reset and a change of configuration, which may lower the threshold below
\* the count.
LEMMA NextBreaker == BreakerInv /\ [BreakerNext]_breakerVars => BreakerInv'
<1> SUFFICES ASSUME BreakerInv, [BreakerNext]_breakerVars PROVE BreakerInv'
  OBVIOUS
<1> USE DEF BreakerInv, BreakerTypeOK, CountBounded
<1>0. breakerConfig.failure_threshold \in Nat /\ breakerConfig.failure_threshold <= 1000
  BY SMTT(20), SMTT(40) DEF Configs, MAX_FAILURE_THRESHOLD
<1>1. CASE UNCHANGED breakerVars
  BY <1>1 DEF breakerVars
<1>2. CASE Tick
  <2>1. \A x, y \in 0 .. Horizon :
           /\ Older(x) \in 0 .. Horizon
           /\ x <= y => Older(x) <= Older(y)
    BY BreakerAssumption, SMT, SMTT(40) DEF Older
  <2> QED  BY <1>2, <2>1 DEF Tick
<1>3. CASE TransferSucceeds
  <2>1. breaker' = IF breaker.state = "Open"
                     THEN [breaker EXCEPT !.state = "Closed", !.failure_count = 0]
                     ELSE breaker
    BY <1>3, SuccessShape DEF TransferSucceeds
  <2>2. quiet' = 0 /\ failures' = 0 /\ breakerConfig' = breakerConfig
    BY <1>3 DEF TransferSucceeds
  <2>3. CASE breaker.state = "Open"
    <3>1. /\ breaker' \in [state : {"Closed", "Open", "HalfOpen"}, failure_count : Nat,
                           open_for : 0 .. Horizon, half_open_requests : Nat]
          /\ breaker'.state = "Closed" /\ breaker'.failure_count = 0
          /\ breaker'.half_open_requests = 0
      BY <2>1, <2>3, Zenon
    <3> QED  BY <2>2, <3>1, BreakerAssumption, SMT, SMTT(40) DEF MAX_FAILURE_THRESHOLD
  <2>4. CASE breaker.state = "Closed"
    BY <2>1, <2>2, <2>4, BreakerAssumption, SMT, SMTT(40)
  <2> QED  BY <2>3, <2>4
<1>4. CASE TransferFails /\ KeepFailures
  <2>1. breaker' = IF breaker.state = "Open" THEN [breaker EXCEPT !.open_for = 0]
                   ELSE IF breaker.failure_count + 1 >= breakerConfig.failure_threshold
                     THEN [breaker EXCEPT !.failure_count = breaker.failure_count + 1,
                                          !.state = "Open", !.open_for = 0]
                     ELSE [breaker EXCEPT !.failure_count = breaker.failure_count + 1]
    BY <1>4, FailureShape DEF TransferFails
  <2>2. quiet' = 0 /\ failures' \in 0 .. MaxRun /\ breakerConfig' = breakerConfig
    BY <1>4, BreakerAssumption, SMT, SMTT(40) DEF TransferFails
  <2>3. CASE breaker.state = "Open"
    BY <1>4, <2>1, <2>2, <2>3, BreakerAssumption, SMT, SMTT(40)
  <2>4. CASE breaker.state = "Closed"
    <3>1. MAX_FAILURE_THRESHOLD = 1000
      BY DEF MAX_FAILURE_THRESHOLD
    <3>2. CASE breaker.failure_count + 1 >= breakerConfig.failure_threshold
      <4>1. /\ breaker' \in [state : {"Closed", "Open", "HalfOpen"}, failure_count : Nat,
                             open_for : 0 .. Horizon, half_open_requests : Nat]
            /\ breaker'.state = "Open" /\ breaker'.open_for = 0
            /\ breaker'.failure_count = breaker.failure_count + 1
            /\ breaker'.half_open_requests = 0
        <5>1. breaker' = [breaker EXCEPT !.failure_count = breaker.failure_count + 1,
                                         !.state = "Open", !.open_for = 0]
          BY <2>1, <2>4, <3>2, Zenon
        <5>2. breaker.failure_count + 1 \in Nat /\ 0 \in 0 .. Horizon
          BY BreakerAssumption, SMT, SMTT(40)
        <5> QED  BY <5>1, <5>2, Zenon
      <4> QED  BY <1>4, <2>2, <2>4, <3>1, <4>1, BreakerAssumption, SMT, SMTT(40)
    <3>3. CASE ~ (breaker.failure_count + 1 >= breakerConfig.failure_threshold)
      <4>1. breaker' = [breaker EXCEPT !.failure_count = breaker.failure_count + 1]
        BY <2>1, <2>4, <3>3
      <4>2. breaker.failure_count + 1 \in Nat
            /\ breaker.failure_count + 1 < MAX_FAILURE_THRESHOLD
        <5>1. breaker.failure_count \in Nat
          OBVIOUS
        <5> HIDE DEF BreakerInv, BreakerTypeOK, CountBounded
        <5> QED  BY <1>0, <3>1, <3>3, <5>1, SMT, SMTT(40)
      <4>3. /\ breaker' \in [state : {"Closed", "Open", "HalfOpen"}, failure_count : Nat,
                             open_for : 0 .. Horizon, half_open_requests : Nat]
            /\ breaker'.state = "Closed"
            /\ breaker'.failure_count = breaker.failure_count + 1
            /\ breaker'.half_open_requests = 0
        BY <2>4, <4>1, <4>2, Zenon
      <4> QED  BY <2>2, <3>1, <4>2, <4>3, BreakerAssumption, SMT, SMTT(40)
    <3> QED  BY <3>2, <3>3
  <2> QED  BY <2>3, <2>4
<1>5. CASE TransferFails /\ ~ KeepFailures
  BY <1>5, BreakerAssumption, SMT, SMTT(40) DEF TransferFails
<1>6. CASE \E a \in {Admin} \cup AdminList : manual_reset(a)
  BY <1>6, NewIsFine, SMT, SMTT(40) DEF manual_reset, MAX_FAILURE_THRESHOLD
<1>7. CASE \E a \in {Admin} \cup AdminList, p \in Presets : set_circuit_breaker_config(a, p)
  BY <1>7, ResolveType DEF set_circuit_breaker_config
<1> QED  BY <1>1, <1>2, <1>3, <1>4, <1>5, <1>6, <1>7, Zenon DEF BreakerNext

\* The invariant holds throughout, whatever transfers, resets and configurations
\* follow one another (circuit_breaker.rs).
LEMMA BreakerInvariant == BreakerSpec => []BreakerInv
  BY InitBreaker, NextBreaker, PTL DEF BreakerSpec

-----------------------------------------------------------------------------

\* The status query foretells what the next transfer meets, under every
\* configuration (circuit_breaker.rs, get_breaker_status and
\* should_allow_request).
THEOREM StatusAlwaysForetells == BreakerSpec => []StatusForetells
<1>1. BreakerInv => StatusForetells
  <2> SUFFICES ASSUME BreakerInv PROVE StatusForetells
    OBVIOUS
  <2>1. breakerConfig.recovery_timeout \in Nat /\ breaker.open_for \in Nat
    BY SMT, SMTT(40) DEF BreakerInv, BreakerTypeOK, Configs
  <2>2. get_breaker_status.state = breaker.state
        /\ get_breaker_status.remaining = get_recovery_time_remaining(breaker)
    BY DEF get_breaker_status
  <2>3. breaker.state \in {"Closed", "Open"} /\ breaker.half_open_requests = 0
    BY DEF BreakerInv
  <2>4. get_recovery_time_remaining(breaker) = 0 <=> Allows(breaker)
    BY <2>1, <2>3, SMT, SMTT(40) DEF get_recovery_time_remaining, Allows
  <2> QED  BY <2>2, <2>3, <2>4 DEF StatusForetells
<1> QED  BY <1>1, BreakerInvariant, PTL

\* The unchecked failure_count += 1 of record_failure stays below the largest
\* threshold resolve accepts, 1000, however the threshold changes between
\* failures (circuit_breaker.rs).
THEOREM CountAlwaysBounded == BreakerSpec => []CountBounded
<1>1. BreakerInv => CountBounded
  BY DEF BreakerInv
<1> QED  BY <1>1, BreakerInvariant, PTL

\* An open breaker lets a transfer through only after a full recovery timeout
\* without one (circuit_breaker.rs, should_allow_request).
THEOREM OpenAlwaysShields == BreakerSpec => OpenShields
<1>1. BreakerInv /\ [BreakerNext]_breakerVars =>
         (breaker.state = "Open" /\ (TransferSucceeds \/ TransferFails) =>
             quiet >= breakerConfig.recovery_timeout)
  <2> SUFFICES ASSUME BreakerInv, breaker.state = "Open", TransferSucceeds \/ TransferFails
               PROVE  quiet >= breakerConfig.recovery_timeout
    OBVIOUS
  <2>1. breaker.open_for >= breakerConfig.recovery_timeout
    BY DEF TransferSucceeds, TransferFails, Allows
  <2>2. breaker.open_for <= quiet /\ quiet \in 0 .. Horizon
        /\ breaker.open_for \in 0 .. Horizon /\ breakerConfig.recovery_timeout \in Nat
    BY SMT, SMTT(40) DEF BreakerInv, BreakerTypeOK, Configs
  <2> QED  BY <2>1, <2>2, BreakerAssumption, SMT, SMTT(40)
<1> QED  BY <1>1, BreakerInvariant, PTL DEF BreakerSpec, OpenShields

-----------------------------------------------------------------------------
(***************************************************************************)
(* The quota, the repeated-call window and the update interval.            *)
(***************************************************************************)

\* What a list m of ledgers holds in those from first up to last.
Held(m, first, last) ==
    SumTo([l \in 1 .. MaxLedger + 1 |->
              IF l - 1 >= first /\ l - 1 < last THEN m[l - 1] ELSE 0],
          MaxLedger + 1)

\* The tracker t of a company and what the company made, m, under a quota of
\* max per window: t's window began at ledger s.  What was made since is in the
\* count and within the quota, also when the window is over and no new one has
\* begun; so is what was made in less than a window before it.  A window of 0
\* seconds holds nothing.
Paced(t, m, s, max, window) ==
    /\ t.window_start = s * LedgerSeconds
    /\ window > 0 =>
          /\ Held(m, s, MaxLedger + 1) <= t.count /\ Held(m, s, MaxLedger + 1) <= max
          /\ m[seq] > 0 => now < t.window_start + window
          /\ \A l \in Ledgers : l * LedgerSeconds + window > t.window_start =>
                Held(m, l, s) <= max

\* A key whose call was accepted is taken for as long as a temporary entry lives.
Spaced(k) ==
    accepted[k] # -1 =>
        \E l \in Ledgers : /\ accepted[k] = l * LedgerSeconds
                           /\ liveUntil[k] >= l + MinTempTtl - 1

\* What holds of a company at all times: nothing is made in a ledger to come,
\* no stretch as long as a window sees more than twice the quota, and a company
\* without a tracker has made nothing.
Kept(c) ==
    /\ \A l \in Ledgers : l > seq => made[c][l] = 0
    /\ \A l \in Ledgers :
          Held(made[c], l, l + div_ceil(quota[2], LedgerSeconds)) <= 2 * quota[1]
    /\ IF tracker[c] = NoTracker THEN made[c] = [l \in Ledgers |-> 0]
       ELSE \E s \in 0 .. seq : Paced(tracker[c], made[c], s, quota[1], quota[2])

\* The inductive invariant.
ThrottleInv ==
    /\ seq \in Ledgers
    /\ config \in ContractConfig /\ ConfigSound
    /\ tracker \in [Companies -> [count : Nat, window_start : Int]]
    /\ made \in [Companies -> [Ledgers -> Nat]]
    /\ liveUntil \in [Keys -> Int] /\ accepted \in [Keys -> Int]
    /\ lastUpdate \in [Shipments -> Int]
    /\ updates \in [Shipments -> Int \X BOOLEAN]
    /\ \A k \in Keys : Spaced(k)
    /\ \A s \in Shipments : updates[s][1] = lastUpdate[s]
    /\ \A c \in Companies : Kept(c)


\* Multiplying by a positive number keeps the order.
LEMMA Times ==
    ASSUME NEW a \in Nat, NEW b \in Nat, NEW m \in Nat \ {0}
    PROVE  /\ a * m \in Nat /\ b * m \in Nat
           /\ a >= b => a * m >= b * m
           /\ a > b => a * m >= b * m + m
           /\ a * m > b * m => a > b
<1>1. a * m \in Nat /\ b * m \in Nat
  BY SMT, SMTT(40)
<1>2. ASSUME NEW i \in Nat, NEW j \in Nat, i >= j
      PROVE  i * m >= j * m
  <2>1. i * m = j * m + (i - j) * m /\ (i - j) * m \in Nat
    BY <1>2, SMT, SMTT(40)
  <2>2. j * m \in Nat
    BY SMT, SMTT(40)
  <2> QED BY <2>1, <2>2, SMT, SMTT(40)
<1>3. ASSUME a > b PROVE a * m >= b * m + m
  <2>1. a * m >= (b + 1) * m
    BY <1>2, <1>3, SMT, SMTT(40)
  <2>2. (b + 1) * m = b * m + m
    BY SMT, SMTT(40)
  <2> QED BY <2>1, <2>2, Zenon
<1> QED BY <1>1, <1>2, <1>3, SMT, SMTT(40)

\* div_ceil is the least number of multiples of m that reach x.
LEMMA DivCeil ==
    ASSUME NEW x \in Nat, NEW m \in Nat \ {0}
    PROVE  /\ div_ceil(x, m) \in Nat
           /\ \A k \in Nat : k < div_ceil(x, m) => k * m < x
<1> DEFINE d == (x + m - 1) \div m
           r == (x + m - 1) % m
<1>1. /\ d \in Int /\ r \in 0 .. m - 1 /\ d * m + r = x + m - 1
  BY SMT, SMTT(40)
<1> HIDE DEF d, r
<1>2. d \in Nat
  <2>1. SUFFICES ASSUME d < 0 PROVE FALSE
    BY <1>1, SMT, SMTT(40)
  <2>2. -1 - d \in Nat /\ (-1 - d) * m \in Nat
    BY <1>1, <2>1, SMT, SMTT(40)
  <2>3. (-1 - d) * m = - m - d * m /\ d * m \in Int
    BY <1>1, SMT, SMTT(40)
  <2> QED BY <1>1, <2>2, <2>3, SMT, SMTT(40)
<1>3. ASSUME NEW k \in Nat, k < d PROVE k * m < x
  <2>1. k * m \in Nat /\ d * m \in Nat /\ d * m >= k * m + m
    BY <1>2, <1>3, Times, Zenon
  <2> QED BY <1>1, <2>1, SMT, SMTT(40)
<1> QED BY <1>2, <1>3, Zenon DEF div_ceil, d

\* Whole ledgers are not rounded.
LEMMA DivCeilExact ==
    ASSUME NEW s \in Nat, NEW m \in Nat \ {0}
    PROVE  div_ceil(s * m, m) = s
<1> DEFINE d == (s * m + m - 1) \div m
           r == (s * m + m - 1) % m
<1>0. s * m \in Nat
  BY SMT, SMTT(40)
<1>1. d \in Int /\ r \in 0 .. m - 1 /\ d * m + r = s * m + m - 1
  BY <1>0, SMT, SMTT(40)
<1>2. d \in Nat
  BY <1>0, DivCeil DEF div_ceil
<1> HIDE DEF d, r
<1>3. ~ d > s
  BY <1>0, <1>1, <1>2, Times, SMT, SMTT(40)
<1>4. ~ s > d
  BY <1>0, <1>1, <1>2, Times, SMT, SMTT(40)
<1> QED BY <1>2, <1>3, <1>4, SMT, SMTT(40) DEF div_ceil, d

\* A list that is nowhere larger has no larger sum.
LEMMA SumAtMost ==
    ASSUME NEW n \in Nat, NEW f \in [1 .. n -> Nat], NEW g \in [1 .. n -> Nat],
           \A i \in 1 .. n : f[i] <= g[i]
    PROVE  SumTo(f, n) <= SumTo(g, n)
<1> DEFINE h == [i \in 1 .. n |-> g[i] - f[i]]
<1>1. /\ h \in [1 .. n -> Nat] /\ h \in [1 .. n -> Int]
      /\ f \in [1 .. n -> Int] /\ g \in [1 .. n -> Int]
      /\ \A i \in 1 .. n : g[i] = f[i] + h[i]
  BY SMT, SMTT(40)
<1> HIDE DEF h
<1>2. SumTo(g, n) = SumTo(f, n) + SumTo(h, n)
  BY <1>1, SumAdd, Zenon
<1>3. SumTo(f, n) \in Nat /\ SumTo(h, n) \in Nat
  BY <1>1, SumNat, Zenon
<1> QED BY <1>2, <1>3, SMT, SMTT(40)

\* Held is a sum of natural numbers, and more ledgers hold no less.
LEMMA HeldBounds ==
    ASSUME NEW m \in [Ledgers -> Nat], NEW a \in Nat, NEW b \in Nat,
           NEW x \in Nat, NEW y \in Nat, x <= a, b <= y \/ y = MaxLedger + 1
    PROVE  Held(m, a, b) \in Nat /\ Held(m, a, b) <= Held(m, x, y)
<1> DEFINE n == MaxLedger + 1
           f == [l \in 1 .. n |-> IF l - 1 >= a /\ l - 1 < b THEN m[l - 1] ELSE 0]
           g == [l \in 1 .. n |-> IF l - 1 >= x /\ l - 1 < y THEN m[l - 1] ELSE 0]
<1>1. n \in Nat
  BY ThrottleAssumption, SMT, SMTT(40)
<1>2. \A l \in 1 .. n : m[l - 1] \in Nat
  BY ThrottleAssumption, SMT, SMTT(40) DEF Ledgers
<1>3. f \in [1 .. n -> Nat] /\ g \in [1 .. n -> Nat]
  BY <1>2, Zenon
<1>4. \A l \in 1 .. n : f[l] <= g[l]
  BY <1>1, <1>2, SMT, SMTT(40)
<1>5. Held(m, a, b) = SumTo(f, n) /\ Held(m, x, y) = SumTo(g, n)
  BY DEF Held
<1> HIDE DEF f, g, n
<1>6. SumTo(f, n) \in Nat /\ SumTo(f, n) <= SumTo(g, n)
  BY <1>1, <1>3, <1>4, SumNat, SumAtMost, Zenon
<1> QED BY <1>5, <1>6, Zenon

\* Two stretches of ledgers that meet hold what the stretch of both does.
LEMMA HeldSplit ==
    ASSUME NEW m \in [Ledgers -> Nat], NEW a \in Nat, NEW x \in Nat, NEW b \in Nat,
           a <= x, x <= b
    PROVE  Held(m, a, b) = Held(m, a, x) + Held(m, x, b)
<1> DEFINE n == MaxLedger + 1
           f == [l \in 1 .. n |-> IF l - 1 >= a /\ l - 1 < x THEN m[l - 1] ELSE 0]
           g == [l \in 1 .. n |-> IF l - 1 >= x /\ l - 1 < b THEN m[l - 1] ELSE 0]
           h == [l \in 1 .. n |-> IF l - 1 >= a /\ l - 1 < b THEN m[l - 1] ELSE 0]
<1>1. n \in Nat
  BY ThrottleAssumption, SMT, SMTT(40)
<1>2. \A l \in 1 .. n : m[l - 1] \in Nat
  BY ThrottleAssumption, SMT, SMTT(40) DEF Ledgers
<1>3. f \in [1 .. n -> Int] /\ g \in [1 .. n -> Int] /\ h \in [1 .. n -> Int]
  BY <1>2, SMT, SMTT(40)
<1>4. \A l \in 1 .. n : h[l] = f[l] + g[l]
  BY <1>1, <1>2, SMT, SMTT(40)
<1>5. /\ Held(m, a, x) = SumTo(f, n) /\ Held(m, x, b) = SumTo(g, n)
      /\ Held(m, a, b) = SumTo(h, n)
  BY DEF Held
<1> HIDE DEF f, g, h, n
<1>6. SumTo(h, n) = SumTo(f, n) + SumTo(g, n)
  BY <1>1, <1>3, <1>4, SumAdd, Zenon
<1> QED BY <1>5, <1>6, Zenon

\* Making some more in one ledger.
LEMMA HeldMore ==
    ASSUME NEW m \in [Ledgers -> Nat], NEW s \in Ledgers, NEW more \in Nat,
           NEW a \in Nat, NEW b \in Nat
    PROVE  Held([m EXCEPT ![s] = @ + more], a, b) =
             Held(m, a, b) + IF a <= s /\ s < b THEN more ELSE 0
<1> DEFINE n == MaxLedger + 1
           k == s + 1
           w == [m EXCEPT ![s] = @ + more]
           f == [l \in 1 .. n |-> IF l - 1 >= a /\ l - 1 < b THEN m[l - 1] ELSE 0]
           g == [l \in 1 .. n |-> IF l - 1 >= a /\ l - 1 < b THEN w[l - 1] ELSE 0]
<1>1. n \in Nat /\ k \in 1 .. n /\ s \in Nat /\ k - 1 = s
  BY ThrottleAssumption, SMT, SMTT(40) DEF Ledgers
<1>2. w \in [Ledgers -> Nat] /\ w[s] = m[s] + more /\ \A l \in Ledgers : l # s => w[l] = m[l]
  BY SMT, SMTT(40)
<1>3. \A l \in 1 .. n : l - 1 \in Ledgers /\ (l # k => l - 1 # s)
  BY <1>1, ThrottleAssumption, SMT, SMTT(40) DEF Ledgers
<1> HIDE DEF w
<1>4. f \in [1 .. n -> Int] /\ g \in [1 .. n -> Int]
  BY <1>2, <1>3, SMT, SMTT(40)
<1>5. \A l \in 1 .. n : l # k => g[l] = f[l]
  BY <1>2, <1>3, Zenon
<1>6. g[k] - f[k] = (IF a <= s /\ s < b THEN more ELSE 0) /\ g[k] \in Int /\ f[k] \in Int
  BY <1>1, <1>2, <1>3, SMT, SMTT(40)
<1>7. Held(m, a, b) = SumTo(f, n) /\ Held(w, a, b) = SumTo(g, n)
  BY DEF Held
<1> HIDE DEF f, g, n, k
<1>8. SumTo(g, n) = SumTo(f, n) + g[k] - f[k] /\ SumTo(f, n) \in Int
  BY <1>1, <1>4, <1>5, SumUpdate, SumToType, ZenonT(40)
<1>9. Held(w, a, b) = Held(m, a, b) + IF a <= s /\ s < b THEN more ELSE 0
  BY <1>6, <1>7, <1>8, Zenon
<1> QED BY <1>9 DEF w

\* Ledgers in which nothing was made hold nothing.
LEMMA HeldNothing ==
    ASSUME NEW m \in [Ledgers -> Nat], NEW a \in Nat, NEW b \in Nat,
           \A l \in Ledgers : a <= l /\ l < b => m[l] = 0
    PROVE  Held(m, a, b) = 0
<1> DEFINE n == MaxLedger + 1
           f == [l \in 1 .. n |-> IF l - 1 >= a /\ l - 1 < b THEN m[l - 1] ELSE 0]
<1>1. n \in Nat
  BY ThrottleAssumption, SMT, SMTT(40)
<1>2. \A l \in 1 .. n : l - 1 \in Ledgers
  BY ThrottleAssumption, SMT, SMTT(40) DEF Ledgers
<1>3. \A l \in 1 .. n : f[l] = 0
  BY <1>2 DEF Ledgers
<1>4. f = [l \in 1 .. n |-> 0]
  BY <1>3
<1>5. Held(m, a, b) = SumTo(f, n)
  BY DEF Held
<1> QED BY <1>1, <1>4, <1>5, SumOfZeros, Zenon

\* The larger of two numbers.
LEMMA MaxOfTwo ==
    ASSUME NEW a \in Int, NEW b \in Int
    PROVE  Max({a, b}) = IF a >= b THEN a ELSE b
<1> DEFINE S == {a, b}
           x == IF a >= b THEN a ELSE b
<1>1. x \in S /\ \A y \in S : x >= y
  BY SMT, SMTT(40)
<1>2. \A z \in S : (\A y \in S : z >= y) => z = x
  BY SMT, SMTT(40)
<1> HIDE DEF S, x
<1>3. Max(S) = x
  BY <1>1, <1>2, Zenon DEF Max
<1> QED BY <1>3 DEF S, x

\* A creation within the quota keeps to the quota: in the window that is open,
\* or in the one that it opens, and in every stretch that reaches its ledger
\* (lib.rs, check_and_update_creation_quota_by).
LEMMA QuotaStep ==
    ASSUME ThrottleInv, NEW c \in Companies, NEW requested \in Nat,
           quota[1] > 0, requested > 0, QuotaAllows(c, requested)
    PROVE  LET m == [made[c] EXCEPT ![seq] = @ + requested]
               t == [Rolled(c) EXCEPT !.count = @ + requested]
           IN  /\ m \in [Ledgers -> Nat] /\ t \in [count : Nat, window_start : Int]
               /\ t # NoTracker
               /\ \A l \in Ledgers : l > seq => m[l] = 0
               /\ \A l \in Ledgers : Held(m, l, l + div_ceil(quota[2], LedgerSeconds))
                                        <= 2 * quota[1]
               /\ \E s \in 0 .. seq : Paced(t, m, s, quota[1], quota[2])
<1> DEFINE old == made[c]
           was == tracker[c]
           m == [old EXCEPT ![seq] = @ + requested]
           t == [Rolled(c) EXCEPT !.count = @ + requested]
           max == quota[1]
           window == quota[2]
           D == div_ceil(window, LedgerSeconds)
           end == MaxLedger + 1
<1>1. /\ seq \in Ledgers /\ seq \in Nat /\ seq < end /\ end \in Nat
      /\ LedgerSeconds \in Nat \ {0} /\ now \in Nat
      /\ \A l \in Ledgers : l \in Nat
  BY ThrottleAssumption, SMT, SMTT(40) DEF ThrottleInv, Ledgers, now
<1>2. max \in Nat /\ window \in Nat
  BY DEF ThrottleInv, ContractConfig, quota
<1>3. old \in [Ledgers -> Nat] /\ was \in [count : Nat, window_start : Int]
  BY Zenon DEF ThrottleInv
<1>4. /\ m \in [Ledgers -> Nat] /\ m[seq] = old[seq] + requested /\ old[seq] \in Nat
      /\ \A l \in Ledgers : l # seq => m[l] = old[l]
  BY <1>1, <1>3, SMT, SMTT(40)
<1>5. \A a, b \in Nat :
         Held(m, a, b) = Held(old, a, b) + IF a <= seq /\ seq < b THEN requested ELSE 0
  BY <1>1, <1>3, HeldMore, ZenonT(40)
<1>6. \A a, b \in Nat : Held(old, a, b) \in Nat
  BY <1>3, HeldBounds, SMT, SMTT(40)
<1>7. /\ \A l \in Ledgers : l > seq => old[l] = 0
      /\ \A l \in Ledgers : Held(old, l, l + D) <= 2 * max
      /\ IF was = NoTracker THEN old = [l \in Ledgers |-> 0]
         ELSE \E s \in 0 .. seq : Paced(was, old, s, max, window)
  BY Zenon DEF ThrottleInv, Kept
<1>8. D \in Nat /\ \A k \in Nat : k < D => k * LedgerSeconds < window
  BY <1>1, <1>2, DivCeil, Zenon
<1>9. Rolled(c).count + requested <= max
  BY SMTT(20), SMTT(40) DEF QuotaAllows
<1>10. \A l \in Ledgers : l > seq => m[l] = 0
  BY <1>1, <1>4, <1>7, SMTT(20), SMTT(40)
<1> HIDE DEF m, old, was, D, max, window, end
<1>13. \A a, b, x \in Nat :
          Held(m, a, b) \in Nat /\ (x <= a => Held(m, a, b) <= Held(m, x, end))
  <2> TAKE a, b, x \in Nat
  <2>1. a <= a /\ b <= b
    BY SMT, SMTT(40)
  <2>2. Held(m, a, b) \in Nat
    BY <1>4, <2>1, HeldBounds, Zenon
  <2>3. end = MaxLedger + 1
    BY DEF end
  <2>4. x <= a => Held(m, a, b) <= Held(m, x, end)
    BY <1>1, <1>4, <2>3, HeldBounds, Zenon
  <2> QED BY <2>2, <2>4
\* The window s of the new tracker and what leads up to it bound every stretch
\* that reaches the ledger.
<1>11. ASSUME NEW s \in 0 .. seq, Paced(t, m, s, max, window), window > 0
       PROVE  \A l \in Ledgers : Held(m, l, l + D) <= 2 * max
  <2> SUFFICES ASSUME NEW l \in Ledgers PROVE Held(m, l, l + D) <= 2 * max
    OBVIOUS
  <2>1. s \in Nat /\ s <= seq /\ l \in Nat /\ l + D \in Nat
    BY <1>1, <1>8, SMT, SMTT(40)
  <2>2. /\ t.window_start = s * LedgerSeconds /\ Held(m, s, end) <= max
        /\ l * LedgerSeconds + window > s * LedgerSeconds => Held(m, l, s) <= max
    BY <1>11, Zenon DEF Paced, end
  <2>3. CASE ~ (l <= seq /\ seq < l + D)
    <3>1. Held(m, l, l + D) = Held(old, l, l + D)
      <4>1. /\ Held(m, l, l + D) = Held(old, l, l + D)
                  + IF l <= seq /\ seq < l + D THEN requested ELSE 0
            /\ Held(old, l, l + D) \in Nat
        BY <1>5, <1>6, <2>1, Zenon
      <4> QED BY <2>3, <4>1, SMT, SMTT(40)
    <3> QED BY <1>7, <3>1, Zenon
  <2>4. CASE l <= seq /\ seq < l + D /\ l >= s
    <3>1. s <= l
      BY <2>1, <2>4
    <3>2. /\ Held(m, l, l + D) \in Nat /\ Held(m, s, end) \in Nat
          /\ Held(m, l, l + D) <= Held(m, s, end)
      BY <1>1, <1>13, <2>1, <3>1, Zenon
    <3> QED BY <1>2, <2>2, <3>2, SMT, SMTT(40)
  <2>5. CASE l <= seq /\ seq < l + D /\ l < s
    <3>1. Held(m, l, s) <= max
      <4>1. s - l \in Nat /\ s - l < D
        BY <1>1, <1>8, <2>1, <2>5, SMT, SMTT(40)
      <4>2. (s - l) * LedgerSeconds < window
        BY <1>8, <4>1, Zenon
      <4>3. /\ (s - l) * LedgerSeconds = s * LedgerSeconds - l * LedgerSeconds
            /\ s * LedgerSeconds \in Nat /\ l * LedgerSeconds \in Nat
        BY <1>1, <2>1, SMT, SMTT(40)
      <4> QED BY <1>2, <2>2, <4>2, <4>3, SMT, SMTT(40)
    <3>2. l <= s /\ s <= l + D /\ s <= s
      BY <1>1, <1>8, <2>1, <2>5, SMT, SMTT(40)
    <3>3. Held(m, l, l + D) = Held(m, l, s) + Held(m, s, l + D)
      BY <1>4, <2>1, <3>2, HeldSplit, ZenonT(40)
    <3>4. /\ Held(m, l, s) \in Nat /\ Held(m, s, l + D) \in Nat /\ Held(m, s, end) \in Nat
          /\ Held(m, s, l + D) <= Held(m, s, end)
      BY <1>1, <1>13, <2>1, <3>2, Zenon
    <3> QED BY <1>2, <2>2, <3>1, <3>3, <3>4, SMTT(20), SMTT(40)
  <2> QED BY <1>1, <2>1, <2>3, <2>4, <2>5, SMT, SMTT(40)
\* No time, no stretch.
<1>12. ASSUME window = 0
       PROVE  \A l \in Ledgers : Held(m, l, l + D) <= 2 * max
  <2>1. D = 0
    <3>1. ~ 0 < D
      BY <1>1, <1>8, <1>12, SMT, SMTT(40)
    <3> QED BY <1>8, <3>1, SMT, SMTT(40)
  <2>2. ASSUME NEW l \in Ledgers PROVE Held(m, l, l + D) <= 2 * max
    <3>1. l \in Nat /\ l + D \in Nat /\ l + D = l
      BY <1>1, <2>1, SMT, SMTT(40)
    <3>2. Held(m, l, l + D) = 0
      <4>1. \A k \in Ledgers : ~ (l <= k /\ k < l)
        BY <1>1, SMT, SMTT(40)
      <4> QED BY <1>4, <3>1, <4>1, HeldNothing, Zenon
    <3> QED BY <1>2, <3>2, SMT, SMTT(40)
  <2> QED BY <2>2
\* The creation goes into the open window.
<1>14. CASE ~ (was = NoTracker \/ now >= was.window_start + window)
  <2>1. /\ Rolled(c) = was /\ was # NoTracker /\ ~ now >= was.window_start + window
    BY <1>14, Zenon DEF Rolled, was, window
  <2>2. PICK s \in 0 .. seq : Paced(was, old, s, max, window)
    BY <1>7, <2>1, Zenon
  <2>3. s \in Nat /\ s <= seq /\ was.window_start = s * LedgerSeconds
    BY <1>1, <2>2, SMT, SMTT(40) DEF Paced
  <2>4. s * LedgerSeconds \in Nat /\ seq * LedgerSeconds >= s * LedgerSeconds
    BY <1>1, <2>3, Times, Zenon
  <2>5. window > 0 /\ now < was.window_start + window
    BY <1>1, <1>2, <2>1, <2>3, <2>4, SMT, SMTT(40) DEF now
  <2>6. /\ Held(old, s, end) <= was.count /\ Held(old, s, end) \in Nat
        /\ \A l \in Ledgers : l * LedgerSeconds + window > was.window_start =>
              Held(old, l, s) <= max
    BY <1>1, <1>6, <2>2, <2>3, <2>5, ZenonT(40) DEF Paced, end
  <2>7. /\ t = [was EXCEPT !.count = @ + requested] /\ was.count + requested <= max
    BY <1>9, <2>1, ZenonT(40)
  <2>8. /\ t \in [count : Nat, window_start : Int] /\ t.count = was.count + requested
        /\ t.window_start = was.window_start /\ was.count \in Nat
    BY <1>3, <2>7, SMT, SMTT(40)
  <2> HIDE DEF t
  <2>9. Held(m, s, end) <= t.count /\ Held(m, s, end) <= max
    <3>1. Held(m, s, end) = Held(old, s, end)
             + IF s <= seq /\ seq < end THEN requested ELSE 0
      BY <1>1, <1>5, <2>3, ZenonT(40)
    <3> QED BY <1>1, <1>2, <2>3, <2>6, <2>7, <2>8, <3>1, SMTT(20), SMTT(40)
  <2>10. ASSUME NEW l \in Ledgers, l * LedgerSeconds + window > t.window_start
         PROVE  Held(m, l, s) <= max
    <3>1. /\ Held(m, l, s) = Held(old, l, s)
                + IF l <= seq /\ seq < s THEN requested ELSE 0
          /\ Held(old, l, s) \in Nat
      BY <1>1, <1>5, <1>6, <2>3, Zenon
    <3>2. Held(old, l, s) <= max
      BY <2>6, <2>8, <2>10, Zenon
    <3> QED BY <1>1, <2>3, <3>1, <3>2, SMT, SMTT(40)
  <2>11. Paced(t, m, s, max, window)
    BY <2>3, <2>5, <2>8, <2>9, <2>10, Zenon DEF Paced, end
  <2>12. t # NoTracker
    BY <2>3, <2>4, <2>8, SMT, SMTT(40) DEF NoTracker
  <2>13. \A l \in Ledgers : Held(m, l, l + D) <= 2 * max
    BY <1>11, <2>5, <2>11, Zenon
  <2> QED BY <1>4, <1>10, <2>8, <2>11, <2>12, <2>13, Zenon
          DEF m, D, max, window, old, t
\* It opens a window.
<1>15. CASE was = NoTracker \/ now >= was.window_start + window
  <2>1. Rolled(c) = [count |-> 0, window_start |-> now]
    BY <1>15, Zenon DEF Rolled, was, window
  <2>2. /\ t \in [count : Nat, window_start : Int] /\ t.window_start = now
        /\ t.count = requested /\ requested <= max /\ t # NoTracker
    BY <1>1, <1>9, <2>1, SMT, SMTT(40) DEF NoTracker
  <2> HIDE DEF t
  <2>3. ASSUME window > 0
        PROVE  Held(m, seq, end) = requested
    <3>1. old[seq] = 0
      <4>1. CASE was = NoTracker
        BY <1>1, <1>7, <4>1, Zenon
      <4>2. CASE was # NoTracker
        <5>1. old[seq] > 0 => now < was.window_start + window
          BY <1>7, <2>3, <4>2, Zenon DEF Paced
        <5>2. now >= was.window_start + window /\ was.window_start \in Int
          BY <1>3, <1>15, <4>2, Zenon
        <5> QED BY <1>1, <1>2, <1>4, <5>1, <5>2, SMTT(20), SMTT(40)
      <4> QED BY <4>1, <4>2, Zenon
    <3>2. \A l \in Ledgers : seq <= l /\ l < end => old[l] = 0
      BY <1>1, <1>7, <3>1, SMT, SMTT(40)
    <3>3. Held(old, seq, end) = 0
      BY <1>1, <1>3, <3>2, HeldNothing, Zenon
    <3>4. Held(m, seq, end) = Held(old, seq, end)
             + IF seq <= seq /\ seq < end THEN requested ELSE 0
      BY <1>1, <1>5, Zenon
    <3> QED BY <1>1, <3>3, <3>4, SMT, SMTT(40)
  <2>4. ASSUME window > 0, NEW l \in Ledgers, l * LedgerSeconds + window > now
        PROVE  Held(m, l, seq) <= max
    <3>1. /\ Held(m, l, seq) = Held(old, l, seq)
                + IF l <= seq /\ seq < seq THEN requested ELSE 0
          /\ Held(old, l, seq) \in Nat
      BY <1>1, <1>5, <1>6, Zenon
    <3>2. CASE was = NoTracker
      <4>1. \A k \in Ledgers : l <= k /\ k < seq => old[k] = 0
        BY <1>7, <3>2
      <4>2. Held(old, l, seq) = 0
        BY <1>1, <1>3, <4>1, HeldNothing, Zenon
      <4> QED BY <1>1, <1>2, <3>1, <4>2, SMT, SMTT(40)
    <3>3. CASE was # NoTracker
      <4>1. PICK p \in 0 .. seq : Paced(was, old, p, max, window)
        BY <1>7, <3>3, Zenon
      <4>2. p \in Nat /\ was.window_start = p * LedgerSeconds /\ Held(old, p, end) <= max
        BY <1>1, <2>4, <4>1, SMT, SMTT(40) DEF Paced, end
      <4>3. l > p
        <5>1. p * LedgerSeconds \in Nat /\ l * LedgerSeconds \in Nat
          BY <1>1, <4>2, Times, Zenon
        <5>2. l * LedgerSeconds > p * LedgerSeconds
          BY <1>1, <1>2, <1>15, <2>4, <3>3, <4>2, <5>1, SMTT(20), SMTT(40)
        <5> QED BY <1>1, <4>2, <5>2, Times, Zenon
      <4>4. p <= l /\ end = MaxLedger + 1
        BY <1>1, <4>2, <4>3, SMT, SMTT(40) DEF end
      <4>5. Held(old, l, seq) <= Held(old, p, end) /\ Held(old, p, end) \in Nat
        BY <1>1, <1>3, <1>6, <4>2, <4>4, HeldBounds, Zenon
      <4> QED BY <1>1, <1>2, <3>1, <4>2, <4>5, SMT, SMTT(40)
    <3> QED BY <3>2, <3>3
  <2>5. m[seq] > 0 /\ window > 0 => now < t.window_start + window
    BY <1>1, <1>2, <2>2, SMT, SMTT(40)
  <2>6. window > 0 => Held(m, seq, end) <= t.count /\ Held(m, seq, end) <= max
    BY <1>2, <2>2, <2>3, SMT, SMTT(40)
  <2>7. Paced(t, m, seq, max, window)
    BY <2>2, <2>4, <2>5, <2>6, Zenon DEF Paced, end, now
  <2>8. seq \in 0 .. seq
    BY <1>1, SMT, SMTT(40)
  <2>9. window > 0 \/ window = 0
    BY <1>2, SMT, SMTT(40)
  <2>10. \A l \in Ledgers : Held(m, l, l + D) <= 2 * max
    BY <1>11, <1>12, <2>7, <2>8, <2>9, Zenon
  <2> QED BY <1>4, <1>10, <2>2, <2>7, <2>8, <2>10, Zenon DEF m, D, max, window, old, t
<1> QED BY <1>14, <1>15, Zenon

\* The two entry points that write the configuration keep it valid and its
\* checksum fresh (config.rs, validate_config, compute_config_checksum).
LEMMA ConfigStep ==
    ASSUME config \in ContractConfig, ConfigSound,
           \/ \E q \in Quotas : set_creation_quota(q)
           \/ \E new_config \in Offered : update_config(new_config)
    PROVE  config' \in ContractConfig /\ ConfigSound'
<1>1. ASSUME NEW q \in Quotas, set_creation_quota(q)
      PROVE  config' \in ContractConfig /\ ConfigSound'
  <2>1. q[1] \in Nat /\ q[2] \in Nat
    BY ConfigAssumption
  <2>2. /\ config' = [config EXCEPT !.creation_quota_max = q[1],
                                    !.creation_quota_window_seconds = q[2]]
        /\ checksum' = compute_config_checksum(config')
    BY <1>1, Zenon DEF set_creation_quota, set_config, set_config_checksum
  <2>3. config' \in ContractConfig
    BY <2>1, <2>2, Zenon DEF ContractConfig
  <2>4. validate_config(config)
    BY DEF ConfigSound
  <2>5. validate_config(config')
    BY <2>2, <2>4, SMT, SMTT(40) DEF validate_config, ContractConfig
  <2> QED BY <2>2, <2>3, <2>5, Zenon DEF ConfigSound, get_config_checksum
<1>2. ASSUME NEW new_config \in Offered, update_config(new_config)
      PROVE  config' \in ContractConfig /\ ConfigSound'
  <2>1. /\ config' = new_config /\ validate_config(config')
        /\ checksum' = compute_config_checksum(config')
    BY <1>2, Zenon DEF update_config, set_config, set_config_checksum
  <2>2. config' \in ContractConfig
    BY <2>1, ConfigAssumption, SMT, SMTT(40)
  <2> QED BY <2>1, <2>2, Zenon DEF ConfigSound, get_config_checksum
<1> QED BY <1>1, <1>2

\* The configuration initialize stores is valid (config.rs, ContractConfig).
LEMMA DefaultIsSound ==
    DefaultConfig \in ContractConfig /\ validate_config(DefaultConfig)
<1>1. DefaultConfig \in ContractConfig
  BY SMTT(20), SMTT(40) DEF DefaultConfig, ContractConfig
<1>2. validate_config(DefaultConfig)
  BY SMT, SMTT(40) DEF DefaultConfig, validate_config, Within
<1> QED BY <1>1, <1>2, SMTT(20), SMTT(40)

\* An accepted call has a window that lives MinTempTtl ledgers, and its key was
\* free: the window of the call accepted before is over (lib.rs,
\* check_idempotency).
LEMMA WindowStep ==
    ASSUME ThrottleInv, NEW k \in Keys, check_idempotency(k)
    PROVE  /\ liveUntil' \in [Keys -> Int] /\ accepted' \in [Keys -> Int]
           /\ liveUntil'[k] >= seq + MinTempTtl - 1 /\ accepted'[k] = now
           /\ \A j \in Keys : j # k => /\ liveUntil'[j] = liveUntil[j]
                                       /\ accepted'[j] = accepted[j]
           /\ accepted[k] # -1 => now - accepted[k] >= MinTempTtl * LedgerSeconds
           /\ \A j \in Keys : Spaced(j)'
<1> DEFINE long == div_ceil(config.idempotency_window_seconds, 5)
           until == seq + MinTempTtl - 1
           life == extend_ttl(until, 0, Max({1, long}))
<1>1. /\ seq \in Nat /\ now \in Nat /\ until \in Nat /\ MinTempTtl \in Nat
      /\ LedgerSeconds \in Nat \ {0}
  BY ThrottleAssumption, SMT, SMTT(40) DEF ThrottleInv, Ledgers, now
<1>2. long \in Nat
  <2>1. config.idempotency_window_seconds \in Nat
    BY SMT, SMTT(40) DEF ThrottleInv, ContractConfig
  <2>2. 5 \in Nat \ {0}
    BY SMT, SMTT(40)
  <2> QED BY <2>1, <2>2, DivCeil, Zenon
<1>3. /\ liveUntil' = [liveUntil EXCEPT ![k] = life]
      /\ accepted' = [accepted EXCEPT ![k] = now] /\ ~ liveUntil[k] >= seq
  BY Zenon DEF check_idempotency, set_idempotency_window, has_idempotency_window
<1> HIDE DEF long, until
<1>4. Max({1, long}) \in Int
  BY <1>2, MaxOfTwo, SMT, SMTT(40)
<1>5. life \in Int /\ life >= until
  <2> DEFINE far == seq + Max({1, long})
  <2>1. far \in Int
    BY <1>1, <1>4, SMT, SMTT(40)
  <2> HIDE DEF far
  <2>2. Max({until, far}) = IF until >= far THEN until ELSE far
    BY <1>1, <2>1, MaxOfTwo, SMT, SMTT(40)
  <2>3. life = IF until - seq <= 0 THEN Max({until, far}) ELSE until
    BY SMT, SMTT(40) DEF extend_ttl, far
  <2> HIDE DEF life
  <2> QED BY <1>1, <2>1, <2>2, <2>3, SMT, SMTT(40)
<1> HIDE DEF life
<1>6. liveUntil \in [Keys -> Int] /\ accepted \in [Keys -> Int]
  BY SMT, SMTT(40) DEF ThrottleInv
<1>7. /\ liveUntil' \in [Keys -> Int] /\ accepted' \in [Keys -> Int]
      /\ liveUntil'[k] = life /\ accepted'[k] = now
      /\ \A j \in Keys : j # k => liveUntil'[j] = liveUntil[j] /\ accepted'[j] = accepted[j]
  BY <1>1, <1>3, <1>5, <1>6, SMT, SMTT(40)
<1>8. ASSUME accepted[k] # -1
      PROVE  now - accepted[k] >= MinTempTtl * LedgerSeconds
  <2>1. PICK l \in Ledgers : /\ accepted[k] = l * LedgerSeconds
                             /\ liveUntil[k] >= l + MinTempTtl - 1
    BY <1>8, Zenon DEF ThrottleInv, Spaced
  <2>2. l \in Nat /\ seq - l \in Nat /\ seq - l >= MinTempTtl
    BY <1>1, <1>3, <1>6, <2>1, SMT, SMTT(40) DEF Ledgers
  <2>3. (seq - l) * LedgerSeconds >= MinTempTtl * LedgerSeconds
    BY <1>1, <2>2, Times, SMT, SMTT(40)
  <2>4. now - accepted[k] = (seq - l) * LedgerSeconds
    BY <1>1, <2>1, <2>2, SMT, SMTT(40) DEF now
  <2> QED BY <2>3, <2>4, SMT, SMTT(40)
<1>9. liveUntil'[k] >= seq + MinTempTtl - 1
  BY <1>5, <1>7, SMT, SMTT(40) DEF until
<1>10. ASSUME NEW j \in Keys PROVE Spaced(j)'
  <2>1. CASE j = k
    <3>1. /\ seq \in Ledgers /\ accepted'[k] = seq * LedgerSeconds
          /\ liveUntil'[k] >= seq + MinTempTtl - 1
      BY <1>7, <1>9, SMT, SMTT(40) DEF now, ThrottleInv
    <3> QED BY <2>1, <3>1, ZenonT(40) DEF Spaced
  <2>2. CASE j # k
    <3>1. Spaced(j) /\ liveUntil'[j] = liveUntil[j] /\ accepted'[j] = accepted[j]
      BY <1>7, <2>2, Zenon DEF ThrottleInv
    <3> QED BY <3>1, Zenon DEF Spaced
  <2> QED BY <2>1, <2>2, SMT, SMTT(40)
<1> QED BY <1>7, <1>8, <1>9, <1>10, ZenonT(40)

\* A company whose tracker, creations and quota are left alone stays within the
\* quota.
LEMMA KeptSame ==
    ASSUME NEW c \in Companies, Kept(c), seq' = seq, config' = config,
           tracker'[c] = tracker[c], made'[c] = made[c]
    PROVE  Kept(c)'
<1>1. quota' = quota /\ now' = now
  BY SMT, SMTT(40) DEF quota, now
<1> QED BY <1>1, Zenon DEF Kept, Paced

\* A call that passes the quota keeps every company within it, whatever it asks
\* for (lib.rs, check_and_update_creation_quota_by).
LEMMA QuotaCall ==
    ASSUME ThrottleInv, NEW c \in Companies, NEW requested \in Nat,
           check_and_update_creation_quota_by(c, requested), seq' = seq, config' = config
    PROVE  /\ tracker' \in [Companies -> [count : Nat, window_start : Int]]
           /\ made' \in [Companies -> [Ledgers -> Nat]]
           /\ \A d \in Companies : Kept(d)'
<1> DEFINE m == [made[c] EXCEPT ![seq] = @ + requested]
           t == [Rolled(c) EXCEPT !.count = @ + requested]
<1>1. /\ tracker \in [Companies -> [count : Nat, window_start : Int]]
      /\ made \in [Companies -> [Ledgers -> Nat]]
      /\ \A d \in Companies : Kept(d)
  BY SMT, SMTT(40) DEF ThrottleInv
<1>2. CASE quota[1] = 0 \/ requested = 0
  <2>1. tracker' = tracker /\ made' = made
    BY <1>2, Zenon DEF check_and_update_creation_quota_by
  <2> QED BY <1>1, <2>1, KeptSame, Zenon
<1>3. CASE ~ (quota[1] = 0 \/ requested = 0)
  <2>1. /\ QuotaAllows(c, requested)
        /\ tracker' = [tracker EXCEPT ![c] = t]
        /\ made' = [made EXCEPT ![c] = m]
    BY <1>3, Zenon DEF check_and_update_creation_quota_by
  <2>2. quota[1] > 0 /\ requested > 0
    <3>1. quota[1] \in Nat
      BY SMT, SMTT(40) DEF ThrottleInv, ContractConfig, quota
    <3> QED BY <1>3, <3>1, SMTT(20), SMTT(40)
  <2>3. /\ m \in [Ledgers -> Nat] /\ t \in [count : Nat, window_start : Int]
        /\ t # NoTracker
        /\ \A l \in Ledgers : l > seq => m[l] = 0
        /\ \A l \in Ledgers : Held(m, l, l + div_ceil(quota[2], LedgerSeconds))
                                 <= 2 * quota[1]
        /\ \E s \in 0 .. seq : Paced(t, m, s, quota[1], quota[2])
    BY <2>1, <2>2, QuotaStep, Zenon
  <2> HIDE DEF m, t
  <2>4. /\ tracker' \in [Companies -> [count : Nat, window_start : Int]]
        /\ made' \in [Companies -> [Ledgers -> Nat]]
        /\ tracker'[c] = t /\ made'[c] = m
        /\ \A d \in Companies : d # c => tracker'[d] = tracker[d] /\ made'[d] = made[d]
    BY <1>1, <2>1, <2>3, SMT, SMTT(40)
  <2>5. Kept(c)'
    <3>1. quota' = quota /\ now' = now
      BY SMT, SMTT(40) DEF quota, now
    <3> QED BY <2>3, <2>4, <3>1, Zenon DEF Kept, Paced
  <2>6. \A d \in Companies : d # c => Kept(d)'
    BY <1>1, <2>4, KeptSame, Zenon
  <2> QED BY <2>4, <2>5, <2>6, Zenon
<1> QED BY <1>2, <1>3, SMT, SMTT(40)

\* A change of the configuration keeps every company within the quota: under a
\* new one nothing was made yet (lib.rs, set_creation_quota, update_config).
LEMMA ReconfiguredKeeps ==
    ASSUME ThrottleInv, Reconfigured, config' \in ContractConfig
    PROVE  /\ made' \in [Companies -> [Ledgers -> Nat]]
           /\ \A c \in Companies : Kept(c)'
<1> DEFINE none == [l \in Ledgers |-> 0]
<1>1. /\ seq' = seq /\ tracker' = tracker /\ now' = now
      /\ made' = IF quota' = quota THEN made ELSE NothingMade
  BY SMT, SMTT(40) DEF Reconfigured, now
<1>2. /\ seq \in Nat /\ LedgerSeconds \in Nat \ {0} /\ MaxLedger + 1 \in Nat
      /\ seq \in Ledgers /\ \A l \in Ledgers : l \in Nat
  BY ThrottleAssumption, SMT, SMTT(40) DEF ThrottleInv, Ledgers
<1>3. /\ tracker \in [Companies -> [count : Nat, window_start : Int]]
      /\ made \in [Companies -> [Ledgers -> Nat]]
      /\ \A c \in Companies : Kept(c)
  BY SMT, SMTT(40) DEF ThrottleInv
<1>4. CASE quota' = quota
  <2>1. made' = made
    BY <1>1, <1>4, SMT, SMTT(40)
  <2> QED BY <1>1, <1>3, <1>4, <2>1, Zenon DEF Kept, Paced
<1>5. CASE quota' # quota
  <2>1. /\ made' \in [Companies -> [Ledgers -> Nat]]
        /\ \A c \in Companies : made'[c] = none
    BY <1>1, <1>5, SMT, SMTT(40) DEF NothingMade
  <2>2. none \in [Ledgers -> Nat] /\ \A l \in Ledgers : none[l] = 0
    BY SMT, SMTT(40)
  <2>3. \A a, b \in Nat : Held(none, a, b) = 0
    <3> HIDE DEF none
    <3> QED BY <2>2, HeldNothing, Zenon
  <2>4. quota'[1] \in Nat /\ quota'[2] \in Nat
    BY SMT, SMTT(40) DEF quota, ContractConfig
  <2>5. div_ceil(quota'[2], LedgerSeconds) \in Nat
    BY <1>2, <2>4, DivCeil, SMT, SMTT(40)
  <2> HIDE DEF none
  <2>6. ASSUME NEW l \in Ledgers
        PROVE  Held(none, l, l + div_ceil(quota'[2], LedgerSeconds)) <= 2 * quota'[1]
    <3>1. l \in Nat /\ l + div_ceil(quota'[2], LedgerSeconds) \in Nat
      BY <1>2, <2>5, SMT, SMTT(40)
    <3>2. Held(none, l, l + div_ceil(quota'[2], LedgerSeconds)) = 0
      BY <2>3, <3>1, Zenon
    <3> QED BY <2>4, <3>2, SMT, SMTT(40)
  <2>7. ASSUME NEW c \in Companies, NEW s \in 0 .. seq,
               Paced(tracker[c], made[c], s, quota[1], quota[2])
        PROVE  Paced(tracker[c], made[c], s, quota[1], quota[2])'
    <3>1. s \in Nat /\ tracker[c].count \in Nat /\ tracker[c].window_start = s * LedgerSeconds
      BY <1>2, <1>3, <2>7, SMT, SMTT(40) DEF Paced
    <3>2. /\ Held(none, s, MaxLedger + 1) = 0
          /\ \A l \in Ledgers : Held(none, l, s) = 0
      BY <1>2, <2>3, <3>1, Zenon
    <3>3. none[seq] = 0
      BY <1>2, <2>2, SMTT(20), SMTT(40)
    <3>4. /\ 0 <= tracker[c].count /\ 0 <= quota'[1] /\ ~ none[seq] > 0
          /\ tracker'[c] = tracker[c] /\ made'[c] = none
      BY <1>1, <2>1, <2>4, <3>1, <3>3, SMT, SMTT(40)
    <3> QED BY <1>1, <3>1, <3>2, <3>4, Zenon DEF Paced
  <2>8. ASSUME NEW c \in Companies PROVE Kept(c)'
    <3>1. \A l \in Ledgers : l > seq' => made'[c][l] = 0
      BY <2>1, <2>2, SMT, SMTT(40)
    <3>2. \A l \in Ledgers :
             Held(made'[c], l, l + div_ceil(quota'[2], LedgerSeconds)) <= 2 * quota'[1]
      BY <2>1, <2>6, SMTT(20), SMTT(40)
    <3>3. IF tracker'[c] = NoTracker THEN made'[c] = [l \in Ledgers |-> 0]
          ELSE \E s \in 0 .. seq' : Paced(tracker[c], made[c], s, quota[1], quota[2])'
      <4>1. CASE tracker'[c] = NoTracker
        BY <2>1, <4>1, SMT, SMTT(40) DEF none
      <4>2. CASE tracker'[c] # NoTracker
        <5>1. PICK s \in 0 .. seq : Paced(tracker[c], made[c], s, quota[1], quota[2])
          BY <1>1, <1>3, <4>2, Zenon DEF Kept
        <5>2. Paced(tracker[c], made[c], s, quota[1], quota[2])'
          BY <2>7, <5>1, Zenon
        <5> QED BY <1>1, <4>2, <5>2, Zenon
      <4> QED BY <4>1, <4>2, SMT, SMTT(40)
    <3> QED BY <3>1, <3>2, <3>3, Zenon DEF Kept
  <2> QED BY <2>1, <2>8, SMT, SMTT(40)
<1> QED BY <1>4, <1>5, SMT, SMTT(40)

\* The invariant holds once the contract is set up.
LEMMA ThrottleInitially ==
    ASSUME ThrottleInit
    PROVE  ThrottleInv
<1> DEFINE none == [l \in Ledgers |-> 0]
<1>1. /\ seq = 0 /\ 0 \in Ledgers /\ LedgerSeconds \in Nat \ {0}
      /\ \A l \in Ledgers : l \in Nat
  BY ThrottleAssumption, SMT, SMTT(40) DEF ThrottleInit, Ledgers
<1>2. config \in ContractConfig /\ ConfigSound
  BY DefaultIsSound, Zenon DEF ThrottleInit, ConfigInit, ConfigSound, get_config_checksum
<1>3. /\ tracker \in [Companies -> [count : Nat, window_start : Int]]
      /\ \A c \in Companies : tracker[c] = NoTracker
  BY SMT, SMTT(40) DEF ThrottleInit, NoTracker
<1>4. /\ made \in [Companies -> [Ledgers -> Nat]]
      /\ \A c \in Companies : made[c] = none
  BY SMT, SMTT(40) DEF ThrottleInit, NothingMade
<1>5. /\ liveUntil \in [Keys -> Int] /\ accepted \in [Keys -> Int]
      /\ \A k \in Keys : accepted[k] = -1
  BY SMT, SMTT(40) DEF ThrottleInit
<1>6. /\ lastUpdate \in [Shipments -> Int] /\ updates \in [Shipments -> Int \X BOOLEAN]
      /\ \A s \in Shipments : updates[s][1] = lastUpdate[s]
  <2> DEFINE never == <<-1, FALSE>>
  <2>1. never \in Int \X BOOLEAN /\ never[1] = -1 /\ -1 \in Int
    <3>1. -1 \in Int
      BY SMT, SMTT(40)
    <3> QED BY <3>1, Zenon
  <2>2. updates = [s \in Shipments |-> never] /\ lastUpdate = [s \in Shipments |-> -1]
    BY Zenon DEF ThrottleInit
  <2> HIDE DEF never
  <2> QED BY <2>1, <2>2, Zenon
<1>7. none \in [Ledgers -> Nat] /\ \A l \in Ledgers : none[l] = 0
  BY SMT, SMTT(40)
<1>8. quota[1] \in Nat /\ div_ceil(quota[2], LedgerSeconds) \in Nat
  <2>1. quota[1] \in Nat /\ quota[2] \in Nat
    BY <1>2, SMT, SMTT(40) DEF quota, ContractConfig
  <2> QED BY <1>1, <2>1, DivCeil, SMT, SMTT(40)
<1> HIDE DEF none
<1>9. ASSUME NEW l \in Ledgers
      PROVE  Held(none, l, l + div_ceil(quota[2], LedgerSeconds)) <= 2 * quota[1]
  <2>1. l \in Nat /\ l + div_ceil(quota[2], LedgerSeconds) \in Nat
    BY <1>1, <1>8, SMT, SMTT(40)
  <2>2. Held(none, l, l + div_ceil(quota[2], LedgerSeconds)) = 0
    BY <1>7, <2>1, HeldNothing, Zenon
  <2> QED BY <1>8, <2>2, SMT, SMTT(40)
<1>10. ASSUME NEW c \in Companies PROVE Kept(c)
  <2>1. /\ \A l \in Ledgers : l > seq => made[c][l] = 0
        /\ \A l \in Ledgers :
              Held(made[c], l, l + div_ceil(quota[2], LedgerSeconds)) <= 2 * quota[1]
    BY <1>4, <1>7, <1>9, Zenon
  <2>2. tracker[c] = NoTracker /\ made[c] = [l \in Ledgers |-> 0]
    BY <1>3, <1>4, Zenon DEF none
  <2> QED BY <2>1, <2>2, Zenon DEF Kept
<1>11. \A k \in Keys : Spaced(k)
  BY <1>5, Zenon DEF Spaced
<1> QED BY <1>1, <1>2, <1>3, <1>4, <1>5, <1>6, <1>10, <1>11, ZenonT(40) DEF ThrottleInv

\* A ledger that closes: nothing was made in the next one yet.
LEMMA ClosingKeeps ==
    ASSUME ThrottleInv, CloseLedger
    PROVE  ThrottleInv'
<1>1. /\ seq' = seq + 1 /\ seq < MaxLedger /\ cfgVars' = cfgVars /\ tracker' = tracker
      /\ liveUntil' = liveUntil /\ lastUpdate' = lastUpdate /\ made' = made
      /\ accepted' = accepted /\ updates' = updates
  BY Zenon DEF CloseLedger
<1>2. /\ seq \in Nat /\ seq' \in Ledgers /\ 0 .. seq \subseteq 0 .. seq'
      /\ \A l \in Ledgers : l > seq' => l > seq
  BY <1>1, ThrottleAssumption, SMT, SMTT(40) DEF ThrottleInv, Ledgers
<1>3. seq' > seq
  BY <1>1, <1>2, SMT, SMTT(40)
<1>4. /\ config' = config /\ checksum' = checksum /\ quota' = quota
  BY <1>1, SMT, SMTT(40) DEF cfgVars, quota
<1>5. ASSUME NEW c \in Companies PROVE Kept(c)'
  <2>1. Kept(c) /\ made[c] \in [Ledgers -> Nat]
    BY Zenon DEF ThrottleInv
  <2>2. /\ \A l \in Ledgers : l > seq' => made'[c][l] = 0
        /\ \A l \in Ledgers :
              Held(made'[c], l, l + div_ceil(quota'[2], LedgerSeconds)) <= 2 * quota'[1]
    BY <1>1, <1>2, <1>4, <2>1, Zenon DEF Kept
  <2>3. made'[c][seq'] = 0
    BY <1>1, <1>2, <1>3, <2>1, Zenon DEF Kept
  <2>4. CASE tracker[c] = NoTracker
    BY <1>1, <2>1, <2>2, <2>4, Zenon DEF Kept
  <2>5. CASE tracker[c] # NoTracker
    <3>1. PICK s \in 0 .. seq : Paced(tracker[c], made[c], s, quota[1], quota[2])
      BY <2>1, <2>5, Zenon DEF Kept
    <3>2. ~ made'[c][seq'] > 0
      BY <2>3, SMT, SMTT(40)
    <3>3. Paced(tracker[c], made[c], s, quota[1], quota[2])'
      BY <1>1, <1>4, <3>1, <3>2, Zenon DEF Paced
    <3>4. s \in 0 .. seq'
      BY <1>2, SMT, SMTT(40)
    <3> QED BY <1>1, <2>2, <2>5, <3>3, <3>4, Zenon DEF Kept
  <2> QED BY <2>4, <2>5, SMT, SMTT(40)
<1>6. ConfigSound'
  BY <1>4, Zenon DEF ThrottleInv, ConfigSound, get_config_checksum
<1>7. \A k \in Keys : Spaced(k)'
  BY <1>1, Zenon DEF ThrottleInv, Spaced
<1> QED BY <1>1, <1>2, <1>4, <1>5, <1>6, <1>7, Zenon DEF ThrottleInv

\* Every step keeps the invariant.
LEMMA ThrottleStep ==
    ASSUME ThrottleInv, ThrottleNext
    PROVE  ThrottleInv'
<1>1. ASSUME CloseLedger PROVE ThrottleInv'
  BY <1>1, ClosingKeeps, SMT, SMTT(40)
<1>Config. ASSUME UNCHANGED cfgVars
           PROVE  config' = config /\ config' \in ContractConfig /\ ConfigSound'
  BY <1>Config, Zenon DEF ThrottleInv, ConfigSound, cfgVars, get_config_checksum
<1>2. ASSUME NEW c \in Companies, NEW h \in Hashes, create_shipment(c, h)
      PROVE  ThrottleInv'
  <2>1. /\ check_idempotency(<<c, h>>) /\ check_and_update_creation_quota_by(c, 1)
        /\ seq' = seq /\ cfgVars' = cfgVars /\ lastUpdate' = lastUpdate /\ updates' = updates
    BY <1>2, Zenon DEF create_shipment
  <2>2. <<c, h>> \in Keys /\ 1 \in Nat
    BY SMT, SMTT(40) DEF Keys
  <2>3. config' = config /\ config' \in ContractConfig /\ ConfigSound'
    BY <1>Config, <2>1, SMT, SMTT(40)
  <2>4. /\ tracker' \in [Companies -> [count : Nat, window_start : Int]]
        /\ made' \in [Companies -> [Ledgers -> Nat]]
        /\ \A d \in Companies : Kept(d)'
    BY <2>1, <2>2, <2>3, QuotaCall, Zenon
  <2>5. /\ liveUntil' \in [Keys -> Int] /\ accepted' \in [Keys -> Int]
        /\ \A j \in Keys : Spaced(j)'
    BY <2>1, <2>2, WindowStep, Zenon
  <2> QED BY <2>1, <2>3, <2>4, <2>5, Zenon DEF ThrottleInv
<1>3. ASSUME NEW c \in Companies, NEW n \in BatchSizes, create_shipments_batch(c, n)
      PROVE  ThrottleInv'
  <2>1. /\ check_and_update_creation_quota_by(c, n)
        /\ seq' = seq /\ cfgVars' = cfgVars /\ lastUpdate' = lastUpdate /\ updates' = updates
        /\ liveUntil' = liveUntil /\ accepted' = accepted
    BY <1>3, Zenon DEF create_shipments_batch
  <2>2. n \in Nat
    BY ThrottleAssumption, SMT, SMTT(40)
  <2>3. config' = config /\ config' \in ContractConfig /\ ConfigSound'
    BY <1>Config, <2>1, SMT, SMTT(40)
  <2>4. /\ tracker' \in [Companies -> [count : Nat, window_start : Int]]
        /\ made' \in [Companies -> [Ledgers -> Nat]]
        /\ \A d \in Companies : Kept(d)'
    BY <2>1, <2>2, <2>3, QuotaCall, Zenon
  <2>5. \A j \in Keys : Spaced(j)'
    BY <2>1, Zenon DEF ThrottleInv, Spaced
  <2> QED BY <2>1, <2>3, <2>4, <2>5, Zenon DEF ThrottleInv
<1>4. ASSUME NEW s \in Shipments, NEW byAdmin \in BOOLEAN, NEW h \in Hashes,
             update_status(s, byAdmin, h)
      PROVE  ThrottleInv'
  <2> DEFINE last == <<now, byAdmin>>
  <2>1. /\ check_idempotency(<<s, h>>) /\ lastUpdate' = [lastUpdate EXCEPT ![s] = now]
        /\ updates' = [updates EXCEPT ![s] = last]
        /\ seq' = seq /\ cfgVars' = cfgVars /\ tracker' = tracker /\ made' = made
    BY <1>4, Zenon DEF update_status
  <2>2. <<s, h>> \in Keys
    BY SMT, SMTT(40) DEF Keys
  <2>3. config' = config /\ config' \in ContractConfig /\ ConfigSound'
    BY <1>Config, <2>1, SMT, SMTT(40)
  <2>4. \A d \in Companies : Kept(d)'
    BY <2>1, <2>3, KeptSame, Zenon DEF ThrottleInv
  <2>5. /\ liveUntil' \in [Keys -> Int] /\ accepted' \in [Keys -> Int]
        /\ \A j \in Keys : Spaced(j)'
    BY <2>1, <2>2, WindowStep, ZenonT(40)
  <2>6. now \in Int
    BY ThrottleAssumption, SMT, SMTT(40) DEF now, ThrottleInv, Ledgers
  <2>7. last \in Int \X BOOLEAN /\ last[1] = now
    BY <2>6, SMT, SMTT(40)
  <2> HIDE DEF last
  <2>8. /\ lastUpdate' \in [Shipments -> Int] /\ updates' \in [Shipments -> Int \X BOOLEAN]
        /\ \A i \in Shipments : updates'[i][1] = lastUpdate'[i]
    BY <2>1, <2>6, <2>7, Zenon DEF ThrottleInv
  <2> QED BY <2>1, <2>3, <2>4, <2>5, <2>8, Zenon DEF ThrottleInv
<1>5. ASSUME \/ \E q \in Quotas : set_creation_quota(q)
             \/ \E new_config \in Offered : update_config(new_config),
             Reconfigured
      PROVE  ThrottleInv'
  <2>1. config' \in ContractConfig /\ ConfigSound'
    BY <1>5, ConfigStep, Zenon DEF ThrottleInv
  <2>2. made' \in [Companies -> [Ledgers -> Nat]] /\ \A c \in Companies : Kept(c)'
    BY <1>5, <2>1, ReconfiguredKeeps, Zenon
  <2>3. /\ seq' = seq /\ tracker' = tracker /\ liveUntil' = liveUntil
        /\ lastUpdate' = lastUpdate /\ accepted' = accepted /\ updates' = updates
    BY <1>5, Zenon DEF Reconfigured
  <2>4. \A j \in Keys : Spaced(j)'
    BY <2>3, Zenon DEF ThrottleInv, Spaced
  <2> QED BY <2>1, <2>2, <2>3, <2>4, Zenon DEF ThrottleInv
<1> QED BY <1>1, <1>2, <1>3, <1>4, <1>5, Zenon DEF ThrottleNext

\* ThrottleInv holds in every reachable state.
THEOREM ThrottleInvariant == ThrottleSpec => []ThrottleInv
<1>1. ThrottleInit => ThrottleInv
  BY ThrottleInitially, SMT, SMTT(40)
<1>2. ThrottleInv /\ [ThrottleNext]_throttleVars => ThrottleInv'
  <2>1. ASSUME ThrottleInv, UNCHANGED throttleVars PROVE ThrottleInv'
    <3>1. /\ seq' = seq /\ config' = config /\ checksum' = checksum /\ tracker' = tracker
          /\ liveUntil' = liveUntil /\ lastUpdate' = lastUpdate /\ made' = made
          /\ accepted' = accepted /\ updates' = updates
      BY <2>1, Zenon DEF throttleVars, cfgVars
    <3>2. \A c \in Companies : Kept(c)'
      BY <2>1, <3>1, KeptSame, Zenon DEF ThrottleInv
    <3>3. ConfigSound' /\ \A k \in Keys : Spaced(k)'
      BY <2>1, <3>1, Zenon DEF ThrottleInv, ConfigSound, get_config_checksum, Spaced
    <3> QED BY <2>1, <3>1, <3>2, <3>3, Zenon DEF ThrottleInv
  <2> QED BY <2>1, ThrottleStep, SMT, SMTT(40)
<1> QED BY <1>1, <1>2, PTL DEF ThrottleSpec

\* For any companies, quotas and timing, changes of the configuration included:
\* no company makes more than the quota in the window that is open, nor more
\* than twice the quota in any stretch of time as long as the window (lib.rs,
\* check_and_update_creation_quota_by).
THEOREM QuotaAlwaysBounded == ThrottleSpec => []QuotaBound
<1>1. ThrottleInv => QuotaBound
  <2> SUFFICES ASSUME ThrottleInv PROVE QuotaBound
    BY SMT, SMTT(40)
  <2>1. \A c, a, b : MadeIn(c, a, b) = Held(made[c], a, b)
    BY Zenon DEF MadeIn, Held
  <2>2. seq \in Nat /\ LedgerSeconds \in Nat \ {0} /\ quota[2] \in Nat /\ now \in Nat
    <3>1. seq \in Nat /\ LedgerSeconds \in Nat \ {0} /\ now \in Nat
      BY ThrottleAssumption, SMTT(20), SMTT(40) DEF ThrottleInv, Ledgers, now
    <3>2. quota[2] \in Nat
      BY SMT, SMTT(40) DEF ThrottleInv, quota, ContractConfig
    <3> QED BY <3>1, <3>2, SMTT(20), SMTT(40)
  <2>3. ASSUME NEW c \in Companies, tracker[c] # NoTracker,
               now < tracker[c].window_start + quota[2]
        PROVE  MadeIn(c, div_ceil(tracker[c].window_start, LedgerSeconds), MaxLedger + 1)
                  <= quota[1]
    <3>1. PICK s \in 0 .. seq : Paced(tracker[c], made[c], s, quota[1], quota[2])
      BY <2>3, ZenonT(40) DEF ThrottleInv, Kept
    <3>2. tracker[c].window_start = s * LedgerSeconds /\ s \in Nat
      BY <2>2, <3>1, SMT, SMTT(40) DEF Paced
    <3>3. now >= s * LedgerSeconds /\ s * LedgerSeconds \in Nat
      BY <2>2, <3>2, Times, SMTT(20), SMTT(40) DEF now
    <3>4. quota[2] > 0
      BY <2>2, <2>3, <3>2, <3>3, SMTT(20), SMTT(40)
    <3>5. div_ceil(tracker[c].window_start, LedgerSeconds) = s
      BY <2>2, <3>2, DivCeilExact, SMT, SMTT(40)
    <3>6. Held(made[c], s, MaxLedger + 1) <= quota[1]
      BY <3>1, <3>4, Zenon DEF Paced
    <3> QED BY <2>1, <3>5, <3>6, Zenon
  <2>4. \A c \in Companies, l \in Ledgers :
           MadeIn(c, l, l + div_ceil(quota[2], LedgerSeconds)) <= 2 * quota[1]
    BY <2>1, ZenonT(40) DEF ThrottleInv, Kept
  <2> QED BY <2>3, <2>4, Zenon DEF QuotaBound
<1> QED BY <1>1, ThrottleInvariant, PTL

\* For any quota and tracker: the requests that fit in the remaining quota
\* get_creation_quota_status reports are exactly those
\* check_and_update_creation_quota_by lets through.
THEOREM StatusAlwaysPredicts == ThrottleSpec => []StatusPredicts
<1>1. ThrottleInv => StatusPredicts
  <2> SUFFICES ASSUME ThrottleInv, NEW c \in Companies, NEW n \in BatchSizes \cup {1}
               PROVE  QuotaAllows(c, n) <=> \/ get_creation_quota_status(c)[2] = -1
                                            \/ n <= get_creation_quota_status(c)[2]
    BY ZenonT(40) DEF StatusPredicts
  <2> DEFINE remaining == get_creation_quota_status(c)[2]
             over == tracker[c] = NoTracker \/ now >= tracker[c].window_start + quota[2]
  <2>1. n \in Nat /\ quota[1] \in Nat /\ tracker[c].count \in Nat
    <3>1. n \in Nat
      BY ThrottleAssumption, SMTT(20), SMTT(40)
    <3>2. quota[1] \in Nat
      BY SMT, SMTT(40) DEF ThrottleInv, quota, ContractConfig
    <3>3. tracker[c].count \in Nat
      BY SMT, SMTT(40) DEF ThrottleInv
    <3> QED BY <3>1, <3>2, <3>3, SMT, SMTT(40)
  <2>2. CASE quota[1] = 0
    <3>1. remaining = -1
      BY <2>2, SMTT(20), SMTT(40) DEF get_creation_quota_status
    <3> QED BY <2>2, <3>1, SMTT(20), SMTT(40) DEF QuotaAllows
  <2>3. CASE quota[1] # 0 /\ over
    <3>1. remaining = quota[1]
      BY <2>3, SMTT(20), SMTT(40) DEF get_creation_quota_status
    <3>2. Rolled(c).count = 0
      BY <2>3, SMTT(20), SMTT(40) DEF Rolled
    <3> QED BY <2>1, <2>3, <3>1, <3>2, SMTT(20), SMTT(40) DEF QuotaAllows
  <2>4. CASE quota[1] # 0 /\ ~ over
    <3>1. Rolled(c).count = tracker[c].count
      BY <2>4, SMTT(20), SMTT(40) DEF Rolled
    <3>2. remaining = Max({0, quota[1] - tracker[c].count})
      BY <2>4, SMT, SMTT(40) DEF get_creation_quota_status
    <3>3. Max({0, quota[1] - tracker[c].count}) =
             IF 0 >= quota[1] - tracker[c].count THEN 0 ELSE quota[1] - tracker[c].count
      BY <2>1, MaxOfTwo, SMT, SMTT(40)
    <3> HIDE DEF over
    <3>4. QuotaAllows(c, n) <=> n = 0 \/ tracker[c].count + n <= quota[1]
      BY <2>4, <3>1, SMT, SMTT(40) DEF QuotaAllows
    <3> QED BY <2>1, <3>2, <3>3, <3>4, SMTT(20), SMTT(40)
  <2> QED BY <2>2, <2>3, <2>4, SMT, SMTT(40)
<1> QED BY <1>1, ThrottleInvariant, PTL

\* For any configurations offered, by whichever entry point: the one in force
\* passes validate_config and its checksum is fresh (config.rs).
THEOREM ConfigAlwaysSound == ThrottleSpec => []ConfigSound
<1>1. ThrottleInv => ConfigSound
  BY SMT, SMTT(40) DEF ThrottleInv
<1> QED BY <1>1, ThrottleInvariant, PTL

\* For any configurations, keys and timing: two accepted calls with the same key
\* are at least the life of a temporary entry apart, and a carrier's update
\* comes at least the interval in force after the last one (lib.rs,
\* check_idempotency, update_status).
THEOREM CallsAlwaysApart == ThrottleSpec => CallsApart
<1> DEFINE Apart ==
      /\ \A k \in Keys :
            (accepted[k] # -1 /\ accepted'[k] # accepted[k]) =>
               accepted'[k] - accepted[k] >= MinTempTtl * LedgerSeconds
      /\ \A s \in Shipments :
            (updates'[s] # updates[s] /\ updates[s][1] # -1 /\ ~ updates'[s][2]) =>
               updates'[s][1] - updates[s][1] >= config.min_status_update_interval
<1>1. ThrottleInv /\ [ThrottleNext]_throttleVars => [Apart]_throttleVars
  <2> SUFFICES ASSUME ThrottleInv, ThrottleNext PROVE Apart
    BY Zenon
  <2>1. ASSUME NEW k \in Keys, check_idempotency(k)
        PROVE  \A j \in Keys : (accepted[j] # -1 /\ accepted'[j] # accepted[j]) =>
                  accepted'[j] - accepted[j] >= MinTempTtl * LedgerSeconds
    <3>1. /\ accepted'[k] = now
          /\ \A j \in Keys : j # k => accepted'[j] = accepted[j]
          /\ accepted[k] # -1 => now - accepted[k] >= MinTempTtl * LedgerSeconds
      BY <2>1, WindowStep, Zenon
    <3> QED BY <3>1, Zenon
  <2>2. CASE accepted' = accepted /\ updates' = updates
    BY <2>2, Zenon
  <2>3. ASSUME NEW c \in Companies, NEW h \in Hashes, create_shipment(c, h) PROVE Apart
    <3>1. <<c, h>> \in Keys
      BY SMT, SMTT(40) DEF Keys
    <3>2. check_idempotency(<<c, h>>) /\ updates' = updates
      BY <2>3, Zenon DEF create_shipment
    <3> QED BY <2>1, <3>1, <3>2, Zenon
  <2>4. ASSUME NEW s \in Shipments, NEW byAdmin \in BOOLEAN, NEW h \in Hashes,
               update_status(s, byAdmin, h)
        PROVE  Apart
    <3> DEFINE last == <<now, byAdmin>>
    <3>1. <<s, h>> \in Keys
      BY SMT, SMTT(40) DEF Keys
    <3>2. /\ check_idempotency(<<s, h>>) /\ updates' = [updates EXCEPT ![s] = last]
          /\ \/ byAdmin \/ lastUpdate[s] = -1
             \/ now - lastUpdate[s] >= config.min_status_update_interval
      BY <2>4, Zenon DEF update_status
    <3>3. last[1] = now /\ last[2] = byAdmin
      BY Zenon
    <3> HIDE DEF last
    <3>4. /\ updates'[s] = last /\ updates[s][1] = lastUpdate[s]
          /\ \A i \in Shipments : i # s => updates'[i] = updates[i]
      BY <3>2, Zenon DEF ThrottleInv
    <3>5. ASSUME NEW i \in Shipments, updates'[i] # updates[i], updates[i][1] # -1,
                 ~ updates'[i][2]
          PROVE  updates'[i][1] - updates[i][1] >= config.min_status_update_interval
      <4>1. i = s
        BY <3>4, <3>5, Zenon
      <4>2. ~ byAdmin /\ lastUpdate[s] # -1
        BY <3>3, <3>4, <3>5, <4>1, Zenon
      <4> QED BY <3>2, <3>3, <3>4, <4>1, <4>2, Zenon
    <3> QED BY <2>1, <3>1, <3>2, <3>5, Zenon
  <2>5. CASE CloseLedger
    BY <2>2, <2>5, Zenon DEF CloseLedger
  <2>6. ASSUME NEW c \in Companies, NEW n \in BatchSizes, create_shipments_batch(c, n)
        PROVE  Apart
    BY <2>2, <2>6, Zenon DEF create_shipments_batch
  <2>7. CASE Reconfigured
    BY <2>2, <2>7, Zenon DEF Reconfigured
  <2> HIDE DEF Apart
  <2> QED BY <2>3, <2>4, <2>5, <2>6, <2>7, ZenonT(40) DEF ThrottleNext
<1> QED BY <1>1, ThrottleInvariant, PTL DEF ThrottleSpec, CallsApart
=============================================================================
