------------------------------- MODULE Roles -------------------------------
(***************************************************************************)
(* Role-based access: who holds which role, which roles are suspended, the *)
(* carrier whitelists, the pause switch and the audit log.                 *)
(*                                                                         *)
(* An address can hold several roles at once (DataKey::UserRole), but one  *)
(* legacy slot (DataKey::Role) names a single role, and revoking,          *)
(* suspending and reactivating go by that slot.                            *)
(*                                                                         *)
(* An entry of the audit log tells what was done, by whom and to whom; the *)
(* role is not in it.  Its timestamp is left out, and with it the query by *)
(* time.                                                                   *)
(***************************************************************************)
EXTENDS Naturals, Sequences, FiniteSets

CONSTANTS
    Addresses,      \* all the accounts
    Granted,        \* the roles the admin hands out
    Candidates,     \* the carriers a client asks list_company_carriers about
    MaxAudit        \* bound: entries of the audit log

AllRoles == {"Company", "Carrier", "Guardian", "Operator"}

\* The last five are never logged.
AuditEventType ==
    {"RoleAssigned", "RoleRevoked", "RoleSuspended", "RoleReactivated",
     "AdminTransferred", "CarrierWhitelisted", "CarrierUnwhitelisted",
     "CompanySuspended", "CompanyReactivated", "CarrierSuspended",
     "CarrierReactivated"}

AuditLogEntry == [event : AuditEventType, actor : Addresses, target : Addresses]

ASSUME RolesAssumption ==
    /\ Granted \subseteq AllRoles /\ MaxAudit \in Nat
    /\ Candidates \in Seq(Addresses)

VARIABLES
    admin,               \* DataKey::Admin
    paused,              \* DataKey::IsPaused
    held,                \* DataKey::UserRole(address, role)
    primary,             \* DataKey::Role(address)
    suspended,           \* DataKey::RoleSuspended(address, role)
    carrierSuspended,    \* DataKey::CarrierSuspended(address)
    companySuspended,    \* DataKey::CompanySuspended(address)
    whitelist,           \* DataKey::CarrierWhitelist(company, carrier)
    audit,               \* DataKey::AuditEntry(0 .. AuditEntryCount - 1)
    caller               \* the address whose signature the last call required

roles == <<held, primary>>
suspensions == <<suspended, carrierSuspended, companySuspended>>
vars == <<admin, paused, roles, suspensions, whitelist, audit, caller>>

-----------------------------------------------------------------------------

has_role(a, r) == r \in held[a]

get_role(a) == primary[a]

is_carrier_suspended(a) == a \in carrierSuspended

is_company_suspended(a) == a \in companySuspended

is_carrier_whitelisted(company, carrier) == <<company, carrier>> \in whitelist

is_role_suspended(a, r) == r \in suspended[a]

require_not_paused == ~ paused

require_admin(a) == a = admin

require_admin_or(a, r) ==
    a = admin \/ (has_role(a, r) /\ ~ is_role_suspended(a, r))

require_admin_or_guardian(a) == require_admin_or(a, "Guardian")
require_admin_or_operator(a) == require_admin_or(a, "Operator")

require_role(a, r) ==
    /\ has_role(a, r)
    /\ ~ is_role_suspended(a, r)
    /\ r = "Company" => ~ is_company_suspended(a)
    /\ r = "Carrier" => ~ is_carrier_suspended(a)

\* storage::set_role: the flag of the pair, and the legacy slot.
set_role(a, r) ==
    /\ held' = [held EXCEPT ![a] = @ \cup {r}]
    /\ primary' = [primary EXCEPT ![a] = r]

set_company_role(a) == set_role(a, "Company")

revoke_stored_role(a, r) ==
    /\ held' = [held EXCEPT ![a] = @ \ {r}]
    /\ primary' = [primary EXCEPT ![a] = "Unassigned"]

suspend_stored_role(a, r) == suspended' = [suspended EXCEPT ![a] = @ \cup {r}]

reactivate_stored_role(a, r) == suspended' = [suspended EXCEPT ![a] = @ \ {r}]

suspend_stored_carrier(a) == carrierSuspended' = carrierSuspended \cup {a}

reactivate_stored_carrier(a) == carrierSuspended' = carrierSuspended \ {a}

suspend_stored_company(a) == companySuspended' = companySuspended \cup {a}

reactivate_stored_company(a) == companySuspended' = companySuspended \ {a}

set_whitelisted(company, carrier) ==
    whitelist' = whitelist \cup {<<company, carrier>>}

remove_whitelisted(company, carrier) ==
    whitelist' = whitelist \ {<<company, carrier>>}

store_audit_entry(entry) == audit' = Append(audit, entry)

\* log_role_assigned, log_role_revoked and their kind, one per event.
Log(event, actor, target) ==
    /\ Len(audit) < MaxAudit
    /\ store_audit_entry([event |-> event, actor |-> actor, target |-> target])

query_audit_history_for_target(a) ==
    SelectSeq(audit, LAMBDA e : e.target = a)

query_audit_history_by_actor(a) ==
    SelectSeq(audit, LAMBDA e : e.actor = a)

Init ==
    /\ admin \in Addresses
    /\ paused = FALSE
    /\ held = [a \in Addresses |-> IF a = admin THEN {"Company"} ELSE {}]
    /\ primary = [a \in Addresses |->
                    IF a = admin THEN "Company" ELSE "Unassigned"]
    /\ suspended = [a \in Addresses |-> {}]
    /\ carrierSuspended = {} /\ companySuspended = {}
    /\ whitelist = {}
    /\ audit = <<>>
    /\ caller = admin

pause(a) ==
    /\ require_admin_or_guardian(a)
    /\ paused' = TRUE
    /\ caller' = a
    /\ UNCHANGED <<admin, roles, suspensions, whitelist, audit>>

unpause(a) ==
    /\ require_admin_or_guardian(a)
    /\ paused' = FALSE
    /\ caller' = a
    /\ UNCHANGED <<admin, roles, suspensions, whitelist, audit>>

\* add_company and add_carrier.
AddByOperator(a, r, target) ==
    /\ require_not_paused
    /\ require_admin_or_operator(a)
    /\ ~ has_role(target, r)
    /\ set_role(target, r)
    /\ Log("RoleAssigned", a, target)
    /\ caller' = a
    /\ UNCHANGED <<admin, paused, suspensions, whitelist>>

add_company(a, company) == AddByOperator(a, "Company", company)
add_carrier(a, carrier) == AddByOperator(a, "Carrier", carrier)

\* Mutant of AddByAdmin: guarded like add_company and add_carrier.
AddByAnyOperator(a, r, target) ==
    /\ require_not_paused
    /\ require_admin_or_operator(a)
    /\ set_role(target, r)
    /\ Log("RoleAssigned", a, target)
    /\ caller' = a
    /\ UNCHANGED <<admin, paused, suspensions, whitelist>>

\* add_guardian and add_operator: no check that the role is new.
AddByAdmin(a, r, target) ==
    /\ require_not_paused
    /\ require_admin(a)
    /\ set_role(target, r)
    /\ Log("RoleAssigned", a, target)
    /\ caller' = a
    /\ UNCHANGED <<admin, paused, suspensions, whitelist>>

add_guardian(a, guardian) == AddByAdmin(a, "Guardian", guardian)
add_operator(a, operator) == AddByAdmin(a, "Operator", operator)

\* Mutant of revoke_role: the legacy slot keeps the revoked role.
revoke_keeping_slot(a, target) ==
    /\ require_not_paused
    /\ require_admin(a)
    /\ a # target
    /\ held' = [held EXCEPT ![target] = @ \ {get_role(target)}]
    /\ Log("RoleRevoked", a, target)
    /\ caller' = a
    /\ UNCHANGED <<admin, paused, primary, suspensions, whitelist>>

\* The role in the legacy slot goes and the slot is Unassigned; other roles of
\* the target stay.  With an empty slot only the log changes.
revoke_role(a, target) ==
    /\ require_not_paused
    /\ require_admin(a)
    /\ a # target
    /\ revoke_stored_role(target, get_role(target))
    /\ Log("RoleRevoked", a, target)
    /\ caller' = a
    /\ UNCHANGED <<admin, paused, suspensions, whitelist>>

remove_guardian(a, guardian) == revoke_role(a, guardian)
remove_operator(a, operator) == revoke_role(a, operator)

suspend_role(a, target) ==
    /\ require_not_paused
    /\ require_admin(a)
    /\ a # target
    /\ get_role(target) # "Unassigned"
    /\ suspend_stored_role(target, get_role(target))
    /\ Log("RoleSuspended", a, target)
    /\ caller' = a
    /\ UNCHANGED <<admin, paused, roles, carrierSuspended, companySuspended,
                   whitelist>>

\* Mutant of reactivate_role: it leaves no entry in the log.
reactivate_unlogged(a, target) ==
    /\ require_not_paused
    /\ require_admin(a)
    /\ get_role(target) # "Unassigned"
    /\ reactivate_stored_role(target, get_role(target))
    /\ caller' = a
    /\ UNCHANGED <<admin, paused, roles, carrierSuspended, companySuspended,
                   whitelist, audit>>

reactivate_role(a, target) ==
    /\ require_not_paused
    /\ require_admin(a)
    /\ get_role(target) # "Unassigned"
    /\ reactivate_stored_role(target, get_role(target))
    /\ Log("RoleReactivated", a, target)
    /\ caller' = a
    /\ UNCHANGED <<admin, paused, roles, carrierSuspended, companySuspended,
                   whitelist>>

suspend_carrier(a, carrier) ==
    /\ require_not_paused
    /\ require_admin_or_operator(a)
    /\ suspend_stored_carrier(carrier)
    /\ caller' = a
    /\ UNCHANGED <<admin, paused, roles, suspended, companySuspended, whitelist,
                   audit>>

reactivate_carrier(a, carrier) ==
    /\ require_not_paused
    /\ require_admin_or_operator(a)
    /\ reactivate_stored_carrier(carrier)
    /\ caller' = a
    /\ UNCHANGED <<admin, paused, roles, suspended, companySuspended, whitelist,
                   audit>>

suspend_company(a, company) ==
    /\ require_not_paused
    /\ require_admin_or_operator(a)
    /\ has_role(company, "Company")
    /\ suspend_stored_company(company)
    /\ caller' = a
    /\ UNCHANGED <<admin, paused, roles, suspended, carrierSuspended, whitelist,
                   audit>>

reactivate_company(a, company) ==
    /\ require_not_paused
    /\ require_admin_or_operator(a)
    /\ reactivate_stored_company(company)
    /\ caller' = a
    /\ UNCHANGED <<admin, paused, roles, suspended, carrierSuspended, whitelist,
                   audit>>

add_carrier_to_whitelist(company, carrier) ==
    /\ require_not_paused
    /\ require_role(company, "Company")
    /\ ~ is_carrier_whitelisted(company, carrier)
    /\ set_whitelisted(company, carrier)
    /\ Log("CarrierWhitelisted", company, carrier)
    /\ caller' = company
    /\ UNCHANGED <<admin, paused, roles, suspensions>>

remove_carrier_from_whitelist(company, carrier) ==
    /\ require_not_paused
    /\ require_role(company, "Company")
    /\ remove_whitelisted(company, carrier)
    /\ caller' = company
    /\ UNCHANGED <<admin, paused, roles, suspensions, audit>>

\* Asked by clients; no entry point of the contract asks it.
is_company_carrier_allowed(company, carrier) ==
    /\ is_carrier_whitelisted(company, carrier)
    /\ ~ is_company_suspended(company)
    /\ ~ is_carrier_suspended(carrier)

\* None; a next_cursor is at least 1.
NoCursor == 0

\* The candidates up to which a page of n is filled, scanning from cursor.
LastScanned(company, cursor, n) ==
    LET Hits(i) == {j \in cursor + 1 .. i : is_carrier_whitelisted(company, Candidates[j])}
        full == {i \in cursor + 1 .. Len(Candidates) : Cardinality(Hits(i)) = n}
    IN IF full = {} THEN Len(Candidates)
       ELSE CHOOSE i \in full : \A j \in full : i <= j

\* Mutant of list_company_carriers: the cursor skips a candidate.
list_carriers_skipping(company, cursor, n) ==
    LET last == LastScanned(company, cursor, n) IN
    [carriers |-> SelectSeq(SubSeq(Candidates, cursor + 1, last),
                            LAMBDA c : is_carrier_whitelisted(company, c)),
     next_cursor |-> IF last + 1 < Len(Candidates) THEN last + 1 ELSE NoCursor,
     total_scanned |-> last - cursor]

\* A page that is full at the last candidate has no next_cursor, like one
\* that ran out of candidates.
list_company_carriers(company, cursor, n) ==
    LET last == LastScanned(company, cursor, n) IN
    [carriers |-> SelectSeq(SubSeq(Candidates, cursor + 1, last),
                            LAMBDA c : is_carrier_whitelisted(company, c)),
     next_cursor |-> IF last < Len(Candidates) THEN last ELSE NoCursor,
     total_scanned |-> last - cursor]

\* The end of accept_admin_transfer; who may be new_admin is module Governance.
accept_admin_transfer(new_admin) ==
    /\ admin' = new_admin
    /\ set_company_role(new_admin)
    /\ Log("AdminTransferred", admin, new_admin)
    /\ caller' = new_admin
    /\ UNCHANGED <<paused, suspensions, whitelist>>

\* The TransferAdmin branch of execute_proposal_internal; a is the last signer.
ExecuteTransferAdmin(a, new_admin) ==
    /\ admin' = new_admin
    /\ set_company_role(new_admin)
    /\ caller' = a
    /\ UNCHANGED <<paused, suspensions, whitelist, audit>>

Administer(a, t) ==
    \/ add_company(a, t) /\ "Company" \in Granted
    \/ add_carrier(a, t) /\ "Carrier" \in Granted
    \/ add_guardian(a, t) /\ "Guardian" \in Granted
    \/ add_operator(a, t) /\ "Operator" \in Granted
    \/ revoke_role(a, t) \/ remove_guardian(a, t) \/ remove_operator(a, t)
    \/ suspend_role(a, t) \/ reactivate_role(a, t)
    \/ suspend_carrier(a, t) \/ reactivate_carrier(a, t)
    \/ suspend_company(a, t) \/ reactivate_company(a, t)

Next ==
    \/ \E a \in Addresses : pause(a) \/ unpause(a)
    \/ \E a, t \in Addresses :
          \/ Administer(a, t)
          \/ add_carrier_to_whitelist(a, t)
          \/ remove_carrier_from_whitelist(a, t)
          \/ ExecuteTransferAdmin(a, t)
    \/ \E a \in Addresses : accept_admin_transfer(a)

Spec == Init /\ [][Next]_vars

-----------------------------------------------------------------------------

\* Every variable has its type.
TypeOK ==
    /\ admin \in Addresses /\ paused \in BOOLEAN
    /\ held \in [Addresses -> SUBSET AllRoles]
    /\ primary \in [Addresses -> AllRoles \cup {"Unassigned"}]
    /\ suspended \in [Addresses -> SUBSET (AllRoles \cup {"Unassigned"})]
    /\ carrierSuspended \subseteq Addresses
    /\ companySuspended \subseteq Addresses
    /\ whitelist \subseteq Addresses \X Addresses
    /\ audit \in Seq(AuditLogEntry)
    /\ caller \in Addresses

\* The two places a role is kept agree, and with them the admin: the role the
\* legacy slot names (and get_role reports) is one that has_role grants, and
\* the admin always holds the Company role, whichever way the admin changed and
\* whoever was revoked (storage.rs, set_role and revoke_role; lib.rs,
\* initialize, accept_admin_transfer, execute_proposal_internal, revoke_role).
RolesAgree ==
    /\ \A a \in Addresses : get_role(a) # "Unassigned" => has_role(a, get_role(a))
    /\ has_role(admin, "Company")

\* The pages a client collects by following next_cursor from 0.
Collected(company, n) ==
    LET from[c \in 0 .. Len(Candidates)] ==
          LET page == list_company_carriers(company, c, n) IN
          IF page.next_cursor = NoCursor THEN page.carriers
          ELSE page.carriers \o from[page.next_cursor]
    IN from[0]

\* Following next_cursor to its end yields every whitelisted candidate once, in
\* order, for every page size, and every carrier is_company_carrier_allowed
\* accepts is among them (lib.rs, list_company_carriers).
CarrierPagesCover ==
    \A company \in Addresses, n \in 1 .. Len(Candidates) :
       LET listed == Collected(company, n) IN
       /\ listed = SelectSeq(Candidates, LAMBDA c : is_carrier_whitelisted(company, c))
       /\ \A i \in DOMAIN Candidates :
             is_company_carrier_allowed(company, Candidates[i]) =>
                \E j \in DOMAIN listed : listed[j] = Candidates[i]

Effective(a) == {r \in AllRoles : require_role(a, r)}

\* The Guardian and Operator roles come only from the admin: nobody else,
\* operators included, ever makes one of these roles usable for an address
\* (lib.rs, add_guardian, add_operator, reactivate_role).
PrivilegeFromAdmin ==
    [][\A a \in Addresses :
          (Effective(a)' \ Effective(a)) \cap {"Guardian", "Operator"} # {} =>
             caller' = admin]_vars

\* A grant, revocation, suspension or reactivation of a role adds one entry to
\* the history of the address it is about, under the address that made it, and
\* no history is ever shortened or rewritten.  Excepted are the TransferAdmin
\* proposal and the company and carrier suspensions, which log nothing
\* (audit.rs, query_audit_history_for_target, query_audit_history_by_actor).
RoleChangesAudited ==
    [][\A a \in Addresses :
          LET before == query_audit_history_for_target(a)
              after == query_audit_history_for_target(a)'
              changed == held'[a] # held[a] \/ suspended'[a] # suspended[a]
          IN /\ SubSeq(after, 1, Len(before)) = before
             /\ (changed /\ admin' = admin) =>
                   /\ Len(after) = Len(before) + 1
                   /\ after[Len(after)].actor = caller'
                   /\ \E b \in Addresses :
                         /\ b = caller'
                         /\ Len(query_audit_history_by_actor(b)') =
                               Len(query_audit_history_by_actor(b)) + 1]_vars
=============================================================================
