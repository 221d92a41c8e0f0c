------------------------------- MODULE Config -------------------------------
(***************************************************************************)
(* The contract configuration and the checksum kept beside it.  The        *)
(* modules that read the configuration extend this one: a change of it is  *)
(* one more step that can fall between two of theirs.                      *)
(***************************************************************************)
EXTENDS Integers

CONSTANTS
    Offered,   \* the configurations update_config is called with
    Quotas     \* pairs <<max, window>> offered to set_creation_quota

ContractConfig ==
    [shipment_ttl_threshold : Nat, shipment_ttl_extension : Nat,
     min_status_update_interval : Nat, batch_operation_limit : Nat,
     max_metadata_entries : Nat, default_shipment_limit : Nat,
     multisig_min_admins : Nat, multisig_max_admins : Nat,
     proposal_expiry_seconds : Nat, deadline_grace_seconds : Nat,
     idempotency_window_seconds : Nat, auto_dispute_breach : BOOLEAN,
     max_milestones_per_shipment : Nat, max_notes_per_shipment : Nat,
     max_evidence_per_dispute : Nat, max_breaches_per_shipment : Nat,
     creation_quota_max : Nat, creation_quota_window_seconds : Nat]

ASSUME ConfigAssumption ==
    /\ Offered \subseteq ContractConfig
    /\ Quotas \subseteq Nat \X Nat

VARIABLES
    config,     \* instance storage: DataKey::ContractConfig
    checksum    \* instance storage: DataKey::ConfigChecksum

cfgVars == <<config, checksum>>

\* ContractConfig::default().
DefaultConfig ==
    [shipment_ttl_threshold |-> 17280, shipment_ttl_extension |-> 518400,
     min_status_update_interval |-> 60, batch_operation_limit |-> 10,
     max_metadata_entries |-> 5, default_shipment_limit |-> 100,
     multisig_min_admins |-> 2, multisig_max_admins |-> 10,
     proposal_expiry_seconds |-> 604800, deadline_grace_seconds |-> 0,
     idempotency_window_seconds |-> 300, auto_dispute_breach |-> FALSE,
     max_milestones_per_shipment |-> 255, max_notes_per_shipment |-> 255,
     max_evidence_per_dispute |-> 255, max_breaches_per_shipment |-> 255,
     creation_quota_max |-> 0, creation_quota_window_seconds |-> 3600]

\* Mutant of validate_config: an empty page or batch is allowed.
validate_all_but_batch(c) ==
    c.batch_operation_limit <= 100 /\ c.min_status_update_interval >= 10

Within(x, low, high) == low <= x /\ x <= high

\* Neither the idempotency window nor the quota is looked at.
validate_config(c) ==
    /\ Within(c.shipment_ttl_threshold, 1, 1000000)
    /\ Within(c.shipment_ttl_extension, 1, 10000000)
    /\ Within(c.min_status_update_interval, 10, 86400)
    /\ Within(c.batch_operation_limit, 1, 100)
    /\ Within(c.max_metadata_entries, 1, 50)
    /\ Within(c.max_milestones_per_shipment, 1, 1000)
    /\ Within(c.max_notes_per_shipment, 1, 1000)
    /\ Within(c.max_evidence_per_dispute, 1, 1000)
    /\ Within(c.max_breaches_per_shipment, 1, 1000)
    /\ Within(c.default_shipment_limit, 1, 10000)
    /\ c.multisig_min_admins >= 2
    /\ Within(c.multisig_max_admins, c.multisig_min_admins, 50)
    /\ Within(c.proposal_expiry_seconds, 3600, 2592000)
    /\ c.deadline_grace_seconds <= 604800

\* The fields the checksum leaves out.
Unhashed ==
    {"idempotency_window_seconds", "creation_quota_max",
     "creation_quota_window_seconds"}

\* SHA-256 over the other fifteen, taken to be injective.
compute_config_checksum(c) == [f \in DOMAIN c \ Unhashed |-> c[f]]

set_config_checksum(sum) == checksum' = sum

set_config(c) ==
    /\ config' = c
    /\ set_config_checksum(compute_config_checksum(c))

\* Stored since initialize; the fallback that computes it is never needed.
get_config_checksum == checksum

\* What initialize stores.
ConfigInit ==
    /\ config = DefaultConfig
    /\ checksum = compute_config_checksum(DefaultConfig)

\* Mutant of update_config: the new configuration is not validated.
update_config_unchecked(new_config) == set_config(new_config)

update_config(new_config) ==
    /\ validate_config(new_config)
    /\ set_config(new_config)

\* Written back without validate_config.
set_creation_quota(q) ==
    /\ q[1] > 0 => q[2] > 0
    /\ set_config([config EXCEPT !.creation_quota_max = q[1],
                                 !.creation_quota_window_seconds = q[2]])

-----------------------------------------------------------------------------
\* Whichever entry point wrote it last, the configuration in force passes
\* validate_config and the checksum indexers read is that of the configuration
\* in force: set_creation_quota, which does not validate, cannot undo what
\* update_config checks, and neither leaves a stale checksum behind.
ConfigSound ==
    /\ validate_config(config)
    /\ get_config_checksum = compute_config_checksum(config)
=============================================================================
