# Verification of the Navin contracts

TLA+ specifications of the two Soroban contracts of this repository, the
shipment contract (`src/contracts/shipment`) and the token contract
(`src/contracts/token`), with TLC configurations that check them on small
instances and TLAPS proofs of nearly all safety properties for all instances.

## The system

The **shipment contract** keeps a record per shipment: status, escrow, schedule
of payment milestones, deadline, and a `finalized` flag. Companies create
shipments and deposit tokens; carriers move them and report milestones and
breaches; receivers confirm delivery; anybody may run `check_deadline`. Money
leaves the contract through releases to the carrier and refunds to the company,
each a call to the **token contract** guarded by a **circuit breaker**. Beside
the records the contract keeps redundant state: an `Escrow` entry per shipment,
a counter per status, a count of active shipments per company. The admin can
archive ended shipments into temporary storage, where they expire, and repair
records with four recovery calls. Around this core stand roles and suspensions,
a pause switch, an audit log, an admin hand-over and multi-signature proposals,
creation quotas, a window against repeated calls, a minimum interval between
status updates, and dependencies between shipments.

**Atomicity.** The host runs a call as one transaction and discards all its
writes when it returns an error. A successful call is therefore one step of the
model, a failed one a stutter, and calls of different parties interleave only as
whole steps. Two consequences are modelled explicitly: an approval whose
automatic execution fails leaves no trace (`Governance`), and neither does the
breaker's record of a failed transfer (`Breaker`, constant `KeepFailures`).

## Inventory

| Part | Source | Module | State of the model |
|---|---|---|---|
| Lifecycle, escrow, milestones, counters | `lib.rs`, `storage.rs`, `types.rs`, `validation.rs` | `Shipment`, `ShipmentStatus`, `Fees`, `Sums` | all operations on shipments; the fee is a constant |
| Limits on active shipments | `lib.rs`, `storage.rs` | `Limits` | all operations |
| Recovery, archival | `recovery.rs`, `lib.rs`, `storage.rs` | `Shipment`, `Records` | all operations |
| What escrow promises | (abstract) | `EscrowVault` | refined by `Shipment` |
| Settlement records, analytics | `lib.rs`, `storage.rs`, `types.rs` | `Journal`, `Records` | all operations |
| Notes, evidence, metadata, hashes, nonce | `lib.rs`, `storage.rs` | `Journal`, `Records` | all operations |
| Events and their keys | `events.rs`, `event_topics.rs` | `Journal`, `Records` | the events about shipments |
| Consistency scans, diagnostics, summaries | `consistency.rs`, `diagnostics.rs`, `lib.rs` | `Audit`, `Records`, `Queries` | all but the checks on timestamps |
| Searches and pages | `lib.rs` | `Queries` | all |
| Configuration and its checksum | `config.rs`, `lib.rs` | `Config` | all operations |
| Token | `token/src/lib.rs`, `storage.rs` | `Token`, `TokenMetadata` | all operations |
| Hand-over, proposals, upgrade | `lib.rs`, `types.rs` | `Governance` | all operations |
| Roles, suspension, whitelist, pause, audit log | `lib.rs`, `storage.rs`, `audit.rs` | `Roles` | all operations |
| Circuit breaker | `circuit_breaker.rs`, `lib.rs` | `Breaker` | all operations |
| Quota, repeated calls, update interval | `lib.rs`, `storage.rs`, `config.rs` | `Throttle` | all operations |
| Dependencies | `lib.rs`, `storage.rs` | `Dependencies` | all operations |
| Rate limiter, error texts, validation of strings | `rate_limit.rs`, `error_map.rs`, `validation.rs` | – | see "Not modelled" |

How the modules build on one another: `Audit`, `Limits`, `Records` and `Queries`
extend `Shipment`; `Records` also extends `Journal`; `Throttle` and `Queries`
extend `Config`; `TokenMetadata` extends `Token`. Each extension keeps the actions of the module below and
conjoins what the same entry point does to its own state, or interleaves further
calls with them. `Governance`, `Roles`, `Breaker` and `Dependencies` stand alone:
what they share with `Shipment` they reduce to what their guards look at.

## Modules and the code

**`Shipment`.** One action per entry point, with the name of the function. Its
guards are the early returns of the handler. `ship[i]` is the record that
`get_shipment` returns and `loc[i]` where it finds it (persistent storage, the
archive, nowhere). `escrowKey`, `statusCount` and `activeCount` are the redundant
entries, updated in each action as in the handler: `persist_shipment` validates
and writes the record and the `Escrow` entry, `set_shipment` writes only the
record, and the recovery calls use the latter. `bal` is the token's view of the
contract's accounts; `invoke_token_transfer` fails, and the call with it, when the
balance is too small. Who may call an entry point, repeated calls and
prerequisites are in `Roles`, `Throttle` and `Dependencies`; here any call that an
authorised caller could make can happen.

`Lifecycle` is the contract without archival and recovery; `WithRecovery` adds
the latter; `Spec` has both. Archiving clears the recovery records and so the
limit on them, after which the status counters can grow without bound: `Spec` has
infinitely many states and is the subject of the proofs, the others are the
subject of the runs.

**`EscrowVault`** says what escrow promises: an account per shipment that is
filled when empty, less a fee, paid out in slices to a company or a carrier, or
written off. `ImplementsVault` maps the records' escrow to the accounts.

**`Limits`** makes the limit on active shipments state, the global one and those
of single companies, changed between any two calls.

**`Audit`** has the read-only reports as operators: the invariant checks of
`consistency.rs`, for all shipments and for a window, the health check, its pages,
the preflight check, the counts by status.

**`Journal`** has the storage helpers and the emitters of events as operators on
the *side record* of one shipment, everything kept beside the shipment itself: the
event counter, the counts of milestones, breaches, notes and evidence and the
indices they are stored at, the hashes per status, the nonce, the settlement
records. An indexer is part of the model: it drops an event whose key it has seen
and keeps its own status and escrow. A key is the tuple of domain, topic and
counter that is hashed, with no collisions.

**`Records`** has a side record `side[i]` per shipment, the totals, the archived
copy (`copy[i]`) and whether an archived shipment was written to (`touched[i]`). An
action is the action of `Shipment` conjoined with a chain of operators of `Journal`
on `side[i]`, one per emitter or storage helper the handler calls, in the order it
calls them.

**`Fees`** has the fee rate, the rounding multiplication and the platform fee of a
deposit, which `Shipment` and the proofs about `Journal` share.

**`Config`** has `update_config` with its validation, `set_creation_quota`
without, and the checksum as the tuple of the 15 fields it covers.

**`Queries`** has a client that walks through pages by cursor, by offset or by
window while shipments are created, moved, handed over, archived and lost, and the
configuration changes the largest page.

**`Token`** has balances, supply, allowances with an expiry ledger, pause and
admin, with integers bounded by `MaxInt`: an addition that the code does not
check may leave the range, and `NoOverflow` says that it never does.
**`TokenMetadata`** adds the metadata entries and their allowlist.

**`Governance`** has the two-step hand-over, `init_multisig`, proposals with
approvals in order, expiry and salts, and the version. The digest of an action is
the pair of id and action (a hash without collisions). Shipments are open or
settled, which is what the forced release and refund look at.

**`Roles`** keeps roles as the code does, in a set per address and in one legacy
slot, the three suspension flags, whitelists, the pause, and the audit log with
the actor and target of each entry.

**`Breaker`** keeps ages instead of times: only differences are compared.

**`Throttle`** counts ledgers and seconds; `extend_ttl` is the host's rule, which
prolongs an entry only when its remaining life is within the threshold. Histories
(`made`, `accepted`, `updates`) are read by properties only.

**`Dependencies`** has the lists of prerequisites, the depth-first search of
`would_create_cycle` with its stack and visited list, and every way in which a
status changes but recovery, which may set any status. Escrow is not part of it,
so whether an ended shipment is finalized is left open, and both cases are
explored.

## Runs

Passing runs:

| Run | Instance | Shows |
|---|---|---|
| `shipment_recovery` | one shipment, all lifecycle and recovery calls | `Solvent`, `FinalizedSettled`, `MilestonesPaidFor`; `ImplementsVault` (every call is a step of the abstract vault); `DeadlineEnforced` (a shipment past its deadline ends) |
| `shipment_lifecycle` | two shipments of one company, limits that change | `AuditFindsNothing`: the contract's own audit is clean after every call; `ReportsAgree`: the reports agree with one another and with the token, and any two pages that cover the shipments add up to the whole; `LimitHolds`: the limit on the count is a limit on shipments; `TerminalDiscipline`: how a terminal status may be left |
| `records` | one shipment, archival and expiry, all that is kept beside it | `IndexerAgrees`, `ArchiveLeavesNothing`, `SettledInOnePlace`, `NonceAdvances`, `SettlementsExplain`, `FinalizedFrozen` |
| `queries` | three shipments, four filters, three kinds of walk | `WalkComplete`: a walk misses nothing and repeats nothing; `WalkEnds` |
| `token` | three accounts, supply one below the largest integer | `SupplyConserved`, `NoOverflow`, `Authorised`, `ExpiredStaysDead`, `WithdrawnFrozen` |
| `governance` | three signers, one id that can be issued again | `DigestMatches`, `QuorumOfDistinct`, `DeadProposalInert`, `AdminByConsent` |
| `roles` | two addresses, four roles | `RolesAgree`, `CarrierPagesCover`, `PrivilegeFromAdmin`, `RoleChangesAudited` |
| `breaker` | the named presets and limits, writes of a failed call kept | `StatusForetells`, `OpenShields`, `Recovers` |
| `throttle` | one company, one shipment, two keys, five ledgers, several configurations | `QuotaBound`, `StatusPredicts`, `ConfigSound`, `CallsApart` |
| `dependencies` | three shipments with two prerequisites each | `NoCircularWait`, `SearchIsExact`, `AllArrive` |

Runs that end in a counterexample, each stating a sentence of the source that the
code does not keep (the sentence and the place are in `PROJECT.json`, findings):

| Run | The code does |
|---|---|
| `claim_cancel` | `cancel_shipment` clears the escrow and refunds nothing |
| `breaker_opens` | the count of failures is rolled back with the failed call, so the breaker never opens |

Some properties carry exceptions, which are what the code does and not choices of
the model; each is named in the comment before the property. `IndexerAgrees` ends
when an archived shipment is written to, because archival resets the event
counter and keys repeat. `SettlementsExplain` excepts the four ways in which an
escrow is emptied without a record. `NonceAdvances` excepts `confirm_delivery`
without escrow. `WalkComplete` excepts offsets over a set that changed.
`RoleChangesAudited` excepts what is not logged.

**Bounds.** Amounts, fee and percentages are chosen so that integer division
truncates: 10 tokens less 10 % leave 9, of which the first milestone (33 %) is 2
with a remainder, and a deposit of 5 pays no fee. One shipment is enough for
properties of a record; two and three make shipments of one company compete for
counters, limits and the contract's balance. Time runs to the deadline; the grace
period is 0, and 1 in the run about cancellation, since the code only ever adds
the two. In `records` a note, a piece of evidence or a breach may be added
(`MaxNotes`, `MaxEvidence`, `MaxBreaches`; one of the three at a time,
`MaxAppended`, since they share nothing but the event counter, and evidence can
be added to a dispute that no breach raised), which reaches both sides of each
limit and lets an index be used again after archival; `MaxEvents` and `MaxNonce`
bound the counters, `MaxTracking` the reports that change nothing but them. The
token has a supply one below the largest integer, so that minting and crediting
meet the limit, and one pair of owner and spender, since allowances of different
pairs are never read together. Three signers with a threshold of two or three meet
every order of approval, expiry and change of the list; one proposal id is enough
to be issued twice. Two addresses can each be admin and target; two entries of the
audit log tell an entry that is added from one that is rewritten (`MaxAudit`). The
quota windows lie across ledgers of 5 seconds, so roll-over happens exactly at,
before and after a ledger. Three shipments with two prerequisites each contain
chains, repeated entries and a node reached by two paths, the shapes that tell the
search from a wrong one. Three shipments in pages of one and two make a walk of
several pages with a partial last one.

**Fairness.** `DeadlineEnforced` assumes weak fairness of the clock and of
`check_deadline`, which anybody may call at any time, paused or not; recovery is
allowed to interfere, a limited number of times, as in the code. `Recovers`
assumes that time passes and that a transfer that would succeed is tried again
and again (strong fairness, because the breaker keeps disabling it); nobody is
assumed to reset the breaker. `WalkEnds` assumes that the client asks for the next
page as long as there is one. `AllArrive` assumes that a carrier that may let a
shipment depart, or deliver it, does so.

## Other disagreements between comments and code

Met while translating the code, each read off the lines given; no run states
them. They are kept here because the models follow the code, not the comment.

| Comment | Code |
|---|---|
| `lib.rs:6033` pause disables all state-changing operations | `lib.rs:5124` breach reports, deadlines and proposals change shipments while paused |
| `storage.rs:1560` an archived shipment's escrow is always zero | `lib.rs:3410` only the status is checked, and `update_status` ends a shipment with its escrow |
| `types.rs:308` nothing leaves `PartiallyRefunded` | `lib.rs:5172` and others compare single statuses, not the table |
| `storage.rs:1348` number of active shipments | `lib.rs:2815` ending a shipment by `update_status` keeps it in the count (`LimitHolds` uses the half that holds) |
| `diagnostics.rs:70` the two copies of the escrow match | `recovery.rs:181` a recovery writes only the record (`AuditFindsNothing` holds without recovery) |
| `consistency.rs:56` status counters match the records | `recovery.rs:103` a recovery does not move them (the same) |
| `token/src/lib.rs:250` an allowance is increased | `token/src/lib.rs:276` one that expired or was never approved stays unusable |
| `types.rs:696` proposal ids are unique | `lib.rs:5368` `init_multisig` starts them again |
| `lib.rs:1770` `remove_guardian` revokes the Guardian role | `lib.rs:1950` it revokes the role in the legacy slot |
| `lib.rs:1977` a suspended address cannot act | `lib.rs:2010` only the role in the legacy slot is suspended |
| `audit.rs:3` all role and permission changes are logged | `lib.rs:1791` carrier and company suspensions, removal from a whitelist and `TransferAdmin` are not |
| `lib.rs:6064` only the admin can unpause | `lib.rs:6085` a guardian can |
| `circuit_breaker.rs:39` consecutive failures | `circuit_breaker.rs:189` a success on a closed breaker does not reset the count |
| `lib.rs:6272` only the admin resets the breaker | `circuit_breaker.rs:369` the members of the multi-signature list do |
| `config.rs:92` a hash is held for the configured window | `storage.rs:1833` `extend_ttl` with threshold 0 leaves a fresh entry its minimum life |
| `error_map.rs:373` prerequisites are checked for `InTransit` and `Delivered` | `lib.rs:2796` only for `InTransit` |
| `lib.rs:4766` escrow is frozen until the admin resolves the dispute | `lib.rs:4089` `release_milestone_payment` does not look at the status and pays |
| `lib.rs:1405` indexers can recompute the key of an event | `events.rs:1564` `geofence_event` is emitted under another domain than the table of `event_topics.rs:256`; `milestone_payment_released` does not fit the helper's buffer |
| `lib.rs:1407` keys deduplicate events | `storage.rs:1545` archival resets the counter, so writes to an archived shipment repeat keys |
| `lib.rs:991` the nonce increments on status changes | `confirm_delivery` of a shipment without escrow keeps it |
| `storage.rs:1727` one hash per status is purged | `storage.rs:1731` the list has no `PartiallyRefunded` |
| `config.rs:326` the checksum covers all fields | `config.rs:364` 15 fields in 69 bytes; three are left out, and the comment lists 14 in 65 |
| `config.rs:67` the default limit can be overridden by `set_shipment_limit` | `lib.rs:1114` that call sets the limit of all companies, and `default_shipment_limit` is not read after initialization |
| `lib.rs:6404` the audit is complete when a page is empty | `lib.rs:6441` a healthy window is empty too; the last shipment ends it |
| `lib.rs:6406` counter drift is reported on the final page | `consistency.rs:188` reports it only for a window that covers all shipments |
| `lib.rs:6415` windows go up to `batch_operation_limit` | `lib.rs:6436` up to the limit of batch queries |
| `lib.rs:1335` which statuses are non-terminal | `lib.rs:1351` counts `Disputed` too |
| `lib.rs:6463` neither party is suspended | `is_company_carrier_allowed` does not look at `suspend_role` |
| `lib.rs:1850` history as actor or target | `audit.rs:314` matches the target only |
| `types.rs:454` a failed settlement requires investigation | `lib.rs:318` the record is rolled back with the call and cannot be read |
| `rate_limit.rs:3` sliding window | a fixed window, and no entry point uses it |

## Proofs

All proofs are for every value of the constants within the named assumptions:
any number of shipments, accounts, addresses, keys and proposals, any amounts,
fees, limits, thresholds and configurations. Each theorem is about the
specification the run checks or a larger one: those of `ShipmentProofs` are about
`Spec`, with archival and unlimited recovery, which has infinitely many states.

| Module | Theorem | Says |
|---|---|---|
| `ShipmentProofs` | `Invariance` | `IInv` is inductive for the whole of `Spec` |
| | `TypeCorrect` | `TypeOK` |
| | `Solvency` | `Solvent`: the contract's balance covers all escrows together |
| | `FinalizedMeansSettled` | `FinalizedSettled` |
| | `MilestonesAlwaysPaidFor` | `MilestonesPaidFor`, for schedules of any length |
| | `ContractImplementsVault` | `ImplementsVault`: every call is a step of `EscrowVault` or a stutter |
| `LifecycleProofs` | `LifecycleInvariance` | `LInv` is inductive for `LimitedLifecycle` |
| | `AuditAlwaysClean` | `AuditFindsNothing` |
| | `ReportsAlwaysAgree` | `ReportsAgree` |
| | `LimitAlwaysHolds` | `LimitHolds` |
| | `TerminalStaysTerminal` | `TerminalDiscipline` |
| `RecordsProofs` | `RecordsInvariant` | `RInv` is inductive for `RecSpec` |
| | `IndexerAlwaysAgrees` | `IndexerAgrees` |
| | `ArchivesLeaveNothing` | `ArchiveLeavesNothing` |
| | `SettledAlwaysInOnePlace` | `SettledInOnePlace` |
| | `NonceAlwaysAdvances` | `NonceAdvances` |
| | `SettlementsAlwaysExplain` | `SettlementsExplain` |
| | `FinalizedStaysFrozen` | `FinalizedFrozen` |
| `TokenGovernanceProofs` | `SupplyAlwaysConserved` | `SupplyConserved` |
| | `NeverOverflows` | `NoOverflow` |
| | `AlwaysAuthorised` | `Authorised` |
| | `ExpiredAlwaysDead` | `ExpiredStaysDead` |
| | `WithdrawnStaysFrozen` | `WithdrawnFrozen` |
| | `QuorumAlwaysDistinct` | `QuorumOfDistinct` |
| | `DeadStaysInert` | `DeadProposalInert` |
| | `DigestAlwaysMatches` | `DigestMatches` |
| | `AdminAlwaysByConsent` | `AdminByConsent` |
| `ControlProofs` | `RolesAlwaysAgree` | `RolesAgree` |
| | `PrivilegesComeFromAdmin` | `PrivilegeFromAdmin` |
| | `StatusAlwaysForetells` | `StatusForetells` |
| | `OpenAlwaysShields` | `OpenShields` |
| | `CountAlwaysBounded` | `CountBounded`: the unchecked increment of `failure_count` stays at most 1000 |
| | `ThrottleInvariant` | `ThrottleInv` is inductive for `ThrottleSpec` |
| | `QuotaAlwaysBounded` | `QuotaBound` |
| | `StatusAlwaysPredicts` | `StatusPredicts` |
| | `ConfigAlwaysSound` | `ConfigSound` |
| | `CallsAlwaysApart` | `CallsApart` |

`SumsProofs`, `JournalProofs` and `HandlerProofs` hold the lemmas these rest on.
`SumsProofs` proves the facts about finite sums, by a least counterexample
instead of induction, for which the provers have no rule.

A leaf that names a backend twice (`SMT, SMTT(40)`) is given a second, longer
attempt on a slow machine; the facts it uses are the same.

**Assumptions.** Each module names its own, and TLC evaluates them in the runs.
`ConstantsAssumption`: there is a company and a carrier, the contract is neither of
them nor the treasury, amounts are positive, a schedule is a list of milestones
with percentages (that they add up to 100 is `validate_milestones`' business).
`FeesAssumption`: the fee is at most 10 %, as `set_platform_fee` checks.
`TokenAssumption`: amounts and supply fit the integer type. `NoneIsNoProposal`: the
absent value is not a proposal. `BreakerAssumption`: times are counted as far as
the longest timeout of the configurations offered. `ThrottleAssumption`: a ledger
takes a positive number of seconds, a temporary entry lives for a positive number
of ledgers. The others say that bounds are numbers and that what is offered is of
the right type.

**Shipment.** The first half of `ShipmentProofs` says once what the entry points
do in the terms the theorems need: every call on one shipment is a `Call` (the
record it writes is sound, money follows the escrow, flags, counters and the
`Escrow` entry move as told), every creation `Creates`, every recovery `Recovers`.
The theorems argue about these three shapes. `IInv` joins type, `Solvent`,
`FinalizedSettled` and `MilestonesPaidFor`, which need each other (`execute_force`
and `check_deadline` do not look at `finalized`; that they leave finalized records
alone follows from the record being terminal), and adds where the blank records
are: an id beyond the counter has none, and a place without a record owes nothing,
so that creating a shipment adds nothing to the sum. `SolventStep` is the argument
about money: if one summand changes and the balance changes at least as much, the
inequality is kept. For the milestones the share of a schedule is a sum over its
entries, and paying one milestone adds the share of that one (`WorthAdd`), which
stays within the total because the percentages add up to 100 and each share is
rounded down. `VaultStep` maps each shape to a deposit, a payment, a write-off or a
stutter of the abstract vault.

**Lifecycle.** `LInv` adds that what is kept beside the records agrees with them:
the `Escrow` entries and each status counter exactly, the count of active shipments
as an upper bound, because a release after `update_status` to Delivered does not
lower it. That no record is delivered, paid out and yet open for changes is what
keeps it a bound. A call changes one record, so each counter is the size of a set
that gains or loses one element (`OneChange`); a batch adds a range of new ids
(`AddFresh`). The audit, the health check and its pages are then evaluated under
`LInv`; two pages are sums over adjoining ranges.

**Records.** A handler leaves behind a side record that it reaches in steps, one
per emitter and storage helper. `JournalProofs` follows a chain with `Reaches`:
how far the nonce went, which settlements are in the list, what the indexer knows,
and that keys seen stay below the event counter, so that no new event is taken for
an old one. The loop over the milestones reached in one call, each paid out of
what the earlier ones left, is followed round by round (`RoundPays`, `LoopChain`).
`HandlerProofs` shows that the chain of every handler answers to what the handler
does to the shipment, with `Call` of `ShipmentProofs` on the other side. `RInv`
says of every shipment that its side record is `Tidy`: notes and evidence are at
the indices their counts promise, no settlement is under way, and unless the
shipment was written to after archival, the indexer agrees, the `Escrow` entry
agrees, and an archived shipment has left nothing behind. The volume of
`get_analytics` is the sum of what the settlements of all shipments paid in.
`RInv` was checked with TLC on the instance of `records` before it was proved.

**Token.** `TokenInv` is the type invariant with `SupplyConserved`. The type
invariant bounds the supply by `MaxInt`, and two balances are at most the sum of
all, so `NoOverflow` follows from it. A transfer moves an amount between two
summands; a batch is a fold of credits, and `CreditsAddUp` says what it adds to
the sum, whoever is named in it and how often. `Authorised` relates what
a spender's call takes from a balance to what it takes from the allowance
(`SpentIs`); other calls lower only the caller's balance, the admin's calls any.

**Governance.** The quorum is about a step, but the step compares a length.
`GovInv` adds that the approvals of every stored proposal are of different
addresses, which each approval keeps because it looks for the approver first, and
that digest and proposal are written together.

**Roles.** `RolesInv` is the type invariant with `RolesAgree`; a revocation clears
the slot and never touches the admin's Company role, and a hand-over grants the
role before the admin changes.

**Breaker.** `should_allow_request` compares the age of `opened_at`, the property
the time since a transfer was tried, so `BreakerInv` orders the two while the
breaker is open. It also says that a breaker at rest is not half-open, and that a
closed one has counted fewer failures than the largest threshold, which survives a
change of the threshold.

**Throttle.** That a company makes at most twice the quota in any stretch as long
as the window is not inductive. `ThrottleInv` keeps two more sums per company: what
was made since the tracker's window began is within its count and the quota, also
after the window is over and no new one was opened; and what was made before it,
in any stretch that reaches back less than a window, is within the quota. A stretch
overlaps at most these two. Windows are in seconds and creations by ledger, so the
lemmas `DivCeil` and `DivCeilExact` relate the two. A change of the quota starts
the history anew, as the property is about one quota. For repeated calls the
invariant says that a key lives for the minimum life from the ledger it was
accepted in. `ThrottleInv` was checked with TLC on the instance of `throttle`.

**Only model-checked.** Liveness (`DeadlineEnforced`, `Recovers`, `AllArrive`,
`WalkEnds`), which needs fairness and `ENABLED`. `NoCircularWait` and
`SearchIsExact`: `would_create_cycle` is a recursive search, the prover does not
accept the recursive operator, and what it computes needs induction over the graph.
`WalkComplete`, `CarrierPagesCover` and `RoleChangesAudited`: pages and histories
are filtered sequences (`SelectSeq`), and the facts about filters take the test as
an operator parameter or need induction over sequences, neither of which the
provers can use.

## Not modelled

- **Platform fee.** `set_platform_fee` changes the rate between deposits; the
  models have one rate per run and the proofs any rate up to 10 %.
- **`rate_limit.rs`.** A library that no entry point calls.
- **Reentrancy lock.** `with_reentrancy_lock` sets and clears a flag within a call;
  the host forbids reentry and discards the flag of a call that fails, so no other
  call ever finds it set.
- **Lifetimes of persistent entries.** Extending them changes no value; that they
  are extended often enough depends on a rate of calls the code does not fix.
  Temporary entries, which do expire, are modelled.
- **Validation of symbols and strings, error texts, events about roles,
  configuration and proposals.** They read or write text that nothing else
  depends on; the events carry no idempotency key.
- **Timestamps** of records, of audit entries and of settlements, and with them
  the query of the audit log by time and the two checks of `consistency.rs` on
  them; `cleanup_audit_logs`, which nothing calls.
- **Dry runs and derived views** (`dry_run_migration`, `get_shipment_reference`,
  `get_contract_metadata` and single-field getters): no state of their own.
- **Shipment over Token.** The balances of `Shipment` stand for the token
  contract; a paused token refuses transfers, which here is a call that fails.
