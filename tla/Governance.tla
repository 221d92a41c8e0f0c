----------------------------- MODULE Governance -----------------------------
(***************************************************************************)
(* Who runs the contract: the two-step admin hand-over, the multi-         *)
(* signature proposals over critical actions, and the contract version.    *)
(*                                                                         *)
(* A call that returns an error leaves no trace (see module Shipment), an  *)
(* approval whose automatic execution fails included.  The shipments a     *)
(* ForceRelease or ForceRefund closes appear here only as open or settled; *)
(* what the closing does to a shipment is in module Shipment.              *)
(***************************************************************************)
EXTENDS Integers, Sequences, FiniteSets, Functions

CONSTANTS
    Addresses,      \* accounts that may sign proposals
    Candidates,     \* the addresses offered as admin
    None,           \* the absent value
    Shipments,      \* ids of shipments that exist
    Salts,          \* the salts offered to propose_action_with_salt
    MinAdmins,      \* config.multisig_min_admins
    MaxAdmins,      \* config.multisig_max_admins
    Expiry,         \* config.proposal_expiry_seconds
    MaxProposals,   \* bound: the proposal counter
    MaxVersion,     \* bound: the contract version
    MaxTime         \* bound: ledger time

ProposalIds == 1 .. MaxProposals

ASSUME GovernanceAssumption ==
    /\ None \notin Addresses
    /\ Candidates \subseteq Addresses
    /\ Expiry \in Nat \ {0}
    /\ MinAdmins \in Nat \ {0} /\ MaxAdmins \in Nat
    /\ MaxProposals \in Nat /\ MaxVersion \in Nat /\ MaxTime \in Nat

\* AdminAction.  The hash of an Upgrade is never compared, so it is left out.
AdminAction ==
    [kind : {"Upgrade"}]
      \cup [kind : {"TransferAdmin"}, new_admin : Candidates]
      \cup [kind : {"ForceRelease", "ForceRefund"}, shipment : Shipments]

\* The record under DataKey::Proposal(id), without the id.
Proposal ==
    [proposer : Addresses, action : AdminAction, approvals : Seq(Addresses),
     created_at : Nat, expires_at : Nat, executed : BOOLEAN]

ASSUME NoneIsNoProposal == None \notin Proposal

VARIABLES
    now,         \* ledger timestamp
    admin,       \* DataKey::Admin
    proposed,    \* DataKey::ProposedAdmin
    adminList,   \* DataKey::AdminList; {} until init_multisig
    threshold,   \* DataKey::MultiSigThreshold; 0 until init_multisig
    counter,     \* DataKey::ProposalCounter
    proposals,   \* DataKey::Proposal(id), None until it is issued
    digests,     \* DataKey::ProposalDigest(id)
    salts,       \* the salts that DataKey::ProposalSalt holds
    version,     \* DataKey::Version
    open         \* the shipments neither Delivered nor Cancelled

handover == <<admin, proposed>>
multisig == <<adminList, threshold>>
ballots == <<counter, proposals, digests, salts>>
vars == <<now, handover, multisig, ballots, version, open>>

-----------------------------------------------------------------------------

\* compute_action_digest: SHA-256 of the id and the action, free of collisions.
compute_action_digest(id, action) == <<id, action>>

get_proposal(id) == proposals[id]

set_proposal(id, p) == proposals' = [proposals EXCEPT ![id] = p]

\* The ProposalActionDigest stored with a proposal.
set_proposal_digest(id, digest) ==
    digests' = [digests EXCEPT ![id] =
                  [proposal_id |-> id, digest |-> digest, computed_at |-> now]]

get_proposal_action_digest(id) == digests[id]

is_proposal_salt_used(salt) == salt \in salts

set_proposal_salt_used(salt) == salts' = salts \cup {salt}

get_multisig_threshold == IF threshold = 0 THEN 2 ELSE threshold

is_admin(a) == a \in adminList

Expired(p) == now > p.expires_at

Init ==
    /\ now = 0
    /\ admin \in Candidates /\ proposed = None
    /\ adminList = {} /\ threshold = 0
    /\ counter = 0
    /\ proposals = [id \in ProposalIds |-> None]
    /\ digests = [id \in ProposalIds |-> None]
    /\ salts = {}
    /\ version = 1
    /\ open = Shipments

Tick ==
    /\ now < MaxTime
    /\ now' = now + 1
    /\ UNCHANGED <<handover, multisig, ballots, version, open>>

\* A shipment is delivered or cancelled by an entry point of module Shipment.
SettleShipment(s) ==
    /\ s \in open
    /\ open' = open \ {s}
    /\ UNCHANGED <<now, handover, multisig, ballots, version>>

transfer_admin(new_admin) ==
    /\ proposed' = new_admin
    /\ UNCHANGED <<now, admin, multisig, ballots, version, open>>

\* Mutant of accept_admin_transfer: the caller is not compared with the pending
\* admin.
accept_by_anyone ==
    /\ proposed # None
    /\ admin' \in Candidates
    /\ proposed' = None
    /\ UNCHANGED <<now, multisig, ballots, version, open>>

accept_admin_transfer ==
    /\ proposed # None
    /\ admin' = proposed
    /\ proposed' = None
    /\ UNCHANGED <<now, multisig, ballots, version, open>>

init_multisig(admins, t) ==
    /\ Cardinality(admins) \in MinAdmins .. MaxAdmins
    /\ t \in 1 .. Cardinality(admins)
    /\ adminList' = admins
    /\ threshold' = t
    /\ counter' = 0
    /\ UNCHANGED <<now, handover, proposals, digests, salts, version, open>>

\* The Proposal that propose_action stores.
NewProposal(proposer, action) ==
    [proposer |-> proposer, action |-> action, approvals |-> <<proposer>>,
     created_at |-> now, expires_at |-> now + Expiry, executed |-> FALSE]

\* Mutant of Propose: an id that has a digest keeps it.
ProposeKeepingDigest(proposer, action) ==
    LET id == counter + 1 IN
    /\ is_admin(proposer)
    /\ id \in ProposalIds
    /\ set_proposal(id, NewProposal(proposer, action))
    /\ counter' = id
    /\ IF get_proposal_action_digest(id) = None
         THEN set_proposal_digest(id, compute_action_digest(id, action))
         ELSE UNCHANGED digests
    /\ UNCHANGED <<now, handover, multisig, version, open>>

\* What propose_action writes; propose_action_with_salt ends with it.
Propose(proposer, action) ==
    LET id == counter + 1 IN
    /\ is_admin(proposer)
    /\ id \in ProposalIds
    /\ set_proposal(id, NewProposal(proposer, action))
    /\ counter' = id
    /\ set_proposal_digest(id, compute_action_digest(id, action))
    /\ UNCHANGED <<now, handover, multisig, version, open>>

propose_action(proposer, action) ==
    Propose(proposer, action) /\ UNCHANGED salts

propose_action_with_salt(proposer, action, salt) ==
    /\ ~ is_proposal_salt_used(salt)
    /\ set_proposal_salt_used(salt)
    /\ Propose(proposer, action)

\* The effect of an approved action; it fails on a settled shipment.
Perform(action) ==
    \/ /\ action.kind = "Upgrade"
       /\ version < MaxVersion
       /\ version' = version + 1
       /\ UNCHANGED <<handover, open>>
    \/ /\ action.kind = "TransferAdmin"
       /\ admin' = action.new_admin
       /\ UNCHANGED <<proposed, version, open>>
    \/ /\ action.kind \in {"ForceRelease", "ForceRefund"}
       /\ action.shipment \in open
       /\ open' = open \ {action.shipment}
       /\ UNCHANGED <<handover, version>>

\* Mutant of execute_proposal_internal: the expiry is not checked.
execute_though_expired(id, p) ==
    /\ ~ p.executed
    /\ Len(p.approvals) >= get_multisig_threshold
    /\ set_proposal(id, [p EXCEPT !.executed = TRUE])
    /\ Perform(p.action)

\* execute_proposal_internal on p, the stored proposal or its approved copy.
execute_proposal_internal(id, p) ==
    /\ ~ Expired(p)
    /\ ~ p.executed
    /\ Len(p.approvals) >= get_multisig_threshold
    /\ set_proposal(id, [p EXCEPT !.executed = TRUE])
    /\ Perform(p.action)

\* Mutant of approve_action: the same admin may approve twice.
approve_twice(approver, id) ==
    LET p == get_proposal(id)
        q == [p EXCEPT !.approvals = Append(@, approver)] IN
    /\ is_admin(approver)
    /\ p # None
    /\ ~ Expired(p)
    /\ ~ p.executed
    /\ IF Len(q.approvals) >= get_multisig_threshold
         THEN execute_proposal_internal(id, q)
         ELSE /\ set_proposal(id, q)
              /\ UNCHANGED <<handover, version, open>>
    /\ UNCHANGED <<now, multisig, counter, digests, salts>>

approve_action(approver, id) ==
    LET p == get_proposal(id)
        q == [p EXCEPT !.approvals = Append(@, approver)] IN
    /\ is_admin(approver)
    /\ p # None
    /\ ~ Expired(p)
    /\ ~ p.executed
    /\ approver \notin Range(p.approvals)
    /\ IF Len(q.approvals) >= get_multisig_threshold
         THEN execute_proposal_internal(id, q)
         ELSE /\ set_proposal(id, q)
              /\ UNCHANGED <<handover, version, open>>
    /\ UNCHANGED <<now, multisig, counter, digests, salts>>

execute_proposal(id) ==
    /\ get_proposal(id) # None
    /\ execute_proposal_internal(id, get_proposal(id))
    /\ UNCHANGED <<now, multisig, counter, digests, salts>>

is_allowed_migration(current, target) == target = current + 1

upgrade(target_version) ==
    /\ target_version <= MaxVersion
    /\ is_allowed_migration(version, target_version)
    /\ version' = target_version
    /\ UNCHANGED <<now, handover, multisig, ballots, open>>

Next ==
    \/ Tick
    \/ \E s \in Shipments : SettleShipment(s)
    \/ \E a \in Candidates : transfer_admin(a)
    \/ accept_admin_transfer
    \/ \E admins \in SUBSET Addresses, t \in 1 .. MaxAdmins :
            init_multisig(admins, t)
    \/ \E a \in Addresses, act \in AdminAction :
            \/ propose_action(a, act)
            \/ \E salt \in Salts : propose_action_with_salt(a, act, salt)
    \/ \E a \in Addresses, id \in ProposalIds : approve_action(a, id)
    \/ \E id \in ProposalIds : execute_proposal(id)
    \/ \E v \in 1 .. MaxVersion : upgrade(v)

Spec == Init /\ [][Next]_vars

-----------------------------------------------------------------------------

Stored(id) == proposals[id] # None

\* The step writes a new proposal under id, whatever was there before.
Reissued(id) == counter' = id /\ counter = id - 1

Executes(id) ==
    /\ proposals'[id] # None
    /\ proposals'[id].executed
    /\ ~ (Stored(id) /\ proposals[id].executed)

\* A proposal is executed only with the approval of threshold many different
\* addresses, the threshold being the one in force at that moment: however the
\* approvals arrived (lib.rs, approve_action and execute_proposal_internal).
QuorumOfDistinct ==
    [][\A id \in ProposalIds : Executes(id) =>
          Cardinality(Range(proposals'[id].approvals)) >= get_multisig_threshold]_vars

\* A proposal past its expiry, and one that was executed, is never approved or
\* executed again: its record only changes when its id is issued anew.
DeadProposalInert ==
    [][\A id \in ProposalIds :
          (Stored(id) /\ (Expired(proposals[id]) \/ proposals[id].executed)) =>
             proposals'[id] = proposals[id] \/ Reissued(id)]_vars

\* The digest off-chain signers read is that of the action the proposal would
\* perform now and was taken when the proposal was made, also after
\* init_multisig restarts the ids (lib.rs, propose_action: set_proposal and
\* set_proposal_digest; get_proposal_action_digest).
DigestMatches ==
    \A id \in ProposalIds : Stored(id) =>
        get_proposal_action_digest(id) =
            [proposal_id |-> id,
             digest |-> compute_action_digest(id, get_proposal(id).action),
             computed_at |-> get_proposal(id).created_at]

\* The admin changes only to the address the hand-over was pending for, or to
\* the one that a TransferAdmin proposal executed by this very step names.
AdminByConsent ==
    [][admin' # admin =>
          \/ proposed = admin' /\ proposed' = None
          \/ \E id \in ProposalIds :
                /\ Executes(id)
                /\ proposals'[id].action =
                      [kind |-> "TransferAdmin", new_admin |-> admin']]_vars
=============================================================================
