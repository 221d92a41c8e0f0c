SPECIFICATION Spec
CONSTANTS
    Addresses = {a1, a2, a3}
    Candidates = {a1, a2}
    None = None
    Shipments = {1}
    Salts = {s1}
    MinAdmins = 2
    MaxAdmins = 3
    Expiry = 1
    MaxProposals = 1
    MaxVersion = 2
    MaxTime = 2
INVARIANTS
    DigestMatches
PROPERTIES
    QuorumOfDistinct
    DeadProposalInert
    AdminByConsent
