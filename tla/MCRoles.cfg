SPECIFICATION Spec
CONSTANTS
    a1 = a1
    a2 = a2
    Addresses = {a1, a2}
    Granted = {"Company", "Carrier", "Guardian", "Operator"}
    Candidates <- MCCandidates
    MaxAudit = 2
INVARIANTS
    RolesAgree
    CarrierPagesCover
PROPERTIES
    PrivilegeFromAdmin
    RoleChangesAudited
