SPECIFICATION LimitedLifecycle
CONSTANTS
    Companies = {acme}
    Carriers = {roadco}
    Contract = contract
    Treasury = treasury
    pickup = pickup
    Milestones = {pickup}
    Schedules <- OneMilestone
    Deadlines = {1}
    Amounts = {10}
    Percents = {50}
    FeeBps = 1000
    ShipmentLimit = 2
    BatchLimit = 2
    Grace = 0
    AutoDispute = TRUE
    MaxRecoveries = 1
    InitialBalance = 20
    MaxShipments = 2
    MaxTime = 1
    GlobalLimits = {1}
    CompanyLimits = {2}
INVARIANTS
    AuditFindsNothing
    ReportsAgree
PROPERTIES
    LimitHolds
    TerminalDiscipline
