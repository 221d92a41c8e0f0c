SPECIFICATION QuerySpec
CONSTANTS
    Companies = {acme}
    Carriers = {roadco, railco}
    Contract = contract
    Treasury = treasury
    Milestones = {}
    Schedules <- NoMilestones
    Deadlines = {1}
    Amounts = {10}
    Percents = {50}
    FeeBps = 0
    ShipmentLimit = 3
    BatchLimit = 1
    Grace = 0
    AutoDispute = FALSE
    MaxRecoveries = 1
    InitialBalance = 0
    MaxShipments = 3
    MaxTime = 0
    acme = acme
    roadco = roadco
    shop = shop
    depot = depot
    ReceiverOf <- MCReceiverOf
    Moves = {"InTransit", "Cancelled"}
    Filters <- MCFilters
    PageSizes = {1, 2}
    Offered <- MCOffered
    Quotas = {}
INVARIANTS
    WalkComplete
PROPERTIES
    WalkEnds
CHECK_DEADLOCK FALSE
