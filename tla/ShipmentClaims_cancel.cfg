SPECIFICATION Lifecycle
CONSTANTS
    Companies = {acme}
    Carriers = {roadco}
    Contract = contract
    Treasury = treasury
    pickup = pickup
    port = port
    Milestones = {pickup, port}
    Schedules <- TwoMilestones
    Deadlines = {1}
    Amounts = {10}
    Percents = {50, 100}
    FeeBps = 1000
    ShipmentLimit = 1
    BatchLimit = 1
    Grace = 1
    AutoDispute = TRUE
    MaxRecoveries = 1
    InitialBalance = 20
    MaxShipments = 1
    MaxTime = 2
PROPERTIES
    CancelRefunds
