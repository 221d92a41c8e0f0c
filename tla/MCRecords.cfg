SPECIFICATION RecSpec
CONSTANTS
    Companies = {acme}
    Carriers = {roadco}
    Contract = contract
    Treasury = treasury
    pickup = pickup
    Milestones = {pickup}
    Schedules <- OneMilestone
    Deadlines = {1}
    Amounts = {5, 10}
    Percents = {50}
    FeeBps = 1000
    ShipmentLimit = 1
    BatchLimit = 1
    Grace = 0
    AutoDispute = TRUE
    MaxRecoveries = 1
    InitialBalance = 20
    MaxShipments = 1
    MaxTime = 1
    MaxMilestones = 1
    MaxBreaches = 1
    MaxNotes = 1
    MaxEvidence = 1
    MaxEvents = 5
    MaxTracking = 2
    MaxAppended = 1
    MaxNonce = 4
INVARIANTS
    IndexerAgrees
    ArchiveLeavesNothing
    
PROPERTIES
    
    
    FinalizedFrozen
