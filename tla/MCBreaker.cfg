SPECIFICATION FairBreakerSpec
CONSTANTS
    Presets <- MCPresets
    KeepFailures = TRUE
    Admin = a1
    AdminList = {a1, a2}
    Step = 30
    Horizon = 600
    MaxRun = 0
INVARIANTS
    StatusForetells
PROPERTIES
    OpenShields
    Recovers
