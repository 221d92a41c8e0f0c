SPECIFICATION BreakerSpec
CONSTANTS
    Presets <- MCPresets
    KeepFailures = FALSE
    Admin = a1
    AdminList = {a1, a2}
    Step = 60
    Horizon = 600
    MaxRun = 5
PROPERTY
    OpensAtThreshold
