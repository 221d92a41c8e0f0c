SPECIFICATION FairSpec
CONSTANTS
    Ids = {1, 2, 3}
    MaxPrereqs = 2
INVARIANTS
    NoCircularWait
    SearchIsExact
PROPERTIES
    AllArrive
CHECK_DEADLOCK FALSE
