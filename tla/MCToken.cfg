SPECIFICATION MetaSpec
CONSTANTS
    NumAccounts = 3
    Supply = 2
    MaxInt = 3
    Amounts = {1, 2}
    MaxSeq = 2
    BatchSize = 2
    Grants <- ThirdSpends
    MetaKeys = {"website"}
    MetaValues = {"old", "new"}
INVARIANTS
    SupplyConserved
    NoOverflow
PROPERTIES
    Authorised
    
    WithdrawnFrozen
