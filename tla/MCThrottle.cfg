SPECIFICATION ThrottleSpec
CONSTANTS
    Companies = {c1}
    Shipments = {s1}
    Hashes = {h1, h2}
    BatchSizes = {0, 2, 11}
    Offered <- MCOffered
    Quotas <- MCQuotas
    MinTempTtl = 3
    LedgerSeconds = 5
    MaxLedger = 5
INVARIANTS
    QuotaBound
    StatusPredicts
    ConfigSound
PROPERTIES
    CallsApart
