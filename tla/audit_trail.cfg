SPECIFICATION FairSpec
CONSTANTS
    Keys = {"name", "stage"}
    Values = {"v1", "v2"}
    Writers = {w1, w2}
    ObjectIds = {"l1", "l2"}
    Contents <- MCContents
    Params <- MCParams
    MaxEvents = 3
INVARIANTS
    LedgerFollowsOutbox
    DiffIsMinimal
PROPERTIES
    ImplementsAuditedStore
    ChangesReachLedger
CHECK_DEADLOCK FALSE
