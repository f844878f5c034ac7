SPECIFICATION FairSpec
CONSTANTS
    Contexts = {"crm", "billing"}
    SelfChecking = {"billing"}
    EmailKeyed = {"billing"}
    modeOf <- MCModeOf
    Holdings <- MCHoldings
    MaxRows = 2
    Nil = Nil
INVARIANTS
    TypeOK
    CompletedMeansErased
    HoldKeepsRows
    ModeIsFollowed
    ReportIsBacked
    ExportIsWhole
PROPERTIES
    SagaSettles
