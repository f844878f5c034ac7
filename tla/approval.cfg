SPECIFICATION Spec
CONSTANTS
    Bundles <- MCBundles
    Jobs <- MCJobs
    asks <- MCAsks
    carriesOut <- MCCarriesOut
INVARIANTS
    NothingLaundered
    WithdrawalStops
    AgentsBoundByPolicy
CHECK_DEADLOCK FALSE
