SPECIFICATION Spec
CONSTANTS
    Evaluators = {e1}
    Bundles <- MCBundles
    Reloads <- Upgrades
    CanRequests <- MCCanRequests
    RecordRequests <- MCRecordRequests
    DecideRequests <- MCDecideRequests
INVARIANTS
    TypeOK
    AutonomousExactlyWhenDelegated
    ApprovalRelaxesOnlyWho
    ApprovalIsNeverInVain
    RiskIsMonotone
    DelegationIsMonotone
    PeopleUnaffectedByDelegation
    TenantOnlyTightensScope
    WholeAndFieldReadsAgree
