SPECIFICATION Spec
CONSTANTS
    Evaluators = {e1}
    Bundles <- Policies
    Reloads <- Upgrades
    CanRequests <- FewRequests
    RecordRequests <- FewRecordRequests
    DecideRequests <- FewDecideRequests
INVARIANTS
    RecordAnswerFromOneRule
