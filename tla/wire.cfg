SPECIFICATION Spec
CONSTANTS
    spelling <- MCSpelling
    Characters = {"b", "t", "|"}
    Sep = "|"
    Bundles <- MCBundles
    Documents <- MCDocuments
    Invalid = Invalid
    NoBundle = NoBundle
    AgentRequests <- MCAgentRequests
INVARIANTS
    RoundTrip
    NoRuleMerged
    OlderBundleGrantsNoAgent
CHECK_DEADLOCK FALSE
