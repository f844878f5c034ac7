SPECIFICATION Spec
CONSTANTS
    Callers = {}
    Watchers = {w1}
    Blobs <- MCBlobs
    Bundles <- MCBundles
    Signed <- MCSigned
    NoSignature = NoSignature
    NoBundle = NoBundle
    Garbage = Garbage
    Evaluators = {e1}
    CanRequests <- ServiceCanRequests
    RecordRequests <- ServiceRecordRequests
    DecideRequests <- ServiceRequests
INVARIANTS
    ReloadIsEffective
    OnlySignedPolicyAllows
    DecisionsNeverGoBack
PROPERTIES
    KeepsPromise
    ServiceRunsEngine
