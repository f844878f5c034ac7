SPECIFICATION FairSpec
CONSTANTS
    Callers = {c1}
    Watchers = {w1}
    Blobs <- MCBlobs
    Bundles <- MCBundles
    Signed <- MCSigned
    NoSignature = NoSignature
    NoBundle = NoBundle
    Garbage = Garbage
INVARIANTS
    TypeOK
    CacheGenuine
PROPERTIES
    EventuallyCurrent
    WatchStops
