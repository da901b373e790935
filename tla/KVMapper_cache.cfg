SPECIFICATION Spec
CONSTANTS
    a = a
    b = b
    Token <- MCTokens
    Prompts <- AndEmpty
    Requests = {r1, r2}
    max_sequences = 3
    high_watermark = 5
    CacheModes = {TRUE, FALSE}
    MaxLen = 3
SYMMETRY Symmetry
VIEW View
INVARIANTS
    SeqIdConservation
    RefCountExact
    ReadyCoversPath
    RequestKvExact
    OwnedRegistered
    PendingOwned
    NonEmptyDelta
    GaugesExact
    OneCanonical
    CacheNodeAlive
    ExhaustedOnlyWhenShared
PROPERTY
    ImplementsPrefixCache
    CallsIndex
    EmptiedIsPruned
