SPECIFICATION Spec
CONSTANTS
    r1 = r1
    r2 = r2
    r3 = r3
    Requests = {r1, r2, r3}
    PromptLen <- MCPromptLen
    MaxTokens <- MCMaxTokens
    Shares <- MCShares
    Limits <- MCLimits
    n_ctx = 9
INVARIANTS
    NoRequestLost
    OneReply
    BatchFits
    SlotsBounded
    WithinContext
    IdleIsSeen
PROPERTIES
    EveryRequestAnswered
    WorkerStops
CHECK_DEADLOCK FALSE
