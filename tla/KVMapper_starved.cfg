SPECIFICATION Spec
CONSTANTS
    a = a
    b = b
    Token <- MCTokens
    Prompts <- NestedPrompts
    Requests = {r1, r2}
    max_sequences = 2
    high_watermark = 4
    CacheModes = {TRUE}
    MaxLen = 3
SYMMETRY Symmetry
VIEW View
INVARIANT ExhaustedOnlyWhenShared
