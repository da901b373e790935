SPECIFICATION Spec
CONSTANTS
    PrefixLen = 2
    SuffixLen = 2
    Items <- MCItems
    Variants <- MCVariants
    MaxAnswer = 2
    ProbeShift = 7
INVARIANTS
    TargetExact
    NeverFails
    MemoryClean
