SPECIFICATION Spec
CONSTANTS
    kMaxDepth = 4
    Precision = 4
    MinExponent <- MCMinExponent
    MaxExponent = 16
    Int32Max = 9
    Families <- MCFamilies
INVARIANTS
    ParseExact
    RequestFaithful
    ResponsesParse
CHECK_DEADLOCK FALSE
