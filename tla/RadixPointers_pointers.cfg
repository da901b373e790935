SPECIFICATION Spec
CONSTANTS
    ta = ta
    tb = tb
    Token = {ta, tb}
    Prompts <- MCPrompts
    Requests = {r1, r2, r3}
    SeqIds = {s1, s2}
    Extensions <- Generated
    MaxTick = 5
INVARIANTS
    PointersValid
    LookupsAgree
PROPERTIES
    ImplementsIndex
SYMMETRY Perms
CHECK_DEADLOCK FALSE
