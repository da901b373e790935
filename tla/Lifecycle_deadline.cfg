SPECIFICATION Spec
CONSTANTS
    Requests = {r1, r2}
    SignalAtStartup = FALSE
INVARIANT DrainBounded
CHECK_DEADLOCK FALSE
