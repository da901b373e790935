SPECIFICATION Spec
CONSTANTS
    Requests = {r1, r2}
    SignalAtStartup = FALSE
INVARIANTS
    NoHandlerAbandoned
PROPERTIES
    QueuedIsServed
CHECK_DEADLOCK FALSE
