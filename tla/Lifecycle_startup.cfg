SPECIFICATION Spec
CONSTANTS
    Requests = {r1, r2}
    SignalAtStartup = TRUE
PROPERTY StopInterruptsStart
CHECK_DEADLOCK FALSE
