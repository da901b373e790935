SPECIFICATION Spec
CONSTANTS
    Requests = {r1, r2}
    SignalAtStartup = FALSE
PROPERTY SignalExits
CHECK_DEADLOCK FALSE
