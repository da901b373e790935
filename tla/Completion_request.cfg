SPECIFICATION Spec
CONSTANTS
    Pieces <- MCPieces
    MaxText = 4
    MaxKeepAlive = 2
INVARIANTS
    SinkAlive
    StreamWellFormed
    StreamComplete
    WholeCharacters
    SyncComplete
PROPERTIES
    HandlerReturns
    DisconnectReleases
CHECK_DEADLOCK FALSE
