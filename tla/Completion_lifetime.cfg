SPECIFICATION Spec
CONSTANTS
    Pieces <- FewPieces
    MaxText = 2
    MaxKeepAlive = 1
INVARIANT RequestAlive
CHECK_DEADLOCK FALSE
