SPECIFICATION Spec
CONSTANTS
    a = a
    b = b
    Senders <- MCSenders
    MultiItems <- MCMultiItems
    HasValidator = TRUE
SYMMETRY SenderSymmetry
CHECK_DEADLOCK FALSE
CONSTANTS
    Mode = "wasm"
    MaxTasks = 2
    MaxSends = 2
    MaxTotal = 2
INVARIANT BatchCallbackLast
