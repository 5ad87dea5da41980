CONSTANTS
    Offerer = Offerer
    Answerer = Answerer
    Nil = Nil
    Drivers <- TestDrivers
    Script <- TestScript
    MaxCands = 1
    MaxFlaps = 0
    MsgSize = 2
    UsizeBits = 4
    IceUrls <- TestIceUrls
SPECIFICATION Spec
INVARIANT PubkeySetBeforeConnected
CHECK_DEADLOCK FALSE
