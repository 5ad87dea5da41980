CONSTANTS
    Offerer = Offerer
    Answerer = Answerer
    Nil = Nil
    Drivers <- NodeDrivers
    Script <- NodeScript
    MaxCands = 1
    MaxFlaps = 0
    MsgSize = 2
    UsizeBits = 4
    IceUrls <- TestIceUrls
SPECIFICATION Spec
PROPERTY AwaitsResolve
CHECK_DEADLOCK FALSE
