CONSTANTS
    Offerer = Offerer
    Answerer = Answerer
    Nil = Nil
    Drivers <- NodeDrivers
    Script <- NodeScript
    MaxCands = 2
    MaxFlaps = 1
    MsgSize = 2
    UsizeBits = 4
    IceUrls <- NodeIceUrls
SPECIFICATION Spec
INVARIANTS
    HandshakeCarriesAllCandidates
    NotRegisteredWhileDown
\* A finished handshake (both drivers returned, ICE settled) is a real end state.
CHECK_DEADLOCK FALSE
