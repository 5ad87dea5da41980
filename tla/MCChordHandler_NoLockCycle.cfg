\* Lock discipline and fix_fingers, three nodes, one stabilize round each
\* and two payloads from spec-conformant peers.
CONSTANTS
    Nil = Nil
    Nodes <- MCNodes
    FingerBits = 3
    InitSucc <- MCInitSucc
    InitFingers <- MCInitFingers
    Targets <- MCTargets
    MaxTicks = 1
    MaxInjects = 2
SPECIFICATION Spec
INVARIANT NoLockCycle
CHECK_DEADLOCK FALSE
