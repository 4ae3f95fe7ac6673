CONSTANTS
    Entries = 3
    Depth = 1
    MaxPackets = 6
    MaxCollisions = 1
    Burst = 2
SPECIFICATION Spec
INVARIANT StaysInRx
CHECK_DEADLOCK FALSE
