\* One data channel whose reads may reach MAX_SIZE.
CONSTANTS
    NumInstChannels = 1
    NumDataChannels = 1
    AddrMax = 2
    Words = {0, 1}
    MaxCycles = 3
    MaxSetup = 0
    CoreWarpStates = {"OTHER"}
    DReadAddrs <- MCAllAddrs
    DWriteAddrs <- MCAllAddrs
SPECIFICATION Spec
INVARIANT OutOfRangeReadZero
\* simulate() returns: the host really stops there.
CHECK_DEADLOCK FALSE
