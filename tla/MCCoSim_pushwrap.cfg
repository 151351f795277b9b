\* Three setup calls against an address space of three cells (MAX_SIZE = 2).
CONSTANTS
    NumInstChannels = 1
    NumDataChannels = 1
    AddrMax = 2
    Words = {0, 1}
    MaxCycles = 0
    MaxSetup = 3
    CoreWarpStates = {"OTHER"}
    DReadAddrs = {}
    DWriteAddrs = {}
SPECIFICATION Spec
PROPERTY PushPtrMonotonic
\* simulate() returns: the host really stops there.
CHECK_DEADLOCK FALSE
