\* One fetcher and one data channel; the budget is the only thing that matters.
CONSTANTS
    NumInstChannels = 1
    NumDataChannels = 1
    AddrMax = 2
    Words = {0, 1}
    MaxCycles = 2
    MaxSetup = 0
    CoreWarpStates = {"OTHER"}
    DReadAddrs = {}
    DWriteAddrs = {}
SPECIFICATION Spec
INVARIANT TimeoutMeansNotDone
\* simulate() returns: the host really stops there.
CHECK_DEADLOCK FALSE
