\* Two fetchers on two instruction channels; the data side stays idle. Runs
\* under the fairness of the host loop, for SimulateReturns.
CONSTANTS
    NumInstChannels = 2
    NumDataChannels = 1
    AddrMax = 2
    Words = {0, 1}
    MaxCycles = 5
    MaxSetup = 1
    CoreWarpStates = {"FETCH", "DECODE", "OTHER"}
    DReadAddrs = {}
    DWriteAddrs = {}
SPECIFICATION FairSpec
INVARIANT TypeOK
INVARIANT FetchReturnsMemory
PROPERTY FetchLatency
PROPERTY FetchServiceRefined
PROPERTY SimulateReturns
\* simulate() returns: the host really stops there.
CHECK_DEADLOCK FALSE
