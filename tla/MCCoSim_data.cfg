\* Two data channels that read and write; the fetcher is never asked to fetch.
CONSTANTS
    NumInstChannels = 1
    NumDataChannels = 2
    AddrMax = 2
    Words = {0, 1}
    MaxCycles = 3
    MaxSetup = 0
    CoreWarpStates = {"OTHER"}
    DReadAddrs <- MCDReadAddrsInRange
    DWriteAddrs <- MCAllAddrs
SPECIFICATION Spec
INVARIANT TypeOK
INVARIANT ReadyMirrorsValid
INVARIANT ReadsSeeSameCycleWrites
INVARIANT HighestWriterWins
PROPERTY DataServiceRefined
\* simulate() returns: the host really stops there.
CHECK_DEADLOCK FALSE
