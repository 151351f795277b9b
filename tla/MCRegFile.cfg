\* Two threads, five registers (0..3 read-only, 4 writable), 2-bit data so
\* that thread ids wrap for warp 2, two values for every data source.
CONSTANTS
    Threads = 2
    NumRegs = 5
    DataWidth = 2
    Values = {0, 1}
    WarpIds = {0, 2}
    BlockIds = {0, 3}
    BlockSizes = {1, 2}
SPECIFICATION Spec
INVARIANT TypeOK
INVARIANT ReadOnlyRegsHoldResetValues
\* After a $error the simulation has stopped: no further edge.
CHECK_DEADLOCK FALSE
