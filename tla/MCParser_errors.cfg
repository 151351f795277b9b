CONSTANT Inputs <- MCInputs
SPECIFICATION Spec
INVARIANT AllMismatchesReported
CHECK_DEADLOCK FALSE
