CONSTANT Inputs <- MCInputs
SPECIFICATION Spec
INVARIANT TrailingTokenColumn
CHECK_DEADLOCK FALSE
