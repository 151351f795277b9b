\* Every string of up to three characters over an alphabet that reaches all
\* branches (sign, the 0x/0b/octal prefixes, invalid digits, registers, pc),
\* and the formatted boundary values of int32_t in all four bases.
CONSTANTS
    Chars = {"-", "0", "1", "8", "x", "b", "g", "s", "p", "c"}
    MaxLen = 3
    TestValues <- MCTestValues
    Overflowing <- MCOverflowing
SPECIFICATION Spec
INVARIANT TypeOK
INVARIANT RoundTrip
INVARIANT OverflowRejected
\* Each call returns once: the model stops when both results are in.
CHECK_DEADLOCK FALSE
