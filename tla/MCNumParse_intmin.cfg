\* INT32_MIN formatted in the four bases, on top of the pass run's inputs.
CONSTANTS
    Chars = {"-", "0", "1"}
    MaxLen = 1
    TestValues <- MCTestValuesWithMin
    Overflowing = {}
SPECIFICATION Spec
INVARIANT RoundTrip
CHECK_DEADLOCK FALSE
