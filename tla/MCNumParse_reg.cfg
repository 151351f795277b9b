\* Register names of up to three characters.
CONSTANTS
    Chars = {"-", "0", "1", "8", "x", "s"}
    MaxLen = 3
    TestValues = {}
    Overflowing = {}
SPECIFICATION Spec
INVARIANT RegisterNumberInRange
CHECK_DEADLOCK FALSE
