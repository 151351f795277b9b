----------------------------- MODULE MCNumParse -----------------------------
EXTENDS NumParse

\* Boundary values of int32_t and their neighbours, INT32_MIN left out.
MCTestValues == {IntMin + 1, -1, 0, 1, 8, IntMax}

\* The same plus INT32_MIN, the bottom of the range spec Sec. 8 quantifies over.
MCTestValuesWithMin == MCTestValues \cup {IntMin}

\* 2^31 in decimal, hex, octal and binary, and -(2^31) - 1.
MCOverflowing ==
    {<<"2", "1", "4", "7", "4", "8", "3", "6", "4", "8">>,
     <<"0", "x", "8", "0", "0", "0", "0", "0", "0", "0">>,
     <<"-", "2", "1", "4", "7", "4", "8", "3", "6", "4", "9">>,
     <<"0", "2", "0", "0", "0", "0", "0", "0", "0", "0", "0", "0">>,
     <<"0", "b", "1", "0", "0", "0", "0", "0", "0", "0", "0", "0", "0", "0", "0", "0", "0", "0", "0", "0", "0", "0", "0", "0", "0", "0", "0", "0", "0", "0", "0", "0", "0", "0", "0">>}
=============================================================================
