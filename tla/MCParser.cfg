\* Every line of up to two tokens, every well-formed or ill-typed line of each
\* form, and one line of each form with one token deleted, replaced or inserted.
CONSTANT Inputs <- MCInputs
SPECIFICATION Spec
INVARIANT TypeOK
INVARIANT ParseMatchesGrammar
INVARIANT RejectionReported
\* parse_line returns once per line.
CHECK_DEADLOCK FALSE
