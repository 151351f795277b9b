------------------------------ MODULE MCParser ------------------------------
EXTENDS Parser, SequencesExt

MCRegs == {RegisterTok(r) : r \in {"VECTOR", "SCALAR", "PC"}}
MCImms == {ImmediateTok(0), ImmediateTok(1)}

\* HALT, the scalar and vector form of every other class, SX_SLTI, SX_SLT.
MCMnemonics ==
    {MnemonicTok("HALT", FALSE, FALSE)}
    \cup {MnemonicTok(c, s, FALSE) : c \in Classes \ {"HALT"}, s \in BOOLEAN}
    \cup {MnemonicTok(c, FALSE, TRUE) : c \in {"ITYPE", "RTYPE"}}

MCOther == {Tok(k) : k \in {"Comma", "Lparen", "Rparen", "Label", "LabelRef", "Blocks", "Warps"}}

MCTokens == MCRegs \cup MCImms \cup MCMnemonics \cup MCOther

\* An instruction of each mnemonic with every choice of operand registers and immediates.
Filled(m) ==
    LET C == Tok("Comma")
    IN  IF m.cls = "HALT" THEN {<<m>>}
        ELSE IF m.cls = "ITYPE" THEN {<<m, a, C, b, C, i>> : a, b \in MCRegs, i \in MCImms}
        ELSE IF m.cls = "RTYPE" THEN {<<m, a, C, b, C, c>> : a, b, c \in MCRegs}
        ELSE {<<m, a, C, i, Tok("Lparen"), b, Tok("Rparen")>> : a, b \in MCRegs, i \in MCImms}

\* Well-formed and ill-typed lines of every form.
MCLines ==
    {<<Tok(d), i>> : d \in {"Blocks", "Warps"}, i \in MCImms}
    \cup {<<Tok("Label")>>}
    \cup {l \o f : l \in {<<>>, <<Tok("Label")>>}, f \in UNION {Filled(m) : m \in MCMnemonics}}

\* One token of each kind, the edits insert or substitute.
MCEditTokens ==
    MCOther \cup {ImmediateTok(0), RegisterTok("SCALAR"), RegisterTok("VECTOR"),
                  MnemonicTok("HALT", FALSE, FALSE)}

\* One line of each form the edits start from: every mnemonic, with and
\* without a label, and the two directives.
MCEditBase ==
    {<<Tok(d), ImmediateTok(1)>> : d \in {"Blocks", "Warps"}}
    \cup {l \o (CHOOSE f \in Filled(m) : TRUE) : l \in {<<>>, <<Tok("Label")>>}, m \in MCMnemonics}

\* Every line with one token removed, replaced or inserted.
Edits(l) ==
    {RemoveAt(l, i) : i \in 1..Len(l)}
    \cup {ReplaceAt(l, i, x) : i \in 1..Len(l), x \in MCEditTokens}
    \cup {InsertAt(l, i, x) : i \in 1..(Len(l) + 1), x \in MCEditTokens}

MCInputs == SeqOf(MCTokens, 2) \cup MCLines \cup UNION {Edits(l) : l \in MCEditBase}
=============================================================================
