------------------------------- MODULE Parser -------------------------------
(***************************************************************************)
(* The assembler's line parser (src/sim/aslib/parser.cpp): Parser::        *)
(* parse_line and the parse_* methods it calls, over one line's tokens.    *)
(*                                                                         *)
(* A token is a record with the same fields for every kind; only those of  *)
(* its kind matter. A token's column is its position in the line, which    *)
(* orders tokens as the lexer's 1-based columns do; column 0 is the one    *)
(* throw_unexpected_eos reports. Messages are abstracted to their kind.    *)
(***************************************************************************)
EXTENDS Integers, Sequences, FiniteSets

CONSTANTS
    Inputs   \* the token sequences handed to parse_line

Tok(kind) == [kind |-> kind, cls |-> "none", scalar |-> FALSE, cross |-> FALSE,
              rtype |-> "none", value |-> 0]

(***************************************************************************)
(* Mnemonic tokens: the class parse_instruction dispatches on, the         *)
(* mnemonic's is_scalar flag, and whether it is SX_SLTI / SX_SLT.          *)
(***************************************************************************)
Classes == {"HALT", "ITYPE", "RTYPE", "LOAD", "STORE"}

MnemonicTok(cls, scalar, cross) == [Tok("Mnemonic") EXCEPT !.cls = cls, !.scalar = scalar, !.cross = cross]
RegisterTok(rtype) == [Tok("Register") EXCEPT !.rtype = rtype]
ImmediateTok(v) == [Tok("Immediate") EXCEPT !.value = v]

\* RegisterData::is_scalar() (common.hpp, not under src/).
IsScalar(reg) == reg.rtype = "SCALAR"

Err(col, what) == [col |-> col, what |-> what]

\* The parser's result: a Line, or Rejected with the errors pushed.
Rejected == [kind |-> "none", label |-> FALSE, mn |-> Tok("none"), rd |-> Tok("none"),
             rs1 |-> Tok("none"), rs2 |-> Tok("none"), imm |-> 0]
Reject(errs) == [line |-> Rejected, errors |-> errs]
Accept(l) == [line |-> l, errors |-> <<>>]

(***************************************************************************)
(* The tokens the lexer hands to parse_line (token::Token, not under       *)
(* src/): punctuation, labels and directives carry nothing; a mnemonic     *)
(* has a class, or none when parse_instruction does not know it, and is    *)
(* SX_SLTI or SX_SLT only in the I-type and R-type classes; a register has *)
(* a kind; an immediate has an int value.                                  *)
(***************************************************************************)
LexTokens ==
    [kind : {"Comma", "Lparen", "Rparen", "Label", "LabelRef", "Blocks", "Warps"},
     cls : {"none"}, scalar : {FALSE}, cross : {FALSE}, rtype : {"none"}, value : {0}]
    \cup [kind : {"Mnemonic"}, cls : Classes \cup {"none"}, scalar : BOOLEAN, cross : {FALSE},
          rtype : {"none"}, value : {0}]
    \cup [kind : {"Mnemonic"}, cls : {"ITYPE", "RTYPE"}, scalar : BOOLEAN, cross : {TRUE},
          rtype : {"none"}, value : {0}]
    \cup [kind : {"Register"}, cls : {"none"}, scalar : {FALSE}, cross : {FALSE},
          rtype : {"VECTOR", "SCALAR", "PC"}, value : {0}]
    \cup [kind : {"Immediate"}, cls : {"none"}, scalar : {FALSE}, cross : {FALSE},
          rtype : {"none"}, value : Int]

\* parse_line is called on lines the lexer produced.
ASSUME InputsAssumption == Inputs \subseteq Seq(LexTokens)

-----------------------------------------------------------------------------
\* Mutant: an end of stream is reported at the column after the last token.
ShapeErrorEosPastEnd(t, p, shape) ==
    LET bad == {j \in 1..Len(shape) : p + j > Len(t) \/ t[p + j].kind # shape[j]}
        j == CHOOSE j \in bad : \A k \in bad : j <= k
    IN  IF bad = {} THEN <<>>
        ELSE IF p + j > Len(t) THEN <<Err(p + j, "Eos")>>
        ELSE <<Err(p + j, "Unexpected")>>

(***************************************************************************)
(* expect<T>() (parser.hpp, not under src/), chained by EXPECT_OR_RETURN:  *)
(* the operands must have the token kinds of `shape` from position p on.   *)
(* The first missing token is an unexpected end of stream (column 0), the  *)
(* first token of another kind an unexpected token at its column.         *)
(***************************************************************************)
ShapeError(t, p, shape) ==
    LET bad == {j \in 1..Len(shape) : p + j > Len(t) \/ t[p + j].kind # shape[j]}
        j == CHOOSE j \in bad : \A k \in bad : j <= k
    IN  IF bad = {} THEN <<>>
        ELSE IF p + j > Len(t) THEN <<Err(0, "Eos")>>
        ELSE <<Err(p + j, "Unexpected")>>

(***************************************************************************)
(* The CHECK_REG sequence: check_register_correct_type on each listed      *)
(* operand (position in the line, expected to be scalar) in order; the     *)
(* first register of the wrong kind pushes one error at its column and     *)
(* the parse returns.                                                      *)
(***************************************************************************)
CheckRegs(t, checks) ==
    LET bad == {i \in 1..Len(checks) : IsScalar(t[checks[i][1]]) # checks[i][2]}
        i == CHOOSE i \in bad : \A k \in bad : i <= k
    IN  IF bad = {} THEN <<>> ELSE <<Err(checks[i][1], "RegType")>>

\* Mutant: a register of the wrong kind fails the parse without an error.
OperandsSilentRegFail(t, p, shape, checks, line) ==
    IF ShapeError(t, p, shape) # <<>> THEN Reject(ShapeError(t, p, shape))
    ELSE IF CheckRegs(t, checks) # <<>> THEN Reject(<<>>)
    ELSE Accept(line)

\* Expect the shape, then check the registers, then build the instruction.
Operands(t, p, shape, checks, line) ==
    IF ShapeError(t, p, shape) # <<>> THEN Reject(ShapeError(t, p, shape))
    ELSE IF CheckRegs(t, checks) # <<>> THEN Reject(CheckRegs(t, checks))
    ELSE Accept(line)

Instr(m, rd, rs1, rs2, imm) ==
    [kind |-> "Instruction", label |-> FALSE, mn |-> m, rd |-> rd, rs1 |-> rs1, rs2 |-> rs2, imm |-> imm]

\* <opcode> rd, rs1, imm12; SX_SLTI wants a scalar rd and a vector rs1.
ParseItype(t, p) ==
    LET m == t[p]
    IN  Operands(t, p, <<"Register", "Comma", "Register", "Comma", "Immediate">>,
                 IF m.cross THEN <<<<p + 1, TRUE>>, <<p + 3, FALSE>>>>
                 ELSE <<<<p + 1, m.scalar>>, <<p + 3, m.scalar>>>>,
                 Instr(m, t[p + 1], t[p + 3], Tok("none"), t[p + 5].value))

\* <opcode> rd, rs1, rs2; SX_SLT wants a scalar rd and vector sources.
ParseRtype(t, p) ==
    LET m == t[p]
    IN  Operands(t, p, <<"Register", "Comma", "Register", "Comma", "Register">>,
                 IF m.cross THEN <<<<p + 1, TRUE>>, <<p + 3, FALSE>>, <<p + 5, FALSE>>>>
                 ELSE <<<<p + 1, m.scalar>>, <<p + 3, m.scalar>>, <<p + 5, m.scalar>>>>,
                 Instr(m, t[p + 1], t[p + 3], t[p + 5], 0))

\* <opcode> rd, offset(rs1)
ParseLoad(t, p) ==
    LET m == t[p]
    IN  Operands(t, p, <<"Register", "Comma", "Immediate", "Lparen", "Register", "Rparen">>,
                 <<<<p + 1, m.scalar>>, <<p + 5, m.scalar>>>>,
                 Instr(m, t[p + 1], t[p + 5], Tok("none"), t[p + 3].value))

\* <opcode> rs2, offset(rs1); rs1 is checked before rs2.
ParseStore(t, p) ==
    LET m == t[p]
    IN  Operands(t, p, <<"Register", "Comma", "Immediate", "Lparen", "Register", "Rparen">>,
                 <<<<p + 5, m.scalar>>, <<p + 1, m.scalar>>>>,
                 Instr(m, Tok("none"), t[p + 5], t[p + 1], t[p + 3].value))

\* Parser::parse_instruction, for the mnemonic at position p.
ParseInstruction(t, p) ==
    LET cls == t[p].cls
    IN  IF cls = "HALT" THEN Accept(Instr(t[p], Tok("none"), Tok("none"), Tok("none"), 0))
        ELSE IF cls = "ITYPE" THEN ParseItype(t, p)
        ELSE IF cls = "RTYPE" THEN ParseRtype(t, p)
        ELSE IF cls = "LOAD" THEN ParseLoad(t, p)
        ELSE IF cls = "STORE" THEN ParseStore(t, p)
        ELSE Reject(<<Err(p, "UnknownMnemonic")>>)

\* Operand tokens each instruction class consumes after its mnemonic.
OperandCount == [c \in Classes |-> IF c = "HALT" THEN 0 ELSE IF c \in {"ITYPE", "RTYPE"} THEN 5 ELSE 6]

\* Mutant: the directive number is only checked to be non-negative.
ParseDirectiveZeroAllowed(t) ==
    IF Len(t) < 2 THEN Reject(<<Err(0, "Eos")>>)
    ELSE IF t[2].kind # "Immediate" THEN Reject(<<Err(2, "Unexpected")>>)
    ELSE IF t[2].value < 0 THEN Reject(<<Err(2, "DirectiveValue")>>)
    ELSE IF Len(t) > 2 THEN Reject(<<Err(3, "Unexpected")>>)
    ELSE Accept([Rejected EXCEPT !.kind = t[1].kind, !.imm = t[2].value])

(***************************************************************************)
(* Parser::parse_directive: the directive, then an immediate that must be  *)
(* at least 1, then the end of the line.                                   *)
(***************************************************************************)
ParseDirective(t) ==
    IF Len(t) < 2 THEN Reject(<<Err(0, "Eos")>>)
    ELSE IF t[2].kind # "Immediate" THEN Reject(<<Err(2, "Unexpected")>>)
    ELSE IF t[2].value < 1 THEN Reject(<<Err(2, "DirectiveValue")>>)
    ELSE IF Len(t) > 2 THEN Reject(<<Err(3, "Unexpected")>>)
    ELSE Accept([Rejected EXCEPT !.kind = t[1].kind, !.imm = t[2].value])

(***************************************************************************)
(* Parser::parse_line: an empty line gives no result and no error; a       *)
(* directive first; else an optional label (alone it is a JustLabel),     *)
(* then a mnemonic whose instruction must end the line. A token left      *)
(* after the instruction is reported at the column of `token`, the        *)
(* mnemonic.                                                               *)
(***************************************************************************)
ParseLine(t) ==
    LET lab == Len(t) > 0 /\ t[1].kind = "Label"
        p == IF lab THEN 2 ELSE 1
        r == ParseInstruction(t, p)
    IN  IF t = <<>> THEN Reject(<<>>)
        ELSE IF t[1].kind \in {"Blocks", "Warps"} THEN ParseDirective(t)
        ELSE IF lab /\ Len(t) = 1 THEN Accept([Rejected EXCEPT !.kind = "JustLabel", !.label = TRUE])
        ELSE IF t[p].kind # "Mnemonic" THEN Reject(<<Err(p, "Unexpected")>>)
        ELSE IF r.line = Rejected THEN r
        ELSE IF p + OperandCount[t[p].cls] < Len(t) THEN Reject(<<Err(p, "Unexpected")>>)
        ELSE Accept([r.line EXCEPT !.label = lab])

-----------------------------------------------------------------------------
VARIABLES toks, result

vars == <<toks, result>>

Pending == Reject(<<Err(0, "pending")>>)

Init ==
    /\ toks \in Inputs
    /\ result = Pending

\* as::parse_line(tokens): one Parser over the line, its result or its errors.
ParseLineCall ==
    /\ result = Pending
    /\ result' = ParseLine(toks)
    /\ UNCHANGED toks

Next == ParseLineCall

Spec == Init /\ [][Next]_vars

-----------------------------------------------------------------------------
(***************************************************************************)
(* The line grammar and register-type rules of spec Sec. 4.3, stated over  *)
(* the whole line: which token sequences are lines.                        *)
(***************************************************************************)
SpecOperands ==
    [c \in Classes |->
        IF c = "HALT" THEN <<>>
        ELSE IF c = "ITYPE" THEN <<"Register", "Comma", "Register", "Comma", "Immediate">>
        ELSE IF c = "RTYPE" THEN <<"Register", "Comma", "Register", "Comma", "Register">>
        ELSE <<"Register", "Comma", "Immediate", "Lparen", "Register", "Rparen">>]

\* The kind the i-th operand register must be: rd scalar and the sources
\* vector for SX_SLTI / SX_SLT, the mnemonic's flag for every other opcode.
WantsScalar(m, i) == IF m.cross THEN i = 1 ELSE m.scalar

\* Length of the optional label definition that starts a line.
LabelLen(t) == IF Len(t) > 0 /\ t[1].kind = "Label" THEN 1 ELSE 0

\* The operands of an instruction line after its mnemonic.
OpsOf(t) == SubSeq(t, LabelLen(t) + 2, Len(t))

\* The line is [label] mnemonic operands with the operand kinds right.
InstructionShape(t) ==
    /\ Len(t) > LabelLen(t)
    /\ t[LabelLen(t) + 1].kind = "Mnemonic"
    /\ LET m == t[LabelLen(t) + 1] IN
          /\ m.cls \in Classes
          /\ Len(OpsOf(t)) = Len(SpecOperands[m.cls])
          /\ \A i \in 1..Len(OpsOf(t)) : OpsOf(t)[i].kind = SpecOperands[m.cls][i]

\* Operand registers of an instruction line that have the wrong kind.
MistypedRegs(t) ==
    LET m == t[LabelLen(t) + 1]
        regs == {i \in 1..Len(OpsOf(t)) : OpsOf(t)[i].kind = "Register"}
    IN  {i \in regs : IsScalar(OpsOf(t)[i]) # WantsScalar(m, Cardinality({j \in regs : j <= i}))}

SpecLine(t) ==
    \/ /\ Len(t) = 2 /\ t[1].kind \in {"Blocks", "Warps"}
       /\ t[2].kind = "Immediate" /\ t[2].value >= 1
    \/ t = <<Tok("Label")>>
    \/ InstructionShape(t) /\ MistypedRegs(t) = {}

-----------------------------------------------------------------------------
ErrorKinds == {"pending", "Eos", "Unexpected", "RegType", "DirectiveValue", "UnknownMnemonic"}

Tokens ==
    [kind : {"Mnemonic", "Register", "Immediate", "Label", "LabelRef", "Comma", "Lparen", "Rparen",
             "Blocks", "Warps"},
     cls : Classes \cup {"none"}, scalar : BOOLEAN, cross : BOOLEAN,
     rtype : {"VECTOR", "SCALAR", "PC", "none"}, value : Int]

TypeOK ==
    /\ toks \in Seq(Tokens)
    /\ result.line.kind \in {"none", "JustLabel", "Blocks", "Warps", "Instruction"}
    /\ result.errors \in Seq([col : 0..Len(toks), what : ErrorKinds])

(***************************************************************************)
(* Spec Sec. 4.3 and Sec. 8, properties 4 and 5: parse_line returns a Line *)
(* exactly for the token sequences of the grammar whose registers have the *)
(* kinds the type rules demand (SX_SLTI / SX_SLT: scalar rd, vector        *)
(* sources) and whose directive number is at least 1.                      *)
(***************************************************************************)
ParseMatchesGrammar ==
    result # Pending => ((result.line # Rejected) <=> SpecLine(toks))

(***************************************************************************)
(* Spec Sec. 4.3: a non-empty line yields either a Line or errors, never   *)
(* both and never neither.                                                 *)
(***************************************************************************)
RejectionReported ==
    result # Pending /\ toks # <<>> => ((result.line = Rejected) <=> result.errors # <<>>)

(***************************************************************************)
(* Spec Sec. 4.3 and 7: the parser collects all errors of a line and does  *)
(* not stop at the first, so an instruction of the right shape gets one    *)
(* register-type error per register of the wrong kind.                     *)
(***************************************************************************)
AllMismatchesReported ==
    result # Pending /\ InstructionShape(toks) =>
        Len(result.errors) = Cardinality(MistypedRegs(toks))

(***************************************************************************)
(* Spec Sec. 4.3: an unexpected token is reported with the offending       *)
(* column. When the first k tokens already form a complete directive or    *)
(* instruction, the error is at token k + 1, the first one too many.       *)
(***************************************************************************)
TrailingTokenColumn ==
    result # Pending =>
        \A k \in 1..(Len(toks) - 1) :
            SpecLine(SubSeq(toks, 1, k)) /\ toks[k].kind # "Label" =>
                result.errors # <<>> /\ result.errors[1].col = k + 1

=============================================================================
