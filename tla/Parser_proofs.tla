--------------------------- MODULE Parser_proofs ---------------------------
(***************************************************************************)
(* Proofs about Parser::parse_line, for every token sequence the lexer can *)
(* produce, where run parser checks only the enumerated lines:             *)
(*  - RejectionReportedHolds: every path that gives up pushes an error     *)
(*    first, and every path that returns a Line builds one whose kind is   *)
(*    not the "none" of the empty result;                                  *)
(*  - ParseMatchesGrammarHolds: the code's checks (EXPECT_OR_RETURN,       *)
(*    CHECK_REG, the trailing-token test) agree with the grammar stated    *)
(*    over whole lines, class by class;                                    *)
(*  - TypeOKHolds: every pushed error has a column within the line.        *)
(***************************************************************************)
EXTENDS Parser, SequenceTheorems, FiniteSetTheorems, WellFoundedInduction, TLAPS

\* A result carries errors exactly when it carries no Line.
Reported(r) == (r.line = Rejected) <=> r.errors # <<>>

\* The Line an instruction parse builds, whatever its operands.
IsInstr(l) == \E m, a, b, c, d : l = Instr(m, a, b, c, d)

LEMMA KindExcept == ASSUME NEW k PROVE [Rejected EXCEPT !.kind = k].kind = k
BY Zenon DEF Rejected, Tok

LEMMA LabelExcept == ASSUME NEW l, IsInstr(l), NEW lab
                     PROVE  [l EXCEPT !.label = lab].kind = "Instruction"
<1>1. PICK m, a, b, c, d : l = Instr(m, a, b, c, d)
  BY DEF IsInstr
<1>2. QED
  BY <1>1, Zenon DEF Instr

\* A path that pushes at least one error and returns.
LEMMA RejectReported == ASSUME NEW e, e # <<>> PROVE Reported(Reject(e))
BY DEF Reported, Reject

\* A path that returns a Line of some kind other than "none".
LEMMA AcceptReported == ASSUME NEW l, l.kind # "none" PROVE Reported(Accept(l))
<1>1. l # Rejected
  BY DEF Rejected
<1>2. QED
  BY <1>1 DEF Reported, Accept

(***************************************************************************)
(* EXPECT_OR_RETURN and CHECK_REG either push an error and return, or the  *)
(* instruction is built.                                                   *)
(***************************************************************************)
LEMMA OperandsResult ==
    ASSUME NEW t, NEW p, NEW shape, NEW checks, NEW m, NEW a, NEW b, NEW c, NEW d
    PROVE  LET r == Operands(t, p, shape, checks, Instr(m, a, b, c, d))
           IN  Reported(r) /\ (r.line # Rejected => IsInstr(r.line))
<1> DEFINE l == Instr(m, a, b, c, d)
<1>1. l.kind # "none"
  BY DEF Instr
<1>2. IsInstr(l)
  BY DEF IsInstr
<1>3. CASE ShapeError(t, p, shape) # <<>>
  BY <1>3, RejectReported DEF Operands, Reject
<1>4. CASE ShapeError(t, p, shape) = <<>> /\ CheckRegs(t, checks) # <<>>
  BY <1>4, RejectReported DEF Operands, Reject
<1>5. CASE ShapeError(t, p, shape) = <<>> /\ CheckRegs(t, checks) = <<>>
  BY <1>1, <1>2, <1>5, AcceptReported DEF Operands, Accept
<1>6. QED
  BY <1>3, <1>4, <1>5

\* Parser::parse_instruction, for every instruction class.
LEMMA InstructionResult ==
    ASSUME NEW t, NEW p
    PROVE  LET r == ParseInstruction(t, p)
           IN  Reported(r) /\ (r.line # Rejected => IsInstr(r.line))
<1> DEFINE cls == t[p].cls
<1>1. CASE cls = "HALT"
  <2>1. Instr(t[p], Tok("none"), Tok("none"), Tok("none"), 0).kind # "none"
    BY DEF Instr
  <2>2. IsInstr(Instr(t[p], Tok("none"), Tok("none"), Tok("none"), 0))
    BY DEF IsInstr
  <2>3. QED
    BY <1>1, <2>1, <2>2, AcceptReported DEF ParseInstruction, Accept
<1>2. CASE cls = "ITYPE"
  BY <1>2, OperandsResult DEF ParseInstruction, ParseItype
<1>3. CASE cls = "RTYPE"
  BY <1>3, OperandsResult DEF ParseInstruction, ParseRtype
<1>4. CASE cls = "LOAD"
  BY <1>4, OperandsResult DEF ParseInstruction, ParseLoad
<1>5. CASE cls = "STORE"
  BY <1>5, OperandsResult DEF ParseInstruction, ParseStore
<1>6. CASE cls \notin Classes
  BY <1>6, RejectReported DEF ParseInstruction, Reject, Classes
<1>7. QED
  BY <1>1, <1>2, <1>3, <1>4, <1>5, <1>6 DEF Classes

\* Parser::parse_directive: every early return pushes an error.
LEMMA DirectiveReported ==
    ASSUME NEW t, t[1].kind \in {"Blocks", "Warps"}
    PROVE  Reported(ParseDirective(t))
<1>1. [Rejected EXCEPT !.kind = t[1].kind, !.imm = t[2].value].kind = t[1].kind
  BY Zenon DEF Rejected, Tok
<1>2. QED
  BY <1>1, RejectReported, AcceptReported DEF ParseDirective

(***************************************************************************)
(* parse_line on a non-empty line: the directive, the lone label, the      *)
(* missing mnemonic, the failed instruction, the trailing token and the    *)
(* accepted instruction are its only returns.                              *)
(***************************************************************************)
LEMMA LineReported ==
    ASSUME NEW t, t # <<>>
    PROVE  Reported(ParseLine(t))
<1> DEFINE lab == Len(t) > 0 /\ t[1].kind = "Label"
           p == IF lab THEN 2 ELSE 1
           r == ParseInstruction(t, p)
<1>1. Reported(r) /\ (r.line # Rejected => IsInstr(r.line))
  BY InstructionResult
<1>2. CASE t[1].kind \in {"Blocks", "Warps"}
  BY <1>2, DirectiveReported DEF ParseLine
<1>3. CASE t[1].kind \notin {"Blocks", "Warps"} /\ lab /\ Len(t) = 1
  <2>1. [Rejected EXCEPT !.kind = "JustLabel", !.label = TRUE].kind = "JustLabel"
    BY Zenon DEF Rejected, Tok
  <2>2. QED
    BY <1>3, <2>1, AcceptReported DEF ParseLine
<1>4. CASE t[1].kind \notin {"Blocks", "Warps"} /\ ~(lab /\ Len(t) = 1)
  <2>1. CASE t[p].kind # "Mnemonic"
    BY <1>4, <2>1, RejectReported DEF ParseLine
  <2>2. CASE t[p].kind = "Mnemonic" /\ r.line = Rejected
    BY <1>1, <1>4, <2>2 DEF ParseLine
  <2>3. CASE t[p].kind = "Mnemonic" /\ r.line # Rejected
             /\ p + OperandCount[t[p].cls] < Len(t)
    BY <1>4, <2>3, RejectReported DEF ParseLine
  <2>4. CASE t[p].kind = "Mnemonic" /\ r.line # Rejected
             /\ ~(p + OperandCount[t[p].cls] < Len(t))
    <3>1. [r.line EXCEPT !.label = lab].kind = "Instruction"
      BY <1>1, <2>4, LabelExcept
    <3>2. QED
      BY <1>4, <2>4, <3>1, AcceptReported DEF ParseLine
  <2>5. QED
    BY <2>1, <2>2, <2>3, <2>4
<1>5. QED
  BY <1>2, <1>3, <1>4

-----------------------------------------------------------------------------
\* Once parse_line has run, the result is the one it returned for the line.
ResultInv == result = Pending \/ result = ParseLine(toks)

LEMMA ResultInvInit == Init => ResultInv
BY DEF Init, ResultInv

LEMMA ResultInvNext == ResultInv /\ [Next]_vars => ResultInv'
BY DEF ResultInv, Next, ParseLineCall, vars

(***************************************************************************)
(* RejectionReported of run parser, for every set of input lines: a        *)
(* non-empty line that parse_line rejects always carries an error, and an  *)
(* accepted one carries none.                                              *)
(***************************************************************************)
THEOREM RejectionReportedHolds == Spec => []RejectionReported
<1>1. ResultInv => RejectionReported
  BY LineReported DEF ResultInv, RejectionReported, Reported
<1>2. QED
  BY <1>1, ResultInvInit, ResultInvNext, PTL DEF Spec
-----------------------------------------------------------------------------
(***************************************************************************)
(* The grammar of spec Sec. 4.3 against the parser (ParseMatchesGrammar).  *)
(***************************************************************************)

\* The token kinds an operand shape names.
OperandKinds == {"Register", "Comma", "Immediate", "Lparen", "Rparen"}

\* EXPECT_OR_RETURN succeeds exactly when every expected token is there.
LEMMA ShapeOK ==
    ASSUME NEW t \in Seq(LexTokens), NEW p \in Nat, NEW shape \in Seq(OperandKinds)
    PROVE  ShapeError(t, p, shape) = <<>> <=>
              \A j \in 1..Len(shape) : p + j <= Len(t) /\ t[p + j].kind = shape[j]
BY DEF ShapeError, Err

\* CHECK_REG on two and on three registers succeeds exactly when each has its kind.
LEMMA RegsOK2 ==
    ASSUME NEW t, NEW a, NEW b, NEW x \in BOOLEAN, NEW y \in BOOLEAN
    PROVE  CheckRegs(t, <<<<a, x>>, <<b, y>>>>) = <<>> <=> IsScalar(t[a]) = x /\ IsScalar(t[b]) = y
BY DEF CheckRegs, Err, IsScalar

LEMMA RegsOK3 ==
    ASSUME NEW t, NEW a, NEW b, NEW c, NEW x \in BOOLEAN, NEW y \in BOOLEAN, NEW z \in BOOLEAN
    PROVE  CheckRegs(t, <<<<a, x>>, <<b, y>>, <<c, z>>>>) = <<>> <=>
              IsScalar(t[a]) = x /\ IsScalar(t[b]) = y /\ IsScalar(t[c]) = z
BY DEF CheckRegs, Err, IsScalar

\* The operands after the mnemonic at position p are the tokens from p + 1 on.
LEMMA OperandsOfLine ==
    ASSUME NEW t \in Seq(LexTokens), NEW p \in 1..Len(t)
    PROVE  /\ Len(SubSeq(t, p + 1, Len(t))) = Len(t) - p
           /\ \A i \in 1..(Len(t) - p) : SubSeq(t, p + 1, Len(t))[i] = t[p + i]
<1>1. \A i \in (p + 1)..Len(t) : t[i] \in LexTokens
  OBVIOUS
<1>2. QED
  BY <1>1, SubSeqProperties

(***************************************************************************)
(* The operand shape: the parser's shape checks and its trailing-token     *)
(* check together say what the grammar says, that the operands are        *)
(* exactly the tokens of the shape.                                        *)
(***************************************************************************)
LEMMA ShapeAgree ==
    ASSUME NEW t \in Seq(LexTokens), NEW p \in 1..Len(t), NEW shape \in Seq(OperandKinds)
    PROVE  (ShapeError(t, p, shape) = <<>> /\ p + Len(shape) >= Len(t)) <=>
              /\ Len(SubSeq(t, p + 1, Len(t))) = Len(shape)
              /\ \A i \in 1..Len(shape) : SubSeq(t, p + 1, Len(t))[i].kind = shape[i]
<1>1. ShapeError(t, p, shape) = <<>> <=>
         \A j \in 1..Len(shape) : p + j <= Len(t) /\ t[p + j].kind = shape[j]
  BY ShapeOK
<1>2. /\ Len(SubSeq(t, p + 1, Len(t))) = Len(t) - p
      /\ \A i \in 1..(Len(t) - p) : SubSeq(t, p + 1, Len(t))[i] = t[p + i]
  BY OperandsOfLine
<1> DEFINE n == Len(shape)
           ops == SubSeq(t, p + 1, Len(t))
<1>3. n \in Nat /\ Len(t) \in Nat
  OBVIOUS
<1>4. ASSUME ShapeError(t, p, shape) = <<>>, p + n >= Len(t)
      PROVE  Len(ops) = n /\ \A i \in 1..n : ops[i].kind = shape[i]
  <2>1. Len(t) = p + n
    <3>1. CASE n = 0
      BY <1>3, <3>1, <1>4
    <3>2. CASE n > 0
      BY <1>1, <1>3, <1>4, <3>2
    <3>3. QED
      BY <1>3, <3>1, <3>2
  <2>2. Len(ops) = n /\ \A i \in 1..n : ops[i] = t[p + i]
    BY <1>2, <2>1
  <2>3. \A j \in 1..n : t[p + j].kind = shape[j]
    BY <1>1, <1>4
  <2>4. QED
    BY <2>2, <2>3
<1>5. ASSUME Len(ops) = n, \A i \in 1..n : ops[i].kind = shape[i]
      PROVE  ShapeError(t, p, shape) = <<>> /\ p + n >= Len(t)
  <2>1. Len(t) = p + n
    BY <1>2, <1>5
  <2>2. \A j \in 1..n : p + j <= Len(t) /\ t[p + j].kind = shape[j]
    BY <1>2, <1>5, <2>1
  <2>3. QED
    BY <1>1, <2>1, <2>2
<1>6. QED
  BY <1>4, <1>5
\* The sizes of the sets of register operand positions.
LEMMA CardFacts ==
    /\ Cardinality({1}) = 1
    /\ Cardinality({1, 3}) = 2
    /\ Cardinality({1, 5}) = 2
    /\ Cardinality({1, 3, 5}) = 3
<1>1. IsFiniteSet({1}) /\ Cardinality({1}) = 1
  BY FS_Singleton
<1>2. IsFiniteSet({1, 3}) /\ Cardinality({1, 3}) = 2
  <2>1. {1, 3} = {1} \cup {3}
    OBVIOUS
  <2>2. QED
    BY <1>1, <2>1, FS_AddElement
<1>3. Cardinality({1, 5}) = 2
  <2>1. {1, 5} = {1} \cup {5}
    OBVIOUS
  <2>2. QED
    BY <1>1, <2>1, FS_AddElement
<1>4. Cardinality({1, 3, 5}) = 3
  <2>1. {1, 3, 5} = {1, 3} \cup {5}
    OBVIOUS
  <2>2. QED
    BY <1>2, <2>1, FS_AddElement
<1>5. QED
  BY <1>1, <1>2, <1>3, <1>4

\* The kind WantsScalar asks of the first, second and third register.
LEMMA WantsFacts ==
    ASSUME NEW u, u.scalar \in BOOLEAN, u.cross \in BOOLEAN
    PROVE  /\ WantsScalar(u, 1) <=> u.cross \/ u.scalar
           /\ WantsScalar(u, 2) <=> ~u.cross /\ u.scalar
           /\ WantsScalar(u, 3) <=> ~u.cross /\ u.scalar
BY DEF WantsScalar

\* The CHECK_REG pair of parse_itype_arithemtic_instruction, with the
\* mnemonic's scalar flag sc and its cross-kind flag cr.
LEMMA CheckItype ==
    ASSUME NEW t, NEW q, NEW sc \in BOOLEAN, NEW cr \in BOOLEAN
    PROVE  CheckRegs(t, IF cr THEN <<<<q + 1, TRUE>>, <<q + 3, FALSE>>>>
                        ELSE <<<<q + 1, sc>>, <<q + 3, sc>>>>) = <<>>
           <=> /\ IsScalar(t[q + 1]) <=> cr \/ sc
               /\ IsScalar(t[q + 3]) <=> ~cr /\ sc
<1>0. \A x, y \in BOOLEAN : CheckRegs(t, <<<<q + 1, x>>, <<q + 3, y>>>>) = <<>> <=>
         IsScalar(t[q + 1]) = x /\ IsScalar(t[q + 3]) = y
  BY RegsOK2
<1>1. CASE cr
  <2>1. CheckRegs(t, <<<<q + 1, TRUE>>, <<q + 3, FALSE>>>>) = <<>> <=>
           IsScalar(t[q + 1]) = TRUE /\ IsScalar(t[q + 3]) = FALSE
    BY <1>0, Zenon
  <2>2. QED
    BY <1>1, <2>1 DEF IsScalar
<1>2. CASE ~cr
  <2>1. CheckRegs(t, <<<<q + 1, sc>>, <<q + 3, sc>>>>) = <<>> <=>
           IsScalar(t[q + 1]) = sc /\ IsScalar(t[q + 3]) = sc
    BY <1>0, Zenon
  <2>2. QED
    BY <1>2, <2>1 DEF IsScalar
<1>3. QED
  BY <1>1, <1>2

\* The three CHECK_REG calls of parse_rtype_arithemtic_instruction.
LEMMA CheckRtype ==
    ASSUME NEW t, NEW q, NEW sc \in BOOLEAN, NEW cr \in BOOLEAN
    PROVE  CheckRegs(t, IF cr THEN <<<<q + 1, TRUE>>, <<q + 3, FALSE>>, <<q + 5, FALSE>>>>
                        ELSE <<<<q + 1, sc>>, <<q + 3, sc>>, <<q + 5, sc>>>>) = <<>>
           <=> /\ IsScalar(t[q + 1]) <=> cr \/ sc
               /\ IsScalar(t[q + 3]) <=> ~cr /\ sc
               /\ IsScalar(t[q + 5]) <=> ~cr /\ sc
<1>0. \A x, y, z \in BOOLEAN :
         CheckRegs(t, <<<<q + 1, x>>, <<q + 3, y>>, <<q + 5, z>>>>) = <<>> <=>
         IsScalar(t[q + 1]) = x /\ IsScalar(t[q + 3]) = y /\ IsScalar(t[q + 5]) = z
  BY RegsOK3
<1>1. CASE cr
  <2>1. CheckRegs(t, <<<<q + 1, TRUE>>, <<q + 3, FALSE>>, <<q + 5, FALSE>>>>) = <<>> <=>
           IsScalar(t[q + 1]) = TRUE /\ IsScalar(t[q + 3]) = FALSE /\ IsScalar(t[q + 5]) = FALSE
    BY <1>0, Zenon
  <2>2. QED
    BY <1>1, <2>1 DEF IsScalar
<1>2. CASE ~cr
  <2>1. CheckRegs(t, <<<<q + 1, sc>>, <<q + 3, sc>>, <<q + 5, sc>>>>) = <<>> <=>
           IsScalar(t[q + 1]) = sc /\ IsScalar(t[q + 3]) = sc /\ IsScalar(t[q + 5]) = sc
    BY <1>0, Zenon
  <2>2. QED
    BY <1>2, <2>1 DEF IsScalar
<1>3. QED
  BY <1>1, <1>2

\* m is the mnemonic of line t and p its position (kept opaque in the
\* proofs below so that the provers do not rewrite p and m away).
MnemonicAt(t, p, m) == p = LabelLen(t) + 1 /\ m = t[p]

\* The operands of the instruction whose mnemonic m is at position p.
LEMMA LineOperands ==
    ASSUME NEW t \in Seq(LexTokens), NEW p, NEW m, NEW n \in Nat,
           MnemonicAt(t, p, m), p <= Len(t), Len(OpsOf(t)) = n
    PROVE  /\ p \in 1..Len(t)
           /\ Len(t) - p = n
           /\ \A i \in 1..n : OpsOf(t)[i] = t[p + i]
<1>0. LabelLen(t) \in {0, 1} /\ p = LabelLen(t) + 1 /\ m = t[p]
  BY DEF LabelLen, MnemonicAt
<1>1. p \in 1..Len(t)
  BY <1>0
<1>2. OpsOf(t) = SubSeq(t, p + 1, Len(t))
  <2>1. LabelLen(t) + 2 = p + 1
    BY <1>0
  <2>2. QED
    BY <2>1 DEF OpsOf
<1>3. /\ Len(SubSeq(t, p + 1, Len(t))) = Len(t) - p
      /\ \A i \in 1..(Len(t) - p) : SubSeq(t, p + 1, Len(t))[i] = t[p + i]
  BY <1>1, OperandsOfLine
<1>4. QED
  BY <1>0, <1>1, <1>2, <1>3

(***************************************************************************)
(* I-type: once the operands have the shape rd, rs1, imm12, the CHECK_REG  *)
(* calls of parse_itype_arithemtic_instruction accept exactly when the     *)
(* grammar finds no mistyped register (rd is the first register, rs1 the   *)
(* second).                                                                *)
(***************************************************************************)
LEMMA RegsAgreeItype ==
    ASSUME NEW t \in Seq(LexTokens), NEW p, NEW m,
           MnemonicAt(t, p, m), p <= Len(t), m.cls = "ITYPE",
           Len(OpsOf(t)) = 5,
           \A i \in 1..5 : OpsOf(t)[i].kind = SpecOperands["ITYPE"][i]
    PROVE  MistypedRegs(t) = {} <=>
           CheckRegs(t, IF m.cross THEN <<<<p + 1, TRUE>>, <<p + 3, FALSE>>>>
                        ELSE <<<<p + 1, m.scalar>>, <<p + 3, m.scalar>>>>) = <<>>
<1> DEFINE ops == OpsOf(t)
<1>0. /\ p \in 1..Len(t)
      /\ Len(t) - p = 5
      /\ \A i \in 1..5 : OpsOf(t)[i] = t[p + i]
  <2>1. 5 \in Nat
    OBVIOUS
  <2>2. QED
    BY <2>1, LineOperands
<1>1. /\ p \in 1..Len(t)
      /\ \A i \in 1..5 : ops[i] = t[p + i]
  BY <1>0 DEF ops
<1>a. m = t[LabelLen(t) + 1] /\ m = t[p]
  BY DEF MnemonicAt
<1>2. m.scalar \in BOOLEAN /\ m.cross \in BOOLEAN
  <2>1. m \in LexTokens
    BY <1>1, <1>a
  <2>2. QED
    BY <2>1 DEF LexTokens
<1>3. SpecOperands["ITYPE"] = <<"Register", "Comma", "Register", "Comma", "Immediate">>
  BY DEF SpecOperands, Classes
<1>4. {i \in 1..Len(ops) : ops[i].kind = "Register"} = {1, 3}
  BY <1>3 DEF ops
<1>5. {j \in {1, 3} : j <= 1} = {1} /\ {j \in {1, 3} : j <= 3} = {1, 3}
  OBVIOUS
<1>6. MistypedRegs(t) =
         {i \in {1, 3} : IsScalar(ops[i]) # WantsScalar(m, Cardinality({j \in {1, 3} : j <= i}))}
  BY <1>a, <1>4 DEF MistypedRegs, ops
<1>7. MistypedRegs(t) = {} <=>
         IsScalar(t[p + 1]) = WantsScalar(m, 1) /\ IsScalar(t[p + 3]) = WantsScalar(m, 2)
  <2>1. WantsScalar(m, Cardinality({j \in {1, 3} : j <= 1})) = WantsScalar(m, 1)
    BY <1>5, CardFacts
  <2>2. WantsScalar(m, Cardinality({j \in {1, 3} : j <= 3})) = WantsScalar(m, 2)
    BY <1>5, CardFacts
  <2>3. QED
    BY <1>1, <1>6, <2>1, <2>2
<1>8. CheckRegs(t, IF m.cross THEN <<<<p + 1, TRUE>>, <<p + 3, FALSE>>>>
                   ELSE <<<<p + 1, m.scalar>>, <<p + 3, m.scalar>>>>) = <<>>
      <=> /\ IsScalar(t[p + 1]) <=> m.cross \/ m.scalar
          /\ IsScalar(t[p + 3]) <=> ~m.cross /\ m.scalar
  BY <1>2, CheckItype
<1>9. /\ WantsScalar(m, 1) <=> m.cross \/ m.scalar
      /\ WantsScalar(m, 2) <=> ~m.cross /\ m.scalar
  BY <1>2, WantsFacts
<1>10. /\ (IsScalar(t[p + 1]) = WantsScalar(m, 1)) <=> (IsScalar(t[p + 1]) <=> WantsScalar(m, 1))
       /\ (IsScalar(t[p + 3]) = WantsScalar(m, 2)) <=> (IsScalar(t[p + 3]) <=> WantsScalar(m, 2))
  BY <1>2 DEF IsScalar, WantsScalar
<1>11. QED
  BY <1>7, <1>8, <1>9, <1>10

(***************************************************************************)
(* R-type: rd, rs1, rs2 are the first, second and third register; the      *)
(* three CHECK_REG calls of parse_rtype_arithemtic_instruction accept      *)
(* exactly when the grammar finds no mistyped register.                    *)
(***************************************************************************)
LEMMA RegsAgreeRtype ==
    ASSUME NEW t \in Seq(LexTokens), NEW p, NEW m,
           MnemonicAt(t, p, m), p <= Len(t), m.cls = "RTYPE",
           Len(OpsOf(t)) = 5,
           \A i \in 1..5 : OpsOf(t)[i].kind = SpecOperands["RTYPE"][i]
    PROVE  MistypedRegs(t) = {} <=>
           CheckRegs(t, IF m.cross THEN <<<<p + 1, TRUE>>, <<p + 3, FALSE>>, <<p + 5, FALSE>>>>
                        ELSE <<<<p + 1, m.scalar>>, <<p + 3, m.scalar>>, <<p + 5, m.scalar>>>>) = <<>>
<1> DEFINE ops == OpsOf(t)
<1>0. /\ p \in 1..Len(t)
      /\ Len(t) - p = 5
      /\ \A i \in 1..5 : OpsOf(t)[i] = t[p + i]
  <2>1. 5 \in Nat
    OBVIOUS
  <2>2. QED
    BY <2>1, LineOperands
<1>1. /\ p \in 1..Len(t)
      /\ \A i \in 1..5 : ops[i] = t[p + i]
  BY <1>0 DEF ops
<1>a. m = t[LabelLen(t) + 1] /\ m = t[p]
  BY DEF MnemonicAt
<1>2. m.scalar \in BOOLEAN /\ m.cross \in BOOLEAN
  <2>1. m \in LexTokens
    BY <1>1, <1>a
  <2>2. QED
    BY <2>1 DEF LexTokens
<1>3. SpecOperands["RTYPE"] = <<"Register", "Comma", "Register", "Comma", "Register">>
  BY DEF SpecOperands, Classes
<1>4. {i \in 1..Len(ops) : ops[i].kind = "Register"} = {1, 3, 5}
  BY <1>3 DEF ops
<1>5. /\ {j \in {1, 3, 5} : j <= 1} = {1}
      /\ {j \in {1, 3, 5} : j <= 3} = {1, 3}
      /\ {j \in {1, 3, 5} : j <= 5} = {1, 3, 5}
  OBVIOUS
<1>6. MistypedRegs(t) =
         {i \in {1, 3, 5} : IsScalar(ops[i]) # WantsScalar(m, Cardinality({j \in {1, 3, 5} : j <= i}))}
  BY <1>a, <1>4 DEF MistypedRegs, ops
<1>7. MistypedRegs(t) = {} <=>
         /\ IsScalar(t[p + 1]) = WantsScalar(m, 1)
         /\ IsScalar(t[p + 3]) = WantsScalar(m, 2)
         /\ IsScalar(t[p + 5]) = WantsScalar(m, 3)
  <2>1. WantsScalar(m, Cardinality({j \in {1, 3, 5} : j <= 1})) = WantsScalar(m, 1)
    BY <1>5, CardFacts
  <2>2. WantsScalar(m, Cardinality({j \in {1, 3, 5} : j <= 3})) = WantsScalar(m, 2)
    BY <1>5, CardFacts
  <2>3. WantsScalar(m, Cardinality({j \in {1, 3, 5} : j <= 5})) = WantsScalar(m, 3)
    BY <1>5, CardFacts
  <2>4. QED
    BY <1>1, <1>6, <2>1, <2>2, <2>3
<1>8. CheckRegs(t, IF m.cross THEN <<<<p + 1, TRUE>>, <<p + 3, FALSE>>, <<p + 5, FALSE>>>>
                   ELSE <<<<p + 1, m.scalar>>, <<p + 3, m.scalar>>, <<p + 5, m.scalar>>>>) = <<>>
      <=> /\ IsScalar(t[p + 1]) <=> m.cross \/ m.scalar
          /\ IsScalar(t[p + 3]) <=> ~m.cross /\ m.scalar
          /\ IsScalar(t[p + 5]) <=> ~m.cross /\ m.scalar
  BY <1>2, CheckRtype
<1>9. /\ WantsScalar(m, 1) <=> m.cross \/ m.scalar
      /\ WantsScalar(m, 2) <=> ~m.cross /\ m.scalar
      /\ WantsScalar(m, 3) <=> ~m.cross /\ m.scalar
  BY <1>2, WantsFacts
<1>10. /\ (IsScalar(t[p + 1]) = WantsScalar(m, 1)) <=> (IsScalar(t[p + 1]) <=> WantsScalar(m, 1))
       /\ (IsScalar(t[p + 3]) = WantsScalar(m, 2)) <=> (IsScalar(t[p + 3]) <=> WantsScalar(m, 2))
       /\ (IsScalar(t[p + 5]) = WantsScalar(m, 3)) <=> (IsScalar(t[p + 5]) <=> WantsScalar(m, 3))
  BY <1>2 DEF IsScalar, WantsScalar
<1>11. QED
  BY <1>7, <1>8, <1>9, <1>10

(***************************************************************************)
(* Loads and stores: rd (rs2) and rs1 are the registers at operands 1 and  *)
(* 5, both of the mnemonic's kind; the two CHECK_REG calls, in either      *)
(* order, accept exactly when the grammar finds no mistyped register.      *)
(***************************************************************************)
LEMMA RegsAgreeMem ==
    ASSUME NEW t \in Seq(LexTokens), NEW p, NEW m, NEW c \in {"LOAD", "STORE"},
           MnemonicAt(t, p, m), p <= Len(t), m.cls = c,
           Len(OpsOf(t)) = 6,
           \A i \in 1..6 : OpsOf(t)[i].kind = SpecOperands[c][i]
    PROVE  /\ MistypedRegs(t) = {} <=> CheckRegs(t, <<<<p + 1, m.scalar>>, <<p + 5, m.scalar>>>>) = <<>>
           /\ MistypedRegs(t) = {} <=> CheckRegs(t, <<<<p + 5, m.scalar>>, <<p + 1, m.scalar>>>>) = <<>>
<1> DEFINE ops == OpsOf(t)
<1>0. /\ p \in 1..Len(t)
      /\ Len(t) - p = 6
      /\ \A i \in 1..6 : OpsOf(t)[i] = t[p + i]
  <2>1. 6 \in Nat
    OBVIOUS
  <2>2. QED
    BY <2>1, LineOperands
<1>1. /\ p \in 1..Len(t)
      /\ \A i \in 1..6 : ops[i] = t[p + i]
  BY <1>0 DEF ops
<1>a. m = t[LabelLen(t) + 1] /\ m = t[p]
  BY DEF MnemonicAt
<1>2. m.scalar \in BOOLEAN /\ m.cross = FALSE
  <2>1. m \in LexTokens
    BY <1>1, <1>a
  <2>2. QED
    BY <2>1 DEF LexTokens
<1>3. SpecOperands[c] = <<"Register", "Comma", "Immediate", "Lparen", "Register", "Rparen">>
  BY DEF SpecOperands, Classes
<1>4. {i \in 1..Len(ops) : ops[i].kind = "Register"} = {1, 5}
  BY <1>3 DEF ops
<1>5. {j \in {1, 5} : j <= 1} = {1} /\ {j \in {1, 5} : j <= 5} = {1, 5}
  OBVIOUS
<1>6. MistypedRegs(t) =
         {i \in {1, 5} : IsScalar(ops[i]) # WantsScalar(m, Cardinality({j \in {1, 5} : j <= i}))}
  BY <1>a, <1>4 DEF MistypedRegs, ops
<1>7. MistypedRegs(t) = {} <=>
         IsScalar(t[p + 1]) = WantsScalar(m, 1) /\ IsScalar(t[p + 5]) = WantsScalar(m, 2)
  <2>1. WantsScalar(m, Cardinality({j \in {1, 5} : j <= 1})) = WantsScalar(m, 1)
    BY <1>5, CardFacts
  <2>2. WantsScalar(m, Cardinality({j \in {1, 5} : j <= 5})) = WantsScalar(m, 2)
    BY <1>5, CardFacts
  <2>3. ops[1] = t[p + 1] /\ ops[5] = t[p + 5]
    BY <1>1
  <2>4. QED
    BY <1>6, <2>1, <2>2, <2>3
<1>8. /\ CheckRegs(t, <<<<p + 1, m.scalar>>, <<p + 5, m.scalar>>>>) = <<>> <=>
           IsScalar(t[p + 1]) = m.scalar /\ IsScalar(t[p + 5]) = m.scalar
      /\ CheckRegs(t, <<<<p + 5, m.scalar>>, <<p + 1, m.scalar>>>>) = <<>> <=>
           IsScalar(t[p + 5]) = m.scalar /\ IsScalar(t[p + 1]) = m.scalar
  <2>1. \A x, y \in BOOLEAN : CheckRegs(t, <<<<p + 1, x>>, <<p + 5, y>>>>) = <<>> <=>
           IsScalar(t[p + 1]) = x /\ IsScalar(t[p + 5]) = y
    BY RegsOK2
  <2>2. \A x, y \in BOOLEAN : CheckRegs(t, <<<<p + 5, x>>, <<p + 1, y>>>>) = <<>> <=>
           IsScalar(t[p + 5]) = x /\ IsScalar(t[p + 1]) = y
    BY RegsOK2
  <2>3. QED
    BY <1>2, <2>1, <2>2, Zenon
<1>9. WantsScalar(m, 1) = m.scalar /\ WantsScalar(m, 2) = m.scalar
  BY <1>2 DEF WantsScalar
<1>10. QED
  BY <1>7, <1>8, <1>9

\* EXPECT_OR_RETURN and CHECK_REG both pass exactly when the instruction is returned.
LEMMA OperandsAccepts ==
    ASSUME NEW t, NEW p, NEW shape, NEW checks, NEW m, NEW a, NEW b, NEW c, NEW d
    PROVE  Operands(t, p, shape, checks, Instr(m, a, b, c, d)).line # Rejected <=>
              ShapeError(t, p, shape) = <<>> /\ CheckRegs(t, checks) = <<>>
<1>1. Instr(m, a, b, c, d) # Rejected
  BY DEF Instr, Rejected
<1>2. QED
  BY <1>1 DEF Operands, Accept, Reject

\* The operands of the grammar start right after the parser's mnemonic.
LEMMA OpsOfAt ==
    ASSUME NEW t \in Seq(LexTokens), NEW p, NEW m, MnemonicAt(t, p, m), p <= Len(t)
    PROVE  /\ OpsOf(t) = SubSeq(t, p + 1, Len(t))
           /\ p \in 1..Len(t)
           /\ m = t[p]
<1>1. LabelLen(t) \in {0, 1} /\ p = LabelLen(t) + 1 /\ m = t[p]
  BY DEF LabelLen, MnemonicAt
<1>2. LabelLen(t) + 2 = p + 1
  BY <1>1
<1>3. QED
  BY <1>1, <1>2 DEF OpsOf

(***************************************************************************)
(* parse_itype_arithemtic_instruction, then parse_line's check that the    *)
(* line ends after the five operands, accept exactly the I-type lines of   *)
(* the grammar.                                                            *)
(***************************************************************************)
LEMMA ItypeAgree ==
    ASSUME NEW t \in Seq(LexTokens), NEW p, NEW m,
           MnemonicAt(t, p, m), p <= Len(t), m.cls = "ITYPE"
    PROVE  (ParseInstruction(t, p).line # Rejected /\ p + OperandCount[m.cls] >= Len(t)) <=>
           /\ Len(OpsOf(t)) = Len(SpecOperands[m.cls])
           /\ \A i \in 1..Len(OpsOf(t)) : OpsOf(t)[i].kind = SpecOperands[m.cls][i]
           /\ MistypedRegs(t) = {}
<1> DEFINE shape == <<"Register", "Comma", "Register", "Comma", "Immediate">>
           chk == IF m.cross THEN <<<<p + 1, TRUE>>, <<p + 3, FALSE>>>>
                  ELSE <<<<p + 1, m.scalar>>, <<p + 3, m.scalar>>>>
<1>1. /\ OpsOf(t) = SubSeq(t, p + 1, Len(t))
      /\ p \in 1..Len(t)
      /\ m = t[p]
  BY OpsOfAt
<1>2. ParseInstruction(t, p) =
         Operands(t, p, shape, chk, Instr(m, t[p + 1], t[p + 3], Tok("none"), t[p + 5].value))
  BY <1>1 DEF ParseInstruction, ParseItype, shape, chk
<1>3. ParseInstruction(t, p).line # Rejected <=>
         ShapeError(t, p, shape) = <<>> /\ CheckRegs(t, chk) = <<>>
  BY <1>2, OperandsAccepts
<1>4. SpecOperands["ITYPE"] = shape /\ OperandCount["ITYPE"] = 5 /\ Len(shape) = 5
  BY DEF SpecOperands, OperandCount, Classes, shape
<1>5. (ShapeError(t, p, shape) = <<>> /\ p + 5 >= Len(t)) <=>
         /\ Len(OpsOf(t)) = 5
         /\ \A i \in 1..5 : OpsOf(t)[i].kind = shape[i]
  <2>1. shape \in Seq(OperandKinds)
    BY DEF shape, OperandKinds
  <2>2. (ShapeError(t, p, shape) = <<>> /\ p + Len(shape) >= Len(t)) <=>
           /\ Len(SubSeq(t, p + 1, Len(t))) = Len(shape)
           /\ \A i \in 1..Len(shape) : SubSeq(t, p + 1, Len(t))[i].kind = shape[i]
    BY <1>1, <2>1, ShapeAgree
  <2>3. QED
    BY <1>1, <1>4, <2>2
<1>6. ASSUME Len(OpsOf(t)) = 5, \A i \in 1..5 : OpsOf(t)[i].kind = SpecOperands["ITYPE"][i]
      PROVE  MistypedRegs(t) = {} <=> CheckRegs(t, chk) = <<>>
  BY <1>6, RegsAgreeItype DEF chk
<1>7. QED
  BY <1>3, <1>4, <1>5, <1>6

\* The same for parse_rtype_arithemtic_instruction and its five operands.
LEMMA RtypeAgree ==
    ASSUME NEW t \in Seq(LexTokens), NEW p, NEW m,
           MnemonicAt(t, p, m), p <= Len(t), m.cls = "RTYPE"
    PROVE  (ParseInstruction(t, p).line # Rejected /\ p + OperandCount[m.cls] >= Len(t)) <=>
           /\ Len(OpsOf(t)) = Len(SpecOperands[m.cls])
           /\ \A i \in 1..Len(OpsOf(t)) : OpsOf(t)[i].kind = SpecOperands[m.cls][i]
           /\ MistypedRegs(t) = {}
<1> DEFINE shape == <<"Register", "Comma", "Register", "Comma", "Register">>
           chk == IF m.cross THEN <<<<p + 1, TRUE>>, <<p + 3, FALSE>>, <<p + 5, FALSE>>>>
                  ELSE <<<<p + 1, m.scalar>>, <<p + 3, m.scalar>>, <<p + 5, m.scalar>>>>
<1>1. /\ OpsOf(t) = SubSeq(t, p + 1, Len(t))
      /\ p \in 1..Len(t)
      /\ m = t[p]
  BY OpsOfAt
<1>2. ParseInstruction(t, p) = Operands(t, p, shape, chk, Instr(m, t[p + 1], t[p + 3], t[p + 5], 0))
  BY <1>1 DEF ParseInstruction, ParseRtype, shape, chk
<1>3. ParseInstruction(t, p).line # Rejected <=>
         ShapeError(t, p, shape) = <<>> /\ CheckRegs(t, chk) = <<>>
  BY <1>2, OperandsAccepts
<1>4. SpecOperands["RTYPE"] = shape /\ OperandCount["RTYPE"] = 5 /\ Len(shape) = 5
  BY DEF SpecOperands, OperandCount, Classes, shape
<1>5. (ShapeError(t, p, shape) = <<>> /\ p + 5 >= Len(t)) <=>
         /\ Len(OpsOf(t)) = 5
         /\ \A i \in 1..5 : OpsOf(t)[i].kind = shape[i]
  <2>1. shape \in Seq(OperandKinds)
    BY DEF shape, OperandKinds
  <2>2. (ShapeError(t, p, shape) = <<>> /\ p + Len(shape) >= Len(t)) <=>
           /\ Len(SubSeq(t, p + 1, Len(t))) = Len(shape)
           /\ \A i \in 1..Len(shape) : SubSeq(t, p + 1, Len(t))[i].kind = shape[i]
    BY <1>1, <2>1, ShapeAgree
  <2>3. QED
    BY <1>1, <1>4, <2>2
<1>6. ASSUME Len(OpsOf(t)) = 5, \A i \in 1..5 : OpsOf(t)[i].kind = SpecOperands["RTYPE"][i]
      PROVE  MistypedRegs(t) = {} <=> CheckRegs(t, chk) = <<>>
  BY <1>6, RegsAgreeRtype DEF chk
<1>7. QED
  BY <1>3, <1>4, <1>5, <1>6

\* The same for parse_load_instruction and parse_store_instruction.
LEMMA MemAgree ==
    ASSUME NEW t \in Seq(LexTokens), NEW p, NEW m,
           MnemonicAt(t, p, m), p <= Len(t), m.cls \in {"LOAD", "STORE"}
    PROVE  (ParseInstruction(t, p).line # Rejected /\ p + OperandCount[m.cls] >= Len(t)) <=>
           /\ Len(OpsOf(t)) = Len(SpecOperands[m.cls])
           /\ \A i \in 1..Len(OpsOf(t)) : OpsOf(t)[i].kind = SpecOperands[m.cls][i]
           /\ MistypedRegs(t) = {}
<1> DEFINE shape == <<"Register", "Comma", "Immediate", "Lparen", "Register", "Rparen">>
           chk == IF m.cls = "LOAD" THEN <<<<p + 1, m.scalar>>, <<p + 5, m.scalar>>>>
                  ELSE <<<<p + 5, m.scalar>>, <<p + 1, m.scalar>>>>
<1>1. /\ OpsOf(t) = SubSeq(t, p + 1, Len(t))
      /\ p \in 1..Len(t)
      /\ m = t[p]
  BY OpsOfAt
<1>2. \E a, b, c, d : ParseInstruction(t, p) = Operands(t, p, shape, chk, Instr(m, a, b, c, d))
  <2>1. CASE m.cls = "LOAD"
    BY <1>1, <2>1 DEF ParseInstruction, ParseLoad, shape, chk
  <2>2. CASE m.cls = "STORE"
    BY <1>1, <2>2 DEF ParseInstruction, ParseStore, shape, chk
  <2>3. QED
    BY <2>1, <2>2
<1>3. ParseInstruction(t, p).line # Rejected <=>
         ShapeError(t, p, shape) = <<>> /\ CheckRegs(t, chk) = <<>>
  BY <1>2, OperandsAccepts
<1>4. SpecOperands[m.cls] = shape /\ OperandCount[m.cls] = 6 /\ Len(shape) = 6
  BY DEF SpecOperands, OperandCount, Classes, shape
<1>5. (ShapeError(t, p, shape) = <<>> /\ p + 6 >= Len(t)) <=>
         /\ Len(OpsOf(t)) = 6
         /\ \A i \in 1..6 : OpsOf(t)[i].kind = shape[i]
  <2>1. shape \in Seq(OperandKinds)
    BY DEF shape, OperandKinds
  <2>2. (ShapeError(t, p, shape) = <<>> /\ p + Len(shape) >= Len(t)) <=>
           /\ Len(SubSeq(t, p + 1, Len(t))) = Len(shape)
           /\ \A i \in 1..Len(shape) : SubSeq(t, p + 1, Len(t))[i].kind = shape[i]
    BY <1>1, <2>1, ShapeAgree
  <2>3. QED
    BY <1>1, <1>4, <2>2
<1>6. ASSUME Len(OpsOf(t)) = 6, \A i \in 1..6 : OpsOf(t)[i].kind = SpecOperands[m.cls][i]
      PROVE  MistypedRegs(t) = {} <=> CheckRegs(t, chk) = <<>>
  <2>1. /\ MistypedRegs(t) = {} <=> CheckRegs(t, <<<<p + 1, m.scalar>>, <<p + 5, m.scalar>>>>) = <<>>
        /\ MistypedRegs(t) = {} <=> CheckRegs(t, <<<<p + 5, m.scalar>>, <<p + 1, m.scalar>>>>) = <<>>
    BY <1>6, RegsAgreeMem
  <2>2. QED
    BY <2>1 DEF chk
<1>7. QED
  BY <1>3, <1>4, <1>5, <1>6

\* parse_instruction accepts HALT outright; the line must end there.
LEMMA HaltAgree ==
    ASSUME NEW t \in Seq(LexTokens), NEW p, NEW m,
           MnemonicAt(t, p, m), p <= Len(t), m.cls = "HALT"
    PROVE  (ParseInstruction(t, p).line # Rejected /\ p + OperandCount[m.cls] >= Len(t)) <=>
           /\ Len(OpsOf(t)) = Len(SpecOperands[m.cls])
           /\ \A i \in 1..Len(OpsOf(t)) : OpsOf(t)[i].kind = SpecOperands[m.cls][i]
           /\ MistypedRegs(t) = {}
<1>1. /\ OpsOf(t) = SubSeq(t, p + 1, Len(t))
      /\ p \in 1..Len(t)
      /\ m = t[p]
  BY OpsOfAt
<1>2. ParseInstruction(t, p).line # Rejected
  <2>1. Instr(t[p], Tok("none"), Tok("none"), Tok("none"), 0) # Rejected
    BY DEF Instr, Rejected
  <2>2. QED
    BY <1>1, <2>1 DEF ParseInstruction, Accept
<1>3. SpecOperands["HALT"] = <<>> /\ OperandCount["HALT"] = 0
  BY DEF SpecOperands, OperandCount, Classes
<1>4. Len(OpsOf(t)) = Len(t) - p
  BY <1>1, OperandsOfLine
<1>5. ASSUME Len(OpsOf(t)) = 0 PROVE MistypedRegs(t) = {}
  BY <1>5 DEF MistypedRegs
<1>6. QED
  BY <1>1, <1>2, <1>3, <1>4, <1>5

\* Arithmetic on a line's length, kept apart from the sequence it measures.
LEMMA NatCases ==
    ASSUME NEW n \in Nat
    PROVE  /\ n >= 1 /\ n # 1 => 2 <= n
           /\ n > 2 => n # 2
           /\ n >= 2 => n = 2 \/ n > 2
OBVIOUS

\* An immediate token carries an integer.
LEMMA LexValue ==
    ASSUME NEW t \in Seq(LexTokens), NEW i \in 1..Len(t)
    PROVE  t[i].value \in Int
<1>1. t[i] \in LexTokens
  OBVIOUS
<1>2. \A x \in LexTokens : x.value \in Int
  <2>1. SUFFICES ASSUME NEW x \in LexTokens PROVE x.value \in Int
    OBVIOUS
  <2>2. x.value = 0 \/ x.value \in Int
    BY DEF LexTokens
  <2>3. QED
    BY <2>2
<1>3. QED
  BY <1>1, <1>2

\* The grammar's instruction clause, for a mnemonic of each class.
LEMMA ClassAgree ==
    ASSUME NEW t \in Seq(LexTokens), NEW p, NEW m,
           MnemonicAt(t, p, m), p <= Len(t), m.cls \in Classes
    PROVE  (ParseInstruction(t, p).line # Rejected /\ p + OperandCount[m.cls] >= Len(t)) <=>
           /\ Len(OpsOf(t)) = Len(SpecOperands[m.cls])
           /\ \A i \in 1..Len(OpsOf(t)) : OpsOf(t)[i].kind = SpecOperands[m.cls][i]
           /\ MistypedRegs(t) = {}
<1>1. CASE m.cls = "HALT"
  BY <1>1, HaltAgree
<1>2. CASE m.cls = "ITYPE"
  BY <1>2, ItypeAgree
<1>3. CASE m.cls = "RTYPE"
  BY <1>3, RtypeAgree
<1>4. CASE m.cls \in {"LOAD", "STORE"}
  BY <1>4, MemAgree
<1>5. QED
  BY <1>1, <1>2, <1>3, <1>4 DEF Classes

(***************************************************************************)
(* parse_line returns a Line exactly for the lines of the grammar: the     *)
(* directive with a positive count, the lone label, and the instruction    *)
(* of a known class whose operands have the shape and register kinds of    *)
(* spec Sec. 4.3 and nothing after them.                                   *)
(***************************************************************************)
LEMMA LineAgree ==
    ASSUME NEW t \in Seq(LexTokens)
    PROVE  ParseLine(t).line # Rejected <=> SpecLine(t)
<1> DEFINE lab == Len(t) > 0 /\ t[1].kind = "Label"
           p == IF lab THEN 2 ELSE 1
           r == ParseInstruction(t, p)
<1>0. Len(t) \in Nat
  OBVIOUS
<1>1. CASE t = <<>>
  <2>1. ParseLine(t).line = Rejected
    BY <1>1 DEF ParseLine, Reject
  <2>2. ~SpecLine(t)
    BY <1>1 DEF SpecLine, InstructionShape, LabelLen, Tok
  <2>3. QED
    BY <2>1, <2>2
<1>2. CASE t # <<>> /\ t[1].kind \in {"Blocks", "Warps"}
  <2>1. ParseLine(t) = ParseDirective(t)
    BY <1>2 DEF ParseLine
  <2>2. t[1] \in LexTokens /\ Len(t) >= 1
    BY <1>2
  <2>3. [Rejected EXCEPT !.kind = t[1].kind, !.imm = t[2].value] # Rejected
    <3>1. [Rejected EXCEPT !.kind = t[1].kind, !.imm = t[2].value].kind = t[1].kind
      BY Zenon DEF Rejected, Tok
    <3>2. Rejected.kind = "none"
      BY DEF Rejected
    <3>3. QED
      BY <1>2, <3>1, <3>2
  <2>4. Len(t) >= 2 => t[2].value \in Int
    BY LexValue
  <2>5. ParseDirective(t).line # Rejected <=>
           Len(t) = 2 /\ t[2].kind = "Immediate" /\ t[2].value >= 1
    <3> DEFINE D == [Rejected EXCEPT !.kind = t[1].kind, !.imm = t[2].value]
    <3>1. ParseDirective(t) =
             IF Len(t) < 2 THEN Reject(<<Err(0, "Eos")>>)
             ELSE IF t[2].kind # "Immediate" THEN Reject(<<Err(2, "Unexpected")>>)
             ELSE IF t[2].value < 1 THEN Reject(<<Err(2, "DirectiveValue")>>)
             ELSE IF Len(t) > 2 THEN Reject(<<Err(3, "Unexpected")>>)
             ELSE Accept(D)
      BY Zenon DEF ParseDirective, D
    <3>2. D # Rejected
      BY <2>3 DEF D
    <3>3. CASE Len(t) < 2
      BY <3>1, <3>3 DEF Reject
    <3>4. CASE Len(t) >= 2 /\ t[2].kind # "Immediate"
      BY <3>1, <3>4 DEF Reject
    <3>5. CASE Len(t) >= 2 /\ t[2].kind = "Immediate" /\ t[2].value < 1
      BY <2>4, <3>1, <3>5 DEF Reject
    <3>6. CASE Len(t) > 2 /\ t[2].kind = "Immediate" /\ ~(t[2].value < 1)
      <4>1. Len(t) # 2
        BY <3>6, NatCases, Zenon
      <4>2. QED
        BY <2>4, <3>1, <3>6, <4>1 DEF Reject
    <3>7. CASE Len(t) = 2 /\ t[2].kind = "Immediate" /\ ~(t[2].value < 1)
      BY <2>4, <3>1, <3>2, <3>7 DEF Accept
    <3>8. Len(t) >= 2 => Len(t) = 2 \/ Len(t) > 2
      BY <1>0, NatCases, Zenon
    <3>9. QED
      BY <3>3, <3>4, <3>5, <3>6, <3>7, <3>8
  <2>6. t # <<Tok("Label")>>
    BY <1>2 DEF Tok
  <2>7. ~InstructionShape(t)
    BY <1>2 DEF InstructionShape, LabelLen
  <2>8. QED
    BY <1>2, <2>1, <2>5, <2>6, <2>7 DEF SpecLine
<1>3. CASE t # <<>> /\ t[1].kind \notin {"Blocks", "Warps"} /\ lab /\ Len(t) = 1
  <2>1. ParseLine(t).line # Rejected
    <3>1. [Rejected EXCEPT !.kind = "JustLabel", !.label = TRUE].kind = "JustLabel"
      BY Zenon DEF Rejected, Tok
    <3>2. QED
      BY <1>3, <3>1 DEF ParseLine, Accept, Rejected
  <2>2. t[1] = Tok("Label")
    <3>1. t[1] \in LexTokens
      BY <1>3
    <3>2. QED
      BY <1>3, <3>1 DEF LexTokens, Tok
  <2>3. t = <<Tok("Label")>>
    BY <1>3, <2>2
  <2>4. QED
    BY <2>1, <2>3 DEF SpecLine
<1>4. CASE t # <<>> /\ t[1].kind \notin {"Blocks", "Warps"} /\ ~(lab /\ Len(t) = 1)
  <2>1. /\ p = LabelLen(t) + 1
        /\ p <= Len(t)
        /\ MnemonicAt(t, p, t[p])
    <3>1. Len(t) >= 1
      <4>1. Len(t) # 0
        BY <1>4, EmptySeq
      <4>2. QED
        BY <4>1
    <3>2. p = LabelLen(t) + 1
      BY DEF LabelLen, p, lab
    <3>3. p <= Len(t)
      <4>1. CASE lab
        <5>1. Len(t) # 1
          BY <1>4, <4>1
        <5>2. p = 2
          BY <4>1 DEF p
        <5>3. 2 <= Len(t)
          BY <1>0, <3>1, <5>1, NatCases, Zenon
        <5>4. QED
          BY <5>2, <5>3
      <4>2. CASE ~lab
        <5>1. p = 1
          BY <4>2 DEF p
        <5>2. QED
          BY <3>1, <5>1
      <4>3. QED
        BY <4>1, <4>2
    <3>4. MnemonicAt(t, p, t[p])
      BY <3>2 DEF MnemonicAt
    <3>5. QED
      BY <3>2, <3>3, <3>4
  <2>2. SpecLine(t) <=> InstructionShape(t) /\ MistypedRegs(t) = {}
    <3>1. ~(Len(t) = 2 /\ t[1].kind \in {"Blocks", "Warps"})
      BY <1>4
    <3>2. t # <<Tok("Label")>>
      BY <1>4 DEF Tok
    <3>3. QED
      BY <3>1, <3>2 DEF SpecLine
  <2>3. CASE t[p].kind # "Mnemonic"
    <3>1. ParseLine(t).line = Rejected
      BY <1>4, <2>3 DEF ParseLine, Reject
    <3>2. ~InstructionShape(t)
      BY <2>1, <2>3 DEF InstructionShape
    <3>3. QED
      BY <2>2, <3>1, <3>2
  <2>4. CASE t[p].kind = "Mnemonic"
    <3>1. ParseLine(t) = IF r.line = Rejected THEN r
                         ELSE IF p + OperandCount[t[p].cls] < Len(t) THEN Reject(<<Err(p, "Unexpected")>>)
                         ELSE Accept([r.line EXCEPT !.label = lab])
      BY <1>4, <2>4 DEF ParseLine
    <3>2. r.line # Rejected => [r.line EXCEPT !.label = lab] # Rejected
      <4>1. r.line # Rejected => IsInstr(r.line)
        BY InstructionResult
      <4>2. r.line # Rejected => [r.line EXCEPT !.label = lab].kind = "Instruction"
        BY <4>1, LabelExcept
      <4>3. QED
        BY <4>2 DEF Rejected
    <3>3. CASE t[p].cls \in Classes
      <4>1. OperandCount[t[p].cls] \in Nat
        BY <3>3 DEF OperandCount
      <4>2. ParseLine(t).line # Rejected <=>
               r.line # Rejected /\ p + OperandCount[t[p].cls] >= Len(t)
        BY <2>1, <3>1, <3>2, <4>1 DEF Reject, Accept
      <4>3. (r.line # Rejected /\ p + OperandCount[t[p].cls] >= Len(t)) <=>
               /\ Len(OpsOf(t)) = Len(SpecOperands[t[p].cls])
               /\ \A i \in 1..Len(OpsOf(t)) : OpsOf(t)[i].kind = SpecOperands[t[p].cls][i]
               /\ MistypedRegs(t) = {}
        BY <2>1, <3>3, ClassAgree
      <4>4. InstructionShape(t) <=>
               /\ Len(OpsOf(t)) = Len(SpecOperands[t[p].cls])
               /\ \A i \in 1..Len(OpsOf(t)) : OpsOf(t)[i].kind = SpecOperands[t[p].cls][i]
        <5>1. t[LabelLen(t) + 1] = t[p] /\ Len(t) > LabelLen(t)
          BY <2>1 DEF LabelLen
        <5>2. QED
          BY <2>4, <3>3, <5>1 DEF InstructionShape
      <4>5. QED
        BY <2>2, <4>2, <4>3, <4>4
    <3>4. CASE t[p].cls \notin Classes
      <4>1. r.line = Rejected
        BY <3>4 DEF ParseInstruction, Classes, Reject
      <4>2. ~InstructionShape(t)
        BY <2>1, <3>4 DEF InstructionShape
      <4>3. QED
        BY <2>2, <3>1, <4>1, <4>2
    <3>5. QED
      BY <3>3, <3>4
  <2>5. QED
    BY <2>3, <2>4
<1>5. QED
  BY <1>1, <1>2, <1>3, <1>4

-----------------------------------------------------------------------------
\* The line handed to parse_line is one the lexer produced, and the result,
\* once there, is parse_line's for it.
GrammarInv == toks \in Seq(LexTokens) /\ ResultInv

LEMMA GrammarInvInit == Init => GrammarInv
BY InputsAssumption, ResultInvInit DEF Init, GrammarInv

LEMMA GrammarInvNext == GrammarInv /\ [Next]_vars => GrammarInv'
<1>1. GrammarInv /\ [Next]_vars => toks' = toks
  BY DEF Next, ParseLineCall, vars
<1>2. QED
  BY <1>1, ResultInvNext DEF GrammarInv

(***************************************************************************)
(* ParseMatchesGrammar of run parser, for every line the lexer can         *)
(* produce: parse_line returns a Line (a directive, a lone label or an     *)
(* instruction) exactly when the line is in the grammar of spec Sec. 4.3,  *)
(* register kinds included, and rejects every other line.                  *)
(***************************************************************************)
THEOREM ParseMatchesGrammarHolds == Spec => []ParseMatchesGrammar
<1>1. GrammarInv => ParseMatchesGrammar
  <2>1. SUFFICES ASSUME GrammarInv, result # Pending
                 PROVE  (result.line # Rejected) <=> SpecLine(toks)
    BY DEF ParseMatchesGrammar
  <2>2. result = ParseLine(toks)
    BY <2>1 DEF GrammarInv, ResultInv
  <2>3. toks \in Seq(LexTokens)
    BY <2>1 DEF GrammarInv
  <2>4. QED
    BY <2>2, <2>3, LineAgree
<1>2. QED
  BY <1>1, GrammarInvInit, GrammarInvNext, PTL DEF Spec
-----------------------------------------------------------------------------
(***************************************************************************)
(* The type of parse_line's result: the Line kinds it builds and errors    *)
(* whose columns lie in the line (0 being the end-of-stream column).       *)
(***************************************************************************)
ErrRec(n) == [col : 0..n, what : ErrorKinds]

\* A non-empty set of indices has a least one: the "first" bad operand exists.
LEMMA LeastIndex ==
    ASSUME NEW S \in SUBSET Nat, S # {}
    PROVE  \E j \in S : \A k \in S : j <= k
<1>1. IsWellFoundedOn(OpToRel(<, Nat), Nat)
  BY NatLessThanWellFounded
<1>2. PICK x \in S : \A y \in S : ~(<<y, x>> \in OpToRel(<, Nat))
  BY <1>1, WFMin
<1>3. ASSUME NEW y \in S PROVE x <= y
  <2>1. ~(<<y, x>> \in OpToRel(<, Nat)) /\ <<y, x>> \in Nat \X Nat
    BY <1>2
  <2>2. ~(y < x)
    BY <2>1, Zenon DEF OpToRel
  <2>3. QED
    BY <2>2
<1>4. QED
  BY <1>3

\* EXPECT_OR_RETURN reports at most one error, at column 0 or within the line.
LEMMA ShapeErrorType ==
    ASSUME NEW t \in Seq(LexTokens), NEW p \in Nat, NEW shape \in Seq(OperandKinds)
    PROVE  ShapeError(t, p, shape) \in Seq(ErrRec(Len(t)))
<1> DEFINE bad == {j \in 1..Len(shape) : p + j > Len(t) \/ t[p + j].kind # shape[j]}
           j == CHOOSE j \in bad : \A k \in bad : j <= k
<1>1. CASE bad = {}
  BY <1>1 DEF ShapeError
<1>2. CASE bad # {}
  <2>0. bad \in SUBSET Nat
    OBVIOUS
  <2>1. \E i \in bad : \A k \in bad : i <= k
    BY <1>2, <2>0, LeastIndex
  <2>2. j \in 1..Len(shape)
    BY <2>1
  <2>3. p + j > Len(t) => <<Err(0, "Eos")>> \in Seq(ErrRec(Len(t)))
    BY DEF Err, ErrRec, ErrorKinds
  <2>4. ~(p + j > Len(t)) => <<Err(p + j, "Unexpected")>> \in Seq(ErrRec(Len(t)))
    BY <2>2 DEF Err, ErrRec, ErrorKinds
  <2>5. QED
    BY <1>2, <2>3, <2>4 DEF ShapeError
<1>3. QED
  BY <1>1, <1>2

\* CHECK_REG reports at most one error, at the column of one of the checked registers.
LEMMA CheckRegsType ==
    ASSUME NEW t, NEW n \in Nat, NEW checks, Len(checks) \in Nat,
           \A i \in 1..Len(checks) : checks[i][1] \in 0..n
    PROVE  CheckRegs(t, checks) \in Seq(ErrRec(n))
<1> DEFINE bad == {i \in 1..Len(checks) : IsScalar(t[checks[i][1]]) # checks[i][2]}
           i == CHOOSE i \in bad : \A k \in bad : i <= k
<1>1. CASE bad = {}
  BY <1>1 DEF CheckRegs
<1>2. CASE bad # {}
  <2>0. bad \in SUBSET Nat
    OBVIOUS
  <2>1. \E x \in bad : \A k \in bad : x <= k
    BY <1>2, <2>0, LeastIndex
  <2>2. i \in 1..Len(checks)
    BY <2>1
  <2>3. <<Err(checks[i][1], "RegType")>> \in Seq(ErrRec(n))
    BY <2>2 DEF Err, ErrRec, ErrorKinds
  <2>4. QED
    BY <1>2, <2>3 DEF CheckRegs
<1>3. QED
  BY <1>1, <1>2

\* One instruction's operands: a Line of kind Instruction, or errors within the line.
LEMMA OperandsType ==
    ASSUME NEW t \in Seq(LexTokens), NEW p \in Nat, NEW shape \in Seq(OperandKinds),
           NEW checks, Len(checks) \in Nat,
           \A i \in 1..Len(checks) : checks[i][1] \in (p + 1)..(p + Len(shape)),
           NEW m, NEW a, NEW b, NEW c, NEW d
    PROVE  LET r == Operands(t, p, shape, checks, Instr(m, a, b, c, d))
           IN  r.line.kind \in {"none", "Instruction"} /\ r.errors \in Seq(ErrRec(Len(t)))
<1>1. CASE ShapeError(t, p, shape) # <<>>
  BY <1>1, ShapeErrorType DEF Operands, Reject, Rejected
<1>2. CASE ShapeError(t, p, shape) = <<>>
  <2>1. \A j \in 1..Len(shape) : p + j <= Len(t)
    BY <1>2, ShapeOK
  <2>2. \A i \in 1..Len(checks) : checks[i][1] \in 0..Len(t)
    BY <2>1
  <2>3. CheckRegs(t, checks) \in Seq(ErrRec(Len(t)))
    BY <2>2, CheckRegsType
  <2>4. Instr(m, a, b, c, d).kind = "Instruction"
    BY DEF Instr
  <2>5. QED
    BY <1>2, <2>3, <2>4 DEF Operands, Reject, Accept, Rejected
<1>3. QED
  BY <1>1, <1>2

\* A lexed mnemonic's flags are Booleans.
LEMMA LexFlags ==
    ASSUME NEW t \in Seq(LexTokens), NEW i \in 1..Len(t)
    PROVE  t[i].scalar \in BOOLEAN /\ t[i].cross \in BOOLEAN
<1>1. t[i] \in LexTokens
  OBVIOUS
<1>2. \A x \in LexTokens : x.scalar \in BOOLEAN /\ x.cross \in BOOLEAN
  BY DEF LexTokens
<1>3. QED
  BY <1>1, <1>2

\* parse_instruction: an Instruction Line, or errors within the line.
LEMMA InstructionType ==
    ASSUME NEW t \in Seq(LexTokens), NEW p \in 1..Len(t)
    PROVE  LET r == ParseInstruction(t, p)
           IN  r.line.kind \in {"none", "Instruction"} /\ r.errors \in Seq(ErrRec(Len(t)))
<1> DEFINE m == t[p]
           sh5I == <<"Register", "Comma", "Register", "Comma", "Immediate">>
           sh5R == <<"Register", "Comma", "Register", "Comma", "Register">>
           sh6 == <<"Register", "Comma", "Immediate", "Lparen", "Register", "Rparen">>
           I == IF m.cross THEN <<<<p + 1, TRUE>>, <<p + 3, FALSE>>>>
                ELSE <<<<p + 1, m.scalar>>, <<p + 3, m.scalar>>>>
           R == IF m.cross THEN <<<<p + 1, TRUE>>, <<p + 3, FALSE>>, <<p + 5, FALSE>>>>
                ELSE <<<<p + 1, m.scalar>>, <<p + 3, m.scalar>>, <<p + 5, m.scalar>>>>
           L == <<<<p + 1, m.scalar>>, <<p + 5, m.scalar>>>>
           S == <<<<p + 5, m.scalar>>, <<p + 1, m.scalar>>>>
<1>a. p \in Nat
  OBVIOUS
<1>0. /\ sh5I \in Seq(OperandKinds) /\ Len(sh5I) = 5
      /\ sh5R \in Seq(OperandKinds) /\ Len(sh5R) = 5
      /\ sh6 \in Seq(OperandKinds) /\ Len(sh6) = 6
  BY DEF OperandKinds
<1>1. /\ Len(I) \in Nat /\ \A i \in 1..Len(I) : I[i][1] \in (p + 1)..(p + Len(sh5I))
      /\ Len(R) \in Nat /\ \A i \in 1..Len(R) : R[i][1] \in (p + 1)..(p + Len(sh5R))
      /\ Len(L) \in Nat /\ \A i \in 1..Len(L) : L[i][1] \in (p + 1)..(p + Len(sh6))
      /\ Len(S) \in Nat /\ \A i \in 1..Len(S) : S[i][1] \in (p + 1)..(p + Len(sh6))
  <2>1. CASE m.cross
    BY <1>0, <2>1
  <2>2. CASE ~m.cross
    BY <1>0, <2>2
  <2>3. QED
    BY <2>1, <2>2
<1>2. CASE m.cls = "HALT"
  <2>1. Instr(t[p], Tok("none"), Tok("none"), Tok("none"), 0).kind = "Instruction"
    BY DEF Instr
  <2>2. QED
    BY <1>2, <2>1 DEF ParseInstruction, Accept
<1>3. CASE m.cls = "ITYPE"
  <2>1. ParseInstruction(t, p) =
           Operands(t, p, sh5I, I, Instr(m, t[p + 1], t[p + 3], Tok("none"), t[p + 5].value))
    BY <1>3 DEF ParseInstruction, ParseItype
  <2>2. LET r == Operands(t, p, sh5I, I, Instr(m, t[p + 1], t[p + 3], Tok("none"), t[p + 5].value))
        IN  r.line.kind \in {"none", "Instruction"} /\ r.errors \in Seq(ErrRec(Len(t)))
    BY <1>a, <1>0, <1>1, OperandsType, Zenon
  <2>3. QED
    BY <2>1, <2>2
<1>4. CASE m.cls = "RTYPE"
  <2>1. ParseInstruction(t, p) = Operands(t, p, sh5R, R, Instr(m, t[p + 1], t[p + 3], t[p + 5], 0))
    BY <1>4 DEF ParseInstruction, ParseRtype
  <2>2. LET r == Operands(t, p, sh5R, R, Instr(m, t[p + 1], t[p + 3], t[p + 5], 0))
        IN  r.line.kind \in {"none", "Instruction"} /\ r.errors \in Seq(ErrRec(Len(t)))
    BY <1>a, <1>0, <1>1, OperandsType, Zenon
  <2>3. QED
    BY <2>1, <2>2
<1>5. CASE m.cls = "LOAD"
  <2>1. ParseInstruction(t, p) =
           Operands(t, p, sh6, L, Instr(m, t[p + 1], t[p + 5], Tok("none"), t[p + 3].value))
    BY <1>5 DEF ParseInstruction, ParseLoad
  <2>2. LET r == Operands(t, p, sh6, L, Instr(m, t[p + 1], t[p + 5], Tok("none"), t[p + 3].value))
        IN  r.line.kind \in {"none", "Instruction"} /\ r.errors \in Seq(ErrRec(Len(t)))
    BY <1>a, <1>0, <1>1, OperandsType, Zenon
  <2>3. QED
    BY <2>1, <2>2
<1>6. CASE m.cls = "STORE"
  <2>1. ParseInstruction(t, p) =
           Operands(t, p, sh6, S, Instr(m, Tok("none"), t[p + 5], t[p + 1], t[p + 3].value))
    BY <1>6 DEF ParseInstruction, ParseStore
  <2>2. LET r == Operands(t, p, sh6, S, Instr(m, Tok("none"), t[p + 5], t[p + 1], t[p + 3].value))
        IN  r.line.kind \in {"none", "Instruction"} /\ r.errors \in Seq(ErrRec(Len(t)))
    BY <1>a, <1>0, <1>1, OperandsType, Zenon
  <2>3. QED
    BY <2>1, <2>2
<1>7. CASE m.cls \notin Classes
  <2>1. <<Err(p, "UnknownMnemonic")>> \in Seq(ErrRec(Len(t)))
    BY DEF Err, ErrRec, ErrorKinds
  <2>2. QED
    BY <1>7, <2>1 DEF ParseInstruction, Classes, Reject, Rejected
<1>8. QED
  BY <1>2, <1>3, <1>4, <1>5, <1>6, <1>7 DEF Classes

\* The kinds of Line parse_line builds.
LineKinds == {"none", "JustLabel", "Blocks", "Warps", "Instruction"}

\* parse_directive: a Blocks or Warps Line, or one error within the line.
LEMMA DirectiveType ==
    ASSUME NEW t \in Seq(LexTokens), t # <<>>, t[1].kind \in {"Blocks", "Warps"}
    PROVE  ParseDirective(t).line.kind \in LineKinds /\ ParseDirective(t).errors \in Seq(ErrRec(Len(t)))
<1> DEFINE D == [Rejected EXCEPT !.kind = t[1].kind, !.imm = t[2].value]
           Ok(r) == r.line.kind \in LineKinds /\ r.errors \in Seq(ErrRec(Len(t)))
<1>1. ParseDirective(t) =
         IF Len(t) < 2 THEN Reject(<<Err(0, "Eos")>>)
         ELSE IF t[2].kind # "Immediate" THEN Reject(<<Err(2, "Unexpected")>>)
         ELSE IF t[2].value < 1 THEN Reject(<<Err(2, "DirectiveValue")>>)
         ELSE IF Len(t) > 2 THEN Reject(<<Err(3, "Unexpected")>>)
         ELSE Accept(D)
  BY Zenon DEF ParseDirective, D
<1>2. D.kind = t[1].kind
  BY Zenon DEF Rejected, Tok
<1>3. Len(t) \in Nat /\ Len(t) >= 1
  OBVIOUS
<1>4. Ok(Reject(<<Err(0, "Eos")>>))
  BY <1>3 DEF Reject, Rejected, Err, ErrRec, ErrorKinds, LineKinds
<1>5. ASSUME Len(t) >= 2 PROVE Ok(Reject(<<Err(2, "Unexpected")>>)) /\ Ok(Reject(<<Err(2, "DirectiveValue")>>))
  BY <1>3, <1>5 DEF Reject, Rejected, Err, ErrRec, ErrorKinds, LineKinds
<1>6. ASSUME Len(t) > 2 PROVE Ok(Reject(<<Err(3, "Unexpected")>>))
  BY <1>3, <1>6 DEF Reject, Rejected, Err, ErrRec, ErrorKinds, LineKinds
<1>7. Ok(Accept(D))
  <2>1. Accept(D).line = D /\ Accept(D).errors = <<>>
    BY Zenon DEF Accept
  <2>2. <<>> \in Seq(ErrRec(Len(t)))
    OBVIOUS
  <2>3. D.kind \in LineKinds
    BY <1>2, Zenon DEF LineKinds
  <2>4. QED
    BY <2>1, <2>2, <2>3, Zenon
<1>8. Len(t) >= 2 => Len(t) = 2 \/ Len(t) > 2
  BY <1>3, NatCases, Zenon
<1>9. QED
  BY <1>1, <1>4, <1>5, <1>6, <1>7, <1>8

\* parse_line: a Line of a known kind, and errors whose columns lie in the line.
LEMMA LineType ==
    ASSUME NEW t \in Seq(LexTokens)
    PROVE  ParseLine(t).line.kind \in LineKinds /\ ParseLine(t).errors \in Seq(ErrRec(Len(t)))
<1> DEFINE lab == Len(t) > 0 /\ t[1].kind = "Label"
           p == IF lab THEN 2 ELSE 1
           r == ParseInstruction(t, p)
           Ok(x) == x.line.kind \in LineKinds /\ x.errors \in Seq(ErrRec(Len(t)))
<1>0. Len(t) \in Nat
  OBVIOUS
<1>1. CASE t = <<>>
  BY <1>1 DEF ParseLine, Reject, Rejected, LineKinds
<1>2. CASE t # <<>> /\ t[1].kind \in {"Blocks", "Warps"}
  <2>1. ParseLine(t) = ParseDirective(t)
    BY <1>2 DEF ParseLine
  <2>2. QED
    BY <1>2, <2>1, DirectiveType
<1>3. CASE t # <<>> /\ t[1].kind \notin {"Blocks", "Warps"} /\ lab /\ Len(t) = 1
  <2> DEFINE J == [Rejected EXCEPT !.kind = "JustLabel", !.label = TRUE]
  <2>1. ParseLine(t) = Accept(J)
    BY <1>3 DEF ParseLine
  <2>2. J.kind = "JustLabel"
    BY Zenon DEF Rejected, Tok
  <2>3. Accept(J).line = J /\ Accept(J).errors = <<>>
    BY Zenon DEF Accept
  <2>4. <<>> \in Seq(ErrRec(Len(t)))
    OBVIOUS
  <2>5. QED
    BY <2>1, <2>2, <2>3, <2>4, Zenon DEF LineKinds
<1>4. CASE t # <<>> /\ t[1].kind \notin {"Blocks", "Warps"} /\ ~(lab /\ Len(t) = 1)
  <2>1. p \in 1..Len(t)
    <3>1. Len(t) >= 1
      BY <1>4
    <3>2. CASE lab
      <4>1. Len(t) # 1
        BY <1>4, <3>2, Zenon
      <4>2. 2 <= Len(t)
        BY <1>0, <3>1, <4>1, NatCases, Zenon
      <4>3. QED
        BY <3>2, <4>2
    <3>3. CASE ~lab
      BY <3>1, <3>3
    <3>4. QED
      BY <3>2, <3>3
  <2>2. Ok(Reject(<<Err(p, "Unexpected")>>))
    BY <2>1 DEF Reject, Rejected, Err, ErrRec, ErrorKinds, LineKinds
  <2>3. Ok(r)
    BY <2>1, InstructionType DEF LineKinds
  <2>4. ASSUME r.line # Rejected PROVE Ok(Accept([r.line EXCEPT !.label = lab]))
    <3> DEFINE A == [r.line EXCEPT !.label = lab]
    <3>1. A.kind = "Instruction"
      BY <2>4, InstructionResult, LabelExcept
    <3>2. Accept(A).line = A /\ Accept(A).errors = <<>>
      BY Zenon DEF Accept
    <3>3. <<>> \in Seq(ErrRec(Len(t)))
      OBVIOUS
    <3>4. QED
      BY <3>1, <3>2, <3>3, Zenon DEF LineKinds
  <2>5. ParseLine(t) =
           IF t[p].kind # "Mnemonic" THEN Reject(<<Err(p, "Unexpected")>>)
           ELSE IF r.line = Rejected THEN r
           ELSE IF p + OperandCount[t[p].cls] < Len(t) THEN Reject(<<Err(p, "Unexpected")>>)
           ELSE Accept([r.line EXCEPT !.label = lab])
    BY <1>4, Zenon DEF ParseLine
  <2>6. QED
    BY <2>2, <2>3, <2>4, <2>5, Zenon
<1>5. QED
  BY <1>1, <1>2, <1>3, <1>4

\* Every token the lexer produces is a token of the parser's type.
LEMMA LexTokensTyped == LexTokens \subseteq Tokens
<1>1. SUFFICES ASSUME NEW x \in LexTokens PROVE x \in Tokens
  OBVIOUS
<1>2. x = [kind |-> x.kind, cls |-> x.cls, scalar |-> x.scalar, cross |-> x.cross,
           rtype |-> x.rtype, value |-> x.value]
  BY DEF LexTokens
<1>3. /\ x.kind \in {"Mnemonic", "Register", "Immediate", "Label", "LabelRef", "Comma",
                     "Lparen", "Rparen", "Blocks", "Warps"}
      /\ x.cls \in Classes \cup {"none"}
      /\ x.scalar \in BOOLEAN /\ x.cross \in BOOLEAN
      /\ x.rtype \in {"VECTOR", "SCALAR", "PC", "none"}
  BY DEF LexTokens, Classes
<1>4. x.value \in Int
  <2>1. x.value = 0 \/ x.value \in Int
    BY DEF LexTokens
  <2>2. QED
    BY <2>1
<1>5. QED
  BY <1>2, <1>3, <1>4, Zenon DEF Tokens

(***************************************************************************)
(* TypeOK of run parser, for every set of lexed input lines: before the    *)
(* call the result is the pending marker, and after it parse_line has      *)
(* built a Line of one of its five kinds, and every error it pushed sits   *)
(* at column 0 (throw_unexpected_eos) or at the column of a token of the   *)
(* line, never past its end.                                               *)
(***************************************************************************)
THEOREM TypeOKHolds == Spec => []TypeOK
<1>1. GrammarInv => TypeOK
  <2>1. SUFFICES ASSUME GrammarInv PROVE TypeOK
    OBVIOUS
  <2>2. toks \in Seq(LexTokens)
    BY <2>1 DEF GrammarInv
  <2>3. toks \in Seq(Tokens)
    BY <2>2, LexTokensTyped
  <2>4. CASE result = Pending
    BY <2>3, <2>4 DEF TypeOK, Pending, Reject, Rejected, Err, ErrorKinds
  <2>5. CASE result = ParseLine(toks)
    BY <2>2, <2>3, <2>5, LineType DEF TypeOK, LineKinds, ErrRec
  <2>6. QED
    BY <2>1, <2>4, <2>5 DEF GrammarInv, ResultInv
<1>2. QED
  BY <1>1, GrammarInvInit, GrammarInvNext, PTL DEF Spec
=============================================================================
