------------------------------ MODULE NumParse ------------------------------
(***************************************************************************)
(* The assembler's number parser parse_num and register-name parser        *)
(* str_to_reg (parser_utils.cpp, src/unnamed/part_000 lines 1-103).        *)
(*                                                                         *)
(* A string is a sequence of one-character strings. The string_view that   *)
(* parse_num advances is modelled by how many characters it has removed    *)
(* ("consumed"), which the caller sees on success and on failure alike.    *)
(* Integers keep the code's width: int32_t, checked by std::from_chars.    *)
(*                                                                         *)
(* This module is only model-checked: the digit formatter used as a        *)
(* reference is RECURSIVE and the digit fold comes from SequencesExt.      *)
(***************************************************************************)
EXTENDS Integers, Sequences, SequencesExt

CONSTANTS
    Chars,       \* the alphabet of the enumerated input strings
    MaxLen,      \* enumerated strings have at most MaxLen characters
    TestValues,  \* integers whose formatted literals are also parsed
    Overflowing  \* literals whose value is outside int32_t

ASSUME InputAssumption == MaxLen \in Nat /\ TestValues \subseteq Int

\* int32_t, the type from_chars parses into (written so that no step of the
\* computation leaves int32_t).
IntMax == 2147483647
IntMin == -IntMax - 1
Int32 == IntMin..IntMax

(***************************************************************************)
(* is_numeric(c, base) (parser_utils.hpp, not under src/): c is one of     *)
(* 0-9, a-f, A-F and its digit value is below base.                        *)
(***************************************************************************)
DigitChar == <<"0", "1", "2", "3", "4", "5", "6", "7", "8", "9", "a", "b", "c", "d", "e", "f">>
UpperHex == <<"A", "B", "C", "D", "E", "F">>

HexVal == [c \in Range(DigitChar) |-> CHOOSE v \in 0..15 : DigitChar[v + 1] = c]
          @@ [c \in Range(UpperHex) |-> CHOOSE v \in 10..15 : UpperHex[v - 9] = c]

IsNumeric(c, base) == c \in DOMAIN HexVal /\ HexVal[c] < base

(***************************************************************************)
(* std::from_chars accumulating a run of digits into an int32_t: a         *)
(* magnitude (or, after a '-', a negative value) built digit by digit,     *)
(* with result_out_of_range as soon as the next digit would leave the      *)
(* type. PosOverflow and NegOverflow mark that outcome.                    *)
(***************************************************************************)
PosOverflow == -1
NegOverflow == 1

PosValue(d, base) ==
    FoldLeft(LAMBDA acc, c : IF acc = PosOverflow \/ acc > (IntMax - HexVal[c]) \div base
                             THEN PosOverflow ELSE acc * base + HexVal[c], 0, d)

NegValue(d, base) ==
    FoldLeft(LAMBDA acc, c : IF acc = NegOverflow \/ acc < (IntMin + HexVal[c] + base - 1) \div base
                             THEN NegOverflow ELSE acc * base - HexVal[c], 0, d)

Ok(v, n) == [ok |-> TRUE, value |-> v, err |-> "none", consumed |-> n]
Fail(e, n) == [ok |-> FALSE, value |-> 0, err |-> e, consumed |-> n]

\* Mutant: the view is advanced one character past the digit run.
ParseIntegralOverAdvance(s, start, base, neg) ==
    LET body == SubSeq(s, start + 1, Len(s))
        run == CHOOSE k \in 0..Len(body) :
                  /\ \A i \in 1..k : IsNumeric(body[i], 16)
                  /\ k < Len(body) => ~IsNumeric(body[k + 1], 16)
        bad == {i \in 1..run : ~IsNumeric(body[i], base)}
        mag == PosValue(SubSeq(body, 1, run), base)
    IN  IF bad # {} THEN Fail("BadDigit", start + Min(bad) - 1)
        ELSE IF run = 0 THEN Fail("NoDigits", start)
        ELSE IF mag = PosOverflow THEN Fail("Overflow", start)
        ELSE Ok(IF neg THEN -mag ELSE mag, start + run + 1)

\* Mutant: the sign seen by parse_num is not applied to the result.
ParseIntegralNoNegate(s, start, base, neg) ==
    LET body == SubSeq(s, start + 1, Len(s))
        run == CHOOSE k \in 0..Len(body) :
                  /\ \A i \in 1..k : IsNumeric(body[i], 16)
                  /\ k < Len(body) => ~IsNumeric(body[k + 1], 16)
        bad == {i \in 1..run : ~IsNumeric(body[i], base)}
        mag == PosValue(SubSeq(body, 1, run), base)
    IN  IF bad # {} THEN Fail("BadDigit", start + Min(bad) - 1)
        ELSE IF run = 0 THEN Fail("NoDigits", start)
        ELSE IF mag = PosOverflow THEN Fail("Overflow", start)
        ELSE Ok(mag, start + run)

\* Mutant: the error code of from_chars is not checked, so a failed
\* conversion returns the untouched result 0.
ParseIntegralIgnoresEc(s, start, base, neg) ==
    LET body == SubSeq(s, start + 1, Len(s))
        run == CHOOSE k \in 0..Len(body) :
                  /\ \A i \in 1..k : IsNumeric(body[i], 16)
                  /\ k < Len(body) => ~IsNumeric(body[k + 1], 16)
        bad == {i \in 1..run : ~IsNumeric(body[i], base)}
        mag == PosValue(SubSeq(body, 1, run), base)
    IN  IF bad # {} THEN Fail("BadDigit", start + Min(bad) - 1)
        ELSE IF run = 0 \/ mag = PosOverflow THEN Ok(0, start + run)
        ELSE Ok(IF neg THEN -mag ELSE mag, start + run)

(***************************************************************************)
(* The lambda parse_integral(base), applied after `start` characters (sign *)
(* and prefix) have been removed from the view. The scan covers the        *)
(* longest run of hex digits; the first one invalid for the base fails and *)
(* leaves the view at that digit; an empty run or a magnitude above        *)
(* INT32_MAX makes from_chars fail; otherwise the view moves past the run  *)
(* and the magnitude is negated when a sign was seen.                      *)
(***************************************************************************)
ParseIntegral(s, start, base, neg) ==
    LET body == SubSeq(s, start + 1, Len(s))
        run == CHOOSE k \in 0..Len(body) :
                  /\ \A i \in 1..k : IsNumeric(body[i], 16)
                  /\ k < Len(body) => ~IsNumeric(body[k + 1], 16)
        bad == {i \in 1..run : ~IsNumeric(body[i], base)}
        mag == PosValue(SubSeq(body, 1, run), base)
    IN  IF bad # {} THEN Fail("BadDigit", start + Min(bad) - 1)
        ELSE IF run = 0 THEN Fail("NoDigits", start)
        ELSE IF mag = PosOverflow THEN Fail("Overflow", start)
        ELSE Ok(IF neg THEN -mag ELSE mag, start + run)

(***************************************************************************)
(* parse_num: empty input and a lone '-' fail; after the sign, "0x"/"0X"   *)
(* selects base 16 and "0b"/"0B" base 2 (both prefixes removed), any other *)
(* '0' with a character after it base 8 (the '0' kept), otherwise 10.      *)
(***************************************************************************)
ParseNum(s) ==
    LET neg == Len(s) > 0 /\ s[1] = "-"
        sg == IF neg THEN 1 ELSE 0
    IN  IF Len(s) = 0 THEN Fail("Empty", 0)
        ELSE IF neg /\ Len(s) = 1 THEN Fail("LoneSign", 1)
        ELSE IF s[sg + 1] = "0" /\ Len(s) - sg > 1
             THEN IF s[sg + 2] \in {"x", "X"} THEN ParseIntegral(s, sg + 2, 16, neg)
                  ELSE IF s[sg + 2] \in {"b", "B"} THEN ParseIntegral(s, sg + 2, 2, neg)
                  ELSE ParseIntegral(s, sg, 8, neg)
        ELSE ParseIntegral(s, sg, 10, neg)

(***************************************************************************)
(* std::from_chars(first, last, int32_t&) in base 10, as str_to_reg calls  *)
(* it: an optional '-', then the longest run of decimal digits; no digit   *)
(* is invalid_argument, a value outside int32_t is result_out_of_range,    *)
(* and characters after the run are left unread.                           *)
(***************************************************************************)
FromChars10(t) ==
    LET sg == IF Len(t) > 0 /\ t[1] = "-" THEN 1 ELSE 0
        body == SubSeq(t, sg + 1, Len(t))
        run == CHOOSE k \in 0..Len(body) :
                  /\ \A i \in 1..k : IsNumeric(body[i], 10)
                  /\ k < Len(body) => ~IsNumeric(body[k + 1], 10)
        digits == SubSeq(body, 1, run)
        v == IF sg = 1 THEN NegValue(digits, 10) ELSE PosValue(digits, 10)
    IN  IF run = 0 THEN Fail("NoDigits", 0)
        ELSE IF v = (IF sg = 1 THEN NegOverflow ELSE PosOverflow) THEN Fail("Overflow", 0)
        ELSE Ok(v, sg + run)

(***************************************************************************)
(* str_to_reg: fewer than two characters fail; 'x' is a vector and 's' a   *)
(* scalar register whose number is from_chars of the rest; "pc" is the PC  *)
(* with number 0 (RegisterData{}); anything else fails.                    *)
(***************************************************************************)
StrToReg(s) ==
    LET num == FromChars10(Tail(s))
        reg(type) == IF num.ok THEN [ok |-> TRUE, type |-> type, number |-> num.value]
                     ELSE [ok |-> FALSE, type |-> "none", number |-> 0]
    IN  IF Len(s) < 2 THEN [ok |-> FALSE, type |-> "none", number |-> 0]
        ELSE IF s[1] = "x" THEN reg("VECTOR")
        ELSE IF s[1] = "s" THEN reg("SCALAR")
        ELSE IF s = <<"p", "c">> THEN [ok |-> TRUE, type |-> "PC", number |-> 0]
        ELSE [ok |-> FALSE, type |-> "none", number |-> 0]

-----------------------------------------------------------------------------
(***************************************************************************)
(* Reference formatter of spec Sec. 8, property 1: sign, the base's prefix *)
(* ("0x", "0b", "0" for octal, none for decimal), then the digits of the   *)
(* magnitude. The digits are taken from the non-positive value -|n|, so   *)
(* that INT32_MIN needs no wider type.                                     *)
(***************************************************************************)
RECURSIVE DigitsOf(_, _)
DigitsOf(m, b) ==
    LET d == (b - (m % b)) % b
    IN  IF m + d = 0 THEN <<DigitChar[d + 1]>>
        ELSE DigitsOf((m + d) \div b, b) \o <<DigitChar[d + 1]>>

BasePrefix == (2 :> <<"0", "b">>) @@ (8 :> <<"0">>) @@ (10 :> <<>>) @@ (16 :> <<"0", "x">>)

Format(n, b) ==
    (IF n < 0 THEN <<"-">> ELSE <<>>) \o BasePrefix[b] \o DigitsOf(IF n < 0 THEN n ELSE -n, b)

Bases == {2, 8, 10, 16}

Inputs == BoundedSeq(Chars, MaxLen) \cup {Format(n, b) : n \in TestValues, b \in Bases} \cup Overflowing

-----------------------------------------------------------------------------
VARIABLES src, numResult, regResult

vars == <<src, numResult, regResult>>

\* The results before the call has returned.
NumPending == Fail("pending", 0)
RegPending == [ok |-> FALSE, type |-> "pending", number |-> 0]

Init ==
    /\ src \in Inputs
    /\ numResult = NumPending
    /\ regResult = RegPending

\* One call of parse_num on the input.
CallParseNum ==
    /\ numResult = NumPending
    /\ numResult' = ParseNum(src)
    /\ UNCHANGED <<src, regResult>>

\* One call of str_to_reg on the input.
CallStrToReg ==
    /\ regResult = RegPending
    /\ regResult' = StrToReg(src)
    /\ UNCHANGED <<src, numResult>>

Next == CallParseNum \/ CallStrToReg

Spec == Init /\ [][Next]_vars

-----------------------------------------------------------------------------
ParseResults == [ok : BOOLEAN, value : Int32, err : {"none", "Empty", "LoneSign", "BadDigit", "NoDigits", "Overflow"},
                 consumed : 0..Len(src)]

TypeOK ==
    /\ src \in Inputs
    /\ numResult \in {NumPending} \cup ParseResults
    /\ regResult \in {RegPending} \cup [ok : BOOLEAN, type : {"none", "VECTOR", "SCALAR", "PC"}, number : Int32]

(***************************************************************************)
(* Spec Sec. 8, property 1: parse_num of a number formatted in any of the  *)
(* four bases, with its prefix and sign, returns that number and advances  *)
(* the view over exactly the formatted text.                               *)
(***************************************************************************)
RoundTrip ==
    numResult # NumPending =>
        \A n \in {v \in TestValues : v \in Int32}, b \in Bases :
            src = Format(n, b) => numResult = Ok(n, Len(src))

(***************************************************************************)
(* Spec Sec. 4.1: a literal whose value does not fit in int32_t fails with *)
(* an overflow; parse_num never returns a wrapped value for it.            *)
(***************************************************************************)
OverflowRejected ==
    numResult # NumPending /\ src \in Overflowing => numResult.err = "Overflow"

(***************************************************************************)
(* Spec Sec. 3 and 4.2: a vector or scalar register that str_to_reg        *)
(* accepts has a number in 0..31.                                          *)
(***************************************************************************)
RegisterNumberInRange ==
    regResult # RegPending /\ regResult.ok /\ regResult.type # "PC" =>
        regResult.number \in 0..31

=============================================================================
