--------------------------- MODULE RegFile_proofs ---------------------------
(***************************************************************************)
(* Proofs about reg_file.sv for every number of threads and registers and *)
(* every data width: the registers stay DATA_WIDTH-bit values, and the     *)
(* read-only registers 0..3 hold what reset loaded into them.              *)
(***************************************************************************)
EXTENDS RegFile, TLAPS

USE RegFileAssumption DEF Thread, Reg, Data

\* Every value the write port or reset can store is a DATA_WIDTH-bit value.
LEMMA ValuesAreData == Values \subseteq Data /\ WarpIds \subseteq Data
                       /\ BlockIds \subseteq Data /\ BlockSizes \subseteq Data
BY DEF Data

LEMMA InitTypeOK == Init => TypeOK
BY ValuesAreData DEF Init, TypeOK

LEMMA NextTypeOK == TypeOK /\ [Next]_vars => TypeOK'
<1> SUFFICES ASSUME TypeOK, [Next]_vars PROVE TypeOK'
  OBVIOUS
<1>1. CASE Reset
  <2>1. PICK w \in WarpIds, b \in BlockIds, s \in BlockSizes :
               /\ warpId' = w /\ blockId' = b /\ blockSize' = s
               /\ registers' = [i \in Thread |-> [r \in Reg |->
                                   IF r = THREAD_ID_REG THEN ThreadId(w, i)
                                   ELSE IF r = BLOCK_ID_REG THEN b
                                   ELSE IF r = BLOCK_SIZE_REG THEN s
                                   ELSE 0]]
    BY <1>1 DEF Reset
  <2>2. w \in Int
    BY ValuesAreData DEF Data
  <2>3. \A i \in Thread : ThreadId(w, i) \in Data
    BY <2>2, SMT DEF ThreadId
  <2>4. registers' \in [Thread -> [Reg -> Data]]
    BY <2>1, <2>3, ValuesAreData
  <2>. QED
    BY <1>1, <2>1, <2>4 DEF Reset, TypeOK
<1>2. CASE Write
  <2>1. PICK mask \in [Thread -> BOOLEAN], rd \in Reg, mux \in Mux,
             alu \in [Thread -> Values], lsu \in [Thread -> Values], imm \in Values :
          /\ registers' = Written(mask, rd, mux, alu, lsu, imm)
          /\ IF WriteError(mask, rd, mux) THEN halted' \in BOOLEAN ELSE halted' = halted
    BY <1>2 DEF Write
  <2>2. \A i \in Thread : WriteValue(mux, alu, lsu, imm, i) \in Data
    BY ValuesAreData DEF WriteValue
  <2>3. registers' \in [Thread -> [Reg -> Data]]
    BY <2>1, <2>2 DEF TypeOK, Written
  <2>4. halted' \in BOOLEAN
    BY <2>1 DEF TypeOK
  <2>. QED
    BY <1>2, <2>3, <2>4 DEF Write, TypeOK
<1>3. CASE UNCHANGED vars
  BY <1>3 DEF vars, TypeOK
<1>. QED
  BY <1>1, <1>2, <1>3 DEF Next

(***************************************************************************)
(* The registers are always DATA_WIDTH-bit values: no write or reset of    *)
(* reg_file.sv stores anything wider, the wrapped thread id included.      *)
(***************************************************************************)
THEOREM TypeCorrect == Spec => []TypeOK
BY InitTypeOK, NextTypeOK, PTL DEF Spec

LEMMA InitReadOnly == Init => ReadOnlyRegsHoldResetValues
BY DEF Init, ReadOnlyRegsHoldResetValues

LEMMA NextReadOnly ==
    TypeOK /\ ReadOnlyRegsHoldResetValues /\ [Next]_vars => ReadOnlyRegsHoldResetValues'
<1> SUFFICES ASSUME TypeOK, ReadOnlyRegsHoldResetValues, [Next]_vars
             PROVE  ReadOnlyRegsHoldResetValues'
  OBVIOUS
<1>1. CASE Reset
  BY <1>1 DEF Reset, ReadOnlyRegsHoldResetValues, ZERO_REG, THREAD_ID_REG, BLOCK_ID_REG,
              BLOCK_SIZE_REG
<1>2. CASE Write
  <2>1. PICK mask \in [Thread -> BOOLEAN], rd \in Reg, mux \in Mux,
             alu \in [Thread -> Values], lsu \in [Thread -> Values], imm \in Values :
          registers' = Written(mask, rd, mux, alu, lsu, imm)
    BY <1>2 DEF Write
  \* The guard rd >= 4 keeps every write off registers 0..3.
  <2>2. ASSUME NEW i \in Thread, NEW r \in 0..3 PROVE registers'[i][r] = registers[i][r]
    <3>1. r \in Reg
      OBVIOUS
    <3>2. ~(r = rd /\ WriteGuard(mask[i], rd, mux))
      BY DEF WriteGuard
    <3>. QED
      BY <2>1, <3>1, <3>2 DEF Written
  <2>3. UNCHANGED <<warpId, blockId, blockSize, wasReset>>
    BY <1>2 DEF Write
  <2>. QED
    BY <2>2, <2>3 DEF ReadOnlyRegsHoldResetValues, ZERO_REG, THREAD_ID_REG,
                      BLOCK_ID_REG, BLOCK_SIZE_REG
<1>3. CASE UNCHANGED vars
  BY <1>3 DEF vars, ReadOnlyRegsHoldResetValues
<1>. QED
  BY <1>1, <1>2, <1>3 DEF Next

(***************************************************************************)
(* Once reset, every thread's registers 0..3 hold 0, its thread id, the    *)
(* block id and the block size of the last reset, for any mask, mux and    *)
(* destination the decoder drives: the rd >= 4 guard of reg_file.sv is     *)
(* enough on its own.                                                      *)
(***************************************************************************)
THEOREM ReadOnlyRegsHold == Spec => []ReadOnlyRegsHoldResetValues
<1>1. Init => TypeOK /\ ReadOnlyRegsHoldResetValues
  BY InitTypeOK, InitReadOnly
<1>2. TypeOK /\ ReadOnlyRegsHoldResetValues /\ [Next]_vars
        => TypeOK' /\ ReadOnlyRegsHoldResetValues'
  BY NextTypeOK, NextReadOnly
<1>. QED
  BY <1>1, <1>2, PTL DEF Spec

=============================================================================
