------------------------------ MODULE RegFile ------------------------------
(***************************************************************************)
(* The per-warp register file reg_file.sv (src/unnamed/part_001): one set  *)
(* of registers per thread, registers 0..3 read-only (zero, thread id,     *)
(* block id, block size), loaded at reset; at every other rising edge an   *)
(* enabled write stores the ALU result, the LSU result or the immediate    *)
(* into rd of every thread whose execution-mask bit is set.                *)
(*                                                                         *)
(* The inputs warp_id, block_id and block_size come from the core; the     *)
(* core holds them for a block, so they change only together with reset.   *)
(* A Verilator build stops at $error by default and continues when the    *)
(* error limit is raised: both outcomes are kept.                          *)
(***************************************************************************)
EXTENDS Integers

CONSTANTS
    Threads,     \* THREADS_PER_WARP
    NumRegs,     \* registers per thread (32 in the code)
    DataWidth,   \* DATA_WIDTH
    Values,      \* data values the ALU, the LSU and immediates produce
    WarpIds,     \* warp_id values the core drives
    BlockIds,    \* block_id values
    BlockSizes   \* block_size values

ASSUME RegFileAssumption ==
    /\ Threads \in Nat \ {0}
    /\ NumRegs \in Nat /\ NumRegs > 4
    /\ DataWidth \in Nat \ {0}
    /\ 2^DataWidth \in Nat \ {0}     \* arithmetic the provers do not derive
    /\ Values \subseteq 0..(2^DataWidth - 1) /\ Values # {}
    /\ WarpIds \subseteq 0..(2^DataWidth - 1) /\ WarpIds # {}
    /\ BlockIds \subseteq 0..(2^DataWidth - 1) /\ BlockIds # {}
    /\ BlockSizes \subseteq 0..(2^DataWidth - 1) /\ BlockSizes # {}

Thread == 0..(Threads - 1)
Reg == 0..(NumRegs - 1)
Data == 0..(2^DataWidth - 1)

\* Special-purpose register indices.
ZERO_REG == 0
THREAD_ID_REG == 1
BLOCK_ID_REG == 2
BLOCK_SIZE_REG == 3

\* Mutant: the thread id is not truncated to DATA_WIDTH bits.
ThreadIdUnwrapped(warpId, i) == warpId * Threads + i

\* The always_comb thread_ids: warp_id * THREADS_PER_WARP + i in DATA_WIDTH bits.
ThreadId(warpId, i) == (warpId * Threads + i) % (2^DataWidth)

\* decoded_reg_input_mux: 0 ALU, 1 LSU, 2 immediate, 3 invalid.
Mux == 0..3

VARIABLES
    registers,   \* registers[i][r]: register r of thread i
    warpId,      \* the warp_id, block_id, block_size inputs
    blockId,
    blockSize,
    wasReset,    \* a reset edge has happened
    halted       \* the simulation stopped at a $error

vars == <<registers, warpId, blockId, blockSize, wasReset, halted>>

(***************************************************************************)
(* Before the first reset the registers hold whatever the build gives an   *)
(* uninitialised variable: any value.                                      *)
(***************************************************************************)
Init ==
    /\ registers \in [Thread -> [Reg -> Values]]
    /\ warpId \in WarpIds /\ blockId \in BlockIds /\ blockSize \in BlockSizes
    /\ wasReset = FALSE
    /\ halted = FALSE

(***************************************************************************)
(* A rising edge with reset high: every thread's registers are loaded,     *)
(* 0 with zero, 1 with its thread id, 2 and 3 with block_id and            *)
(* block_size, and 4.. with zero. The core may present a new block.        *)
(***************************************************************************)
Reset ==
    /\ ~halted
    /\ \E w \in WarpIds, b \in BlockIds, s \in BlockSizes :
          /\ warpId' = w /\ blockId' = b /\ blockSize' = s
          /\ registers' = [i \in Thread |-> [r \in Reg |->
                              IF r = THREAD_ID_REG THEN ThreadId(w, i)
                              ELSE IF r = BLOCK_ID_REG THEN b
                              ELSE IF r = BLOCK_SIZE_REG THEN s
                              ELSE 0]]
    /\ wasReset' = TRUE
    /\ UNCHANGED halted

\* The value a write stores for thread i, by decoded_reg_input_mux.
WriteValue(mux, alu, lsu, imm, i) ==
    IF mux = 0 THEN alu[i] ELSE IF mux = 1 THEN lsu[i] ELSE imm

\* Mutant: the read-only guard lets register 3 be written.
WriteGuardOffByOne(mask, rd, mux) == mask /\ rd >= 3 /\ mux # 3

\* A thread's register rd is written: its mask bit is set, rd is not
\* read-only and the mux selects a source.
WriteGuard(mask, rd, mux) == mask /\ rd >= 4 /\ mux # 3

\* Some enabled thread hits a $error: a read-only rd or an invalid mux.
WriteError(mask, rd, mux) == \E i \in Thread : mask[i] /\ (rd < 4 \/ mux = 3)

(***************************************************************************)
(* A rising edge with reset low, enable and decoded_reg_write_enable high: *)
(* the write of every thread whose bit of thread_enable is set.            *)
(***************************************************************************)
Written(mask, rd, mux, alu, lsu, imm) ==
    [i \in Thread |-> [r \in Reg |->
        IF r = rd /\ WriteGuard(mask[i], rd, mux) THEN WriteValue(mux, alu, lsu, imm, i)
        ELSE registers[i][r]]]

Write ==
    /\ ~halted
    /\ \E mask \in [Thread -> BOOLEAN], rd \in Reg, mux \in Mux,
          alu, lsu \in [Thread -> Values], imm \in Values :
          /\ registers' = Written(mask, rd, mux, alu, lsu, imm)
          /\ IF WriteError(mask, rd, mux) THEN halted' \in BOOLEAN ELSE halted' = halted
    /\ UNCHANGED <<warpId, blockId, blockSize, wasReset>>

Next == Reset \/ Write

Spec == Init /\ [][Next]_vars

-----------------------------------------------------------------------------
TypeOK ==
    /\ registers \in [Thread -> [Reg -> Data]]
    /\ warpId \in WarpIds /\ blockId \in BlockIds /\ blockSize \in BlockSizes
    /\ wasReset \in BOOLEAN
    /\ halted \in BOOLEAN

(***************************************************************************)
(* Spec Sec. 7 (registers 0-3 are reserved: zero, thread-id, block-id,     *)
(* block-size): once reset, whatever writes the decoder issues, through    *)
(* any mask and any mux, every thread reads 0, its own thread id, the     *)
(* block id and the block size there, as latched at the last reset.        *)
(***************************************************************************)
ReadOnlyRegsHoldResetValues ==
    wasReset =>
        \A i \in Thread :
            /\ registers[i][ZERO_REG] = 0
            /\ registers[i][THREAD_ID_REG] = ThreadId(warpId, i)
            /\ registers[i][BLOCK_ID_REG] = blockId
            /\ registers[i][BLOCK_SIZE_REG] = blockSize
=============================================================================
