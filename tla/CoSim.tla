------------------------------- MODULE CoSim -------------------------------
(***************************************************************************)
(* The co-simulation harness of src/sim/simlib/sim.hpp driving the GPU     *)
(* model, with the fetcher of src/src/fetcher.sv on every instruction      *)
(* channel.                                                                *)
(*                                                                         *)
(*  - setup: the test code fills the memories (push_instruction,           *)
(*    load_instruction, operator[], push_data) and calls                   *)
(*    set_kernel_config;                                                   *)
(*  - simulate(): per cycle, eval and test execution_done, then            *)
(*    InstructionMemory::process(), DataMemory::process(), eval and tick;  *)
(*  - the DUT: one fetcher per instruction channel (its handshake with the *)
(*    instruction memory is the RTL's), and on the data channels whatever  *)
(*    request signals the (unmodelled) load/store units register at a     *)
(*    clock edge.                                                          *)
(*                                                                         *)
(* Bit masks (CData) are functions from channel to BOOLEAN, IData values   *)
(* are the members of Words, and addresses are 0..AddrMax where AddrMax    *)
(* stands for MAX_SIZE = numeric_limits<IData>::max(); the code serves     *)
(* only addr < MAX_SIZE.                                                   *)
(***************************************************************************)
EXTENDS Integers, FiniteSets

CONSTANTS
    NumInstChannels,  \* num_channels of InstructionMemory
    NumDataChannels,  \* num_channels of DataMemory
    AddrMax,          \* MAX_SIZE, the largest IData
    Words,            \* the IData values that are stored and fetched
    MaxCycles,        \* max_num_cycles of simulate()
    MaxSetup,         \* bound on the number of setup calls of the test
    CoreWarpStates,   \* warp_state values the compute core presents
    DReadAddrs,       \* addresses the DUT may put on a data read channel
    DWriteAddrs       \* addresses the DUT may put on a data write channel

ASSUME ChannelAssumption ==
    /\ NumInstChannels \in 1..8      \* one bit each of a CData mask
    /\ NumDataChannels \in 1..8
ASSUME AddrAssumption ==
    /\ AddrMax \in Nat \ {0}
    /\ DReadAddrs \subseteq 0..AddrMax /\ DWriteAddrs \subseteq 0..AddrMax
ASSUME WordsAssumption == 0 \in Words
ASSUME BoundAssumption == MaxCycles \in Nat /\ MaxSetup \in Nat

IC == 0..(NumInstChannels - 1)
DC == 0..(NumDataChannels - 1)
Addr == 0..AddrMax

\* fetcher_state_t and the warp states the fetcher reads
FetcherStates == {"IDLE", "FETCHING", "DONE"}
WarpStates == {"FETCH", "DECODE", "OTHER"}
ASSUME CoreAssumption == CoreWarpStates \subseteq WarpStates /\ CoreWarpStates # {}

\* A request slot of the data side that raises no valid bit.
NoReq == -1

Phases == {"setup", "loop", "imem", "dmem", "tick", "finished", "timeout", "crashed"}

VARIABLES
    phase,          \* where the host is: setup calls, or a point of simulate()
    setups,         \* setup calls made so far
    cycle,          \* the loop counter of simulate()
    execStart,      \* top.execution_start
    execDone,       \* top.execution_done, an output of the DUT
    kernelConfig,   \* top.kernel_config, 4 slots
    imem, istackPtr,        \* InstructionMemory::memory and stack_ptr
    dmem, dstackPtr,        \* DataMemory::memory and stack_ptr
    imValid, imAddr,        \* instruction_mem_read_valid / _address (DUT out)
    imReady, imData,        \* instruction_mem_read_ready / _data (DUT in)
    dmRValid, dmRAddr, dmRReady, dmRData,
    dmWValid, dmWAddr, dmWData, dmWReady,
    dmRDataPtr,     \* data_mem_read_data[i] still points into the DUT
    fState, fInstr  \* fetcher_state and instruction of each fetcher

setupVars == <<kernelConfig, imem, istackPtr, dmem, dstackPtr>>
imVars == <<imValid, imAddr, imReady, imData>>
dmVars == <<dmRValid, dmRAddr, dmRReady, dmRData, dmWValid, dmWAddr, dmWData, dmWReady, dmRDataPtr>>
dutVars == <<execDone, fState, fInstr>>
vars == <<phase, setups, cycle, execStart, setupVars, imVars, dmVars, dutVars>>

(***************************************************************************)
(* make_instruction_memory / make_data_memory on a fresh Vgpu: every DUT   *)
(* signal and register starts at zero, the memories are empty (an          *)
(* unordered_map / map read through operator[] yields 0), and the          *)
(* read-data pointers point at the DUT's ports.                            *)
(***************************************************************************)
Init ==
    /\ phase = "setup"
    /\ setups = 0
    /\ cycle = 0
    /\ execStart = FALSE
    /\ execDone = FALSE
    /\ kernelConfig = [s \in 0..3 |-> 0]
    /\ imem = [a \in Addr |-> 0] /\ istackPtr = 0
    /\ dmem = [a \in Addr |-> 0] /\ dstackPtr = 0
    /\ imValid = [c \in IC |-> FALSE] /\ imAddr = [c \in IC |-> 0]
    /\ imReady = [c \in IC |-> FALSE] /\ imData = [c \in IC |-> 0]
    /\ dmRValid = [c \in DC |-> FALSE] /\ dmRAddr = [c \in DC |-> 0]
    /\ dmRReady = [c \in DC |-> FALSE] /\ dmRData = [c \in DC |-> 0]
    /\ dmWValid = [c \in DC |-> FALSE] /\ dmWAddr = [c \in DC |-> 0]
    /\ dmWData = [c \in DC |-> 0] /\ dmWReady = [c \in DC |-> FALSE]
    /\ dmRDataPtr = [c \in DC |-> TRUE]
    /\ fState = [c \in IC |-> "IDLE"] /\ fInstr = [c \in IC |-> 0]

-----------------------------------------------------------------------------
(* Setup calls of the test code, made before simulate().                   *)

SetupStep ==
    /\ phase = "setup"
    /\ setups < MaxSetup /\ setups' = setups + 1
    /\ UNCHANGED <<phase, cycle, execStart, imVars, dmVars, dutVars>>

\* push_instruction: memory[stack_ptr++] = instruction (uint32_t wraps)
PushInstruction(w) ==
    /\ SetupStep
    /\ imem' = [imem EXCEPT ![istackPtr] = w]
    /\ istackPtr' = (istackPtr + 1) % (AddrMax + 1)
    /\ UNCHANGED <<kernelConfig, dmem, dstackPtr>>

\* load_instruction: stores only below MAX_SIZE, otherwise logs
LoadInstruction(a, w) ==
    /\ SetupStep
    /\ imem' = IF a < AddrMax THEN [imem EXCEPT ![a] = w] ELSE imem
    /\ UNCHANGED <<kernelConfig, istackPtr, dmem, dstackPtr>>

\* instruction_mem[addr] = w through operator[]; stack_ptr is not touched
SetInstruction(a, w) ==
    /\ SetupStep
    /\ imem' = [imem EXCEPT ![a] = w]
    /\ UNCHANGED <<kernelConfig, istackPtr, dmem, dstackPtr>>

\* push_data: memory[stack_ptr++] = data
PushData(w) ==
    /\ SetupStep
    /\ dmem' = [dmem EXCEPT ![dstackPtr] = w]
    /\ dstackPtr' = (dstackPtr + 1) % (AddrMax + 1)
    /\ UNCHANGED <<kernelConfig, imem, istackPtr>>

\* data_mem[addr] = w through operator[]
SetData(a, w) ==
    /\ SetupStep
    /\ dmem' = [dmem EXCEPT ![a] = w]
    /\ UNCHANGED <<kernelConfig, imem, istackPtr, dstackPtr>>

\* set_kernel_config: slot 3 base_inst, 2 base_data, 1 blocks, 0 warps
SetKernelConfig(baseInst, baseData, blocks, warps) ==
    /\ SetupStep
    /\ kernelConfig' = [kernelConfig EXCEPT ![3] = baseInst, ![2] = baseData,
                                            ![1] = blocks, ![0] = warps]
    /\ UNCHANGED <<imem, istackPtr, dmem, dstackPtr>>

-----------------------------------------------------------------------------
(* simulate(top, instruction_mem, data_mem, max_num_cycles)               *)

\* top.execution_start = 1, entering the loop
SimulateStart ==
    /\ phase = "setup"
    /\ phase' = "loop" /\ execStart' = TRUE
    /\ UNCHANGED <<setups, cycle, setupVars, imVars, dmVars, dutVars>>

\* Mutant: the loop exits only once cycle has passed max_num_cycles.
SimulateTimeoutPastBudget ==
    /\ phase = "loop" /\ cycle > MaxCycles
    /\ phase' = "timeout"
    /\ UNCHANGED <<setups, cycle, execStart, setupVars, imVars, dmVars, dutVars>>

\* the loop condition fails: return false
SimulateTimeout ==
    /\ phase = "loop" /\ cycle >= MaxCycles
    /\ phase' = "timeout"
    /\ UNCHANGED <<setups, cycle, execStart, setupVars, imVars, dmVars, dutVars>>

\* top.eval(); execution_done is high: return true
SimulateDone ==
    /\ phase = "loop" /\ cycle < MaxCycles /\ execDone
    /\ phase' = "finished"
    /\ UNCHANGED <<setups, cycle, execStart, setupVars, imVars, dmVars, dutVars>>

\* Mutant: the loop condition written `cycle <= max_num_cycles`.
SimulateEvalOffByOne ==
    /\ phase = "loop" /\ cycle <= MaxCycles /\ ~execDone
    /\ phase' = "imem"
    /\ UNCHANGED <<setups, cycle, execStart, setupVars, imVars, dmVars, dutVars>>

\* top.eval(); execution_done is low: go on to the memories
SimulateEval ==
    /\ phase = "loop" /\ cycle < MaxCycles /\ ~execDone
    /\ phase' = "imem"
    /\ UNCHANGED <<setups, cycle, execStart, setupVars, imVars, dmVars, dutVars>>

\* The word a read of addr returns: memory[addr] below MAX_SIZE, else 0.
ImemWord(a) == IF a < AddrMax THEN imem[a] ELSE 0

\* Mutant: an out-of-range read leaves read_data as it was (the slip the
\* data memory makes at sim.hpp line 125).
ImemProcessStaleOob ==
    /\ phase = "imem"
    /\ imData' = [c \in IC |-> IF imValid[c] /\ imAddr[c] < AddrMax THEN imem[imAddr[c]]
                                ELSE imData[c]]
    /\ imReady' = imValid
    /\ phase' = "dmem"
    /\ UNCHANGED <<setups, cycle, execStart, setupVars, imValid, imAddr, dmVars, dutVars>>

\* Mutant: the out-of-range branch skips set_bit(ready, i, true).
ImemProcessNoOobReady ==
    /\ phase = "imem"
    /\ imData' = [c \in IC |-> IF imValid[c] THEN ImemWord(imAddr[c]) ELSE imData[c]]
    /\ imReady' = [c \in IC |-> imValid[c] /\ imAddr[c] < AddrMax]
    /\ phase' = "dmem"
    /\ UNCHANGED <<setups, cycle, execStart, setupVars, imValid, imAddr, dmVars, dutVars>>

\* InstructionMemory::process(): every valid channel gets its word and
\* ready; every other channel gets ready cleared.
ImemProcess ==
    /\ phase = "imem"
    /\ imData' = [c \in IC |-> IF imValid[c] THEN ImemWord(imAddr[c]) ELSE imData[c]]
    /\ imReady' = imValid
    /\ phase' = "dmem"
    /\ UNCHANGED <<setups, cycle, execStart, setupVars, imValid, imAddr, dmVars, dutVars>>

\* The channels whose write lands on address a this cycle.
WritersOf(a) == {c \in DC : dmWValid[c] /\ dmWAddr[c] = a}

\* Channel c writes address a, and no later channel of the loop does.
LastWriter(a, c) == c \in WritersOf(a) /\ \A d \in WritersOf(a) : d <= c

\* Mutant: the write loop drops the `addr < MAX_SIZE` check.
MemAfterWritesNoRangeCheck ==
    [a \in Addr |->
        IF \E c \in DC : LastWriter(a, c)
        THEN dmWData[CHOOSE c \in DC : LastWriter(a, c)]
        ELSE dmem[a]]

\* Mutant: the first channel of the loop to write an address wins.
MemAfterWritesFirstWins ==
    [a \in Addr |->
        IF a < AddrMax /\ WritersOf(a) # {}
        THEN dmWData[CHOOSE c \in WritersOf(a) : \A d \in WritersOf(a) : c <= d]
        ELSE dmem[a]]

\* The memory after the write loop: below MAX_SIZE each written address
\* holds the data of the last channel (in loop order) that wrote it.
MemAfterWrites ==
    [a \in Addr |->
        IF a < AddrMax /\ \E c \in DC : LastWriter(a, c)
        THEN dmWData[CHOOSE c \in DC : LastWriter(a, c)]
        ELSE dmem[a]]

\* A read channel whose pointer was nulled dereferences it: undefined
\* behaviour, a crash of the host.
NullDeref == \E c \in DC : dmRValid[c] /\ dmRAddr[c] < AddrMax /\ ~dmRDataPtr[c]

\* Mutant: the write loop never clears a ready bit (no else branch).
DmemWriteLoopStickyReady ==
    /\ dmem' = MemAfterWrites
    /\ dmWReady' = [c \in DC |-> dmWReady[c] \/ dmWValid[c]]

\* The write loop of DataMemory::process.
DmemWriteLoop ==
    /\ dmem' = MemAfterWrites
    /\ dmWReady' = dmWValid

\* The read loop of DataMemory::process over memory mem. An out-of-range
\* read runs `data_mem_read_data[i] = 0`, nulling the pointer and leaving
\* the DUT's read data as it was.
DmemReadLoop(mem) ==
    /\ dmRData' = [c \in DC |->
                     IF dmRValid[c] /\ dmRAddr[c] < AddrMax THEN mem[dmRAddr[c]] ELSE dmRData[c]]
    /\ dmRDataPtr' = [c \in DC |-> dmRDataPtr[c] /\ ~(dmRValid[c] /\ dmRAddr[c] >= AddrMax)]
    /\ dmRReady' = dmRValid

\* Mutant: the reads are served before the writes.
DmemProcessReadsFirst ==
    /\ phase = "dmem"
    /\ DmemWriteLoop /\ DmemReadLoop(dmem)
    /\ phase' = IF NullDeref THEN "crashed" ELSE "tick"
    /\ UNCHANGED <<setups, cycle, execStart, kernelConfig, imem, istackPtr, dstackPtr,
                   dmRValid, dmRAddr, dmWValid, dmWAddr, dmWData, imVars, dutVars>>

\* DataMemory::process(): the write loop, then the read loop on the memory
\* the writes left. Dereferencing a nulled pointer crashes the host.
DmemProcess ==
    /\ phase = "dmem"
    /\ DmemWriteLoop /\ DmemReadLoop(MemAfterWrites)
    /\ phase' = IF NullDeref THEN "crashed" ELSE "tick"
    /\ UNCHANGED <<setups, cycle, execStart, kernelConfig, imem, istackPtr, dstackPtr,
                   dmRValid, dmRAddr, dmWValid, dmWAddr, dmWData, imVars, dutVars>>

(***************************************************************************)
(* One clock edge of fetcher.sv for channel c, given the inputs the        *)
(* compute core drives: reset, warp_state and pc. The result holds the     *)
(* registers fetcher_state, read_valid, read_address and instruction.      *)
(***************************************************************************)
FetcherRegs(c) ==
    [state |-> fState[c], valid |-> imValid[c], addr |-> imAddr[c], instr |-> fInstr[c]]

\* Mutant: reset leaves instruction_mem_read_address as it was.
FetcherEdgeResetKeepsAddr(c, reset, warpState, pc) ==
    IF reset THEN [FetcherRegs(c) EXCEPT !.state = "IDLE", !.valid = FALSE, !.instr = 0]
    ELSE IF fState[c] = "IDLE" /\ warpState = "FETCH"
         THEN [FetcherRegs(c) EXCEPT !.state = "FETCHING", !.valid = TRUE, !.addr = pc]
    ELSE IF fState[c] = "FETCHING" /\ imReady[c]
         THEN [FetcherRegs(c) EXCEPT !.state = "DONE", !.valid = FALSE, !.instr = imData[c]]
    ELSE IF fState[c] = "DONE" /\ warpState = "DECODE"
         THEN [FetcherRegs(c) EXCEPT !.state = "IDLE"]
    ELSE FetcherRegs(c)

FetcherEdge(c, reset, warpState, pc) ==
    IF reset THEN [state |-> "IDLE", valid |-> FALSE, addr |-> 0, instr |-> 0]
    ELSE IF fState[c] = "IDLE" /\ warpState = "FETCH"
         THEN [FetcherRegs(c) EXCEPT !.state = "FETCHING", !.valid = TRUE, !.addr = pc]
    ELSE IF fState[c] = "FETCHING" /\ imReady[c]
         THEN [FetcherRegs(c) EXCEPT !.state = "DONE", !.valid = FALSE, !.instr = imData[c]]
    ELSE IF fState[c] = "DONE" /\ warpState = "DECODE"
         THEN [FetcherRegs(c) EXCEPT !.state = "IDLE"]
    ELSE FetcherRegs(c)

(***************************************************************************)
(* top.eval(); tick(top): the rising edge. Every fetcher steps; the        *)
(* load/store side registers new request signals (a channel that does not *)
(* request keeps its address and data registers); execution_done is       *)
(* whatever the DUT computes.                                              *)
(***************************************************************************)
Tick ==
    /\ phase = "tick"
    /\ \E reset \in [IC -> BOOLEAN], ws \in [IC -> CoreWarpStates], pc \in [IC -> Addr] :
          LET regs == [c \in IC |-> FetcherEdge(c, reset[c], ws[c], pc[c])]
          IN /\ fState' = [c \in IC |-> regs[c].state]
             /\ imValid' = [c \in IC |-> regs[c].valid]
             /\ imAddr' = [c \in IC |-> regs[c].addr]
             /\ fInstr' = [c \in IC |-> regs[c].instr]
    /\ \E ra \in [DC -> {NoReq} \cup DReadAddrs], wa \in [DC -> {NoReq} \cup DWriteAddrs],
         wd \in [DC -> Words] :
          /\ dmRValid' = [c \in DC |-> ra[c] # NoReq]
          /\ dmWValid' = [c \in DC |-> wa[c] # NoReq]
          /\ dmRAddr' = [c \in DC |-> IF ra[c] # NoReq THEN ra[c] ELSE dmRAddr[c]]
          /\ dmWAddr' = [c \in DC |-> IF wa[c] # NoReq THEN wa[c] ELSE dmWAddr[c]]
          /\ dmWData' = [c \in DC |-> IF wa[c] # NoReq THEN wd[c] ELSE dmWData[c]]
    /\ execDone' \in BOOLEAN
    /\ cycle' = cycle + 1
    /\ phase' = "loop"
    /\ UNCHANGED <<setups, execStart, setupVars, imReady, imData, dmRReady, dmRData, dmWReady, dmRDataPtr>>

-----------------------------------------------------------------------------
SetupCalls ==
    \/ \E w \in Words : PushInstruction(w) \/ PushData(w)
    \/ \E a \in Addr, w \in Words : LoadInstruction(a, w) \/ SetInstruction(a, w) \/ SetData(a, w)
    \/ \E bi, bd, nb, nw \in Words : SetKernelConfig(bi, bd, nb, nw)

Next ==
    \/ SetupCalls
    \/ SimulateStart
    \/ SimulateTimeout \/ SimulateDone \/ SimulateEval
    \/ ImemProcess \/ DmemProcess \/ Tick

Spec == Init /\ [][Next]_vars

(***************************************************************************)
(* simulate() is a straight loop on one host thread with no suspension     *)
(* point (spec Sec. 5): once it has started, each of its steps that is     *)
(* enabled is taken. The setup calls of the test code get no fairness.     *)
(***************************************************************************)
SimulateStep ==
    \/ SimulateTimeout \/ SimulateDone \/ SimulateEval
    \/ ImemProcess \/ DmemProcess \/ Tick

FairSpec == Spec /\ WF_vars(SimulateStep)

-----------------------------------------------------------------------------
(* Every variable holds a value of its kind.                               *)
TypeOK ==
    /\ phase \in Phases
    /\ setups \in 0..MaxSetup
    /\ cycle \in 0..MaxCycles
    /\ execStart \in BOOLEAN /\ execDone \in BOOLEAN
    /\ kernelConfig \in [0..3 -> Words]
    /\ imem \in [Addr -> Words] /\ istackPtr \in Addr
    /\ dmem \in [Addr -> Words] /\ dstackPtr \in Addr
    /\ imValid \in [IC -> BOOLEAN] /\ imAddr \in [IC -> Addr]
    /\ imReady \in [IC -> BOOLEAN] /\ imData \in [IC -> Words]
    /\ dmRValid \in [DC -> BOOLEAN] /\ dmRAddr \in [DC -> Addr]
    /\ dmRReady \in [DC -> BOOLEAN] /\ dmRData \in [DC -> Words]
    /\ dmWValid \in [DC -> BOOLEAN] /\ dmWAddr \in [DC -> Addr]
    /\ dmWData \in [DC -> Words] /\ dmWReady \in [DC -> BOOLEAN]
    /\ dmRDataPtr \in [DC -> BOOLEAN]
    /\ fState \in [IC -> FetcherStates] /\ fInstr \in [IC -> Words]

(***************************************************************************)
(* A fetcher that has finished a fetch holds the word the instruction      *)
(* memory stores at the address it latched when the fetch began (0 for an  *)
(* address at or beyond MAX_SIZE): the valid/ready handshake of            *)
(* fetcher.sv and InstructionMemory::process, interleaved by simulate(),  *)
(* delivers the right word to the right channel.                           *)
(***************************************************************************)
FetchReturnsMemory ==
    \A c \in IC : fState[c] = "DONE" => fInstr[c] = ImemWord(imAddr[c])

(***************************************************************************)
(* A fetch never waits more than one clock: at every rising edge a fetcher *)
(* that is FETCHING either completes or is reset, whatever the address     *)
(* (InstructionMemory::process answers every valid channel in the cycle).  *)
(***************************************************************************)
FetchLatency ==
    [][phase = "tick" =>
         \A c \in IC : fState[c] = "FETCHING" => fState'[c] \in {"DONE", "IDLE"}]_vars

(***************************************************************************)
(* When the clock rises, every ready bit the memories drive equals the     *)
(* valid bit the DUT raised in that cycle, on every channel of both        *)
(* memories (sec. 4.5 of the spec: ready in cycle t iff valid in cycle t). *)
(***************************************************************************)
ReadyMirrorsValid ==
    phase = "tick" =>
        /\ imReady = imValid
        /\ dmRReady = dmRValid
        /\ dmWReady = dmWValid

(***************************************************************************)
(* Write-first ordering of DataMemory::process: when the clock rises, every*)
(* in-range read served in this cycle returns the memory as it is after    *)
(* all of this cycle's writes, so a read and a write of one address in the *)
(* same cycle (on any channels) return the newly written word.             *)
(***************************************************************************)
ReadsSeeSameCycleWrites ==
    phase = "tick" =>
        \A c \in DC : dmRValid[c] /\ dmRAddr[c] < AddrMax => dmRData[c] = dmem[dmRAddr[c]]

(***************************************************************************)
(* Same-cycle writes to one address: the write loop of DataMemory::process *)
(* runs in channel order, so when the clock rises every in-range address   *)
(* written in the cycle holds the data of the highest-numbered channel     *)
(* that wrote it: the write path of the spec services the channels        *)
(* i in [0, N) in turn, so a later channel overwrites an earlier one.      *)
(***************************************************************************)
HighestWriterWins ==
    phase = "tick" =>
        \A c \in DC :
            dmWValid[c] /\ dmWAddr[c] < AddrMax
            /\ (\A d \in DC : d > c => ~(dmWValid[d] /\ dmWAddr[d] = dmWAddr[c]))
            => dmem[dmWAddr[c]] = dmWData[c]

(***************************************************************************)
(* Sec. 4.5 of the spec: a read at or beyond MAX_SIZE places 0 in the      *)
(* channel's read data. DataMemory::process does not do this for data      *)
(* reads (sim.hpp line 125 assigns the pointer, not the pointee).          *)
(***************************************************************************)
OutOfRangeReadZero ==
    phase = "tick" =>
        \A c \in DC : dmRValid[c] /\ dmRAddr[c] >= AddrMax => dmRData[c] = 0

(***************************************************************************)
(* Sec. 5 of the spec: simulate() returns false (time-out) only when the   *)
(* budget is exceeded, so a run that returns false has not seen the DUT    *)
(* finish. The loop tests execution_done only before a tick, so a DUT that *)
(* finishes on the last budgeted clock edge is reported as timed out.      *)
(***************************************************************************)
TimeoutMeansNotDone == phase = "timeout" => ~execDone

(***************************************************************************)
(* Sec. 4.5 of the spec: each memory keeps a monotonic push pointer used   *)
(* for test initialisation, so successive push_instruction / push_data     *)
(* calls fill successive cells and never come back to one filled before.  *)
(* The code post-increments a uint32_t stack_ptr (sim.hpp lines 69, 148): *)
(* after 2^32 pushes it wraps to 0, the push before that lands on         *)
(* MAX_SIZE, which process() never serves.                                *)
(***************************************************************************)
PushPtrMonotonic ==
    [][istackPtr' >= istackPtr /\ dstackPtr' >= dstackPtr]_vars

(***************************************************************************)
(* Spec Sec. 4.6 step 3 and Sec. 5: simulate() always returns, true when   *)
(* the DUT raised execution_done and false when the budget ran out; the    *)
(* only way out of the loop besides these is the host crash of sim.hpp     *)
(* line 125. Needs the loop condition and the ++cycle of every iteration   *)
(* to agree.                                                               *)
(***************************************************************************)
SimulateReturns ==
    phase \in {"loop", "imem", "dmem", "tick"} ~> phase \in {"finished", "timeout", "crashed"}

-----------------------------------------------------------------------------
(***************************************************************************)
(* The refinement mapping onto FetchService: the memory a fetch sees is    *)
(* ImemWord (0 at MAX_SIZE), the run starts with execution_start, and a    *)
(* channel's fetch is its fetcher's state, read address and instruction    *)
(* registers. Phases inside a cycle map to stuttering steps.               *)
(***************************************************************************)
FS == INSTANCE FetchService WITH
        Chan <- IC, Addrs <- Addr,
        mem <- [a \in Addr |-> ImemWord(a)],
        running <- phase # "setup",
        fetch <- [c \in IC |-> [state |-> fState[c], addr |-> imAddr[c], instr |-> fInstr[c]]]

(***************************************************************************)
(* The harness and the fetchers implement FetchService: instruction memory *)
(* changes only before simulate(), and every clock edge moves each fetcher *)
(* by one legal step, a waiting fetch always completing (with the word at  *)
(* its address, 0 beyond MAX_SIZE) or being reset.                         *)
(***************************************************************************)
FetchServiceRefined == FS!Spec

(***************************************************************************)
(* The refinement mapping onto DataService: the memory is DataMemory's,    *)
(* the run starts with execution_start, a channel's read or write request  *)
(* is its address while the valid bit is up, and the read data is the      *)
(* DUT's data_mem_read_data. The memory serves the addresses below         *)
(* MAX_SIZE.                                                               *)
(***************************************************************************)
DS == INSTANCE DataService WITH
        Chan <- DC, Addrs <- Addr, Served <- 0..(AddrMax - 1),
        mem <- dmem,
        running <- phase # "setup",
        rreq <- [c \in DC |-> IF dmRValid[c] THEN dmRAddr[c] ELSE NoReq],
        wreq <- [c \in DC |-> IF dmWValid[c] THEN dmWAddr[c] ELSE NoReq],
        wdata <- dmWData,
        rdata <- dmRData

(***************************************************************************)
(* The harness implements DataService: during simulate() DataMemory        *)
(* changes only at addresses below MAX_SIZE that a valid write of the      *)
(* cycle names, each to the data of one of its writers, and every valid    *)
(* in-range read returns the memory after the cycle's writes (the write    *)
(* loop of process() runs before the read loop).                           *)
(***************************************************************************)
DataServiceRefined == DS!Spec
=============================================================================
