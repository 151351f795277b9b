---------------------------- MODULE CoSim_proofs ----------------------------
(***************************************************************************)
(* Proofs about the co-simulation harness, for every number of channels,  *)
(* every MAX_SIZE, every word set and every cycle budget.                  *)
(***************************************************************************)
EXTENDS CoSim, TLAPS

USE ChannelAssumption, AddrAssumption, WordsAssumption, BoundAssumption, CoreAssumption
    DEF IC, DC, Addr, FetcherStates, WarpStates

\* The registers of a fetcher, as FetcherEdge returns them.
FetcherRegsType == [state : FetcherStates, valid : BOOLEAN, addr : Addr, instr : Words]

(***************************************************************************)
(* simulate() is inside a loop iteration only while cycle < max_num_cycles:*)
(* TypeOK needs this to bound the counter at the clock edge.               *)
(***************************************************************************)
LoopBound == phase \in {"imem", "dmem", "tick"} => cycle < MaxCycles

TypeInv == TypeOK /\ LoopBound

(***************************************************************************)
(* The strengthening of FetchReturnsMemory that is inductive: during setup *)
(* no fetcher has begun; a FETCHING fetcher keeps its valid bit raised;    *)
(* from InstructionMemory::process until the clock edge every valid       *)
(* channel is answered with the word at its address.                       *)
(***************************************************************************)
SetupIdle == phase = "setup" => \A c \in IC : fState[c] = "IDLE"

FetchingValid == \A c \in IC : fState[c] = "FETCHING" => imValid[c]

Answered(c) == imReady[c] /\ imData[c] = ImemWord(imAddr[c])

ServedThisCycle ==
    phase \in {"dmem", "tick"} => \A c \in IC : imValid[c] => Answered(c)

FetchInv == TypeInv /\ SetupIdle /\ FetchingValid /\ ServedThisCycle /\ FetchReturnsMemory

LEMMA FetcherEdgeType ==
    ASSUME TypeOK, NEW c \in IC, NEW reset \in BOOLEAN, NEW ws \in WarpStates,
           NEW pc \in Addr
    PROVE  FetcherEdge(c, reset, ws, pc) \in FetcherRegsType
<1>1. FetcherRegs(c) \in FetcherRegsType
  BY DEF TypeOK, FetcherRegs, FetcherRegsType
<1>2. [state |-> "IDLE", valid |-> FALSE, addr |-> 0, instr |-> 0] \in FetcherRegsType
  BY DEF FetcherRegsType
<1>3. [FetcherRegs(c) EXCEPT !.state = "FETCHING", !.valid = TRUE, !.addr = pc] \in FetcherRegsType
  BY <1>1 DEF FetcherRegsType
<1>4. [FetcherRegs(c) EXCEPT !.state = "DONE", !.valid = FALSE, !.instr = imData[c]] \in FetcherRegsType
  BY <1>1 DEF FetcherRegsType, TypeOK
<1>5. [FetcherRegs(c) EXCEPT !.state = "IDLE"] \in FetcherRegsType
  BY <1>1 DEF FetcherRegsType
<1>6. QED
  BY <1>1, <1>2, <1>3, <1>4, <1>5 DEF FetcherEdge

LEMMA MemAfterWritesType ==
    ASSUME TypeOK
    PROVE  MemAfterWrites \in [Addr -> Words]
<1>1. ASSUME NEW a \in Addr, \E c \in DC : LastWriter(a, c)
      PROVE  dmWData[CHOOSE c \in DC : LastWriter(a, c)] \in Words
  BY <1>1 DEF TypeOK
<1>2. QED
  BY <1>1 DEF MemAfterWrites, TypeOK

LEMMA InitTypeInv == Init => TypeInv
<1> SUFFICES ASSUME Init PROVE TypeInv
  OBVIOUS
<1>1. phase \in Phases /\ setups \in 0..MaxSetup /\ cycle \in 0..MaxCycles
  BY DEF Init, Phases
<1>2. execStart \in BOOLEAN /\ execDone \in BOOLEAN /\ kernelConfig \in [0..3 -> Words]
  BY DEF Init
<1>3. imem \in [Addr -> Words] /\ istackPtr \in Addr /\ dmem \in [Addr -> Words] /\ dstackPtr \in Addr
  BY DEF Init
<1>4. imValid \in [IC -> BOOLEAN] /\ imAddr \in [IC -> Addr] /\ imReady \in [IC -> BOOLEAN] /\ imData \in [IC -> Words]
  BY DEF Init
<1>5. dmRValid \in [DC -> BOOLEAN] /\ dmRAddr \in [DC -> Addr] /\ dmRReady \in [DC -> BOOLEAN] /\ dmRData \in [DC -> Words]
  BY DEF Init
<1>6. dmWValid \in [DC -> BOOLEAN] /\ dmWAddr \in [DC -> Addr] /\ dmWData \in [DC -> Words] /\ dmWReady \in [DC -> BOOLEAN]
  BY DEF Init
<1>7. dmRDataPtr \in [DC -> BOOLEAN] /\ fState \in [IC -> FetcherStates] /\ fInstr \in [IC -> Words]
  BY DEF Init
<1>8. QED
  BY <1>1, <1>2, <1>3, <1>4, <1>5, <1>6, <1>7 DEF Init, TypeInv, TypeOK, LoopBound

LEMMA NextTypeInv == TypeInv /\ [Next]_vars => TypeInv'
<1> SUFFICES ASSUME TypeInv, [Next]_vars PROVE TypeInv'
  OBVIOUS
<1> USE DEF TypeInv, TypeOK, LoopBound, Phases
<1>1. ASSUME NEW w \in Words, PushInstruction(w) PROVE TypeInv'
  <2>1. imem' \in [Addr -> Words] /\ istackPtr' \in Addr
    BY <1>1 DEF PushInstruction
  <2>2. /\ SetupStep /\ UNCHANGED <<kernelConfig, dmem, dstackPtr>>
    BY <1>1 DEF PushInstruction
  <2>3. QED
    BY <2>1, <2>2 DEF SetupStep, setupVars, imVars, dmVars, dutVars
<1>2. ASSUME NEW w \in Words, PushData(w) PROVE TypeInv'
  <2>1. dmem' \in [Addr -> Words] /\ dstackPtr' \in Addr
    BY <1>2 DEF PushData
  <2>2. /\ SetupStep /\ UNCHANGED <<kernelConfig, imem, istackPtr>>
    BY <1>2 DEF PushData
  <2>3. QED
    BY <2>1, <2>2 DEF SetupStep, setupVars, imVars, dmVars, dutVars
<1>3. ASSUME NEW a \in Addr, NEW w \in Words, LoadInstruction(a, w) PROVE TypeInv'
  <2>1. imem' \in [Addr -> Words]
    BY <1>3 DEF LoadInstruction
  <2>2. QED
    BY <1>3, <2>1 DEF LoadInstruction, SetupStep, setupVars, imVars, dmVars, dutVars
<1>4. ASSUME NEW a \in Addr, NEW w \in Words, SetInstruction(a, w) PROVE TypeInv'
  BY <1>4 DEF SetInstruction, SetupStep, setupVars, imVars, dmVars, dutVars
<1>5. ASSUME NEW a \in Addr, NEW w \in Words, SetData(a, w) PROVE TypeInv'
  BY <1>5 DEF SetData, SetupStep, setupVars, imVars, dmVars, dutVars
<1>6. ASSUME NEW bi \in Words, NEW bd \in Words, NEW nb \in Words, NEW nw \in Words,
             SetKernelConfig(bi, bd, nb, nw)
      PROVE  TypeInv'
  BY <1>6 DEF SetKernelConfig, SetupStep, setupVars, imVars, dmVars, dutVars
<1>7. CASE SimulateStart
  BY <1>7 DEF SimulateStart, setupVars, imVars, dmVars, dutVars
<1>8. CASE SimulateTimeout
  BY <1>8 DEF SimulateTimeout, setupVars, imVars, dmVars, dutVars
<1>9. CASE SimulateDone
  BY <1>9 DEF SimulateDone, setupVars, imVars, dmVars, dutVars
<1>10. CASE SimulateEval
  BY <1>10 DEF SimulateEval, setupVars, imVars, dmVars, dutVars
<1>11. CASE ImemProcess
  BY <1>11 DEF ImemProcess, ImemWord, Addr, setupVars, imVars, dmVars, dutVars
<1>12. CASE DmemProcess
  <2>1. MemAfterWrites \in [Addr -> Words]
    BY MemAfterWritesType
  <2>2. QED
    BY <1>12, <2>1 DEF DmemProcess, DmemWriteLoop, DmemReadLoop, Addr,
                       setupVars, imVars, dmVars, dutVars
<1>13. CASE Tick
  <2>1. PICK reset \in [IC -> BOOLEAN], ws \in [IC -> CoreWarpStates], pc \in [IC -> Addr] :
           LET regs == [c \in IC |-> FetcherEdge(c, reset[c], ws[c], pc[c])]
           IN /\ fState' = [c \in IC |-> regs[c].state]
              /\ imValid' = [c \in IC |-> regs[c].valid]
              /\ imAddr' = [c \in IC |-> regs[c].addr]
              /\ fInstr' = [c \in IC |-> regs[c].instr]
    BY <1>13 DEF Tick
  <2>2. \A c \in IC : FetcherEdge(c, reset[c], ws[c], pc[c]) \in FetcherRegsType
    BY FetcherEdgeType
  <2>3. /\ fState' \in [IC -> FetcherStates] /\ imValid' \in [IC -> BOOLEAN]
        /\ imAddr' \in [IC -> Addr] /\ fInstr' \in [IC -> Words]
    BY <2>1, <2>2 DEF FetcherRegsType
  <2>4. PICK ra \in [DC -> {NoReq} \cup DReadAddrs], wa \in [DC -> {NoReq} \cup DWriteAddrs],
             wd \in [DC -> Words] :
           /\ dmRValid' = [c \in DC |-> ra[c] # NoReq]
           /\ dmWValid' = [c \in DC |-> wa[c] # NoReq]
           /\ dmRAddr' = [c \in DC |-> IF ra[c] # NoReq THEN ra[c] ELSE dmRAddr[c]]
           /\ dmWAddr' = [c \in DC |-> IF wa[c] # NoReq THEN wa[c] ELSE dmWAddr[c]]
           /\ dmWData' = [c \in DC |-> IF wa[c] # NoReq THEN wd[c] ELSE dmWData[c]]
    BY <1>13 DEF Tick
  <2>5. /\ dmRValid' \in [DC -> BOOLEAN] /\ dmWValid' \in [DC -> BOOLEAN]
        /\ dmRAddr' \in [DC -> Addr] /\ dmWAddr' \in [DC -> Addr]
        /\ dmWData' \in [DC -> Words]
    BY <2>4 DEF Addr
  <2>6. QED
    BY <1>13, <2>3, <2>5 DEF Tick, setupVars, imVars, dmVars, dutVars
<1>14. CASE UNCHANGED vars
  BY <1>14 DEF vars, setupVars, imVars, dmVars, dutVars
<1>15. QED
  BY <1>1, <1>2, <1>3, <1>4, <1>5, <1>6, <1>7, <1>8, <1>9, <1>10, <1>11, <1>12,
     <1>13, <1>14 DEF Next, SetupCalls

THEOREM TypeCorrect == Spec => []TypeInv
BY InitTypeInv, NextTypeInv, PTL DEF Spec

(***************************************************************************)
(* Every reachable state is well typed (TypeOK of run cosim_fetch and      *)
(* cosim_data), for all channel counts, MAX_SIZE, words and budgets.       *)
(***************************************************************************)
THEOREM TypeOKHolds == Spec => []TypeOK
BY TypeCorrect, PTL DEF TypeInv

(***************************************************************************)
(* One clock edge of a fetcher keeps its part of FetchInv: a fetcher whose *)
(* request was answered this cycle latches the word at its address.       *)
(***************************************************************************)
LEMMA FetcherEdgeInv ==
    ASSUME TypeOK, NEW c \in IC, NEW reset \in BOOLEAN, NEW ws \in WarpStates,
           NEW pc \in Addr,
           fState[c] = "FETCHING" => imValid[c],
           fState[c] = "DONE" => fInstr[c] = ImemWord(imAddr[c]),
           imValid[c] => Answered(c)
    PROVE  LET r == FetcherEdge(c, reset, ws, pc)
           IN  /\ r.state = "FETCHING" => r.valid
               /\ r.state = "DONE" => r.instr = ImemWord(r.addr)
<1>1. FetcherRegs(c).state = fState[c] /\ FetcherRegs(c).valid = imValid[c]
      /\ FetcherRegs(c).addr = imAddr[c] /\ FetcherRegs(c).instr = fInstr[c]
  BY DEF FetcherRegs
<1>2. QED
  BY <1>1 DEF FetcherEdge, Answered, TypeOK

THEOREM FetchCorrect == Spec => []FetchInv
<1>1. Init => FetchInv
  BY InitTypeInv DEF Init, FetchInv, SetupIdle, FetchingValid, ServedThisCycle, FetchReturnsMemory
<1>2. TypeInv /\ TypeInv' /\ FetchInv /\ [Next]_vars => FetchInv'
  <2> SUFFICES ASSUME TypeInv, TypeInv', FetchInv, [Next]_vars PROVE FetchInv'
    OBVIOUS
  <2> USE DEF FetchInv
  <2>1. CASE SetupCalls
    <3>1. phase = "setup" /\ phase' = "setup" /\ UNCHANGED <<imVars, fState, fInstr>>
      BY <2>1 DEF SetupCalls, PushInstruction, PushData, LoadInstruction, SetInstruction,
                  SetData, SetKernelConfig, SetupStep, imVars, dutVars
    <3>2. QED
      BY <3>1 DEF SetupIdle, FetchingValid, ServedThisCycle, FetchReturnsMemory, imVars,
                  FetcherStates
  <2>2. CASE SimulateStart \/ SimulateTimeout \/ SimulateDone \/ SimulateEval
    <3>1. phase' \in {"loop", "timeout", "finished", "imem"}
          /\ UNCHANGED <<imem, imVars, fState, fInstr>>
      BY <2>2 DEF SimulateStart, SimulateTimeout, SimulateDone, SimulateEval,
                  setupVars, imVars, dutVars
    <3>2. QED
      BY <3>1 DEF SetupIdle, FetchingValid, ServedThisCycle, FetchReturnsMemory, ImemWord,
                  imVars
  <2>3. CASE ImemProcess
    <3>1. /\ phase' = "dmem" /\ UNCHANGED <<imem, imValid, imAddr, fState, fInstr>>
          /\ imReady' = imValid
          /\ imData' = [c \in IC |-> IF imValid[c] THEN ImemWord(imAddr[c]) ELSE imData[c]]
      BY <2>3 DEF ImemProcess, setupVars, dutVars
    <3>2. QED
      BY <3>1 DEF SetupIdle, FetchingValid, ServedThisCycle, FetchReturnsMemory, ImemWord,
                  Answered, TypeInv, TypeOK
  <2>4. CASE DmemProcess
    <3>1. phase = "dmem" /\ phase' \in {"crashed", "tick"}
          /\ UNCHANGED <<imem, imVars, fState, fInstr>>
      BY <2>4 DEF DmemProcess, imVars, dutVars
    <3>2. QED
      BY <3>1 DEF SetupIdle, FetchingValid, ServedThisCycle, FetchReturnsMemory, ImemWord,
                  Answered, imVars
  <2>5. CASE Tick
    <3>1. PICK reset \in [IC -> BOOLEAN], ws \in [IC -> CoreWarpStates], pc \in [IC -> Addr] :
             LET regs == [c \in IC |-> FetcherEdge(c, reset[c], ws[c], pc[c])]
             IN /\ fState' = [c \in IC |-> regs[c].state]
                /\ imValid' = [c \in IC |-> regs[c].valid]
                /\ imAddr' = [c \in IC |-> regs[c].addr]
                /\ fInstr' = [c \in IC |-> regs[c].instr]
      BY <2>5 DEF Tick
    <3>2. phase = "tick" /\ phase' = "loop" /\ imem' = imem
      BY <2>5 DEF Tick, setupVars
    <3>3. ASSUME NEW c \in IC
          PROVE  /\ fState'[c] = "FETCHING" => imValid'[c]
                 /\ fState'[c] = "DONE" =>
                       fInstr'[c] = IF imAddr'[c] < AddrMax THEN imem[imAddr'[c]] ELSE 0
      <4> DEFINE r == FetcherEdge(c, reset[c], ws[c], pc[c])
      <4>1. /\ r.state = "FETCHING" => r.valid
            /\ r.state = "DONE" => r.instr = ImemWord(r.addr)
        <5>1. imValid[c] => Answered(c)
          BY <3>2 DEF ServedThisCycle
        <5>2. /\ fState[c] = "FETCHING" => imValid[c]
              /\ fState[c] = "DONE" => fInstr[c] = ImemWord(imAddr[c])
          BY DEF FetchingValid, FetchReturnsMemory
        <5>3. reset[c] \in BOOLEAN /\ ws[c] \in WarpStates /\ pc[c] \in Addr
          BY CoreAssumption
        <5>4. QED
          BY <5>1, <5>2, <5>3, FetcherEdgeInv DEF TypeInv
      <4>2. fState'[c] = r.state /\ imValid'[c] = r.valid /\ imAddr'[c] = r.addr
            /\ fInstr'[c] = r.instr
        BY <3>1
      <4>3. QED
        BY <4>1, <4>2 DEF ImemWord
    <3>4. QED
      BY <3>2, <3>3 DEF SetupIdle, FetchingValid, ServedThisCycle, FetchReturnsMemory, ImemWord
  <2>6. CASE UNCHANGED vars
    BY <2>6 DEF vars, setupVars, imVars, dutVars, SetupIdle, FetchingValid, ServedThisCycle,
                FetchReturnsMemory, ImemWord, Answered
  <2>7. QED
    BY <2>1, <2>2, <2>3, <2>4, <2>5, <2>6 DEF Next
<1>3. QED
  BY <1>1, <1>2, TypeCorrect, InitTypeInv, NextTypeInv, PTL DEF Spec

(***************************************************************************)
(* A finished fetch holds the word stored at its address (FetchReturnsMemory *)
(* of run cosim_fetch), for every number of channels and every MAX_SIZE.   *)
(***************************************************************************)
THEOREM FetchReturnsMemoryHolds == Spec => []FetchReturnsMemory
BY FetchCorrect, PTL DEF FetchInv

(***************************************************************************)
(* Only the clock edge leaves phase "tick": every other step of the        *)
(* harness waits for a phase of its own.                                   *)
(***************************************************************************)
LEMMA TickPhaseStep == ASSUME Next, phase = "tick" PROVE Tick
<1>1. ~SetupCalls
  BY DEF SetupCalls, PushInstruction, PushData, LoadInstruction, SetInstruction,
         SetData, SetKernelConfig, SetupStep
<1>2. ~(SimulateStart \/ SimulateTimeout \/ SimulateDone \/ SimulateEval)
  BY DEF SimulateStart, SimulateTimeout, SimulateDone, SimulateEval
<1>3. ~(ImemProcess \/ DmemProcess)
  BY DEF ImemProcess, DmemProcess
<1>4. QED
  BY <1>1, <1>2, <1>3 DEF Next

(***************************************************************************)
(* A fetch never waits more than one clock (FetchLatency of run            *)
(* cosim_fetch), for every number of channels: a FETCHING fetcher keeps   *)
(* valid raised, InstructionMemory::process has answered every valid      *)
(* channel before the edge, so the edge moves it to DONE, or reset clears  *)
(* it.                                                                     *)
(***************************************************************************)
THEOREM FetchLatencyHolds == Spec => FetchLatency
<1>1. FetchInv /\ [Next]_vars =>
         [phase = "tick" => \A c \in IC : fState[c] = "FETCHING" => fState'[c] \in {"DONE", "IDLE"}]_vars
  <2> SUFFICES ASSUME FetchInv, [Next]_vars
               PROVE  [phase = "tick" => \A c \in IC : fState[c] = "FETCHING" =>
                                                     fState'[c] \in {"DONE", "IDLE"}]_vars
    OBVIOUS
  <2>1. CASE UNCHANGED vars
    BY <2>1
  <2>2. CASE Next
    <3> SUFFICES ASSUME phase = "tick"
                 PROVE  \A c \in IC : fState[c] = "FETCHING" => fState'[c] \in {"DONE", "IDLE"}
      OBVIOUS
    <3>1. Tick
      BY <2>2, TickPhaseStep
    <3>2. PICK reset \in [IC -> BOOLEAN], ws \in [IC -> CoreWarpStates], pc \in [IC -> Addr] :
             LET regs == [c \in IC |-> FetcherEdge(c, reset[c], ws[c], pc[c])]
             IN /\ fState' = [c \in IC |-> regs[c].state]
                /\ imValid' = [c \in IC |-> regs[c].valid]
                /\ imAddr' = [c \in IC |-> regs[c].addr]
                /\ fInstr' = [c \in IC |-> regs[c].instr]
      BY <3>1 DEF Tick
    <3>3. ASSUME NEW c \in IC, fState[c] = "FETCHING"
          PROVE  fState'[c] \in {"DONE", "IDLE"}
      <4>1. imReady[c]
        BY <3>3 DEF FetchInv, FetchingValid, ServedThisCycle, Answered
      <4>2. FetcherEdge(c, reset[c], ws[c], pc[c]).state \in {"DONE", "IDLE"}
        BY <3>3, <4>1 DEF FetcherEdge, FetcherRegs
      <4>3. QED
        BY <3>2, <4>2
    <3>4. QED
      BY <3>3
  <2>3. QED
    BY <2>1, <2>2
<1>2. QED
  BY <1>1, FetchCorrect, PTL DEF Spec, FetchLatency

-----------------------------------------------------------------------------
(***************************************************************************)
(* The strengthening of ReadyMirrorsValid that is inductive: the           *)
(* instruction ready bits are set by InstructionMemory::process and must   *)
(* survive DataMemory::process untouched until the clock edge.             *)
(***************************************************************************)
ImReadyTracks == phase \in {"dmem", "tick"} => imReady = imValid

ServiceInv == ImReadyTracks /\ ReadyMirrorsValid /\ ReadsSeeSameCycleWrites

LEMMA ServiceInvInit == Init => ServiceInv
BY DEF Init, ServiceInv, ImReadyTracks, ReadyMirrorsValid, ReadsSeeSameCycleWrites

LEMMA ServiceInvNext == ServiceInv /\ [Next]_vars => ServiceInv'
<1> SUFFICES ASSUME ServiceInv, [Next]_vars PROVE ServiceInv'
  OBVIOUS
<1> USE DEF ServiceInv, ImReadyTracks, ReadyMirrorsValid, ReadsSeeSameCycleWrites
\* Steps that end outside the service window have nothing to keep.
<1>1. CASE SetupCalls
  <2>1. phase' = "setup"
    BY <1>1 DEF SetupCalls, PushInstruction, PushData, LoadInstruction, SetInstruction,
                SetData, SetKernelConfig, SetupStep
  <2>2. QED
    BY <2>1
<1>2. CASE SimulateStart \/ SimulateTimeout \/ SimulateDone \/ SimulateEval \/ Tick
  <2>1. phase' \in {"loop", "timeout", "finished", "imem"}
    BY <1>2 DEF SimulateStart, SimulateTimeout, SimulateDone, SimulateEval, Tick
  <2>2. QED
    BY <2>1
\* InstructionMemory::process raises exactly the valid channels' ready bits.
<1>3. CASE ImemProcess
  <2>1. phase' = "dmem" /\ imReady' = imValid /\ imValid' = imValid
    BY <1>3 DEF ImemProcess
  <2>2. QED
    BY <2>1
\* DataMemory::process: ready bits copy the valid bits, and every in-range
\* read gets the memory after the write loop, which is the new memory.
<1>4. CASE DmemProcess
  <2>1. /\ phase = "dmem" /\ phase' \in {"crashed", "tick"}
        /\ UNCHANGED <<imReady, imValid, dmRValid, dmRAddr, dmWValid>>
        /\ dmWReady' = dmWValid /\ dmRReady' = dmRValid
        /\ dmem' = MemAfterWrites
        /\ dmRData' = [c \in DC |->
                         IF dmRValid[c] /\ dmRAddr[c] < AddrMax THEN MemAfterWrites[dmRAddr[c]]
                         ELSE dmRData[c]]
    BY <1>4 DEF DmemProcess, DmemWriteLoop, DmemReadLoop, imVars
  <2>2. QED
    BY <2>1
<1>5. CASE UNCHANGED vars
  BY <1>5 DEF vars, imVars, dmVars, setupVars, dutVars
<1>6. QED
  BY <1>1, <1>2, <1>3, <1>4, <1>5 DEF Next

(***************************************************************************)
(* At every clock edge each ready bit of both memories equals the valid   *)
(* bit the DUT raised in that cycle (ReadyMirrorsValid of run cosim_data), *)
(* for any number of channels and any requests.                            *)
(***************************************************************************)
THEOREM ReadyMirrorsValidHolds == Spec => []ReadyMirrorsValid
<1>1. Spec => []ServiceInv
  BY ServiceInvInit, ServiceInvNext, PTL DEF Spec
<1>2. QED
  BY <1>1, PTL DEF ServiceInv

(***************************************************************************)
(* Write-first service: at every clock edge an in-range read answered in  *)
(* the cycle holds the memory after all of the cycle's writes              *)
(* (ReadsSeeSameCycleWrites of run cosim_data), for any number of data     *)
(* channels and any pattern of same-address reads and writes.             *)
(***************************************************************************)
THEOREM ReadsSeeSameCycleWritesHolds == Spec => []ReadsSeeSameCycleWrites
<1>1. Spec => []ServiceInv
  BY ServiceInvInit, ServiceInvNext, PTL DEF Spec
<1>2. QED
  BY <1>1, PTL DEF ServiceInv

(***************************************************************************)
(* A channel that writes address a and has no higher-numbered channel      *)
(* writing a is the one the write loop leaves in the cell: it is the       *)
(* unique LastWriter of a, so MemAfterWrites takes its data.               *)
(***************************************************************************)
LEMMA HighestWriterLands ==
    ASSUME TypeOK, NEW c \in DC, dmWValid[c], dmWAddr[c] < AddrMax,
           \A d \in DC : d > c => ~(dmWValid[d] /\ dmWAddr[d] = dmWAddr[c])
    PROVE  MemAfterWrites[dmWAddr[c]] = dmWData[c]
<1> DEFINE a == dmWAddr[c]
<1>1. a \in Addr
  BY DEF TypeOK
<1>2. LastWriter(a, c)
  BY DEF LastWriter, WritersOf
<1>3. ASSUME NEW e \in DC, LastWriter(a, e) PROVE e = c
  BY <1>2, <1>3 DEF LastWriter
<1>4. (CHOOSE e \in DC : LastWriter(a, e)) = c
  BY <1>2, <1>3
<1>5. QED
  BY <1>1, <1>2, <1>4 DEF MemAfterWrites

LEMMA HighestWriterNext ==
    TypeOK /\ HighestWriterWins /\ [Next]_vars => HighestWriterWins'
<1> SUFFICES ASSUME TypeOK, HighestWriterWins, [Next]_vars PROVE HighestWriterWins'
  OBVIOUS
\* Every step but DataMemory::process ends outside the tick phase or stutters.
<1>1. CASE SetupCalls
  <2>1. phase' = "setup"
    BY <1>1 DEF SetupCalls, PushInstruction, PushData, LoadInstruction, SetInstruction,
                SetData, SetKernelConfig, SetupStep
  <2>2. QED
    BY <2>1 DEF HighestWriterWins
<1>2. CASE SimulateStart \/ SimulateTimeout \/ SimulateDone \/ SimulateEval \/ ImemProcess \/ Tick
  <2>1. phase' \in {"loop", "timeout", "finished", "imem", "dmem"}
    BY <1>2 DEF SimulateStart, SimulateTimeout, SimulateDone, SimulateEval, ImemProcess, Tick
  <2>2. QED
    BY <2>1 DEF HighestWriterWins
\* The write loop leaves each written cell with its highest writer's data.
<1>3. CASE DmemProcess
  <2>1. /\ dmem' = MemAfterWrites
        /\ UNCHANGED <<dmWValid, dmWAddr, dmWData>>
    BY <1>3 DEF DmemProcess, DmemWriteLoop
  <2>2. QED
    BY <2>1, HighestWriterLands DEF HighestWriterWins
<1>4. CASE UNCHANGED vars
  BY <1>4 DEF vars, dmVars, setupVars, HighestWriterWins
<1>5. QED
  BY <1>1, <1>2, <1>3, <1>4 DEF Next

(***************************************************************************)
(* Same-cycle writes to one address resolve by channel order: at every     *)
(* clock edge each in-range address written in the cycle holds the data   *)
(* of its highest-numbered writer (HighestWriterWins of run cosim_data),   *)
(* for any number of data channels and any pattern of writes.              *)
(***************************************************************************)
THEOREM HighestWriterWinsHolds == Spec => []HighestWriterWins
<1>1. Init => HighestWriterWins
  BY DEF Init, HighestWriterWins
<1>2. QED
  BY <1>1, HighestWriterNext, TypeOKHolds, PTL DEF Spec
=============================================================================
