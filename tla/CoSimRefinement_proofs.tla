----------------------- MODULE CoSimRefinement_proofs -----------------------
(***************************************************************************)
(* The co-simulation harness with its fetchers implements FetchService     *)
(* under the mapping FS of module CoSim, for every number of channels,     *)
(* every MAX_SIZE and every cycle budget. The argument rests on FetchInv   *)
(* of CoSim_proofs: a fetcher waiting at a clock edge has been answered    *)
(* with the word at its address in that cycle.                             *)
(*                                                                         *)
(* The data side implements DataService under the mapping DS of CoSim:     *)
(* the argument needs only TypeOK and the fact that the write loop's last  *)
(* writer of an address exists whenever some channel writes it.           *)
(***************************************************************************)
EXTENDS CoSim_proofs, WellFoundedInduction

\* The fetch record of channel c that the mapping builds, before and after a step.
Fetch(c) == [state |-> fState[c], addr |-> imAddr[c], instr |-> fInstr[c]]

\* The memory the mapping builds.
MappedMem == [a \in Addr |-> ImemWord(a)]

(***************************************************************************)
(* One fetcher edge is one ChannelStep of FetchService: reset clears it,   *)
(* an idle fetcher begins at pc or stays, an answered waiting fetcher      *)
(* completes with the word at its address, a done fetcher is released or  *)
(* stays.                                                                  *)
(***************************************************************************)
LEMMA FetcherEdgeStep ==
    ASSUME TypeOK, NEW c \in IC, NEW reset \in BOOLEAN, NEW ws \in WarpStates,
           NEW pc \in Addr,
           fState[c] = "FETCHING" => imValid[c],
           imValid[c] => Answered(c)
    PROVE  LET r == FetcherEdge(c, reset, ws, pc)
           IN  FS!ChannelStep(Fetch(c), [state |-> r.state, addr |-> r.addr, instr |-> r.instr])
<1> DEFINE f == Fetch(c)
<1> DEFINE r == FetcherEdge(c, reset, ws, pc)
<1> DEFINE g == [state |-> r.state, addr |-> r.addr, instr |-> r.instr]
<1>1. FetcherRegs(c).state = fState[c] /\ FetcherRegs(c).addr = imAddr[c]
      /\ FetcherRegs(c).instr = fInstr[c]
  BY DEF FetcherRegs
<1>2. fState[c] \in FetcherStates /\ imAddr[c] \in Addr /\ fInstr[c] \in Words
  BY DEF TypeOK
<1>3. CASE reset
  <2>1. g = FS!Cleared
    BY <1>3 DEF FetcherEdge, FS!Cleared
  <2>2. QED
    BY <2>1 DEF FS!ChannelStep, FS!Resets
<1>4. CASE ~reset /\ fState[c] = "IDLE" /\ ws = "FETCH"
  <2>1. r.state = "FETCHING" /\ r.instr = fInstr[c]
    BY <1>4 DEF FetcherEdge, FetcherRegs
  <2>2. QED
    BY <1>4, <2>1 DEF FS!ChannelStep, FS!Begins, Fetch
<1>5. CASE ~reset /\ fState[c] = "FETCHING"
  <2>1. imReady[c] /\ imData[c] = ImemWord(imAddr[c])
    BY <1>5 DEF Answered
  <2>a. r.state = "DONE" /\ r.addr = imAddr[c] /\ r.instr = imData[c]
    BY <1>5, <2>1 DEF FetcherEdge, FetcherRegs
  <2>b. MappedMem[f.addr] = ImemWord(imAddr[c])
    BY <1>2 DEF MappedMem, Fetch
  <2>2. QED
    BY <1>5, <2>1, <2>a, <2>b DEF FS!ChannelStep, FS!Completes, Fetch, MappedMem
<1>6. CASE ~reset /\ fState[c] = "DONE" /\ ws = "DECODE"
  <2>1. r.state = "IDLE" /\ r.addr = imAddr[c] /\ r.instr = fInstr[c]
    BY <1>6 DEF FetcherEdge, FetcherRegs
  <2>2. QED
    BY <1>6, <2>1 DEF FS!ChannelStep, FS!Releases, Fetch
<1>7. CASE ~reset /\ ~(fState[c] = "IDLE" /\ ws = "FETCH") /\ fState[c] # "FETCHING"
           /\ ~(fState[c] = "DONE" /\ ws = "DECODE")
  <2>0. r = FetcherRegs(c)
    BY <1>7 DEF FetcherEdge
  <2>1. g = f
    BY <1>1, <2>0 DEF Fetch
  <2>2. QED
    BY <1>7, <2>1 DEF FS!ChannelStep, Fetch
<1>8. QED
  BY <1>3, <1>4, <1>5, <1>6, <1>7

(***************************************************************************)
(* A setup call changes at most one cell of the instruction memory, so it  *)
(* maps to a Store of that cell (a store of the value already there when  *)
(* nothing changes). No fetcher register moves during setup.              *)
(***************************************************************************)
LEMMA SetupStore ==
    ASSUME TypeOK, TypeOK', SetupIdle, SetupCalls
    PROVE  \E a \in Addr, w \in Words : FS!Store(a, w)
<1>1. phase = "setup" /\ phase' = "setup" /\ UNCHANGED <<fState, imAddr, fInstr>>
  BY DEF SetupCalls, PushInstruction, PushData, LoadInstruction, SetInstruction,
         SetData, SetKernelConfig, SetupStep, imVars, dutVars
<1>2. \E a \in Addr : \A b \in Addr \ {a} : imem'[b] = imem[b]
  BY DEF SetupCalls, PushInstruction, PushData, LoadInstruction, SetInstruction,
         SetData, SetKernelConfig, TypeOK
<1>3. PICK a \in Addr : \A b \in Addr \ {a} : imem'[b] = imem[b]
  BY <1>2
<1>4. ImemWord(a)' \in Words
  BY WordsAssumption DEF ImemWord, TypeOK
<1>5. [b \in Addr |-> ImemWord(b)'] = [MappedMem EXCEPT ![a] = ImemWord(a)']
  BY <1>3 DEF MappedMem, ImemWord
<1>6. \A c \in IC : fState[c] = "IDLE"
  BY <1>1 DEF SetupIdle
<1>7. FS!Store(a, ImemWord(a)')
  BY <1>1, <1>5, <1>6 DEF FS!Store, MappedMem
<1>8. QED
  BY <1>4, <1>7

LEMMA RefinementInit == Init => FS!Init
BY DEF Init, FS!Init, FS!Cleared, ImemWord

LEMMA RefinementNext == FetchInv /\ FetchInv' /\ [Next]_vars => [FS!Next]_FS!vars
<1> SUFFICES ASSUME FetchInv, FetchInv', [Next]_vars PROVE [FS!Next]_FS!vars
  OBVIOUS
<1> USE DEF FetchInv, TypeInv
<1>1. CASE SetupCalls
  BY <1>1, SetupStore DEF FS!Next
<1>2. CASE SimulateStart
  <2>1. phase = "setup" /\ phase' = "loop" /\ UNCHANGED <<imem, fState, imAddr, fInstr>>
    BY <1>2 DEF SimulateStart, setupVars, imVars, dutVars
  <2>2. FS!Start
    BY <2>1 DEF FS!Start, ImemWord
  <2>3. QED
    BY <2>2 DEF FS!Next
\* Steps inside a cycle move no fetcher register and no memory cell.
<1>3. CASE SimulateTimeout \/ SimulateDone \/ SimulateEval \/ ImemProcess \/ DmemProcess
  <2>1. phase # "setup" /\ phase' # "setup" /\ UNCHANGED <<imem, fState, imAddr, fInstr>>
    BY <1>3 DEF SimulateTimeout, SimulateDone, SimulateEval, ImemProcess, DmemProcess,
                setupVars, imVars, dutVars
  <2>2. QED
    BY <2>1 DEF FS!vars, ImemWord
<1>4. CASE Tick
  <2>1. PICK reset \in [IC -> BOOLEAN], ws \in [IC -> CoreWarpStates], pc \in [IC -> Addr] :
           LET regs == [c \in IC |-> FetcherEdge(c, reset[c], ws[c], pc[c])]
           IN /\ fState' = [c \in IC |-> regs[c].state]
              /\ imValid' = [c \in IC |-> regs[c].valid]
              /\ imAddr' = [c \in IC |-> regs[c].addr]
              /\ fInstr' = [c \in IC |-> regs[c].instr]
    BY <1>4 DEF Tick
  <2>2. phase = "tick" /\ phase' = "loop" /\ imem' = imem
    BY <1>4 DEF Tick, setupVars
  <2>3. ASSUME NEW c \in IC
        PROVE  FS!ChannelStep(Fetch(c), Fetch(c)')
    <3> DEFINE r == FetcherEdge(c, reset[c], ws[c], pc[c])
    <3>1. Fetch(c)' = [state |-> r.state, addr |-> r.addr, instr |-> r.instr]
      BY <2>1 DEF Fetch
    <3>2. imValid[c] => Answered(c)
      BY <2>2 DEF ServedThisCycle
    <3>3. fState[c] = "FETCHING" => imValid[c]
      BY DEF FetchingValid
    <3>4. reset[c] \in BOOLEAN /\ ws[c] \in WarpStates /\ pc[c] \in Addr
      BY CoreAssumption
    <3>5. FS!ChannelStep(Fetch(c), [state |-> r.state, addr |-> r.addr, instr |-> r.instr])
      BY <3>2, <3>3, <3>4, FetcherEdgeStep
    <3>6. QED
      BY <3>1, <3>5
  <2>4. [c \in IC |-> Fetch(c)'] \in [IC -> FS!FetchRec]
    BY DEF TypeOK, Fetch, FS!FetchRec, FS!States, FetcherStates
  <2>5. FS!Clock
    BY <2>2, <2>3, <2>4 DEF FS!Clock, Fetch, ImemWord
  <2>6. QED
    BY <2>5 DEF FS!Next
<1>5. CASE UNCHANGED vars
  BY <1>5 DEF vars, setupVars, imVars, dutVars, FS!vars, ImemWord
<1>6. QED
  BY <1>1, <1>2, <1>3, <1>4, <1>5 DEF Next

(***************************************************************************)
(* The harness and the fetchers implement FetchService                     *)
(* (FetchServiceRefined of run cosim_fetch): instruction memory changes    *)
(* only before simulate(), and every clock edge moves each fetcher by one  *)
(* legal step, a waiting fetch completing with the word at its address.    *)
(***************************************************************************)
THEOREM Refinement == Spec => FetchServiceRefined
<1>1. Spec => []FetchInv
  BY FetchCorrect
<1>2. QED
  BY <1>1, RefinementInit, RefinementNext, PTL DEF Spec, FetchServiceRefined, FS!Spec

-----------------------------------------------------------------------------
(* The data side.                                                          *)

USE ChannelAssumption, AddrAssumption, WordsAssumption DEF DC, Addr

\* A nonempty set of naturals has a least element.
LEMMA LeastNat ==
    ASSUME NEW S \in SUBSET Nat, S # {}
    PROVE  \E j \in S : \A k \in S : j <= k
<1>1. IsWellFoundedOn(OpToRel(<, Nat), Nat)
  BY NatLessThanWellFounded
<1>2. PICK x \in S : \A y \in S : ~(<<y, x>> \in OpToRel(<, Nat))
  BY <1>1, WFMin
<1>3. ASSUME NEW y \in S PROVE x <= y
  <2>1. ~(<<y, x>> \in OpToRel(<, Nat)) /\ <<y, x>> \in Nat \X Nat
    BY <1>2
  <2>2. ~(y < x)
    BY <2>1, Zenon DEF OpToRel
  <2>3. QED
    BY <2>2
<1>4. QED
  BY <1>3

(***************************************************************************)
(* Some channel of the write loop is the last to write an address that any *)
(* channel writes, so MemAfterWrites takes its CHOOSE over a nonempty set. *)
(***************************************************************************)
LEMMA LastWriterExists ==
    ASSUME NEW a, WritersOf(a) # {}
    PROVE  \E c \in DC : LastWriter(a, c)
<1> DEFINE N == NumDataChannels - 1
<1> DEFINE S == {k \in 0..N : N - k \in WritersOf(a)}
<1>0. PICK c \in WritersOf(a) : TRUE
  OBVIOUS
<1>1. S \in SUBSET Nat /\ S # {}
  <2>1. N - c \in S
    BY <1>0 DEF WritersOf
  <2>2. QED
    BY <2>1
<1>2. PICK j \in S : \A k \in S : j <= k
  BY <1>1, LeastNat
<1>3. N - j \in WritersOf(a) /\ N - j \in DC
  BY <1>2 DEF WritersOf
<1>4. ASSUME NEW d \in WritersOf(a) PROVE d <= N - j
  <2>1. N - d \in S
    BY DEF WritersOf
  <2>2. QED
    BY <1>2, <2>1 DEF WritersOf
<1>5. QED
  BY <1>3, <1>4 DEF LastWriter

\* The mapped request of a data channel: its address while valid, else NoReq.
RReq == [c \in DC |-> IF dmRValid[c] THEN dmRAddr[c] ELSE NoReq]
WReq == [c \in DC |-> IF dmWValid[c] THEN dmWAddr[c] ELSE NoReq]

LEMMA DataInit == Init => DS!Init
BY DEF Init, DS!Init, DS!NoReq, NoReq

(***************************************************************************)
(* DataMemory::process is one Serve: every served address that a channel   *)
(* writes takes the data of its last writer, no other cell moves, and each *)
(* in-range read returns the memory after the writes.                      *)
(***************************************************************************)
LEMMA DmemServe ==
    ASSUME TypeOK, TypeOK', DmemProcess
    PROVE  DS!Serve
<1>1. /\ phase = "dmem" /\ phase' \in {"crashed", "tick"}
      /\ dmem' = MemAfterWrites
      /\ dmRData' = [c \in DC |->
                       IF dmRValid[c] /\ dmRAddr[c] < AddrMax THEN MemAfterWrites[dmRAddr[c]]
                       ELSE dmRData[c]]
      /\ UNCHANGED <<dmRValid, dmRAddr, dmWValid, dmWAddr, dmWData>>
  BY DEF DmemProcess, DmemWriteLoop, DmemReadLoop
\* The mapped writers of an address are the channels of the write loop.
<1>2. ASSUME NEW a \in Addr
      PROVE  {c \in DC : WReq[c] = a} = WritersOf(a)
  BY DEF WReq, WritersOf, TypeOK, NoReq
<1>3. ASSUME NEW a \in 0..(AddrMax - 1), WritersOf(a) # {}
      PROVE  \E c \in WritersOf(a) : MemAfterWrites[a] = dmWData[c]
  <2>1. \E c \in DC : LastWriter(a, c)
    BY <1>3, LastWriterExists
  <2>2. LastWriter(a, CHOOSE c \in DC : LastWriter(a, c))
        /\ (CHOOSE c \in DC : LastWriter(a, c)) \in DC
    BY <2>1
  <2>3. MemAfterWrites[a] = dmWData[CHOOSE c \in DC : LastWriter(a, c)]
    BY <2>1 DEF MemAfterWrites
  <2>4. QED
    BY <2>2, <2>3 DEF LastWriter
<1>4. ASSUME NEW a \in Addr, a \notin 0..(AddrMax - 1) \/ WritersOf(a) = {}
      PROVE  MemAfterWrites[a] = dmem[a]
  <2>1. ~(a < AddrMax /\ \E c \in DC : LastWriter(a, c))
    BY <1>4 DEF LastWriter
  <2>2. QED
    BY <2>1 DEF MemAfterWrites
<1>5. ASSUME NEW c \in DC, RReq[c] \in 0..(AddrMax - 1)
      PROVE  dmRData'[c] = dmem'[RReq[c]]
  BY <1>1, <1>5 DEF RReq, NoReq
<1>6. ASSUME NEW c \in DC, RReq[c] = NoReq
      PROVE  dmRData'[c] = dmRData[c]
  BY <1>1, <1>6 DEF RReq, NoReq, TypeOK
<1>7. \A a \in 0..(AddrMax - 1) : {c \in DC : WReq[c] = a} # {} =>
          \E c \in {c \in DC : WReq[c] = a} : dmem'[a] = dmWData[c]
  BY <1>1, <1>2, <1>3
<1>8. \A a \in Addr : a \notin 0..(AddrMax - 1) \/ {c \in DC : WReq[c] = a} = {} =>
          dmem'[a] = dmem[a]
  BY <1>1, <1>2, <1>4
<1>9. (phase # "setup") /\ (phase' # "setup") /\ RReq' = RReq /\ WReq' = WReq
  BY <1>1 DEF RReq, WReq
<1>10. dmem' \in [Addr -> Words] /\ dmRData' \in [DC -> Words] /\ dmWData' = dmWData
  BY <1>1 DEF TypeOK
<1>11. QED
  BY <1>5, <1>6, <1>7, <1>8, <1>9, <1>10, Zenon DEF DS!Serve, DS!Writers, DS!NoReq, RReq, WReq, NoReq

(***************************************************************************)
(* Each step of the harness is a step of DataService or leaves its state   *)
(* alone: push_data and data_mem[addr] = w store a word before the run,    *)
(* entering simulate() starts it, the clock edge registers new requests,   *)
(* DataMemory::process serves them, and every other step stutters.         *)
(***************************************************************************)
LEMMA DataNext == TypeOK /\ TypeOK' /\ [Next]_vars => [DS!Next]_DS!vars
<1> SUFFICES ASSUME TypeOK, TypeOK', [Next]_vars PROVE [DS!Next]_DS!vars
  OBVIOUS
<1>1. CASE \E w \in Words : PushData(w)
  <2>1. PICK w \in Words : PushData(w)
    BY <1>1
  <2>2. /\ phase = "setup" /\ phase' = "setup"
        /\ dmem' = [dmem EXCEPT ![dstackPtr] = w]
        /\ UNCHANGED <<dmRValid, dmRAddr, dmWValid, dmWAddr, dmWData, dmRData>>
    BY <2>1 DEF PushData, SetupStep, dmVars
  <2>3. DS!Store(dstackPtr, w)
    BY <2>2 DEF DS!Store
  <2>4. QED
    BY <2>1, <2>3 DEF DS!Next, TypeOK
<1>2. CASE \E a \in Addr, w \in Words : SetData(a, w)
  <2>1. PICK a \in Addr, w \in Words : SetData(a, w)
    BY <1>2
  <2>2. /\ phase = "setup" /\ phase' = "setup"
        /\ dmem' = [dmem EXCEPT ![a] = w]
        /\ UNCHANGED <<dmRValid, dmRAddr, dmWValid, dmWAddr, dmWData, dmRData>>
    BY <2>1 DEF SetData, SetupStep, dmVars
  <2>3. DS!Store(a, w)
    BY <2>2 DEF DS!Store
  <2>4. QED
    BY <2>1, <2>3 DEF DS!Next
\* The other setup calls, and the steps of a cycle before the data memory,
\* touch neither the data memory nor the data channels.
<1>3. CASE \/ \E w \in Words : PushInstruction(w)
           \/ \E a \in Addr, w \in Words : LoadInstruction(a, w) \/ SetInstruction(a, w)
           \/ \E bi, bd, nb, nw \in Words : SetKernelConfig(bi, bd, nb, nw)
           \/ SimulateTimeout \/ SimulateDone \/ SimulateEval \/ ImemProcess
  <2>1. /\ (phase # "setup") = (phase' # "setup")
        /\ UNCHANGED <<dmem, dmRValid, dmRAddr, dmWValid, dmWAddr, dmWData, dmRData>>
    BY <1>3 DEF PushInstruction, LoadInstruction, SetInstruction, SetKernelConfig, SetupStep,
                SimulateTimeout, SimulateDone, SimulateEval, ImemProcess, dmVars, setupVars
  <2>2. QED
    BY <2>1 DEF DS!vars
<1>4. CASE SimulateStart
  <2>1. /\ phase = "setup" /\ phase' = "loop"
        /\ UNCHANGED <<dmem, dmRValid, dmRAddr, dmWValid, dmWAddr, dmWData, dmRData>>
    BY <1>4 DEF SimulateStart, dmVars, setupVars
  <2>2. DS!Start
    BY <2>1 DEF DS!Start
  <2>3. QED
    BY <2>2 DEF DS!Next
<1>5. CASE DmemProcess
  BY <1>5, DmemServe DEF DS!Next
\* The clock edge: the mapped requests are addresses or NoReq by TypeOK'.
<1>6. CASE Tick
  <2>1. phase = "tick" /\ phase' = "loop" /\ UNCHANGED <<dmem, dmRData>>
    BY <1>6 DEF Tick, setupVars
  <2>2. /\ RReq' \in [DC -> DS!Req]
        /\ WReq' \in [DC -> DS!Req]
        /\ dmWData' \in [DC -> Words]
    BY DEF TypeOK, RReq, WReq, DS!Req, DS!NoReq, NoReq
  <2>3. DS!Request
    BY <2>1, <2>2 DEF DS!Request, RReq, WReq
  <2>4. QED
    BY <2>3 DEF DS!Next
<1>7. CASE UNCHANGED vars
  BY <1>7 DEF vars, setupVars, dmVars, DS!vars
<1>8. QED
  BY <1>1, <1>2, <1>3, <1>4, <1>5, <1>6, <1>7 DEF Next, SetupCalls

(***************************************************************************)
(* The harness implements DataService (DataServiceRefined of run           *)
(* cosim_data) for any number of data channels, any MAX_SIZE and any      *)
(* requests of the DUT: the memory changes only by the test's stores      *)
(* before simulate() and by DataMemory::process, which writes each served  *)
(* address from one of its writers and answers every in-range read from    *)
(* the memory after the writes.                                            *)
(***************************************************************************)
THEOREM DataRefinement == Spec => DataServiceRefined
<1>1. Spec => []TypeOK
  BY TypeOKHolds
<1>2. QED
  BY <1>1, DataInit, DataNext, PTL DEF Spec, DataServiceRefined, DS!Spec
=============================================================================
