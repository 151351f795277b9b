# Formal models of RISCV-gpu

This directory holds TLA+ models of the RISCV-gpu repository. TLC model-checks
them on small instances, and TLAPS proves some of their invariants for every
value of the constants.

## The system and its parts

RISCV-gpu is a SIMT GPU written in SystemVerilog, together with the host
software that drives it:

| Part | Source | What it does |
|---|---|---|
| Co-simulation harness | `src/sim/simlib/sim.hpp` | Wraps the Verilator model. `InstructionMemory` and `DataMemory` answer the DUT's memory channels once per cycle. `set_kernel_config` writes the launch parameters. `simulate()` runs the eval / done-check / serve / tick loop under a cycle budget. |
| Fetcher | `src/src/fetcher.sv` | One per warp. Handshakes an instruction-memory channel: IDLE, then FETCHING until `ready`, then DONE. |
| Register file | `reg_file.sv` (`src/unnamed/part_001`) | One per warp. Per-thread registers. Registers 0..3 are read-only and loaded at reset (zero, thread id, block id, block size). Masked writes take their value from the ALU, the LSU or the immediate. |
| Assembler front end | `src/sim/aslib` | `parse_num` and `str_to_reg` (`src/unnamed/part_000`, the number and register-name parser). The lexer. `parser.cpp`, which turns a line of tokens into an instruction or a `.blocks` / `.warps` directive, with error reports. The encoder. |
| Tests and build files | `src/unnamed/part_002`, CMake | Tests and build configuration. |

How the parts interact:
- The harness is the environment of the DUT. The fetchers and the load/store
  units raise requests, and `process()` answers them within the same cycle.
- The register file is written by the decoder and the ALU/LSU of a core.
- The assembler produces the words the tests push into instruction memory.

## Modules

| Module | Models | State and actions |
|---|---|---|
| `CoSim` | `sim.hpp` and `fetcher.sv` | The memories and stack pointers; the request, ready and data signals of every channel; `phase`, the program counter of `simulate()`; the fetcher registers; `execution_done`. Every setup call is one action: `PushInstruction`, `LoadInstruction`, `SetInstruction`, `PushData`, `SetData`, `SetKernelConfig`. Every step of the simulate loop is one action: `SimulateStart`, `SimulateTimeout`, `SimulateDone`, `SimulateEval`, `ImemProcess`, `DmemProcess`, `Tick`. `ImemProcess` and `DmemProcess` each cover a whole `process()` call. `DmemProcess` runs the write loop first, then the read loop, and includes the nulled `read_data` pointer of an out-of-range read. `Tick` is the clock edge: every fetcher takes its `always_ff` step (`FetcherEdge`), and the unmodelled cores pick new data requests and `done` nondeterministically. |
| `RegFile` | `reg_file.sv` | `registers`, the `warp_id` / `block_id` / `block_size` inputs, and `halted` (a `$error` stopped the simulation, or not: Verilator may do either). `Reset` loads registers 0..3. `Write` is the whole enabled write edge for any mask, destination and mux. |
| `NumParse` | `parse_num`, `str_to_reg` | Pure operators with the code's control flow: sign, prefix (`0x`, `0b`, leading `0` for octal), the `is_numeric` scan, the `from_chars` int32 range check (a saturating fold that flags overflow), and the `consumed` count. The state machine applies them to one input at a time. |
| `Parser` | `parser.cpp` | `ParseLine` follows `Parser::parse_line`: directive or instruction, then `EXPECT_OR_RETURN` shape checks, `CHECK_REG` register-kind checks in code order, the trailing-token check, and the error list. Tokens are records: the kind, the mnemonic class, scalar or vector, the cross-width flag. Literal strings are abstracted away. The inputs are lines the lexer can produce (`InputsAssumption`, over the token records `LexTokens`). |
| `FetchService` | what the instruction side promises (abstract) | `mem`, `running` and one fetch record (state, address, latched word) per channel. `Store` before the run while every channel is idle, `Start`, and `Clock`: every channel takes at most one step at once (begin, complete with `mem[addr]`, release, reset), and a waiting fetch always moves. CoSim maps onto it through `FS` (`INSTANCE ... WITH`): `running` is `phase # "setup"`, `mem` the words the instruction memory returns, each fetch record the fetcher registers. |
| `DataService` | what the data side promises (abstract) | `mem`, `running`, and per channel a read request, a write request with its data, and the read data. `Store` before the run, `Start`, `Request` (the DUT puts any requests on the channels), and `Serve`: each served address that some channel writes takes the data of one of its writers, no other cell changes, every read of a served address returns the memory after the writes, and an idle channel keeps its read data. CoSim maps onto it through `DS`: a request is the channel's address while its valid bit is up, otherwise `NoReq`; the served addresses are those below `MAX_SIZE`. |
| `MCCoSim`, `MCNumParse`, `MCParser` | — | Instantiate the models for TLC. They enumerate the inputs: small address ranges, boundary numbers written in every base, and every instruction shape, with one-token edits of one line per mnemonic. |
| `CoSim_proofs`, `CoSimRefinement_proofs`, `Parser_proofs`, `RegFile_proofs` | — | TLAPS proofs. |

`PROJECT.json` maps every definition to the lines it models.

## Runs

| Run | Checks | Result |
|---|---|---|
| `cosim_fetch` | Two fetchers on two channels, five cycles, one setup call. `FetchReturnsMemory`: a fetcher in DONE holds the memory word at the address it asked for. `FetchLatency`: an action property — a FETCHING fetcher is answered by the next edge. `FetchServiceRefined`: CoSim implements `FetchService` under the mapping `FS`. The run uses `FairSpec`, for `SimulateReturns`: once `simulate()` has started it finishes or times out. (The crash of an out-of-range read is left to the data runs: with it, a liveness run over the data channels takes more than 14 minutes.) | pass |
| `cosim_data` | Two data channels reading and writing the same addresses. `ReadyMirrorsValid`: after `process()`, the ready bits equal the valid bits. `ReadsSeeSameCycleWrites`: a read sees the write of the same cycle. `HighestWriterWins`: when two channels write one address in a cycle, the cell holds the higher channel's data (the order of the write loop; `DataService` itself lets any writer win). `DataServiceRefined`: CoSim implements `DataService` under the mapping `DS`. Writes may name `MAX_SIZE`, so a write the code must refuse happens. | pass |
| `cosim_oob` | `OutOfRangeReadZero`: the spec says a read at `MAX_SIZE` returns 0. | **violation** (finding) |
| `cosim_budget` | `TimeoutMeansNotDone`: a time-out means the kernel did not finish. | **violation** (finding) |
| `numparse` | Every string of up to three characters over a digit/sign/prefix alphabet, plus `INT32_MIN+1`, -1, 0, 1, 8 and `INT32_MAX` formatted in all four bases, plus five overflowing literals. `RoundTrip`: formatting then parsing gives the number back. `OverflowRejected`: out-of-range literals fail. | pass |
| `numparse_intmin` | `RoundTrip` with `INT32_MIN` added. | **violation** (finding) |
| `numparse_reg` | `RegisterNumberInRange`: register numbers are in 0..31. | **violation** (finding) |
| `parser` | 421 lines of every form, a one-token edit (remove, replace, insert) of one line per mnemonic and directive, and all lines of up to two tokens. `ParseMatchesGrammar`: the parser returns a Line exactly for the token sequences that the grammar and typing rules of the spec allow. `RejectionReported`: every rejection carries an error. | pass |
| `parser_errors` | `AllMismatchesReported`: one error per mistyped register. | **violation** (finding) |
| `parser_trailing` | `TrailingTokenColumn`: a trailing token is reported at its own column. | **violation** (finding) |
| `cosim_pushwrap` | `PushPtrMonotonic`: spec Sec. 4.5 says the push pointer only grows. The pointer is `uint32_t`; with the address space scaled to three cells, three pushes wrap it to 0. | **violation** (finding) |
| `regfile` | Two threads, five registers, 2-bit data, and warp ids that make the thread id wrap. `ReadOnlyRegsHoldResetValues`: registers 0..3 keep their reset values under any writes. | pass |

Why these bounds are enough:
- Two channels are enough to exercise cross-channel ordering in `process()`.
- `AddrMax` = 2 gives one in-range address next to `MAX_SIZE`.
- Five cycles let a fetch complete twice.
- The number and parser inputs contain every control path of the code. Each
  of them is covered by one of the mutants listed in `PROJECT.json`.

Fairness: `FairSpec` adds weak fairness on `SimulateStep`, the disjunction
of the loop's steps (time-out check, done check, eval, the two `process()`
calls, the tick).
- Spec Sec. 5 and `sim.hpp:190-211` justify it: `simulate()` is a straight
  loop on the one host thread, and nothing else runs while it runs. Once a
  step of it is enabled, the host takes it.
- The setup calls get no fairness, because the test code may stop calling
  them at any time.
- `SimulateReturns` is checked under this fairness only (`cosim_fetch`). The
  fetch-latency promise is an action property (`FetchLatency`) and needs no
  fairness.
- The parsers are single calls.

## Findings

- `sim.hpp:125`: an out-of-range read sets the pointer `data_mem_read_data[i]`
  to null. It does not write 0, so the DUT sees stale data with `ready` set.
- `sim.hpp:196`: a DUT that finishes on the last budgeted edge is reported as
  timed out.
- `parse_num` rejects `INT32_MIN` in every base. It parses the magnitude first.
- `str_to_reg` accepts negative register numbers and numbers above 31.
- `CHECK_REG` reports only the first mistyped register of a line. The spec
  says all errors are collected.
- The trailing-token error carries the column of the mnemonic.
- `sim.hpp:69`: `push_instruction` and `push_data` post-increment a
  `uint32_t` `stack_ptr`. After 2^32 pushes it wraps to 0, and the next push
  overwrites the first word pushed. The spec says the pointer is monotonic.
  The model scales the address space down to `AddrMax + 1` cells, so the wrap
  appears after three pushes.

## Proofs

All proofs are checked by `tlapm`.

**`CoSim_proofs`**
- `TypeOKHolds` proves `Spec => []TypeOK`. TypeOK alone is not inductive. The
  proof goes through `TypeInv == TypeOK /\ LoopBound`; `LoopBound` says that
  inside a loop iteration `cycle < MaxCycles`, which keeps `cycle + 1` in
  range at the tick.
- `FetchReturnsMemoryHolds` proves `Spec => []FetchReturnsMemory`. It goes
  through `FetchInv`, which adds three facts:
  - during setup, no fetcher has left IDLE;
  - a FETCHING fetcher keeps `valid` raised;
  - from `InstructionMemory::process` to the clock edge, every valid channel
    holds `ready` and the word at its address.

  The last fact is why the invariant holds: the edge latches exactly what
  `process()` wrote, and setup calls cannot change memory under a waiting
  fetcher.
- `FetchLatencyHolds` proves the action property `Spec => FetchLatency`. A
  FETCHING fetcher is answered at the next edge. The proof goes through
  `FetchInv` and `TickPhaseStep`. At a tick, every valid channel holds ready,
  so the edge moves the fetcher to DONE, or reset moves it to IDLE. The last
  step combines the step lemma with the invariant by PTL.
- `ReadyMirrorsValidHolds` and `ReadsSeeSameCycleWritesHolds` prove the two
  invariants of `cosim_data`. They go through `ServiceInv`, which adds
  `ImReadyTracks`: between `InstructionMemory::process` and the edge, the
  instruction ready bits equal the valid bits. `DataMemory::process` runs in
  between and leaves them alone, which a proof about the data side alone
  could not see. In `cosim_data` the fetchers never fetch, so the
  instruction half of `ReadyMirrorsValid` is only exercised by the proof.
- `HighestWriterWinsHolds` proves `Spec => []HighestWriterWins` from
  `TypeOK` alone. The property is inductive with it: only
  `DataMemory::process` ends in the tick phase, and it leaves the cell with
  `MemAfterWrites`. `HighestWriterLands` shows that a writer with no higher
  writer is the unique `LastWriter`, so the `CHOOSE` picks it.

**`CoSimRefinement_proofs`**
- `Refinement` proves `Spec => FetchServiceRefined`: CoSim implements
  `FetchService` under the mapping `FS`, for every channel count, `MAX_SIZE`
  and cycle budget. The layout is the usual one. `RefinementInit` maps the
  initial state. `RefinementNext` maps every step, given `FetchInv` before and
  after it:
  - a setup call is a `Store` of the one cell it changes (`SetupStore`);
  - `SimulateStart` is `Start`;
  - the steps inside a cycle stutter;
  - a `Tick` is a `Clock`.
- `FetcherEdgeStep` shows that one fetcher edge is one `ChannelStep`. A
  FETCHING fetcher completes with the memory word because of the third fact of
  `FetchInv`.
- `DataRefinement` proves `Spec => DataServiceRefined`: CoSim implements
  `DataService` under the mapping `DS`, for every number of data channels,
  every `MAX_SIZE` and every request the DUT makes. Only `TypeOK` is needed
  (from `TypeOKHolds`). `DataInit` maps the initial state. `DataNext` maps
  every step:
  - `PushData` and `SetData` are a `Store`;
  - the other setup calls and the steps of a cycle before `DataMemory`
    stutter;
  - `SimulateStart` is `Start`;
  - `Tick` is a `Request`;
  - `DmemProcess` is a `Serve` (`DmemServe`).

  `Serve` rests on `LastWriterExists`: when some channel writes an address,
  the write loop has a last writer, so the `CHOOSE` in `MemAfterWrites`
  picks a writer of the cycle. Its proof takes the least element of a set
  of naturals (`LeastNat`, from `WFMin` of `WellFoundedInduction`) and
  mirrors it.
- `FetchService` states each channel step field by field. The provers do not
  handle equalities between record `EXCEPT` expressions.

**`Parser_proofs`**
- `RejectionReportedHolds` proves `Spec => []RejectionReported` for every set
  of input lines, not only the enumerated ones. The invariant `ResultInv`
  says that once `parse_line` has run, the result is `ParseLine(toks)`. The
  lemmas follow the code's return paths:
  - `OperandsResult`: `EXPECT_OR_RETURN` and `CHECK_REG` either push an error
    or build the instruction;
  - `InstructionResult`: the same for every instruction class;
  - `DirectiveReported`: the same for `parse_directive`;
  - `LineReported`: the same for the returns of `parse_line`.

  An accepted Line always has a kind other than the `"none"` of the empty
  result, which is why it never counts as a rejection. Zenon proves the field
  reads through the record `EXCEPT`s.
- `ParseMatchesGrammarHolds` proves `Spec => []ParseMatchesGrammar` for every
  set of lines the lexer can produce. Two facts say what those lines are.
  `LexTokens` lists the token records the lexer builds:
  - SX_SLTI and SX_SLT are the only mnemonics with `cross`;
  - only registers have a kind;
  - only immediates have a value.

  The assumption `InputsAssumption` says the inputs are sequences of those
  tokens. The inductive invariant is `GrammarInv`. It is `ResultInv` plus
  `toks \in Seq(LexTokens)`. The argument compares the code with the grammar
  class by class:
  - `ShapeAgree`: `EXPECT_OR_RETURN` succeeds, and the line ends after the
    operands, exactly when the operands after the mnemonic have the kinds
    of the grammar;
  - `RegsAgreeItype`, `RegsAgreeRtype` and `RegsAgreeMem`: the `CHECK_REG`
    calls succeed exactly when no operand register has the wrong kind, in
    either check order;
  - `ItypeAgree`, `RtypeAgree`, `MemAgree` and `HaltAgree` combine these for
    each class in `ClassAgree`;
  - `LineAgree` follows the branches of `parse_line`.
- `TypeOKHolds` proves `Spec => []TypeOK`, again from `GrammarInv`. Its
  content is in the error columns. Every error `parse_line` pushes sits at
  column 0 (end of stream) or at a token of the line, never past its end.
  The first bad operand is a `CHOOSE`-least index. `LeastIndex` shows that
  one exists, from `WFMin` and `NatLessThanWellFounded` of the library. The
  rest is `ShapeErrorType` and `CheckRegsType` for the two checks.
  `OperandsType`, `InstructionType`, `DirectiveType` and `LineType` then
  follow the return paths. `LexTokensTyped` shows that lexed tokens are
  `Tokens`.

**`RegFile_proofs`**
- `TypeCorrect` proves the registers stay DATA_WIDTH-bit values, the thread id
  wrapped modulo 2^DATA_WIDTH included.
- `ReadOnlyRegsHold` proves `ReadOnlyRegsHoldResetValues`. `TypeOK` is the
  only strengthening it needs, because the guard `rd >= 4` excludes registers
  0..3 from every write.
- Assumption: `RegFileAssumption` has to state `2^DataWidth \in Nat \ {0}`,
  because the provers do not derive it.

**Model-checked only**
- `NumParse` (`TypeOK`, `RoundTrip`, `OverflowRejected`). The reference
  formatter `DigitsOf` is RECURSIVE, which takes the SMT backend away from
  any module that uses it. A proof of `RoundTrip` would also need induction
  over digit strings, through `FoldLeft`, and the installed provers cannot
  instantiate the library's induction rules for that. TLC checks these
  properties on every string of up to three characters and on the int32_t
  boundary values in all four bases.
- `SimulateReturns` is a liveness property, and TLAPS does not handle
  liveness under fairness here.
- `PushPtrMonotonic` is violated, so there is nothing to prove.

## Not modelled

- The lexer, the encoder and emitter, and the token/AST printing.
  Converting strings to tokens is character-level I/O. The parser model starts
  from tokens.
- The rest of the DUT: `gpu.sv`, the dispatcher, cores, decoder, ALU, LSU and
  scheduler. Their sources are not under `src/`. CoSim treats their requests
  and `done` as free inputs.
- `print_memory`, the tests and the build files.
- The register file's combinational read port. It changes no state.

## Plan for later work

- A model of several warps' register files, to check thread-id uniqueness
  under wrap-around.
