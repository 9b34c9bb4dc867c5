# Verification of the RISC-V cores, their board and its software

This directory holds TLA+ models of what this repository builds: two RV32I cores,
a pipelined and a single-cycle one; the memory path that connects a core to the
DRAM of a Zynq board through an AXI converter; both cores on that board; the boot
code that brings the board's processing system up; and the filter programs of lab 1
with the run-time library under them.  The models are checked with TLC on small
instances.  What matters most is proved with TLAPS: about both cores and their
units for every word size, number of registers and program, about the memory path
for every size of the bus, set of words and pace of the slave, about the single-cycle
core on that path, about the filter programs and the boot code, and about the barrier
for any number of cores: every safety property a passing run checks is also a theorem.
Paths below are relative to `src/`.

## The system

| part | source | state | operations | what makes it correct |
|---|---|---|---|---|
| pipelined core | `lab3/hdl/riscv_pipelined.sv` | pc, four pipeline registers, register file, data memory | rising edge (all five stages), falling edge (register write), asynchronous reset | it executes the program as RV32I does, one instruction after the other; forwarding, stalls and flushes are invisible |
| single-cycle core | `lab2/hdl/riscv_single.sv` | pc, register file, data memory | rising edge, asynchronous reset | every clock cycle is one RV32I instruction |
| memory controller | `lab2/lab2/src/memcontroller.sv` | a seven-state machine on falling edges | one transaction per strobe, holding the core (PCReady) | the core goes on only after its request was performed |
| AXI converter | `.../AXI_Converter_v1_0_M00_AXI.v` | start-pulse latches (falling edge), sequencer and channel registers (rising edge) | one single-beat write or read per start pulse | each request is performed once, with its own address and word; an offered VALID stays |
| slave (SmartConnect, processing system) | generated, external | memory, queues per channel | takes addresses and words, answers at its own pace, perhaps with an error | assumed |
| board's single-cycle core | `lab2/lab2_submission/riscv_single_vivado.sv` | pc, register file | as the core; the pc waits for PCReady | a program runs as it does with the simulation memories |
| board's pipelined core | `lab3/lab3_submission/riscv_pipelined_impl.sv` | as the core, plus the strobe of the memory stage | as the core; the enable of the pc looks at PCReady | the same; it does not hold |
| processing system boot code | `.../ps7_init.c`, `ps7_init.h` | tables of register writes, polls and delays; the registers of the silicon | `ps7_init`, `ps7_post_config`, `ps7_debug`, all through `ps7_config` | plls, memory and fabric come up in a legal order; success means that everything is up; every call returns |
| FIR programs | `lab1/lab1_/fir1/fir1.c`, `fir2/fir2.c`, `fir2/fir2.S` | arrays, pointers or indices | `fir`, `main` | C and assembly compute the same convolution; the exit code tells |
| run-time library | `lab1/common/syscalls.c`, `util.h`, `crt.S` | counters, uart, `tohost`, the barrier's counter and sense | `setStats`, `printf`, `uartSend`, `verify`, `exit`, `barrier` | nothing printed is lost, counters survive overflow, nobody leaves a barrier early or hangs in it |
| lab 0 | `lab0/SV/fsm.sv`, `lab0/SV/regfile.sv` | three-state Moore machine; register file with a clear | clock edges | the pattern is recognised; writes and clears do not collide |
| other programs | `project/`, `homework2/`, `lab3/examples/`, `*/testing/` | - | - | - |

How they interact.  In simulation `top` wires a core to `imem` and `dmem`, which
answer in the same cycle.  On the board `top.v` gives the core's memory port to
`MemControl`, which turns a strobe into a start pulse and a direction (DRW) for
the converter and holds the core until the converter's `compare_done` comes
back; address and data go from the core to the converter directly, which
captures them two clock edges later.  Everything is on one clock, but
`MemControl` and the pulse latches change on falling edges, everything else on
rising ones.  The reset button reaches the core (asynchronously) and the
controller (sampled on falling edges); the converter and the bus keep going.
Before any of this runs, the boot code has set up the DRAM behind the slave and
released the fabric from reset.  The programs of lab 1 run on another machine (a
64-bit RISC-V simulator): `_init` calls `main`, prints the counters through the
uart and stores the exit code to `tohost`.

What is hard here: values in flight between stages and read before they are
written; a stall and a flush in the same cycle; the two clock edges with a reset
between them; flags, lanes and wrap-around at the boundaries of words; on the
board, four parties that each see an event at a different edge, a slave of
arbitrary pace, errors, and resets that only some parties see; in the boot code,
silicon that answers late or never, a run that fails half-way and is tried again;
in the library, a uart of any speed, counters that overflow, fast cores that enter
the next barrier while slow ones still leave the last.  `PROJECT.json` lists every
hazard at its line with the properties that cover it.

## Modules

| module | models | notes |
|---|---|---|
| `RvWord` | words, byte lanes, wrap-around sums, `Cat` | four byte lanes of `ByteMod` values; the hardware is `ByteMod = 256` |
| `RvSem` | the meaning of each RV32I instruction | no reference to an implementation |
| `RvIsa` | abstract machine: one instruction per step | the promise of all cores |
| `RvUnits` | decoders, ALU, branch condition, load and store units of the pipelined core | combinational, as operators |
| `RvPipeline` | the pipelined core with its memories | `Posedge`, `Negedge`, `Reset`; `h` is a history of which instruction is in E and M |
| `RvSingle` | the single-cycle core with its memories | `Posedge`, `Reset`; its own decoders, ALU and lanes |
| `MemControl` | the memory controller | state machine and outputs |
| `AxiMaster` | the converter, one operator per `always` block | primed registers named as in the Verilog |
| `AxiSlave` | external slave: three queues and two responses | any pace, error responses |
| `AtomicMemory` | abstract memory port: each request is performed once, at one moment | the promise of the memory path |
| `BoardMemory` | controller, converter, slave and the core's port on one clock, with the button | composes the three above |
| `BoardSingle` | the board's single-cycle core on the memory path | composes `RvSingle` (without its data memory) and `BoardMemory` (without its reduced core) |
| `BoardPipeline` | the board's pipelined core on the memory path | composes `RvPipeline` and `BoardMemory` the same way |
| `Ps7Scripts` | the 21 tables of the boot code, by the registers that steer the sequence | a register is the set of its 1 bits; groups of registers that are only written are one register |
| `Ps7Init` | `ps7_config` with one action per opcode and branch, its callers, the silicon, the boot loader that calls again | |
| `FirProgram` | both filters and the program around them, from `main` to `tohost` | an int has `WordMod` values, a long its square |
| `PhaseBarrier` | abstract barrier | the promise of `barrier()` |
| `Barrier` | `barrier()` of `util.h`, one action per access to shared memory | |
| `MC*` | small words, pools of instructions, tables; instances for TLC | |
| `RvUnits_proofs`, `RvPipeline_proofs` | proofs about the units and the pipelined core | |
| `RvSingle_proofs` | proofs about the single-cycle core | |
| `BoardMemory_proofs` | proofs about the memory path | |
| `BoardSingle_proofs` | proofs about the board's single-cycle core on the memory path | |
| `Barrier_proofs` | proofs about the barrier | |
| `FirProgram_proofs` | proofs about the filter programs | |
| `Ps7Init_proofs` | proofs about the boot code | |

State and actions carry the source's names.  A rising edge is one action that
computes every register of every stage from the old values, as nonblocking
assignments do; combinational signals are operators.  Operators commented as
mutants are plausible mistakes in the definition that follows them: replacing
the one by the other must break a property of a run (`mutants` in
`PROJECT.json`).

### What is abstracted

* Instructions are records of their decoded fields with the immediate of their
  format already extended.  `rs1`, `rs2` and `rd` are the bit fields of the word
  in every format: in U and J formats the hazard unit compares immediate bits
  with register numbers, and so does the model.
* Opcodes outside RV32I's computational, control and memory instructions
  (fence, ecall, csr) get `x` from the decoder and are left out, as are funct3
  values of loads, stores and branches that RV32I does not define (for which the
  combinational case statements hold their last output).
* The memories cover the address space.  The RTL's have 16385 or 1029 words and
  no bounds check.
* A halfword access at an odd offset is `x` in the RTL: any word.  After a
  misaligned access or a jump to an address that is not a multiple of four the
  abstract machine promises nothing until the next reset (`outside`).
* `>>>`, `<<`, `&`, `|`, `^` are constants of which only the type is assumed:
  both sides of the comparison use the same Verilog operator.
* Reset of the simulated cores may come between any two clock edges; it is one
  event, since holding it is the same as having it again.  On the board the button
  is pressed and released.
* In the converter, the burst counters (always 0 with one beat per burst), the
  read checker of the example design and the unused outputs are left out.  Its own
  reset belongs to the power-up of the processing system: `Init` is the state after
  it.  An address is a word address.
* `BoardMemory` reduces the core to its port.  A request is `steady` when its
  address and data do not depend on anything that changes while the instruction
  waits.  They do when a load overwrites its base register, because the register
  file of the board core is written at every rising edge, ready or not, and when
  `sb` and `sh` merge their bytes into the converter's last read data.
  `BoardSingle` and `BoardPipeline` have the whole core and no such flag.
* `riscv_single_vivado.sv:90` connects `Carry. Overflow`, a full stop for a comma;
  the model has the two flags the line means.
* `Ps7Scripts` keeps every write that a poll, a lock, a reset or another write of the
  sequence depends on, in the order of the table; runs of writes to registers
  nothing in the sequence reads (timings of the memory, pins, divisors) are one
  write each.  The silicon is external: a pll locks, the calibration ends and the
  memory controller reports a mode, any of them, at any time after they were enabled, or
  never.
* `FirProgram` takes the overflow of C's int in `add_q31` and `mul_q31` as the wrap-around the
  build does, and models the word-sized loads, 64-bit registers and logical shift of
  `fir2.S`.  A print is characters, with the literal text of a format in one piece.
  `setStats` reads `mcycle` and then `minstret` (`READ_CTR`), an instruction each, while
  both go on; what they count after `setStats(0)`, when nobody looks, is left out.
* `Barrier` takes the accesses to `count` and `sense` in program order.  There is no
  fence between the two stores of the last thread (`util.h:55-57`), so this is a
  condition on the core that runs it.

## Runs

All words of the core runs have four lanes of one bit (`ByteMod = 2`): the
smallest machine with four byte lanes, two halfword lanes, a sign bit, carry,
overflow and wrap-around.  Three registers: x0 and two that can depend on each
other.  Instruction memory has four words, because a 4-bit pc addresses four; it
is filled in every way from a pool.  The pc wraps, so every program is a loop and
every instruction follows every other at distance one, two and three, which is
the pipeline's depth after decode.

| run | what it explores | shows |
|---|---|---|
| `pipe_core` | all loops over three pools: arithmetic with lui and auipc, loads and stores of each width with their consumers, branches and jumps with work in their shadow; resets between any two edges, except in the memory pool, which is followed from power-up to its first misaligned access (`Followed`) | `TypeOK`, `PipelineInv`, `OperandsUpToDate`, `StallExcludesRedirect`, `Refines` |
| `pipe_progress` | stalls, stores, lui and a branch to itself; resets between a rising and a falling edge; weakly fair clock edges | `PipelineInv`, `Refines`; `KeepsExecuting`: every stall ends |
| `pipe_auipc` | an auipc whose bits [19:15] name a recent destination | violates `Refines` |
| `single_core` | all loops over 13 kinds of instruction, any reset, no byte stored at offset 3, until an access is misaligned | `TypeOK`, `Refines` |
| `single_sb` | byte stores at every offset | violates `Refines` |
| `board_memory` | loads and stores, two words, two addresses, base 1, up to two waiting per channel, error responses, clean resets, steady requests, fair clock and slave | `TypeOK`, `MemInv`, `Refines`, `OffersStay`, `CoreGoesOn` |
| `board_reset` | any press of the button | violates `OffersStay` |
| `board_single` | loops of the board's single-cycle core over four pools: word loads, or word stores, at an address that moves on; a word loaded and stored again; a byte loaded and stored; a slave of any pace; clean resets | `Refines`: safe programs run as RV32I says; `NothingLeftBehind` |
| `board_pipeline` | a load, its consumer and arithmetic on the board's pipelined core | violates `NothingSkipped` |
| `barrier` | four cores, three rounds, every interleaving | `TypeOK`, `CountIsArrivals`, `NobodyLeftBehind`, `Refines` (of `PhaseBarrier`), `RoundsComplete` |
| `ps7_boot` | every silicon version, polls of two readings that may give up, four calls, caller tables with delays, a clear and an invalid opcode | `TypeOK`, `ResetOnlyBypassed`, `FabricReleasedLast`, `NoWriteIgnored`, `BootedMeansUp`, `BypassEndsLocked`, `DdrReleasedReady`, `DelayLasts`, `Returns` |
| `fir_program` | both filters, ints of six bits, three samples and one or two coefficients out of four corner values, right and wrong tables of expected results, counters that overflow or not | `TypeOK`, `FilterCorrect`, `StaysInBounds`, `CountersElapsed`, `ExitCodeTells`, `NothingLostInPrint`, `Exits` |

Why the bounds are enough.

* Memory path: the converter has one transaction under way, so two addresses (a bus
  that wraps, with a non-zero base), two data words and a slave that could hold two
  items distinguish a request from its predecessor, a duplicated item and an address
  from its target.  `board_single` and `board_pipeline` use a slave with one place
  per channel and no error responses: what `board_memory` and its proof show of the
  path they need not repeat, and a load that fails delivers any word.
* Barrier: two cores would never have a third still spinning on round r while the
  first arrives in r + 1 and the second waits; four cores and three rounds
  have slow, fast and last threads in every combination and the sense back at its
  first value.  The proof is for any number.
* Boot code: a poll that may be read three times is answered at once, late or not at all;
  four calls are a failed run, a second failed one, a success and a call
  after it.  The scaled cpu clock makes a delay of three milliseconds six timer
  periods, and the word is wide enough for every product the tables form.
* Filters: six-bit ints with samples 1, 31, -32 and -3 make products that overflow,
  round up and down and change sign, and sums that wrap.  One and two coefficients give
  `verify` an even and an odd number of words, three and two outputs cover first, middle
  and last.  Four coefficients and twenty samples (the program's sizes) add
  repetitions of the same steps only.

### Fairness

`KeepsExecuting` assumes that the clock does not stop (weak fairness of the two
edges) and that resets do.  `CoreGoesOn` assumes the clock and a slave that
serves each of its five channels again and again as long as it is again and again
able to: strong fairness of the rising edges at which a channel moves, because a
channel's readiness comes and goes with the clock level.  AXI4 requires it of a
slave, and nothing is assumed about how the channels interleave.
`RoundsComplete` assumes that a thread inside `barrier` keeps executing, and nothing about
threads outside.  `Returns` assumes the cpu and the global timer, nothing of plls,
calibration or memory controller.  `Exits` assumes the processor and the uart.

### Restricted specifications

Positive results hold under named restrictions, and the run beside each shows that
it is needed:

* `SafeSpec` of `RvPipeline` (`NoAuipcAlias`): see `pipe_auipc`.  The pools of the
  other runs satisfy it.
* `SafeSpec` of `RvSingle` (no byte store at offset 3): see `single_sb`.
* `CleanSpec` of `BoardMemory`: the button is pressed while the controller is idle and
  released while the clock is high.  Pressed during a transaction it leaves the
  converter running (`board_reset`); pressed one clock after the decision it turns
  a load into a write, since an idle controller drives DRW high while the pulse is
  on its way; released between a falling and a rising edge it lets the core pass
  its first instruction before the controller has seen it.  Also steady requests.
* `SafeSpec` of `BoardSingle` (`BoardSafe`): aligned accesses; a load not over its own
  base register, because the stale word written there while it waits moves its
  address; a byte or halfword stored only into a word just loaded, because the
  other bytes come from `data_out`; no byte at offset 3.
* `FirAssumption`: at least one coefficient.  With none, the exit of the inner loop of
  `fir2.S` (line 111) goes back to the outer one without advancing it, and the
  filter never returns; the C filter would write zeros.  `main` has four.  A base of at
  most 16, since `Digit` has 16, and enough digits in `MaxDigits` for every counter.

### What the properties cannot tell

The models have these steps of the code, or name why not, but no property would notice
if they went wrong.

* `riscv_pipelined.sv:550`: `jalr` keeps the low bit of its target.  `NextPC` of the
  abstract machine keeps it too, and an odd target is `outside` either way.
* `riscv_single.sv:476`: the first instruction runs at every edge while reset is held.
  `Reset` of `RvIsa` may come again at any moment, keeps what memory and registers hold and
  lets one register have any word, so it permits repeated and half-done first instructions.
* `riscv_single_vivado.sv:239`, `:455`: partial stores with stale bytes and loads over
  their base register are programs `BoardSafe` leaves out.
* `util.h:55`: without a fence a core might let the two stores of the last thread pass each
  other; the model's accesses are in program order.
* `syscalls.c:96`: a character in the holding register counts as printed.
* `ps7_init.c:12104`: `DelayLasts` is about delays whose product does not wrap
  (`CallerAssumption`).
* `ps7_init.c:1589`: the poll takes any mode bit for success, and `BootedMeansUp` asks for no
  more, although the comment above it has `ddrc_reg_operating_mode = 1`.

### Findings

1. `riscv_pipelined.sv:567` - auipc with a forwarded "rs1".  The pc is put into
   RD1, and the hazard unit forwards over it when immediate bits name a register
   written by one of the two instructions before (`pipe_auipc`).
2. `riscv_single.sv:221` - `sb` at offset 3 concatenates 33 bits; the byte lands
   one bit too high (`single_sb`).  `lab2/testing/sb.S`, test04, expects otherwise.
3. `AXI_Converter_v1_0_M00_AXI.v:324` - a start pulse withdraws an address that
   was offered and not taken, against the comment nine lines below
   (`board_reset`).
4. `riscv_pipelined_impl.sv:562` - on the board, a load-use stall holds the decode
   register but not the pc while the controller is idle, so the instruction
   behind the consumer is never executed (`board_pipeline`).

Met while modelling, without a run of their own:

* `riscv_single_vivado.sv:455`, `:239`: loads over their base register and partial stores
  on the board, as under `BoardSafe`.
* `riscv_pipelined_impl.sv:603`: no register of the board's pipelined core waits for PCReady, so a
  load is written back with the word of an earlier one.
* `ps7_init.c:12104`: the product of frequency and delay is an unsigned int; at
  650 MHz a delay of seven milliseconds or more wraps.  No table has one.
* `ps7_init.h:80-82` defines codes for single plls that `ps7_config` never returns, and
  `getPS7MessageInfo` (`ps7_init.c:11850`) gives two of them each other's text.
* `fir1.c:20`: the comment describes a correlation, the code convolves.  `verify` is given
  16 of 17 outputs.  `_init` prints 64-bit counters with `%d`.  `exit` does not wait
  for the uart, so the last character may still be in its holding register.

## What is proved

The proofs are about the modules TLC runs.

The cores, with `ByteMod`, `NumRegs` and the bitwise operators as parameters.
Assumptions: `ByteMod` is even and positive, `NumRegs` is positive, the bitwise
operators and shifts return words.

* `RvUnits_proofs`: arithmetic.  `BranchDecision` shows that the flags of `a - b`
  decide all six branches, `ArithmeticDecode` that the decoders and the ALU
  compute what each instruction means, `LoadLanes` and `StoreLanes` that the lane
  units extract and merge the addressed bytes.
* `RvPipeline_proofs`: `TypeCorrect`; then the inductive invariant `PipelineInv`
  (`PipelineCorrect`).  What one would like to know, that operands are current
  (`OperandsUpToDate`) and that stalls exclude redirections, is not inductive: it
  depends on instructions being in program order (`InOrder`), on control bits
  belonging to their instruction (`ControlsE`, `ControlsM`), on what decode read
  being right except for what W wrote since (`OperandsRead`), on the result in M
  being final for everything that may be forwarded from it (`ResultInM`,
  `LoadUse`), on the falling edge having written what W computes (`Written`) and on
  the fetch path (`PathCorrect`).  Their conjunction is preserved by each edge, one
  lemma per conjunct for the rising edge.  Each conjunct is also checked by TLC.
  `Correct`, SafeSpec => Refines: a rising edge with an instruction in M is one
  step of `RvIsa` (executed, or leaving what is specified), every other edge a
  stutter, a reset a reset.
* `RvSingle_proofs`: `TypeCorrect`, for every program and reset, misplaced top bytes
  and undefined halves included.  `SingleCorrect`, SafeSpec => Refines.  The core has no
  invariant beyond its types; the work is in the units.  Its ALU numbers its
  operations differently and derives the flags from other control bits, so
  `SameAdder` and `BranchDecisionS` show that the adder and the flags are those of
  `RvUnits` wherever they are used, `ArithmeticDecodeS`, `LoadLineMeans` and
  `WriteLineMeans` that decoders, ALU and lanes do what the instruction means, and
  one lemma per destination (`PcDelivers`, `ResultDelivers`, `RegisterWrite`,
  `MemoryWrite`) puts an edge together as one step of `RvIsa`.

The memory path, with the number of bus addresses, the base address, the set of
words, the slave's capacity and its responses as parameters.  Assumptions: there is
at least one address, the base and the capacity are natural numbers and the
capacity is not 0.

* `BoardMemory_proofs`: `TypeCorrect`, under any reset.  `OneTransaction`: `MemInv`,
  which is inductive under `CleanSpec`.  That a request is performed once is not
  inductive, since it depends on where on the bus its one transaction is; so
  `MemInv` says that either everything is at rest, or the controller waits in
  WriteMem (ReadMem) and the transaction is in one of five stages: not yet issued,
  issued, under way, answered, over.  Each stage fixes every valid line, queue and
  latch of its direction and the rest of the other, and a lemma per stage
  says which stage the next rising edge leads to and what it does to the memory.
  The conjuncts about the two pulse latches are what excludes a second start pulse
  and a trigger taken for an answer too early.  `OffersAreKept` follows: with `MemInv`,
  no pulse meets an offer that is up.  `BoardCorrect`: CleanSpec => Refines.  `Outcomes` says how
  the request stands in each stage; the edge at which the slave commits a write
  is `Store`, the one at which it answers a read `Load`, a rising edge with an idle
  controller `Advance`, the button `Press` and `Release`; every other step is a
  stutter.  `TargetInjective`, two addresses of the core never share a word of a
  bus that wraps, is what makes a committed write change one word of the port's
  view of the memory.

The board's single-cycle core on that path, under the assumptions of both
(`BoardSingle_proofs`): the facts about the path are those of `BoardMemory_proofs` with
the core's port for the request, the facts about the core those of `RvSingle_proofs` with
the memory behind the bus.  `TypeCorrect`, and `NothingIsLeftBehind` for every program:
the path was proved correct for a request that holds still, and the core's does not (its
registers are rewritten at every edge of a wait, so the address of a load over its base
register moves).  What a transfer rests on is only the direction,
which comes from the instruction, and the address and word at the edge of the pulse, which
the converter latches: `TransferInv` says for some address and word what `MemInv` says for
those of the request, and `TransferRises` and `TransferFalls` preserve it as long as
strobe and direction hold still, which they do because the pc waits (`CoreWaits`).

`BoardRunsRV32I`: SafeSpec => Refines, the whole stack (core, controller, converter, bus and
slave) against `RvIsa`, for a slave that answers no request with an error (`Responses = {TRUE}`,
as in `board_single`: an error leaves a store undone or a load with any word, and `top.v` does not
tell the core).  `BoardSafe` is asked of an instruction at the moment it begins only; that it
lasts is part of the invariant `ProgramInv`.  `Safe`: the operands stay what they were although the
destination is rewritten at every edge (`OperandsKeep`).  `MergesOwnWord`: until the pulse, `data_out`
is still the word a partial store merges into, so that what the pulse captures is the word RV32I
stores (`SendsStoreWord`).  `OwnTransfer`: the transfer under way has the instruction's address and
that word.  `OwnDatum`: what a performed load has in the slave's response or in `data_out` is the
word at its address.  `TransferActs` says what an edge does to the memory and the datum in terms of
the captured pair.  A load is one step of `RvIsa` at the falling edge at which the controller takes
it up (`FallingMaps`), a store at the edge at which the slave commits it (`WaitingMaps`), any other
instruction at its rising edge (`IdleMaps`), the button and every rising edge under it a reset; every
other step is a stutter.

The barrier, with any finite set of cores and any number of calls (`Barrier_proofs`).
That a thread spinning on a completed round can see it is not inductive: it rests on
no thread being more than one round ahead, which rests on the counter counting, which
rests on the last thread finding all others waiting.  `IInv` says the four
together: a thread's sense tells which round it is in, the last thread's arrival
means that everybody else spins, the counter is the number of arrivals of the round in
progress and below the number of cores until the last one is there.
`TypeCorrect`, `CountCorrect` and `NoThreadLeftBehind` follow, and `BarrierRefines`: every
step is one of `PhaseBarrier` or a stutter.

The filter programs, with arrays of any lengths, samples of any value, ints of any width
and any start of the counters (`FirProgram_proofs`): every safety property that
`fir_program` checks.  Assumptions: c is not empty and shorter than x, what fills the
arrays are ints, the counters start as what they can hold, a base is at most 16, and
`MaxDigits` digits are enough for a counter (20 for the code's 64 bits).
`FiltersStayInBounds` rests on where the pointers of the assembly filter stand to each
other: t5 moves back from t2 as t4 moves on from c, and t2 moves on with a2 (`AsmLoop`).
`CountersShowElapsed` rests on `CounterInv`, that from its read in `setStats(1)` to that in
`setStats(0)` each counter is what was noted plus what passed since, modulo its width
(`ReadOn`, `ReadOff`: the counters are read one after the other, so the two spans are not
the same); `CountOn` and `Difference` are the modular arithmetic it takes.  `FiltersConvolve`, both filters leave the convolution in y, rests on
`DataInv`: the outputs before the current one are right, and what the inner loop has
summed so far is the sum of as many products (`Total`), exactly in C, where every addition
is cut off to an int, and in the assembly filter up to what its 64-bit register has beyond
an int.  `ShiftKeepsLow`, a logical shift of the 64-bit product has the same low int
as an arithmetic one, and `LongKeepsLow` are why the two agree; that the store hits no
sample (`ProductsStable`) is why the products stay what they are.  `ExitCodeCorrect`
rests on `VerifyFinds`, that two words at a time and an odd one at the end find the first
difference, for any number of words.  `PrintedOnce` says that what has left the UART, what
is in it and what is still to come are together what was printed (`PrintInv`), that
`printnum` computes the digits of the number in every base (`PrintnumDigits`), and, since
the counters are printed as ints, that they fit: it assumes `CountersFit`, a filter that
ends within 2^31 cycles, as `main`'s does by far; a longer one prints a wrong number.

The functions these programs compute are recursive: the sum, `verify`'s loop, `printnum`,
`FlattenSeq`, the powers of a base.  The induction theorems of the library take an operator
as a parameter, which the provers cannot instantiate.  `Least` and `SetInduction` say the
same of sets of numbers, and follow from the library's theorem that `<` is well founded;
with them a recursive function is shown to exist (`SumExists`, `PowerExists`, `FlatExists`,
or by giving it outright, as for `verify` and `printnum`), to be the only one
(`SumUnique`, ...), and so to be what the definition's CHOOSE chooses.

The boot code, for every poll limit, clock and word size of the cpu, and however the
silicon answers (`Ps7Init_proofs`).  Assumptions: the limit is a natural number, the clock
positive, a word holds two values at least; a table that a caller of its own gives to
`ps7_config` is a sequence of known instructions up to its last one, writes none of the
registers the boot has set up, and asks for no delay whose product with the clock wraps
(`CallerAssumption`; the tables of `ps7_init.c` are proved to be what they should, not
assumed).  A table has no branches, so the argument is Hoare's.  `Fact` is what there is
to know of the silicon: the protection is open, a pll bypassed, in use, out of reset or
locked, the calibration done, the controller operating, a group of registers set.
`Needs` says which facts an instruction must find (to take a pll out of bypass, that it is
locked), `Gives` and `Keeps` which it makes or leaves true.  A table is `Sound` from one
set of facts to another if what each instruction needs is in the first or given before and
not taken away since, and its end leaves the second.  `PllSound`, `DdrSound`, `MioProper` and
so on prove this of each table, `InitContracts` that the five tables of `ps7_init` chain
from nothing, `Achieved(5)`, to everything, `Achieved(0)`; `Harmless` says that the others
leave a system that is up alone.  The invariant `BootInv` says of the instructions still
to come what `Sound` says of all: none of the properties is inductive without it, since
that the next write is safe depends on a poll many instructions back, and that a run may be
cut short anywhere and tried again is covered because the first table needs nothing.
`TypeCorrect`, `ResetBypassed`, `FabricLast`, `WritesTaken` and `SuccessMeansUp` follow from it,
and the action properties `BypassEnds`, `DdrReleased` and `DelaysLast`.

Only model-checked: progress (`KeepsExecuting`, `CoreGoesOn`, `RoundsComplete`,
`Returns`, `Exits`: liveness is out of the prover's reach), and what the violation runs show, the board's
pipelined core among them.

## Not modelled, and why

* The generated simulation models of SmartConnect and the processing system, which make
  up most of the repository's lines: external, modelled by what the converter can see
  of them.  `ps7_init_gpl.c` and the copies under `lab3` repeat `ps7_init.c`.
* The debug core, constraints and project files: no behaviour.  Testbenches.
* In `lab1/common`: the start-up code, which clears registers and lets one hart
  through (so nothing calls `barrier` yet), traps, the host call nothing uses, formats
  and string functions no program uses; `encoding.h`, constants.
* The bounds of the simulation memories, and what the board does with an error response:
  `top.v` has no input for it.
* Lab 0: a three-state machine of one input and a register file, small enough for its
  testbench to try all of it.
* The textbook companion under `DDCArv_HDL_Companion` (another project's code),
  homework and course exercises, the assembly tests.
* `project/`: privileged set-up code and a timer loop whose task swap is empty;
  `trap.S`: for a 64-bit machine with traps.  No core here runs either.
