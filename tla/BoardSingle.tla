----------------------------- MODULE BoardSingle -----------------------------
(***************************************************************************)
(* The single-cycle core of the board (riscv_single_vivado.sv) wired to    *)
(* its memory path: the core of RvSingle without its data memory, whose pc *)
(* waits for PCReady, on the port of BoardMemory.  While an instruction    *)
(* waits, everything but the pc goes on: the register file is written at   *)
(* every rising edge, with whatever data_out holds.                        *)
(***************************************************************************)
EXTENDS RvUnits, AxiSlave, MemControl

VARIABLES clk, reset,   \* the clock and the button
          imem, rf, PC  \* the core

coreVars == <<imem, rf, PC>>
vars == <<state, masterVars, slaveVars, clk, reset, coreVars>>

\* The bus carries the words of the core and addresses each of them.
ASSUME BoardSingleAssumption == Data = Word /\ Addr = WordIndexes

\* The data memory as the core addresses it.
DataMemory == [i \in WordIndexes |-> mem[Target(i)]]

\* The units of the core are those of the simulated one.
Core == INSTANCE RvSingle WITH dmem <- DataMemory, outside <- FALSE

Ins  == Core!Ins
Addressed == WordIndex(Core!Alu.result)
Offset == ByteOffset(Core!Alu.result)

-------------------------------------------------------------------------------
\* storeInst: sb and sh merge their bytes into data_out, the word the last
\* load returned.
WriteData ==
  IF Ins.op = "store"
  THEN CHOOSE w \in Core!Write_line(Ins.f3, Offset, data_out, Core!ReadS(Ins.rs2)) : TRUE
  ELSE Core!ReadS(Ins.rs2)

\* What top.v gives the controller and the converter.
Request == [strobe |-> Ins.op \in {"load", "store"}, write |-> Core!Ctl.MemWrite,
            addr |-> Addressed, data |-> WriteData, steady |-> FALSE]

Board == INSTANCE BoardMemory WITH request <- Request

Init ==
  /\ imem \in [WordIndexes -> {i \in Instr : Core!Legal(i)}]
  /\ rf \in [Reg -> Word] /\ PC = 0
  /\ state = "Idle" /\ AxiInit /\ SlaveInit
  /\ clk \in {0, 1} /\ reset \in BOOLEAN
  /\ reset \/ clk = 1

\* Mutant: the pc goes on whether or not the memory is done.
PCEnableAlways == TRUE

\* flopenr pcreg: the enable of the pc.
PCEnable == Done

\* Rising edge of the core.
CoreRise ==
  /\ PC' = IF reset THEN 0 ELSE IF PCEnable THEN Core!PCNext ELSE PC
  /\ \E loaded \in Core!Load_line(Ins.f3, Offset, data_out) :
       rf' = IF Core!Ctl.RegWrite THEN [rf EXCEPT ![Ins.rd] = Core!Result(loaded)] ELSE rf
  /\ UNCHANGED imem

Posedge ==
  /\ CoreRise
  /\ \E awready, wready, arready, commit, answer \in BOOLEAN, okay \in Responses :
       Board!MemoryRise(awready, wready, arready, commit, answer, okay)

Negedge ==
  /\ clk = 1 /\ clk' = 0
  /\ MemControlNegedge(Request.strobe, Request.write, TXN_DONE, reset)
  /\ InitTxn(AXIstart)
  /\ UNCHANGED <<sequencerVars, writeVars, readVars, error_reg, slaveVars, reset, coreVars>>

\* The button, pressed and released cleanly (CleanSpec of BoardMemory); the pc
\* clears at once.
Press ==
  /\ ~reset /\ state = "Idle"
  /\ reset' = TRUE /\ PC' = 0
  /\ UNCHANGED <<state, masterVars, slaveVars, clk, imem, rf>>

Release ==
  /\ reset /\ clk = 1
  /\ reset' = FALSE
  /\ UNCHANGED <<state, masterVars, slaveVars, clk, coreVars>>

Next == Posedge \/ Negedge \/ Press \/ Release

Spec == Init /\ [][Next]_vars

-------------------------------------------------------------------------------
\* What a program may do for the board to run it like the simulation: keep to
\* aligned accesses, load into another register than the base, store bytes
\* and halfwords only into the word it has just loaded, and (a fault the two
\* cores share) no byte at offset 3.
BoardSafe ==
  /\ Aligned(Ins, PC, Core!ReadS(Ins.rs1), Core!ReadS(Ins.rs2))
  /\ Ins.op = "load" => Ins.rs1 = 0 \/ Ins.rd # Ins.rs1
  /\ Ins.op = "store" /\ Ins.f3 # 2 => data_out = DataMemory[Addressed]
  /\ ~Core!TopByteStore

\* An instruction begins: the pc shows it and the controller has not seen it.
Begins == state = "Idle" /\ clk = 1 /\ ~reset

SafeSpec == /\ Init /\ (Begins => BoardSafe)
            /\ [][Next /\ (Begins' => BoardSafe')]_vars

\* The moment at which a memory instruction takes effect, seen from the
\* program: a load when the controller takes it up, since its register is
\* overwritten with stale data from then on; a store when it is committed.
InEffect ==
  \/ /\ Ins.op = "load" /\ ~reset
     /\ state # "Idle" \/ clk = 0
  \/ /\ Ins.op = "store" /\ ~reset
     /\ \/ state = "WriteMem" /\ Board!Answered /\ ~Board!Capturing
        \/ state = "WriteData"
        \/ state = "Idle" /\ clk = 0

\* The registers and the pc as the program sees them.
ProgramRegs ==
  [r \in Reg |-> IF InEffect /\ Ins.op = "load" /\ Ins.rd = r /\ r # 0
                 THEN LoadMeaning(Ins.f3, Offset, DataMemory[Addressed])
                 ELSE Core!ReadS(r)]
ProgramPC == IF InEffect THEN Add(PC, 4) ELSE PC

ISA == INSTANCE RvIsa WITH prog <- imem, pc <- ProgramPC, regs <- ProgramRegs,
                           mem <- DataMemory, outside <- FALSE

\* The board runs a safe program as RV32I does: whatever time the memory
\* takes, each load delivers its own word although its register was rewritten
\* while it waited, each store changes its own bytes once, and no instruction
\* behind overtakes them (riscv_single_vivado.sv:239, 294, 455).
Refines == ISA!Spec

\* The pc never moves on from a memory instruction that the bus has not
\* finished: no answer arrives for an instruction that is gone, and none is
\* left in the converter for the next one to take for its own.
NothingLeftBehind ==
  Begins => /\ Board!Quiet
            /\ ~init_txn_ff /\ ~init_txn_ff2
================================================================================
