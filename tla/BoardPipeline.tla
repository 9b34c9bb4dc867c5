---------------------------- MODULE BoardPipeline ----------------------------
(***************************************************************************)
(* The pipelined core of the board (riscv_pipelined_impl.sv) wired to the  *)
(* memory path of BoardMemory.  It differs from the simulated core in two  *)
(* ways: the memory stage drives the strobe and takes data_out for the     *)
(* word it loads, and the pc's enable also looks at PCReady.  No other     *)
(* register waits for the memory.                                          *)
(***************************************************************************)
EXTENDS RvUnits, AxiSlave, MemControl

VARIABLES clk, reset,                     \* the clock and the button
          imem, rf, PCF, D, E, M, W, h,   \* the core, as in RvPipeline
          MemStrobeM                      \* the new bit of regM

coreVars == <<imem, rf, PCF, D, E, M, W, h, MemStrobeM>>
vars == <<state, masterVars, slaveVars, clk, reset, coreVars>>

\* The data memory as the core addresses it; Data is Word, Addr is WordIndexes.
DataMemory == [i \in WordIndexes |-> mem[Target(i)]]

\* The stages and units are those of the simulated core.
Core == INSTANCE RvPipeline WITH dmem <- DataMemory

-------------------------------------------------------------------------------
\* DataM and StoreOutM: the load and store units on data_out.
DataM == load(M.RegWrite /\ M.ALUSrc /\ M.ResultSrc = 1, M.funct3,
              ByteOffset(M.ALUResult), data_out)
StoreOutM == CHOOSE w \in store(M.MemWrite, M.funct3, ByteOffset(M.ALUResult),
                                data_out, M.WriteData) : TRUE

\* What top.v gives the controller and the converter.
Request == [strobe |-> MemStrobeM, write |-> M.MemWrite,
            addr |-> WordIndex(M.ALUResult), data |-> StoreOutM, steady |-> FALSE]

Board == INSTANCE BoardMemory WITH request <- Request

ZeroRegisters == Core!ZeroRegisters /\ MemStrobeM' = FALSE

Init ==
  /\ imem \in [WordIndexes -> Instr] /\ rf \in [Reg -> Word]
  /\ PCF = 0 /\ MemStrobeM = FALSE
  /\ D = Core!DZero /\ E = Core!EZero /\ M = Core!MZero /\ W = Core!WZero
  /\ h = Core!HZero
  /\ state = "Idle" /\ AxiInit /\ SlaveInit
  /\ clk \in {0, 1} /\ reset \in BOOLEAN

\* pcreg and regD: a stall holds regD, and the pc unless PCReady enables it.
Fetch ==
  /\ PCF' = IF Core!lwStallD /\ ~Done THEN PCF ELSE Core!PCNextF
  /\ D' = IF Core!lwStallD THEN D
          ELSE IF Core!FlushD THEN Core!DZero
          ELSE [Instr |-> imem[WordIndex(PCF)], PC |-> PCF, PCPlus4 |-> Add(PCF, 4)]

\* regW.
Writeback ==
  \E data \in DataM :
    W' = [RegWrite |-> M.RegWrite, ResultSrc |-> M.ResultSrc,
          ALUResult |-> M.ALUResult, Data |-> data, Rd |-> M.Rd,
          PCPlus4 |-> M.PCPlus4, ImmExt |-> M.ImmExt]

\* Rising edge of the core; under reset its registers stay clear.
CoreRise ==
  /\ IF reset
     THEN ZeroRegisters
     ELSE /\ Fetch /\ Core!Decode /\ Core!Exec /\ Writeback /\ Core!Record
          /\ MemStrobeM' = (E.op \in {"load", "store"})
  /\ UNCHANGED <<imem, rf>>

Posedge ==
  /\ CoreRise
  /\ \E awready, wready, arready, commit, answer \in BOOLEAN, okay \in Responses :
       Board!MemoryRise(awready, wready, arready, commit, answer, okay)

\* Falling edge: the register file, the controller and the start pulse.
Negedge ==
  /\ clk = 1 /\ clk' = 0
  /\ rf' = IF W.RegWrite THEN [rf EXCEPT ![W.Rd] = Core!ResultW] ELSE rf
  /\ MemControlNegedge(Request.strobe, Request.write, TXN_DONE, reset)
  /\ InitTxn(AXIstart)
  /\ UNCHANGED <<sequencerVars, writeVars, readVars, error_reg, slaveVars, reset,
                 imem, PCF, D, E, M, W, h, MemStrobeM>>

Press ==
  /\ ~reset /\ reset' = TRUE /\ ZeroRegisters
  /\ UNCHANGED <<state, masterVars, slaveVars, clk, imem, rf>>

Release ==
  /\ reset /\ reset' = FALSE
  /\ UNCHANGED <<state, masterVars, slaveVars, clk, coreVars>>

Next == Posedge \/ Negedge \/ Press \/ Release

Spec == Init /\ [][Next]_vars

-------------------------------------------------------------------------------
\* No instruction is lost: behind an instruction in the memory stage comes the
\* one RV32I executes next, given the registers of the core as they are
\* (lab3_submission/README.md:15, "each instruction was tested for
\* correctness"; the enable of the pc is riscv_pipelined_impl.sv:562).
NothingSkipped == Core!PathCorrect
================================================================================
