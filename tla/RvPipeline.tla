----------------------------- MODULE RvPipeline -----------------------------
(***************************************************************************)
(* The five-stage pipelined core with its instruction and data memories    *)
(* (module top of riscv_pipelined.sv).  The state is that of the flip-flops*)
(* and memories.  A clock cycle is two actions: Posedge loads every        *)
(* pipeline register and writes the data memory, Negedge writes the        *)
(* register file.  Reset is asynchronous and may happen between any two    *)
(* edges.  A pipeline register that reset or a flush cleared holds zero.   *)
(***************************************************************************)
EXTENDS RvUnits

VARIABLES
  imem,      \* RAM of imem: one instruction per word, never written
  dmem,      \* RAM of dmem
  rf,        \* RAM of regfile; rf[0] may be written but is read as zero
  clk,
  PCF,       \* pcreg
  D,         \* regD: Instr, PC and PCPlus4 of the instruction in Decode
  E,         \* controlregE and regE
  M,         \* controlregM and regM
  W,         \* controlregW and regW
  h          \* history, not in the RTL: the instructions in E and M, the pc of
             \* the latter, and whether one left the specified behaviour

vars == <<imem, dmem, rf, clk, PCF, D, E, M, W, h>>

DReg == [Instr : Instr \cup {NoOp}, PC : Word, PCPlus4 : Word]

EReg == [RegWrite : BOOLEAN, ResultSrc : 0 .. 3, MemWrite : BOOLEAN,
         Jump : BOOLEAN, Branch : BOOLEAN, ALUControl : 0 .. 9,
         ALUSrc : BOOLEAN, funct3 : 0 .. 7, op : Op \cup {"none"}, RD1 : Word,
         RD2 : Word, PC : Word, Rs1 : Reg, Rs2 : Reg, Rd : Reg, ImmExt : Word,
         PCPlus4 : Word]

MReg == [RegWrite : BOOLEAN, ResultSrc : 0 .. 3, MemWrite : BOOLEAN,
         ALUResult : Word, Rd : Reg, PCPlus4 : Word, ImmExt : Word,
         ALUSrc : BOOLEAN, funct3 : 0 .. 7, WriteData : Word]

WReg == [RegWrite : BOOLEAN, ResultSrc : 0 .. 3, ALUResult : Word, Data : Word,
         Rd : Reg, PCPlus4 : Word, ImmExt : Word]

DZero == [Instr |-> NoOp, PC |-> 0, PCPlus4 |-> 0]

EZero == [RegWrite |-> FALSE, ResultSrc |-> 0, MemWrite |-> FALSE,
          Jump |-> FALSE, Branch |-> FALSE, ALUControl |-> 0, ALUSrc |-> FALSE,
          funct3 |-> 0, op |-> "none", RD1 |-> 0, RD2 |-> 0, PC |-> 0,
          Rs1 |-> 0, Rs2 |-> 0, Rd |-> 0, ImmExt |-> 0, PCPlus4 |-> 0]

MZero == [RegWrite |-> FALSE, ResultSrc |-> 0, MemWrite |-> FALSE,
          ALUResult |-> 0, Rd |-> 0, PCPlus4 |-> 0, ImmExt |-> 0,
          ALUSrc |-> FALSE, funct3 |-> 0, WriteData |-> 0]

WZero == [RegWrite |-> FALSE, ResultSrc |-> 0, ALUResult |-> 0, Data |-> 0,
          Rd |-> 0, PCPlus4 |-> 0, ImmExt |-> 0]

HZero == [E |-> NoOp, M |-> NoOp, MPC |-> 0, outside |-> FALSE]

History == [E : Instr \cup {NoOp}, M : Instr \cup {NoOp}, MPC : Word,
            outside : BOOLEAN]

TypeOK ==
  /\ imem \in [WordIndexes -> Instr]
  /\ dmem \in [WordIndexes -> Word]
  /\ rf   \in [Reg -> Word]
  /\ clk  \in {0, 1}
  /\ PCF  \in Word
  /\ D \in DReg /\ E \in EReg /\ M \in MReg /\ W \in WReg
  /\ h \in History
-----------------------------------------------------------------------------
(***************************************************************************)
(* Combinational signals, named as in the RTL.                             *)
(***************************************************************************)
\* regfile: reads are combinational, register 0 reads as zero.
Read(r) == IF r # 0 THEN rf[r] ELSE 0

\* resultmux
ResultW == CASE W.ResultSrc = 0 -> W.ALUResult
             [] W.ResultSrc = 1 -> W.Data
             [] W.ResultSrc = 2 -> W.PCPlus4
             [] OTHER           -> W.ImmExt

\* Mutant: the older result wins.
ForwardOldest(rs) == IF rs # 0 /\ rs = W.Rd /\ W.RegWrite THEN 1
                     ELSE IF rs # 0 /\ rs = M.Rd /\ M.RegWrite THEN 2
                     ELSE 0
\* Mutant: writes to register 0 are forwarded.
ForwardZero(rs) == IF rs = M.Rd /\ M.RegWrite THEN 2
                   ELSE IF rs = W.Rd /\ W.RegWrite THEN 1
                   ELSE 0

\* hazard: forwarding to an operand of E, newest value first.
Forward(rs) == IF rs # 0 /\ rs = M.Rd /\ M.RegWrite THEN 2
               ELSE IF rs # 0 /\ rs = W.Rd /\ W.RegWrite THEN 1
               ELSE 0

\* faemux and fbemux
ForwardMux(rd, fwd) == CASE fwd = 2 -> M.ALUResult
                         [] fwd = 1 -> ResultW
                         [] OTHER   -> rd

SrcAE      == ForwardMux(E.RD1, Forward(E.Rs1))
WriteDataE == ForwardMux(E.RD2, Forward(E.Rs2))
SrcBE      == IF E.ALUSrc THEN E.ImmExt ELSE WriteDataE
AluE       == alu(SrcAE, SrcBE, E.ALUControl)

\* PCSrcE[0] and PCSrcE[1]
PCSrcE0 == (E.Branch /\ BranchCondition(E.funct3, AluE)) \/ E.Jump
PCSrcE1 == E.op = "jalr"

\* Mutant: the incremented pc is one bit wider than the register.
PCNextFWide == IF PCSrcE1 THEN Add(SrcAE, E.ImmExt)
               ELSE IF PCSrcE0 THEN Add(E.ImmExt, E.PC)
               ELSE PCF + 4

\* pcmux
PCNextF == IF PCSrcE1 THEN Add(SrcAE, E.ImmExt)
           ELSE IF PCSrcE0 THEN Add(E.ImmExt, E.PC)
           ELSE Add(PCF, 4)

\* Mutants: only loads stall, the select is ignored.
lwStallDLoad   == E.ResultSrc = 1 /\ (D.Instr.rs1 = E.Rd \/ D.Instr.rs2 = E.Rd)
lwStallDAlways == D.Instr.rs1 = E.Rd \/ D.Instr.rs2 = E.Rd
\* Mutant: stalls behind every register write, jal and jalr included.
lwStallDAnyWrite == /\ E.RegWrite
                    /\ D.Instr.rs1 = E.Rd \/ D.Instr.rs2 = E.Rd

\* hazard: a load in E (or a lui, whose ResultSrc is also odd) holds Decode.
lwStallD == /\ E.ResultSrc \in {1, 3}
            /\ D.Instr.rs1 = E.Rd \/ D.Instr.rs2 = E.Rd
FlushD   == PCSrcE0
FlushE   == lwStallD \/ PCSrcE0

\* The data memory word addressed by M.
ReadDataM == dmem[WordIndex(M.ALUResult)]
-----------------------------------------------------------------------------
(***************************************************************************)
(* The two clock edges and reset.                                          *)
(***************************************************************************)
\* Mutants: the reset is not wired to regE, or not to regM.
ZeroRegistersNotE ==
  /\ PCF' = 0
  /\ D' = DZero /\ E' = E /\ M' = MZero /\ W' = WZero
  /\ h' = HZero
ZeroRegistersNotM ==
  /\ PCF' = 0
  /\ D' = DZero /\ E' = EZero /\ M' = M /\ W' = WZero
  /\ h' = HZero

ZeroRegisters ==
  /\ PCF' = 0
  /\ D' = DZero /\ E' = EZero /\ M' = MZero /\ W' = WZero
  /\ h' = HZero

Init ==
  /\ imem \in [WordIndexes -> Instr]
  /\ dmem \in [WordIndexes -> Word]
  /\ rf   \in [Reg -> Word]
  /\ clk = 0
  /\ PCF = 0
  /\ D = DZero /\ E = EZero /\ M = MZero /\ W = WZero
  /\ h = HZero

\* What regE and controlregE load when E is not flushed.
Decoded ==
  LET i == D.Instr
      c == maindec(i.op)
  IN  [RegWrite |-> c.RegWrite, ResultSrc |-> c.ResultSrc,
       MemWrite |-> c.MemWrite, Jump |-> c.Jump, Branch |-> c.Branch,
       ALUControl |-> aludec(opb5(i.op), i.f3, i.f7, c.ALUOp),
       ALUSrc |-> c.ALUSrc, funct3 |-> i.f3, op |-> i.op,
       RD1 |-> IF c.auipcSrc THEN D.PC ELSE Read(i.rs1), RD2 |-> Read(i.rs2),
       PC |-> D.PC, Rs1 |-> i.rs1, Rs2 |-> i.rs2, Rd |-> i.rd,
       ImmExt |-> i.imm, PCPlus4 |-> D.PCPlus4]

Fetch ==
  /\ PCF' = IF lwStallD THEN PCF ELSE PCNextF
  /\ D' = IF lwStallD THEN D
          ELSE IF FlushD THEN DZero
          ELSE [Instr |-> imem[WordIndex(PCF)], PC |-> PCF,
                PCPlus4 |-> Add(PCF, 4)]

Decode == E' = IF FlushE THEN EZero ELSE Decoded

Exec ==
  M' = [RegWrite |-> E.RegWrite, ResultSrc |-> E.ResultSrc,
        MemWrite |-> E.MemWrite, ALUResult |-> AluE.result, Rd |-> E.Rd,
        PCPlus4 |-> E.PCPlus4, ImmExt |-> E.ImmExt, ALUSrc |-> E.ALUSrc,
        funct3 |-> E.funct3, WriteData |-> WriteDataE]

MemoryAccess ==
  LET off == ByteOffset(M.ALUResult)
  IN  \E data \in load(M.RegWrite /\ M.ALUSrc /\ M.ResultSrc = 1,
                       M.funct3, off, ReadDataM) :
      \E out \in store(M.MemWrite, M.funct3, off, data, M.WriteData) :
        /\ W' = [RegWrite |-> M.RegWrite, ResultSrc |-> M.ResultSrc,
                 ALUResult |-> M.ALUResult, Data |-> data, Rd |-> M.Rd,
                 PCPlus4 |-> M.PCPlus4, ImmExt |-> M.ImmExt]
        /\ dmem' = IF M.MemWrite
                   THEN [dmem EXCEPT ![WordIndex(M.ALUResult)] = out]
                   ELSE dmem

\* The registers as the instructions up to the one in W leave them: what
\* rf holds once the pending negative edge has written ResultW.
Committed == [r \in Reg |-> IF r = 0 THEN 0
                            ELSE IF W.RegWrite /\ W.Rd = r THEN ResultW
                            ELSE rf[r]]

\* The instruction in M leaves the specified behaviour.
LeavesM ==
  /\ h.M # NoOp
  /\ ~Aligned(h.M, h.MPC, Committed[h.M.rs1], Committed[h.M.rs2])

Record ==
  h' = [E |-> IF FlushE THEN NoOp ELSE D.Instr, M |-> h.E, MPC |-> E.PC,
        outside |-> h.outside \/ LeavesM]

Posedge ==
  /\ clk = 0
  /\ clk' = 1
  /\ Fetch /\ Decode /\ Exec /\ MemoryAccess /\ Record
  /\ UNCHANGED <<imem, rf>>

Negedge ==
  /\ clk = 1
  /\ clk' = 0
  /\ rf' = IF W.RegWrite THEN [rf EXCEPT ![W.Rd] = ResultW] ELSE rf
  /\ UNCHANGED <<imem, dmem, PCF, D, E, M, W, h>>

Reset ==
  /\ ZeroRegisters
  /\ UNCHANGED <<imem, dmem, rf, clk>>

Next == Posedge \/ Negedge \/ Reset

Spec == Init /\ [][Next]_vars

\* The clock never stops.
FairSpec == Spec /\ WF_vars(Posedge) /\ WF_vars(Negedge)
-----------------------------------------------------------------------------
(***************************************************************************)
(* Properties.                                                             *)
(***************************************************************************)
validD == D.Instr # NoOp
validE == h.E # NoOp
validM == h.M # NoOp

\* The oldest instruction not yet executed: in E, in D, or still in memory;
\* and the same counting the one in M.
PCYoung  == IF validE THEN E.PC ELSE IF validD THEN D.PC ELSE PCF
PCOldest == IF validM THEN h.MPC ELSE PCYoung

\* The operands of the instruction in M, the memory word at its address, and
\* the registers as it leaves them.
OpA == Committed[h.M.rs1]
OpB == Committed[h.M.rs2]
MWord == dmem[WordIndex(AddressOf(h.M, OpA))]
AfterM(r) ==
  IF validM /\ WritesRd(h.M) /\ h.M.rd = r /\ r # 0
  THEN ResultOf(h.M, h.MPC, OpA, OpB, MWord)
  ELSE Committed[r]

\* The registers the datapath reads for the instruction in E, other than to
\* compute an address from the pc.
UsesRs1(ins) == ins.op \in {"load", "store", "op", "opimm", "branch", "jalr"}
UsesRs2(ins) == ins.op \in {"store", "op", "branch"}

\* Instructions flow in program order: what is in D and E is what the memory
\* holds at its pc, one instruction apart, a bubble never separates E from D,
\* and the control bits travel with their instruction.
InOrder ==
  /\ validD => /\ D.Instr = imem[WordIndex(D.PC)]
               /\ D.PCPlus4 = Add(D.PC, 4)
               /\ PCF = D.PCPlus4
  /\ ~validD => D = DZero
  /\ validE => /\ validD
               /\ h.E = imem[WordIndex(E.PC)]
               /\ D.PC = E.PCPlus4
               /\ E.PCPlus4 = Add(E.PC, 4)
  /\ ~validE => E = EZero
  /\ validM => /\ h.M = imem[WordIndex(h.MPC)]
               /\ M.PCPlus4 = Add(h.MPC, 4)

ControlsE ==
  LET c == maindec(h.E.op)
  IN  validE =>
        /\ E.RegWrite = c.RegWrite /\ E.ResultSrc = c.ResultSrc
        /\ E.MemWrite = c.MemWrite /\ E.Jump = c.Jump /\ E.Branch = c.Branch
        /\ E.ALUSrc = c.ALUSrc
        /\ E.ALUControl = aludec(opb5(h.E.op), h.E.f3, h.E.f7, c.ALUOp)
        /\ E.funct3 = h.E.f3 /\ E.op = h.E.op /\ E.ImmExt = h.E.imm
        /\ E.Rs1 = h.E.rs1 /\ E.Rs2 = h.E.rs2 /\ E.Rd = h.E.rd

ControlsM ==
  LET c == maindec(h.M.op)
  IN  /\ validM =>
           /\ M.RegWrite = c.RegWrite /\ M.ResultSrc = c.ResultSrc
           /\ M.MemWrite = c.MemWrite /\ M.ALUSrc = c.ALUSrc
           /\ M.funct3 = h.M.f3 /\ M.ImmExt = h.M.imm /\ M.Rd = h.M.rd
      /\ ~validM => ~M.RegWrite /\ ~M.MemWrite

\* By the next rising edge the register file holds what W computes.
Written == clk = 0 /\ W.RegWrite => rf[W.Rd] = ResultW

\* What E read in Decode is current, except for what the instruction now in W
\* wrote after it.
FromW(rd, r) == IF r # 0 /\ W.RegWrite /\ W.Rd = r THEN ResultW ELSE rd
OperandsRead ==
  validE => /\ UsesRs1(h.E) => FromW(E.RD1, E.Rs1) = Committed[E.Rs1]
            /\ h.E.op = "auipc" => E.RD1 = E.PC
            /\ FromW(E.RD2, E.Rs2) = Committed[E.Rs2]

\* The result in M is the one the instruction has with the operands its
\* predecessors leave.
ResultInM ==
  validM =>
    /\ h.M.op = "op"                => M.ALUResult = AluMeaning(h.M, OpA, OpB)
    /\ h.M.op = "opimm"             => M.ALUResult = AluMeaning(h.M, OpA, h.M.imm)
    /\ h.M.op \in {"load", "store"} => M.ALUResult = AddressOf(h.M, OpA)
    /\ h.M.op = "auipc"             => M.ALUResult = Add(h.MPC, h.M.imm)
    /\ h.M.op = "store"             => M.WriteData = OpB

\* No wrong-path instruction survives: behind an instruction in M comes the
\* one that RV32I executes next, and nothing of those fetched after a branch,
\* jal or jalr before it was resolved.
PathCorrect == validM => PCYoung = NextPC(h.M, h.MPC, OpA, OpB)

\* The result of a load or lui in M cannot be forwarded: nothing in E needs
\* it; and behind a jump E is empty.
LoadUse ==
  validM /\ validE =>
    /\ h.M.op \in {"load", "lui"} => h.M.rd \notin {E.Rs1, E.Rs2}
    /\ h.M.op \notin {"jal", "jalr"}

PipelineInv ==
  /\ InOrder /\ ControlsE /\ ControlsM /\ Written
  /\ OperandsRead /\ ResultInM /\ PathCorrect /\ LoadUse

\* The operands that enter the ALU, the store data and the branch comparison
\* are the register values all older instructions leave, wherever in M, W or
\* the register file they are.
OperandsUpToDate ==
  validE => /\ UsesRs1(h.E) => SrcAE = AfterM(E.Rs1)
            /\ UsesRs2(h.E) => WriteDataE = AfterM(E.Rs2)

\* A stall and a redirection never coincide.  regD ignores its clear input
\* while it is held, so a flush in a stalled cycle would be lost.
StallExcludesRedirect == ~(lwStallD /\ PCSrcE0)

ISA == INSTANCE RvIsa WITH prog <- imem, pc <- PCOldest, regs <- Committed,
                           mem <- dmem, outside <- h.outside

\* The core executes its program one instruction after the other: the
\* instruction leaving M is the next one of the abstract machine, with the
\* operands, the result, the memory effect and the successor RV32I gives it.
\* Every stall, bubble, flush and forwarding path is invisible.
Refines == ISA!Spec

\* Once resets stop, instructions keep completing: no stall lasts, whatever
\* the program.
KeepsExecuting == <>[][~Reset]_vars => []<>validM

\* Programs whose auipc immediates name no register in bits [19:15].  There
\* the datapath takes immediate bits for a source register.
NoAuipcAlias == \A i \in WordIndexes : imem[i].op = "auipc" => imem[i].rs1 = 0

SafeSpec == Init /\ NoAuipcAlias /\ [][Next]_vars
=============================================================================
