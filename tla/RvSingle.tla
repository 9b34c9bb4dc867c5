------------------------------ MODULE RvSingle ------------------------------
(***************************************************************************)
(* The single-cycle core with its memories (module top of                  *)
(* riscv_single.sv): one rising edge executes one instruction.  The units  *)
(* it has in common with the pipelined core (sign bit, branch condition)   *)
(* are those of RvUnits; its decoders, ALU encodings and byte lanes are    *)
(* its own.                                                                *)
(***************************************************************************)
EXTENDS RvUnits

VARIABLES imem,    \* RAM of imem, never written
          dmem,    \* RAM of dmem
          rf,      \* regfile; rf[0] may be written but is read as zero
          PC,      \* pcreg
          outside  \* history, not in the RTL: an instruction left what RV32I
                   \* specifies

vars == <<imem, dmem, rf, PC, outside>>

\* The instructions RV32I defines; for other funct3 the case statements of
\* loads, stores and branches hold their last output.
Legal(ins) == /\ ins.op = "load"   => ins.f3 \in {0, 1, 2, 4, 5}
              /\ ins.op = "store"  => ins.f3 \in {0, 1, 2}
              /\ ins.op = "branch" => ins.f3 \notin {2, 3}

TypeOK ==
  /\ imem \in [WordIndexes -> Instr] /\ \A i \in WordIndexes : Legal(imem[i])
  /\ dmem \in [WordIndexes -> Word] /\ rf \in [Reg -> Word]
  /\ PC \in Word /\ outside \in BOOLEAN

Init ==
  /\ imem \in [WordIndexes -> {i \in Instr : Legal(i)}]
  /\ dmem \in [WordIndexes -> Word] /\ rf \in [Reg -> Word]
  /\ PC = 0 /\ outside = FALSE

-----------------------------------------------------------------------------
\* The controller.

maindecS(op) ==
  [RegWrite  |-> op \notin {"store", "branch"},
   ALUSrc    |-> op \notin {"op", "branch", "jal"},
   MemWrite  |-> op = "store",
   ResultSrc |-> CASE op = "load"            -> 1
                   [] op \in {"jal", "jalr"} -> 2
                   [] op = "auipc"           -> 3
                   [] OTHER                  -> 0,
   Branch    |-> op = "branch",
   ALUOp     |-> CASE op = "branch"           -> 1
                   [] op \in {"op", "opimm"}  -> 2
                   [] op \in {"lui", "auipc"} -> 3
                   [] OTHER                   -> 0,
   Jump      |-> op \in {"jal", "jalr"},
   jalrsig   |-> op = "jalr"]

\* Mutant: subtraction is decoded without looking at bit 5 of the opcode.
aludecSub(op5, f3, f7b5, ALUOp) ==
  CASE ALUOp = 0 -> 0
    [] ALUOp = 1 -> 1
    [] ALUOp = 3 -> 11
    [] OTHER -> CASE f3 = 0 -> IF f7b5 THEN 1 ELSE 0
                  [] f3 = 2 -> 5
                  [] f3 = 6 -> 3
                  [] f3 = 7 -> 2
                  [] f3 = 4 -> 6
                  [] f3 = 1 -> 7
                  [] f3 = 3 -> 8
                  [] OTHER  -> IF f7b5 THEN 10 ELSE 9

aludecS(op5, f3, f7b5, ALUOp) ==
  CASE ALUOp = 0 -> 0
    [] ALUOp = 1 -> 1
    [] ALUOp = 3 -> 11
    [] OTHER -> CASE f3 = 0 -> IF f7b5 /\ op5 THEN 1 ELSE 0
                  [] f3 = 2 -> 5
                  [] f3 = 6 -> 3
                  [] f3 = 7 -> 2
                  [] f3 = 4 -> 6
                  [] f3 = 1 -> 7
                  [] f3 = 3 -> 8
                  [] OTHER  -> IF f7b5 THEN 10 ELSE 9

\* The ALU: bits 0, 1 and 2 of alucontrol steer the adder and its flags.
aluSumS(a, b, ctl) ==
  IF ctl \in {1, 3, 5, 7, 9, 11} THEN a + (WordMod - 1 - b) + 1 ELSE a + b

aluOverflowS(a, b, ctl) ==
  LET c0 == ctl \in {1, 3, 5, 7, 9, 11}
      c1 == ctl \in {2, 3, 6, 7, 10, 11}
      c2 == ctl \in {4, 5, 6, 7}
  IN  /\ ~ExclOr(c0, ExclOr(msb(a), msb(b)))
      /\ ExclOr(msb(a), msb(aluSumS(a, b, ctl) % WordMod))
      /\ (~c2 /\ ~c1) \/ (~c1 /\ c0)

aluResultS(a, b, ctl) ==
  CASE ctl \in {0, 1} -> aluSumS(a, b, ctl) % WordMod
    [] ctl = 2 -> BitAnd(a, b)
    [] ctl = 3 -> BitOr(a, b)
    [] ctl = 5 -> Bool2Word(ExclOr(msb(aluSumS(a, b, ctl) % WordMod),
                                   aluOverflowS(a, b, ctl)))
    [] ctl = 6 -> BitXor(a, b)
    [] ctl = 7 -> Sll(a, b)
    [] ctl = 8 -> Bool2Word(a < b)
    [] ctl = 9 -> Srl(a, b)
    [] ctl = 10 -> Sra(a, b)
    [] OTHER -> b

aluS(a, b, ctl) ==
  [result   |-> aluResultS(a, b, ctl),
   zero     |-> aluResultS(a, b, ctl) = 0,
   negative |-> msb(aluResultS(a, b, ctl)),
   carry    |-> ctl \notin {2, 3, 6, 7, 10, 11} /\ aluSumS(a, b, ctl) >= WordMod,
   overflow |-> aluOverflowS(a, b, ctl)]

-----------------------------------------------------------------------------
\* The datapath.

\* Load_line, as the set of words it may be: a halfword at an odd offset has
\* no defined value.
Load_line(f3, off, rdata) ==
  CASE f3 = 0 -> {SignExtend(ByteAt(rdata, off), ByteMod)}
    [] f3 = 1 -> IF off \in {0, 2}
                 THEN {SignExtend(HalfAt(rdata, off), ByteMod * ByteMod)}
                 ELSE Word
    [] f3 = 4 -> {ByteAt(rdata, off)}
    [] f3 = 5 -> IF off \in {0, 2} THEN {HalfAt(rdata, off)} ELSE Word
    [] OTHER  -> {rdata}

\* The byte stored at offset 3 is concatenated with bits [24:0], one bit too
\* many: the word keeps the low 32 bits, where the byte sits one bit further
\* up, above bit 24 of the old word.
TopByte(rdata, rd2) == ((2 * Byte0(rd2)) % ByteMod) + (Byte3(rdata) % 2)

Write_line(f3, off, rdata, rd2) ==
  CASE f3 = 0 ->
         CASE off = 0 -> {Cat(Byte3(rdata), Byte2(rdata), Byte1(rdata), Byte0(rd2))}
           [] off = 1 -> {Cat(Byte3(rdata), Byte2(rdata), Byte0(rd2), Byte0(rdata))}
           [] off = 2 -> {Cat(Byte3(rdata), Byte0(rd2), Byte1(rdata), Byte0(rdata))}
           [] OTHER   -> {Cat(TopByte(rdata, rd2), Byte2(rdata), Byte1(rdata),
                              Byte0(rdata))}
    [] f3 = 1 ->
         CASE off = 0 -> {Cat(Byte3(rdata), Byte2(rdata), Byte1(rd2), Byte0(rd2))}
           [] off = 2 -> {Cat(Byte1(rd2), Byte0(rd2), Byte1(rdata), Byte0(rdata))}
           [] OTHER   -> Word
    [] OTHER -> {rd2}

Ins == imem[WordIndex(PC)]
Ctl == maindecS(Ins.op)
\* Ports of the register file; register 0 is hardwired to 0.
ReadS(r) == IF r = 0 THEN 0 ELSE rf[r]
SrcA == ReadS(Ins.rs1)
SrcB == IF Ctl.ALUSrc THEN Ins.imm ELSE ReadS(Ins.rs2)
Alu  == aluS(SrcA, SrcB, aludecS(opb5(Ins.op), Ins.f3, Ins.f7, Ctl.ALUOp))
PCSrc == (Ctl.Branch /\ BranchCondition(Ins.f3, Alu)) \/ Ctl.Jump

\* Mutant: the target of jalr keeps the carry out of the adder.
PCNextWide == IF Ctl.jalrsig THEN SrcA + Ins.imm
              ELSE IF PCSrc THEN Add(PC, Ins.imm) ELSE Add(PC, 4)

\* pcmux and jalrmux
PCNext == IF Ctl.jalrsig THEN Alu.result
          ELSE IF PCSrc THEN Add(PC, Ins.imm) ELSE Add(PC, 4)

ReadData == dmem[WordIndex(Alu.result)]

\* resultmux
Result(loaded) == CASE Ctl.ResultSrc = 0 -> Alu.result
                    [] Ctl.ResultSrc = 1 -> loaded
                    [] Ctl.ResultSrc = 2 -> Add(PC, 4)
                    [] OTHER             -> Add(PC, Ins.imm)

Posedge ==
  /\ PC' = PCNext
  /\ \E loaded \in Load_line(Ins.f3, ByteOffset(Alu.result), ReadData) :
       rf' = IF Ctl.RegWrite THEN [rf EXCEPT ![Ins.rd] = Result(loaded)] ELSE rf
  /\ \E stored \in Write_line(Ins.f3, ByteOffset(Alu.result), ReadData,
                              ReadS(Ins.rs2)) :
       dmem' = IF Ctl.MemWrite
               THEN [dmem EXCEPT ![WordIndex(Alu.result)] = stored] ELSE dmem
  /\ outside' = (outside \/ ~Aligned(Ins, PC, SrcA, ReadS(Ins.rs2)))
  /\ UNCHANGED imem

\* Reset clears the pc between two edges.  The register file and the data
\* memory have no reset, so the first instruction is executed at every rising
\* edge under it.
Reset == PC' = 0 /\ outside' = FALSE /\ UNCHANGED <<imem, dmem, rf>>

Next == Posedge \/ Reset
Spec == Init /\ [][Next]_vars

-----------------------------------------------------------------------------
ISA == INSTANCE RvIsa WITH prog <- imem, pc <- PC, mem <- dmem,
                           regs <- [r \in Reg |-> ReadS(r)]

\* A byte stored at offset 3 of its word.
TopByteStore == Ins.op = "store" /\ Ins.f3 = 0 /\ ByteOffset(Alu.result) = 3
SafeSpec == Init /\ [][Reset \/ (Posedge /\ ~TopByteStore)]_vars

\* Every instruction has the effect RV32I gives it on registers, memory and
\* pc, in one clock cycle, reset or not: the two cores are compared with the
\* same machine.
Refines == ISA!Spec
=============================================================================
