-------------------------- MODULE RvPipeline_proofs -------------------------
(***************************************************************************)
(* The pipelined core implements RV32I, for every program, every number of *)
(* registers and every byte width: its types, the inductive invariant, and *)
(* the refinement of RvIsa, in which each rising edge with an instruction  *)
(* in M is one step of the abstract machine and everything else a stutter. *)
(***************************************************************************)
EXTENDS RvPipeline, RvUnits_proofs, TLAPS
-----------------------------------------------------------------------------
(***************************************************************************)
(* Types.                                                                  *)
(***************************************************************************)
LEMMA IndexType == ASSUME NEW a \in Word PROVE WordIndex(a) \in WordIndexes
  BY WordModPos DEF WordIndex, WordIndexes, Word

LEMMA NoOpNotInstr == NoOp \notin Instr
  BY DEF NoOp, Instr, Op

LEMMA ZeroReg == 0 \in Reg
  BY NumRegsAssumption DEF Reg

\* The fields of what may be in the Decode register.
LEMMA InstrFields ==
  ASSUME NEW i \in Instr \cup {NoOp}
  PROVE  /\ i.op \in Op \cup {"none"} /\ i.f3 \in 0 .. 7 /\ i.f7 \in BOOLEAN
         /\ i.rd \in Reg /\ i.rs1 \in Reg /\ i.rs2 \in Reg /\ i.imm \in Word
  <1>1. CASE i \in Instr
    BY <1>1 DEF Instr
  <1>2. CASE i = NoOp
    BY <1>2, ZeroReg, SmallWords DEF NoOp
  <1> QED
    BY <1>1, <1>2

LEMMA MaindecType ==
  ASSUME NEW op PROVE maindec(op) \in Controls
  <1>1. (CASE op = "load" -> 1 [] op \in {"jal", "jalr"} -> 2 [] op = "lui" -> 3
           [] OTHER -> 0) \in 0 .. 3
    OBVIOUS
  <1>2. (CASE op = "branch" -> 1 [] op \in {"op", "opimm", "lui"} -> 2
           [] OTHER -> 0) \in 0 .. 2
    OBVIOUS
  <1> QED
    BY <1>1, <1>2 DEF maindec, Controls

LEMMA AludecType ==
  ASSUME NEW o \in BOOLEAN, NEW f3 \in 0 .. 7, NEW f7 \in BOOLEAN,
         NEW ao \in 0 .. 2
  PROVE  aludec(o, f3, f7, ao) \in 0 .. 9
  BY DEF aludec

LEMMA SignalTypes ==
  ASSUME TypeOK
  PROVE  /\ ResultW \in Word /\ SrcAE \in Word /\ WriteDataE \in Word
         /\ SrcBE \in Word /\ AluE.result \in Word /\ PCNextF \in Word
         /\ ReadDataM \in Word
         /\ \A r \in Reg : Read(r) \in Word /\ Committed[r] \in Word
         /\ Committed \in [Reg -> Word]
  <1> USE DEF TypeOK
  <1>1. ResultW \in Word
    BY DEF ResultW, WReg
  <1>2. SrcAE \in Word /\ WriteDataE \in Word
    BY <1>1 DEF SrcAE, WriteDataE, ForwardMux, EReg, MReg
  <1>3. SrcBE \in Word
    BY <1>2 DEF SrcBE, EReg
  <1>4. E.ALUControl \in 0 .. 9 /\ E.ImmExt \in Word /\ E.PC \in Word
        /\ M.ALUResult \in Word
    BY DEF EReg, MReg
  <1>5. AluE.result \in Word
    BY <1>2, <1>3, <1>4, AluResultType DEF AluE, alu
  <1>6. PCNextF \in Word
    BY <1>2, <1>4, AddType, SmallWords DEF PCNextF
  <1>7. ReadDataM \in Word
    BY <1>4, IndexType DEF ReadDataM
  <1>8. \A r \in Reg : Read(r) \in Word
    BY SmallWords DEF Read
  <1>9. Committed \in [Reg -> Word]
    BY <1>1, SmallWords DEF Committed
  <1> QED
    BY <1>1, <1>2, <1>3, <1>5, <1>6, <1>7, <1>8, <1>9

LEMMA DecodedType == ASSUME TypeOK PROVE Decoded \in EReg
  <1>1. D.Instr \in Instr \cup {NoOp} /\ D.PC \in Word /\ D.PCPlus4 \in Word
    BY DEF TypeOK, DReg
  <1>2. maindec(D.Instr.op) \in Controls
    BY MaindecType
  <1>3. aludec(opb5(D.Instr.op), D.Instr.f3, D.Instr.f7,
               maindec(D.Instr.op).ALUOp) \in 0 .. 9
    BY <1>1, <1>2, AludecType, InstrFields DEF Controls, opb5
  <1>4. Read(D.Instr.rs1) \in Word /\ Read(D.Instr.rs2) \in Word
    BY <1>1, InstrFields, SignalTypes
  <1> QED
    BY <1>1, <1>2, <1>3, <1>4, InstrFields DEF Decoded, EReg, Controls

LEMMA ZeroTypes == /\ DZero \in DReg /\ EZero \in EReg /\ MZero \in MReg
                   /\ WZero \in WReg /\ HZero \in History
  BY ZeroReg, SmallWords DEF DZero, EZero, MZero, WZero, HZero, DReg, EReg, MReg,
     WReg, History

LEMMA TypeStep == TypeOK /\ [Next]_vars => TypeOK'
  <1> SUFFICES ASSUME TypeOK, [Next]_vars PROVE TypeOK'
    OBVIOUS
  <1>1. CASE Posedge
    <2> USE <1>1 DEF Posedge
    <2>1. imem' = imem /\ rf' = rf /\ clk' = 1
      OBVIOUS
    <2>2. PCF' \in Word
      BY SignalTypes DEF Fetch, TypeOK
    <2>3. D' \in DReg
      <3>1. [Instr |-> imem[WordIndex(PCF)], PC |-> PCF, PCPlus4 |-> Add(PCF, 4)]
              \in DReg
        BY IndexType, AddType, SmallWords DEF TypeOK, DReg
      <3> QED
        BY <3>1, ZeroTypes DEF Fetch, TypeOK
    <2>4. E' \in EReg
      BY DecodedType, ZeroTypes DEF Decode
    <2>5. M' \in MReg
      BY SignalTypes DEF Exec, TypeOK, EReg, MReg
    <2>6. W' \in WReg /\ dmem' \in [WordIndexes -> Word]
      <3> DEFINE off == ByteOffset(M.ALUResult)
                 isLoad == M.RegWrite /\ M.ALUSrc /\ M.ResultSrc = 1
      <3>1. M \in MReg /\ off \in 0 .. 3
        BY OffsetType DEF TypeOK, MReg
      <3>2. PICK data \in load(isLoad, M.funct3, off, ReadDataM) :
              \E out \in store(M.MemWrite, M.funct3, off, data, M.WriteData) :
                /\ W' = [RegWrite |-> M.RegWrite, ResultSrc |-> M.ResultSrc,
                         ALUResult |-> M.ALUResult, Data |-> data, Rd |-> M.Rd,
                         PCPlus4 |-> M.PCPlus4, ImmExt |-> M.ImmExt]
                /\ dmem' = IF M.MemWrite
                           THEN [dmem EXCEPT ![WordIndex(M.ALUResult)] = out]
                           ELSE dmem
        BY DEF MemoryAccess
      <3>3. data \in Word
        BY <3>1, LoadType, SignalTypes DEF MReg
      <3>4. PICK out \in store(M.MemWrite, M.funct3, off, data, M.WriteData) :
              dmem' = IF M.MemWrite
                      THEN [dmem EXCEPT ![WordIndex(M.ALUResult)] = out]
                      ELSE dmem
        BY <3>2
      <3>5. out \in Word
        BY <3>1, <3>3, StoreType DEF MReg
      <3>6. W' \in WReg
        BY <3>1, <3>2, <3>3 DEF MReg, WReg
      <3> QED
        BY <3>4, <3>5, <3>6 DEF TypeOK
    <2>7. h' \in History
      <3>1. (h.outside \/ LeavesM) \in BOOLEAN
        BY DEF LeavesM, TypeOK, History
      <3> QED
        BY <3>1 DEF Record, History, TypeOK, DReg, EReg
    <2> QED
      BY <2>1, <2>2, <2>3, <2>4, <2>5, <2>6, <2>7 DEF TypeOK
  <1>2. CASE Negedge
    BY <1>2, SignalTypes DEF Negedge, TypeOK
  <1>3. CASE Reset
    BY <1>3, ZeroTypes, SmallWords DEF Reset, ZeroRegisters, TypeOK
  <1>4. CASE UNCHANGED vars
    BY <1>4 DEF vars, TypeOK
  <1> QED
    BY <1>1, <1>2, <1>3, <1>4 DEF Next

\* Every register of the pipeline keeps its type, whatever the program: in
\* particular no word leaves the word size and every memory index is in range.
THEOREM TypeCorrect == Spec => []TypeOK
  <1>1. Init => TypeOK
    BY ZeroTypes, SmallWords DEF Init, TypeOK
  <1> QED
    BY <1>1, TypeStep, PTL DEF Spec
-----------------------------------------------------------------------------
(***************************************************************************)
(* The inductive invariant.  Inv collects what the steps below need.       *)
(***************************************************************************)
Inv == TypeOK /\ PipelineInv /\ NoAuipcAlias

LEMMA InstrOfE ==
  ASSUME TypeOK, validE PROVE h.E \in Instr /\ h.E.op \in Op /\ h.E.f3 \in 0 .. 7
                              /\ h.E.imm \in Word /\ h.E.rs1 \in Reg
                              /\ h.E.rs2 \in Reg /\ h.E.rd \in Reg
  <1>1. h.E \in Instr
    BY DEF TypeOK, History, validE
  <1> QED
    BY <1>1 DEF Instr

LEMMA InstrOfM ==
  ASSUME TypeOK, validM PROVE h.M \in Instr /\ h.M.op \in Op /\ h.M.f3 \in 0 .. 7
                              /\ h.M.imm \in Word /\ h.M.rs1 \in Reg
                              /\ h.M.rs2 \in Reg /\ h.M.rd \in Reg
                              /\ h.MPC \in Word
  <1>1. h.M \in Instr /\ h.MPC \in Word
    BY DEF TypeOK, History, validM
  <1> QED
    BY <1>1 DEF Instr

LEMMA InstrOfD ==
  ASSUME TypeOK, validD PROVE D.Instr \in Instr
  BY DEF TypeOK, DReg, validD

\* What M forwards is the result of its instruction: nothing in E needs a
\* result that M does not have yet.
LEMMA ForwardM ==
  ASSUME Inv, validE, NEW r \in {E.Rs1, E.Rs2}, r # 0, M.RegWrite, M.Rd = r
  PROVE  /\ validM /\ WritesRd(h.M) /\ h.M.rd = r
         /\ M.ALUResult = ResultOf(h.M, h.MPC, OpA, OpB, MWord)
         /\ M.ResultSrc = 0
  <1> USE DEF Inv, PipelineInv
  <1>1. validM /\ h.M.rd = r /\ M.RegWrite = maindec(h.M.op).RegWrite
        /\ M.ResultSrc = maindec(h.M.op).ResultSrc
    BY DEF ControlsM
  <1>2. h.M.op \in Op /\ h.M.op \notin {"store", "branch"}
    BY <1>1, InstrOfM DEF maindec
  <1>3. h.M.op \notin {"load", "lui", "jal", "jalr"}
    BY <1>1 DEF LoadUse
  <1>4. h.M.op \in {"op", "opimm", "auipc"}
    BY <1>2, <1>3 DEF Op
  <1>5. M.ResultSrc = 0
    BY <1>1, <1>4 DEF maindec
  <1>6. M.ALUResult = ResultOf(h.M, h.MPC, OpA, OpB, MWord)
    BY <1>1, <1>4 DEF ResultInM, ResultOf
  <1> QED
    BY <1>1, <1>2, <1>5, <1>6 DEF WritesRd

\* An operand register that M does not write.
LEMMA NoWriteM ==
  ASSUME Inv, NEW r, ~(M.RegWrite /\ M.Rd = r) \/ r = 0
  PROVE  AfterM(r) = Committed[r]
  <1>1. validM => M.RegWrite = maindec(h.M.op).RegWrite /\ M.Rd = h.M.rd
    BY DEF Inv, PipelineInv, ControlsM
  <1>2. CASE r = 0
    BY <1>2 DEF AfterM
  <1>3. CASE ~(M.RegWrite /\ M.Rd = r)
    <2>1. ~(validM /\ WritesRd(h.M) /\ h.M.rd = r)
      <3>1. SUFFICES ASSUME validM, WritesRd(h.M), h.M.rd = r PROVE FALSE
        OBVIOUS
      <3>2. h.M.op \in Op
        BY <3>1, InstrOfM DEF Inv
      <3>3. maindec(h.M.op).RegWrite
        BY <3>1, <3>2 DEF maindec, WritesRd, Op
      <3> QED
        BY <1>1, <1>3, <3>1, <3>3
    <2> QED
      BY <2>1 DEF AfterM
  <1> QED
    BY <1>2, <1>3

\* The forwarding network delivers current operands.
LEMMA Operands == Inv => OperandsUpToDate
  <1> SUFFICES ASSUME Inv, validE PROVE /\ UsesRs1(h.E) => SrcAE = AfterM(E.Rs1)
                                        /\ UsesRs2(h.E) => WriteDataE = AfterM(E.Rs2)
    BY DEF OperandsUpToDate
  <1>1. ASSUME NEW r \in {E.Rs1, E.Rs2}, NEW rd, FromW(rd, r) = Committed[r]
        PROVE  ForwardMux(rd, Forward(r)) = AfterM(r)
    <2>1. CASE r # 0 /\ M.RegWrite /\ M.Rd = r
      <3>1. ForwardMux(rd, Forward(r)) = M.ALUResult
        BY <2>1 DEF ForwardMux, Forward
      <3>2. AfterM(r) = M.ALUResult
        BY <2>1, ForwardM DEF AfterM
      <3> QED
        BY <3>1, <3>2
    <2>2. CASE ~(r # 0 /\ M.RegWrite /\ M.Rd = r)
      <3>1. ForwardMux(rd, Forward(r)) = FromW(rd, r)
        BY <2>2 DEF ForwardMux, Forward, FromW
      <3>2. AfterM(r) = Committed[r]
        BY <2>2, NoWriteM
      <3> QED
        BY <1>1, <3>1, <3>2
    <2> QED
      BY <2>1, <2>2
  <1>2. /\ UsesRs1(h.E) => FromW(E.RD1, E.Rs1) = Committed[E.Rs1]
        /\ FromW(E.RD2, E.Rs2) = Committed[E.Rs2]
    BY DEF Inv, PipelineInv, OperandsRead
  <1> QED
    BY <1>1, <1>2 DEF SrcAE, WriteDataE

\* The operands of E in the terms of the abstract machine.
EA == AfterM(E.Rs1)
EB == AfterM(E.Rs2)

\* A successor does not depend on operands the instruction does not read.
LEMMA NextPCReads ==
  ASSUME NEW ins \in Instr, NEW pc, NEW a, NEW b, NEW a2, NEW b2,
         UsesRs1(ins) => a = a2, UsesRs2(ins) => b = b2
  PROVE  NextPC(ins, pc, a, b) = NextPC(ins, pc, a2, b2)
  BY DEF NextPC, UsesRs1, UsesRs2

LEMMA AddCommutes == ASSUME NEW a \in Word, NEW b \in Word
                     PROVE  Add(a, b) = Add(b, a)
  BY WordModPos DEF Add, Word

\* The control bits of E, one instruction class at a time.
LEMMA ControlOfE ==
  ASSUME Inv, validE
  PROVE  /\ E.Branch <=> h.E.op = "branch"
         /\ E.Jump <=> h.E.op \in {"jal", "jalr"}
         /\ E.op = h.E.op
         /\ E.ResultSrc \in {1, 3} <=> h.E.op \in {"load", "lui"}
         /\ E.RegWrite <=> WritesRd(h.E)
         /\ E.MemWrite <=> h.E.op = "store"
         /\ E.ALUSrc <=> h.E.op \notin {"op", "branch", "jal"}
         /\ E.funct3 = h.E.f3 /\ E.ImmExt = h.E.imm
         /\ E.Rs1 = h.E.rs1 /\ E.Rs2 = h.E.rs2 /\ E.Rd = h.E.rd
         /\ h.E.op = "branch" => E.ALUControl = 1
         /\ h.E.op \in {"load", "store", "auipc"} => E.ALUControl = 0
  <1>1. h.E.op \in Op
    BY InstrOfE DEF Inv
  <1> USE DEF Inv, PipelineInv, ControlsE
  <1>2. /\ E.Branch = (h.E.op = "branch") /\ E.Jump = (h.E.op \in {"jal", "jalr"})
        /\ E.op = h.E.op /\ E.funct3 = h.E.f3 /\ E.ImmExt = h.E.imm
        /\ E.Rs1 = h.E.rs1 /\ E.Rs2 = h.E.rs2 /\ E.Rd = h.E.rd
    BY DEF maindec
  <1>3. E.RegWrite = (h.E.op \notin {"store", "branch", "none"})
        /\ E.MemWrite = (h.E.op = "store")
        /\ E.ALUSrc = (h.E.op \notin {"op", "branch", "jal", "none"})
    BY DEF maindec
  <1>4. E.ResultSrc \in {1, 3} <=> h.E.op \in {"load", "lui"}
    BY <1>1 DEF maindec, Op
  <1>5. /\ h.E.op = "branch" => maindec(h.E.op).ALUOp = 1
        /\ h.E.op \in {"load", "store", "auipc"} => maindec(h.E.op).ALUOp = 0
    BY DEF maindec
  <1>6. /\ h.E.op = "branch" => E.ALUControl = 1
        /\ h.E.op \in {"load", "store", "auipc"} => E.ALUControl = 0
    BY <1>5 DEF aludec
  <1> QED
    BY <1>1, <1>2, <1>3, <1>4, <1>6 DEF WritesRd, Op

\* A bubble in E neither stalls nor redirects.
LEMMA BubbleE == ASSUME Inv, ~validE PROVE ~PCSrcE0 /\ ~PCSrcE1 /\ ~lwStallD
  BY DEF Inv, PipelineInv, InOrder, EZero, PCSrcE0, PCSrcE1, lwStallD

\* E redirects the fetch exactly when its instruction has a successor other
\* than the next word, and then to that successor.
LEMMA Redirect ==
  ASSUME Inv, validE
  PROVE  /\ PCSrcE0 => PCNextF = NextPC(h.E, E.PC, EA, EB)
         /\ ~PCSrcE0 => /\ NextPC(h.E, E.PC, EA, EB) = Add(E.PC, 4)
                        /\ PCNextF = Add(PCF, 4)
         /\ PCSrcE0 => ~lwStallD
         /\ h.E.op \in {"jal", "jalr"} => PCSrcE0
  <1>1. h.E \in Instr /\ h.E.op \in Op /\ h.E.f3 \in 0 .. 7 /\ E.PC \in Word
        /\ E.ImmExt \in Word
    BY InstrOfE DEF Inv, TypeOK, EReg
  <1>2. Add(E.ImmExt, E.PC) = Add(E.PC, h.E.imm)
    BY <1>1, AddCommutes, ControlOfE
  <1>3. CASE h.E.op = "branch"
    <2>1. SrcAE = EA /\ SrcBE = EB
      BY <1>3, Operands, ControlOfE DEF OperandsUpToDate, UsesRs1, UsesRs2, EA,
         EB, SrcBE
    <2>2. EA \in Word /\ EB \in Word
      BY <2>1, SignalTypes DEF Inv
    <2>3. AluE = alu(EA, EB, 1)
      BY <1>3, <2>1, ControlOfE DEF AluE
    <2>4. BranchCondition(h.E.f3, alu(EA, EB, 1)) <=> Taken(h.E.f3, EA, EB)
      BY <1>1, <2>2, BranchDecision
    <2>5. PCSrcE0 <=> Taken(h.E.f3, EA, EB)
      BY <1>3, <2>3, <2>4, ControlOfE DEF PCSrcE0
    <2>6. ~PCSrcE1 /\ ~lwStallD
      BY <1>3, ControlOfE DEF PCSrcE1, lwStallD
    <2> QED
      BY <1>2, <1>3, <2>5, <2>6 DEF PCNextF, NextPC
  <1>4. CASE h.E.op = "jal"
    <2>1. PCSrcE0 /\ ~PCSrcE1 /\ ~lwStallD
      BY <1>4, ControlOfE DEF PCSrcE0, PCSrcE1, lwStallD
    <2> QED
      BY <1>2, <1>4, <2>1 DEF PCNextF, NextPC
  <1>5. CASE h.E.op = "jalr"
    <2>1. PCSrcE0 /\ PCSrcE1 /\ ~lwStallD
      BY <1>5, ControlOfE DEF PCSrcE0, PCSrcE1, lwStallD
    <2>2. SrcAE = EA
      BY <1>5, Operands DEF OperandsUpToDate, UsesRs1, EA
    <2> QED
      BY <1>5, <2>1, <2>2, ControlOfE DEF PCNextF, NextPC
  <1>6. CASE h.E.op \notin {"branch", "jal", "jalr"}
    <2>1. ~PCSrcE0 /\ ~PCSrcE1
      BY <1>6, ControlOfE DEF PCSrcE0, PCSrcE1
    <2> QED
      BY <1>6, <2>1 DEF PCNextF, NextPC
  <1> QED
    BY <1>3, <1>4, <1>5, <1>6

LEMMA StallOrRedirect == Inv => StallExcludesRedirect
  BY BubbleE, Redirect DEF StallExcludesRedirect

\* The ALU computes what the instruction in E means.
LEMMA Executed ==
  ASSUME Inv, validE
  PROVE  /\ h.E.op = "op"                => AluE.result = AluMeaning(h.E, EA, EB)
         /\ h.E.op = "opimm"             => AluE.result = AluMeaning(h.E, EA, h.E.imm)
         /\ h.E.op \in {"load", "store"} => AluE.result = AddressOf(h.E, EA)
         /\ h.E.op = "auipc"             => AluE.result = Add(E.PC, h.E.imm)
         /\ h.E.op = "store"             => WriteDataE = EB
  <1>1. h.E \in Instr /\ h.E.imm \in Word /\ SrcAE \in Word /\ SrcBE \in Word
    BY InstrOfE, SignalTypes DEF Inv
  <1>2. AluE.result = aluResult(SrcAE, SrcBE, E.ALUControl)
    BY DEF AluE, alu
  <1>3. /\ UsesRs1(h.E) => SrcAE = EA
        /\ UsesRs2(h.E) => WriteDataE = EB
    BY Operands DEF OperandsUpToDate, EA, EB
  <1>4. E.ALUControl = aludec(opb5(h.E.op), h.E.f3, h.E.f7, maindec(h.E.op).ALUOp)
    BY DEF Inv, PipelineInv, ControlsE
  <1>5. SrcBE = IF h.E.op \notin {"op", "branch", "jal"} THEN h.E.imm ELSE WriteDataE
    BY ControlOfE DEF SrcBE
  <1>6. CASE h.E.op \in {"op", "opimm"}
    <2>1. AluE.result = AluMeaning(h.E, SrcAE, SrcBE)
      BY <1>1, <1>2, <1>4, <1>6, ArithmeticDecode
    <2> QED
      BY <1>3, <1>5, <1>6, <2>1 DEF UsesRs1, UsesRs2
  <1>7. CASE h.E.op \in {"load", "store"}
    <2>1. AluE.result = Add(SrcAE, SrcBE)
      BY <1>1, <1>2, <1>7, ControlOfE, AddOnAlu
    <2> QED
      BY <1>3, <1>5, <1>7, <2>1 DEF UsesRs1, UsesRs2, AddressOf
  <1>8. CASE h.E.op = "auipc"
    <2>1. AluE.result = Add(SrcAE, SrcBE)
      BY <1>1, <1>2, <1>8, ControlOfE, AddOnAlu
    <2>2. h.E = imem[WordIndex(E.PC)] /\ E.RD1 = E.PC
      BY <1>8 DEF Inv, PipelineInv, InOrder, OperandsRead
    <2>3. WordIndex(E.PC) \in WordIndexes
      BY IndexType DEF Inv, TypeOK, EReg
    <2>4. E.Rs1 = 0
      BY <1>8, <2>2, <2>3, ControlOfE DEF Inv, NoAuipcAlias
    <2>5. SrcAE = E.PC
      BY <2>2, <2>4 DEF SrcAE, Forward, ForwardMux
    <2> QED
      BY <1>5, <1>8, <2>1, <2>5
  <1> QED
    BY <1>3, <1>6, <1>7, <1>8 DEF UsesRs2

\* The rising edge moves the result of M to W: the registers it leaves are
\* the current ones with that result written.
LEMMA CommittedAfter ==
  ASSUME Inv, TypeOK', Posedge, NEW r \in Reg
  PROVE  /\ Committed'[r] = IF r # 0 /\ M.RegWrite /\ M.Rd = r THEN ResultW'
                            ELSE Committed[r]
         /\ Read(r) = Committed[r]
         /\ W'.RegWrite = M.RegWrite /\ W'.Rd = M.Rd
         /\ M.ResultSrc = 0 => ResultW' = M.ALUResult
         /\ M.ResultSrc = 1 => ResultW' = W'.Data
         /\ M.ResultSrc = 2 => ResultW' = M.PCPlus4
         /\ M.ResultSrc = 3 => ResultW' = M.ImmExt
  <1>1. clk = 0 /\ rf' = rf
    BY DEF Posedge
  <1>2. /\ W'.RegWrite = M.RegWrite /\ W'.Rd = M.Rd /\ W'.ResultSrc = M.ResultSrc
        /\ W'.ALUResult = M.ALUResult /\ W'.PCPlus4 = M.PCPlus4
        /\ W'.ImmExt = M.ImmExt
    BY DEF Posedge, MemoryAccess
  <1>3. Read(r) = Committed[r]
    BY <1>1 DEF Read, Committed, Inv, PipelineInv, Written
  <1>4. Committed'[r] = IF r = 0 THEN 0
                        ELSE IF W'.RegWrite /\ W'.Rd = r THEN ResultW' ELSE rf[r]
    BY <1>1 DEF Committed
  <1>5. Committed[0] = 0 /\ (r # 0 => rf[r] = Committed[r])
    BY <1>3, ZeroReg DEF Committed, Read
  <1> QED
    BY <1>2, <1>3, <1>4, <1>5 DEF ResultW

\* What the instruction in E has read is what it will find in M.
LEMMA OperandsStay ==
  ASSUME Inv, TypeOK', Posedge, validE, NEW r \in {E.Rs1, E.Rs2}
  PROVE  Committed'[r] = AfterM(r)
  <1>1. r \in Reg
    BY DEF Inv, TypeOK, EReg
  <1>2. CASE r # 0 /\ M.RegWrite /\ M.Rd = r
    <2>1. /\ M.ResultSrc = 0
          /\ AfterM(r) = M.ALUResult
      BY <1>2, ForwardM DEF AfterM
    <2> QED
      BY <1>1, <1>2, <2>1, CommittedAfter
  <1>3. CASE ~(r # 0 /\ M.RegWrite /\ M.Rd = r)
    BY <1>1, <1>3, CommittedAfter, NoWriteM
  <1> QED
    BY <1>2, <1>3

\* The three things a rising edge does to the front of the pipeline.
LEMMA FrontEnd ==
  ASSUME Inv, Posedge
  PROVE  /\ lwStallD => /\ D' = D /\ PCF' = PCF /\ E' = EZero /\ h'.E = NoOp
                        /\ validE /\ ~PCSrcE0
         /\ PCSrcE0 => /\ D' = DZero /\ PCF' = PCNextF /\ E' = EZero
                       /\ h'.E = NoOp /\ validE /\ ~lwStallD
         /\ ~lwStallD /\ ~PCSrcE0 =>
              /\ D' = [Instr |-> imem[WordIndex(PCF)], PC |-> PCF,
                       PCPlus4 |-> Add(PCF, 4)]
              /\ PCF' = Add(PCF, 4) /\ E' = Decoded /\ h'.E = D.Instr
         /\ h'.M = h.E /\ h'.MPC = E.PC /\ imem' = imem
  <1>1. /\ lwStallD => validE /\ ~PCSrcE0
        /\ PCSrcE0 => validE /\ ~lwStallD
    BY BubbleE, StallOrRedirect DEF StallExcludesRedirect
  <1>2. ~PCSrcE0 /\ ~lwStallD => PCNextF = Add(PCF, 4)
    BY BubbleE, Redirect DEF PCNextF
  <1> QED
    BY <1>1, <1>2 DEF Posedge, Fetch, Decode, Record, FlushD, FlushE

LEMMA DecodedBubble == ASSUME Inv, ~validD PROVE Decoded = EZero
  <1>1. D = DZero
    BY DEF Inv, PipelineInv, InOrder
  <1> DEFINE c == maindec("none")
  <1>2. /\ c.RegWrite = FALSE /\ c.ALUSrc = FALSE /\ c.MemWrite = FALSE
        /\ c.ResultSrc = 0 /\ c.Branch = FALSE /\ c.ALUOp = 0
        /\ c.Jump = FALSE /\ c.auipcSrc = FALSE
    <2>1. /\ ~c.RegWrite /\ ~c.ALUSrc /\ ~c.MemWrite /\ c.ResultSrc = 0
          /\ ~c.Branch /\ c.ALUOp = 0 /\ ~c.Jump /\ ~c.auipcSrc
      BY DEF maindec
    <2>2. c \in Controls
      BY MaindecType
    <2> QED
      BY <2>1, <2>2 DEF Controls
  <1>3. Read(0) = 0
    BY DEF Read
  <1>4. aludec(opb5("none"), 0, FALSE, 0) = 0
    BY DEF aludec
  <1>5. /\ D.Instr.op = "none" /\ D.Instr.f3 = 0 /\ D.Instr.f7 = FALSE
        /\ D.Instr.rd = 0 /\ D.Instr.rs1 = 0 /\ D.Instr.rs2 = 0
        /\ D.Instr.imm = 0 /\ D.PC = 0 /\ D.PCPlus4 = 0
    BY <1>1 DEF DZero, NoOp
  <1> QED
    BY <1>2, <1>3, <1>4, <1>5, Zenon DEF Decoded, EZero

LEMMA FetchedInstr ==
  ASSUME Inv PROVE imem[WordIndex(PCF)] \in Instr /\ imem[WordIndex(PCF)] # NoOp
  BY IndexType, NoOpNotInstr DEF Inv, TypeOK

LEMMA InOrderStep == ASSUME Inv, TypeOK', Posedge PROVE InOrder'
  <1> USE DEF Inv, PipelineInv
  <1>1. validM' => h'.M = imem'[WordIndex(h'.MPC)] /\ M'.PCPlus4 = Add(h'.MPC, 4)
    BY FrontEnd DEF InOrder, validM, validE, Posedge, Exec
  <1>2. CASE lwStallD
    <2>1. validD /\ ~validE' /\ (validD <=> validD')
      BY <1>2, FrontEnd DEF InOrder, validD, validE
    <2> QED
      BY <1>1, <1>2, <2>1, FrontEnd DEF InOrder
  <1>3. CASE PCSrcE0
    <2>1. ~validD' /\ ~validE'
      BY <1>3, FrontEnd DEF validD, validE, DZero
    <2> QED
      BY <1>1, <1>3, <2>1, FrontEnd DEF InOrder
  <1>4. CASE ~lwStallD /\ ~PCSrcE0
    <2>1. validD' /\ (validE' <=> validD)
      BY <1>4, FrontEnd, FetchedInstr DEF validD, validE
    <2>2. /\ D'.Instr = imem'[WordIndex(D'.PC)]
          /\ D'.PCPlus4 = Add(D'.PC, 4) /\ PCF' = D'.PCPlus4
      BY <1>4, FrontEnd
    <2>3. validD => /\ h'.E = imem'[WordIndex(E'.PC)]
                    /\ D'.PC = E'.PCPlus4 /\ E'.PCPlus4 = Add(E'.PC, 4)
      BY <1>4, FrontEnd DEF InOrder, Decoded
    <2>4. ~validD => E' = EZero
      BY <1>4, FrontEnd, DecodedBubble
    <2> QED
      BY <1>1, <2>1, <2>2, <2>3, <2>4 DEF InOrder
  <1> QED
    BY <1>2, <1>3, <1>4

LEMMA ControlsStep == ASSUME Inv, Posedge PROVE ControlsE' /\ ControlsM'
  <1> USE DEF Inv, PipelineInv
  <1>1. ControlsE'
    <2>1. CASE lwStallD \/ PCSrcE0
      BY <2>1, FrontEnd DEF ControlsE, validE
    <2>2. CASE ~lwStallD /\ ~PCSrcE0
      BY <2>2, FrontEnd DEF ControlsE, Decoded
    <2> QED
      BY <2>1, <2>2
  <1>2. ControlsM'
    <2>1. validM' <=> validE
      BY FrontEnd DEF validM, validE
    <2>2. M'.RegWrite = E.RegWrite /\ M'.ResultSrc = E.ResultSrc
          /\ M'.MemWrite = E.MemWrite /\ M'.ALUSrc = E.ALUSrc
          /\ M'.funct3 = E.funct3 /\ M'.ImmExt = E.ImmExt /\ M'.Rd = E.Rd
      BY DEF Posedge, Exec
    <2>3. ~validE => ~E.RegWrite /\ ~E.MemWrite
      BY DEF InOrder, EZero
    <2> QED
      BY <2>1, <2>2, <2>3, FrontEnd DEF ControlsM, ControlsE
  <1> QED
    BY <1>1, <1>2

LEMMA WrittenStep == ASSUME Posedge PROVE Written'
  BY DEF Posedge, Written

LEMMA OperandsReadStep == ASSUME Inv, TypeOK', Posedge PROVE OperandsRead'
  <1> USE DEF Inv, PipelineInv
  <1>1. CASE lwStallD \/ PCSrcE0
    BY <1>1, FrontEnd DEF OperandsRead, validE
  <1>2. CASE ~lwStallD /\ ~PCSrcE0
    <2> DEFINE i == D.Instr
    <2>1. E' = Decoded /\ h'.E = i /\ (validE' <=> validD)
      BY <1>2, FrontEnd DEF validE, validD
    <2>2. SUFFICES ASSUME validD PROVE OperandsRead'
      BY <2>1 DEF OperandsRead
    <2>3. i \in Instr /\ i.rs1 \in Reg /\ i.rs2 \in Reg
      BY <2>2, InstrOfD DEF Instr
    <2>4. ASSUME NEW r \in Reg, NEW v, v = Read(r)
          PROVE  (IF r # 0 /\ W'.RegWrite /\ W'.Rd = r THEN ResultW' ELSE v)
                   = Committed'[r]
      BY <2>4, CommittedAfter
    <2>5. /\ E'.Rs1 = i.rs1 /\ E'.Rs2 = i.rs2 /\ E'.RD2 = Read(i.rs2)
          /\ i.op # "auipc" => E'.RD1 = Read(i.rs1)
          /\ i.op = "auipc" => E'.RD1 = E'.PC
      BY <2>1 DEF Decoded, maindec
    <2>6. UsesRs1(i) => i.op # "auipc"
      BY DEF UsesRs1
    <2> QED
      BY <2>1, <2>3, <2>4, <2>5, <2>6 DEF OperandsRead, FromW
  <1> QED
    BY <1>1, <1>2

LEMMA ResultInMStep == ASSUME Inv, TypeOK', Posedge PROVE ResultInM'
  <1>1. SUFFICES ASSUME validM' PROVE ResultInM'
    BY DEF ResultInM
  <1>2. validE /\ h'.M = h.E /\ h'.MPC = E.PC
    BY <1>1, FrontEnd DEF validM, validE
  <1>3. E.Rs1 = h.E.rs1 /\ E.Rs2 = h.E.rs2
    BY <1>2, ControlOfE
  <1>4. OpA' = EA /\ OpB' = EB
    BY <1>2, <1>3, OperandsStay DEF OpA, OpB, EA, EB
  <1>5. M'.ALUResult = AluE.result /\ M'.WriteData = WriteDataE
    BY DEF Posedge, Exec
  <1> QED
    BY <1>2, <1>4, <1>5, Executed DEF ResultInM

\* The instruction a rising edge leaves next to execute is the oldest that was
\* behind M.
LEMMA OldestStep == ASSUME Inv, Posedge PROVE PCOldest' = PCYoung
  <1>1. CASE validE
    <2>1. validM' /\ h'.MPC = E.PC
      BY <1>1, FrontEnd DEF validM, validE
    <2> QED
      BY <1>1, <2>1 DEF PCOldest, PCYoung
  <1>2. CASE ~validE
    <2>1. ~validM' /\ ~lwStallD /\ ~PCSrcE0
      BY <1>2, BubbleE, FrontEnd DEF validM, validE
    <2>2. validD' /\ D'.PC = PCF /\ E' = Decoded /\ (validE' <=> validD)
      BY <2>1, FrontEnd, FetchedInstr DEF validD, validE
    <2>3. Decoded.PC = D.PC
      BY DEF Decoded
    <2> QED
      BY <1>2, <2>1, <2>2, <2>3 DEF PCOldest, PCYoung
  <1> QED
    BY <1>1, <1>2

LEMMA PathCorrectStep == ASSUME Inv, TypeOK', Posedge PROVE PathCorrect'
  <1> USE DEF Inv, PipelineInv
  <1>1. SUFFICES ASSUME validM' PROVE PathCorrect'
    BY DEF PathCorrect
  <1>2. validE /\ h'.M = h.E /\ h'.MPC = E.PC
    BY <1>1, FrontEnd DEF validM, validE
  <1>3. OpA' = EA /\ OpB' = EB
    BY <1>2, ControlOfE, OperandsStay DEF OpA, OpB, EA, EB
  <1>4. validD /\ D.PC = Add(E.PC, 4)
    BY <1>2 DEF InOrder
  <1>5. PCYoung' = NextPC(h.E, E.PC, EA, EB)
    <2>1. CASE lwStallD
      <3>1. ~validE' /\ validD' /\ D'.PC = D.PC /\ ~PCSrcE0
        BY <1>4, <2>1, FrontEnd DEF validE, validD
      <3> QED
        BY <1>2, <1>4, <3>1, Redirect DEF PCYoung
    <2>2. CASE PCSrcE0
      <3>1. ~validE' /\ ~validD' /\ PCF' = PCNextF
        BY <2>2, FrontEnd DEF validE, validD, DZero
      <3> QED
        BY <1>2, <2>2, <3>1, Redirect DEF PCYoung
    <2>3. CASE ~lwStallD /\ ~PCSrcE0
      <3>1. validE' /\ E'.PC = D.PC
        BY <1>4, <2>3, FrontEnd DEF validE, validD, Decoded
      <3> QED
        BY <1>2, <1>4, <2>3, <3>1, Redirect DEF PCYoung
    <2> QED
      BY <2>1, <2>2, <2>3
  <1> QED
    BY <1>2, <1>3, <1>5 DEF PathCorrect

LEMMA LoadUseStep == ASSUME Inv, Posedge PROVE LoadUse'
  <1>1. SUFFICES ASSUME validM', validE' PROVE LoadUse'
    BY DEF LoadUse
  <1>2. validE /\ h'.M = h.E
    BY <1>1, FrontEnd DEF validM, validE
  <1>3. ~lwStallD /\ ~PCSrcE0 /\ E' = Decoded
    BY <1>1, FrontEnd DEF validE
  <1>4. h.E.op \notin {"jal", "jalr"}
    BY <1>2, <1>3, Redirect
  <1>5. h.E.op \in {"load", "lui"} => h.E.rd \notin {D.Instr.rs1, D.Instr.rs2}
    BY <1>2, <1>3, ControlOfE DEF lwStallD
  <1> QED
    BY <1>2, <1>3, <1>4, <1>5 DEF LoadUse, Decoded

LEMMA PosedgeInv == ASSUME Inv, TypeOK', Posedge PROVE PipelineInv'
  BY InOrderStep, ControlsStep, WrittenStep, OperandsReadStep, ResultInMStep,
     PathCorrectStep, LoadUseStep DEF PipelineInv

\* The falling edge changes only the register file, and only to what the
\* registers already count as holding.
LEMMA NegedgeSame ==
  ASSUME Inv, TypeOK', Negedge
  PROVE  /\ Committed' = Committed
         /\ UNCHANGED <<imem, dmem, PCF, D, E, M, W, h>>
  <1>1. UNCHANGED <<imem, dmem, PCF, D, E, M, W, h>>
    BY DEF Negedge
  <1>2. ResultW' = ResultW
    BY <1>1 DEF ResultW
  <1>3. rf' = IF W.RegWrite THEN [rf EXCEPT ![W.Rd] = ResultW] ELSE rf
    BY DEF Negedge
  <1>4. ASSUME NEW r \in Reg PROVE Committed'[r] = Committed[r]
    BY <1>1, <1>2, <1>3 DEF Committed, Inv, TypeOK
  <1>5. Committed \in [Reg -> Word] /\ Committed' \in [Reg -> Word]
    <2>1. Committed \in [Reg -> Word]
      BY SignalTypes DEF Inv
    <2> QED
      BY <2>1, <1>2, <1>1 DEF Committed, Inv, TypeOK
  <1> QED
    BY <1>1, <1>4, <1>5

LEMMA NegedgeInv == ASSUME Inv, TypeOK', Negedge PROVE PipelineInv'
  <1> USE DEF Inv, PipelineInv
  <1>1. /\ Committed' = Committed
        /\ UNCHANGED <<imem, dmem, PCF, D, E, M, W, h>>
    BY NegedgeSame
  <1>2. ResultW' = ResultW
    BY <1>1 DEF ResultW
  <1>3. validD' = validD /\ validE' = validE /\ validM' = validM
    BY <1>1 DEF validD, validE, validM
  <1>4. PCYoung' = PCYoung /\ OpA' = OpA /\ OpB' = OpB
    BY <1>1, <1>3 DEF PCYoung, OpA, OpB
  <1>5. InOrder' /\ ControlsE' /\ ControlsM' /\ LoadUse'
    BY <1>1, <1>3 DEF InOrder, ControlsE, ControlsM, LoadUse
  <1>6. Written'
    <2>1. W.Rd \in Reg /\ rf \in [Reg -> Word]
      BY DEF TypeOK, WReg
    <2> QED
      BY <1>1, <1>2, <2>1 DEF Negedge, Written
  <1>7. OperandsRead'
    BY <1>1, <1>2, <1>3 DEF OperandsRead, FromW
  <1>8. ResultInM' /\ PathCorrect'
    BY <1>1, <1>3, <1>4 DEF ResultInM, PathCorrect
  <1> QED
    BY <1>5, <1>6, <1>7, <1>8

\* An empty pipeline.
Empty == /\ D = DZero /\ E = EZero /\ M = MZero /\ W = WZero /\ h = HZero

LEMMA EmptyInv == Empty => PipelineInv
  <1> SUFFICES ASSUME Empty PROVE PipelineInv
    OBVIOUS
  <1>1. ~validD /\ ~validE /\ ~validM /\ ~W.RegWrite
    BY DEF Empty, validD, validE, validM, DZero, HZero, WZero
  <1>2. ~M.RegWrite /\ ~M.MemWrite /\ E = EZero /\ D = DZero
    BY DEF Empty, MZero
  <1> QED
    BY <1>1, <1>2 DEF PipelineInv, InOrder, ControlsE, ControlsM, Written,
       OperandsRead, ResultInM, PathCorrect, LoadUse

LEMMA InvInit == Init /\ NoAuipcAlias => Inv
  <1> SUFFICES ASSUME Init, NoAuipcAlias PROVE Inv
    OBVIOUS
  <1>1. TypeOK
    BY ZeroTypes, SmallWords DEF Init, TypeOK
  <1> QED
    BY <1>1, EmptyInv DEF Init, Empty, Inv

LEMMA InvStep == Inv /\ [Next]_vars => Inv'
  <1> SUFFICES ASSUME Inv, [Next]_vars PROVE Inv'
    OBVIOUS
  <1>1. TypeOK'
    BY TypeStep DEF Inv
  <1>2. imem' = imem
    BY DEF Next, Posedge, Negedge, Reset, vars
  <1>3. NoAuipcAlias'
    BY <1>2 DEF NoAuipcAlias, Inv
  <1>4. CASE Posedge
    BY <1>1, <1>3, <1>4, PosedgeInv DEF Inv
  <1>5. CASE Negedge
    BY <1>1, <1>3, <1>5, NegedgeInv DEF Inv
  <1>6. CASE Reset
    <2>1. Empty'
      BY <1>6 DEF Reset, ZeroRegisters, Empty
    <2>2. Empty' => PipelineInv'
      BY EmptyInv, PTL
    <2> QED
      BY <1>1, <1>3, <2>1, <2>2 DEF Inv
  <1>7. CASE UNCHANGED vars
    <2>1. PipelineInv' <=> PipelineInv
      BY <1>7 DEF vars, PipelineInv, InOrder, ControlsE, ControlsM, Written,
         OperandsRead, ResultInM, PathCorrect, LoadUse, validD, validE, validM,
         OpA, OpB, Committed, ResultW, FromW, PCYoung
    <2> QED
      BY <1>1, <1>3, <2>1 DEF Inv
  <1> QED
    BY <1>4, <1>5, <1>6, <1>7 DEF Next

\* Whatever the program, as long as no auipc immediate aliases a register, the
\* pipeline keeps its instructions in order, its operands and results are
\* those of RV32I, and no wrong-path instruction survives.
THEOREM PipelineCorrect == SafeSpec => []PipelineInv
  <1>1. Inv => PipelineInv
    BY DEF Inv
  <1> QED
    BY InvInit, InvStep, <1>1, PTL DEF SafeSpec

\* The forwarding network always delivers what the older instructions leave.
THEOREM ForwardingCorrect == SafeSpec => []OperandsUpToDate
  BY InvInit, InvStep, Operands, PTL DEF SafeSpec

\* No flush is ever lost to a stall.
THEOREM NoLostFlush == SafeSpec => []StallExcludesRedirect
  BY InvInit, InvStep, StallOrRedirect, PTL DEF SafeSpec
-----------------------------------------------------------------------------
(***************************************************************************)
(* The instance ISA has its own copy of the operators of RvWord and RvSem. *)
(* They are the same operators.                                            *)
(***************************************************************************)
LEMMA SameWords ==
  /\ ISA!Word = Word /\ ISA!WordIndexes = WordIndexes /\ ISA!Reg = Reg
  /\ ISA!Instr = Instr
  /\ \A a, b : ISA!Add(a, b) = Add(a, b) /\ ISA!Sub(a, b) = Sub(a, b)
  /\ \A a : ISA!Signed(a) = Signed(a) /\ ISA!WordIndex(a) = WordIndex(a)
            /\ ISA!ByteOffset(a) = ByteOffset(a)
  <1>1. ISA!WordMod = WordMod
    BY DEF ISA!WordMod, WordMod
  <1>2. ISA!Word = Word /\ ISA!WordIndexes = WordIndexes
    BY <1>1 DEF ISA!Word, Word, ISA!WordIndexes, WordIndexes
  <1>3. ISA!Reg = Reg /\ ISA!Op = Op
    BY DEF ISA!Reg, Reg, ISA!Op, Op
  <1>4. ISA!Instr = Instr
    BY <1>2, <1>3 DEF ISA!Instr, Instr
  <1>5. \A a, b : ISA!Add(a, b) = Add(a, b) /\ ISA!Sub(a, b) = Sub(a, b)
    BY <1>1 DEF ISA!Add, Add, ISA!Sub, Sub
  <1>6. \A a : ISA!Signed(a) = Signed(a) /\ ISA!WordIndex(a) = WordIndex(a)
               /\ ISA!ByteOffset(a) = ByteOffset(a)
    BY <1>1 DEF ISA!Signed, Signed, ISA!WordIndex, WordIndex, ISA!ByteOffset,
       ByteOffset
  <1> QED
    BY <1>2, <1>3, <1>4, <1>5, <1>6

LEMMA SameBytes ==
  /\ \A w, k : ISA!ByteAt(w, k) = ByteAt(w, k)
  /\ \A w, k : ISA!HalfAt(w, k) = HalfAt(w, k)
  /\ \A x, m : ISA!SignExtend(x, m) = SignExtend(x, m)
  /\ \A a, b, c, d : ISA!Cat(a, b, c, d) = Cat(a, b, c, d)
  <1>1. \A w, k : ISA!ByteAt(w, k) = ByteAt(w, k)
    BY DEF ISA!ByteAt, ByteAt, ISA!Byte0, Byte0, ISA!Byte1, Byte1, ISA!Byte2,
       Byte2, ISA!Byte3, Byte3
  <1>2. \A w, k : ISA!HalfAt(w, k) = HalfAt(w, k)
    BY <1>1 DEF ISA!HalfAt, HalfAt, ISA!HalfOf, HalfOf
  <1>3. \A x, m : ISA!SignExtend(x, m) = SignExtend(x, m)
    BY DEF ISA!SignExtend, SignExtend, ISA!WordMod, WordMod
  <1>4. \A a, b, c, d : ISA!Cat(a, b, c, d) = Cat(a, b, c, d)
    BY DEF ISA!Cat, Cat
  <1> QED
    BY <1>1, <1>2, <1>3, <1>4

LEMMA SameLoad ==
  ASSUME NEW f3, NEW k, NEW w
  PROVE  ISA!LoadMeaning(f3, k, w) = LoadMeaning(f3, k, w)
  BY SameBytes DEF ISA!LoadMeaning, LoadMeaning

LEMMA SameStore ==
  ASSUME NEW f3, NEW k, NEW w, NEW v
  PROVE  ISA!StoreMeaning(f3, k, w, v) = StoreMeaning(f3, k, w, v)
  BY SameBytes DEF ISA!StoreMeaning, StoreMeaning

LEMMA SameAlu ==
  ASSUME NEW ins, NEW a, NEW b
  PROVE  ISA!AluMeaning(ins, a, b) = AluMeaning(ins, a, b)
  BY SameWords DEF ISA!AluMeaning, AluMeaning, ISA!Bool2Word, Bool2Word

LEMMA SameAddress ==
  ASSUME NEW ins, NEW a PROVE ISA!AddressOf(ins, a) = AddressOf(ins, a)
  BY SameWords DEF ISA!AddressOf, AddressOf

LEMMA SameResult ==
  ASSUME NEW ins, NEW pc, NEW a, NEW b, NEW w
  PROVE  ISA!ResultOf(ins, pc, a, b, w) = ResultOf(ins, pc, a, b, w)
  BY SameWords, SameLoad, SameAlu, SameAddress DEF ISA!ResultOf, ResultOf

LEMMA SameNext ==
  ASSUME NEW ins, NEW pc, NEW a, NEW b
  PROVE  ISA!NextPC(ins, pc, a, b) = NextPC(ins, pc, a, b)
  <1>1. ISA!Taken(ins.f3, a, b) = Taken(ins.f3, a, b)
    BY SameWords DEF ISA!Taken, Taken
  <1> QED
    BY <1>1, SameWords DEF ISA!NextPC, NextPC

LEMMA SameAligned ==
  ASSUME NEW ins, NEW pc, NEW a, NEW b
  PROVE  ISA!Aligned(ins, pc, a, b) <=> Aligned(ins, pc, a, b)
  BY SameWords, SameNext, SameAddress DEF ISA!Aligned, Aligned

LEMMA SameWrites ==
  ASSUME NEW ins PROVE ISA!WritesRd(ins) <=> WritesRd(ins)
  BY DEF ISA!WritesRd, WritesRd
-----------------------------------------------------------------------------
(***************************************************************************)
(* One rising edge with an instruction in M.                               *)
(***************************************************************************)
AlignedM == Aligned(h.M, h.MPC, OpA, OpB)

LEMMA OperandTypes ==
  ASSUME Inv, validM
  PROVE  /\ OpA \in Word /\ OpB \in Word /\ MWord \in Word
         /\ AddressOf(h.M, OpA) \in Word
         /\ WordIndex(AddressOf(h.M, OpA)) \in WordIndexes
         /\ ByteOffset(AddressOf(h.M, OpA)) \in 0 .. 3
  <1>1. OpA \in Word /\ OpB \in Word
    BY InstrOfM, SignalTypes DEF OpA, OpB, Inv
  <1>2. AddressOf(h.M, OpA) \in Word
    BY <1>1, InstrOfM, AddType DEF AddressOf, Inv
  <1>3. WordIndex(AddressOf(h.M, OpA)) \in WordIndexes
    BY <1>2, IndexType
  <1>4. MWord \in Word
    BY <1>3 DEF MWord, Inv, TypeOK
  <1> QED
    BY <1>1, <1>2, <1>3, <1>4, OffsetType

\* The control bits of M, one instruction class at a time.
LEMMA ControlOfM ==
  ASSUME Inv, validM
  PROVE  /\ M.RegWrite <=> WritesRd(h.M)
         /\ M.MemWrite <=> h.M.op = "store"
         /\ M.RegWrite /\ M.ALUSrc /\ M.ResultSrc = 1 <=> h.M.op = "load"
         /\ M.ResultSrc = IF h.M.op = "load" THEN 1
                          ELSE IF h.M.op \in {"jal", "jalr"} THEN 2
                          ELSE IF h.M.op = "lui" THEN 3 ELSE 0
         /\ M.funct3 = h.M.f3 /\ M.ImmExt = h.M.imm /\ M.Rd = h.M.rd
         /\ M.PCPlus4 = Add(h.MPC, 4)
  <1>1. h.M.op \in Op
    BY InstrOfM DEF Inv
  <1> USE DEF Inv, PipelineInv
  <1>2. /\ M.RegWrite = (h.M.op \notin {"store", "branch", "none"})
        /\ M.MemWrite = (h.M.op = "store")
        /\ M.ALUSrc = (h.M.op \notin {"op", "branch", "jal", "none"})
        /\ M.funct3 = h.M.f3 /\ M.ImmExt = h.M.imm /\ M.Rd = h.M.rd
    BY DEF ControlsM, maindec
  <1>3. M.ResultSrc = IF h.M.op = "load" THEN 1
                      ELSE IF h.M.op \in {"jal", "jalr"} THEN 2
                      ELSE IF h.M.op = "lui" THEN 3 ELSE 0
    BY <1>1 DEF ControlsM, maindec, Op
  <1>4. M.PCPlus4 = Add(h.MPC, 4)
    BY DEF InOrder
  <1>5. M.RegWrite <=> WritesRd(h.M)
    BY <1>1, <1>2 DEF WritesRd, Op
  <1>6. M.MemWrite <=> h.M.op = "store"
    BY <1>2
  <1>7. M.RegWrite /\ M.ALUSrc /\ M.ResultSrc = 1 <=> h.M.op = "load"
    <2>1. M.ResultSrc = 1 <=> h.M.op = "load"
      BY <1>3
    <2>2. h.M.op = "load" => M.RegWrite /\ M.ALUSrc
      BY <1>2
    <2> QED
      BY <2>1, <2>2, Zenon
  <1> QED
    BY <1>2, <1>3, <1>4, <1>5, <1>6, <1>7, Zenon

\* Loads and stores that are aligned do what they mean.
LEMMA MemoryStep ==
  ASSUME Inv, Posedge, validM, AlignedM
  PROVE  LET addr == AddressOf(h.M, OpA)
             i    == WordIndex(addr)
         IN  /\ h.M.op = "load" =>
                  W'.Data = LoadMeaning(h.M.f3, ByteOffset(addr), MWord)
             /\ dmem' = IF h.M.op = "store"
                        THEN [dmem EXCEPT ![i] = StoreMeaning(h.M.f3,
                                            ByteOffset(addr), dmem[i], OpB)]
                        ELSE dmem
  <1> DEFINE addr == AddressOf(h.M, OpA)
             off  == ByteOffset(M.ALUResult)
             isLoad == M.RegWrite /\ M.ALUSrc /\ M.ResultSrc = 1
  <1>1. PICK data \in load(isLoad, M.funct3, off, ReadDataM) :
          \E out \in store(M.MemWrite, M.funct3, off, data, M.WriteData) :
            /\ W'.Data = data
            /\ dmem' = IF M.MemWrite
                       THEN [dmem EXCEPT ![WordIndex(M.ALUResult)] = out]
                       ELSE dmem
    BY DEF Posedge, MemoryAccess
  <1>2. PICK out \in store(M.MemWrite, M.funct3, off, data, M.WriteData) :
          /\ W'.Data = data
          /\ dmem' = IF M.MemWrite
                     THEN [dmem EXCEPT ![WordIndex(M.ALUResult)] = out]
                     ELSE dmem
    BY <1>1
  <1>3. h.M.f3 \in 0 .. 7 /\ M.funct3 = h.M.f3
    BY InstrOfM, ControlOfM DEF Inv
  <1>4. h.M.op \in {"load", "store"} =>
          /\ M.ALUResult = addr /\ off = ByteOffset(addr) /\ ReadDataM = MWord
          /\ h.M.f3 \in {1, 5} => ByteOffset(addr) \in {0, 2}
    BY DEF Inv, PipelineInv, ResultInM, ReadDataM, MWord, AlignedM, Aligned
  <1>5. CASE h.M.op = "load"
    <2>1. isLoad = TRUE /\ ~M.MemWrite
      BY <1>5, ControlOfM
    <2>2. load(TRUE, h.M.f3, ByteOffset(addr), MWord)
            = {LoadMeaning(h.M.f3, ByteOffset(addr), MWord)}
      BY <1>3, <1>4, <1>5, LoadLanes, OperandTypes
    <2>3. data \in load(TRUE, h.M.f3, ByteOffset(addr), MWord)
      BY <1>1, <1>3, <1>4, <1>5, <2>1, Zenon
    <2> QED
      BY <1>2, <1>5, <2>1, <2>2, <2>3
  <1>6. CASE h.M.op = "store"
    <2>1. isLoad = FALSE /\ M.MemWrite = TRUE
      <3>1. ~isLoad /\ M.MemWrite
        BY <1>6, ControlOfM
      <3>2. isLoad \in BOOLEAN /\ M.MemWrite \in BOOLEAN
        BY DEF Inv, TypeOK, MReg
      <3> QED
        BY <3>1, <3>2
    <2>2. data = MWord
      <3>1. data \in load(FALSE, M.funct3, off, ReadDataM)
        BY <1>1, <2>1, Zenon
      <3> QED
        BY <1>4, <1>6, <3>1 DEF load
    <2>3. M.WriteData = OpB
      BY <1>6 DEF Inv, PipelineInv, ResultInM
    <2>4. store(TRUE, h.M.f3, ByteOffset(addr), MWord, OpB)
            = {StoreMeaning(h.M.f3, ByteOffset(addr), MWord, OpB)}
      <3>1. OpB \in Word /\ MWord \in Word /\ ByteOffset(addr) \in 0 .. 3
        BY OperandTypes
      <3>2. h.M.f3 \in 0 .. 7 /\ (h.M.f3 = 1 => ByteOffset(addr) \in {0, 2})
        BY <1>3, <1>4, <1>6
      <3> HIDE DEF addr
      <3> QED
        BY <3>1, <3>2, StoreLanes, Zenon
    <2>5. out \in store(TRUE, h.M.f3, ByteOffset(addr), MWord, OpB)
      BY <1>2, <1>3, <1>4, <1>6, <2>1, <2>2, <2>3, Zenon
    <2>6. out = StoreMeaning(h.M.f3, ByteOffset(addr), MWord, OpB)
      BY <2>4, <2>5, Zenon
    <2> QED
      BY <1>2, <1>4, <1>6, <2>1, <2>6 DEF MWord
  <1>7. CASE h.M.op \notin {"load", "store"}
    BY <1>2, <1>7, ControlOfM
  <1> QED
    BY <1>5, <1>6, <1>7

\* What the abstract machine sees is well typed.
ViewOK == Committed \in [Reg -> Word] /\ PCOldest \in Word

LEMMA ViewType == TypeOK => ViewOK
  BY SignalTypes DEF ViewOK, PCOldest, PCYoung, TypeOK, History, EReg, DReg

LEMMA ViewTypeNext ==
  ASSUME TypeOK' PROVE Committed' \in [Reg -> Word] /\ PCOldest' \in Word
  <1>1. ViewOK'
    BY ViewType, PTL
  <1> QED
    BY <1>1 DEF ViewOK

\* The register write of the instruction in M, as the abstract machine does it.
LEMMA RegisterStep ==
  ASSUME Inv, TypeOK', Posedge, validM, AlignedM
  PROVE  Committed' = IF WritesRd(h.M) /\ h.M.rd # 0
                      THEN [Committed EXCEPT ![h.M.rd] =
                              ResultOf(h.M, h.MPC, OpA, OpB, MWord)]
                      ELSE Committed
  <1> DEFINE result == ResultOf(h.M, h.MPC, OpA, OpB, MWord)
  <1>1. WritesRd(h.M) => ResultW' = result
    <2>1. SUFFICES ASSUME WritesRd(h.M) PROVE ResultW' = result
      OBVIOUS
    <2>2. h.M.op \in {"load", "op", "opimm", "jal", "jalr", "lui", "auipc"}
      BY <2>1, InstrOfM DEF WritesRd, Op, Inv
    <2>3. /\ M.ResultSrc = 0 => ResultW' = M.ALUResult
          /\ M.ResultSrc = 1 => ResultW' = W'.Data
          /\ M.ResultSrc = 2 => ResultW' = M.PCPlus4
          /\ M.ResultSrc = 3 => ResultW' = M.ImmExt
      BY CommittedAfter, ZeroReg
    <2>4. CASE h.M.op = "load"
      BY <2>3, <2>4, ControlOfM, MemoryStep DEF ResultOf
    <2>5. CASE h.M.op \in {"op", "opimm", "auipc"}
      BY <2>3, <2>5, ControlOfM DEF ResultOf, Inv, PipelineInv, ResultInM
    <2>6. CASE h.M.op \in {"jal", "jalr", "lui"}
      BY <2>3, <2>6, ControlOfM DEF ResultOf
    <2> QED
      BY <2>2, <2>4, <2>5, <2>6
  <1>2. Committed \in [Reg -> Word] /\ Committed' \in [Reg -> Word]
    <2>1. Committed \in [Reg -> Word]
      BY ViewType DEF ViewOK, Inv
    <2>2. Committed' \in [Reg -> Word]
      BY ViewTypeNext
    <2> QED
      BY <2>1, <2>2
  <1>3. h.M.rd \in Reg /\ M.Rd = h.M.rd /\ (M.RegWrite <=> WritesRd(h.M))
    BY InstrOfM, ControlOfM DEF Inv
  <1>4. ASSUME NEW r \in Reg
        PROVE  Committed'[r] = IF r # 0 /\ WritesRd(h.M) /\ h.M.rd = r THEN result
                               ELSE Committed[r]
    BY <1>1, <1>3, CommittedAfter
  <1>5. ASSUME NEW v, v = result
        PROVE  Committed' = IF WritesRd(h.M) /\ h.M.rd # 0
                            THEN [Committed EXCEPT ![h.M.rd] = v] ELSE Committed
    <2>1. ASSUME NEW r \in Reg
          PROVE  Committed'[r] = IF r # 0 /\ WritesRd(h.M) /\ h.M.rd = r THEN v
                                 ELSE Committed[r]
      BY <1>4, <1>5, <2>1
    <2>2. CASE WritesRd(h.M) /\ h.M.rd # 0
      BY <1>2, <1>3, <2>1, <2>2
    <2>3. CASE ~(WritesRd(h.M) /\ h.M.rd # 0)
      <3>1. \A r \in Reg : Committed'[r] = Committed[r]
        BY <2>1, <2>3
      <3> QED
        BY <1>2, <2>3, <3>1
    <2> QED
      BY <2>2, <2>3
  <1> QED
    BY <1>5

LEMMA PcStep ==
  ASSUME Inv, Posedge, validM
  PROVE  PCOldest' = NextPC(h.M, h.MPC, OpA, OpB)
  BY OldestStep DEF Inv, PipelineInv, PathCorrect
-----------------------------------------------------------------------------
(***************************************************************************)
(* The steps of the core as steps of the abstract machine.                 *)
(***************************************************************************)
\* The instruction the abstract machine executes next is the one in M.
LEMMA CurrentInstr == ASSUME Inv, validM
                      PROVE  imem[WordIndex(PCOldest)] = h.M /\ PCOldest = h.MPC
  BY DEF Inv, PipelineInv, InOrder, PCOldest

LEMMA PosedgeExecutes ==
  ASSUME Inv, TypeOK', Posedge, validM, AlignedM, ~h.outside PROVE ISA!Step
  <1>1. imem[ISA!WordIndex(PCOldest)] = h.M /\ PCOldest = h.MPC
    BY CurrentInstr, SameWords
  <1>2. h'.outside = h.outside /\ imem' = imem
    <2>1. LeavesM = FALSE
      BY DEF LeavesM, AlignedM, OpA, OpB
    <2>2. h'.outside = (h.outside \/ LeavesM) /\ h.outside \in BOOLEAN
      BY DEF Posedge, Record, Inv, TypeOK, History
    <2> QED
      BY <2>1, <2>2 DEF Posedge
  <1>3. ISA!AddressOf(h.M, OpA) = AddressOf(h.M, OpA)
        /\ ISA!WordIndex(AddressOf(h.M, OpA)) = WordIndex(AddressOf(h.M, OpA))
        /\ ISA!ByteOffset(AddressOf(h.M, OpA)) = ByteOffset(AddressOf(h.M, OpA))
    BY SameAddress, SameWords
  <1>4. ISA!Aligned(h.M, h.MPC, OpA, OpB)
    BY SameAligned DEF AlignedM
  <1>5. PCOldest' = ISA!NextPC(h.M, h.MPC, OpA, OpB)
    BY PcStep, SameNext
  <1>6. Committed' = IF ISA!WritesRd(h.M) /\ h.M.rd # 0
                     THEN [Committed EXCEPT ![h.M.rd] =
                             ISA!ResultOf(h.M, h.MPC, OpA, OpB, MWord)]
                     ELSE Committed
    BY RegisterStep, SameResult, SameWrites
  <1>7. dmem' = IF h.M.op = "store"
                THEN [dmem EXCEPT ![WordIndex(AddressOf(h.M, OpA))] =
                        ISA!StoreMeaning(h.M.f3, ByteOffset(AddressOf(h.M, OpA)),
                                         dmem[WordIndex(AddressOf(h.M, OpA))],
                                         OpB)]
                ELSE dmem
    BY MemoryStep, SameStore
  <1>8. OpA = Committed[h.M.rs1] /\ OpB = Committed[h.M.rs2]
        /\ MWord = dmem[WordIndex(AddressOf(h.M, OpA))]
    BY DEF OpA, OpB, MWord
  <1>9. ISA!Execute
    BY <1>1, <1>2, <1>3, <1>4, <1>5, <1>6, <1>7, <1>8, Zenon DEF ISA!Execute
  <1> QED
    BY <1>9 DEF ISA!Step

LEMMA PosedgeLeaves ==
  ASSUME Inv, TypeOK', Posedge, validM, ~AlignedM \/ h.outside PROVE ISA!Leave
  <1>1. imem[ISA!WordIndex(PCOldest)] = h.M /\ PCOldest = h.MPC
    BY CurrentInstr, SameWords
  <1>2. LeavesM \/ h.outside
    BY DEF LeavesM, AlignedM, OpA, OpB, validM
  <1>3. h'.outside = TRUE /\ imem' = imem
    BY <1>2 DEF Posedge, Record
  <1>4. h.outside \/ ~ISA!Aligned(h.M, h.MPC, Committed[h.M.rs1],
                                  Committed[h.M.rs2])
    BY SameAligned DEF AlignedM, OpA, OpB
  <1>5. PCOldest' \in Word
    BY ViewTypeNext
  <1>6. Committed' \in [Reg -> Word]
    BY ViewTypeNext
  <1>7. dmem' \in [WordIndexes -> Word]
    BY DEF TypeOK
  <1> QED
    BY <1>1, <1>3, <1>4, <1>5, <1>6, <1>7, SameWords DEF ISA!Leave

\* A rising edge without an instruction in M changes nothing the abstract
\* machine sees.
LEMMA PosedgeStutters ==
  ASSUME Inv, TypeOK', Posedge, ~validM PROVE UNCHANGED ISA!vars
  <1>1. ~M.RegWrite /\ ~M.MemWrite
    BY DEF Inv, PipelineInv, ControlsM
  <1>2. PCOldest' = PCOldest
    BY OldestStep DEF PCOldest
  <1>3. dmem' = dmem
    BY <1>1 DEF Posedge, MemoryAccess
  <1>4. Committed' = Committed
    <2>1. Committed \in [Reg -> Word]
      BY ViewType DEF ViewOK, Inv
    <2>2. Committed' \in [Reg -> Word]
      BY ViewTypeNext
    <2>3. \A r \in Reg : Committed'[r] = Committed[r]
      BY <1>1, CommittedAfter
    <2> QED
      BY <2>1, <2>2, <2>3
  <1>5. h'.outside = h.outside
    BY DEF Posedge, Record, LeavesM, validM, Inv, TypeOK, History
  <1> QED
    BY <1>2, <1>3, <1>4, <1>5 DEF ISA!vars, Posedge

LEMMA NegedgeStutters ==
  ASSUME Inv, TypeOK', Negedge PROVE UNCHANGED ISA!vars
  <1>1. /\ Committed' = Committed
        /\ UNCHANGED <<imem, dmem, PCF, D, E, M, W, h>>
    BY NegedgeSame
  <1> QED
    BY <1>1 DEF ISA!vars, PCOldest, PCYoung, validM, validE, validD

\* A reset loses at most the write pending in W.
LEMMA ResetResets == ASSUME Inv, TypeOK', Reset PROVE ISA!Reset
  <1>1. /\ PCF' = 0 /\ D' = DZero /\ E' = EZero /\ M' = MZero /\ W' = WZero
        /\ h' = HZero /\ imem' = imem /\ dmem' = dmem /\ rf' = rf
    BY DEF Reset, ZeroRegisters
  <1>2. PCOldest' = 0 /\ h'.outside = FALSE
    BY <1>1 DEF PCOldest, PCYoung, validM, validE, validD, HZero, DZero
  <1>3. Committed' \in [Reg -> Word]
    BY ViewTypeNext
  <1>4. W.Rd \in Reg
    BY DEF Inv, TypeOK, WReg
  <1>5. \A q \in Reg \ {W.Rd} : Committed'[q] = Committed[q]
    BY <1>1 DEF Committed, WZero
  <1> QED
    BY <1>1, <1>2, <1>3, <1>4, <1>5, SameWords DEF ISA!Reset

LEMMA RefinesInit == Init => ISA!Init
  <1> SUFFICES ASSUME Init PROVE ISA!Init
    OBVIOUS
  <1>1. TypeOK
    BY ZeroTypes, SmallWords DEF Init, TypeOK
  <1>2. PCOldest = 0 /\ h.outside = FALSE
    BY DEF Init, PCOldest, PCYoung, validM, validE, validD, HZero, DZero
  <1>3. Committed[0] = 0 /\ Committed \in [Reg -> Word]
    BY <1>1, ViewType, ZeroReg DEF ViewOK, Committed
  <1> QED
    BY <1>1, <1>2, <1>3, SmallWords, SameWords DEF ISA!Init, ISA!TypeOK, TypeOK

LEMMA RefinesStep == Inv /\ TypeOK' /\ [Next]_vars => [ISA!Next]_(ISA!vars)
  <1> SUFFICES ASSUME Inv, TypeOK', [Next]_vars PROVE [ISA!Next]_(ISA!vars)
    OBVIOUS
  <1>1. CASE Posedge
    <2>1. CASE validM /\ AlignedM /\ ~h.outside
      BY <1>1, <2>1, PosedgeExecutes DEF ISA!Next
    <2>2. CASE validM /\ (~AlignedM \/ h.outside)
      BY <1>1, <2>2, PosedgeLeaves DEF ISA!Next
    <2>3. CASE ~validM
      BY <1>1, <2>3, PosedgeStutters
    <2> QED
      BY <2>1, <2>2, <2>3
  <1>2. CASE Negedge
    BY <1>2, NegedgeStutters
  <1>3. CASE Reset
    BY <1>3, ResetResets DEF ISA!Next
  <1>4. CASE UNCHANGED vars
    BY <1>4 DEF vars, ISA!vars, PCOldest, PCYoung, validM, validE, validD,
       Committed, ResultW
  <1> QED
    BY <1>1, <1>2, <1>3, <1>4 DEF Next

\* The pipelined core executes its program exactly as RV32I says, one
\* instruction after the other: forwarding, stalls, flushes, the byte-lane
\* units, both decoders and the two clock edges are invisible, for every
\* program without an aliasing auipc, every number of registers, every byte
\* width and every moment of a reset.
THEOREM Correct == SafeSpec => Refines
  <1>1. SafeSpec => [](Inv /\ TypeOK)
    <2>1. Inv => TypeOK
      BY DEF Inv
    <2> QED
      BY <2>1, InvInit, InvStep, PTL DEF SafeSpec
  <1> QED
    BY <1>1, RefinesInit, RefinesStep, PTL DEF SafeSpec, Refines, ISA!Spec
=============================================================================
