--------------------------- MODULE RvSingle_proofs --------------------------
(***************************************************************************)
(* The single-cycle core implements the abstract RV32I machine of RvIsa:   *)
(* each rising edge is one whole instruction of the abstract machine.  Its *)
(* decoders number the ALU operations their own way; the adder, the flags  *)
(* and the branch decision are shown to be those of RvUnits.               *)
(***************************************************************************)
EXTENDS RvSingle, RvUnits_proofs
-----------------------------------------------------------------------------
(***************************************************************************)
(* The ALU under the single-cycle core's encoding.                         *)
(***************************************************************************)
LEMMA SameAdder ==
  ASSUME NEW a \in Word, NEW b \in Word
  PROVE  /\ \A ctl \in 0 .. 10 : aluSumS(a, b, ctl) = aluSum(a, b, ctl)
         /\ aluOverflowS(a, b, 1) <=> aluOverflow(a, b, 1)
         /\ aluOverflowS(a, b, 5) <=> aluOverflow(a, b, 5)
  <1>1. \A ctl \in 0 .. 10 : aluSumS(a, b, ctl) = aluSum(a, b, ctl)
    BY DEF aluSumS, aluSum
  <1>2. aluOverflowS(a, b, 1) <=> aluOverflow(a, b, 1)
    BY <1>1 DEF aluOverflowS, aluOverflow
  <1>3. aluOverflowS(a, b, 5) <=> aluOverflow(a, b, 5)
    BY <1>1 DEF aluOverflowS, aluOverflow
  <1> QED
    BY <1>1, <1>2, <1>3

\* The branch condition reads the same flags off both ALUs.
LEMMA BranchDecisionS ==
  ASSUME NEW f3 \in 0 .. 7, NEW a \in Word, NEW b \in Word
  PROVE  BranchCondition(f3, aluS(a, b, 1)) <=> Taken(f3, a, b)
  <1>1. aluResultS(a, b, 1) = aluResult(a, b, 1)
    BY SameAdder DEF aluResultS, aluResult
  <1>2. aluS(a, b, 1).zero = alu(a, b, 1).zero
        /\ aluS(a, b, 1).negative = alu(a, b, 1).negative
    BY <1>1 DEF aluS, alu
  <1>3. aluS(a, b, 1).carry <=> alu(a, b, 1).carry
    <2>1. aluS(a, b, 1).carry =
            (1 \notin {2, 3, 6, 7, 10, 11} /\ aluSumS(a, b, 1) >= WordMod)
      BY Zenon DEF aluS
    <2>2. alu(a, b, 1).carry = (1 \notin {2, 3, 6, 7} /\ aluSum(a, b, 1) >= WordMod)
      BY Zenon DEF alu
    <2>3. 1 \notin {2, 3, 6, 7, 10, 11} /\ 1 \notin {2, 3, 6, 7}
          /\ aluSumS(a, b, 1) = aluSum(a, b, 1)
      BY SameAdder
    <2> QED
      BY <2>1, <2>2, <2>3, Zenon
  <1>4. aluS(a, b, 1).overflow <=> alu(a, b, 1).overflow
    <2>1. aluS(a, b, 1).overflow = aluOverflowS(a, b, 1)
          /\ alu(a, b, 1).overflow = aluOverflow(a, b, 1)
      BY Zenon DEF aluS, alu
    <2> QED
      BY <2>1, SameAdder, Zenon
  <1>5. BranchCondition(f3, aluS(a, b, 1)) <=> BranchCondition(f3, alu(a, b, 1))
    BY <1>2, <1>3, <1>4 DEF BranchCondition, ExclOr
  <1> QED
    BY <1>5, BranchDecision

\* Arithmetic, with the controls aludecS chooses.
LEMMA ArithmeticDecodeS ==
  ASSUME NEW ins \in Instr, ins.op \in {"op", "opimm"},
         NEW a \in Word, NEW b \in Word
  PROVE  aluResultS(a, b, aludecS(opb5(ins.op), ins.f3, ins.f7, 2))
           = AluMeaning(ins, a, b)
  <1> DEFINE ctl == aludecS(opb5(ins.op), ins.f3, ins.f7, 2)
  <1>1. opb5(ins.op) <=> ins.op = "op"
    BY DEF opb5
  <1>2. ins.f3 \in 0 .. 7
    BY DEF Instr
  <1>3. /\ aluSumS(a, b, 0) % WordMod = Add(a, b)
        /\ aluSumS(a, b, 1) % WordMod = Sub(a, b)
        /\ aluSumS(a, b, 5) % WordMod = Sub(a, b)
    BY Difference DEF aluSumS, aluSum, Add
  <1>4. CASE ins.f3 = 0
    <2>1. ctl = IF ins.op = "op" /\ ins.f7 THEN 1 ELSE 0
      BY <1>1, <1>4 DEF aludecS
    <2> QED
      BY <1>3, <1>4, <2>1 DEF aluResultS, AluMeaning
  <1>5. CASE ins.f3 = 2
    <2>1. ctl = 5
      BY <1>5 DEF aludecS
    <2>2. aluResultS(a, b, 5) = Bool2Word(ExclOr(msb(Sub(a, b)), aluOverflowS(a, b, 5)))
      BY <1>3 DEF aluResultS
    <2>3. ExclOr(msb(Sub(a, b)), aluOverflowS(a, b, 5)) <=> Signed(a) < Signed(b)
      BY SignedLess, SameAdder DEF ExclOr
    <2> QED
      BY <1>5, <2>1, <2>2, <2>3 DEF AluMeaning, Bool2Word
  <1>6. CASE ins.f3 = 5
    <2>1. ctl = IF ins.f7 THEN 10 ELSE 9
      BY <1>6 DEF aludecS
    <2> QED
      BY <1>6, <2>1 DEF aluResultS, AluMeaning
  <1>7. CASE ins.f3 \in {1, 3, 4, 6, 7}
    <2>1. ctl = CASE ins.f3 = 1 -> 7 [] ins.f3 = 3 -> 8 [] ins.f3 = 4 -> 6
                  [] ins.f3 = 6 -> 3 [] OTHER -> 2
      BY <1>7 DEF aludecS
    <2> QED
      BY <1>7, <2>1 DEF aluResultS, AluMeaning
  <1> QED
    BY <1>2, <1>4, <1>5, <1>6, <1>7

LEMMA AluResultSType ==
  ASSUME NEW a \in Word, NEW b \in Word, NEW ctl \in 0 .. 11
  PROVE  aluResultS(a, b, ctl) \in Word
  <1>1. a \in Int /\ b \in Int /\ WordMod \in Nat \ {0}
    BY WordModPos DEF Word
  <1>2. aluSumS(a, b, ctl) % WordMod \in Word
    BY <1>1, ModRange DEF aluSumS, Word
  <1>3. \A p : Bool2Word(p) \in Word
    BY SmallWords DEF Bool2Word
  <1>4. /\ Sll(a, b) \in Word /\ Srl(a, b) \in Word /\ Sra(a, b) \in Word
        /\ BitAnd(a, b) \in Word /\ BitOr(a, b) \in Word /\ BitXor(a, b) \in Word
    BY BitOpAssumption
  <1> QED
    BY <1>2, <1>3, <1>4 DEF aluResultS
-----------------------------------------------------------------------------
(***************************************************************************)
(* The byte lanes of loads and stores.                                     *)
(***************************************************************************)
LEMMA LoadLineMeans ==
  ASSUME NEW f3 \in 0 .. 7, NEW off \in 0 .. 3, NEW w \in Word,
         f3 \in {1, 5} => off \in {0, 2}
  PROVE  Load_line(f3, off, w) = {LoadMeaning(f3, off, w)}
  BY DEF Load_line, LoadMeaning

LEMMA LoadLineType ==
  ASSUME NEW f3 \in 0 .. 7, NEW off \in 0 .. 3, NEW w \in Word
  PROVE  Load_line(f3, off, w) \subseteq Word
  <1>1. CASE f3 \in {1, 5} => off \in {0, 2}
    <2>1. LoadMeaning(f3, off, w) \in Word
      BY LoadMeaningType
    <2>2. Load_line(f3, off, w) = {LoadMeaning(f3, off, w)}
      BY <1>1, LoadLineMeans
    <2> QED
      BY <2>1, <2>2, Zenon
  <1>2. CASE ~(f3 \in {1, 5} => off \in {0, 2})
    BY <1>2 DEF Load_line
  <1> QED
    BY <1>1, <1>2

\* Every aligned store except a byte at offset 3 replaces exactly the
\* addressed bytes.
LEMMA WriteLineMeans ==
  ASSUME NEW f3 \in 0 .. 7, NEW off \in 0 .. 3, NEW w \in Word, NEW v \in Word,
         f3 = 1 => off \in {0, 2}, ~(f3 = 0 /\ off = 3)
  PROVE  Write_line(f3, off, w, v) = {StoreMeaning(f3, off, w, v)}
  <1>1. CASE f3 = 0
    <2>1. CASE off = 0
      BY <1>1, <2>1 DEF Write_line, StoreMeaning, ByteAt
    <2>2. CASE off = 1
      BY <1>1, <2>2 DEF Write_line, StoreMeaning, ByteAt
    <2>3. CASE off = 2
      BY <1>1, <2>3 DEF Write_line, StoreMeaning, ByteAt
    <2>4. off = 0 \/ off = 1 \/ off = 2
      BY <1>1
    <2> QED
      BY <2>1, <2>2, <2>3, <2>4, Zenon
  <1>2. CASE f3 = 1
    <2>1. CASE off = 0
      BY <1>2, <2>1 DEF Write_line, StoreMeaning, ByteAt
    <2>2. CASE off = 2
      BY <1>2, <2>2 DEF Write_line, StoreMeaning, ByteAt
    <2> QED
      BY <1>2, <2>1, <2>2
  <1>3. CASE f3 \notin {0, 1}
    BY <1>3 DEF Write_line, StoreMeaning
  <1> QED
    BY <1>1, <1>2, <1>3

\* The shifted byte leaves room for the bit below it.
LEMMA TopByteType ==
  ASSUME NEW w \in Word, NEW v \in Word PROVE TopByte(w, v) \in Byte
  <1> DEFINE B == ByteMod
             d == 2 * Byte0(v)
  <1>1. B \in Nat \ {0} /\ B % 2 = 0
    BY ByteModAssumption
  <1>2. d \in 0 .. 2 * B - 1 /\ d % 2 = 0 /\ Byte3(w) % 2 \in {0, 1}
    BY <1>1, ByteType DEF Byte
  <1>3. d % B \in 0 .. B - 2
    <2>1. CASE d < B
      <3>1. d % B = d
        BY <1>1, <1>2, <2>1, ModSame
      <3> QED
        BY <1>1, <1>2, <2>1, <3>1
    <2>2. CASE d >= B
      <3>1. d % B = d - B
        BY <1>1, <1>2, <2>2, ModMinus
      <3> QED
        BY <1>1, <1>2, <2>2, <3>1
    <2> QED
      BY <1>1, <1>2, <2>1, <2>2
  <1>4. TopByte(w, v) = (d % B) + (Byte3(w) % 2)
    BY DEF TopByte
  <1> HIDE DEF d
  <1> QED
    BY <1>1, <1>2, <1>3, <1>4 DEF Byte

LEMMA WriteLineType ==
  ASSUME NEW f3 \in 0 .. 7, NEW off \in 0 .. 3, NEW w \in Word, NEW v \in Word
  PROVE  Write_line(f3, off, w, v) \subseteq Word
  <1>1. CASE (f3 = 1 => off \in {0, 2}) /\ ~(f3 = 0 /\ off = 3)
    <2>1. StoreMeaning(f3, off, w, v) \in Word
      BY StoreMeaningType
    <2>2. Write_line(f3, off, w, v) = {StoreMeaning(f3, off, w, v)}
      BY <1>1, WriteLineMeans
    <2> QED
      BY <2>1, <2>2, Zenon
  <1>2. CASE ~(f3 = 1 => off \in {0, 2})
    BY <1>2 DEF Write_line
  <1>3. CASE f3 = 0 /\ off = 3
    <2>1. TopByte(w, v) \in Byte
      BY TopByteType
    <2>2. Cat(TopByte(w, v), Byte2(w), Byte1(w), Byte0(w)) \in Word
      BY <2>1, ByteType, CatType
    <2>3. Write_line(f3, off, w, v) = {Cat(TopByte(w, v), Byte2(w), Byte1(w), Byte0(w))}
      BY <1>3 DEF Write_line
    <2> QED
      BY <2>2, <2>3, Zenon
  <1> QED
    BY <1>1, <1>2, <1>3
-----------------------------------------------------------------------------
(***************************************************************************)
(* One rising edge, signal by signal.                                      *)
(***************************************************************************)
\* The second operand as the program sees it, and the addressed word.
OpB  == ReadS(Ins.rs2)
Addr == AddressOf(Ins, SrcA)

LEMMA IndexInMemory ==
  ASSUME NEW a \in Word PROVE WordIndex(a) \in WordIndexes
  BY WordModPos DEF WordIndex, WordIndexes, Word

LEMMA CurrentInstruction ==
  ASSUME TypeOK
  PROVE  /\ Ins \in Instr /\ Legal(Ins)
         /\ Ins.op \in Op /\ Ins.f3 \in 0 .. 7 /\ Ins.rd \in Reg
         /\ Ins.rs1 \in Reg /\ Ins.rs2 \in Reg /\ Ins.imm \in Word
  <1>1. WordIndex(PC) \in WordIndexes
    BY IndexInMemory DEF TypeOK
  <1>2. Ins \in Instr /\ Legal(Ins)
    BY <1>1 DEF TypeOK, Ins
  <1> QED
    BY <1>2 DEF Instr

LEMMA OperandType ==
  ASSUME TypeOK
  PROVE  /\ SrcA \in Word /\ OpB \in Word /\ SrcB \in Word
         /\ Addr \in Word /\ ByteOffset(Addr) \in 0 .. 3
         /\ WordIndex(Addr) \in WordIndexes
  <1>1. \A r \in Reg : ReadS(r) \in Word
    BY SmallWords DEF TypeOK, ReadS
  <1>2. SrcA \in Word /\ OpB \in Word /\ SrcB \in Word
    BY <1>1, CurrentInstruction DEF SrcA, OpB, SrcB
  <1>3. Addr \in Word
    BY <1>2, CurrentInstruction, AddType DEF Addr, AddressOf
  <1> QED
    BY <1>2, <1>3, IndexInMemory, OffsetType

\* The control signals, one instruction class at a time.
LEMMA ControlSignals ==
  ASSUME TypeOK
  PROVE  /\ Ctl.RegWrite <=> WritesRd(Ins)
         /\ Ctl.MemWrite <=> Ins.op = "store"
         /\ Ctl.Branch <=> Ins.op = "branch"
         /\ Ctl.Jump <=> Ins.op \in {"jal", "jalr"}
         /\ Ctl.jalrsig <=> Ins.op = "jalr"
         /\ Ctl.ALUSrc <=> Ins.op \notin {"op", "branch", "jal"}
         /\ Ctl.ResultSrc = IF Ins.op = "load" THEN 1
                            ELSE IF Ins.op \in {"jal", "jalr"} THEN 2
                            ELSE IF Ins.op = "auipc" THEN 3 ELSE 0
         /\ Ctl.ALUOp = IF Ins.op = "branch" THEN 1
                        ELSE IF Ins.op \in {"op", "opimm"} THEN 2
                        ELSE IF Ins.op \in {"lui", "auipc"} THEN 3 ELSE 0
  <1>1. Ins.op \in Op
    BY CurrentInstruction
  <1>2. /\ Ctl.RegWrite = (Ins.op \notin {"store", "branch"})
        /\ Ctl.MemWrite = (Ins.op = "store") /\ Ctl.Branch = (Ins.op = "branch")
        /\ Ctl.Jump = (Ins.op \in {"jal", "jalr"})
        /\ Ctl.jalrsig = (Ins.op = "jalr")
        /\ Ctl.ALUSrc = (Ins.op \notin {"op", "branch", "jal"})
    BY DEF Ctl, maindecS
  <1>3. Ctl.ResultSrc = IF Ins.op = "load" THEN 1
                        ELSE IF Ins.op \in {"jal", "jalr"} THEN 2
                        ELSE IF Ins.op = "auipc" THEN 3 ELSE 0
    BY <1>1 DEF Ctl, maindecS, Op
  <1>4. Ctl.ALUOp = IF Ins.op = "branch" THEN 1
                    ELSE IF Ins.op \in {"op", "opimm"} THEN 2
                    ELSE IF Ins.op \in {"lui", "auipc"} THEN 3 ELSE 0
    BY <1>1 DEF Ctl, maindecS, Op
  <1> QED
    BY <1>2, <1>3, <1>4 DEF WritesRd

\* What the ALU delivers to the memory, the pc and the register file.
LEMMA AluDelivers ==
  ASSUME TypeOK
  PROVE  /\ Ins.op = "op" => Alu.result = AluMeaning(Ins, SrcA, OpB)
         /\ Ins.op = "opimm" => Alu.result = AluMeaning(Ins, SrcA, Ins.imm)
         /\ Ins.op = "lui" => Alu.result = Ins.imm
         /\ Ins.op \in {"load", "store", "jalr"} => Alu.result = Addr
         /\ Alu.result \in Word
  <1> DEFINE ctl == aludecS(opb5(Ins.op), Ins.f3, Ins.f7, Ctl.ALUOp)
  <1>1. Alu.result = aluResultS(SrcA, SrcB, ctl)
    BY DEF Alu, aluS
  <1>2. SrcB = IF Ins.op \in {"op", "branch", "jal"} THEN OpB ELSE Ins.imm
    BY ControlSignals DEF SrcB, OpB
  <1>3. ctl \in 0 .. 11
    BY DEF aludecS
  <1>4. Alu.result \in Word
    BY <1>1, <1>3, OperandType, AluResultSType
  <1>5. CASE Ins.op \in {"op", "opimm"}
    <2>1. Ctl.ALUOp = 2
      BY <1>5, ControlSignals
    <2>2. aluResultS(SrcA, SrcB, aludecS(opb5(Ins.op), Ins.f3, Ins.f7, 2))
            = AluMeaning(Ins, SrcA, SrcB)
      BY <1>5, CurrentInstruction, OperandType, ArithmeticDecodeS
    <2>3. Alu.result = AluMeaning(Ins, SrcA, SrcB)
      BY <1>1, <2>1, <2>2
    <2> QED
      BY <1>2, <1>4, <1>5, <2>3
  <1>6. CASE Ins.op = "lui"
    <2>1. ctl = 11
      BY <1>6, ControlSignals DEF aludecS
    <2>2. aluResultS(SrcA, SrcB, 11) = SrcB
      BY DEF aluResultS
    <2> QED
      BY <1>1, <1>2, <1>4, <1>6, <2>1, <2>2
  <1>7. CASE Ins.op \in {"load", "store", "jalr"}
    <2>1. ctl = 0
      BY <1>7, ControlSignals DEF aludecS
    <2>2. aluResultS(SrcA, SrcB, 0) = Add(SrcA, SrcB)
      BY DEF aluResultS, aluSumS, Add
    <2> QED
      BY <1>1, <1>2, <1>4, <1>7, <2>1, <2>2 DEF Addr, AddressOf
  <1> QED
    BY <1>4, <1>5, <1>6, <1>7

\* The pc moves to the next instruction.
LEMMA PcDelivers ==
  ASSUME TypeOK PROVE PCNext = NextPC(Ins, PC, SrcA, OpB)
  <1>1. Ins.op = "branch" =>
          (BranchCondition(Ins.f3, Alu) <=> Taken(Ins.f3, SrcA, OpB))
    <2>1. SUFFICES ASSUME Ins.op = "branch"
                   PROVE  BranchCondition(Ins.f3, Alu) <=> Taken(Ins.f3, SrcA, OpB)
      OBVIOUS
    <2>2. aludecS(opb5(Ins.op), Ins.f3, Ins.f7, Ctl.ALUOp) = 1
      BY <2>1, ControlSignals DEF aludecS
    <2>3. SrcB = OpB
      BY <2>1, ControlSignals DEF SrcB, OpB
    <2>4. Alu = aluS(SrcA, OpB, 1)
      BY <2>2, <2>3 DEF Alu
    <2> QED
      BY <2>4, CurrentInstruction, OperandType, BranchDecisionS
  <1>2. PCSrc <=> \/ Ins.op = "branch" /\ Taken(Ins.f3, SrcA, OpB)
                  \/ Ins.op \in {"jal", "jalr"}
    BY <1>1, ControlSignals, Zenon DEF PCSrc
  <1>3. Ins.op = "jalr" => Alu.result = Add(SrcA, Ins.imm)
    BY AluDelivers DEF Addr, AddressOf
  <1>4. Ctl.jalrsig <=> Ins.op = "jalr"
    BY ControlSignals
  <1> QED
    BY <1>2, <1>3, <1>4 DEF PCNext, NextPC

\* Whatever a load reads, the result multiplexer hands on a word.
LEMMA ResultType ==
  ASSUME TypeOK, NEW loaded \in Word PROVE Result(loaded) \in Word
  BY AluDelivers, CurrentInstruction, AddType, SmallWords DEF Result, TypeOK

\* The value written to rd.
LEMMA ResultDelivers ==
  ASSUME TypeOK, WritesRd(Ins),
         NEW loaded, Ins.op = "load" =>
           loaded = LoadMeaning(Ins.f3, ByteOffset(Addr), dmem[WordIndex(Addr)])
  PROVE  Result(loaded) = ResultOf(Ins, PC, SrcA, OpB, dmem[WordIndex(Addr)])
  <1>1. Ins.op \in {"load", "op", "opimm", "jal", "jalr", "lui", "auipc"}
    BY CurrentInstruction DEF WritesRd, Op
  <1>2. Result(loaded) = IF Ins.op = "load" THEN loaded
                         ELSE IF Ins.op \in {"jal", "jalr"} THEN Add(PC, 4)
                         ELSE IF Ins.op = "auipc" THEN Add(PC, Ins.imm)
                         ELSE Alu.result
    BY ControlSignals DEF Result
  <1> QED
    BY <1>1, <1>2, AluDelivers DEF ResultOf, Addr
-----------------------------------------------------------------------------
(***************************************************************************)
(* The types hold, whatever is loaded or stored.                           *)
(***************************************************************************)
LEMMA InitType == Init => TypeOK
  <1> SUFFICES ASSUME Init PROVE TypeOK
    OBVIOUS
  <1>1. imem \in [WordIndexes -> Instr] /\ \A i \in WordIndexes : Legal(imem[i])
    BY DEF Init
  <1> QED
    BY <1>1, SmallWords DEF Init, TypeOK

LEMMA PosedgeType == ASSUME TypeOK, Posedge PROVE TypeOK'
  <1> DEFINE off == ByteOffset(Alu.result)
             i   == WordIndex(Alu.result)
  <1>1. off \in 0 .. 3 /\ i \in WordIndexes /\ ReadData \in Word
    BY AluDelivers, OffsetType, IndexInMemory DEF ReadData, TypeOK
  <1>2. PC' \in Word
    BY PcDelivers, CurrentInstruction, OperandType, NextPCType
       DEF Posedge, TypeOK
  <1>3. rf' \in [Reg -> Word]
    <2>1. PICK loaded \in Load_line(Ins.f3, off, ReadData) :
            rf' = IF Ctl.RegWrite THEN [rf EXCEPT ![Ins.rd] = Result(loaded)]
                  ELSE rf
      BY DEF Posedge
    <2>2. Result(loaded) \in Word
      BY <1>1, LoadLineType, CurrentInstruction, ResultType
    <2> QED
      BY <2>1, <2>2, CurrentInstruction DEF TypeOK
  <1>4. dmem' \in [WordIndexes -> Word]
    <2>1. PICK stored \in Write_line(Ins.f3, off, ReadData, ReadS(Ins.rs2)) :
            dmem' = IF Ctl.MemWrite THEN [dmem EXCEPT ![i] = stored] ELSE dmem
      BY DEF Posedge
    <2>2. stored \in Word
      <3>1. ReadS(Ins.rs2) \in Word
        BY OperandType DEF OpB
      <3> QED
        BY <1>1, <2>1, <3>1, WriteLineType, CurrentInstruction
    <2> QED
      BY <1>1, <2>1, <2>2 DEF TypeOK
  <1>5. outside' \in BOOLEAN /\ imem' = imem
    BY DEF Posedge, TypeOK
  <1> QED
    BY <1>2, <1>3, <1>4, <1>5 DEF TypeOK

LEMMA NextType == ASSUME TypeOK, [Next]_vars PROVE TypeOK'
  <1>1. CASE Posedge
    BY <1>1, PosedgeType
  <1>2. CASE Reset
    BY <1>2, SmallWords DEF Reset, TypeOK
  <1>3. CASE UNCHANGED vars
    BY <1>3 DEF vars, TypeOK
  <1> QED
    BY <1>1, <1>2, <1>3 DEF Next

\* The registers, the memory, the pc and the program keep their types at
\* every edge and every reset, undefined halves and misplaced top bytes of
\* loads and stores included.
THEOREM TypeCorrect == Spec => []TypeOK
  BY InitType, NextType, PTL DEF Spec

\* The types also hold when no byte is stored at offset 3.
THEOREM SafeTypeCorrect == SafeSpec => []TypeOK
  <1>1. [Reset \/ (Posedge /\ ~TopByteStore)]_vars => [Next]_vars
    BY DEF Next
  <1> QED
    BY <1>1, InitType, NextType, PTL DEF SafeSpec
-----------------------------------------------------------------------------
(***************************************************************************)
(* The instance ISA has its own copy of the operators of RvWord and RvSem. *)
(* They are the same operators.                                            *)
(***************************************************************************)
LEMMA SameWords ==
  /\ ISA!Word = Word /\ ISA!WordIndexes = WordIndexes /\ ISA!Reg = Reg
  /\ ISA!Instr = Instr
  /\ \A a, b : ISA!Add(a, b) = Add(a, b) /\ ISA!Sub(a, b) = Sub(a, b)
  /\ \A a : /\ ISA!Signed(a) = Signed(a) /\ ISA!WordIndex(a) = WordIndex(a)
            /\ ISA!ByteOffset(a) = ByteOffset(a)
  <1>1. ISA!WordMod = WordMod
    BY DEF ISA!WordMod, WordMod
  <1>2. ISA!Word = Word /\ ISA!WordIndexes = WordIndexes
    BY <1>1 DEF ISA!Word, Word, ISA!WordIndexes, WordIndexes
  <1>3. ISA!Reg = Reg /\ ISA!Instr = Instr
    BY <1>2 DEF ISA!Reg, Reg, ISA!Op, Op, ISA!Instr, Instr
  <1>4. \A a, b : ISA!Add(a, b) = Add(a, b) /\ ISA!Sub(a, b) = Sub(a, b)
    BY <1>1 DEF ISA!Add, Add, ISA!Sub, Sub
  <1>5. \A a : /\ ISA!Signed(a) = Signed(a) /\ ISA!WordIndex(a) = WordIndex(a)
              /\ ISA!ByteOffset(a) = ByteOffset(a)
    BY <1>1 DEF ISA!Signed, Signed, ISA!WordIndex, WordIndex, ISA!ByteOffset,
       ByteOffset
  <1> QED
    BY <1>2, <1>3, <1>4, <1>5

LEMMA SameBytes ==
  /\ \A f3, k, w : ISA!LoadMeaning(f3, k, w) = LoadMeaning(f3, k, w)
  /\ \A f3, k, w, v : ISA!StoreMeaning(f3, k, w, v) = StoreMeaning(f3, k, w, v)
  <1>1. \A w, k : ISA!ByteAt(w, k) = ByteAt(w, k)
    BY DEF ISA!ByteAt, ByteAt, ISA!Byte0, Byte0, ISA!Byte1, Byte1, ISA!Byte2,
       Byte2, ISA!Byte3, Byte3
  <1>2. \A w, k : ISA!HalfAt(w, k) = HalfAt(w, k)
    BY <1>1 DEF ISA!HalfAt, HalfAt, ISA!HalfOf, HalfOf
  <1>3. \A x, m : ISA!SignExtend(x, m) = SignExtend(x, m)
    BY DEF ISA!SignExtend, SignExtend, ISA!WordMod, WordMod
  <1>4. \A a, b, c, d : ISA!Cat(a, b, c, d) = Cat(a, b, c, d)
    BY DEF ISA!Cat, Cat
  <1>5. \A f3, k, w : ISA!LoadMeaning(f3, k, w) = LoadMeaning(f3, k, w)
    BY <1>1, <1>2, <1>3 DEF ISA!LoadMeaning, LoadMeaning
  <1>6. ASSUME NEW f3, NEW k, NEW w, NEW v
        PROVE  ISA!StoreMeaning(f3, k, w, v) = StoreMeaning(f3, k, w, v)
    BY <1>1, <1>4 DEF ISA!StoreMeaning, StoreMeaning
  <1> QED
    BY <1>5, <1>6

LEMMA SameInstruction ==
  ASSUME NEW ins, NEW pc, NEW a, NEW b
  PROVE  /\ ISA!AddressOf(ins, a) = AddressOf(ins, a)
         /\ ISA!NextPC(ins, pc, a, b) = NextPC(ins, pc, a, b)
         /\ ISA!Aligned(ins, pc, a, b) <=> Aligned(ins, pc, a, b)
         /\ ISA!WritesRd(ins) <=> WritesRd(ins)
         /\ \A w : ISA!ResultOf(ins, pc, a, b, w) = ResultOf(ins, pc, a, b, w)
  <1>1. ISA!AddressOf(ins, a) = AddressOf(ins, a)
    BY SameWords DEF ISA!AddressOf, AddressOf
  <1>2. ISA!Taken(ins.f3, a, b) = Taken(ins.f3, a, b)
    BY SameWords DEF ISA!Taken, Taken
  <1>3. ISA!NextPC(ins, pc, a, b) = NextPC(ins, pc, a, b)
    BY <1>2, SameWords DEF ISA!NextPC, NextPC
  <1>4. ISA!Aligned(ins, pc, a, b) <=> Aligned(ins, pc, a, b)
    BY <1>1, <1>3, SameWords DEF ISA!Aligned, Aligned
  <1>5. ISA!WritesRd(ins) <=> WritesRd(ins)
    BY DEF ISA!WritesRd, WritesRd
  <1>6. \A x, y : ISA!AluMeaning(ins, x, y) = AluMeaning(ins, x, y)
    BY SameWords DEF ISA!AluMeaning, AluMeaning, ISA!Bool2Word, Bool2Word
  <1>7. \A w : ISA!ResultOf(ins, pc, a, b, w) = ResultOf(ins, pc, a, b, w)
    BY <1>1, <1>6, SameWords, SameBytes DEF ISA!ResultOf, ResultOf
  <1> QED
    BY <1>1, <1>3, <1>4, <1>5, <1>7
-----------------------------------------------------------------------------
(***************************************************************************)
(* The registers as the abstract machine sees them, and one edge.          *)
(***************************************************************************)
View == [r \in Reg |-> ReadS(r)]

LEMMA ViewType == TypeOK => View \in [Reg -> Word]
  BY SmallWords DEF View, ReadS, TypeOK

LEMMA ViewTypeNext == ASSUME TypeOK' PROVE View' \in [Reg -> Word]
  BY SmallWords DEF View, ReadS, TypeOK

LEMMA RegisterWrite ==
  ASSUME TypeOK, Posedge, Aligned(Ins, PC, SrcA, OpB)
  PROVE  View' = IF WritesRd(Ins) /\ Ins.rd # 0
                 THEN [View EXCEPT ![Ins.rd] =
                         ResultOf(Ins, PC, SrcA, OpB, dmem[WordIndex(Addr)])]
                 ELSE View
  <1>1. PICK loaded \in Load_line(Ins.f3, ByteOffset(Alu.result), ReadData) :
          rf' = IF Ctl.RegWrite THEN [rf EXCEPT ![Ins.rd] = Result(loaded)]
                ELSE rf
    BY DEF Posedge
  <1>2. Ins.op = "load" =>
          loaded = LoadMeaning(Ins.f3, ByteOffset(Addr), dmem[WordIndex(Addr)])
    <2>1. SUFFICES ASSUME Ins.op = "load"
                   PROVE  loaded = LoadMeaning(Ins.f3, ByteOffset(Addr),
                                               dmem[WordIndex(Addr)])
      OBVIOUS
    <2>2. Alu.result = Addr
      BY <2>1, AluDelivers
    <2>3. Ins.f3 \in {1, 5} => ByteOffset(Addr) \in {0, 2}
      BY <2>1 DEF Aligned, Addr
    <2>4. dmem[WordIndex(Addr)] \in Word
      BY OperandType DEF TypeOK
    <2>5. Load_line(Ins.f3, ByteOffset(Addr), dmem[WordIndex(Addr)])
            = {LoadMeaning(Ins.f3, ByteOffset(Addr), dmem[WordIndex(Addr)])}
      BY <2>3, <2>4, LoadLineMeans, OperandType, CurrentInstruction
    <2> QED
      BY <1>1, <2>2, <2>5 DEF ReadData
  <1>3. WritesRd(Ins) => Result(loaded) =
                           ResultOf(Ins, PC, SrcA, OpB, dmem[WordIndex(Addr)])
    BY <1>2, ResultDelivers
  <1>4. Ctl.RegWrite <=> WritesRd(Ins)
    BY ControlSignals
  <1>5. Ins.rd \in Reg /\ rf \in [Reg -> Word]
    BY CurrentInstruction DEF TypeOK
  <1> DEFINE new == ResultOf(Ins, PC, SrcA, OpB, dmem[WordIndex(Addr)])
  <1>6. rf' = IF WritesRd(Ins) THEN [rf EXCEPT ![Ins.rd] = new] ELSE rf
    BY <1>1, <1>3, <1>4, Zenon
  <1> HIDE DEF new
  <1>7. View' = [r \in Reg |-> IF r = 0 THEN 0 ELSE rf'[r]]
        /\ View = [r \in Reg |-> IF r = 0 THEN 0 ELSE rf[r]]
    BY DEF View, ReadS
  <1>8. View' = IF WritesRd(Ins) /\ Ins.rd # 0 THEN [View EXCEPT ![Ins.rd] = new]
                ELSE View
    <2>1. CASE WritesRd(Ins) /\ Ins.rd # 0
      BY <1>5, <1>6, <1>7, <2>1
    <2>2. CASE ~(WritesRd(Ins) /\ Ins.rd # 0)
      BY <1>5, <1>6, <1>7, <2>2
    <2> QED
      BY <2>1, <2>2
  <1> QED
    BY <1>8 DEF new

LEMMA MemoryWrite ==
  ASSUME TypeOK, Posedge, ~TopByteStore, Aligned(Ins, PC, SrcA, OpB)
  PROVE  dmem' = IF Ins.op = "store"
                 THEN [dmem EXCEPT ![WordIndex(Addr)] =
                         StoreMeaning(Ins.f3, ByteOffset(Addr),
                                      dmem[WordIndex(Addr)], OpB)]
                 ELSE dmem
  <1>1. PICK stored \in Write_line(Ins.f3, ByteOffset(Alu.result), ReadData, OpB) :
          dmem' = IF Ctl.MemWrite
                  THEN [dmem EXCEPT ![WordIndex(Alu.result)] = stored] ELSE dmem
    BY DEF Posedge, OpB
  <1>2. CASE Ins.op = "store"
    <2>1. Ctl.MemWrite /\ Alu.result = Addr
      BY <1>2, AluDelivers, ControlSignals
    <2>2. Ins.f3 = 1 => ByteOffset(Addr) \in {0, 2}
      BY <1>2 DEF Aligned, Addr
    <2>3. ~(Ins.f3 = 0 /\ ByteOffset(Addr) = 3)
      BY <1>2, <2>1 DEF TopByteStore
    <2>4. dmem[WordIndex(Addr)] \in Word
      BY OperandType DEF TypeOK
    <2>5. Write_line(Ins.f3, ByteOffset(Addr), dmem[WordIndex(Addr)], OpB)
            = {StoreMeaning(Ins.f3, ByteOffset(Addr), dmem[WordIndex(Addr)], OpB)}
      BY <2>2, <2>3, <2>4, WriteLineMeans, OperandType, CurrentInstruction
    <2> QED
      BY <1>1, <1>2, <2>1, <2>5 DEF ReadData
  <1>3. CASE Ins.op # "store"
    BY <1>1, <1>3, ControlSignals
  <1> QED
    BY <1>2, <1>3

\* The abstract machine at this state reads what the core reads.
LEMMA SameOperands ==
  ASSUME TypeOK
  PROVE  /\ imem[ISA!WordIndex(PC)] = Ins
         /\ View[Ins.rs1] = SrcA /\ View[Ins.rs2] = OpB
         /\ ISA!WordIndex(ISA!AddressOf(Ins, SrcA)) = WordIndex(Addr)
         /\ ISA!ByteOffset(ISA!AddressOf(Ins, SrcA)) = ByteOffset(Addr)
  <1>1. imem[ISA!WordIndex(PC)] = Ins
    BY SameWords DEF Ins
  <1>2. View[Ins.rs1] = SrcA /\ View[Ins.rs2] = OpB
    BY CurrentInstruction DEF View, SrcA, OpB
  <1>3. ISA!AddressOf(Ins, SrcA) = Addr
    BY SameInstruction DEF Addr
  <1> QED
    BY <1>1, <1>2, <1>3, SameWords

LEMMA PosedgeExecutes ==
  ASSUME TypeOK, Posedge, ~TopByteStore, ~outside, Aligned(Ins, PC, SrcA, OpB)
  PROVE  ISA!Step
  <1> DEFINE i == WordIndex(Addr)
  <1>1. ISA!Aligned(Ins, PC, SrcA, OpB)
    BY SameInstruction
  <1>2. PC' = ISA!NextPC(Ins, PC, SrcA, OpB)
    BY PcDelivers, SameInstruction DEF Posedge
  <1>3. View' = IF ISA!WritesRd(Ins) /\ Ins.rd # 0
                THEN [View EXCEPT ![Ins.rd] =
                        ISA!ResultOf(Ins, PC, SrcA, OpB, dmem[i])]
                ELSE View
    BY RegisterWrite, SameInstruction
  <1>4. dmem' = IF Ins.op = "store"
                THEN [dmem EXCEPT ![i] =
                        ISA!StoreMeaning(Ins.f3, ByteOffset(Addr), dmem[i], OpB)]
                ELSE dmem
    BY MemoryWrite, SameBytes
  <1>5. outside' = outside /\ imem' = imem
    BY DEF Posedge, OpB, TypeOK
  <1> HIDE DEF i
  <1>6. ISA!Execute
    BY <1>1, <1>2, <1>3, <1>4, <1>5, SameOperands, Zenon DEF ISA!Execute, View, i
  <1> QED
    BY <1>6 DEF ISA!Step

LEMMA PosedgeLeaves ==
  ASSUME TypeOK, TypeOK', Posedge, outside \/ ~Aligned(Ins, PC, SrcA, OpB)
  PROVE  ISA!Leave
  <1>1. outside \/ ~ISA!Aligned(Ins, PC, SrcA, OpB)
    BY SameInstruction
  <1>2. outside' = TRUE /\ imem' = imem
    BY DEF Posedge, OpB
  <1>3. View' \in [Reg -> Word]
    BY ViewTypeNext
  <1>4. PC' \in Word /\ dmem' \in [WordIndexes -> Word]
    BY DEF TypeOK
  <1> QED
    BY <1>1, <1>2, <1>3, <1>4, SameOperands, SameWords DEF ISA!Leave, View

LEMMA ResetRestarts == ASSUME TypeOK, TypeOK', Reset PROVE ISA!Reset
  <1>1. PC' = 0 /\ outside' = FALSE /\ imem' = imem /\ dmem' = dmem /\ rf' = rf
    BY DEF Reset
  <1>2. View' = View /\ View' \in [Reg -> Word]
    <2>1. View' = View
      BY <1>1 DEF View, ReadS
    <2> QED
      BY <2>1, ViewTypeNext
  <1>3. 0 \in Reg
    BY NumRegsAssumption DEF Reg
  <1> QED
    BY <1>1, <1>2, <1>3, SameWords DEF ISA!Reset, View

LEMMA RefinesInit == Init => ISA!Init
  <1> SUFFICES ASSUME Init PROVE ISA!Init
    OBVIOUS
  <1>1. TypeOK /\ PC = 0 /\ outside = FALSE
    BY InitType DEF Init
  <1>2. View \in [Reg -> Word] /\ View[0] = 0
    BY <1>1, ViewType, NumRegsAssumption DEF View, ReadS, Reg
  <1> QED
    BY <1>1, <1>2, SameWords DEF ISA!Init, ISA!TypeOK, TypeOK, View

LEMMA RefinesStep ==
  ASSUME TypeOK, TypeOK', [Reset \/ (Posedge /\ ~TopByteStore)]_vars
  PROVE  [ISA!Next]_(ISA!vars)
  <1>1. CASE Posedge /\ ~TopByteStore
    <2>1. CASE ~outside /\ Aligned(Ins, PC, SrcA, OpB)
      BY <1>1, <2>1, PosedgeExecutes DEF ISA!Next
    <2>2. CASE outside \/ ~Aligned(Ins, PC, SrcA, OpB)
      BY <1>1, <2>2, PosedgeLeaves DEF ISA!Next
    <2> QED
      BY <2>1, <2>2
  <1>2. CASE Reset
    BY <1>2, ResetRestarts DEF ISA!Next
  <1>3. CASE UNCHANGED vars
    BY <1>3 DEF vars, ISA!vars, ReadS
  <1> QED
    BY <1>1, <1>2, <1>3

\* The single-cycle core executes every program whose byte stores stay off the
\* top byte of a word exactly as RV32I says, one instruction per edge and
\* through every reset: its own decoders, ALU encodings and byte-lane units
\* are invisible, for every byte width and number of registers.
THEOREM SingleCorrect == SafeSpec => Refines
  <1>1. SafeSpec => []TypeOK
    BY SafeTypeCorrect
  <1> QED
    BY <1>1, RefinesInit, RefinesStep, PTL DEF SafeSpec, Refines, ISA!Spec
=============================================================================
