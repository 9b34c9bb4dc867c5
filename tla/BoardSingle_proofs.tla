-------------------------- MODULE BoardSingle_proofs -------------------------
(***************************************************************************)
(* The single-cycle core on its memory path, for every value of the        *)
(* constants.  The facts about the memory path are those of                *)
(* BoardMemory_proofs with the request the core shows, the facts about the *)
(* core those of RvSingle_proofs with the memory behind the bus.           *)
(***************************************************************************)
EXTENDS BoardSingle, RvUnits_proofs

Path == INSTANCE BoardMemory_proofs WITH request <- Request
Cpu  == INSTANCE RvSingle_proofs WITH dmem <- DataMemory, outside <- FALSE

-----------------------------------------------------------------------------
(***************************************************************************)
(* The instances have their own copies of the operators they extend.  They *)
(* are the same operators.                                                 *)
(***************************************************************************)
LEMMA SameWords ==
  /\ Cpu!Word = Word /\ Cpu!WordIndexes = WordIndexes /\ Cpu!Reg = Reg
  /\ Cpu!Instr = Instr /\ Cpu!WordMod = WordMod /\ Cpu!Op = Op
  /\ \A a, b : Cpu!Add(a, b) = Add(a, b) /\ Cpu!Sub(a, b) = Sub(a, b)
  /\ \A a : /\ Cpu!Signed(a) = Signed(a) /\ Cpu!WordIndex(a) = WordIndex(a)
            /\ Cpu!ByteOffset(a) = ByteOffset(a)
  <1>1. Cpu!WordMod = WordMod
    BY DEF Cpu!WordMod, WordMod
  <1>2. Cpu!Word = Word /\ Cpu!WordIndexes = WordIndexes
    BY <1>1 DEF Cpu!Word, Word, Cpu!WordIndexes, WordIndexes
  <1>3. Cpu!Reg = Reg /\ Cpu!Op = Op /\ Cpu!Instr = Instr
    BY <1>2 DEF Cpu!Reg, Reg, Cpu!Op, Op, Cpu!Instr, Instr
  <1>4. \A a, b : Cpu!Add(a, b) = Add(a, b) /\ Cpu!Sub(a, b) = Sub(a, b)
    BY <1>1 DEF Cpu!Add, Add, Cpu!Sub, Sub
  <1>5. \A a : /\ Cpu!Signed(a) = Signed(a) /\ Cpu!WordIndex(a) = WordIndex(a)
              /\ Cpu!ByteOffset(a) = ByteOffset(a)
    BY <1>1 DEF Cpu!Signed, Signed, Cpu!WordIndex, WordIndex, Cpu!ByteOffset,
       ByteOffset
  <1> QED
    BY <1>1, <1>2, <1>3, <1>4, <1>5

\* What RvWord assumes of the bitwise operators, said of the instance.
LEMMA CpuOperators ==
  \A a, b \in Cpu!Word : /\ BitAnd(a, b) \in Cpu!Word
                         /\ BitOr(a, b)  \in Cpu!Word
                         /\ BitXor(a, b) \in Cpu!Word
                         /\ Sll(a, b)    \in Cpu!Word
                         /\ Srl(a, b)    \in Cpu!Word
                         /\ Sra(a, b)    \in Cpu!Word
  BY BitOpAssumption, SameWords

LEMMA SameIns ==
  /\ Cpu!Ins = Ins /\ \A i : Cpu!Legal(i) <=> Core!Legal(i)
  BY DEF Cpu!Ins, Ins, Core!Ins, Cpu!Legal, Core!Legal, Cpu!WordIndex, Core!WordIndex

LEMMA SameCtl == Cpu!Ctl = Core!Ctl /\ \A r : Cpu!ReadS(r) = Core!ReadS(r)
  BY SameIns DEF Cpu!Ctl, Core!Ctl, Cpu!maindecS, Core!maindecS, Cpu!ReadS, Core!ReadS, Ins

LEMMA SameSources == Cpu!SrcA = Core!SrcA /\ Cpu!SrcB = Core!SrcB
  BY SameIns, SameCtl DEF Cpu!SrcA, Core!SrcA, Cpu!SrcB, Core!SrcB, Ins

LEMMA SameAlu == Cpu!Alu = Core!Alu
  <1>1. \A a, b, c, d : Cpu!aludecS(a, b, c, d) = Core!aludecS(a, b, c, d)
    BY DEF Cpu!aludecS, Core!aludecS
  <1>2. \A a, b : /\ Cpu!Add(a, b) = Core!Add(a, b)
    BY DEF Cpu!Add, Core!Add, Cpu!WordMod, Core!WordMod
  <1>3. Cpu!WordMod = Core!WordMod
    BY DEF Cpu!WordMod, Core!WordMod
  <1>4. \A x : Cpu!msb(x) <=> Core!msb(x)
    BY <1>3 DEF Cpu!msb, Core!msb
  <1>5. \A a, b, c : Cpu!aluSumS(a, b, c) = Core!aluSumS(a, b, c)
    BY <1>3 DEF Cpu!aluSumS, Core!aluSumS
  <1>6. \A a, b, c : Cpu!aluOverflowS(a, b, c) = Core!aluOverflowS(a, b, c)
    BY <1>3, <1>4, <1>5 DEF Cpu!aluOverflowS, Core!aluOverflowS, Cpu!ExclOr, Core!ExclOr
  <1>7. \A a, b, c : Cpu!aluResultS(a, b, c) = Core!aluResultS(a, b, c)
    BY <1>3, <1>4, <1>5, <1>6 DEF Cpu!aluResultS, Core!aluResultS, Cpu!ExclOr, Core!ExclOr,
      Cpu!Bool2Word, Core!Bool2Word
  <1>8. \A a, b, c : Cpu!aluS(a, b, c) = Core!aluS(a, b, c)
    BY <1>3, <1>4, <1>5, <1>6, <1>7 DEF Cpu!aluS, Core!aluS
  <1>9. \A op : Cpu!opb5(op) = Core!opb5(op)
    BY DEF Cpu!opb5, Core!opb5
  <1> QED BY <1>1, <1>8, <1>9, SameSources, SameCtl, SameIns DEF Cpu!Alu, Core!Alu, Ins

LEMMA SameBytes ==
  /\ \A w, k : Cpu!ByteAt(w, k) = ByteAt(w, k) /\ Cpu!HalfAt(w, k) = HalfAt(w, k)
  /\ \A w, k : Core!ByteAt(w, k) = ByteAt(w, k) /\ Core!HalfAt(w, k) = HalfAt(w, k)
  /\ \A x, m : Cpu!SignExtend(x, m) = Core!SignExtend(x, m)
  /\ \A a, b, c, d : Cpu!Cat(a, b, c, d) = Core!Cat(a, b, c, d)
  /\ \A w : /\ Cpu!Byte0(w) = Core!Byte0(w) /\ Cpu!Byte1(w) = Core!Byte1(w)
            /\ Cpu!Byte2(w) = Core!Byte2(w) /\ Cpu!Byte3(w) = Core!Byte3(w)
  /\ Core!Word = Word
  <1>1. \A w : /\ Cpu!Byte0(w) = Byte0(w) /\ Cpu!Byte1(w) = Byte1(w)
               /\ Cpu!Byte2(w) = Byte2(w) /\ Cpu!Byte3(w) = Byte3(w)
    BY DEF Cpu!Byte0, Cpu!Byte1, Cpu!Byte2, Cpu!Byte3, Byte0, Byte1, Byte2, Byte3
  <1>2. \A w : /\ Core!Byte0(w) = Byte0(w) /\ Core!Byte1(w) = Byte1(w)
               /\ Core!Byte2(w) = Byte2(w) /\ Core!Byte3(w) = Byte3(w)
    BY DEF Core!Byte0, Core!Byte1, Core!Byte2, Core!Byte3, Byte0, Byte1, Byte2, Byte3
  <1>3. \A w, k : Cpu!ByteAt(w, k) = ByteAt(w, k)
    BY <1>1 DEF Cpu!ByteAt, ByteAt
  <1>4. \A w, k : Core!ByteAt(w, k) = ByteAt(w, k)
    BY <1>2 DEF Core!ByteAt, ByteAt
  <1>5. /\ \A w, k : Cpu!HalfAt(w, k) = HalfAt(w, k)
        /\ \A w, k : Core!HalfAt(w, k) = HalfAt(w, k)
    BY <1>3, <1>4 DEF Cpu!HalfAt, Core!HalfAt, HalfAt, Cpu!HalfOf, Core!HalfOf, HalfOf
  <1>6. \A x, m : Cpu!SignExtend(x, m) = Core!SignExtend(x, m)
    BY DEF Cpu!SignExtend, Core!SignExtend, Cpu!WordMod, Core!WordMod
  <1>7. \A a, b, c, d : Cpu!Cat(a, b, c, d) = Core!Cat(a, b, c, d)
    BY DEF Cpu!Cat, Core!Cat
  <1>8. Core!Word = Word
    BY DEF Core!Word, Word, Core!WordMod, WordMod
  <1> QED BY <1>1, <1>2, <1>3, <1>4, <1>5, <1>6, <1>7, <1>8

LEMMA SameLanes ==
  /\ \A f3, off, w : Cpu!Load_line(f3, off, w) = Core!Load_line(f3, off, w)
  /\ \A f3, off, w, v : Cpu!Write_line(f3, off, w, v) = Core!Write_line(f3, off, w, v)
  <1>1. ASSUME NEW f3, NEW off, NEW w
        PROVE  Cpu!Load_line(f3, off, w) = Core!Load_line(f3, off, w)
    BY SameBytes, SameWords DEF Cpu!Load_line, Core!Load_line
  <1>2. ASSUME NEW f3, NEW off, NEW w, NEW v
        PROVE  Cpu!Write_line(f3, off, w, v) = Core!Write_line(f3, off, w, v)
    <2>1. Cpu!TopByte(w, v) = Core!TopByte(w, v)
      BY SameBytes DEF Cpu!TopByte, Core!TopByte
    <2> QED
      BY <2>1, SameBytes, SameWords DEF Cpu!Write_line, Core!Write_line
  <1> QED BY <1>1, <1>2

LEMMA SamePath ==
  /\ Cpu!PCNext = Core!PCNext
  /\ \A v : Cpu!Result(v) = Core!Result(v)
  <1>1. Cpu!Add(PC, 4) = Core!Add(PC, 4) /\ Cpu!Add(PC, Ins.imm) = Core!Add(PC, Ins.imm)
    BY DEF Cpu!Add, Core!Add, Cpu!WordMod, Core!WordMod
  <1>2. Cpu!BranchCondition(Ins.f3, Core!Alu) <=> Core!BranchCondition(Ins.f3, Core!Alu)
    BY DEF Cpu!BranchCondition, Core!BranchCondition, Cpu!ExclOr, Core!ExclOr
  <1>3. Cpu!PCSrc <=> Core!PCSrc
    BY <1>2, SameCtl, SameIns, SameAlu DEF Cpu!PCSrc, Core!PCSrc, Ins
  <1>4. Cpu!PCNext = Core!PCNext
    BY <1>1, <1>3, SameCtl, SameIns, SameAlu DEF Cpu!PCNext, Core!PCNext, Ins
  <1>5. \A v : Cpu!Result(v) = Core!Result(v)
    BY <1>1, SameCtl, SameIns, SameAlu DEF Cpu!Result, Core!Result, Ins
  <1> QED BY <1>4, <1>5

-----------------------------------------------------------------------------
(***************************************************************************)
(* Types.                                                                  *)
(***************************************************************************)
TypeOK ==
  /\ state \in States /\ AxiTypeOK /\ SlaveTypeOK
  /\ clk \in {0, 1} /\ reset \in BOOLEAN
  /\ imem \in [WordIndexes -> Instr] /\ \A i \in WordIndexes : Core!Legal(imem[i])
  /\ rf \in [Reg -> Word] /\ PC \in Word

LEMMA MemoryType == TypeOK => DataMemory \in [WordIndexes -> Word]
  <1>1. \A i \in Addr : Target(i) \in Addr
    BY BusAssumption DEF Target, Addr
  <1> QED BY <1>1, BoardSingleAssumption DEF TypeOK, SlaveTypeOK, DataMemory

LEMMA CoreType == TypeOK => Cpu!TypeOK
  BY MemoryType, SameWords, SameIns DEF TypeOK, Cpu!TypeOK

\* What the core's side of the port is made of.
LEMMA PortTypes ==
  ASSUME TypeOK
  PROVE  /\ Ins \in Instr /\ Core!Legal(Ins)
         /\ Ins.op \in Op /\ Ins.f3 \in 0 .. 7 /\ Ins.rd \in Reg
         /\ Ins.rs1 \in Reg /\ Ins.rs2 \in Reg /\ Ins.imm \in Word
         /\ Core!Alu.result \in Word /\ Offset \in 0 .. 3
         /\ Addressed \in WordIndexes
         /\ Core!ReadS(Ins.rs2) \in Word
         /\ Core!Ctl.MemWrite = (Ins.op = "store")
         /\ Core!Ctl.RegWrite = (Ins.op \notin {"store", "branch"})
  <1>1. Cpu!TypeOK
    BY CoreType
  <1>2. /\ Ins \in Instr /\ Core!Legal(Ins)
        /\ Ins.op \in Op /\ Ins.f3 \in 0 .. 7 /\ Ins.rd \in Reg
        /\ Ins.rs1 \in Reg /\ Ins.rs2 \in Reg /\ Ins.imm \in Word
    BY <1>1, Cpu!CurrentInstruction, SameWords, SameIns, ByteModAssumption,
       NumRegsAssumption, CpuOperators
  <1>3. Core!Alu.result \in Word
    BY <1>1, Cpu!AluDelivers, SameWords, SameAlu, ByteModAssumption,
       NumRegsAssumption, CpuOperators
  <1>4. Offset \in 0 .. 3 /\ Addressed \in WordIndexes
    BY <1>3, WordModPos DEF Offset, Addressed, ByteOffset, WordIndex, WordIndexes, Word
  <1>5. Core!ReadS(Ins.rs2) \in Word
    BY <1>2, SmallWords DEF Core!ReadS, TypeOK
  <1>6. /\ Core!Ctl.MemWrite = (Ins.op = "store")
        /\ Core!Ctl.RegWrite = (Ins.op \notin {"store", "branch"})
    BY DEF Core!Ctl, Core!maindecS, Ins
  <1> QED BY <1>2, <1>3, <1>4, <1>5, <1>6

LEMMA LinesType ==
  ASSUME NEW f3 \in 0 .. 7, NEW off \in 0 .. 3, NEW w \in Word, NEW v \in Word
  PROVE  /\ Core!Load_line(f3, off, w) \subseteq Word
         /\ Core!Write_line(f3, off, w, v) \subseteq Word
         /\ Core!Write_line(f3, off, w, v) # {}
  <1>1. /\ Core!Load_line(f3, off, w) \subseteq Word
        /\ Core!Write_line(f3, off, w, v) \subseteq Word
    BY Cpu!LoadLineType, Cpu!WriteLineType, SameWords, SameLanes, ByteModAssumption,
       NumRegsAssumption, CpuOperators
  <1>2. Core!Write_line(f3, off, w, v) # {}
    BY SameBytes DEF Core!Write_line
  <1> QED BY <1>1, <1>2

LEMMA WriteDataType == TypeOK => WriteData \in Word
  <1> SUFFICES ASSUME TypeOK PROVE WriteData \in Word
    OBVIOUS
  <1> DEFINE S == Core!Write_line(Ins.f3, Offset, data_out, Core!ReadS(Ins.rs2))
  <1>1. data_out \in Word
    BY BoardSingleAssumption DEF TypeOK, AxiTypeOK
  <1>2. S \subseteq Word /\ S # {}
    BY <1>1, PortTypes, LinesType
  <1>3. (CHOOSE w \in S : TRUE) \in S
    BY <1>2, Zenon
  <1> QED BY <1>2, <1>3, PortTypes DEF WriteData

LEMMA RequestType == TypeOK => Request \in Path!Requests
  <1> SUFFICES ASSUME TypeOK PROVE Request \in Path!Requests
    OBVIOUS
  <1>1. Addressed \in Addr /\ WriteData \in Data
    BY PortTypes, WriteDataType, BoardSingleAssumption
  <1>2. Path!Addr = Addr
    BY DEF Path!Addr, Addr
  <1>3. Core!Ctl.MemWrite \in BOOLEAN
    BY PortTypes
  <1> QED BY <1>1, <1>2, <1>3 DEF Request, Path!Requests

LEMMA SameTypes ==
  /\ Path!States = States /\ Path!AxiTypeOK = AxiTypeOK /\ Path!SlaveTypeOK = SlaveTypeOK
  /\ Path!Addr = Addr /\ \A a : Path!Target(a) = Target(a)
  <1>1. Path!Addr = Addr
    BY DEF Path!Addr, Addr
  <1>2. Path!AxiTypeOK = AxiTypeOK
    BY <1>1 DEF Path!AxiTypeOK, AxiTypeOK, Path!ExecStates, ExecStates
  <1>3. Path!SlaveTypeOK = SlaveTypeOK
    BY <1>1 DEF Path!SlaveTypeOK, SlaveTypeOK
  <1>4. Path!States = States
    BY DEF Path!States, States
  <1>5. \A a : Path!Target(a) = Target(a)
    BY DEF Path!Target, Target
  <1> QED BY <1>1, <1>2, <1>3, <1>4, <1>5

LEMMA SameTypesBoth ==
  (Path!AxiTypeOK <=> AxiTypeOK) /\ (Path!SlaveTypeOK <=> SlaveTypeOK)
  BY SameTypes

LEMMA SameTypesNext ==
  (Path!AxiTypeOK' <=> AxiTypeOK') /\ (Path!SlaveTypeOK' <=> SlaveTypeOK')
  BY SameTypesBoth, PTL

LEMMA PathType == TypeOK => Path!TypeOK
  BY RequestType, SameTypes DEF TypeOK, Path!TypeOK

\* The rising edge of the memory path, as the module writes it and as its
\* lemmas know it.
LEMMA SameRise ==
  ASSUME NEW awready \in BOOLEAN, NEW wready \in BOOLEAN,
         NEW arready \in BOOLEAN, NEW commit \in BOOLEAN,
         NEW answer \in BOOLEAN, NEW okay \in Responses,
         Board!MemoryRise(awready, wready, arready, commit, answer, okay)
  PROVE  Path!MemoryRise(awready, wready, arready, commit, answer, okay)
  <1>1. Board!init_txn_pulse = Path!init_txn_pulse
    BY DEF Board!init_txn_pulse, Path!init_txn_pulse
  <1>2. /\ clk = 0 /\ clk' = 1
        /\ Path!SlaveMay(awready, wready, arready, commit, answer)
        /\ UNCHANGED <<state, Path!startVars, reset>>
    BY DEF Board!MemoryRise, Board!SlaveMay, Path!SlaveMay, Board!Room, Path!Room,
           Board!startVars, Path!startVars
  <1>3. /\ Path!WriteAddress(awready, Request.addr)
        /\ Path!WriteChannel(wready, Request.data)
        /\ Path!WriteResponse(bvalid)
        /\ Path!ReadAddress(arready, Request.addr)
    BY <1>1 DEF Board!MemoryRise, Board!WriteAddress, Path!WriteAddress,
           Board!WriteChannel, Path!WriteChannel, Board!WriteResponse,
           Path!WriteResponse, Board!ReadAddress, Path!ReadAddress
  <1>4. \E busData \in (IF rvalid THEN {rdata} ELSE Data) :
          Path!ReadChannel(rvalid, busData)
    BY <1>1 DEF Board!MemoryRise, Board!ReadChannel, Path!ReadChannel
  <1>5. /\ Path!Errors(bvalid, ~bokay, rvalid, ~rokay)
        /\ Path!Completion(bvalid, rvalid) /\ Path!BurstActive(bvalid, rvalid)
    BY <1>1 DEF Board!MemoryRise, Board!Errors, Path!Errors, Board!Completion,
           Path!Completion, Board!BurstActive, Path!BurstActive
  <1>6. Path!Exec(Path!DRW)
    BY <1>1 DEF Board!MemoryRise, Board!Exec, Path!Exec, Board!ExecIdle, Path!ExecIdle,
           Board!ExecWrite, Path!ExecWrite, Board!ExecRead, Path!ExecRead,
           Board!DRW, Path!DRW
  <1>7. /\ Path!SlaveWrite(awready, wready, commit, okay)
        /\ Path!SlaveRead(arready, answer, okay)
    BY DEF Board!MemoryRise, Board!SlaveWrite, Path!SlaveWrite, Board!SlaveRead,
           Path!SlaveRead, Board!Channel, Path!Channel, Board!Target, Path!Target
  <1> QED BY <1>2, <1>3, <1>4, <1>5, <1>6, <1>7 DEF Path!MemoryRise

\* The core shows what its program, its pc, its registers and data_out say.
LEMMA PortKeeps ==
  ASSUME UNCHANGED <<imem, PC>>
  PROVE  /\ Ins' = Ins /\ Core!Ctl' = Core!Ctl
         /\ Request'.strobe = Request.strobe /\ Request'.write = Request.write
         /\ rf' = rf => /\ Core!Alu' = Core!Alu /\ Addressed' = Addressed
                        /\ Offset' = Offset
                        /\ data_out' = data_out => Request' = Request
  <1>1. Ins' = Ins /\ Core!Ctl' = Core!Ctl
    BY DEF Ins, Core!Ins, Core!Ctl
  <1>2. Request'.strobe = Request.strobe /\ Request'.write = Request.write
    BY <1>1 DEF Request
  <1>3. SUFFICES ASSUME rf' = rf
                 PROVE  /\ Core!Alu' = Core!Alu /\ Addressed' = Addressed
                        /\ Offset' = Offset
                        /\ data_out' = data_out => Request' = Request
    BY <1>1, <1>2
  <1>4. /\ Core!ReadS(Ins.rs1)' = Core!ReadS(Ins.rs1)
        /\ Core!ReadS(Ins.rs2)' = Core!ReadS(Ins.rs2)
    BY <1>1, <1>3 DEF Core!ReadS
  <1>5. Core!Alu' = Core!Alu
    BY <1>1, <1>4 DEF Core!Alu, Core!SrcA, Core!SrcB, Ins
  <1>6. Addressed' = Addressed /\ Offset' = Offset
    BY <1>5 DEF Addressed, Offset
  <1>7. data_out' = data_out => WriteData' = WriteData
    BY <1>1, <1>4, <1>6 DEF WriteData
  <1> QED BY <1>1, <1>5, <1>6, <1>7 DEF Request

LEMMA NegedgeIsPath ==
  ASSUME Negedge
  PROVE  Path!Negedge /\ Request' = Request /\ UNCHANGED <<imem, PC, rf, data_out>>
  <1>1. UNCHANGED <<imem, PC, rf, data_out>>
    BY DEF Negedge, coreVars, readVars
  <1>2. Request' = Request
    BY <1>1, PortKeeps
  <1>3. Path!Negedge
    BY <1>2 DEF Negedge, Path!Negedge, MemControlNegedge, Path!MemControlNegedge,
       nextstate, Path!nextstate, TXN_DONE, Path!TXN_DONE, InitTxn, Path!InitTxn,
       AXIstart, Path!AXIstart, Path!MStrobe, Path!MemWrite, sequencerVars,
       Path!sequencerVars, writeVars, Path!writeVars, readVars, Path!readVars,
       slaveVars, Path!slaveVars
  <1> QED BY <1>1, <1>2, <1>3

\* The core's own part of a rising edge.
LEMMA CoreRiseType ==
  ASSUME TypeOK, CoreRise
  PROVE  /\ imem' = imem /\ PC' \in Word /\ rf' \in [Reg -> Word]
         /\ ~reset /\ state # "Idle" => PC' = PC
  <1>1. Core!PCNext \in Word
    <2>1. Cpu!TypeOK
      BY CoreType
    <2>2. Cpu!PCNext = Cpu!NextPC(Cpu!Ins, PC, Cpu!SrcA, Cpu!OpB)
      BY <2>1, Cpu!PcDelivers, ByteModAssumption, NumRegsAssumption, CpuOperators
    <2>3. /\ Cpu!Ins \in Cpu!Instr /\ Cpu!SrcA \in Cpu!Word /\ Cpu!OpB \in Cpu!Word
      BY <2>1, Cpu!CurrentInstruction, Cpu!OperandType, ByteModAssumption,
         NumRegsAssumption, CpuOperators
    <2>4. PC \in Cpu!Word
      BY SameWords DEF TypeOK
    <2>5. Cpu!NextPC(Cpu!Ins, PC, Cpu!SrcA, Cpu!OpB) \in Cpu!Word
      BY <2>3, <2>4, Cpu!NextPCType, ByteModAssumption, NumRegsAssumption, CpuOperators
    <2> QED BY <2>2, <2>5, SamePath, SameWords
  <1>2. PC' \in Word /\ (~reset /\ state # "Idle" => PC' = PC)
    BY <1>1, SmallWords DEF CoreRise, PCEnable, Done, TypeOK
  <1>3. rf' \in [Reg -> Word]
    <2>1. PICK loaded \in Core!Load_line(Ins.f3, Offset, data_out) :
            rf' = IF Core!Ctl.RegWrite
                  THEN [rf EXCEPT ![Ins.rd] = Core!Result(loaded)] ELSE rf
      BY DEF CoreRise
    <2>2. data_out \in Word
      BY BoardSingleAssumption DEF TypeOK, AxiTypeOK
    <2>3. loaded \in Word
      BY <2>1, <2>2, PortTypes, LinesType
    <2>4. Core!Result(loaded) \in Word
      BY <2>3, CoreType, Cpu!ResultType, SameWords, SamePath, ByteModAssumption,
         NumRegsAssumption, CpuOperators
    <2> QED BY <2>1, <2>4, PortTypes DEF TypeOK
  <1> QED BY <1>2, <1>3 DEF CoreRise

LEMMA TypeInit == Init => TypeOK
  <1> SUFFICES ASSUME Init PROVE TypeOK
    OBVIOUS
  <1>1. AxiTypeOK
    BY DEF Init, AxiInit, AxiTypeOK, ExecStates
  <1>2. << >> \in Seq(Addr) /\ << >> \in Seq(Data)
    OBVIOUS
  <1>3. SlaveTypeOK
    BY <1>2 DEF Init, SlaveInit, SlaveTypeOK
  <1>4. imem \in [WordIndexes -> Instr] /\ \A i \in WordIndexes : Core!Legal(imem[i])
    BY DEF Init
  <1> QED BY <1>1, <1>3, <1>4, SmallWords DEF Init, TypeOK, States

LEMMA TypeStep == ASSUME TypeOK, [Next]_vars PROVE TypeOK'
  <1>1. CASE Posedge
    <2>1. PICK awready \in BOOLEAN, wready \in BOOLEAN, arready \in BOOLEAN,
               commit \in BOOLEAN, answer \in BOOLEAN, okay \in Responses :
            Board!MemoryRise(awready, wready, arready, commit, answer, okay)
      BY <1>1 DEF Posedge
    <2>2. Path!MemoryRise(awready, wready, arready, commit, answer, okay)
      BY <2>1, SameRise
    <2>3. Path!AxiTypeOK' /\ Path!SlaveTypeOK'
      BY <2>2, PathType, Path!MasterTypeRise, Path!SlaveTypeRise, BusAssumption,
         SlaveAssumption
    <2>4. AxiTypeOK' /\ SlaveTypeOK'
      BY <2>3, SameTypesNext
    <2>5. state' = state /\ clk' = 1 /\ reset' = reset
      BY <2>2 DEF Path!MemoryRise
    <2> QED BY <1>1, <2>4, <2>5, CoreRiseType DEF Posedge, TypeOK
  <1>2. CASE Negedge
    <2>1. state' \in States
      BY <1>2 DEF Negedge, MemControlNegedge, nextstate, States, TypeOK
    <2>2. init_txn_ff' \in BOOLEAN /\ init_txn_ff2' \in BOOLEAN
      BY <1>2 DEF Negedge, InitTxn, AXIstart, TypeOK, AxiTypeOK
    <2>3. AxiTypeOK'
      BY <1>2, <2>2 DEF Negedge, sequencerVars, writeVars, readVars, TypeOK, AxiTypeOK
    <2>4. SlaveTypeOK'
      BY <1>2 DEF Negedge, slaveVars, TypeOK, SlaveTypeOK
    <2> QED BY <1>2, <2>1, <2>3, <2>4 DEF Negedge, coreVars, TypeOK
  <1>3. CASE Press \/ Release \/ UNCHANGED vars
    <2>1. UNCHANGED <<state, masterVars, slaveVars, imem, rf, clk>>
      BY <1>3 DEF Press, Release, coreVars, vars
    <2>2. PC' \in Word /\ reset' \in BOOLEAN
      BY <1>3, SmallWords DEF Press, Release, coreVars, vars, TypeOK
    <2>3. AxiTypeOK' /\ SlaveTypeOK'
      BY <2>1 DEF masterVars, startVars, sequencerVars, writeVars, readVars, slaveVars,
                  TypeOK, AxiTypeOK, SlaveTypeOK
    <2> QED BY <2>1, <2>2, <2>3 DEF TypeOK
  <1> QED BY <1>1, <1>2, <1>3 DEF Next

\* The registers of the core, the controller, the converter and the slave keep
\* their types, whatever the program does and whenever it is reset.
THEOREM TypeCorrect == Spec => []TypeOK
  BY TypeInit, TypeStep, PTL DEF Spec

-----------------------------------------------------------------------------
(***************************************************************************)
(* One transfer per memory instruction.  The address and the word that the *)
(* pulse has captured are those of some moment: the request of a program   *)
(* that replaces its base register drifts while the core waits.            *)
(***************************************************************************)
TransferInv == \E a \in Addr, w \in Word : Path!TransferInv(a, w)

LEMMA RequestMember == TypeOK => Request.addr \in Addr /\ Request.data \in Word
  BY PortTypes, WriteDataType, BoardSingleAssumption DEF Request

LEMMA InvInit == Init => TransferInv
  <1> SUFFICES ASSUME Init PROVE TransferInv
    OBVIOUS
  <1>1. state = "Idle" /\ Path!Quiet /\ ~init_txn_ff /\ ~init_txn_ff2
    BY DEF Init, AxiInit, SlaveInit, Path!Quiet
  <1>2. Request.addr \in Addr /\ Request.data \in Word
    BY TypeInit, RequestMember
  <1>3. Path!TransferInv(Request.addr, Request.data)
    BY <1>1, Path!IdleRests, BusAssumption, SlaveAssumption
  <1> QED BY <1>2, <1>3 DEF TransferInv

\* The core waits while the controller is at work.
LEMMA CoreWaits ==
  ASSUME TypeOK, NEW a, NEW w, Path!TransferInv(a, w), CoreRise, state # "Idle"
  PROVE  /\ PC' = PC /\ imem' = imem
         /\ Path!MStrobe' = Path!MStrobe /\ Path!MemWrite' = Path!MemWrite
  <1>1. ~reset
    BY DEF Path!TransferInv, Path!ControlInv
  <1>2. PC' = PC /\ imem' = imem
    BY <1>1, CoreRiseType
  <1> QED BY <1>2, PortKeeps DEF Path!MStrobe, Path!MemWrite

LEMMA TransferStays ==
  ASSUME NEW a, NEW w, Path!TransferInv(a, w), UNCHANGED vars
  PROVE  Path!TransferInv(a, w)'
  <1>1. UNCHANGED <<state, masterVars, slaveVars, clk, reset, imem, PC, rf>>
    BY DEF vars, coreVars
  <1>2. Path!MStrobe' = Path!MStrobe /\ Path!MemWrite' = Path!MemWrite
    BY <1>1, PortKeeps DEF Path!MStrobe, Path!MemWrite
  <1> QED
    BY <1>1, <1>2
       DEF masterVars, startVars, sequencerVars, writeVars, readVars, slaveVars,
           Path!TransferInv, Path!ControlInv, Path!Quiet, Path!WritingOf, Path!ReadingOf,
           Path!Capturing, Path!init_txn_pulse, Path!WriteTransfer, Path!ReadTransfer,
           Path!NoWrite, Path!NoRead, Path!OnItsWay, Path!WriteNew, Path!WriteIssued,
           Path!WriteOnWay, Path!WriteAnswered, Path!WriteOver, Path!ReadNew,
           Path!ReadIssued, Path!ReadOnWay, Path!ReadAnswered, Path!ReadOver

LEMMA InvStep == ASSUME TypeOK, TransferInv, [Next]_vars PROVE TransferInv'
  <1>1. PICK a \in Addr, w \in Word : Path!TransferInv(a, w)
    BY DEF TransferInv
  <1>2. CASE Posedge
    <2>1. PICK awready \in BOOLEAN, wready \in BOOLEAN, arready \in BOOLEAN,
               commit \in BOOLEAN, answer \in BOOLEAN, okay \in Responses :
            Board!MemoryRise(awready, wready, arready, commit, answer, okay)
      BY <1>2 DEF Posedge
    <2>2. Path!MemoryRise(awready, wready, arready, commit, answer, okay)
      BY <2>1, SameRise
    <2>3. state # "Idle" => /\ Path!MStrobe' = Path!MStrobe
                            /\ Path!MemWrite' = Path!MemWrite
      BY <1>1, <1>2, CoreWaits DEF Posedge
    <2>4. PICK b \in Addr, v \in Word :
            /\ Path!TransferInv(b, v)
            /\ Path!Quiet /\ Path!init_txn_pulse => b = Request.addr /\ v = Request.data
      <3>1. CASE Path!Quiet
        <4>1. Path!TransferInv(Request.addr, Request.data)
          BY <1>1, <3>1 DEF Path!TransferInv
        <4> QED BY <4>1, RequestMember
      <3>2. CASE ~Path!Quiet
        BY <1>1, <3>2
      <3> QED BY <3>1, <3>2
    <2>5. Path!TransferInv(b, v)'
      BY <2>2, <2>3, <2>4, PathType, Path!TransferRises, BusAssumption, SlaveAssumption
    <2> QED BY <2>5 DEF TransferInv
  <1>3. CASE Negedge
    <2>1. Path!TransferInv(a, w)'
      BY <1>1, <1>3, NegedgeIsPath, PathType, Path!TransferFalls, BusAssumption,
         SlaveAssumption
    <2> QED BY <2>1 DEF TransferInv
  <1>4. CASE Press \/ Release
    <2>1. state = "Idle" /\ Path!Quiet /\ ~init_txn_ff /\ ~init_txn_ff2
      <3>1. state = "Idle"
        BY <1>1, <1>4 DEF Press, Release, Path!TransferInv, Path!ControlInv
      <3> QED BY <1>1, <3>1, Path!IdleRests, BusAssumption, SlaveAssumption
    <2>2. UNCHANGED <<state, masterVars, slaveVars>>
      BY <1>4 DEF Press, Release
    <2>3. (state = "Idle" /\ Path!Quiet /\ ~init_txn_ff /\ ~init_txn_ff2)'
      BY <2>1, <2>2 DEF Path!Quiet, masterVars, startVars, sequencerVars, writeVars,
                        readVars, slaveVars
    <2>4. Path!TransferInv(a, w)'
      BY <2>3 DEF Path!TransferInv, Path!ControlInv
    <2> QED BY <2>4 DEF TransferInv
  <1>5. CASE UNCHANGED vars
    <2>1. Path!TransferInv(a, w)'
      BY <1>1, <1>5, TransferStays
    <2> QED BY <2>1 DEF TransferInv
  <1> QED BY <1>2, <1>3, <1>4, <1>5 DEF Next

LEMMA Invariant == Spec => [](TypeOK /\ TransferInv)
  <1>1. Init => TypeOK /\ TransferInv
    BY TypeInit, InvInit
  <1>2. TypeOK /\ TransferInv /\ [Next]_vars => TypeOK' /\ TransferInv'
    BY TypeStep, InvStep
  <1> QED BY <1>1, <1>2, PTL DEF Spec

\* For every program, aligned or not, with any base register, any byte width,
\* bus and slave: the pc leaves no transaction behind.
THEOREM NothingIsLeftBehind == Spec => []NothingLeftBehind
  <1>1. TypeOK /\ TransferInv => NothingLeftBehind
    <2> SUFFICES ASSUME TransferInv, Begins PROVE NothingLeftBehind
      BY DEF NothingLeftBehind
    <2>1. PICK a \in Addr, w \in Word : Path!TransferInv(a, w)
      BY DEF TransferInv
    <2>2. Path!Quiet /\ ~init_txn_ff /\ ~init_txn_ff2
      BY <2>1, Path!IdleRests, BusAssumption, SlaveAssumption DEF Begins
    <2>3. Board!Quiet
      BY <2>2 DEF Board!Quiet, Path!Quiet
    <2> QED BY <2>2, <2>3 DEF NothingLeftBehind
  <1> QED BY <1>1, Invariant, PTL

-----------------------------------------------------------------------------
(***************************************************************************)
(* A safe program runs as RV32I.  What its instructions mean is the same   *)
(* in every instance.                                                      *)
(***************************************************************************)
LEMMA SameMeanings ==
  /\ \A f3, k, w : Cpu!LoadMeaning(f3, k, w) = LoadMeaning(f3, k, w)
  /\ \A f3, k, w, v : Cpu!StoreMeaning(f3, k, w, v) = StoreMeaning(f3, k, w, v)
  <1>1. \A w, k : Cpu!ByteAt(w, k) = ByteAt(w, k) /\ Cpu!HalfAt(w, k) = HalfAt(w, k)
    BY SameBytes
  <1>2. \A x, m : Cpu!SignExtend(x, m) = SignExtend(x, m)
    BY SameWords DEF Cpu!SignExtend, SignExtend
  <1>3. \A a, b, c, d : Cpu!Cat(a, b, c, d) = Cat(a, b, c, d)
    BY DEF Cpu!Cat, Cat
  <1>4. \A f3, k, w : Cpu!LoadMeaning(f3, k, w) = LoadMeaning(f3, k, w)
    BY <1>1, <1>2 DEF Cpu!LoadMeaning, LoadMeaning
  <1>5. ASSUME NEW f3, NEW k, NEW w, NEW v
        PROVE  Cpu!StoreMeaning(f3, k, w, v) = StoreMeaning(f3, k, w, v)
    BY <1>1, <1>3 DEF Cpu!StoreMeaning, StoreMeaning
  <1> QED BY <1>4, <1>5

LEMMA SameInstruction ==
  ASSUME NEW ins, NEW p, NEW a, NEW b
  PROVE  /\ Cpu!AddressOf(ins, a) = AddressOf(ins, a)
         /\ Cpu!NextPC(ins, p, a, b) = NextPC(ins, p, a, b)
         /\ Cpu!WritesRd(ins) <=> WritesRd(ins)
         /\ \A w : Cpu!ResultOf(ins, p, a, b, w) = ResultOf(ins, p, a, b, w)
  <1>1. Cpu!AddressOf(ins, a) = AddressOf(ins, a)
    BY SameWords DEF Cpu!AddressOf, AddressOf
  <1>2. Cpu!Taken(ins.f3, a, b) = Taken(ins.f3, a, b)
    BY SameWords DEF Cpu!Taken, Taken
  <1>3. Cpu!NextPC(ins, p, a, b) = NextPC(ins, p, a, b)
    BY <1>2, SameWords DEF Cpu!NextPC, NextPC
  <1>4. Cpu!WritesRd(ins) <=> WritesRd(ins)
    BY DEF Cpu!WritesRd, WritesRd
  <1>5. \A x, y : Cpu!AluMeaning(ins, x, y) = AluMeaning(ins, x, y)
    BY SameWords DEF Cpu!AluMeaning, AluMeaning, Cpu!Bool2Word, Bool2Word
  <1>6. \A w : Cpu!ResultOf(ins, p, a, b, w) = ResultOf(ins, p, a, b, w)
    BY <1>1, <1>5, SameWords, SameMeanings DEF Cpu!ResultOf, ResultOf
  <1> QED BY <1>1, <1>3, <1>4, <1>6

LEMMA ProgramWords ==
  /\ ISA!Word = Word /\ ISA!WordIndexes = WordIndexes /\ ISA!Reg = Reg
  /\ ISA!Instr = Instr
  /\ \A a, b : ISA!Add(a, b) = Add(a, b) /\ ISA!Sub(a, b) = Sub(a, b)
  /\ \A a : /\ ISA!Signed(a) = Signed(a) /\ ISA!WordIndex(a) = WordIndex(a)
            /\ ISA!ByteOffset(a) = ByteOffset(a)
  <1>1. ISA!WordMod = WordMod
    BY DEF ISA!WordMod, WordMod
  <1>2. ISA!Word = Word /\ ISA!WordIndexes = WordIndexes
    BY <1>1 DEF ISA!Word, Word, ISA!WordIndexes, WordIndexes
  <1>3. ISA!Reg = Reg /\ ISA!Instr = Instr
    BY <1>2 DEF ISA!Reg, Reg, ISA!Op, Op, ISA!Instr, Instr
  <1>4. \A a, b : ISA!Add(a, b) = Add(a, b) /\ ISA!Sub(a, b) = Sub(a, b)
    BY <1>1 DEF ISA!Add, Add, ISA!Sub, Sub
  <1>5. \A a : /\ ISA!Signed(a) = Signed(a) /\ ISA!WordIndex(a) = WordIndex(a)
              /\ ISA!ByteOffset(a) = ByteOffset(a)
    BY <1>1 DEF ISA!Signed, Signed, ISA!WordIndex, WordIndex, ISA!ByteOffset,
       ByteOffset
  <1> QED
    BY <1>2, <1>3, <1>4, <1>5

LEMMA ProgramBytes ==
  /\ \A f3, k, w : ISA!LoadMeaning(f3, k, w) = LoadMeaning(f3, k, w)
  /\ \A f3, k, w, v : ISA!StoreMeaning(f3, k, w, v) = StoreMeaning(f3, k, w, v)
  <1>1. \A w, k : ISA!ByteAt(w, k) = ByteAt(w, k)
    BY DEF ISA!ByteAt, ByteAt, ISA!Byte0, Byte0, ISA!Byte1, Byte1, ISA!Byte2,
       Byte2, ISA!Byte3, Byte3
  <1>2. \A w, k : ISA!HalfAt(w, k) = HalfAt(w, k)
    BY <1>1 DEF ISA!HalfAt, HalfAt, ISA!HalfOf, HalfOf
  <1>3. \A x, m : ISA!SignExtend(x, m) = SignExtend(x, m)
    BY DEF ISA!SignExtend, SignExtend, ISA!WordMod, WordMod
  <1>4. \A a, b, c, d : ISA!Cat(a, b, c, d) = Cat(a, b, c, d)
    BY DEF ISA!Cat, Cat
  <1>5. \A f3, k, w : ISA!LoadMeaning(f3, k, w) = LoadMeaning(f3, k, w)
    BY <1>1, <1>2, <1>3 DEF ISA!LoadMeaning, LoadMeaning
  <1>6. ASSUME NEW f3, NEW k, NEW w, NEW v
        PROVE  ISA!StoreMeaning(f3, k, w, v) = StoreMeaning(f3, k, w, v)
    BY <1>1, <1>4 DEF ISA!StoreMeaning, StoreMeaning
  <1> QED
    BY <1>5, <1>6

LEMMA ProgramInstruction ==
  ASSUME NEW ins, NEW p, NEW a, NEW b
  PROVE  /\ ISA!AddressOf(ins, a) = AddressOf(ins, a)
         /\ ISA!NextPC(ins, p, a, b) = NextPC(ins, p, a, b)
         /\ ISA!Aligned(ins, p, a, b) <=> Aligned(ins, p, a, b)
         /\ ISA!WritesRd(ins) <=> WritesRd(ins)
         /\ \A w : ISA!ResultOf(ins, p, a, b, w) = ResultOf(ins, p, a, b, w)
  <1>1. ISA!AddressOf(ins, a) = AddressOf(ins, a)
    BY ProgramWords DEF ISA!AddressOf, AddressOf
  <1>2. ISA!Taken(ins.f3, a, b) = Taken(ins.f3, a, b)
    BY ProgramWords DEF ISA!Taken, Taken
  <1>3. ISA!NextPC(ins, p, a, b) = NextPC(ins, p, a, b)
    BY <1>2, ProgramWords DEF ISA!NextPC, NextPC
  <1>4. ISA!Aligned(ins, p, a, b) <=> Aligned(ins, p, a, b)
    BY <1>1, <1>3, ProgramWords DEF ISA!Aligned, Aligned
  <1>5. ISA!WritesRd(ins) <=> WritesRd(ins)
    BY DEF ISA!WritesRd, WritesRd
  <1>6. \A x, y : ISA!AluMeaning(ins, x, y) = AluMeaning(ins, x, y)
    BY ProgramWords DEF ISA!AluMeaning, AluMeaning, ISA!Bool2Word, Bool2Word
  <1>7. \A w : ISA!ResultOf(ins, p, a, b, w) = ResultOf(ins, p, a, b, w)
    BY <1>1, <1>6, ProgramWords, ProgramBytes DEF ISA!ResultOf, ResultOf
  <1> QED
    BY <1>1, <1>3, <1>4, <1>5, <1>7

\* What an instruction does, in the core's own terms.
RegA == Core!ReadS(Ins.rs1)
RegB == Core!ReadS(Ins.rs2)
StoreWord == StoreMeaning(Ins.f3, Offset, DataMemory[Addressed], RegB)

LEMMA Delivers ==
  ASSUME TypeOK
  PROVE  /\ RegA \in Word /\ RegB \in Word
         /\ Core!PCNext = NextPC(Ins, PC, RegA, RegB)
         /\ Ins.op \in {"load", "store"} => /\ Core!Alu.result = AddressOf(Ins, RegA)
                                            /\ Core!PCNext = Add(PC, 4)
         /\ Ins.op # "load" /\ WritesRd(Ins) =>
              \A v, w : Core!Result(v) = ResultOf(Ins, PC, RegA, RegB, w)
         /\ Ins.op = "load" => \A v : Core!Result(v) = v
  <1>1. Cpu!TypeOK
    BY CoreType
  <1>2. Cpu!SrcA = RegA /\ Cpu!OpB = RegB
    BY SameSources, SameCtl, SameIns DEF Core!SrcA, RegA, RegB, Cpu!OpB, Ins
  <1>3. RegA \in Word /\ RegB \in Word
    BY <1>1, <1>2, Cpu!OperandType, SameWords, ByteModAssumption, NumRegsAssumption,
       CpuOperators
  <1>4. Core!PCNext = NextPC(Ins, PC, RegA, RegB)
    <2>1. Cpu!PCNext = Cpu!NextPC(Cpu!Ins, PC, Cpu!SrcA, Cpu!OpB)
      BY <1>1, Cpu!PcDelivers, ByteModAssumption, NumRegsAssumption, CpuOperators
    <2> QED BY <1>2, <2>1, SamePath, SameIns, SameInstruction
  <1>5. ASSUME Ins.op \in {"load", "store"}
        PROVE  Core!Alu.result = AddressOf(Ins, RegA) /\ Core!PCNext = Add(PC, 4)
    <2>1. Cpu!Alu.result = Cpu!Addr
      BY <1>1, <1>5, SameIns, Cpu!AluDelivers, ByteModAssumption, NumRegsAssumption,
         CpuOperators
    <2>2. Core!Alu.result = AddressOf(Ins, RegA)
      BY <1>2, <2>1, SameAlu, SameIns, SameInstruction DEF Cpu!Addr
    <2>3. NextPC(Ins, PC, RegA, RegB) = Add(PC, 4)
      BY <1>5 DEF NextPC
    <2> QED BY <1>4, <2>2, <2>3
  <1>6. Core!Ctl.ResultSrc = CASE Ins.op = "load" -> 1
                               [] Ins.op \in {"jal", "jalr"} -> 2
                               [] Ins.op = "auipc" -> 3
                               [] OTHER -> 0
    BY DEF Core!Ctl, Core!maindecS, Ins
  <1>7. ASSUME Ins.op # "load", WritesRd(Ins), NEW v, NEW w
        PROVE  Core!Result(v) = ResultOf(Ins, PC, RegA, RegB, w)
    <2> DEFINE d == DataMemory[Cpu!WordIndex(Cpu!Addr)]
    <2>1. Cpu!Result(v) = Cpu!ResultOf(Cpu!Ins, PC, Cpu!SrcA, Cpu!OpB, d)
      BY <1>1, <1>7, SameIns, SameInstruction, Cpu!ResultDelivers, ByteModAssumption,
         NumRegsAssumption, CpuOperators
    <2> HIDE DEF d
    <2>2. Core!Result(v) = ResultOf(Ins, PC, RegA, RegB, d)
      BY <1>2, <2>1, SamePath, SameIns, SameInstruction
    <2>3. ResultOf(Ins, PC, RegA, RegB, d) = ResultOf(Ins, PC, RegA, RegB, w)
      BY <1>7 DEF ResultOf
    <2> QED BY <2>2, <2>3
  <1>8. ASSUME Ins.op = "load", NEW v PROVE Core!Result(v) = v
    BY <1>6, <1>8 DEF Core!Result
  <1> QED BY <1>3, <1>4, <1>5, <1>7, <1>8

-----------------------------------------------------------------------------
(***************************************************************************)
(* What holds while a safe program waits for its memory.                   *)
(***************************************************************************)
IsLoad  == Ins.op = "load"
IsStore == Ins.op = "store"

\* The instruction is one a safe program may contain, and stays it while its
\* register is rewritten.
Safe ==
  ~reset => /\ Aligned(Ins, PC, RegA, RegB)
            /\ IsLoad => Ins.rs1 = 0 \/ Ins.rd # Ins.rs1
            /\ ~Core!TopByteStore

\* Until the bus takes a byte or halfword store, it is merged into its own word.
MergesOwnWord ==
  IsStore /\ ~reset /\ Path!Quiet /\ ~Path!Performed /\ Ins.f3 # 2
    => data_out = DataMemory[Addressed]

\* The transfer under way is that of the instruction.
OwnTransfer ==
  \A a, w : a = Addressed /\ w = StoreWord /\ ~Path!Performed => Path!TransferInv(a, w)

\* What a load has fetched is the word at its address.
OwnDatum == IsLoad /\ Path!Performed => Path!Datum = DataMemory[Addressed]

ProgramInv == Safe /\ MergesOwnWord /\ OwnTransfer /\ OwnDatum

\* Only a store's word matters to its transfer.
LEMMA OnlyWordOfStores ==
  \A a, w, v : ~IsStore /\ TypeOK /\ Path!TransferInv(a, w) => Path!TransferInv(a, v)
  <1> SUFFICES ASSUME NEW a, NEW w, NEW v, ~IsStore, TypeOK, Path!TransferInv(a, w)
               PROVE  Path!TransferInv(a, v)
    OBVIOUS
  <1>1. ~Path!MemWrite
    BY PortTypes DEF Path!MemWrite, Request, IsStore
  <1> QED BY <1>1 DEF Path!TransferInv, Path!ControlInv, Path!WritingOf

LEMMA OnlyWordOfStoresNext ==
  (\A a, w, v : ~IsStore /\ TypeOK /\ Path!TransferInv(a, w) => Path!TransferInv(a, v))'
  BY OnlyWordOfStores, PTL

\* The word the core offers is the one RV32I stores.
LEMMA SendsStoreWord ==
  ASSUME TypeOK, Safe, ~reset, IsStore,
         Ins.f3 # 2 => data_out = DataMemory[Addressed]
  PROVE  WriteData = StoreWord
  <1>1. Core!Alu.result = AddressOf(Ins, RegA)
    BY Delivers DEF IsStore
  <1>2. Ins.f3 \in {0, 1, 2}
    BY PortTypes DEF Core!Legal, IsStore
  <1>3. Ins.f3 = 1 => Offset \in {0, 2}
    BY <1>1 DEF Safe, Aligned, IsStore, Offset
  <1>4. ~(Ins.f3 = 0 /\ Offset = 3)
    BY DEF Safe, Core!TopByteStore, IsStore, Ins, Offset, Core!ByteOffset, ByteOffset
  <1>5. data_out \in Word /\ RegB \in Word /\ Offset \in 0 .. 3 /\ Ins.f3 \in 0 .. 7
    BY BoardSingleAssumption, PortTypes DEF TypeOK, AxiTypeOK, RegB
  <1>6. Core!Write_line(Ins.f3, Offset, data_out, RegB)
          = {StoreMeaning(Ins.f3, Offset, data_out, RegB)}
    <2>1. Cpu!Write_line(Ins.f3, Offset, data_out, RegB)
            = {Cpu!StoreMeaning(Ins.f3, Offset, data_out, RegB)}
      BY <1>3, <1>4, <1>5, SameWords, Cpu!WriteLineMeans, ByteModAssumption,
         NumRegsAssumption, CpuOperators
    <2> QED BY <2>1, SameLanes, SameMeanings
  <1>7. WriteData = StoreMeaning(Ins.f3, Offset, data_out, RegB)
    BY <1>6, Zenon DEF WriteData, IsStore, RegB
  <1>8. Ins.f3 = 2 => StoreMeaning(Ins.f3, Offset, data_out, RegB) = StoreWord
    BY DEF StoreMeaning, StoreWord
  <1> QED BY <1>7, <1>8 DEF StoreWord

\* What a load delivers from its word.
LEMMA Loads ==
  ASSUME TypeOK, Safe, ~reset, IsLoad, NEW w \in Word
  PROVE  Core!Load_line(Ins.f3, Offset, w) = {LoadMeaning(Ins.f3, Offset, w)}
  <1>1. Core!Alu.result = AddressOf(Ins, RegA)
    BY Delivers DEF IsLoad
  <1>2. Ins.f3 \in {1, 5} => Offset \in {0, 2}
    BY <1>1 DEF Safe, Aligned, IsLoad, Offset
  <1>3. Cpu!Load_line(Ins.f3, Offset, w) = {Cpu!LoadMeaning(Ins.f3, Offset, w)}
    BY <1>2, PortTypes, SameWords, Cpu!LoadLineMeans, ByteModAssumption,
       NumRegsAssumption, CpuOperators
  <1> QED BY <1>3, SameLanes, SameMeanings

\* The controller at work means a memory instruction.
LEMMA AtWork ==
  ASSUME TypeOK, TransferInv, state # "Idle"
  PROVE  ~reset /\ (IsLoad \/ IsStore)
         /\ (state \in {"WriteStart", "WriteMem", "WriteData"} <=> IsStore)
  <1>1. PICK a \in Addr, w \in Word : Path!TransferInv(a, w)
    BY DEF TransferInv
  <1>2. ~reset /\ Path!MStrobe
    BY <1>1 DEF Path!TransferInv, Path!ControlInv
  <1>3. /\ state \in {"WriteStart", "WriteMem", "WriteData"} => Path!MemWrite
        /\ state \in {"ReadStart", "ReadMem", "ReadData"} => ~Path!MemWrite
    BY <1>1 DEF Path!TransferInv, Path!ControlInv
  <1>4. state \in States
    BY DEF TypeOK
  <1> QED BY <1>2, <1>3, <1>4, PortTypes
          DEF Path!MStrobe, Path!MemWrite, Request, IsLoad, IsStore, States

\* The view of a memory of which one word changes.
LEMMA MemoryChanges ==
  ASSUME TypeOK, NEW a \in WordIndexes, NEW w,
         mem' = [mem EXCEPT ![Target(a)] = w]
  PROVE  DataMemory' = [DataMemory EXCEPT ![a] = w]
  <1>1. a \in Addr /\ WordIndexes = Addr /\ mem \in [Addr -> Data]
    BY BoardSingleAssumption DEF TypeOK, SlaveTypeOK
  <1>2. \A i \in Addr : Target(i) \in Addr
    BY BusAssumption DEF Target, Addr
  <1>3. \A i, j \in Addr : Target(i) = Target(j) => i = j
    BY Path!TargetInjective, SameTypes, BusAssumption, SlaveAssumption
  <1>4. ASSUME NEW i \in WordIndexes
        PROVE  mem'[Target(i)] = IF i = a THEN w ELSE mem[Target(i)]
    BY <1>1, <1>2, <1>3, <1>4
  <1>5. DataMemory' = [i \in WordIndexes |-> mem'[Target(i)]]
    BY DEF DataMemory, Target
  <1> QED BY <1>4, <1>5 DEF DataMemory

\* While it waits, an instruction keeps its operands, its address and its word
\* although its register is rewritten at every edge.
LEMMA OperandsKeep ==
  ASSUME TypeOK, Safe, ~reset, IsLoad \/ IsStore, PC' = PC, imem' = imem,
         IsStore => rf' = rf,
         \A r \in Reg : r # Ins.rd => rf'[r] = rf[r]
  PROVE  /\ Ins' = Ins /\ RegA' = RegA /\ (IsStore => RegB' = RegB)
         /\ Addressed' = Addressed /\ Offset' = Offset /\ Core!Alu' = Core!Alu
         /\ (IsLoad' <=> IsLoad) /\ (IsStore' <=> IsStore)
  <1>1. Ins' = Ins /\ Core!Ctl' = Core!Ctl
    BY PortKeeps
  <1>2. (IsLoad' <=> IsLoad) /\ (IsStore' <=> IsStore)
    BY <1>1 DEF IsLoad, IsStore
  <1>3. RegA' = RegA
    <2>1. Ins.rs1 \in Reg
      BY PortTypes
    <2>2. IsLoad => Ins.rs1 = 0 \/ Ins.rs1 # Ins.rd
      BY DEF Safe
    <2>3. Ins.rs1 # 0 => rf'[Ins.rs1] = rf[Ins.rs1]
      BY <2>1, <2>2
    <2> QED BY <1>1, <2>3 DEF RegA, Core!ReadS
  <1>4. IsStore => RegB' = RegB
    BY <1>1 DEF RegB, Core!ReadS
  <1>5. Core!SrcA' = Core!SrcA /\ Core!SrcB' = Core!SrcB
    <2>1. Core!Ctl.ALUSrc = TRUE
      BY DEF IsLoad, IsStore, Core!Ctl, Core!maindecS, Ins
    <2> QED BY <1>1, <1>3, <2>1 DEF RegA, Core!SrcA, Core!SrcB, Ins
  <1>6. Core!Alu' = Core!Alu
    BY <1>1, <1>5 DEF Core!Alu, Ins
  <1>7. Addressed' = Addressed /\ Offset' = Offset
    BY <1>6 DEF Addressed, Offset
  <1> QED BY <1>1, <1>2, <1>3, <1>4, <1>6, <1>7

\* A rising edge while the controller is at work.
LEMMA WaitingEdge ==
  ASSUME Responses = {TRUE}, TypeOK, TypeOK', TransferInv, ProgramInv, Posedge,
         state # "Idle"
  PROVE  /\ ~reset /\ ~reset' /\ state' = state /\ clk' = 1
         /\ PC' = PC /\ imem' = imem
         /\ IsStore => rf' = rf
         /\ \A r \in Reg : r # Ins.rd => rf'[r] = rf[r]
         /\ Path!Performed => Path!Performed' /\ mem' = mem
                              /\ (IsLoad => Path!Datum' = Path!Datum)
         /\ ~Path!Performed /\ ~Path!Performed' =>
              /\ mem' = mem
              /\ \A a, w : a = Addressed /\ w = StoreWord => Path!TransferInv(a, w)'
         /\ ~Path!Performed /\ Path!Performed' /\ IsStore =>
              DataMemory' = [DataMemory EXCEPT ![Addressed] = StoreWord]
         /\ ~Path!Performed /\ Path!Performed' /\ IsLoad =>
              mem' = mem /\ Path!Datum' = DataMemory[Addressed]
         /\ Path!Quiet' /\ ~Path!Performed' => Path!Quiet /\ data_out' = data_out
  <1>1. PICK awready \in BOOLEAN, wready \in BOOLEAN, arready \in BOOLEAN,
             commit \in BOOLEAN, answer \in BOOLEAN, okay \in Responses :
          Board!MemoryRise(awready, wready, arready, commit, answer, okay)
    BY DEF Posedge
  <1>2. Path!MemoryRise(awready, wready, arready, commit, answer, okay)
    BY <1>1, SameRise
  <1>3. /\ ~reset /\ (IsLoad \/ IsStore)
        /\ (state \in {"WriteStart", "WriteMem", "WriteData"} <=> IsStore)
    BY AtWork
  <1>4. PICK c \in Addr, v \in Word : Path!TransferInv(c, v)
    BY DEF TransferInv
  <1>5. /\ PC' = PC /\ imem' = imem
        /\ Path!MStrobe' = Path!MStrobe /\ Path!MemWrite' = Path!MemWrite
    BY <1>4, CoreWaits DEF Posedge
  <1>6. state' = state /\ clk' = 1 /\ reset' = reset
    BY <1>2 DEF Path!MemoryRise
  <1>7. IsLoad => ~IsStore
    BY DEF IsLoad, IsStore
  <1>8. Path!MemWrite <=> IsStore
    BY PortTypes DEF Path!MemWrite, Request, IsStore
  <1>9. IsStore => rf' = rf
    BY PortTypes DEF Posedge, CoreRise, IsStore
  <1>10. \A r \in Reg : r # Ins.rd => rf'[r] = rf[r]
    BY DEF Posedge, CoreRise, TypeOK
  <1>11. okay
    BY <1>1
  \* The transfer the edge finds, and the word it is about.
  <1>12. PICK b, w : /\ Path!TransferInv(b, w)
                     /\ ~Path!Performed => b = Addressed
                     /\ ~Path!Performed /\ IsStore => w = StoreWord
                     /\ ~Path!Performed /\ IsLoad => w = WriteData
    <2>1. CASE Path!Performed
      BY <1>4, <2>1
    <2>2. CASE ~Path!Performed /\ IsStore
      <3>1. \A a, u : a = Addressed /\ u = StoreWord => Path!TransferInv(a, u)
        BY <2>2 DEF ProgramInv, OwnTransfer
      <3> QED BY <1>7, <2>2, <3>1
    <2>3. CASE ~Path!Performed /\ IsLoad
      <3>1. \A a, u : a = Addressed /\ u = StoreWord => Path!TransferInv(a, u)
        BY <2>3 DEF ProgramInv, OwnTransfer
      <3>2. \A a, u : a = Addressed /\ u = WriteData => Path!TransferInv(a, u)
        BY <1>7, <2>3, <3>1, OnlyWordOfStores
      <3> QED BY <1>7, <2>3, <3>2
    <2> QED BY <1>3, <2>1, <2>2, <2>3
  <1>13. /\ Path!Performed => Path!Performed' /\ mem' = mem
                             /\ (~Path!MemWrite => Path!Datum' = Path!Datum)
         /\ ~Path!Performed /\ ~Path!Performed' => mem' = mem
         /\ ~Path!Performed /\ Path!Performed' /\ okay =>
              IF Path!MemWrite THEN mem' = [mem EXCEPT ![Path!Target(b)] = w]
              ELSE mem' = mem /\ Path!Datum' = mem[Path!Target(b)]
         /\ Path!Quiet /\ Path!Performed' => Path!Performed
         /\ Path!Quiet' /\ ~Path!Performed' => Path!Quiet /\ data_out' = data_out
    BY <1>2, <1>5, <1>12, PathType, Path!TransferActs, BusAssumption, SlaveAssumption
  <1>14. Path!Target(b) = Target(b)
    BY SameTypes
  <1>15. ASSUME ~Path!Performed, ~Path!Performed'
         PROVE  \A a, u : a = Addressed /\ u = StoreWord => Path!TransferInv(a, u)'
    <2>1. Path!Quiet /\ Path!init_txn_pulse => b = Request.addr /\ w = Request.data
      <3>1. SUFFICES ASSUME Path!Quiet PROVE b = Request.addr /\ w = Request.data
        OBVIOUS
      <3>2. IsStore => WriteData = StoreWord
        BY <1>3, <1>15, <3>1, SendsStoreWord DEF ProgramInv, MergesOwnWord
      <3> QED BY <1>3, <1>12, <1>15, <3>2 DEF Request
    <2>2. Path!TransferInv(b, w)'
      BY <1>2, <1>5, <1>12, <2>1, PathType, Path!TransferRises, BusAssumption,
         SlaveAssumption
    <2>3. CASE IsStore
      BY <1>12, <1>15, <2>2, <2>3
    <2>4. CASE IsLoad
      <3>1. ~IsStore'
        BY <1>5, <1>7, <2>4, PortKeeps DEF IsStore
      <3>2. \A u : Path!TransferInv(b, u)'
        BY <2>2, <3>1, OnlyWordOfStoresNext
      <3> QED BY <1>12, <1>15, <3>2
    <2> QED BY <1>3, <2>3, <2>4
  <1>16. ASSUME ~Path!Performed, Path!Performed', IsStore
         PROVE  DataMemory' = [DataMemory EXCEPT ![Addressed] = StoreWord]
    <2>1. mem' = [mem EXCEPT ![Target(Addressed)] = StoreWord]
      BY <1>8, <1>11, <1>12, <1>13, <1>14, <1>16
    <2> QED BY <2>1, PortTypes, MemoryChanges
  <1>17. ASSUME ~Path!Performed, Path!Performed', IsLoad
         PROVE  mem' = mem /\ Path!Datum' = DataMemory[Addressed]
    <2>1. mem' = mem /\ Path!Datum' = mem[Target(Addressed)]
      BY <1>7, <1>8, <1>11, <1>12, <1>13, <1>14, <1>17
    <2> QED BY <2>1, PortTypes DEF DataMemory
  <1> QED BY <1>3, <1>5, <1>6, <1>7, <1>8, <1>9, <1>10, <1>13, <1>15, <1>16, <1>17

\* An instruction that begins is a safe one, and nothing of it has happened.
LEMMA Begun ==
  TypeOK /\ TransferInv /\ (Begins => BoardSafe) /\ state = "Idle" /\ (clk = 1 \/ reset)
    => ProgramInv
  <1> SUFFICES ASSUME TypeOK, TransferInv, Begins => BoardSafe,
                      state = "Idle", clk = 1 \/ reset
               PROVE  ProgramInv
    OBVIOUS
  <1>1. PICK c \in Addr, v \in Word : Path!TransferInv(c, v)
    BY DEF TransferInv
  <1>2. Path!Quiet /\ ~init_txn_ff /\ ~init_txn_ff2
    BY <1>1, Path!IdleRests, BusAssumption, SlaveAssumption
  <1>3. \A a, w : Path!TransferInv(a, w)
    BY <1>2, Path!IdleRests, BusAssumption, SlaveAssumption
  <1>4. ~Path!Performed
    BY DEF Path!Performed
  <1>5. ~reset => BoardSafe
    BY DEF Begins
  <1>6. Safe
    BY <1>5 DEF BoardSafe, Safe, RegA, RegB, IsLoad
  <1>7. MergesOwnWord
    BY <1>5 DEF BoardSafe, MergesOwnWord, IsStore
  <1> QED BY <1>3, <1>4, <1>6, <1>7 DEF ProgramInv, OwnTransfer, OwnDatum

LEMMA BegunNext ==
  (TypeOK /\ TransferInv /\ (Begins => BoardSafe) /\ state = "Idle" /\ (clk = 1 \/ reset)
    => ProgramInv)'
  BY Begun, PTL

\* A rising edge with the controller idle: the core's own.
LEMMA IdleEdge ==
  ASSUME TypeOK, TransferInv, Posedge, state = "Idle"
  PROVE  /\ state' = "Idle" /\ clk = 0 /\ clk' = 1 /\ reset' = reset
         /\ mem' = mem /\ data_out' = data_out /\ DataMemory' = DataMemory
         /\ Path!Quiet
  <1>1. PICK awready \in BOOLEAN, wready \in BOOLEAN, arready \in BOOLEAN,
             commit \in BOOLEAN, answer \in BOOLEAN, okay \in Responses :
          Board!MemoryRise(awready, wready, arready, commit, answer, okay)
    BY DEF Posedge
  <1>2. Path!MemoryRise(awready, wready, arready, commit, answer, okay)
    BY <1>1, SameRise
  <1>3. PICK c \in Addr, v \in Word : Path!TransferInv(c, v)
    BY DEF TransferInv
  <1>4. /\ state' = "Idle" /\ clk' = 1 /\ reset' = reset
        /\ mem' = mem /\ data_out' = data_out
    BY <1>2, <1>3, PathType, Path!IdleActs, BusAssumption, SlaveAssumption
  <1>5. clk = 0
    BY <1>2 DEF Path!MemoryRise
  <1>6. Path!Quiet
    BY <1>3, Path!IdleRests, BusAssumption, SlaveAssumption
  <1>7. DataMemory' = DataMemory
    BY <1>4 DEF DataMemory, Target
  <1> QED BY <1>4, <1>5, <1>6, <1>7

\* A falling edge moves the controller and its pulse, nothing else.
LEMMA FallingEdge ==
  ASSUME TypeOK, TransferInv, Negedge
  PROVE  /\ Ins' = Ins /\ RegA' = RegA /\ RegB' = RegB /\ Core!Alu' = Core!Alu
         /\ Addressed' = Addressed /\ Offset' = Offset /\ DataMemory' = DataMemory
         /\ PC' = PC /\ imem' = imem /\ rf' = rf /\ reset' = reset
         /\ data_out' = data_out /\ StoreWord' = StoreWord
         /\ (IsLoad' <=> IsLoad) /\ (IsStore' <=> IsStore)
         /\ (Path!Quiet' <=> Path!Quiet) /\ Path!Datum' = Path!Datum
         /\ (Path!Performed' <=> Path!Performed)
         /\ clk = 1 /\ clk' = 0
  <1>1. Path!Negedge /\ UNCHANGED <<imem, PC, rf, data_out>>
    BY NegedgeIsPath
  <1>2. /\ Ins' = Ins /\ Core!Alu' = Core!Alu /\ Addressed' = Addressed
        /\ Offset' = Offset
    BY <1>1, PortKeeps
  <1>3. RegA' = RegA /\ RegB' = RegB /\ (IsLoad' <=> IsLoad) /\ (IsStore' <=> IsStore)
    BY <1>1, <1>2 DEF RegA, RegB, Core!ReadS, IsLoad, IsStore
  <1>4. /\ mem' = mem /\ rvalid' = rvalid /\ rdata' = rdata /\ reset' = reset
        /\ clk = 1 /\ clk' = 0
    BY DEF Negedge, slaveVars
  <1>5. DataMemory' = DataMemory
    BY <1>4 DEF DataMemory, Target
  <1>6. StoreWord' = StoreWord
    BY <1>2, <1>3, <1>5 DEF StoreWord
  <1>7. Path!Quiet' <=> Path!Quiet
    BY DEF Negedge, sequencerVars, writeVars, readVars, slaveVars, Path!Quiet
  <1>8. Path!Datum' = Path!Datum
    BY <1>1, <1>4 DEF Path!Datum
  <1>9. Path!Performed' <=> Path!Performed
    <2>1. PICK c \in Addr, v \in Word : Path!TransferInv(c, v)
      BY DEF TransferInv
    <2>2. Path!ControlInv
      BY <2>1 DEF Path!TransferInv
    <2> QED BY <1>1, <2>2, PathType, Path!NegedgePerforms, BusAssumption, SlaveAssumption
  <1> QED BY <1>1, <1>2, <1>3, <1>4, <1>5, <1>6, <1>7, <1>8, <1>9

LEMMA WaitingKeeps ==
  ASSUME Responses = {TRUE}, TypeOK, TypeOK', TransferInv, ProgramInv, Posedge,
         state # "Idle"
  PROVE  ProgramInv'
  <1>1. /\ ~reset /\ ~reset' /\ PC' = PC /\ imem' = imem
        /\ IsStore => rf' = rf
        /\ \A r \in Reg : r # Ins.rd => rf'[r] = rf[r]
        /\ IsLoad \/ IsStore
    BY WaitingEdge, AtWork
  <1>2. /\ Ins' = Ins /\ RegA' = RegA /\ (IsStore => RegB' = RegB)
        /\ Addressed' = Addressed /\ Offset' = Offset /\ Core!Alu' = Core!Alu
        /\ (IsLoad' <=> IsLoad) /\ (IsStore' <=> IsStore)
    BY <1>1, OperandsKeep DEF ProgramInv
  <1>3. Safe'
    <2>1. Aligned(Ins, PC, RegA, RegB) <=> Aligned(Ins, PC, RegA, RegB')
      BY <1>1, <1>2 DEF Aligned, NextPC, IsLoad, IsStore
    <2>2. Core!TopByteStore' <=> Core!TopByteStore
      BY <1>2 DEF Core!TopByteStore, Ins
    <2> QED BY <1>1, <1>2, <2>1, <2>2 DEF ProgramInv, Safe
  <1>4. mem' = mem => DataMemory' = DataMemory
    BY DEF DataMemory, Target
  <1>5. MergesOwnWord'
    <2>1. SUFFICES ASSUME IsStore, Path!Quiet', ~Path!Performed', Ins.f3 # 2
                   PROVE  data_out' = DataMemory'[Addressed]
      BY <1>1, <1>2 DEF MergesOwnWord
    <2>2. /\ ~Path!Performed /\ mem' = mem /\ Path!Quiet /\ data_out' = data_out
      BY <2>1, WaitingEdge
    <2> QED BY <1>1, <1>4, <2>1, <2>2 DEF ProgramInv, MergesOwnWord
  <1>6. OwnTransfer'
    <2>1. SUFFICES ASSUME ~Path!Performed', NEW a, NEW w,
                          a = Addressed', w = StoreWord'
                   PROVE  Path!TransferInv(a, w)'
      BY DEF OwnTransfer
    <2>2. /\ ~Path!Performed /\ mem' = mem
          /\ \A b, u : b = Addressed /\ u = StoreWord => Path!TransferInv(b, u)'
      BY <2>1, WaitingEdge
    <2>3. CASE IsStore
      <3>1. StoreWord' = StoreWord
        BY <1>2, <1>4, <2>2, <2>3 DEF StoreWord
      <3> QED BY <1>2, <2>1, <2>2, <3>1
    <2>4. CASE IsLoad
      <3>1. \E u : u = StoreWord
        OBVIOUS
      <3>2. PICK u : Path!TransferInv(a, u)'
        BY <1>2, <2>1, <2>2, <3>1
      <3>3. ~IsStore'
        BY <1>2, <2>4 DEF IsLoad, IsStore
      <3> QED BY <3>2, <3>3, OnlyWordOfStoresNext
    <2> QED BY <1>1, <2>3, <2>4
  <1>7. OwnDatum'
    <2>1. SUFFICES ASSUME IsLoad, Path!Performed'
                   PROVE  Path!Datum' = DataMemory'[Addressed]
      BY <1>2 DEF OwnDatum
    <2>2. CASE Path!Performed
      BY <1>4, <2>1, <2>2, WaitingEdge DEF ProgramInv, OwnDatum
    <2>3. CASE ~Path!Performed
      BY <1>4, <2>1, <2>3, WaitingEdge
    <2> QED BY <2>2, <2>3
  <1> QED BY <1>3, <1>5, <1>6, <1>7 DEF ProgramInv

LEMMA FallingKeeps ==
  ASSUME TypeOK, TypeOK', TransferInv, ProgramInv, Negedge
  PROVE  ProgramInv'
  <1>1. Safe'
    BY FallingEdge DEF ProgramInv, Safe, Core!TopByteStore, Ins
  <1>2. MergesOwnWord'
    BY FallingEdge DEF ProgramInv, MergesOwnWord
  <1>3. OwnTransfer'
    <2>1. SUFFICES ASSUME ~Path!Performed', NEW a, NEW w,
                          a = Addressed', w = StoreWord'
                   PROVE  Path!TransferInv(a, w)'
      BY DEF OwnTransfer
    <2>2. Path!TransferInv(a, w)
      BY <2>1, FallingEdge DEF ProgramInv, OwnTransfer
    <2> QED BY <2>2, NegedgeIsPath, PathType, Path!TransferFalls, BusAssumption,
               SlaveAssumption
  <1>4. OwnDatum'
    BY FallingEdge DEF ProgramInv, OwnDatum
  <1> QED BY <1>1, <1>2, <1>3, <1>4 DEF ProgramInv

LEMMA ProgramStep ==
  ASSUME Responses = {TRUE}, TypeOK, TypeOK', TransferInv, TransferInv', ProgramInv,
         Next, Begins' => BoardSafe'
  PROVE  ProgramInv'
  <1>1. CASE Posedge /\ state = "Idle"
    <2>1. state' = "Idle" /\ clk' = 1
      BY <1>1, IdleEdge
    <2> QED BY <2>1, BegunNext
  <1>2. CASE Posedge /\ state # "Idle"
    BY <1>2, WaitingKeeps
  <1>3. CASE Negedge
    BY <1>3, FallingKeeps
  <1>4. CASE Press
    <2>1. state' = "Idle" /\ reset'
      BY <1>4 DEF Press
    <2> QED BY <2>1, BegunNext
  <1>5. CASE Release
    <2>1. state = "Idle"
      <3>1. PICK c \in Addr, v \in Word : Path!TransferInv(c, v)
        BY DEF TransferInv
      <3> QED BY <1>5, <3>1 DEF Release, Path!TransferInv, Path!ControlInv
    <2>2. state' = "Idle" /\ clk' = 1
      BY <1>5, <2>1 DEF Release
    <2> QED BY <2>2, BegunNext
  <1> QED BY <1>1, <1>2, <1>3, <1>4, <1>5 DEF Next

-----------------------------------------------------------------------------
(***************************************************************************)
(* The state as the program sees it, and the steps it sees.                *)
(***************************************************************************)
View == [r \in Reg |-> Core!ReadS(r)]
Loaded == LoadMeaning(Ins.f3, Offset, DataMemory[Addressed])
LoadedView == IF Ins.rd # 0 THEN [View EXCEPT ![Ins.rd] = Loaded] ELSE View

\* When an instruction is in effect.
LEMMA Effect ==
  TypeOK /\ TransferInv =>
    /\ IsLoad => (InEffect <=> ~reset /\ (state # "Idle" \/ clk = 0))
    /\ IsStore => (InEffect <=> Path!Performed)
    /\ ~IsLoad /\ ~IsStore => ~InEffect
  <1> SUFFICES ASSUME TypeOK, TransferInv
               PROVE  /\ IsLoad => (InEffect <=> ~reset /\ (state # "Idle" \/ clk = 0))
                      /\ IsStore => (InEffect <=> Path!Performed)
                      /\ ~IsLoad /\ ~IsStore => ~InEffect
    OBVIOUS
  <1>1. (Board!Answered <=> Path!Answered) /\ (Board!Capturing <=> Path!Capturing)
    BY DEF Board!Answered, Path!Answered, Board!Capturing, Path!Capturing,
           Board!init_txn_pulse, Path!init_txn_pulse
  <1>2. IsStore => Path!MStrobe
    BY DEF Path!MStrobe, Request, IsStore
  <1>3. ASSUME IsStore PROVE InEffect <=> Path!Performed
    <2>1. CASE state = "Idle"
      BY <1>2, <1>3, <2>1 DEF InEffect, Path!Performed, IsStore
    <2>2. CASE state # "Idle"
      <3>1. ~reset /\ state \in {"WriteStart", "WriteMem", "WriteData"}
        BY <1>3, <2>2, AtWork
      <3> QED BY <1>1, <1>3, <3>1 DEF InEffect, Path!Performed, Path!Capturing, IsStore
    <2> QED BY <2>1, <2>2
  <1>4. IsLoad => (InEffect <=> ~reset /\ (state # "Idle" \/ clk = 0))
    BY DEF InEffect, IsLoad
  <1>5. ~IsLoad /\ ~IsStore => ~InEffect
    BY DEF InEffect, IsLoad, IsStore
  <1> QED BY <1>3, <1>4, <1>5

LEMMA EffectNext ==
  (TypeOK /\ TransferInv =>
    /\ IsLoad => (InEffect <=> ~reset /\ (state # "Idle" \/ clk = 0))
    /\ IsStore => (InEffect <=> Path!Performed)
    /\ ~IsLoad /\ ~IsStore => ~InEffect)'
  BY Effect, PTL

\* The registers as the program sees them.
LEMMA Regs ==
  TypeOK => /\ View \in [Reg -> Word] /\ LoadedView \in [Reg -> Word]
            /\ InEffect /\ IsLoad => ProgramRegs = LoadedView
            /\ ~(InEffect /\ IsLoad) => ProgramRegs = View
            /\ ProgramPC = IF InEffect THEN Add(PC, 4) ELSE PC
  <1> SUFFICES ASSUME TypeOK
               PROVE  /\ View \in [Reg -> Word] /\ LoadedView \in [Reg -> Word]
                      /\ InEffect /\ IsLoad => ProgramRegs = LoadedView
                      /\ ~(InEffect /\ IsLoad) => ProgramRegs = View
                      /\ ProgramPC = IF InEffect THEN Add(PC, 4) ELSE PC
    OBVIOUS
  <1>1. View \in [Reg -> Word]
    BY SmallWords DEF View, Core!ReadS, TypeOK
  <1>2. Loaded \in Word
    <2>1. DataMemory[Addressed] \in Word
      BY MemoryType, PortTypes
    <2> QED BY <2>1, PortTypes, LoadMeaningType DEF Loaded
  <1>3. LoadedView \in [Reg -> Word]
    BY <1>1, <1>2, PortTypes DEF LoadedView
  <1>4. InEffect /\ IsLoad => ProgramRegs = LoadedView
    <2> SUFFICES ASSUME InEffect, IsLoad PROVE ProgramRegs = LoadedView
      OBVIOUS
    <2>1. ProgramRegs = [r \in Reg |-> IF Ins.rd = r /\ r # 0 THEN Loaded ELSE Core!ReadS(r)]
      BY DEF ProgramRegs, IsLoad, Loaded
    <2>2. LoadedView = [r \in Reg |-> IF Ins.rd = r /\ r # 0 THEN Loaded ELSE Core!ReadS(r)]
      BY PortTypes DEF LoadedView, View
    <2> QED BY <2>1, <2>2
  <1>5. ~(InEffect /\ IsLoad) => ProgramRegs = View
    BY DEF ProgramRegs, IsLoad, View
  <1>6. ProgramPC = IF InEffect THEN Add(PC, 4) ELSE PC
    BY DEF ProgramPC
  <1> QED BY <1>1, <1>3, <1>4, <1>5, <1>6

LEMMA RegsNext ==
  (TypeOK => /\ View \in [Reg -> Word] /\ LoadedView \in [Reg -> Word]
             /\ InEffect /\ IsLoad => ProgramRegs = LoadedView
             /\ ~(InEffect /\ IsLoad) => ProgramRegs = View
             /\ ProgramPC = IF InEffect THEN Add(PC, 4) ELSE PC)'
  BY Regs, PTL

\* One whole instruction.
LEMMA Executes ==
  ASSUME TypeOK, Safe, ~reset, ~InEffect, imem' = imem,
         ProgramPC' = NextPC(Ins, PC, RegA, RegB),
         ProgramRegs' =
           IF WritesRd(Ins) /\ Ins.rd # 0
           THEN [View EXCEPT ![Ins.rd] =
                   ResultOf(Ins, PC, RegA, RegB,
                            DataMemory[WordIndex(AddressOf(Ins, RegA))])]
           ELSE View,
         DataMemory' = IF IsStore THEN [DataMemory EXCEPT ![Addressed] = StoreWord]
                       ELSE DataMemory
  PROVE  ISA!Step
  <1> DEFINE i == WordIndex(AddressOf(Ins, RegA))
  <1>1. ProgramPC = PC /\ ProgramRegs = View
    BY Regs
  <1>2. imem[ISA!WordIndex(PC)] = Ins
    BY ProgramWords DEF Ins, Core!Ins, Core!WordIndex, WordIndex
  <1>3. View[Ins.rs1] = RegA /\ View[Ins.rs2] = RegB
    BY PortTypes DEF View, RegA, RegB
  <1>4. ISA!WordIndex(ISA!AddressOf(Ins, RegA)) = i
    BY ProgramWords, ProgramInstruction
  <1>5. ISA!Aligned(Ins, PC, RegA, RegB)
    BY ProgramInstruction DEF Safe
  <1>6. ProgramPC' = ISA!NextPC(Ins, PC, RegA, RegB)
    BY ProgramInstruction
  <1>7. ProgramRegs' = IF ISA!WritesRd(Ins) /\ Ins.rd # 0
                       THEN [View EXCEPT ![Ins.rd] =
                               ISA!ResultOf(Ins, PC, RegA, RegB, DataMemory[i])]
                       ELSE View
    BY ProgramInstruction
  <1>8. DataMemory' =
          IF Ins.op = "store"
          THEN [DataMemory EXCEPT ![i] =
                  ISA!StoreMeaning(Ins.f3, ISA!ByteOffset(ISA!AddressOf(Ins, RegA)),
                                   DataMemory[i], RegB)]
          ELSE DataMemory
    <2>1. IsStore => /\ Addressed = i
                     /\ Offset = ISA!ByteOffset(ISA!AddressOf(Ins, RegA))
      BY Delivers, ProgramWords, ProgramInstruction DEF IsStore, Addressed, Offset
    <2>2. IsStore => StoreWord = ISA!StoreMeaning(Ins.f3,
                                   ISA!ByteOffset(ISA!AddressOf(Ins, RegA)),
                                   DataMemory[i], RegB)
      BY <2>1, ProgramBytes DEF StoreWord
    <2> QED BY <2>1, <2>2 DEF IsStore
  <1> HIDE DEF i
  <1>9. ISA!Execute
    BY <1>1, <1>2, <1>3, <1>4, <1>5, <1>6, <1>7, <1>8, Zenon DEF ISA!Execute
  <1> QED BY <1>9 DEF ISA!Step

\* A restart, at which the last register write may be lost.
LEMMA Restarts ==
  ASSUME TypeOK, TypeOK', imem' = imem, DataMemory' = DataMemory, ProgramPC' = 0,
         ProgramRegs' \in [Reg -> Word],
         NEW r \in Reg, \A q \in Reg : q # r => ProgramRegs'[q] = ProgramRegs[q]
  PROVE  ISA!Reset
  <1>1. \A q \in Reg \ {r} : ProgramRegs'[q] = ProgramRegs[q]
    OBVIOUS
  <1> QED BY <1>1, ProgramWords DEF ISA!Reset

\* A step the program does not see.
Unseen == /\ imem' = imem /\ ProgramPC' = ProgramPC /\ ProgramRegs' = ProgramRegs
          /\ DataMemory' = DataMemory

\* The register file after the core's own rising edge.
LEMMA EdgeWrites ==
  ASSUME TypeOK, CoreRise
  PROVE  /\ imem' = imem
         /\ \A q \in Reg : q # Ins.rd => View'[q] = View[q]
         /\ IsStore => View' = View
         /\ ~IsLoad => View' = IF WritesRd(Ins) /\ Ins.rd # 0
                               THEN [View EXCEPT ![Ins.rd] =
                                       ResultOf(Ins, PC, RegA, RegB,
                                          DataMemory[WordIndex(AddressOf(Ins, RegA))])]
                               ELSE View
         /\ Safe /\ ~reset /\ IsLoad /\ data_out = DataMemory[Addressed]
              => View' = LoadedView
  <1>1. PICK loaded \in Core!Load_line(Ins.f3, Offset, data_out) :
          rf' = IF Core!Ctl.RegWrite THEN [rf EXCEPT ![Ins.rd] = Core!Result(loaded)] ELSE rf
    BY DEF CoreRise
  <1>2. /\ View  = [r \in Reg |-> IF r = 0 THEN 0 ELSE rf[r]]
        /\ View' = [r \in Reg |-> IF r = 0 THEN 0 ELSE rf'[r]]
    BY DEF View, Core!ReadS
  <1>3. rf \in [Reg -> Word] /\ Ins.rd \in Reg
    BY PortTypes DEF TypeOK
  <1>4. Core!Ctl.RegWrite <=> WritesRd(Ins)
    BY PortTypes DEF WritesRd
  <1> DEFINE v == Core!Result(loaded)
  <1>5. rf' = IF WritesRd(Ins) THEN [rf EXCEPT ![Ins.rd] = v] ELSE rf
    BY <1>1, <1>4
  <1> HIDE DEF v
  <1>6. View' = IF WritesRd(Ins) /\ Ins.rd # 0 THEN [View EXCEPT ![Ins.rd] = v] ELSE View
    <2>1. CASE WritesRd(Ins) /\ Ins.rd # 0
      BY <1>2, <1>3, <1>5, <2>1
    <2>2. CASE ~(WritesRd(Ins) /\ Ins.rd # 0)
      BY <1>2, <1>3, <1>5, <2>2
    <2> QED BY <2>1, <2>2
  <1>7. \A q \in Reg : q # Ins.rd => View'[q] = View[q]
    BY <1>2, <1>3, <1>5
  <1>8. IsStore => View' = View
    BY <1>6 DEF IsStore, WritesRd
  <1>9. ASSUME ~IsLoad, WritesRd(Ins)
        PROVE  v = ResultOf(Ins, PC, RegA, RegB,
                            DataMemory[WordIndex(AddressOf(Ins, RegA))])
    BY <1>9, Delivers DEF v, IsLoad
  <1>10. ~IsLoad => View' = IF WritesRd(Ins) /\ Ins.rd # 0
                            THEN [View EXCEPT ![Ins.rd] =
                                    ResultOf(Ins, PC, RegA, RegB,
                                       DataMemory[WordIndex(AddressOf(Ins, RegA))])]
                            ELSE View
    BY <1>6, <1>9
  <1>11. ASSUME Safe, ~reset, IsLoad, data_out = DataMemory[Addressed]
         PROVE  View' = LoadedView
    <2>1. data_out \in Word
      BY BoardSingleAssumption DEF TypeOK, AxiTypeOK
    <2>2. loaded = Loaded
      BY <1>1, <1>11, <2>1, Loads DEF Loaded
    <2>3. v = Loaded
      BY <1>11, <2>2, Delivers DEF v, IsLoad
    <2>4. WritesRd(Ins)
      BY <1>11 DEF WritesRd, IsLoad
    <2> QED BY <1>6, <2>3, <2>4 DEF LoadedView
  <1>12. imem' = imem
    BY DEF CoreRise
  <1> QED BY <1>7, <1>8, <1>10, <1>11, <1>12

\* A rising edge with the controller idle: the end of a memory instruction, a
\* whole other instruction, or one more edge under reset.
LEMMA IdleMaps ==
  ASSUME TypeOK, TypeOK', TransferInv, TransferInv', ProgramInv, Posedge, state = "Idle"
  PROVE  ISA!Reset \/ ISA!Step \/ Unseen
  <1>1. /\ state' = "Idle" /\ clk = 0 /\ clk' = 1 /\ reset' = reset
        /\ data_out' = data_out /\ DataMemory' = DataMemory /\ Path!Quiet
    BY IdleEdge
  <1>2. ~InEffect'
    <2>1. ~Path!Performed'
      BY <1>1 DEF Path!Performed
    <2> QED BY <1>1, <2>1, EffectNext
  <1>3. ProgramPC' = PC' /\ ProgramRegs' = View' /\ View' \in [Reg -> Word]
    BY <1>2, RegsNext
  <1>4. CoreRise
    BY DEF Posedge
  <1>5. imem' = imem
    BY <1>4, EdgeWrites
  <1>6. CASE reset
    <2>1. ~InEffect
      <3>1. ~Path!Performed
        BY <1>6 DEF Path!Performed
      <3> QED BY <1>6, <3>1, Effect
    <2>2. ProgramRegs = View
      BY <2>1, Regs
    <2>3. PC' = 0
      BY <1>4, <1>6 DEF CoreRise
    <2>4. \A q \in Reg : q # Ins.rd => ProgramRegs'[q] = ProgramRegs[q]
      BY <1>3, <1>4, <2>2, EdgeWrites
    <2>5. Ins.rd \in Reg
      BY PortTypes
    <2> QED BY <1>1, <1>3, <1>5, <2>3, <2>4, <2>5, Restarts
  <1>7. CASE ~reset
    <2>1. PC' = NextPC(Ins, PC, RegA, RegB)
      BY <1>4, <1>7, Delivers DEF CoreRise, PCEnable, Done
    <2>2. CASE ~IsLoad /\ ~IsStore
      <3>1. ~InEffect
        BY <2>2, Effect
      <3>2. ISA!Step
        BY <1>1, <1>3, <1>4, <1>5, <1>7, <2>1, <2>2, <3>1, EdgeWrites, Executes
           DEF ProgramInv
      <3> QED BY <3>2
    <2>3. CASE IsLoad \/ IsStore
      <3>1. PC' = Add(PC, 4)
        BY <2>1, <2>3, Delivers DEF IsLoad, IsStore
      <3>2. Path!Performed
        BY <1>1, <1>7, <2>3 DEF Path!Performed, Path!MStrobe, Request, IsLoad, IsStore
      <3>3. InEffect
        BY <1>1, <1>7, <2>3, <3>2, Effect
      <3>4. CASE IsStore
        <4>1. ~IsLoad
          BY <3>4 DEF IsLoad, IsStore
        <4>2. View' = View
          BY <1>4, <3>4, EdgeWrites
        <4> QED BY <1>1, <1>3, <1>5, <3>1, <3>3, <4>1, <4>2, Regs DEF Unseen
      <3>5. CASE IsLoad
        <4>1. data_out = DataMemory[Addressed]
          BY <1>1, <3>2, <3>5 DEF ProgramInv, OwnDatum, Path!Datum, Path!Quiet
        <4>2. View' = LoadedView
          BY <1>4, <1>7, <3>5, <4>1, EdgeWrites DEF ProgramInv
        <4> QED BY <1>1, <1>3, <1>5, <3>1, <3>3, <3>5, <4>2, Regs DEF Unseen
      <3> QED BY <2>3, <3>4, <3>5
    <2> QED BY <2>2, <2>3
  <1> QED BY <1>6, <1>7

\* A rising edge while the core waits: the store that the slave commits, or
\* nothing the program sees.
LEMMA WaitingMaps ==
  ASSUME Responses = {TRUE}, TypeOK, TypeOK', TransferInv, TransferInv', ProgramInv,
         Posedge, state # "Idle"
  PROVE  ISA!Step \/ Unseen
  <1>1. /\ ~reset /\ ~reset' /\ state' = state /\ PC' = PC /\ imem' = imem
        /\ IsStore => rf' = rf
        /\ \A r \in Reg : r # Ins.rd => rf'[r] = rf[r]
        /\ IsLoad \/ IsStore
    BY WaitingEdge, AtWork
  <1>2. /\ Ins' = Ins /\ Addressed' = Addressed /\ Offset' = Offset
        /\ (IsLoad' <=> IsLoad) /\ (IsStore' <=> IsStore)
    BY <1>1, OperandsKeep DEF ProgramInv
  <1>3. mem' = mem => DataMemory' = DataMemory
    BY DEF DataMemory, Target
  <1>4. CASE IsLoad
    <2>1. ~IsStore
      BY <1>4 DEF IsLoad, IsStore
    <2>2. DataMemory' = DataMemory
      <3>1. mem' = mem
        BY <1>4, WaitingEdge
      <3> QED BY <1>3, <3>1
    <2>3. InEffect /\ InEffect'
      BY <1>1, <1>2, <1>4, Effect, EffectNext
    <2>4. LoadedView' = LoadedView
      <3>1. Loaded' = Loaded
        BY <1>2, <2>2 DEF Loaded
      <3>2. \A q \in Reg : q # Ins.rd \/ q = 0 => View'[q] = View[q]
        BY <1>1 DEF View, Core!ReadS
      <3>3. /\ View \in [Reg -> Word] /\ View' \in [Reg -> Word]
        BY Regs, RegsNext
      <3>4. CASE Ins.rd = 0
        <4>1. View' = View
          BY <3>2, <3>3, <3>4
        <4> QED BY <1>2, <3>4, <4>1 DEF LoadedView
      <3>5. CASE Ins.rd # 0
        <4>1. [View' EXCEPT ![Ins.rd] = Loaded] = [View EXCEPT ![Ins.rd] = Loaded]
          BY <3>2, <3>3
        <4> QED BY <1>2, <3>1, <3>5, <4>1 DEF LoadedView
      <3> QED BY <3>4, <3>5
    <2>5. ProgramRegs' = ProgramRegs
      BY <1>2, <1>4, <2>3, <2>4, Regs, RegsNext
    <2>6. ProgramPC' = ProgramPC
      BY <1>1, <2>3, Regs, RegsNext
    <2> QED BY <1>1, <2>2, <2>5, <2>6 DEF Unseen
  <1>5. CASE IsStore
    <2>1. ~IsLoad /\ ~IsLoad'
      BY <1>2, <1>5 DEF IsLoad, IsStore
    <2>2. View' = View
      BY <1>1, <1>5 DEF View, Core!ReadS
    <2>3. ProgramRegs' = View /\ ProgramRegs = View
      BY <2>1, <2>2, Regs, RegsNext
    <2>4. (InEffect <=> Path!Performed) /\ (InEffect' <=> Path!Performed')
      BY <1>2, <1>5, Effect, EffectNext
    <2>5. CASE Path!Performed
      <3>1. Path!Performed' /\ mem' = mem
        BY <2>5, WaitingEdge
      <3>2. ProgramPC' = ProgramPC
        BY <1>1, <2>4, <2>5, <3>1, Regs, RegsNext
      <3> QED BY <1>1, <1>3, <2>3, <3>1, <3>2 DEF Unseen
    <2>6. CASE ~Path!Performed /\ ~Path!Performed'
      <3>1. mem' = mem
        BY <2>6, WaitingEdge
      <3>2. ProgramPC' = ProgramPC
        BY <1>1, <2>4, <2>6, Regs, RegsNext
      <3> QED BY <1>1, <1>3, <2>3, <3>1, <3>2 DEF Unseen
    <2>7. CASE ~Path!Performed /\ Path!Performed'
      <3>1. DataMemory' = [DataMemory EXCEPT ![Addressed] = StoreWord]
        BY <1>5, <2>7, WaitingEdge
      <3>2. ProgramPC' = Add(PC, 4)
        BY <1>1, <2>4, <2>7, RegsNext
      <3>3. ProgramPC' = NextPC(Ins, PC, RegA, RegB)
        BY <1>5, <3>2, Delivers DEF IsStore
      <3>4. ~WritesRd(Ins)
        BY <1>5 DEF WritesRd, IsStore
      <3> QED BY <1>1, <1>5, <2>3, <2>4, <2>7, <3>1, <3>3, <3>4, Executes
              DEF ProgramInv
    <2> QED BY <2>5, <2>6, <2>7
  <1> QED BY <1>1, <1>4, <1>5

\* A falling edge: the load that the controller takes up, or nothing.
LEMMA FallingMaps ==
  ASSUME TypeOK, TypeOK', TransferInv, TransferInv', ProgramInv, Negedge
  PROVE  ISA!Step \/ Unseen
  <1>1. /\ Ins' = Ins /\ Addressed' = Addressed /\ Offset' = Offset
        /\ DataMemory' = DataMemory /\ PC' = PC /\ imem' = imem /\ rf' = rf
        /\ reset' = reset /\ clk = 1 /\ clk' = 0
        /\ (IsLoad' <=> IsLoad) /\ (IsStore' <=> IsStore)
        /\ (Path!Performed' <=> Path!Performed)
    BY FallingEdge
  <1>2. View' = View /\ Loaded' = Loaded
    BY <1>1 DEF View, Core!ReadS, Loaded
  <1>3. LoadedView' = LoadedView
    BY <1>1, <1>2 DEF LoadedView
  <1>4. CASE InEffect' <=> InEffect
    <2>1. ProgramPC' = ProgramPC
      BY <1>1, <1>4, Regs, RegsNext
    <2>2. ProgramRegs' = ProgramRegs
      BY <1>1, <1>2, <1>3, <1>4, Regs, RegsNext
    <2> QED BY <1>1, <2>1, <2>2 DEF Unseen
  <1>5. CASE ~(InEffect' <=> InEffect)
    <2>1. ~IsStore /\ IsLoad
      <3>1. IsStore => (InEffect' <=> InEffect)
        BY <1>1, Effect, EffectNext
      <3>2. ~IsLoad /\ ~IsStore => ~InEffect /\ ~InEffect'
        BY <1>1, Effect, EffectNext
      <3> QED BY <1>5, <3>1, <3>2
    <2>2. /\ InEffect <=> ~reset /\ (state # "Idle" \/ clk = 0)
          /\ InEffect' <=> ~reset' /\ (state' # "Idle" \/ clk' = 0)
      BY <1>1, <2>1, Effect, EffectNext
    <2>3. ~reset /\ ~InEffect /\ InEffect'
      BY <1>1, <1>5, <2>2
    <2>4. ProgramPC' = NextPC(Ins, PC, RegA, RegB)
      <3>1. ProgramPC' = Add(PC, 4)
        BY <1>1, <2>3, RegsNext
      <3> QED BY <2>1, <3>1, Delivers DEF IsLoad
    <2>5. ProgramRegs' = LoadedView
      BY <1>1, <1>3, <2>1, <2>3, RegsNext
    <2>6. ResultOf(Ins, PC, RegA, RegB, DataMemory[WordIndex(AddressOf(Ins, RegA))])
            = Loaded
      <3>1. Core!Alu.result = AddressOf(Ins, RegA)
        BY <2>1, Delivers DEF IsLoad
      <3> QED BY <2>1, <3>1 DEF ResultOf, IsLoad, Loaded, Offset, Addressed
    <2>7. WritesRd(Ins)
      BY <2>1 DEF WritesRd, IsLoad
    <2>8. ISA!Step
      BY <1>1, <2>1, <2>3, <2>4, <2>5, <2>6, <2>7, Executes DEF ProgramInv, LoadedView
    <2> QED BY <2>8
  <1> QED BY <1>4, <1>5

LEMMA PressMaps ==
  ASSUME TypeOK, TypeOK', TransferInv, TransferInv', Press
  PROVE  ISA!Reset
  <1>1. /\ state = "Idle" /\ state' = "Idle" /\ reset' /\ PC' = 0 /\ imem' = imem
        /\ rf' = rf /\ mem' = mem
    BY DEF Press, slaveVars
  <1>2. ~InEffect'
    BY <1>1 DEF InEffect
  <1>3. DataMemory' = DataMemory /\ View' = View
    BY <1>1 DEF DataMemory, Target, View, Core!ReadS
  <1>4. ProgramPC' = 0 /\ ProgramRegs' = View /\ View \in [Reg -> Word]
    BY <1>1, <1>2, <1>3, Regs, RegsNext
  <1>5. Ins.rd \in Reg
    BY PortTypes
  <1>6. \A q \in Reg : q # Ins.rd => ProgramRegs[q] = View[q]
    BY <1>4, <1>5, Regs DEF LoadedView
  <1> QED BY <1>1, <1>3, <1>4, <1>5, <1>6, Restarts

LEMMA ReleaseMaps ==
  ASSUME TypeOK, TypeOK', TransferInv, TransferInv', Release
  PROVE  Unseen
  <1>1. state = "Idle"
    <2>1. PICK c \in Addr, v \in Word : Path!TransferInv(c, v)
      BY DEF TransferInv
    <2> QED BY <2>1 DEF Release, Path!TransferInv, Path!ControlInv
  <1>2. /\ state' = "Idle" /\ clk = 1 /\ clk' = 1 /\ PC' = PC /\ imem' = imem
        /\ rf' = rf /\ mem' = mem
    BY <1>1 DEF Release, coreVars, slaveVars
  <1>3. ~InEffect /\ ~InEffect'
    BY <1>1, <1>2 DEF InEffect
  <1>4. DataMemory' = DataMemory /\ View' = View
    BY <1>2 DEF DataMemory, Target, View, Core!ReadS
  <1> QED BY <1>2, <1>3, <1>4, Regs, RegsNext DEF Unseen

LEMMA StutterMaps == ASSUME TypeOK, TypeOK', UNCHANGED vars PROVE Unseen
  <1>1. UNCHANGED <<state, masterVars, slaveVars, clk, reset, imem, PC, rf>>
    BY DEF vars, coreVars
  <1>2. /\ Ins' = Ins /\ Core!Alu' = Core!Alu /\ Addressed' = Addressed
        /\ Offset' = Offset
    BY <1>1, PortKeeps
  <1>3. DataMemory' = DataMemory
    BY <1>1 DEF slaveVars, DataMemory, Target
  <1>4. InEffect' <=> InEffect
    BY <1>1, <1>2 DEF InEffect, Board!Answered, Board!Capturing, Board!init_txn_pulse,
       masterVars, startVars, sequencerVars, writeVars, readVars, slaveVars
  <1>5. View' = View /\ Loaded' = Loaded /\ (IsLoad' <=> IsLoad)
    BY <1>1, <1>2, <1>3 DEF View, Core!ReadS, Loaded, IsLoad
  <1>6. LoadedView' = LoadedView
    BY <1>2, <1>5 DEF LoadedView
  <1> QED BY <1>1, <1>3, <1>4, <1>5, <1>6, Regs, RegsNext DEF Unseen

LEMMA RefinesInit == Init => ISA!Init
  <1> SUFFICES ASSUME Init PROVE ISA!Init
    OBVIOUS
  <1>1. TypeOK
    BY TypeInit
  <1>2. ~InEffect
    BY DEF Init, InEffect
  <1>3. ProgramPC = 0 /\ ProgramRegs = View /\ View \in [Reg -> Word]
    BY <1>1, <1>2, Regs DEF Init
  <1>4. View[0] = 0
    BY NumRegsAssumption DEF View, Core!ReadS, Reg
  <1>5. DataMemory \in [WordIndexes -> Word] /\ imem \in [WordIndexes -> Instr]
    BY <1>1, MemoryType DEF TypeOK
  <1> QED BY <1>3, <1>4, <1>5, SmallWords, ProgramWords DEF ISA!Init, ISA!TypeOK

LEMMA RefinesStep ==
  ASSUME Responses = {TRUE}, TypeOK, TypeOK', TransferInv, TransferInv', ProgramInv,
         [Next]_vars
  PROVE  [ISA!Next]_(ISA!vars)
  <1>1. ISA!Reset \/ ISA!Step \/ Unseen
    <2>1. CASE Posedge
      BY <2>1, IdleMaps, WaitingMaps
    <2>2. CASE Negedge
      BY <2>2, FallingMaps
    <2>3. CASE Press
      BY <2>3, PressMaps
    <2>4. CASE Release
      BY <2>4, ReleaseMaps
    <2>5. CASE UNCHANGED vars
      BY <2>5, StutterMaps
    <2> QED BY <2>1, <2>2, <2>3, <2>4, <2>5 DEF Next
  <1>2. Unseen => UNCHANGED ISA!vars
    BY DEF Unseen, ISA!vars
  <1> QED BY <1>1, <1>2 DEF ISA!Next

LEMMA StutterKeeps == ASSUME ProgramInv, UNCHANGED vars PROVE ProgramInv'
  <1>1. UNCHANGED <<state, masterVars, slaveVars, clk, reset, imem, PC, rf>>
    BY DEF vars, coreVars
  <1>2. UNCHANGED <<startVars, sequencerVars, writeVars, readVars, error_reg>>
    BY <1>1 DEF masterVars
  <1>3. /\ Ins' = Ins /\ Core!Alu' = Core!Alu /\ Addressed' = Addressed
        /\ Offset' = Offset
        /\ Path!MStrobe' = Path!MStrobe /\ Path!MemWrite' = Path!MemWrite
    BY <1>1, PortKeeps DEF Path!MStrobe, Path!MemWrite
  <1>4. DataMemory' = DataMemory
    BY <1>1 DEF slaveVars, DataMemory, Target
  <1>5. RegA' = RegA /\ RegB' = RegB /\ (IsLoad' <=> IsLoad) /\ (IsStore' <=> IsStore)
    BY <1>1, <1>3 DEF RegA, RegB, Core!ReadS, IsLoad, IsStore
  <1>6. StoreWord' = StoreWord
    BY <1>3, <1>4, <1>5 DEF StoreWord
  <1>7. (Path!Quiet' <=> Path!Quiet) /\ Path!Datum' = Path!Datum
    BY <1>1, <1>2 DEF sequencerVars, writeVars, readVars, slaveVars, Path!Quiet,
                      Path!Datum
  <1>8. Path!Performed' <=> Path!Performed
    BY <1>1, <1>2, <1>3 DEF startVars, sequencerVars, writeVars, readVars, slaveVars,
                            Path!Performed, Path!Answered, Path!init_txn_pulse
  <1>9. ASSUME NEW a, NEW w, Path!TransferInv(a, w) PROVE Path!TransferInv(a, w)'
    BY <1>9, TransferStays
  <1>10. Safe'
    BY <1>1, <1>3, <1>5 DEF ProgramInv, Safe, Core!TopByteStore, Ins
  <1>11. MergesOwnWord'
    BY <1>1, <1>2, <1>3, <1>4, <1>5, <1>7, <1>8 DEF ProgramInv, MergesOwnWord, readVars
  <1>12. OwnTransfer'
    BY <1>3, <1>6, <1>8, <1>9 DEF ProgramInv, OwnTransfer
  <1>13. OwnDatum'
    BY <1>3, <1>4, <1>5, <1>7, <1>8 DEF ProgramInv, OwnDatum
  <1> QED BY <1>10, <1>11, <1>12, <1>13 DEF ProgramInv

\* On a bus without error responses the board runs every safe program as RV32I
\* does, for every byte width, bus, capacity and pace of the slave, and through
\* every press of the button.
THEOREM BoardRunsRV32I ==
  ASSUME Responses = {TRUE} PROVE SafeSpec => Refines
  <1> DEFINE Inv == TypeOK /\ TransferInv /\ ProgramInv
             Safely == [Next /\ (Begins' => BoardSafe')]_vars
  <1>1. Init /\ (Begins => BoardSafe) => Inv
    <2> SUFFICES ASSUME Init, Begins => BoardSafe PROVE Inv
      OBVIOUS
    <2>1. TypeOK /\ TransferInv
      BY TypeInit, InvInit
    <2>2. state = "Idle" /\ (clk = 1 \/ reset)
      BY DEF Init
    <2> QED BY <2>1, <2>2, Begun
  <1>2. Inv /\ Safely => Inv'
    <2> SUFFICES ASSUME Inv, Safely PROVE Inv'
      OBVIOUS
    <2>1. [Next]_vars
      OBVIOUS
    <2>2. TypeOK' /\ TransferInv'
      BY <2>1, TypeStep, InvStep
    <2>3. ProgramInv'
      BY <2>2, ProgramStep, StutterKeeps
    <2> QED BY <2>2, <2>3
  <1>3. Inv /\ Inv' /\ Safely => [ISA!Next]_(ISA!vars)
    BY RefinesStep
  <1>4. Init => ISA!Init
    BY RefinesInit
  <1> QED BY <1>1, <1>2, <1>3, <1>4, PTL DEF SafeSpec, Refines, ISA!Spec
=============================================================================
