------------------------------- MODULE RvUnits ------------------------------
(***************************************************************************)
(* The combinational units of the pipelined core: the two decoders, the    *)
(* ALU with its flags, the branch condition, and the byte-lane units of    *)
(* loads and stores.  Multiplexer selects and ALU controls keep the        *)
(* encodings of the RTL.                                                   *)
(***************************************************************************)
EXTENDS RvSem

\* What reset and the flushes leave in a cleared register: opcode 0.
NoOp == [op |-> "none", f3 |-> 0, f7 |-> FALSE, rd |-> 0, rs1 |-> 0,
         rs2 |-> 0, imm |-> 0]

Controls == [RegWrite : BOOLEAN, ALUSrc : BOOLEAN, MemWrite : BOOLEAN,
             ResultSrc : 0 .. 3, Branch : BOOLEAN, ALUOp : 0 .. 2,
             Jump : BOOLEAN, auipcSrc : BOOLEAN]

maindec(op) ==
  [RegWrite  |-> op \notin {"store", "branch", "none"},
   ALUSrc    |-> op \notin {"op", "branch", "jal", "none"},
   MemWrite  |-> op = "store",
   ResultSrc |-> CASE op = "load"            -> 1
                   [] op \in {"jal", "jalr"} -> 2
                   [] op = "lui"             -> 3
                   [] OTHER                  -> 0,
   Branch    |-> op = "branch",
   ALUOp     |-> CASE op = "branch"                 -> 1
                   [] op \in {"op", "opimm", "lui"} -> 2
                   [] OTHER                         -> 0,
   Jump      |-> op \in {"jal", "jalr"},
   auipcSrc  |-> op = "auipc"]

\* Bit 5 of the opcode: set for R-type, clear for I-type arithmetic.
opb5(op) == op \notin {"load", "opimm", "auipc", "none"}

aludec(op5, f3, f7b5, ALUOp) ==
  CASE ALUOp = 0 -> 0
    [] ALUOp = 1 -> 1
    [] OTHER ->
         CASE f3 = 0 -> IF f7b5 /\ op5 THEN 1 ELSE 0
           [] f3 = 1 -> 8
           [] f3 = 2 -> 5
           [] f3 = 3 -> 9
           [] f3 = 4 -> 4
           [] f3 = 5 -> IF f7b5 THEN 6 ELSE 7
           [] f3 = 6 -> 3
           [] OTHER  -> 2

\* Bit 31 of a word.
msb(x) == 2 * x >= WordMod

\* The adder: a + condinvb + alucontrol[0], in 33 bits.
aluSum(a, b, ctl) ==
  IF ctl \in {1, 3, 5, 7, 9} THEN a + (WordMod - 1 - b) + 1 ELSE a + b

\* The overflow flag v: the operands of the adder agree in sign, the sum does
\* not; only for addition and subtraction (isAddSub).
aluOverflow(a, b, ctl) ==
  LET c0 == ctl \in {1, 3, 5, 7, 9}
      c1 == ctl \in {2, 3, 6, 7}
      c2 == ctl \in {4, 5, 6, 7}
  IN  /\ ~ExclOr(c0, ExclOr(msb(a), msb(b)))
      /\ ExclOr(msb(a), msb(aluSum(a, b, ctl) % WordMod))
      /\ (~c2 /\ ~c1) \/ (~c1 /\ c0)

aluResult(a, b, ctl) ==
  CASE ctl \in {0, 1} -> aluSum(a, b, ctl) % WordMod
    [] ctl = 2 -> BitAnd(a, b)
    [] ctl = 3 -> BitOr(a, b)
    [] ctl = 4 -> BitXor(a, b)
    [] ctl = 5 -> Bool2Word(ExclOr(msb(aluSum(a, b, ctl) % WordMod),
                                aluOverflow(a, b, ctl)))
    [] ctl = 6 -> Sra(a, b)
    [] ctl = 7 -> Srl(a, b)
    [] ctl = 8 -> Sll(a, b)
    [] OTHER   -> Bool2Word(a < b)

alu(a, b, ctl) ==
  [result   |-> aluResult(a, b, ctl),
   zero     |-> aluResult(a, b, ctl) = 0,
   negative |-> msb(aluResult(a, b, ctl)),
   carry    |-> ctl \notin {2, 3, 6, 7} /\ aluSum(a, b, ctl) >= WordMod,
   overflow |-> aluOverflow(a, b, ctl)]

\* Mutant: the signed comparisons look at the sign of a - b only.
BranchConditionSign(f3, r) ==
  CASE f3 = 0 -> r.zero
    [] f3 = 1 -> ~r.zero
    [] f3 = 4 -> r.negative
    [] f3 = 5 -> ~r.negative
    [] f3 = 6 -> ~r.carry
    [] f3 = 7 -> r.carry
    [] OTHER  -> FALSE

\* Branch_condition, from the flags of a - b.
BranchCondition(f3, r) ==
  CASE f3 = 0 -> r.zero
    [] f3 = 1 -> ~r.zero
    [] f3 = 4 -> ExclOr(r.negative, r.overflow)
    [] f3 = 5 -> ~ExclOr(r.negative, r.overflow)
    [] f3 = 6 -> ~r.carry
    [] f3 = 7 -> r.carry
    [] OTHER  -> FALSE

\* load: the value loaded, as the set of values the unit may drive.  A
\* halfword at an odd offset has no case, so the output holds whatever it
\* was: any word.
load(isLoad, f3, off, rdata) ==
  IF ~isLoad THEN {rdata}
  ELSE CASE f3 = 0 -> {SignExtend(ByteAt(rdata, off), ByteMod)}
         [] f3 = 1 -> CASE off = 0 -> {SignExtend(HalfOf(Byte1(rdata), Byte0(rdata)), ByteMod * ByteMod)}
                        [] off = 2 -> {SignExtend(HalfOf(Byte3(rdata), Byte2(rdata)), ByteMod * ByteMod)}
                        [] OTHER   -> Word
         [] f3 = 4 -> {ByteAt(rdata, off)}
         [] f3 = 5 -> CASE off = 0 -> {HalfOf(Byte1(rdata), Byte0(rdata))}
                        [] off = 2 -> {HalfOf(Byte3(rdata), Byte2(rdata))}
                        [] OTHER   -> Word
         [] OTHER  -> {rdata}

\* Mutant: a byte store replaces its whole word.
storeWord(memWrite, f3, off, rdata, rd2) == {rd2}

\* store: the word written back, the old word with the stored lanes replaced.
store(memWrite, f3, off, rdata, rd2) ==
  IF ~memWrite THEN {rd2}
  ELSE CASE f3 = 0 ->
              CASE off = 0 -> {Cat(Byte3(rdata), Byte2(rdata), Byte1(rdata), Byte0(rd2))}
                [] off = 1 -> {Cat(Byte3(rdata), Byte2(rdata), Byte0(rd2), Byte0(rdata))}
                [] off = 2 -> {Cat(Byte3(rdata), Byte0(rd2), Byte1(rdata), Byte0(rdata))}
                [] OTHER   -> {Cat(Byte0(rd2), Byte2(rdata), Byte1(rdata), Byte0(rdata))}
         [] f3 = 1 ->
              CASE off = 0 -> {Cat(Byte3(rdata), Byte2(rdata), Byte1(rd2), Byte0(rd2))}
                [] off = 2 -> {Cat(Byte1(rd2), Byte0(rd2), Byte1(rdata), Byte0(rdata))}
                [] OTHER   -> Word
         [] OTHER -> {rd2}
=============================================================================
