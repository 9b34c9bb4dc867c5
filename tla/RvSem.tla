-------------------------------- MODULE RvSem -------------------------------
(***************************************************************************)
(* What each RV32I instruction does, said without any reference to how a   *)
(* core does it: the meaning of one instruction as functions of its        *)
(* operands.  The cores are compared with this.  Words are those of        *)
(* RvWord.  An instruction is its decoded fields; imm is the immediate of  *)
(* its format, already extended.  rs1, rs2 and rd are the bit fields of    *)
(* the word even in the formats that use those bits for an immediate.      *)
(***************************************************************************)
EXTENDS RvWord

CONSTANT NumRegs    \* 32 in the hardware; register 0 reads as zero

ASSUME NumRegsAssumption == NumRegs \in Nat \ {0}

Reg == 0 .. NumRegs - 1

Op == {"load", "store", "op", "opimm", "branch", "jal", "jalr", "lui",
       "auipc"}

Instr == [op : Op, f3 : 0 .. 7, f7 : BOOLEAN, rd : Reg, rs1 : Reg,
          rs2 : Reg, imm : Word]

\* Instructions that write rd.
WritesRd(ins) == ins.op \notin {"store", "branch"}

\* Register-register and register-immediate arithmetic.
AluMeaning(ins, a, b) ==
  CASE ins.f3 = 0 -> IF ins.op = "op" /\ ins.f7 THEN Sub(a, b) ELSE Add(a, b)
    [] ins.f3 = 1 -> Sll(a, b)
    [] ins.f3 = 2 -> Bool2Word(Signed(a) < Signed(b))
    [] ins.f3 = 3 -> Bool2Word(a < b)
    [] ins.f3 = 4 -> BitXor(a, b)
    [] ins.f3 = 5 -> IF ins.f7 THEN Sra(a, b) ELSE Srl(a, b)
    [] ins.f3 = 6 -> BitOr(a, b)
    [] OTHER      -> BitAnd(a, b)

\* beq, bne, blt, bge, bltu, bgeu.
Taken(f3, a, b) ==
  CASE f3 = 0 -> a = b
    [] f3 = 1 -> a # b
    [] f3 = 4 -> Signed(a) < Signed(b)
    [] f3 = 5 -> Signed(a) >= Signed(b)
    [] f3 = 6 -> a < b
    [] f3 = 7 -> a >= b
    [] OTHER  -> FALSE

\* Byte and halfword number k of word w.
ByteAt(w, k) == CASE k = 0 -> Byte0(w) [] k = 1 -> Byte1(w)
                  [] k = 2 -> Byte2(w) [] OTHER -> Byte3(w)
HalfAt(w, k) == HalfOf(ByteAt(w, k + 1), ByteAt(w, k))

\* lb, lh, lw, lbu, lhu from offset k of the memory word w.
LoadMeaning(f3, k, w) ==
  CASE f3 = 0 -> SignExtend(ByteAt(w, k), ByteMod)
    [] f3 = 1 -> SignExtend(HalfAt(w, k), ByteMod * ByteMod)
    [] f3 = 4 -> ByteAt(w, k)
    [] f3 = 5 -> HalfAt(w, k)
    [] OTHER  -> w

\* sb, sh, sw of v at offset k of the memory word w: the bytes from k on
\* come from the low end of v, the others keep their value.
StoreMeaning(f3, k, w, v) ==
  LET last   == IF f3 = 0 THEN k ELSE k + 1
      new(i) == IF i \in k .. last THEN ByteAt(v, i - k) ELSE ByteAt(w, i)
  IN  IF f3 \in {0, 1} THEN Cat(new(3), new(2), new(1), new(0)) ELSE v

\* The address a load or store accesses.
AddressOf(ins, a) == Add(a, ins.imm)

\* The value an instruction at pc writes to rd; a and b are its operands and
\* w the memory word at its address.
ResultOf(ins, pc, a, b, w) ==
  CASE ins.op = "op"            -> AluMeaning(ins, a, b)
    [] ins.op = "opimm"         -> AluMeaning(ins, a, ins.imm)
    [] ins.op = "load"          -> LoadMeaning(ins.f3,
                                               ByteOffset(AddressOf(ins, a)), w)
    [] ins.op \in {"jal", "jalr"} -> Add(pc, 4)
    [] ins.op = "lui"           -> ins.imm
    [] OTHER                    -> Add(pc, ins.imm)

\* The address of the instruction executed next.  RV32I clears bit 0 of the sum of a
\* jalr; a target of which it is set is not Aligned, so that it does not matter.
NextPC(ins, pc, a, b) ==
  CASE ins.op = "jal"                             -> Add(pc, ins.imm)
    [] ins.op = "jalr"                            -> Add(a, ins.imm)
    [] ins.op = "branch" /\ Taken(ins.f3, a, b)   -> Add(pc, ins.imm)
    [] OTHER                                      -> Add(pc, 4)

\* Halfword accesses are even and word accesses multiples of four; the next
\* instruction is at a multiple of four.  What else happens is not specified
\* (RV32I raises an exception or clears a bit of the target; the cores here
\* have no exceptions).
Aligned(ins, pc, a, b) ==
  /\ ins.op \in {"load", "store"} =>
       LET k == ByteOffset(AddressOf(ins, a))
       IN  /\ ins.f3 \in {1, 5} => k \in {0, 2}
           /\ ins.f3 \notin {0, 1, 4, 5} => k = 0
  /\ ByteOffset(NextPC(ins, pc, a, b)) = 0
=============================================================================
