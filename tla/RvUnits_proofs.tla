--------------------------- MODULE RvUnits_proofs ---------------------------
(***************************************************************************)
(* The units of the pipelined core compute what RV32I says, for every byte *)
(* width: the ALU under the control the decoders give it, the branch       *)
(* decision taken from the flags, and the byte lanes of loads and stores.  *)
(***************************************************************************)
EXTENDS RvUnits, TLAPS

LEMMA WordModPos == WordMod \in Nat \ {0} /\ WordMod % 2 = 0 /\ WordMod >= 16
  BY ByteModAssumption DEF WordMod

LEMMA ByteModLe == /\ ByteMod <= WordMod
                   /\ ByteMod * ByteMod <= WordMod
                   /\ ByteMod * ByteMod \in Nat \ {0}
  BY ByteModAssumption DEF WordMod

\* Reduction modulo m of a number that is off by less than one modulus.
LEMMA ModSame ==
  ASSUME NEW m \in Nat \ {0}, NEW x \in 0 .. m - 1 PROVE x % m = x
  OBVIOUS

LEMMA ModMinus ==
  ASSUME NEW m \in Nat \ {0}, NEW x \in m .. 2 * m - 1 PROVE x % m = x - m
  OBVIOUS

LEMMA ModPlus ==
  ASSUME NEW m \in Nat \ {0}, NEW x \in -m .. -1 PROVE x % m = x + m
  OBVIOUS

LEMMA ModRange ==
  ASSUME NEW m \in Nat \ {0}, NEW x \in Int PROVE x % m \in 0 .. m - 1
  OBVIOUS

\* A digit below m followed by one below n is a number below m * n.
LEMMA MulRange ==
  ASSUME NEW m \in Nat \ {0}, NEW n \in Nat \ {0},
         NEW x \in 0 .. m - 1, NEW y \in 0 .. n - 1
  PROVE  x + m * y \in 0 .. m * n - 1
  OBVIOUS

LEMMA AddType == ASSUME NEW a \in Word, NEW b \in Word PROVE Add(a, b) \in Word
  BY WordModPos, ModRange DEF Add, Word

LEMMA OffsetType == ASSUME NEW a \in Word PROVE ByteOffset(a) \in 0 .. 3
  BY WordModPos DEF ByteOffset, Word

LEMMA SubType == ASSUME NEW a \in Word, NEW b \in Word PROVE Sub(a, b) \in Word
  BY WordModPos, ModRange DEF Sub, Word

\* Small numbers are words.
LEMMA SmallWords == 0 \in Word /\ 1 \in Word /\ 4 \in Word
  BY WordModPos DEF Word

LEMMA ByteType ==
  ASSUME NEW w \in Word
  PROVE  Byte0(w) \in Byte /\ Byte1(w) \in Byte /\ Byte2(w) \in Byte
         /\ Byte3(w) \in Byte
  <1>1. ByteMod \in Nat \ {0} /\ ByteMod * ByteMod \in Nat \ {0}
        /\ ByteMod * ByteMod * ByteMod \in Nat \ {0}
    BY ByteModAssumption
  <1>2. w \in Int
    BY WordModPos DEF Word
  <1>3. w \div ByteMod \in Int /\ w \div (ByteMod * ByteMod) \in Int
        /\ w \div (ByteMod * ByteMod * ByteMod) \in Int
    BY <1>1, <1>2
  <1> QED
    BY <1>1, <1>2, <1>3, ModRange DEF Byte0, Byte1, Byte2, Byte3, Byte

LEMMA ByteAtType ==
  ASSUME NEW w \in Word, NEW k \in Int PROVE ByteAt(w, k) \in Byte
  BY ByteType DEF ByteAt

LEMMA HalfType ==
  ASSUME NEW hi \in Byte, NEW lo \in Byte
  PROVE  HalfOf(hi, lo) \in 0 .. ByteMod * ByteMod - 1
  BY MulRange, ByteModAssumption DEF HalfOf, Byte

\* Four byte lanes make a word.
LEMMA CatType ==
  ASSUME NEW b3 \in Byte, NEW b2 \in Byte, NEW b1 \in Byte, NEW b0 \in Byte
  PROVE  Cat(b3, b2, b1, b0) \in Word
  <1> DEFINE B == ByteMod
  <1>1. B \in Nat \ {0} /\ B * B \in Nat \ {0} /\ B * (B * B) \in Nat \ {0}
    BY ByteModAssumption
  <1>2. b2 + B * b3 \in 0 .. B * B - 1
    BY <1>1, MulRange DEF Byte
  <1>3. b1 + B * (b2 + B * b3) \in 0 .. B * (B * B) - 1
    BY <1>1, <1>2, MulRange DEF Byte
  <1>4. b0 + B * (b1 + B * (b2 + B * b3)) \in 0 .. B * (B * (B * B)) - 1
    BY <1>1, <1>3, MulRange DEF Byte
  <1>5. WordMod = B * (B * (B * B))
    BY <1>1 DEF WordMod
  <1> QED
    BY <1>4, <1>5 DEF Cat, Word

LEMMA SignExtendType ==
  ASSUME NEW m \in Nat \ {0}, m <= WordMod, NEW x \in 0 .. m - 1
  PROVE  SignExtend(x, m) \in Word
  BY WordModPos DEF SignExtend, Word

LEMMA LoadMeaningType ==
  ASSUME NEW f3 \in 0 .. 7, NEW k \in 0 .. 3, NEW w \in Word
  PROVE  LoadMeaning(f3, k, w) \in Word
  <1>1. ByteAt(w, k) \in Byte
    BY ByteAtType
  <1>2. HalfAt(w, k) \in 0 .. ByteMod * ByteMod - 1
    BY ByteAtType, HalfType DEF HalfAt
  <1>3. ByteAt(w, k) \in Word /\ HalfAt(w, k) \in Word
    BY <1>1, <1>2, ByteModLe, WordModPos, ByteModAssumption DEF Word, Byte
  <1>4. SignExtend(ByteAt(w, k), ByteMod) \in Word
    BY <1>1, ByteModLe, ByteModAssumption, SignExtendType DEF Byte
  <1>5. SignExtend(HalfAt(w, k), ByteMod * ByteMod) \in Word
    BY <1>2, ByteModLe, SignExtendType
  <1> QED
    BY <1>3, <1>4, <1>5 DEF LoadMeaning

LEMMA StoreMeaningType ==
  ASSUME NEW f3 \in 0 .. 7, NEW k \in 0 .. 3, NEW w \in Word, NEW v \in Word
  PROVE  StoreMeaning(f3, k, w, v) \in Word
  <1> DEFINE last   == IF f3 = 0 THEN k ELSE k + 1
             new(i) == IF i \in k .. last THEN ByteAt(v, i - k)
                       ELSE ByteAt(w, i)
  <1>1. \A i \in 0 .. 3 : new(i) \in Byte
    BY ByteAtType
  <1>2. Cat(new(3), new(2), new(1), new(0)) \in Word
    BY <1>1, CatType
  <1> QED
    BY <1>2 DEF StoreMeaning

LEMMA ResultOfType ==
  ASSUME NEW ins \in Instr, NEW pc \in Word, NEW a \in Word, NEW b \in Word,
         NEW w \in Word
  PROVE  ResultOf(ins, pc, a, b, w) \in Word
  <1>1. ins.imm \in Word /\ ins.f3 \in 0 .. 7
    BY DEF Instr
  <1>2. ASSUME NEW x \in Word, NEW y \in Word PROVE AluMeaning(ins, x, y) \in Word
    <2>1. Add(x, y) \in Word /\ Sub(x, y) \in Word
      BY AddType, SubType
    <2>2. /\ Sll(x, y) \in Word /\ Srl(x, y) \in Word /\ Sra(x, y) \in Word
          /\ BitAnd(x, y) \in Word /\ BitOr(x, y) \in Word /\ BitXor(x, y) \in Word
      BY BitOpAssumption
    <2>3. \A p : Bool2Word(p) \in Word
      BY SmallWords DEF Bool2Word
    <2> QED
      BY <2>1, <2>2, <2>3 DEF AluMeaning
  <1>3. ByteOffset(AddressOf(ins, a)) \in 0 .. 3
    BY <1>1, AddType, OffsetType DEF AddressOf
  <1>4. LoadMeaning(ins.f3, ByteOffset(AddressOf(ins, a)), w) \in Word
    BY <1>1, <1>3, LoadMeaningType
  <1> QED
    BY <1>1, <1>2, <1>4, AddType, SmallWords DEF ResultOf

LEMMA NextPCType ==
  ASSUME NEW ins \in Instr, NEW pc \in Word, NEW a \in Word, NEW b \in Word
  PROVE  NextPC(ins, pc, a, b) \in Word
  <1>1. ins.imm \in Word
    BY DEF Instr
  <1> QED
    BY <1>1, AddType, SmallWords DEF NextPC
-----------------------------------------------------------------------------
(***************************************************************************)
(* The ALU.  The adder computes a + ~b + 1 in 33 bits: its low 32 bits are *)
(* the difference, its carry says a >= b and its overflow flag repairs the *)
(* sign of the difference.                                                 *)
(***************************************************************************)
LEMMA Difference ==
  ASSUME NEW a \in Word, NEW b \in Word
  PROVE  /\ aluSum(a, b, 1) % WordMod = Sub(a, b)
         /\ Sub(a, b) = IF a >= b THEN a - b ELSE a - b + WordMod
         /\ aluSum(a, b, 1) >= WordMod <=> a >= b
  <1>1. WordMod \in Nat \ {0} /\ a \in 0 .. WordMod - 1 /\ b \in 0 .. WordMod - 1
    BY WordModPos DEF Word
  <1> DEFINE s == a - b + WordMod
  <1>2. aluSum(a, b, 1) = s
    BY <1>1 DEF aluSum
  <1>3. CASE a >= b
    <2>1. s \in WordMod .. 2 * WordMod - 1 /\ a - b \in 0 .. WordMod - 1
          /\ s - WordMod = a - b
      BY <1>1, <1>3
    <2>2. s % WordMod = a - b
      BY <1>1, <2>1, ModMinus
    <2>3. (a - b) % WordMod = a - b
      BY <1>1, <2>1, ModSame
    <2> QED
      BY <1>1, <1>2, <1>3, <2>1, <2>2, <2>3 DEF Sub
  <1>4. CASE a < b
    <2>1. s \in 0 .. WordMod - 1 /\ a - b \in -WordMod .. -1
      BY <1>1, <1>4
    <2>2. s % WordMod = s
      BY <1>1, <2>1, ModSame
    <2>3. (a - b) % WordMod = s
      BY <1>1, <2>1, ModPlus
    <2> QED
      BY <1>1, <1>2, <1>4, <2>1, <2>2, <2>3 DEF Sub
  <1> QED
    BY <1>1, <1>3, <1>4

\* The sign of the difference, corrected by the overflow flag, compares the
\* operands as two's complement numbers.
LEMMA SignedLess ==
  ASSUME NEW a \in Word, NEW b \in Word, NEW ctl \in {1, 5}
  PROVE  ExclOr(msb(Sub(a, b)), aluOverflow(a, b, ctl)) <=> Signed(a) < Signed(b)
  <1>1. WordMod \in Nat \ {0} /\ WordMod % 2 = 0
        /\ a \in 0 .. WordMod - 1 /\ b \in 0 .. WordMod - 1
    BY WordModPos DEF Word
  <1> DEFINE d == IF a >= b THEN a - b ELSE a - b + WordMod
  <1>2. Sub(a, b) = d
    BY Difference
  <1>3. aluSum(a, b, ctl) = aluSum(a, b, 1)
    BY DEF aluSum
  <1>4. aluSum(a, b, ctl) % WordMod = d
    BY <1>2, <1>3, Difference
  <1>5. aluOverflow(a, b, ctl) <=> /\ ~ExclOr(TRUE, ExclOr(msb(a), msb(b)))
                                   /\ ExclOr(msb(a), msb(d))
    BY <1>4 DEF aluOverflow, ExclOr, msb
  <1>6. ExclOr(msb(d), ~ExclOr(TRUE, ExclOr(msb(a), msb(b))) /\ ExclOr(msb(a), msb(d)))
           <=> Signed(a) < Signed(b)
    BY <1>1 DEF msb, Signed, ExclOr
  <1> HIDE DEF d
  <1> QED
    BY <1>2, <1>5, <1>6 DEF ExclOr

\* Subtraction on the ALU and what its flags say of the operands.
LEMMA SubtractFlags ==
  ASSUME NEW a \in Word, NEW b \in Word
  PROVE  /\ alu(a, b, 1).result = Sub(a, b)
         /\ alu(a, b, 1).zero <=> a = b
         /\ alu(a, b, 1).carry <=> a >= b
         /\ ExclOr(alu(a, b, 1).negative, alu(a, b, 1).overflow)
              <=> Signed(a) < Signed(b)
  <1>1. WordMod \in Nat \ {0} /\ a \in 0 .. WordMod - 1 /\ b \in 0 .. WordMod - 1
    BY WordModPos DEF Word
  <1>2. aluResult(a, b, 1) = Sub(a, b)
    BY Difference DEF aluResult
  <1>3. Sub(a, b) = 0 <=> a = b
    BY <1>1, Difference
  <1> QED
    <2>1. alu(a, b, 1).result = Sub(a, b) /\ (alu(a, b, 1).zero <=> a = b)
      BY <1>2, <1>3 DEF alu
    <2>2. alu(a, b, 1).carry <=> a >= b
      <3>1. aluSum(a, b, 1) >= WordMod <=> a >= b
        BY Difference
      <3>2. alu(a, b, 1).carry = (1 \notin {2, 3, 6, 7} /\ aluSum(a, b, 1) >= WordMod)
        BY Zenon DEF alu
      <3>3. 1 \notin {2, 3, 6, 7}
        OBVIOUS
      <3> QED
        BY <3>1, <3>2, <3>3, Zenon
    <2>3. /\ alu(a, b, 1).negative <=> msb(Sub(a, b))
          /\ alu(a, b, 1).overflow <=> aluOverflow(a, b, 1)
      BY <1>2 DEF alu, msb, aluOverflow
    <2>4. ExclOr(msb(Sub(a, b)), aluOverflow(a, b, 1)) <=> Signed(a) < Signed(b)
      BY SignedLess
    <2> QED
      BY <2>1, <2>2, <2>3, <2>4 DEF ExclOr

\* Every conditional branch is decided as RV32I says, by the flags of the
\* difference of its operands.
THEOREM BranchDecision ==
  ASSUME NEW f3 \in 0 .. 7, NEW a \in Word, NEW b \in Word
  PROVE  BranchCondition(f3, alu(a, b, 1)) <=> Taken(f3, a, b)
  <1>1. Signed(a) \in Int /\ Signed(b) \in Int /\ a \in Int /\ b \in Int
    BY WordModPos DEF Signed, Word
  <1>2. /\ Signed(a) >= Signed(b) <=> ~(Signed(a) < Signed(b))
        /\ a < b <=> ~(a >= b)
    BY <1>1
  <1> QED
    BY <1>2, SubtractFlags DEF BranchCondition, Taken

\* The control the two decoders give the ALU makes it compute what the
\* instruction means.  In particular addi never subtracts, whatever bit 30 of
\* its immediate, and srai and srli are told apart by that bit.
THEOREM ArithmeticDecode ==
  ASSUME NEW ins \in Instr, ins.op \in {"op", "opimm"},
         NEW a \in Word, NEW b \in Word
  PROVE  aluResult(a, b, aludec(opb5(ins.op), ins.f3, ins.f7,
                                maindec(ins.op).ALUOp))
           = AluMeaning(ins, a, b)
  <1> DEFINE ctl == aludec(opb5(ins.op), ins.f3, ins.f7, maindec(ins.op).ALUOp)
  <1>1. maindec(ins.op).ALUOp = 2
    BY DEF maindec
  <1>2. opb5(ins.op) <=> ins.op = "op"
    BY DEF opb5
  <1>3. ins.f3 \in 0 .. 7
    BY DEF Instr
  <1>4. aluSum(a, b, 0) % WordMod = Add(a, b) /\ aluSum(a, b, 1) % WordMod = Sub(a, b)
        /\ aluSum(a, b, 5) = aluSum(a, b, 1)
    BY Difference DEF aluSum, Add
  <1>5. CASE ins.f3 = 0
    <2>1. ctl = IF ins.op = "op" /\ ins.f7 THEN 1 ELSE 0
      BY <1>1, <1>2, <1>5 DEF aludec
    <2> QED
      BY <1>4, <1>5, <2>1 DEF aluResult, AluMeaning
  <1>6. CASE ins.f3 = 2
    <2>1. ctl = 5
      BY <1>1, <1>6 DEF aludec
    <2>2. ExclOr(msb(Sub(a, b)), aluOverflow(a, b, 5)) <=> Signed(a) < Signed(b)
      BY SignedLess
    <2>3. aluResult(a, b, 5) = Bool2Word(ExclOr(msb(Sub(a, b)), aluOverflow(a, b, 5)))
      BY <1>4 DEF aluResult
    <2> QED
      BY <1>6, <2>1, <2>2, <2>3 DEF AluMeaning, Bool2Word
  <1>7. CASE ins.f3 = 5
    <2>1. ctl = IF ins.f7 THEN 6 ELSE 7
      BY <1>1, <1>7 DEF aludec
    <2> QED
      BY <1>7, <2>1 DEF aluResult, AluMeaning
  <1>8. CASE ins.f3 \in {1, 3, 4, 6, 7}
    <2>1. ctl = CASE ins.f3 = 1 -> 8 [] ins.f3 = 3 -> 9 [] ins.f3 = 4 -> 4
                  [] ins.f3 = 6 -> 3 [] OTHER -> 2
      BY <1>1, <1>8 DEF aludec
    <2> QED
      BY <1>8, <2>1 DEF aluResult, AluMeaning
  <1> QED
    BY <1>3, <1>5, <1>6, <1>7, <1>8

\* Addresses, auipc and jalr targets are sums.
LEMMA AddOnAlu ==
  ASSUME NEW a \in Word, NEW b \in Word PROVE aluResult(a, b, 0) = Add(a, b)
  BY DEF aluResult, aluSum, Add

LEMMA AluResultType ==
  ASSUME NEW a \in Word, NEW b \in Word, NEW ctl \in 0 .. 9
  PROVE  aluResult(a, b, ctl) \in Word
  <1>1. a \in Int /\ b \in Int /\ WordMod \in Nat \ {0}
    BY WordModPos DEF Word
  <1>2. aluSum(a, b, ctl) % WordMod \in Word
    BY <1>1, ModRange DEF aluSum, Word
  <1>3. \A p : Bool2Word(p) \in Word
    BY SmallWords DEF Bool2Word
  <1>4. /\ Sll(a, b) \in Word /\ Srl(a, b) \in Word /\ Sra(a, b) \in Word
        /\ BitAnd(a, b) \in Word /\ BitOr(a, b) \in Word /\ BitXor(a, b) \in Word
    BY BitOpAssumption
  <1> QED
    BY <1>2, <1>3, <1>4 DEF aluResult
-----------------------------------------------------------------------------
(***************************************************************************)
(* The byte lanes.                                                         *)
(***************************************************************************)
\* Every aligned load delivers the addressed bytes, extended as its width and
\* signedness say.
THEOREM LoadLanes ==
  ASSUME NEW f3 \in 0 .. 7, NEW off \in 0 .. 3, NEW w \in Word,
         f3 \in {1, 5} => off \in {0, 2}
  PROVE  load(TRUE, f3, off, w) = {LoadMeaning(f3, off, w)}
  <1>1. HalfAt(w, 0) = HalfOf(Byte1(w), Byte0(w))
        /\ HalfAt(w, 2) = HalfOf(Byte3(w), Byte2(w))
    BY DEF HalfAt, ByteAt
  <1> QED
    BY <1>1 DEF load, LoadMeaning

\* Every aligned store replaces exactly the addressed bytes of the old word.
THEOREM StoreLanes ==
  ASSUME NEW f3 \in 0 .. 7, NEW off \in 0 .. 3, NEW w \in Word, NEW v \in Word,
         f3 = 1 => off \in {0, 2}
  PROVE  store(TRUE, f3, off, w, v) = {StoreMeaning(f3, off, w, v)}
  <1>1. CASE f3 = 0
    <2>1. CASE off = 0
      BY <1>1, <2>1 DEF store, StoreMeaning, ByteAt
    <2>2. CASE off = 1
      BY <1>1, <2>2 DEF store, StoreMeaning, ByteAt
    <2>3. CASE off = 2
      BY <1>1, <2>3 DEF store, StoreMeaning, ByteAt
    <2>4. CASE off = 3
      BY <1>1, <2>4 DEF store, StoreMeaning, ByteAt
    <2>5. off = 0 \/ off = 1 \/ off = 2 \/ off = 3
      OBVIOUS
    <2> QED
      BY <2>1, <2>2, <2>3, <2>4, <2>5, Zenon
  <1>2. CASE f3 = 1
    <2>1. CASE off = 0
      BY <1>2, <2>1 DEF store, StoreMeaning, ByteAt
    <2>2. CASE off = 2
      BY <1>2, <2>2 DEF store, StoreMeaning, ByteAt
    <2> QED
      BY <1>2, <2>1, <2>2
  <1>3. CASE f3 \notin {0, 1}
    BY <1>3 DEF store, StoreMeaning
  <1> QED
    BY <1>1, <1>2, <1>3

\* Whatever the offset, the units drive words.
LEMMA LoadType ==
  ASSUME NEW isLoad \in BOOLEAN, NEW f3 \in 0 .. 7, NEW off \in 0 .. 3,
         NEW w \in Word
  PROVE  load(isLoad, f3, off, w) \subseteq Word
  <1>1. CASE isLoad /\ ~(f3 \in {1, 5} => off \in {0, 2})
    BY <1>1 DEF load
  <1>2. CASE isLoad /\ (f3 \in {1, 5} => off \in {0, 2})
    <2>1. isLoad = TRUE
      BY <1>2
    <2>2. load(TRUE, f3, off, w) \subseteq Word
      <3>1. LoadMeaning(f3, off, w) \in Word
        BY LoadMeaningType
      <3>2. load(TRUE, f3, off, w) = {LoadMeaning(f3, off, w)}
        BY <1>2, LoadLanes, Zenon
      <3> QED
        BY <3>1, <3>2, Zenon
    <2> QED
      BY <2>1, <2>2
  <1>3. CASE ~isLoad
    BY <1>3 DEF load
  <1> QED
    BY <1>1, <1>2, <1>3

LEMMA StoreType ==
  ASSUME NEW memWrite \in BOOLEAN, NEW f3 \in 0 .. 7, NEW off \in 0 .. 3,
         NEW w \in Word, NEW v \in Word
  PROVE  store(memWrite, f3, off, w, v) \subseteq Word
  <1>1. CASE memWrite /\ ~(f3 = 1 => off \in {0, 2})
    BY <1>1 DEF store
  <1>2. CASE memWrite /\ (f3 = 1 => off \in {0, 2})
    <2>1. memWrite = TRUE
      BY <1>2
    <2>2. store(TRUE, f3, off, w, v) \subseteq Word
      <3>1. StoreMeaning(f3, off, w, v) \in Word
        BY StoreMeaningType
      <3>2. store(TRUE, f3, off, w, v) = {StoreMeaning(f3, off, w, v)}
        BY <1>2, StoreLanes, Zenon
      <3> QED
        BY <3>1, <3>2, Zenon
    <2> QED
      BY <2>1, <2>2
  <1>3. CASE ~memWrite
    BY <1>3 DEF store
  <1> QED
    BY <1>1, <1>2, <1>3
=============================================================================
