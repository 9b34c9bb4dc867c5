-------------------------------- MODULE RvIsa -------------------------------
(***************************************************************************)
(* The abstract machine the cores promise to be: it executes the           *)
(* instruction at pc completely, then the next one.                        *)
(***************************************************************************)
EXTENDS RvSem

VARIABLES
  prog,      \* the instruction memory, one instruction per word; never written
  pc,        \* address of the next instruction to execute
  regs,      \* the registers; regs[0] = 0
  mem,       \* the data memory, one word per word index
  outside    \* TRUE after an instruction left what is specified (see Aligned)

vars == <<prog, pc, regs, mem, outside>>

TypeOK ==
  /\ prog    \in [WordIndexes -> Instr]
  /\ pc      \in Word
  /\ regs    \in [Reg -> Word]
  /\ mem     \in [WordIndexes -> Word]
  /\ outside \in BOOLEAN

Init == TypeOK /\ pc = 0 /\ regs[0] = 0 /\ outside = FALSE

\* One whole instruction.
Execute ==
  LET ins  == prog[WordIndex(pc)]
      a    == regs[ins.rs1]
      b    == regs[ins.rs2]
      addr == AddressOf(ins, a)
      i    == WordIndex(addr)
  IN  /\ Aligned(ins, pc, a, b)
      /\ pc' = NextPC(ins, pc, a, b)
      /\ regs' = IF WritesRd(ins) /\ ins.rd # 0
                 THEN [regs EXCEPT ![ins.rd] = ResultOf(ins, pc, a, b, mem[i])]
                 ELSE regs
      /\ mem' = IF ins.op = "store"
                THEN [mem EXCEPT ![i] = StoreMeaning(ins.f3, ByteOffset(addr),
                                                     mem[i], b)]
                ELSE mem
      /\ UNCHANGED <<prog, outside>>

Step == ~outside /\ Execute

\* A misaligned access or target: nothing is promised until the next reset.
Leave ==
  LET ins == prog[WordIndex(pc)]
  IN  /\ outside \/ ~Aligned(ins, pc, regs[ins.rs1], regs[ins.rs2])
      /\ outside' = TRUE
      /\ pc'   \in Word
      /\ regs' \in [Reg -> Word]
      /\ mem'  \in [WordIndexes -> Word]
      /\ UNCHANGED prog

\* Reset restarts the program.  Memory and registers keep their contents,
\* except that one register is left with any word: the pipelined core may lose
\* the write that is under way, and the board's single-cycle core may write the
\* register of the instruction at hand with a word that is none of its result.
Reset ==
  /\ pc' = 0
  /\ outside' = FALSE
  /\ regs' \in [Reg -> Word]
  /\ \E r \in Reg : \A q \in Reg \ {r} : regs'[q] = regs[q]
  /\ UNCHANGED <<prog, mem>>

Next == Step \/ Leave \/ Reset

Spec == Init /\ [][Next]_vars
=============================================================================
