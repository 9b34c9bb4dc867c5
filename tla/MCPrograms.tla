----------------------------- MODULE MCPrograms -----------------------------
(***************************************************************************)
(* Small words and programs for both cores: 4-bit words of four 1-bit      *)
(* lanes, three registers, and pools of instructions that programs of four *)
(* are made of.  The program counter wraps around: every program is a loop.*)
(***************************************************************************)
EXTENDS RvUnits, Bitwise

CONSTANTS Pools,      \* sets of instructions; a program is made of one of them
          StartRegs,  \* register files at start-up
          StartMems   \* data memories at start-up

MCAnd(a, b) == a & b
MCOr(a, b)  == a | b
MCXor(a, b) == a ^^ b
\* Shift amounts are the low two bits of a 4-bit word.
MCSll(a, b) == (a * 2 ^ (b % 4)) % WordMod
MCSrl(a, b) == a \div 2 ^ (b % 4)
MCSra(a, b) == (Signed(a) \div 2 ^ (b % 4)) % WordMod

I(op, f3, f7, rd, rs1, rs2, imm) ==
  [op |-> op, f3 |-> f3, f7 |-> f7, rd |-> rd, rs1 |-> rs1, rs2 |-> rs2,
   imm |-> imm]

\* Operands that depend on the one or two instructions before them.
ForwardingPool ==
  {I("op", 0, FALSE, 1, 1, 2, 0),        \* add  x1, x1, x2
   I("op", 0, TRUE, 2, 1, 2, 0),         \* sub  x2, x1, x2
   I("opimm", 0, TRUE, 1, 2, 1, 13),     \* addi x1, x2, -3
   I("op", 2, FALSE, 2, 2, 1, 0),        \* slt  x2, x2, x1
   I("opimm", 4, FALSE, 0, 1, 2, 5),     \* xori x0, x1, 5
   I("lui", 1, FALSE, 1, 2, 0, 8),       \* lui  x1, 8
   I("auipc", 0, FALSE, 2, 0, 1, 4),     \* auipc x2, 4
   I("op", 3, FALSE, 1, 0, 1, 0)}        \* sltu x1, x0, x1

\* Loads and stores of every width and their consumers.
MemoryPool ==
  {I("load", 2, FALSE, 1, 0, 1, 4),      \* lw  x1, 4(x0)
   I("load", 0, FALSE, 2, 1, 2, 1),      \* lb  x2, 1(x1)
   I("load", 5, FALSE, 1, 2, 0, 2),      \* lhu x1, 2(x2)
   I("store", 2, FALSE, 1, 0, 1, 4),     \* sw  x1, 4(x0)
   I("store", 0, FALSE, 2, 1, 2, 3),     \* sb  x2, 3(x1)
   I("store", 1, FALSE, 1, 1, 2, 2),     \* sh  x2, 2(x1)
   I("op", 0, FALSE, 2, 1, 2, 0),        \* add x2, x1, x2
   I("opimm", 0, FALSE, 1, 1, 1, 1)}     \* addi x1, x1, 1

\* Control transfers, their link values and the operands they compare.
ControlPool ==
  {I("branch", 0, FALSE, 1, 1, 2, 8),    \* beq  x1, x2, +8
   I("branch", 4, FALSE, 2, 1, 2, 12),   \* blt  x1, x2, -4
   I("branch", 7, FALSE, 1, 2, 1, 0),    \* bgeu x2, x1, 0
   I("jal", 0, FALSE, 1, 2, 1, 8),       \* jal  x1, +8
   I("jalr", 0, FALSE, 2, 1, 2, 4),      \* jalr x2, 4(x1)
   I("load", 2, FALSE, 1, 0, 1, 4),      \* lw   x1, 4(x0)
   I("store", 2, FALSE, 1, 0, 2, 4),     \* sw   x2, 4(x0)
   I("op", 0, FALSE, 2, 1, 2, 0),        \* add  x2, x1, x2
   I("opimm", 0, FALSE, 1, 2, 1, 4)}     \* addi x1, x2, 4

\* Stores, loads and register writes that a reset may interrupt.
ResetPool ==
  {I("store", 2, FALSE, 1, 1, 2, 4),     \* sw   x2, 4(x1)
   I("load", 2, FALSE, 2, 0, 2, 8),      \* lw   x2, 8(x0)
   I("opimm", 0, FALSE, 1, 1, 0, 4),     \* addi x1, x1, 4
   I("jal", 0, FALSE, 2, 1, 0, 12)}      \* jal  x2, -4

\* What stalls, flushes and loops: a load and its consumer, lui, a branch to
\* itself.
StallPool ==
  {I("load", 2, FALSE, 1, 1, 2, 4),      \* lw   x1, 4(x1)
   I("lui", 0, FALSE, 2, 2, 2, 4),       \* lui  x2, 4
   I("branch", 0, FALSE, 0, 1, 1, 0)}    \* beq  x1, x1, 0

\* A loop of every kind of instruction for the single-cycle core.
MixedPool ==
  {I("load", 1, FALSE, 1, 2, 0, 2),      \* lh   x1, 2(x2)
   I("load", 4, FALSE, 2, 1, 0, 1),      \* lbu  x2, 1(x1)
   I("store", 0, FALSE, 1, 1, 2, 2),     \* sb   x2, 2(x1)
   I("store", 1, FALSE, 1, 2, 1, 2),     \* sh   x1, 2(x2)
   I("store", 2, FALSE, 1, 0, 1, 4),     \* sw   x1, 4(x0)
   I("opimm", 0, TRUE, 1, 2, 1, 13),     \* addi x1, x2, -3
   I("opimm", 5, TRUE, 2, 1, 1, 1),      \* srai x2, x1, 1
   I("op", 0, TRUE, 2, 1, 2, 0),         \* sub  x2, x1, x2
   I("op", 2, FALSE, 0, 2, 1, 0),        \* slt  x0, x2, x1
   I("branch", 5, FALSE, 2, 1, 2, 12),   \* bge  x1, x2, -4
   I("jalr", 0, FALSE, 2, 1, 2, 4),      \* jalr x2, 4(x1)
   I("lui", 0, FALSE, 1, 2, 0, 8),       \* lui  x1, 8
   I("auipc", 0, FALSE, 2, 1, 1, 4)}     \* auipc x2, 4

\* Byte stores at every offset.
ByteStorePool ==
  {I("store", 0, FALSE, 1, 1, 2, 3),     \* sb   x2, 3(x1)
   I("opimm", 0, FALSE, 1, 1, 0, 1)}     \* addi x1, x1, 1

\* auipc whose immediate bits [19:15] name a register written just before.
AliasPool ==
  {I("auipc", 0, FALSE, 2, 1, 0, 4),     \* auipc x2, with rs1 bits = 1
   I("opimm", 0, FALSE, 1, 1, 0, 4),     \* addi x1, x1, 4
   I("opimm", 0, FALSE, 2, 2, 0, 1)}     \* addi x2, x2, 1

\* Memory instructions for the board, and what tells their effects apart.
BoardLoads ==
  {I("load", 2, FALSE, 2, 1, 0, 0),      \* lw   x2, 0(x1)
   I("opimm", 0, FALSE, 1, 1, 0, 4)}     \* addi x1, x1, 4
BoardStores ==
  {I("store", 2, FALSE, 1, 1, 2, 4),     \* sw   x2, 4(x1)
   I("opimm", 0, FALSE, 1, 1, 0, 4)}     \* addi x1, x1, 4
BoardCopies ==
  {I("load", 2, FALSE, 2, 1, 0, 0),      \* lw   x2, 0(x1)
   I("store", 2, FALSE, 1, 1, 2, 4)}     \* sw   x2, 4(x1)
BoardBytes ==
  {I("load", 0, FALSE, 1, 0, 1, 5),      \* lb   x1, 5(x0)
   I("store", 0, FALSE, 1, 0, 2, 5)}     \* sb   x2, 5(x0)

\* A load and its consumer.
BoardLoadUse ==
  {I("load", 2, FALSE, 2, 1, 0, 0),      \* lw   x2, 0(x1)
   I("op", 0, FALSE, 1, 1, 2, 0)}        \* add  x1, x1, x2

\* The pools of a run.
BoardLoadUsePools == {BoardLoadUse}
BoardPools      == {BoardLoads, BoardStores, BoardCopies, BoardBytes}
CorePools       == {ForwardingPool, MemoryPool, ControlPool}
ResetStallPools == {ResetPool, StallPool}
MixedPools      == {MixedPool}
ByteStorePools  == {ByteStorePool}
AliasPools      == {AliasPool}

\* rf[0] is whatever the flip-flops hold: 7 shows that it is never read.
OneStart  == {<<7, 4, 9>>}
TwoStarts == {<<7, 4, 9>>, <<7, 12, 12>>}
OneMem    == {<<3, 12, 6, 9>>}
=============================================================================
