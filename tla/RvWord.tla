------------------------------- MODULE RvWord -------------------------------
(***************************************************************************)
(* The words the cores compute on.  The RTL fixes 8-bit bytes and 32-bit   *)
(* words; here a byte has ByteMod values and a word is four bytes, so that *)
(* ByteMod = 256 is the hardware and ByteMod = 2 is a machine with the     *)
(* same structure (four byte lanes, two halfword lanes, a sign bit, wrap   *)
(* around at the word size) that is small enough to enumerate.             *)
(***************************************************************************)
EXTENDS Integers

CONSTANTS
  ByteMod,        \* number of values of one byte lane
  BitAnd(_, _),   \* the Verilog operators & | ^ on words
  BitOr(_, _),
  BitXor(_, _),
  Sll(_, _),      \* the Verilog operators << >> >>>, by the low bits of the
  Srl(_, _),      \*   second operand (b[4:0] for 32-bit words)
  Sra(_, _)

WordMod == ByteMod * ByteMod * ByteMod * ByteMod
Word    == 0 .. WordMod - 1
Byte    == 0 .. ByteMod - 1

\* Bytes have at least one bit, so bytes, halfwords and words have a sign bit.
ASSUME ByteModAssumption ==
  /\ ByteMod \in Nat \ {0}
  /\ ByteMod % 2 = 0

\* The bitwise operators and the shifts return words.
ASSUME BitOpAssumption ==
  \A a, b \in Word : /\ BitAnd(a, b) \in Word
                     /\ BitOr(a, b)  \in Word
                     /\ BitXor(a, b) \in Word
                     /\ Sll(a, b)    \in Word
                     /\ Srl(a, b)    \in Word
                     /\ Sra(a, b)    \in Word

\* adder: a 32-bit sum drops its carry.
Add(a, b) == (a + b) % WordMod
Sub(a, b) == (a - b) % WordMod

\* A word read as a two's complement number.
Signed(a) == IF 2 * a < WordMod THEN a ELSE a - WordMod

Bool2Word(p) == IF p THEN 1 ELSE 0
ExclOr(p, q)    == (p /\ ~q) \/ (~p /\ q)

\* A field of m values extended to a word with copies of its top bit.
SignExtend(x, m) == IF 2 * x < m THEN x ELSE x + (WordMod - m)

\* Verilog's concatenation {b3, b2, b1, b0} of four bytes ...
Cat(b3, b2, b1, b0) ==
  b0 + ByteMod * (b1 + ByteMod * (b2 + ByteMod * b3))

\* ... and the byte lanes w[7:0], w[15:8], w[23:16], w[31:24].
Byte0(w) == w % ByteMod
Byte1(w) == (w \div ByteMod) % ByteMod
Byte2(w) == (w \div (ByteMod * ByteMod)) % ByteMod
Byte3(w) == (w \div (ByteMod * ByteMod * ByteMod)) % ByteMod

\* The halfword lane whose bytes are hi and lo.
HalfOf(hi, lo) == lo + ByteMod * hi

\* Word index and byte offset of an address: a[31:2] and a[1:0].
WordIndex(a)  == a \div 4
ByteOffset(a) == a % 4
WordIndexes   == 0 .. ((WordMod - 1) \div 4)
=============================================================================
