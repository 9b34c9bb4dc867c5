------------------------------- MODULE MCPs7Init -------------------------------
(***************************************************************************)
(* Small instances of the boot code.  The cpu runs at 4 kHz, two timer     *)
(* periods a millisecond, and its words hold 2^14 values.                  *)
(***************************************************************************)
EXTENDS Ps7Init

\* Tables of a caller: two delays in a row that fit a word, a cleared
\* register, and a table with no valid opcode.
Tables ==
  { << MASKDELAY("TIMER", 2), MASKDELAY("TIMER", 3), EXIT >>,
    << CLEAR("CTI"), EXIT >>,
    << [opcode |-> "NOP"] >> }
================================================================================
