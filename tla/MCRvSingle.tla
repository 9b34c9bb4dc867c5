----------------------------- MODULE MCRvSingle -----------------------------
(***************************************************************************)
(* Small instances of the single-cycle core, over the same programs.       *)
(***************************************************************************)
EXTENDS RvSingle, MCPrograms

MCInit ==
  /\ \E pool \in Pools : imem \in [WordIndexes -> pool]
  /\ \E t \in StartMems : dmem = [i \in WordIndexes |-> t[i + 1]]
  /\ \E t \in StartRegs : rf = [r \in Reg |-> t[r + 1]]
  /\ PC = 0 /\ outside = FALSE

\* A program that has left what RV32I specifies is not followed further.
Specified == ~outside

MCSpec     == MCInit /\ [][Next]_vars
MCSafeSpec == MCInit /\ [][Reset \/ (Posedge /\ ~TopByteStore)]_vars
=============================================================================
