---------------------------- MODULE MCRvPipeline ----------------------------
(***************************************************************************)
(* Small instances of the pipelined core: a four-word instruction memory   *)
(* filled in every way from a pool, and a four-word data memory.           *)
(***************************************************************************)
EXTENDS RvPipeline, MCPrograms

MCInit ==
  /\ \E pool \in Pools : imem \in [WordIndexes -> pool]
  /\ \E t \in StartMems : dmem = [i \in WordIndexes |-> t[i + 1]]
  /\ \E t \in StartRegs : rf = [r \in Reg |-> t[r + 1]]
  /\ clk = 0 /\ PCF = 0
  /\ D = DZero /\ E = EZero /\ M = MZero /\ W = WZero /\ h = HZero

MCSpec == MCInit /\ [][Next]_vars

\* Programs of the memory pool run once from power-up, and are not followed
\* further when they have left what RV32I specifies.
MemoryProgram == \A i \in WordIndexes : imem[i] \in MemoryPool
CoreSpec == MCInit /\ [][Posedge \/ Negedge \/ (~MemoryProgram /\ Reset)]_vars
Followed == MemoryProgram => ~h.outside

\* The clock never stops.
MCFairSpec == MCSpec /\ WF_vars(Posedge) /\ WF_vars(Negedge)
=============================================================================
