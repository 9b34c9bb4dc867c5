--------------------------- MODULE MCBoardPipeline ---------------------------
(***************************************************************************)
(* A small instance of the board's pipelined core.                         *)
(***************************************************************************)
EXTENDS BoardPipeline, MCPrograms

MCInit ==
  /\ \E pool \in Pools : imem \in [WordIndexes -> pool]
  /\ \E t \in StartMems : mem = [a \in Addr |-> t[a + 1]]
  /\ \E t \in StartRegs : rf = [r \in Reg |-> t[r + 1]]
  /\ PCF = 0 /\ MemStrobeM = FALSE
  /\ D = Core!DZero /\ E = Core!EZero /\ M = Core!MZero /\ W = Core!WZero
  /\ h = Core!HZero
  /\ clk = 0 /\ reset = FALSE
  /\ state = "Idle" /\ AxiInit
  /\ axi_awaddr = 0 /\ axi_wdata = 0 /\ data_out = 0
  /\ aws = << >> /\ ws = << >> /\ ars = << >>
  /\ bvalid = FALSE /\ bokay = TRUE
  /\ rvalid = FALSE /\ rokay = TRUE /\ rdata = 0

MCSpec == MCInit /\ [][Posedge \/ Negedge]_vars
================================================================================
