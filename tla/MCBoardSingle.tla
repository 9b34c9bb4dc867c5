---------------------------- MODULE MCBoardSingle ----------------------------
(***************************************************************************)
(* A small instance of the board's single-cycle core: programs of four     *)
(* instructions over the data memory behind a slave that takes any time.   *)
(***************************************************************************)
EXTENDS BoardSingle, MCPrograms

MCInit ==
  /\ \E pool \in Pools : imem \in [WordIndexes -> pool]
  /\ \E t \in StartMems : mem = [a \in Addr |-> t[a + 1]]
  /\ \E t \in StartRegs : rf = [r \in Reg |-> t[r + 1]]
  /\ PC = 0 /\ clk = 1 /\ reset = FALSE
  /\ state = "Idle" /\ AxiInit
  /\ axi_awaddr = 0 /\ axi_wdata = 0 /\ data_out = 0
  /\ aws = << >> /\ ws = << >> /\ ars = << >>
  /\ bvalid = FALSE /\ bokay = TRUE
  /\ rvalid = FALSE /\ rokay = TRUE /\ rdata = 0

MCSafeSpec == /\ MCInit /\ (Begins => BoardSafe)
              /\ [][Next /\ (Begins' => BoardSafe')]_vars
================================================================================
