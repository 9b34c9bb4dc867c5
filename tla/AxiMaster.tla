------------------------------ MODULE AxiMaster ------------------------------
(***************************************************************************)
(* The AXI converter of the board design: the AXI4 master that performs    *)
(* one single-beat transaction per start pulse (C_M_AXI_BURST_LEN = 1).    *)
(* init_txn_ff and init_txn_ff2 are clocked by falling edges, every other  *)
(* register by rising edges.  The burst counters, which stay 0 with one    *)
(* beat per burst, and the example design's read checker, which drives no  *)
(* output, are left out.                                                   *)
(***************************************************************************)
EXTENDS Naturals

CONSTANTS AddrMod,   \* number of word addresses of the bus
          BaseAddr,  \* C_M_TARGET_SLAVE_BASE_ADDR, in words
          Data       \* the words

ASSUME BusAssumption == AddrMod \in Nat \ {0} /\ BaseAddr \in Nat

Addr == 0 .. AddrMod - 1
\* Mutant: the sum is wider than the bus address.
TargetWide(a) == BaseAddr + a
\* M_AXI_AWADDR and M_AXI_ARADDR of the addresses held in the registers.
Target(a) == (BaseAddr + a) % AddrMod

VARIABLES
  init_txn_ff, init_txn_ff2,
  mst_exec_state, start_single_burst_write, start_single_burst_read,
  compare_done, ERROR,
  axi_awvalid, axi_awaddr, axi_wvalid, axi_wlast, axi_wdata, axi_bready,
  axi_arvalid, axi_araddr, axi_rready, data_out,
  error_reg, burst_write_active, writes_done, burst_read_active, reads_done

startVars    == <<init_txn_ff, init_txn_ff2>>
sequencerVars == <<mst_exec_state, start_single_burst_write,
                   start_single_burst_read, compare_done, ERROR>>
writeVars    == <<axi_awvalid, axi_awaddr, axi_wvalid, axi_wlast, axi_wdata,
                  axi_bready, burst_write_active, writes_done>>
readVars     == <<axi_arvalid, axi_araddr, axi_rready, data_out,
                  burst_read_active, reads_done>>
masterVars   == <<startVars, sequencerVars, writeVars, readVars, error_reg>>

ExecStates == {"IDLE", "INIT_WRITE", "INIT_READ"}

AxiTypeOK ==
  /\ \A b \in {init_txn_ff, init_txn_ff2, start_single_burst_write,
               start_single_burst_read, compare_done, ERROR, axi_awvalid,
               axi_wvalid, axi_wlast, axi_bready, axi_arvalid, axi_rready,
               error_reg, burst_write_active, writes_done,
               burst_read_active, reads_done} : b \in BOOLEAN
  /\ mst_exec_state \in ExecStates
  /\ axi_awaddr \in Addr /\ axi_araddr \in Addr
  /\ axi_wdata \in Data /\ data_out \in Data

\* The registers after M_AXI_ARESETN, which belongs to the power-up of the
\* processing system.
AxiInit ==
  /\ init_txn_ff = FALSE /\ init_txn_ff2 = FALSE
  /\ mst_exec_state = "IDLE"
  /\ start_single_burst_write = FALSE /\ start_single_burst_read = FALSE
  /\ compare_done = TRUE /\ ERROR = FALSE
  /\ axi_awvalid = FALSE /\ axi_wvalid = FALSE /\ axi_wlast = FALSE
  /\ axi_bready = FALSE /\ axi_arvalid = FALSE /\ axi_rready = FALSE
  /\ axi_awaddr \in Addr /\ axi_araddr = axi_awaddr
  /\ axi_wdata \in Data /\ data_out \in Data
  /\ error_reg = FALSE
  /\ burst_write_active = FALSE /\ writes_done = FALSE
  /\ burst_read_active = FALSE /\ reads_done = FALSE

-----------------------------------------------------------------------------

\* Mutant: the pulse comes one falling edge later.
init_txn_pulseLate == init_txn_ff2 /\ ~init_txn_ff
init_txn_pulse == ~init_txn_ff2 /\ init_txn_ff

TXN_DONE == compare_done

\* Generate a pulse to initiate an AXI transaction.
InitTxn(INIT_AXI_TXN) ==
  /\ init_txn_ff' = INIT_AXI_TXN
  /\ init_txn_ff2' = init_txn_ff

\* Mutant: VALID lasts one cycle, accepted or not.
WriteAddressPulse(awready, address) ==
  /\ axi_awvalid' = (/\ ~init_txn_pulse
                     /\ ~axi_awvalid /\ start_single_burst_write)
  /\ axi_awaddr' = IF init_txn_pulse \/ (awready /\ axi_awvalid)
                   THEN address ELSE axi_awaddr

WriteAddress(awready, address) ==
  /\ axi_awvalid' = (/\ ~init_txn_pulse
                     /\ \/ ~axi_awvalid /\ start_single_burst_write
                        \/ axi_awvalid /\ ~awready)
  /\ axi_awaddr' = IF init_txn_pulse \/ (awready /\ axi_awvalid)
                   THEN address ELSE axi_awaddr

\* With one beat per burst, wlast is set from the edge after the pulse on.
WriteChannel(wready, data_in) ==
  /\ axi_wvalid' = (/\ ~init_txn_pulse
                    /\ \/ ~axi_wvalid /\ start_single_burst_write
                       \/ axi_wvalid /\ ~(wready /\ axi_wlast))
  /\ axi_wlast' = ~init_txn_pulse
  /\ axi_wdata' = IF init_txn_pulse \/ (wready /\ axi_wvalid)
                  THEN data_in ELSE axi_wdata

WriteResponse(bvalid) ==
  axi_bready' = (~init_txn_pulse /\ bvalid /\ ~axi_bready)

ReadAddress(arready, address) ==
  /\ axi_arvalid' = (/\ ~init_txn_pulse
                     /\ \/ ~axi_arvalid /\ start_single_burst_read
                        \/ axi_arvalid /\ ~arready)
  /\ axi_araddr' = IF init_txn_pulse \/ (arready /\ axi_arvalid)
                   THEN address ELSE axi_araddr

\* RLAST comes with every beat of a one-beat burst.  busData is what RDATA
\* carries, valid or not: the pulse captures it too.
ReadChannel(rvalid, busData) ==
  /\ axi_rready' = (/\ ~init_txn_pulse
                    /\ IF rvalid THEN ~axi_rready ELSE axi_rready)
  /\ data_out' = IF init_txn_pulse \/ (rvalid /\ axi_rready)
                 THEN busData ELSE data_out

\* The error register holds any error response of the transaction.
Errors(bvalid, berr, rvalid, rerr) ==
  error_reg' = (/\ ~init_txn_pulse
                /\ \/ error_reg
                   \/ axi_bready /\ bvalid /\ berr
                   \/ axi_rready /\ rvalid /\ rerr)

\* Mutant: the read beat is compared with the number of beats.
CompletionOffByOne(bvalid, rvalid) ==
  /\ writes_done' = (~init_txn_pulse /\ (writes_done \/ (bvalid /\ axi_bready)))
  /\ reads_done' = (~init_txn_pulse /\ reads_done)

Completion(bvalid, rvalid) ==
  /\ writes_done' = (~init_txn_pulse /\ (writes_done \/ (bvalid /\ axi_bready)))
  /\ reads_done' = (~init_txn_pulse /\ (reads_done \/ (rvalid /\ axi_rready)))

\* Mutant: the burst counts as over once its address is accepted.
BurstActiveShort(bvalid, rvalid) ==
  /\ burst_write_active' = (/\ ~init_txn_pulse
                            /\ \/ start_single_burst_write
                               \/ burst_write_active /\ axi_awvalid)
  /\ burst_read_active' = (/\ ~init_txn_pulse
                           /\ \/ start_single_burst_read
                              \/ burst_read_active /\ axi_arvalid)

BurstActive(bvalid, rvalid) ==
  /\ burst_write_active' = (/\ ~init_txn_pulse
                            /\ \/ start_single_burst_write
                               \/ burst_write_active /\ ~(bvalid /\ axi_bready))
  /\ burst_read_active' = (/\ ~init_txn_pulse
                           /\ \/ start_single_burst_read
                              \/ burst_read_active /\ ~(rvalid /\ axi_rready))

\* MASTER_EXECUTION_PROC
ExecIdle(write_nread) ==
  /\ mst_exec_state = "IDLE"
  /\ UNCHANGED <<start_single_burst_write, start_single_burst_read>>
  /\ IF init_txn_pulse
     THEN /\ mst_exec_state' = IF write_nread THEN "INIT_WRITE" ELSE "INIT_READ"
          /\ ERROR' = FALSE /\ compare_done' = FALSE
     ELSE UNCHANGED <<mst_exec_state, ERROR, compare_done>>

ExecWrite ==
  /\ mst_exec_state = "INIT_WRITE"
  /\ UNCHANGED start_single_burst_read
  /\ IF writes_done
     THEN /\ mst_exec_state' = "IDLE"
          /\ compare_done' = TRUE /\ ERROR' = error_reg
          /\ UNCHANGED start_single_burst_write
     ELSE /\ start_single_burst_write' =
               (~axi_awvalid /\ ~start_single_burst_write /\ ~burst_write_active)
          /\ UNCHANGED <<mst_exec_state, compare_done, ERROR>>

ExecRead ==
  /\ mst_exec_state = "INIT_READ"
  /\ UNCHANGED start_single_burst_write
  /\ IF reads_done
     THEN /\ mst_exec_state' = "IDLE"
          /\ compare_done' = TRUE /\ ERROR' = error_reg
          /\ UNCHANGED start_single_burst_read
     ELSE /\ start_single_burst_read' =
               (~axi_arvalid /\ ~burst_read_active /\ ~start_single_burst_read)
          /\ UNCHANGED <<mst_exec_state, compare_done, ERROR>>

Exec(write_nread) == ExecIdle(write_nread) \/ ExecWrite \/ ExecRead
=============================================================================
