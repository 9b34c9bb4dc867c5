----------------------------- MODULE BoardMemory -----------------------------
(***************************************************************************)
(* The memory path of the board design: the core's memory port (top.v),    *)
(* its controller, the AXI converter and the memory behind it, all on one  *)
(* clock.  The core is reduced to its port: it presents the request of its *)
(* instruction, waits while PCReady is low and goes on at a rising edge    *)
(* with PCReady high.                                                      *)
(* Reset is the button btn0, which nothing synchronises to the clock and   *)
(* which reaches the core and the controller but not the converter.        *)
(***************************************************************************)
EXTENDS MemControl, AxiSlave

VARIABLES clk,      \* level of FCLK_CLK0
          reset,    \* level of btn0
          request   \* MStrobe, MemWrite, addressM and writeDataM

vars == <<state, masterVars, slaveVars, clk, reset, request>>

\* steady: address and data do not depend on anything that changes while the
\* instruction waits.  They do where a load replaces its own base register,
\* which is written at every rising edge, ready or not, and where sb and sh
\* merge their bytes into data_out.
Requests == [strobe : BOOLEAN, write : BOOLEAN, addr : Addr, data : Data,
             steady : BOOLEAN]

MStrobe  == request.strobe
MemWrite == request.write
PCReady  == Done

TypeOK ==
  /\ state \in States
  /\ AxiTypeOK /\ SlaveTypeOK
  /\ clk \in {0, 1} /\ reset \in BOOLEAN
  /\ request \in Requests

\* Power-up: the registers as configured, the bus after its own reset.
Init ==
  /\ state = "Idle"
  /\ AxiInit /\ SlaveInit
  /\ clk \in {0, 1} /\ reset \in BOOLEAN
  /\ request \in Requests

-----------------------------------------------------------------------------

\* The core's pc advances only with PCReady; while it waits, an unsteady
\* request drifts.  Under reset the core shows its first instruction, whose
\* operands may still change.
CoreStep ==
  \/ (reset \/ PCReady) /\ request' \in Requests
  \/ ~reset /\ ~PCReady /\ request.steady /\ UNCHANGED request
  \/ /\ ~reset /\ ~PCReady /\ ~request.steady
     /\ \E a \in Addr, d \in Data :
          request' = [request EXCEPT !.addr = a, !.data = d]

\* Rising edge of the converter and the slave, with the request the core
\* shows before the edge.  awready, wready and arready are the slave's ready
\* lines; commit and answer say whether it completes a write or a read at this
\* edge, and okay with which response.
MemoryRise(awready, wready, arready, commit, answer, okay) ==
  /\ clk = 0 /\ clk' = 1
  /\ SlaveMay(awready, wready, arready, commit, answer)
  /\ WriteAddress(awready, request.addr)
  /\ WriteChannel(wready, request.data)
  /\ WriteResponse(bvalid)
  /\ ReadAddress(arready, request.addr)
  /\ \E busData \in (IF rvalid THEN {rdata} ELSE Data) :
       ReadChannel(rvalid, busData)
  /\ Errors(bvalid, ~bokay, rvalid, ~rokay)
  /\ Completion(bvalid, rvalid)
  /\ BurstActive(bvalid, rvalid)
  /\ Exec(DRW)
  /\ SlaveWrite(awready, wready, commit, okay)
  /\ SlaveRead(arready, answer, okay)
  /\ UNCHANGED <<state, startVars, reset>>

Rise(awready, wready, arready, commit, answer, okay) ==
  MemoryRise(awready, wready, arready, commit, answer, okay) /\ CoreStep

Posedge ==
  \E awready, wready, arready, commit, answer \in BOOLEAN, okay \in Responses :
    Rise(awready, wready, arready, commit, answer, okay)

\* Falling edge: the controller and the start pulse.
Negedge ==
  /\ clk = 1 /\ clk' = 0
  /\ MemControlNegedge(MStrobe, MemWrite, TXN_DONE, reset)
  /\ InitTxn(AXIstart)
  /\ UNCHANGED <<sequencerVars, writeVars, readVars, error_reg, slaveVars,
                 reset, request>>

\* The button.  The core's registers clear at once.
Press ==
  /\ ~reset /\ reset' = TRUE
  /\ request' \in Requests
  /\ UNCHANGED <<state, masterVars, slaveVars, clk>>

Release ==
  /\ reset /\ reset' = FALSE
  /\ UNCHANGED <<state, masterVars, slaveVars, clk, request>>

Next == Posedge \/ Negedge \/ Press \/ Release
Spec == Init /\ [][Next]_vars

-----------------------------------------------------------------------------
\* A clean reset: pressed while the controller is idle, released while the
\* clock is high, so that the controller sees the first request before the
\* core goes past it.
CleanInit == Init /\ (reset \/ clk = 1)
CleanNext == \/ Posedge
             \/ Negedge
             \/ Press /\ state = "Idle"
             \/ Release /\ clk = 1

\* The specification of the promises below: clean resets, and a program of
\* word accesses whose loads keep their base register.
CleanSpec == /\ CleanInit /\ request.steady
             /\ [][CleanNext /\ request'.steady]_vars

\* The clock never stops, and the slave serves each of its channels again
\* and again, as AXI4 asks of it.
Fairness ==
  /\ WF_vars(Posedge) /\ WF_vars(Negedge)
  /\ SF_vars(\E a, b, c, d \in BOOLEAN, ok \in Responses :
                Rise(TRUE, a, b, c, d, ok))
  /\ SF_vars(\E a, b, c, d \in BOOLEAN, ok \in Responses :
                Rise(a, TRUE, b, c, d, ok))
  /\ SF_vars(\E a, b, c, d \in BOOLEAN, ok \in Responses :
                Rise(a, b, TRUE, c, d, ok))
  /\ SF_vars(\E a, b, c, d \in BOOLEAN, ok \in Responses :
                Rise(a, b, c, TRUE, d, ok))
  /\ SF_vars(\E a, b, c, d \in BOOLEAN, ok \in Responses :
                Rise(a, b, c, d, TRUE, ok))
FairCleanSpec == CleanSpec /\ Fairness

-----------------------------------------------------------------------------
\* Correctness.

\* The converter and the slave with no transaction between them.
Quiet ==
  /\ mst_exec_state = "IDLE" /\ compare_done
  /\ ~start_single_burst_write /\ ~start_single_burst_read
  /\ ~axi_awvalid /\ ~axi_wvalid /\ ~axi_bready
  /\ ~axi_arvalid /\ ~axi_rready
  /\ ~burst_write_active /\ ~burst_read_active
  /\ aws = << >> /\ ws = << >> /\ ars = << >> /\ ~bvalid /\ ~rvalid

NoWrite == /\ ~start_single_burst_write /\ ~burst_write_active
           /\ ~axi_awvalid /\ ~axi_wvalid /\ ~axi_bready
           /\ aws = << >> /\ ws = << >> /\ ~bvalid
NoRead  == /\ ~start_single_burst_read /\ ~burst_read_active
           /\ ~axi_arvalid /\ ~axi_rready
           /\ ars = << >> /\ ~rvalid

\* One item on its way: offered by the converter or held by the slave.
OnItsWay(valid, queue, item) ==
  \/ valid /\ queue = << >>
  \/ ~valid /\ queue = <<item>>

\* The stages of the one write transaction: not yet issued, issued, on its way,
\* answered, and the answer taken.
WriteNew      == NoWrite /\ ~writes_done /\ ~error_reg
WriteIssued   == /\ start_single_burst_write /\ ~burst_write_active
                 /\ ~axi_awvalid /\ ~axi_wvalid /\ ~axi_bready
                 /\ aws = << >> /\ ws = << >> /\ ~bvalid
                 /\ ~writes_done /\ ~error_reg
WriteUnderWay == /\ ~start_single_burst_write /\ burst_write_active /\ axi_wlast
                 /\ OnItsWay(axi_awvalid, aws, Target(request.addr))
                 /\ OnItsWay(axi_wvalid, ws, request.data)
                 /\ ~bvalid /\ ~axi_bready /\ ~writes_done /\ ~error_reg
WriteAnswered == /\ ~start_single_burst_write /\ burst_write_active
                 /\ ~axi_awvalid /\ ~axi_wvalid /\ aws = << >> /\ ws = << >>
                 /\ bvalid /\ ~writes_done /\ ~error_reg
WriteOver     == NoWrite /\ writes_done

WriteStage ==
  /\ axi_awaddr = request.addr /\ axi_wdata = request.data /\ NoRead
  /\ WriteNew \/ WriteIssued \/ WriteUnderWay \/ WriteAnswered \/ WriteOver

\* The same for a read.
ReadNew      == NoRead /\ ~reads_done /\ ~error_reg
ReadIssued   == /\ start_single_burst_read /\ ~burst_read_active
                /\ ~axi_arvalid /\ ~axi_rready /\ ars = << >> /\ ~rvalid
                /\ ~reads_done /\ ~error_reg
ReadUnderWay == /\ ~start_single_burst_read /\ burst_read_active
                /\ OnItsWay(axi_arvalid, ars, Target(request.addr))
                /\ ~rvalid /\ ~axi_rready /\ ~reads_done /\ ~error_reg
ReadAnswered == /\ ~start_single_burst_read /\ burst_read_active
                /\ ~axi_arvalid /\ ars = << >>
                /\ rvalid /\ ~reads_done /\ ~error_reg
ReadOver     == NoRead /\ reads_done

ReadStage ==
  /\ axi_araddr = request.addr /\ NoWrite
  /\ ReadNew \/ ReadIssued \/ ReadUnderWay \/ ReadAnswered \/ ReadOver

\* The pulse lives for one clock period, the one after a start state, and its
\* rising edge clears the trigger the controller would otherwise take for an
\* answer.
Capturing == init_txn_pulse /\ clk = 0

\* One transaction per request, begun by the controller, at rest whenever the
\* controller is; its address, word and direction are the request's.
MemInv ==
  /\ init_txn_ff \/ init_txn_ff2 => state \in {"ReadMem", "WriteMem"}
  /\ ~(init_txn_ff /\ init_txn_ff2)
  /\ init_txn_ff /\ clk = 1 => ~compare_done
  /\ request.steady
  /\ state # "Idle" => ~reset /\ MStrobe
  /\ state \in {"WriteStart", "WriteMem", "WriteData"} => MemWrite
  /\ state \in {"ReadStart", "ReadMem", "ReadData"} => ~MemWrite
  /\ \/ Quiet
     \/ /\ state = "WriteMem" /\ ~Capturing
        /\ mst_exec_state = "INIT_WRITE" /\ ~compare_done /\ WriteStage
     \/ /\ state = "ReadMem" /\ ~Capturing
        /\ mst_exec_state = "INIT_READ" /\ ~compare_done /\ ReadStage

\* The transaction of the current request has reached the memory.
Answered == \/ bvalid \/ rvalid \/ compare_done
            \/ mst_exec_state = "INIT_WRITE" /\ writes_done
            \/ mst_exec_state = "INIT_READ" /\ reads_done
Performed ==
  \/ state \in {"ReadData", "WriteData"}
  \/ /\ state \in {"ReadMem", "WriteMem"} /\ Answered
     /\ ~(init_txn_pulse /\ clk = 0)
  \/ state = "Idle" /\ clk = 0 /\ ~reset /\ MStrobe

Okay == IF bvalid THEN bokay
        ELSE IF rvalid THEN rokay
        ELSE IF compare_done THEN ~ERROR ELSE ~error_reg

Outcome == IF ~Performed THEN [done |-> FALSE]
           ELSE IF MemWrite THEN [done |-> TRUE, ok |-> Okay]
           ELSE [done |-> TRUE, ok |-> Okay,
                 data |-> IF rvalid THEN rdata ELSE data_out]

Port == INSTANCE AtomicMemory WITH
  mem <- [a \in Addr |-> mem[Target(a)]],
  request <- [strobe |-> request.strobe, write |-> request.write,
              addr |-> request.addr, data |-> request.data],
  outcome <- Outcome

\* The memory path performs each request of the core exactly once, on the
\* addressed word, before PCReady lets the core go on, with the data and the
\* error status of that request in data_out and ERROR; nothing else reaches
\* memory.
Refines == Port!Spec

\* An offer on a channel stays up, unchanged, until the slave has taken it.
OfferKept(valid, item, queue) ==
  valid => IF valid' THEN item' = item
           ELSE \E consumed \in {FALSE, queue # << >>} :
                  queue' = Channel(queue, consumed, TRUE, item)

\* "Once asserted, VALIDs cannot be deasserted" holds of the three channels
\* the converter drives, with their payloads, whatever the slave's pace.
OffersStay == [][/\ OfferKept(axi_awvalid, Target(axi_awaddr), aws)
                 /\ OfferKept(axi_wvalid, axi_wdata, ws)
                 /\ OfferKept(axi_arvalid, Target(axi_araddr), ars)]_vars

\* The core is let go on again and again: no request hangs.
CoreGoesOn == []<>(PCReady /\ clk = 0)
=============================================================================
