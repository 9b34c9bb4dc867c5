------------------------- MODULE BoardMemory_proofs -------------------------
(***************************************************************************)
(* What holds of the board's memory path for every value of its constants: *)
(* its types, the invariant of its one transaction, and the stability of   *)
(* its offers.  A rising edge is followed stage by stage: the lemmas of a  *)
(* stage say which stage comes next and what the edge did to the memory    *)
(* and to the answer.  With them the memory path implements AtomicMemory:  *)
(* the edge at which the slave commits a write or answers a read is the    *)
(* one step that performs the request.                                     *)
(***************************************************************************)
EXTENDS BoardMemory, Integers, TLAPS

-----------------------------------------------------------------------------
(***************************************************************************)
(* Types.                                                                  *)
(***************************************************************************)

LEMMA TargetType == ASSUME NEW a \in Addr PROVE Target(a) \in Addr
  BY BusAssumption DEF Target, Addr

LEMMA EmptyQueue == ASSUME NEW S PROVE << >> \in Seq(S)
  OBVIOUS

LEMMA ChannelType ==
  ASSUME NEW S, NEW queue \in Seq(S), NEW item \in S,
         NEW consumed \in BOOLEAN, NEW accepted \in BOOLEAN,
         consumed => queue # << >>
  PROVE  Channel(queue, consumed, accepted, item) \in Seq(S)
  BY DEF Channel

LEMMA MasterTypeRise ==
  ASSUME TypeOK,
         NEW awready \in BOOLEAN, NEW wready \in BOOLEAN,
         NEW arready \in BOOLEAN, NEW commit \in BOOLEAN,
         NEW answer \in BOOLEAN, NEW okay \in Responses,
         MemoryRise(awready, wready, arready, commit, answer, okay)
  PROVE  AxiTypeOK'
  <1>1. request.addr \in Addr /\ request.data \in Data
    BY DEF TypeOK, Requests
  <1>2. /\ axi_awvalid' \in BOOLEAN /\ axi_wvalid' \in BOOLEAN
        /\ axi_wlast' \in BOOLEAN /\ axi_bready' \in BOOLEAN
        /\ axi_arvalid' \in BOOLEAN /\ error_reg' \in BOOLEAN
        /\ writes_done' \in BOOLEAN /\ reads_done' \in BOOLEAN
        /\ burst_write_active' \in BOOLEAN /\ burst_read_active' \in BOOLEAN
    BY DEF MemoryRise, WriteAddress, WriteChannel, WriteResponse, ReadAddress,
           Errors, Completion, BurstActive
  <1>3. /\ axi_rready' \in BOOLEAN /\ data_out' \in Data
    BY DEF MemoryRise, ReadChannel, TypeOK, AxiTypeOK, SlaveTypeOK
  <1>4. /\ axi_awaddr' \in Addr /\ axi_araddr' \in Addr /\ axi_wdata' \in Data
    BY <1>1 DEF MemoryRise, WriteAddress, WriteChannel, ReadAddress, TypeOK, AxiTypeOK
  <1>5. /\ mst_exec_state' \in ExecStates
        /\ start_single_burst_write' \in BOOLEAN
        /\ start_single_burst_read' \in BOOLEAN
        /\ compare_done' \in BOOLEAN /\ ERROR' \in BOOLEAN
    BY DEF MemoryRise, Exec, ExecIdle, ExecWrite, ExecRead, ExecStates, TypeOK, AxiTypeOK
  <1>6. init_txn_ff' \in BOOLEAN /\ init_txn_ff2' \in BOOLEAN
    BY DEF MemoryRise, startVars, TypeOK, AxiTypeOK
  <1> QED BY <1>2, <1>3, <1>4, <1>5, <1>6 DEF AxiTypeOK

LEMMA SlaveTypeRise ==
  ASSUME TypeOK,
         NEW awready \in BOOLEAN, NEW wready \in BOOLEAN,
         NEW arready \in BOOLEAN, NEW commit \in BOOLEAN,
         NEW answer \in BOOLEAN, NEW okay \in Responses,
         MemoryRise(awready, wready, arready, commit, answer, okay)
  PROVE  SlaveTypeOK'
  <1>1. Target(axi_awaddr) \in Addr /\ Target(axi_araddr) \in Addr
    BY TargetType DEF TypeOK, AxiTypeOK
  <1>2. /\ commit => aws # << >> /\ ws # << >>
        /\ answer => ars # << >>
    BY DEF MemoryRise, SlaveMay
  <1>3. aws' \in Seq(Addr) /\ ars' \in Seq(Addr) /\ ws' \in Seq(Data)
    BY <1>1, <1>2, ChannelType DEF MemoryRise, SlaveWrite, SlaveRead, TypeOK, SlaveTypeOK, AxiTypeOK
  <1>4. mem' \in [Addr -> Data]
    BY <1>2 DEF MemoryRise, SlaveWrite, TypeOK, SlaveTypeOK
  <1>5. okay \in BOOLEAN
    BY SlaveAssumption
  <1>6. bvalid' \in BOOLEAN /\ bokay' \in BOOLEAN
    BY <1>5 DEF MemoryRise, SlaveWrite, TypeOK, SlaveTypeOK
  <1>7. rvalid' \in BOOLEAN /\ rokay' \in BOOLEAN
    BY <1>5 DEF MemoryRise, SlaveRead, TypeOK, SlaveTypeOK
  <1>8. rdata' \in Data
    BY <1>2 DEF MemoryRise, SlaveRead, TypeOK, SlaveTypeOK
  <1> QED BY <1>3, <1>4, <1>6, <1>7, <1>8 DEF SlaveTypeOK

LEMMA TypeStep == TypeOK /\ [Next]_vars => TypeOK'
  <1> SUFFICES ASSUME TypeOK, [Next]_vars PROVE TypeOK'
    OBVIOUS
  <1>1. CASE Posedge
    <2>1. request' \in Requests
      BY <1>1 DEF Posedge, Rise, MemoryRise, CoreStep, TypeOK, Requests
    <2>2. state' \in States /\ clk' \in {0, 1} /\ reset' \in BOOLEAN
      BY <1>1 DEF Posedge, Rise, MemoryRise, TypeOK
    <2> QED BY <1>1, <2>1, <2>2, MasterTypeRise, SlaveTypeRise DEF Posedge, Rise, TypeOK
  <1>2. CASE Negedge
    <2>1. state' \in States
      BY <1>2 DEF Negedge, MemControlNegedge, nextstate, States, TypeOK
    <2>2. init_txn_ff' \in BOOLEAN /\ init_txn_ff2' \in BOOLEAN
      BY <1>2 DEF Negedge, InitTxn, AXIstart, TypeOK, AxiTypeOK
    <2>3. AxiTypeOK'
      BY <1>2, <2>2 DEF Negedge, sequencerVars, writeVars, readVars, TypeOK, AxiTypeOK
    <2>4. SlaveTypeOK' /\ clk' \in {0, 1} /\ reset' \in BOOLEAN /\ request' \in Requests
      BY <1>2 DEF Negedge, slaveVars, TypeOK, SlaveTypeOK
    <2> QED BY <2>1, <2>3, <2>4 DEF TypeOK
  <1>3. CASE Press
    BY <1>3 DEF Press, masterVars, startVars, sequencerVars, writeVars, readVars,
                slaveVars, TypeOK, AxiTypeOK, SlaveTypeOK
  <1>4. CASE Release
    BY <1>4 DEF Release, masterVars, startVars, sequencerVars, writeVars, readVars,
                slaveVars, TypeOK, AxiTypeOK, SlaveTypeOK
  <1>5. CASE UNCHANGED vars
    BY <1>5 DEF vars, masterVars, startVars, sequencerVars, writeVars, readVars,
                slaveVars, TypeOK, AxiTypeOK, SlaveTypeOK
  <1> QED BY <1>1, <1>2, <1>3, <1>4, <1>5 DEF Next

LEMMA TypeInit == Init => TypeOK
  <1> SUFFICES ASSUME Init PROVE TypeOK
    OBVIOUS
  <1>1. AxiTypeOK
    BY DEF Init, AxiInit, AxiTypeOK, ExecStates
  <1>2. SlaveTypeOK
    BY EmptyQueue DEF Init, SlaveInit, SlaveTypeOK
  <1> QED BY <1>1, <1>2 DEF Init, TypeOK, States

\* The registers of controller, converter and slave keep their types, in every
\* reachable state and under any reset.
THEOREM TypeCorrect == Spec => []TypeOK
  BY TypeInit, TypeStep, PTL DEF Spec

-----------------------------------------------------------------------------
(***************************************************************************)
(* What one rising edge does to each stage of a transaction.               *)
(***************************************************************************)

LEMMA ChannelCases ==
  ASSUME NEW item, NEW other
  PROVE  /\ Channel(<< >>, FALSE, TRUE, item) = <<item>>
         /\ Channel(<<item>>, TRUE, FALSE, other) = << >>
         /\ \A queue : Channel(queue, FALSE, FALSE, other) = queue
         /\ <<item>> # << >>
         /\ Head(<<item>>) = item
  BY DEF Channel

\* The write side rests unless the sequencer starts a write.
LEMMA NoWriteStays ==
  ASSUME TypeOK, NoWrite, mst_exec_state # "INIT_WRITE" \/ writes_done,
         NEW awready \in BOOLEAN, NEW wready \in BOOLEAN,
         NEW arready \in BOOLEAN, NEW commit \in BOOLEAN,
         NEW answer \in BOOLEAN, NEW okay \in Responses,
         MemoryRise(awready, wready, arready, commit, answer, okay)
  PROVE  NoWrite' /\ ~awready /\ ~wready /\ ~commit /\ mem' = mem
  <1>1. ~awready /\ ~wready /\ ~commit
    BY DEF MemoryRise, SlaveMay, NoWrite
  <1>2. ~axi_awvalid' /\ ~axi_wvalid' /\ ~axi_bready'
    BY DEF MemoryRise, WriteAddress, WriteChannel, WriteResponse, NoWrite
  <1>3. ~burst_write_active'
    BY DEF MemoryRise, BurstActive, NoWrite
  <1>4. ~start_single_burst_write'
    BY DEF MemoryRise, Exec, ExecIdle, ExecWrite, ExecRead, NoWrite
  <1>5. aws' = << >> /\ ws' = << >> /\ ~bvalid' /\ mem' = mem
    BY <1>1 DEF MemoryRise, SlaveWrite, Channel, NoWrite
  <1> QED BY <1>1, <1>2, <1>3, <1>4, <1>5 DEF NoWrite

LEMMA NoReadStays ==
  ASSUME TypeOK, NoRead, mst_exec_state # "INIT_READ" \/ reads_done,
         NEW awready \in BOOLEAN, NEW wready \in BOOLEAN,
         NEW arready \in BOOLEAN, NEW commit \in BOOLEAN,
         NEW answer \in BOOLEAN, NEW okay \in Responses,
         MemoryRise(awready, wready, arready, commit, answer, okay)
  PROVE  /\ NoRead' /\ ~arready /\ ~answer
         /\ ~init_txn_pulse => data_out' = data_out
  <1>1. ~arready /\ ~answer
    BY DEF MemoryRise, SlaveMay, NoRead
  <1>2. ~axi_arvalid' /\ ~axi_rready'
    BY DEF MemoryRise, ReadAddress, ReadChannel, NoRead
  <1>3. ~burst_read_active'
    BY DEF MemoryRise, BurstActive, NoRead
  <1>4. ~start_single_burst_read'
    BY DEF MemoryRise, Exec, ExecIdle, ExecWrite, ExecRead, NoRead
  <1>5. ars' = << >> /\ ~rvalid'
    BY <1>1 DEF MemoryRise, SlaveRead, Channel, NoRead
  <1>6. ~init_txn_pulse => data_out' = data_out
    BY DEF MemoryRise, ReadChannel, NoRead
  <1> QED BY <1>1, <1>2, <1>3, <1>4, <1>5, <1>6 DEF NoRead

LEMMA QuietIsNeither ==
  Quiet <=> /\ mst_exec_state = "IDLE" /\ compare_done
            /\ NoWrite /\ NoRead
  BY DEF Quiet, NoWrite, NoRead

\* A rising edge of the converter at work on a write it has captured, and of
\* the slave, while the core waits.
WriteStep(awready, wready, arready, commit, answer, okay) ==
  /\ TypeOK /\ mst_exec_state = "INIT_WRITE" /\ ~init_txn_pulse
  /\ NoRead
  /\ MemoryRise(awready, wready, arready, commit, answer, okay)

\* What the stages of a write have in common: the read side rests, and the
\* captured address and word stay unless the slave takes them, when they are
\* captured again.
LEMMA WriteStepKeeps ==
  ASSUME NEW awready \in BOOLEAN, NEW wready \in BOOLEAN,
         NEW arready \in BOOLEAN, NEW commit \in BOOLEAN,
         NEW answer \in BOOLEAN, NEW okay \in Responses,
         WriteStep(awready, wready, arready, commit, answer, okay)
  PROVE  /\ axi_awaddr = request.addr => axi_awaddr' = request.addr
         /\ axi_wdata = request.data => axi_wdata' = request.data
         /\ NoRead' /\ ~arready /\ ~answer /\ data_out' = data_out
  <1>1. /\ axi_awaddr = request.addr => axi_awaddr' = request.addr
        /\ axi_wdata = request.data => axi_wdata' = request.data
    BY DEF WriteStep, MemoryRise, WriteAddress, WriteChannel
  <1>2. NoRead' /\ ~arready /\ ~answer /\ data_out' = data_out
    BY NoReadStays DEF WriteStep
  <1> QED BY <1>1, <1>2

LEMMA WriteNewStep ==
  ASSUME NEW awready \in BOOLEAN, NEW wready \in BOOLEAN,
         NEW arready \in BOOLEAN, NEW commit \in BOOLEAN,
         NEW answer \in BOOLEAN, NEW okay \in Responses,
         WriteStep(awready, wready, arready, commit, answer, okay), WriteNew
  PROVE  /\ WriteIssued' /\ mst_exec_state' = "INIT_WRITE"
         /\ axi_awaddr' = axi_awaddr /\ axi_wdata' = axi_wdata
         /\ compare_done' = compare_done /\ ~commit /\ mem' = mem
  <1> USE DEF WriteStep, WriteNew, NoWrite
  <1>1. ~awready /\ ~wready /\ ~commit
    BY DEF MemoryRise, SlaveMay
  <1>2. /\ ~axi_awvalid' /\ ~axi_wvalid' /\ ~axi_bready'
        /\ axi_awaddr' = axi_awaddr /\ axi_wdata' = axi_wdata
    BY DEF MemoryRise, WriteAddress, WriteChannel, WriteResponse
  <1>3. ~burst_write_active' /\ ~writes_done'
    BY DEF MemoryRise, BurstActive, Completion
  <1>4. ~error_reg'
    BY DEF MemoryRise, Errors, NoRead
  <1>5. /\ start_single_burst_write' /\ mst_exec_state' = "INIT_WRITE"
        /\ compare_done' = compare_done
    BY DEF MemoryRise, Exec, ExecIdle, ExecWrite, ExecRead
  <1>6. aws' = << >> /\ ws' = << >> /\ ~bvalid' /\ mem' = mem
    BY <1>1 DEF MemoryRise, SlaveWrite, Channel
  <1> QED BY <1>1, <1>2, <1>3, <1>4, <1>5, <1>6 DEF WriteIssued

\* The address a and the word w of a write on their way.
WriteOnWay(a, w) ==
  /\ ~start_single_burst_write /\ burst_write_active /\ axi_wlast
  /\ OnItsWay(axi_awvalid, aws, Target(a)) /\ (axi_awvalid => axi_awaddr = a)
  /\ OnItsWay(axi_wvalid, ws, w) /\ (axi_wvalid => axi_wdata = w)
  /\ ~bvalid /\ ~axi_bready /\ ~writes_done /\ ~error_reg

LEMMA WriteIssuedStep ==
  ASSUME NEW a, NEW w, axi_awaddr = a, axi_wdata = w,
         NEW awready \in BOOLEAN, NEW wready \in BOOLEAN,
         NEW arready \in BOOLEAN, NEW commit \in BOOLEAN,
         NEW answer \in BOOLEAN, NEW okay \in Responses,
         WriteStep(awready, wready, arready, commit, answer, okay), WriteIssued
  PROVE  /\ WriteOnWay(a, w)' /\ mst_exec_state' = "INIT_WRITE"
         /\ compare_done' = compare_done /\ ~commit /\ mem' = mem
  <1> USE DEF WriteStep, WriteIssued
  <1>1. ~awready /\ ~wready /\ ~commit
    BY DEF MemoryRise, SlaveMay
  <1>2. /\ axi_awvalid' /\ axi_wvalid' /\ axi_wlast' /\ ~axi_bready'
        /\ axi_awaddr' = a /\ axi_wdata' = w
    BY DEF MemoryRise, WriteAddress, WriteChannel, WriteResponse
  <1>3. burst_write_active' /\ ~writes_done'
    BY DEF MemoryRise, BurstActive, Completion
  <1>4. ~error_reg'
    BY DEF MemoryRise, Errors, NoRead
  <1>5. /\ ~start_single_burst_write' /\ mst_exec_state' = "INIT_WRITE"
        /\ compare_done' = compare_done
    BY DEF MemoryRise, Exec, ExecIdle, ExecWrite, ExecRead
  <1>6. aws' = << >> /\ ws' = << >> /\ ~bvalid' /\ mem' = mem
    BY <1>1 DEF MemoryRise, SlaveWrite, Channel
  <1> QED BY <1>1, <1>2, <1>3, <1>4, <1>5, <1>6 DEF WriteOnWay, OnItsWay

\* One channel: what is offered is taken, and what is taken is consumed.
LEMMA ItemTaken ==
  ASSUME NEW valid \in BOOLEAN, NEW queue, NEW item, NEW accepted \in BOOLEAN,
         OnItsWay(valid, queue, item), accepted => valid
  PROVE  OnItsWay(valid /\ ~accepted, Channel(queue, FALSE, accepted, item), item)
  <1>1. CASE valid /\ queue = << >>
    <2>1. CASE accepted
      BY <1>1, <2>1, ChannelCases DEF OnItsWay
    <2>2. CASE ~accepted
      BY <1>1, <2>2 DEF OnItsWay, Channel
    <2> QED BY <2>1, <2>2
  <1>2. CASE ~valid /\ queue = <<item>>
    BY <1>2 DEF OnItsWay, Channel
  <1> QED BY <1>1, <1>2 DEF OnItsWay

LEMMA ItemConsumed ==
  ASSUME NEW valid \in BOOLEAN, NEW queue, NEW item, NEW accepted \in BOOLEAN,
         OnItsWay(valid, queue, item), accepted => valid, queue # << >>
  PROVE  /\ ~valid /\ Head(queue) = item
         /\ Channel(queue, TRUE, accepted, item) = << >>
  <1>1. ~valid /\ queue = <<item>> /\ ~accepted
    BY DEF OnItsWay
  <1>2. Channel(<<item>>, TRUE, FALSE, item) = << >> /\ Head(<<item>>) = item
    BY ChannelCases
  <1> QED BY <1>1, <1>2

\* What a channel takes is what is offered on it.
LEMMA OfferTaken ==
  ASSUME NEW queue, NEW consumed, NEW accepted \in BOOLEAN, NEW offered, NEW item,
         accepted => offered = item
  PROVE  Channel(queue, consumed, accepted, offered)
           = Channel(queue, consumed, accepted, item)
  <1>1. CASE accepted = TRUE
    BY <1>1
  <1>2. CASE accepted = FALSE
    BY <1>2 DEF Channel
  <1> QED BY <1>1, <1>2

LEMMA WriteOnWayStep ==
  ASSUME NEW a, NEW w,
         NEW awready \in BOOLEAN, NEW wready \in BOOLEAN,
         NEW arready \in BOOLEAN, NEW commit \in BOOLEAN,
         NEW answer \in BOOLEAN, NEW okay \in Responses,
         WriteStep(awready, wready, arready, commit, answer, okay), WriteOnWay(a, w)
  PROVE  /\ mst_exec_state' = "INIT_WRITE" /\ compare_done' = compare_done
         /\ ~commit => WriteOnWay(a, w)' /\ mem' = mem
         /\ commit => /\ WriteAnswered' /\ bokay' = okay
                      /\ mem' = IF okay THEN [mem EXCEPT ![Target(a)] = w] ELSE mem
  <1> USE DEF WriteStep, WriteOnWay
  <1>0. axi_awvalid \in BOOLEAN /\ axi_wvalid \in BOOLEAN
    BY DEF TypeOK, AxiTypeOK
  <1>1. /\ awready => axi_awvalid
        /\ wready => axi_wvalid
        /\ commit => aws # << >> /\ ws # << >>
    BY DEF MemoryRise, SlaveMay
  <1>2. /\ axi_awvalid' = (axi_awvalid /\ ~awready)
        /\ axi_wvalid' = (axi_wvalid /\ ~wready)
        /\ axi_wlast' /\ ~axi_bready'
        /\ ~awready => axi_awaddr' = axi_awaddr
        /\ ~wready => axi_wdata' = axi_wdata
    BY DEF MemoryRise, WriteAddress, WriteChannel, WriteResponse
  <1>3. burst_write_active' /\ ~writes_done'
    BY DEF MemoryRise, BurstActive, Completion
  <1>4. ~error_reg'
    BY DEF MemoryRise, Errors, NoRead
  <1>5. /\ ~start_single_burst_write' /\ mst_exec_state' = "INIT_WRITE"
        /\ compare_done' = compare_done
    BY DEF MemoryRise, Exec, ExecIdle, ExecWrite, ExecRead
  <1>6. /\ aws' = Channel(aws, commit, awready, Target(a))
        /\ ws' = Channel(ws, commit, wready, w)
        /\ bvalid' = commit
    <2>1. /\ aws' = Channel(aws, commit, awready, Target(axi_awaddr))
          /\ ws' = Channel(ws, commit, wready, axi_wdata)
          /\ bvalid' = commit
      BY DEF MemoryRise, SlaveWrite
    <2>2. awready => Target(axi_awaddr) = Target(a)
      BY <1>1
    <2>3. wready => axi_wdata = w
      BY <1>1
    <2> QED BY <2>1, <2>2, <2>3, OfferTaken
  <1>7. CASE ~commit
    <2>1. /\ OnItsWay(axi_awvalid', aws', Target(a))
          /\ OnItsWay(axi_wvalid', ws', w)
      BY <1>0, <1>1, <1>2, <1>6, <1>7, ItemTaken
    <2>2. mem' = mem
      BY <1>7 DEF MemoryRise, SlaveWrite
    <2>3. /\ OnItsWay(axi_awvalid, aws, Target(a))'
          /\ OnItsWay(axi_wvalid, ws, w)'
      BY <2>1 DEF OnItsWay, Target
    <2> QED BY <1>2, <1>3, <1>4, <1>5, <1>6, <1>7, <2>2, <2>3
  <1>8. CASE commit
    <2>1. ~axi_awvalid /\ Head(aws) = Target(a) /\ aws' = << >>
      <3>1. OnItsWay(axi_awvalid, aws, Target(a))
        OBVIOUS
      <3>2. commit = TRUE
        BY <1>8
      <3> QED BY <1>0, <1>1, <1>6, <3>1, <3>2, ItemConsumed
    <2>2. ~axi_wvalid /\ Head(ws) = w /\ ws' = << >>
      <3>1. OnItsWay(axi_wvalid, ws, w)
        OBVIOUS
      <3>2. commit = TRUE
        BY <1>8
      <3> QED BY <1>0, <1>1, <1>6, <3>1, <3>2, ItemConsumed
    <2>3. /\ bokay' = okay
          /\ mem' = IF okay THEN [mem EXCEPT ![Target(a)] = w] ELSE mem
      BY <1>8, <2>1, <2>2 DEF MemoryRise, SlaveWrite
    <2> QED BY <1>2, <1>3, <1>4, <1>5, <1>6, <1>8, <2>1, <2>2, <2>3 DEF WriteAnswered
  <1> QED BY <1>7, <1>8

LEMMA WriteAnsweredStep ==
  ASSUME NEW awready \in BOOLEAN, NEW wready \in BOOLEAN,
         NEW arready \in BOOLEAN, NEW commit \in BOOLEAN,
         NEW answer \in BOOLEAN, NEW okay \in Responses,
         WriteStep(awready, wready, arready, commit, answer, okay), WriteAnswered
  PROVE  /\ mst_exec_state' = "INIT_WRITE" /\ compare_done' = compare_done
         /\ ~commit /\ mem' = mem
         /\ \/ WriteAnswered' /\ bokay' = bokay
            \/ WriteOver' /\ error_reg' = ~bokay
  <1> USE DEF WriteStep, WriteAnswered
  <1>1. ~awready /\ ~wready /\ ~commit
    BY DEF MemoryRise, SlaveMay
  <1>2. ~axi_awvalid' /\ ~axi_wvalid' /\ axi_bready' = ~axi_bready
    BY DEF MemoryRise, WriteAddress, WriteChannel, WriteResponse
  <1>3. burst_write_active' = ~axi_bready /\ writes_done' = axi_bready
    BY DEF MemoryRise, BurstActive, Completion, TypeOK, AxiTypeOK
  <1>4. error_reg' = (axi_bready /\ ~bokay)
    BY DEF MemoryRise, Errors, NoRead
  <1>5. /\ ~start_single_burst_write' /\ mst_exec_state' = "INIT_WRITE"
        /\ compare_done' = compare_done
    BY DEF MemoryRise, Exec, ExecIdle, ExecWrite, ExecRead
  <1>6. /\ aws' = << >> /\ ws' = << >> /\ bvalid' = ~axi_bready
        /\ bokay' = bokay /\ mem' = mem
    BY <1>1 DEF MemoryRise, SlaveWrite, Channel
  <1>7. CASE axi_bready
    <2>1. WriteOver'
      BY <1>2, <1>3, <1>5, <1>6, <1>7 DEF WriteOver, NoWrite
    <2>2. bokay \in BOOLEAN
      BY DEF TypeOK, SlaveTypeOK
    <2>3. error_reg' = ~bokay
      BY <1>4, <1>7, <2>2
    <2> QED BY <1>1, <1>5, <1>6, <2>1, <2>3
  <1>8. CASE ~axi_bready
    BY <1>1, <1>2, <1>3, <1>4, <1>5, <1>6, <1>8
  <1> QED BY <1>7, <1>8

LEMMA WriteOverStep ==
  ASSUME NEW awready \in BOOLEAN, NEW wready \in BOOLEAN,
         NEW arready \in BOOLEAN, NEW commit \in BOOLEAN,
         NEW answer \in BOOLEAN, NEW okay \in Responses,
         WriteStep(awready, wready, arready, commit, answer, okay), WriteOver
  PROVE  /\ Quiet' /\ ERROR' = error_reg /\ ~commit /\ mem' = mem
  <1> USE DEF WriteStep, WriteOver
  <1>1. NoWrite' /\ ~commit /\ mem' = mem
    BY NoWriteStays
  <1>2. NoRead'
    BY WriteStepKeeps
  <1>3. mst_exec_state' = "IDLE" /\ compare_done' /\ ERROR' = error_reg
    BY DEF MemoryRise, Exec, ExecIdle, ExecWrite, ExecRead
  <1> QED BY <1>1, <1>2, <1>3, QuietIsNeither DEF Quiet, NoWrite, NoRead

\* The same for a read.
ReadStep(awready, wready, arready, commit, answer, okay) ==
  /\ TypeOK /\ mst_exec_state = "INIT_READ" /\ ~init_txn_pulse
  /\ NoWrite
  /\ MemoryRise(awready, wready, arready, commit, answer, okay)

LEMMA ReadStepKeeps ==
  ASSUME NEW awready \in BOOLEAN, NEW wready \in BOOLEAN,
         NEW arready \in BOOLEAN, NEW commit \in BOOLEAN,
         NEW answer \in BOOLEAN, NEW okay \in Responses,
         ReadStep(awready, wready, arready, commit, answer, okay)
  PROVE  /\ axi_araddr = request.addr => axi_araddr' = request.addr
         /\ NoWrite' /\ ~commit /\ mem' = mem
  <1>1. axi_araddr = request.addr => axi_araddr' = request.addr
    BY DEF ReadStep, MemoryRise, ReadAddress
  <1>2. NoWrite' /\ ~commit /\ mem' = mem
    BY NoWriteStays DEF ReadStep
  <1> QED BY <1>1, <1>2

LEMMA ReadNewStep ==
  ASSUME NEW awready \in BOOLEAN, NEW wready \in BOOLEAN,
         NEW arready \in BOOLEAN, NEW commit \in BOOLEAN,
         NEW answer \in BOOLEAN, NEW okay \in Responses,
         ReadStep(awready, wready, arready, commit, answer, okay), ReadNew
  PROVE  /\ ReadIssued' /\ mst_exec_state' = "INIT_READ"
         /\ axi_araddr' = axi_araddr
         /\ compare_done' = compare_done /\ ~answer
  <1> USE DEF ReadStep, ReadNew, NoRead
  <1>1. ~arready /\ ~answer
    BY DEF MemoryRise, SlaveMay
  <1>2. ~axi_arvalid' /\ ~axi_rready' /\ axi_araddr' = axi_araddr
    BY DEF MemoryRise, ReadAddress, ReadChannel
  <1>3. ~burst_read_active' /\ ~reads_done'
    BY DEF MemoryRise, BurstActive, Completion
  <1>4. ~error_reg'
    BY DEF MemoryRise, Errors, NoWrite
  <1>5. /\ start_single_burst_read' /\ mst_exec_state' = "INIT_READ"
        /\ compare_done' = compare_done
    BY DEF MemoryRise, Exec, ExecIdle, ExecWrite, ExecRead
  <1>6. ars' = << >> /\ ~rvalid'
    BY <1>1 DEF MemoryRise, SlaveRead, Channel
  <1> QED BY <1>1, <1>2, <1>3, <1>4, <1>5, <1>6 DEF ReadIssued

\* The address of a read on its way.
ReadOnWay(a) ==
  /\ ~start_single_burst_read /\ burst_read_active
  /\ OnItsWay(axi_arvalid, ars, Target(a)) /\ (axi_arvalid => axi_araddr = a)
  /\ ~rvalid /\ ~axi_rready /\ ~reads_done /\ ~error_reg

LEMMA ReadIssuedStep ==
  ASSUME NEW a, axi_araddr = a,
         NEW awready \in BOOLEAN, NEW wready \in BOOLEAN,
         NEW arready \in BOOLEAN, NEW commit \in BOOLEAN,
         NEW answer \in BOOLEAN, NEW okay \in Responses,
         ReadStep(awready, wready, arready, commit, answer, okay), ReadIssued
  PROVE  /\ ReadOnWay(a)' /\ mst_exec_state' = "INIT_READ"
         /\ compare_done' = compare_done /\ ~answer
  <1> USE DEF ReadStep, ReadIssued
  <1>1. ~arready /\ ~answer
    BY DEF MemoryRise, SlaveMay
  <1>2. axi_arvalid' /\ ~axi_rready' /\ axi_araddr' = a
    BY DEF MemoryRise, ReadAddress, ReadChannel
  <1>3. burst_read_active' /\ ~reads_done'
    BY DEF MemoryRise, BurstActive, Completion
  <1>4. ~error_reg'
    BY DEF MemoryRise, Errors, NoWrite
  <1>5. /\ ~start_single_burst_read' /\ mst_exec_state' = "INIT_READ"
        /\ compare_done' = compare_done
    BY DEF MemoryRise, Exec, ExecIdle, ExecWrite, ExecRead
  <1>6. ars' = << >> /\ ~rvalid'
    BY <1>1 DEF MemoryRise, SlaveRead, Channel
  <1> QED BY <1>1, <1>2, <1>3, <1>4, <1>5, <1>6 DEF ReadOnWay, OnItsWay

LEMMA ReadOnWayStep ==
  ASSUME NEW a,
         NEW awready \in BOOLEAN, NEW wready \in BOOLEAN,
         NEW arready \in BOOLEAN, NEW commit \in BOOLEAN,
         NEW answer \in BOOLEAN, NEW okay \in Responses,
         ReadStep(awready, wready, arready, commit, answer, okay), ReadOnWay(a)
  PROVE  /\ mst_exec_state' = "INIT_READ" /\ compare_done' = compare_done
         /\ ~answer => ReadOnWay(a)'
         /\ answer => /\ ReadAnswered' /\ rokay' = okay
                      /\ okay => rdata' = mem[Target(a)]
  <1> USE DEF ReadStep, ReadOnWay
  <1>0. axi_arvalid \in BOOLEAN
    BY DEF TypeOK, AxiTypeOK
  <1>1. (arready => axi_arvalid) /\ (answer => ars # << >>)
    BY DEF MemoryRise, SlaveMay
  <1>2. /\ axi_arvalid' = (axi_arvalid /\ ~arready) /\ ~axi_rready'
        /\ ~arready => axi_araddr' = axi_araddr
    BY DEF MemoryRise, ReadAddress, ReadChannel
  <1>3. burst_read_active' /\ ~reads_done'
    BY DEF MemoryRise, BurstActive, Completion
  <1>4. ~error_reg'
    BY DEF MemoryRise, Errors, NoWrite
  <1>5. /\ ~start_single_burst_read' /\ mst_exec_state' = "INIT_READ"
        /\ compare_done' = compare_done
    BY DEF MemoryRise, Exec, ExecIdle, ExecWrite, ExecRead
  <1>6. /\ ars' = Channel(ars, answer, arready, Target(a))
        /\ rvalid' = answer
    <2>1. /\ ars' = Channel(ars, answer, arready, Target(axi_araddr))
          /\ rvalid' = answer
      BY DEF MemoryRise, SlaveRead
    <2>2. arready => Target(axi_araddr) = Target(a)
      BY <1>1
    <2> QED BY <2>1, <2>2, OfferTaken
  <1>7. CASE ~answer
    <2>1. OnItsWay(axi_arvalid', ars', Target(a))
      BY <1>0, <1>1, <1>2, <1>6, <1>7, ItemTaken
    <2>2. OnItsWay(axi_arvalid, ars, Target(a))'
      BY <2>1 DEF OnItsWay, Target
    <2> QED BY <1>2, <1>3, <1>4, <1>5, <1>6, <1>7, <2>2
  <1>8. CASE answer
    <2>1. ~axi_arvalid /\ Head(ars) = Target(a) /\ ars' = << >>
      <3>1. OnItsWay(axi_arvalid, ars, Target(a))
        OBVIOUS
      <3>2. answer = TRUE
        BY <1>8
      <3> QED BY <1>0, <1>1, <1>6, <3>1, <3>2, ItemConsumed
    <2>2. rokay' = okay /\ (okay => rdata' = mem[Target(a)])
      BY <1>8, <2>1 DEF MemoryRise, SlaveRead
    <2> QED BY <1>2, <1>3, <1>4, <1>5, <1>6, <1>8, <2>1, <2>2 DEF ReadAnswered
  <1> QED BY <1>7, <1>8

LEMMA ReadAnsweredStep ==
  ASSUME NEW awready \in BOOLEAN, NEW wready \in BOOLEAN,
         NEW arready \in BOOLEAN, NEW commit \in BOOLEAN,
         NEW answer \in BOOLEAN, NEW okay \in Responses,
         ReadStep(awready, wready, arready, commit, answer, okay), ReadAnswered
  PROVE  /\ mst_exec_state' = "INIT_READ" /\ compare_done' = compare_done
         /\ ~answer
         /\ \/ ReadAnswered' /\ rokay' = rokay /\ rdata' = rdata
            \/ ReadOver' /\ error_reg' = ~rokay /\ data_out' = rdata
  <1> USE DEF ReadStep, ReadAnswered
  <1>1. ~arready /\ ~answer
    BY DEF MemoryRise, SlaveMay
  <1>2. ~axi_arvalid' /\ axi_rready' = ~axi_rready
    BY DEF MemoryRise, ReadAddress, ReadChannel
  <1>3. burst_read_active' = ~axi_rready /\ reads_done' = axi_rready
    BY DEF MemoryRise, BurstActive, Completion, TypeOK, AxiTypeOK
  <1>4. error_reg' = (axi_rready /\ ~rokay)
    BY DEF MemoryRise, Errors, NoWrite
  <1>5. /\ ~start_single_burst_read' /\ mst_exec_state' = "INIT_READ"
        /\ compare_done' = compare_done
    BY DEF MemoryRise, Exec, ExecIdle, ExecWrite, ExecRead
  <1>6. /\ ars' = << >> /\ rvalid' = ~axi_rready
        /\ rokay' = rokay /\ rdata' = rdata
    BY <1>1 DEF MemoryRise, SlaveRead, Channel
  <1>7. CASE axi_rready
    <2>1. ReadOver'
      BY <1>2, <1>3, <1>5, <1>6, <1>7 DEF ReadOver, NoRead
    <2>2. rokay \in BOOLEAN
      BY DEF TypeOK, SlaveTypeOK
    <2>3. error_reg' = ~rokay
      BY <1>4, <1>7, <2>2
    <2>4. data_out' = rdata
      BY <1>7 DEF MemoryRise, ReadChannel
    <2> QED BY <1>1, <1>5, <2>1, <2>3, <2>4
  <1>8. CASE ~axi_rready
    BY <1>1, <1>2, <1>3, <1>4, <1>5, <1>6, <1>8
  <1> QED BY <1>7, <1>8

LEMMA ReadOverStep ==
  ASSUME NEW awready \in BOOLEAN, NEW wready \in BOOLEAN,
         NEW arready \in BOOLEAN, NEW commit \in BOOLEAN,
         NEW answer \in BOOLEAN, NEW okay \in Responses,
         ReadStep(awready, wready, arready, commit, answer, okay), ReadOver
  PROVE  Quiet' /\ ERROR' = error_reg /\ ~answer /\ data_out' = data_out
  <1> USE DEF ReadStep, ReadOver
  <1>1. NoRead' /\ ~answer /\ data_out' = data_out
    BY NoReadStays
  <1>2. NoWrite'
    BY ReadStepKeeps
  <1>3. mst_exec_state' = "IDLE" /\ compare_done' /\ ERROR' = error_reg
    BY DEF MemoryRise, Exec, ExecIdle, ExecWrite, ExecRead
  <1> QED BY <1>1, <1>2, <1>3, QuietIsNeither DEF Quiet, NoWrite, NoRead

\* The same for the request of a core that waits.
LEMMA WriteWaits ==
  ASSUME axi_awaddr = request.addr, axi_wdata = request.data, request' = request,
         NEW awready \in BOOLEAN, NEW wready \in BOOLEAN,
         NEW arready \in BOOLEAN, NEW commit \in BOOLEAN,
         NEW answer \in BOOLEAN, NEW okay \in Responses,
         WriteStep(awready, wready, arready, commit, answer, okay)
  PROVE  /\ axi_awaddr' = request'.addr /\ axi_wdata' = request'.data /\ NoRead'
         /\ WriteIssued =>
              /\ WriteUnderWay' /\ mst_exec_state' = "INIT_WRITE"
              /\ compare_done' = compare_done /\ ~commit /\ mem' = mem
         /\ WriteUnderWay =>
              /\ mst_exec_state' = "INIT_WRITE" /\ compare_done' = compare_done
              /\ ~commit => WriteUnderWay' /\ mem' = mem
              /\ commit => /\ WriteAnswered' /\ bokay' = okay
                           /\ mem' = IF okay
                                     THEN [mem EXCEPT ![Target(request.addr)] = request.data]
                                     ELSE mem
  <1>1. axi_awaddr' = request'.addr /\ axi_wdata' = request'.data /\ NoRead'
    BY WriteStepKeeps
  <1>2. ASSUME WriteIssued
        PROVE  /\ WriteUnderWay' /\ mst_exec_state' = "INIT_WRITE"
               /\ compare_done' = compare_done /\ ~commit /\ mem' = mem
    <2>1. PICK a, w : a = request.addr /\ w = request.data
      OBVIOUS
    <2>2. /\ WriteOnWay(a, w)' /\ mst_exec_state' = "INIT_WRITE"
          /\ compare_done' = compare_done /\ ~commit /\ mem' = mem
      BY <1>2, <2>1, WriteIssuedStep
    <2>3. WriteUnderWay'
      BY <2>1, <2>2 DEF WriteOnWay, WriteUnderWay, OnItsWay, Target
    <2> QED BY <2>2, <2>3
  <1>3. ASSUME WriteUnderWay
        PROVE  /\ mst_exec_state' = "INIT_WRITE" /\ compare_done' = compare_done
               /\ ~commit => WriteUnderWay' /\ mem' = mem
               /\ commit => /\ WriteAnswered' /\ bokay' = okay
                            /\ mem' = IF okay
                                      THEN [mem EXCEPT ![Target(request.addr)] = request.data]
                                      ELSE mem
    <2>1. PICK a, w : a = request.addr /\ w = request.data
      OBVIOUS
    <2>2. WriteOnWay(a, w)
      BY <1>3, <2>1 DEF WriteOnWay, WriteUnderWay
    <2>3. /\ mst_exec_state' = "INIT_WRITE" /\ compare_done' = compare_done
          /\ ~commit => WriteOnWay(a, w)' /\ mem' = mem
          /\ commit => /\ WriteAnswered' /\ bokay' = okay
                       /\ mem' = IF okay THEN [mem EXCEPT ![Target(a)] = w] ELSE mem
      BY <2>2, WriteOnWayStep
    <2>4. WriteOnWay(a, w)' => WriteUnderWay'
      BY <2>1 DEF WriteOnWay, WriteUnderWay, OnItsWay, Target
    <2> QED BY <2>1, <2>3, <2>4
  <1> QED BY <1>1, <1>2, <1>3

LEMMA ReadWaits ==
  ASSUME axi_araddr = request.addr, request' = request,
         NEW awready \in BOOLEAN, NEW wready \in BOOLEAN,
         NEW arready \in BOOLEAN, NEW commit \in BOOLEAN,
         NEW answer \in BOOLEAN, NEW okay \in Responses,
         ReadStep(awready, wready, arready, commit, answer, okay)
  PROVE  /\ axi_araddr' = request'.addr /\ NoWrite'
         /\ ReadIssued =>
              /\ ReadUnderWay' /\ mst_exec_state' = "INIT_READ"
              /\ compare_done' = compare_done /\ ~answer
         /\ ReadUnderWay =>
              /\ mst_exec_state' = "INIT_READ" /\ compare_done' = compare_done
              /\ ~answer => ReadUnderWay'
              /\ answer => /\ ReadAnswered' /\ rokay' = okay
                           /\ okay => rdata' = mem[Target(request.addr)]
  <1>1. axi_araddr' = request'.addr /\ NoWrite'
    BY ReadStepKeeps
  <1>2. ASSUME ReadIssued
        PROVE  /\ ReadUnderWay' /\ mst_exec_state' = "INIT_READ"
               /\ compare_done' = compare_done /\ ~answer
    <2>1. PICK a : a = request.addr
      OBVIOUS
    <2>2. /\ ReadOnWay(a)' /\ mst_exec_state' = "INIT_READ"
          /\ compare_done' = compare_done /\ ~answer
      BY <1>2, <2>1, ReadIssuedStep
    <2>3. ReadUnderWay'
      BY <2>1, <2>2 DEF ReadOnWay, ReadUnderWay, OnItsWay, Target
    <2> QED BY <2>2, <2>3
  <1>3. ASSUME ReadUnderWay
        PROVE  /\ mst_exec_state' = "INIT_READ" /\ compare_done' = compare_done
               /\ ~answer => ReadUnderWay'
               /\ answer => /\ ReadAnswered' /\ rokay' = okay
                            /\ okay => rdata' = mem[Target(request.addr)]
    <2>1. PICK a : a = request.addr
      OBVIOUS
    <2>2. ReadOnWay(a)
      BY <1>3, <2>1 DEF ReadOnWay, ReadUnderWay
    <2>3. /\ mst_exec_state' = "INIT_READ" /\ compare_done' = compare_done
          /\ ~answer => ReadOnWay(a)'
          /\ answer => /\ ReadAnswered' /\ rokay' = okay
                       /\ okay => rdata' = mem[Target(a)]
      BY <2>2, ReadOnWayStep
    <2>4. ReadOnWay(a)' => ReadUnderWay'
      BY <2>1 DEF ReadOnWay, ReadUnderWay, OnItsWay, Target
    <2> QED BY <2>1, <2>3, <2>4
  <1> QED BY <1>1, <1>2, <1>3

-----------------------------------------------------------------------------
(***************************************************************************)
(* The invariant.                                                          *)
(***************************************************************************)

\* The pulse starts the one transaction of the request.
LEMMA PulseStep ==
  ASSUME TypeOK, Quiet, init_txn_pulse,
         NEW awready \in BOOLEAN, NEW wready \in BOOLEAN,
         NEW arready \in BOOLEAN, NEW commit \in BOOLEAN,
         NEW answer \in BOOLEAN, NEW okay \in Responses,
         MemoryRise(awready, wready, arready, commit, answer, okay)
  PROVE  /\ ~compare_done' /\ mem' = mem
         /\ NoWrite' /\ NoRead' /\ ~writes_done' /\ ~reads_done' /\ ~error_reg'
         /\ axi_awaddr' = request.addr /\ axi_wdata' = request.data
         /\ axi_araddr' = request.addr
         /\ mst_exec_state' = IF DRW THEN "INIT_WRITE" ELSE "INIT_READ"
  <1>1. NoWrite' /\ NoRead' /\ mem' = mem
    BY NoWriteStays, NoReadStays, QuietIsNeither
  <1>2. ~writes_done' /\ ~reads_done' /\ ~error_reg'
    BY DEF MemoryRise, Completion, Errors
  <1>3. /\ axi_awaddr' = request.addr /\ axi_wdata' = request.data
        /\ axi_araddr' = request.addr
    BY DEF MemoryRise, WriteAddress, WriteChannel, ReadAddress
  <1>4. /\ ~compare_done'
        /\ mst_exec_state' = IF DRW THEN "INIT_WRITE" ELSE "INIT_READ"
    BY DEF MemoryRise, Exec, ExecIdle, ExecWrite, ExecRead, Quiet
  <1> QED BY <1>1, <1>2, <1>3, <1>4

LEMMA RestStep ==
  ASSUME TypeOK, Quiet, ~init_txn_pulse,
         NEW awready \in BOOLEAN, NEW wready \in BOOLEAN,
         NEW arready \in BOOLEAN, NEW commit \in BOOLEAN,
         NEW answer \in BOOLEAN, NEW okay \in Responses,
         MemoryRise(awready, wready, arready, commit, answer, okay)
  PROVE  Quiet' /\ mem' = mem /\ ERROR' = ERROR /\ data_out' = data_out
  <1>1. NoWrite' /\ NoRead' /\ mem' = mem /\ data_out' = data_out
    BY NoWriteStays, NoReadStays, QuietIsNeither
  <1>2. mst_exec_state' = "IDLE" /\ compare_done' /\ ERROR' = ERROR
    BY DEF MemoryRise, Exec, ExecIdle, ExecWrite, ExecRead, Quiet
  <1> QED BY <1>1, <1>2 DEF Quiet, NoWrite, NoRead

\* While the controller is at work the core waits with its request.
LEMMA CoreWaits ==
  ASSUME MemInv, state # "Idle",
         NEW awready \in BOOLEAN, NEW wready \in BOOLEAN,
         NEW arready \in BOOLEAN, NEW commit \in BOOLEAN,
         NEW answer \in BOOLEAN, NEW okay \in Responses,
         Rise(awready, wready, arready, commit, answer, okay)
  PROVE  request' = request
  <1>1. ~reset /\ ~PCReady /\ request.steady
    BY DEF MemInv, PCReady, Done
  <1> QED BY <1>1 DEF Rise, MemoryRise, CoreStep

\* The controller and the pulse do not see a rising edge.
LEMMA EdgeKeeps ==
  ASSUME NEW awready \in BOOLEAN, NEW wready \in BOOLEAN,
         NEW arready \in BOOLEAN, NEW commit \in BOOLEAN,
         NEW answer \in BOOLEAN, NEW okay \in Responses,
         MemoryRise(awready, wready, arready, commit, answer, okay)
  PROVE  /\ state' = state /\ reset' = reset /\ clk = 0 /\ clk' = 1
         /\ init_txn_ff' = init_txn_ff /\ init_txn_ff2' = init_txn_ff2
         /\ ~Capturing'
  BY DEF MemoryRise, startVars, Capturing

LEMMA RiseKeeps ==
  ASSUME NEW awready \in BOOLEAN, NEW wready \in BOOLEAN,
         NEW arready \in BOOLEAN, NEW commit \in BOOLEAN,
         NEW answer \in BOOLEAN, NEW okay \in Responses,
         Rise(awready, wready, arready, commit, answer, okay)
  PROVE  /\ state' = state /\ reset' = reset /\ clk = 0 /\ clk' = 1
         /\ init_txn_ff' = init_txn_ff /\ init_txn_ff2' = init_txn_ff2
         /\ ~Capturing'
  BY EdgeKeeps DEF Rise

\* The transaction of a waiting core, as MemInv knows it.
Writing == /\ state = "WriteMem" /\ ~Capturing
           /\ mst_exec_state = "INIT_WRITE" /\ ~compare_done /\ WriteStage
Reading == /\ state = "ReadMem" /\ ~Capturing
           /\ mst_exec_state = "INIT_READ" /\ ~compare_done /\ ReadStage

LEMMA WritingStep ==
  ASSUME TypeOK, MemInv, Writing,
         NEW awready \in BOOLEAN, NEW wready \in BOOLEAN,
         NEW arready \in BOOLEAN, NEW commit \in BOOLEAN,
         NEW answer \in BOOLEAN, NEW okay \in Responses,
         Rise(awready, wready, arready, commit, answer, okay)
  PROVE  Quiet' \/ Writing'
  <1>1. /\ request' = request /\ ~init_txn_pulse
        /\ state' = "WriteMem" /\ ~Capturing'
    BY CoreWaits, RiseKeeps DEF Writing, Capturing
  <1>2. WriteStep(awready, wready, arready, commit, answer, okay)
    BY <1>1 DEF WriteStep, Writing, WriteStage, Rise
  <1>3. axi_awaddr' = request'.addr /\ axi_wdata' = request'.data /\ NoRead'
    BY <1>1, <1>2, WriteWaits DEF Writing, WriteStage
  <1>4. CASE WriteNew
    BY <1>1, <1>2, <1>3, <1>4, WriteNewStep DEF Writing, WriteStage
  <1>5. CASE WriteIssued
    BY <1>1, <1>2, <1>3, <1>5, WriteWaits DEF Writing, WriteStage
  <1>6. CASE WriteUnderWay
    BY <1>1, <1>2, <1>3, <1>6, WriteWaits DEF Writing, WriteStage
  <1>7. CASE WriteAnswered
    BY <1>1, <1>2, <1>3, <1>7, WriteAnsweredStep DEF Writing, WriteStage
  <1>8. CASE WriteOver
    BY <1>2, <1>8, WriteOverStep
  <1> QED BY <1>4, <1>5, <1>6, <1>7, <1>8 DEF Writing, WriteStage

LEMMA ReadingStep ==
  ASSUME TypeOK, MemInv, Reading,
         NEW awready \in BOOLEAN, NEW wready \in BOOLEAN,
         NEW arready \in BOOLEAN, NEW commit \in BOOLEAN,
         NEW answer \in BOOLEAN, NEW okay \in Responses,
         Rise(awready, wready, arready, commit, answer, okay)
  PROVE  Quiet' \/ Reading'
  <1>1. /\ request' = request /\ ~init_txn_pulse
        /\ state' = "ReadMem" /\ ~Capturing'
    BY CoreWaits, RiseKeeps DEF Reading, Capturing
  <1>2. ReadStep(awready, wready, arready, commit, answer, okay)
    BY <1>1 DEF ReadStep, Reading, ReadStage, Rise
  <1>3. axi_araddr' = request'.addr /\ NoWrite'
    BY <1>1, <1>2, ReadWaits DEF Reading, ReadStage
  <1>4. CASE ReadNew
    BY <1>1, <1>2, <1>3, <1>4, ReadNewStep DEF Reading, ReadStage
  <1>5. CASE ReadIssued
    BY <1>1, <1>2, <1>3, <1>5, ReadWaits DEF Reading, ReadStage
  <1>6. CASE ReadUnderWay
    BY <1>1, <1>2, <1>3, <1>6, ReadWaits DEF Reading, ReadStage
  <1>7. CASE ReadAnswered
    BY <1>1, <1>2, <1>3, <1>7, ReadAnsweredStep DEF Reading, ReadStage
  <1>8. CASE ReadOver
    BY <1>2, <1>8, ReadOverStep
  <1> QED BY <1>4, <1>5, <1>6, <1>7, <1>8 DEF Reading, ReadStage

LEMMA PosedgeInv ==
  ASSUME TypeOK, MemInv, Posedge, request'.steady
  PROVE  MemInv'
  <1> SUFFICES ASSUME NEW awready \in BOOLEAN, NEW wready \in BOOLEAN,
                      NEW arready \in BOOLEAN, NEW commit \in BOOLEAN,
                      NEW answer \in BOOLEAN, NEW okay \in Responses,
                      Rise(awready, wready, arready, commit, answer, okay)
               PROVE  MemInv'
    BY DEF Posedge
  <1>1. /\ state' = state /\ reset' = reset /\ clk = 0 /\ clk' = 1
        /\ init_txn_ff' = init_txn_ff /\ init_txn_ff2' = init_txn_ff2
        /\ ~Capturing'
    BY RiseKeeps
  <1>2. state # "Idle" => request' = request
    BY CoreWaits
  <1>3. /\ init_txn_ff' \/ init_txn_ff2' => state' \in {"ReadMem", "WriteMem"}
        /\ ~(init_txn_ff' /\ init_txn_ff2')
        /\ state' # "Idle" => ~reset' /\ MStrobe'
        /\ state' \in {"WriteStart", "WriteMem", "WriteData"} => MemWrite'
        /\ state' \in {"ReadStart", "ReadMem", "ReadData"} => ~MemWrite'
    BY <1>1, <1>2 DEF MemInv, MStrobe, MemWrite
  <1>4. CASE Quiet /\ ~init_txn_pulse
    <2>1. Quiet'
      BY <1>4, RestStep DEF Rise
    <2>2. ~init_txn_ff
      BY <1>4 DEF init_txn_pulse, MemInv
    <2> QED BY <1>1, <1>3, <2>1, <2>2 DEF MemInv
  <1>5. CASE Quiet /\ init_txn_pulse
    <2>1. state \in {"ReadMem", "WriteMem"}
      BY <1>5 DEF init_txn_pulse, MemInv
    <2>2. request' = request
      BY <1>2, <2>1
    <2>3. /\ ~compare_done'
          /\ NoWrite' /\ NoRead' /\ ~writes_done' /\ ~reads_done' /\ ~error_reg'
          /\ axi_awaddr' = request'.addr /\ axi_wdata' = request'.data
          /\ axi_araddr' = request'.addr
          /\ mst_exec_state' = IF DRW THEN "INIT_WRITE" ELSE "INIT_READ"
      BY <1>5, <2>2, PulseStep DEF Rise
    <2>4. Writing' \/ Reading'
      BY <1>1, <2>1, <2>3 DEF DRW, Writing, Reading, WriteStage, ReadStage,
                              WriteNew, ReadNew
    <2> QED BY <1>1, <1>3, <2>3, <2>4 DEF MemInv, Writing, Reading
  <1>6. CASE Writing
    <2>1. Quiet' \/ Writing'
      BY <1>6, WritingStep
    <2>2. ~init_txn_ff
      BY <1>1, <1>6 DEF Writing, Capturing, init_txn_pulse, MemInv
    <2> QED BY <1>1, <1>3, <2>1, <2>2 DEF MemInv, Writing
  <1>7. CASE Reading
    <2>1. Quiet' \/ Reading'
      BY <1>7, ReadingStep
    <2>2. ~init_txn_ff
      BY <1>1, <1>7 DEF Reading, Capturing, init_txn_pulse, MemInv
    <2> QED BY <1>1, <1>3, <2>1, <2>2 DEF MemInv, Reading
  <1> QED BY <1>4, <1>5, <1>6, <1>7 DEF MemInv, Writing, Reading

\* A falling edge moves only the controller and the pulse.
LEMMA FallKeeps ==
  ASSUME Negedge
  PROVE  /\ (Quiet' <=> Quiet)
         /\ (WriteStage' <=> WriteStage) /\ (ReadStage' <=> ReadStage)
         /\ compare_done' = compare_done /\ mst_exec_state' = mst_exec_state
         /\ request' = request /\ reset' = reset /\ clk = 1 /\ clk' = 0
  BY DEF Negedge, sequencerVars, writeVars, readVars, slaveVars, Quiet,
         WriteStage, ReadStage, NoWrite, NoRead, OnItsWay,
         WriteNew, WriteIssued, WriteUnderWay, WriteAnswered, WriteOver,
         ReadNew, ReadIssued, ReadUnderWay, ReadAnswered, ReadOver

LEMMA NegedgeInv ==
  ASSUME TypeOK, MemInv, Negedge
  PROVE  MemInv'
  <1>1. /\ (Quiet' <=> Quiet)
        /\ (WriteStage' <=> WriteStage) /\ (ReadStage' <=> ReadStage)
        /\ compare_done' = compare_done /\ mst_exec_state' = mst_exec_state
        /\ request' = request /\ reset' = reset /\ clk = 1 /\ clk' = 0
    BY FallKeeps
  <1>2. /\ state' = IF reset THEN "Idle"
                    ELSE nextstate(MStrobe, MemWrite, compare_done)
        /\ init_txn_ff' = AXIstart /\ init_txn_ff2' = init_txn_ff
    BY DEF Negedge, MemControlNegedge, TXN_DONE, InitTxn
  <1>3. state \in States
    BY DEF TypeOK
  <1>4. /\ state' # "Idle" => ~reset' /\ MStrobe'
        /\ state' \in {"WriteStart", "WriteMem", "WriteData"} => MemWrite'
        /\ state' \in {"ReadStart", "ReadMem", "ReadData"} => ~MemWrite'
        /\ request'.steady
    BY <1>1, <1>2, <1>3 DEF MemInv, MStrobe, MemWrite, nextstate, States
  <1>5. init_txn_ff' => /\ state \in {"ReadStart", "WriteStart"} /\ ~init_txn_ff
                        /\ state' \in {"ReadMem", "WriteMem"}
    BY <1>1, <1>2, <1>3 DEF AXIstart, MemInv, nextstate, States
  <1>6. init_txn_ff2' => state' \in {"ReadMem", "WriteMem"}
    BY <1>1, <1>2, <1>3 DEF MemInv, nextstate, States
  <1>7. CASE Quiet
    BY <1>1, <1>2, <1>4, <1>5, <1>6, <1>7 DEF MemInv
  <1>8. CASE Writing
    <2>1. state' = "WriteMem" /\ ~init_txn_ff'
      BY <1>1, <1>2, <1>5, <1>8 DEF Writing, MemInv, nextstate
    <2>2. Writing'
      BY <1>1, <1>8, <2>1 DEF Writing, Capturing, init_txn_pulse
    <2> QED BY <1>1, <1>2, <1>4, <1>5, <1>6, <2>1, <2>2 DEF MemInv, Writing
  <1>9. CASE Reading
    <2>1. state' = "ReadMem" /\ ~init_txn_ff'
      BY <1>1, <1>2, <1>5, <1>9 DEF Reading, MemInv, nextstate
    <2>2. Reading'
      BY <1>1, <1>9, <2>1 DEF Reading, Capturing, init_txn_pulse
    <2> QED BY <1>1, <1>2, <1>4, <1>5, <1>6, <2>1, <2>2 DEF MemInv, Reading
  <1> QED BY <1>7, <1>8, <1>9 DEF MemInv, Writing, Reading

\* The button moves nothing but the request and its own level.
LEMMA ButtonKeeps ==
  ASSUME Press \/ Release
  PROVE  /\ UNCHANGED <<state, clk, mem, compare_done, init_txn_ff, init_txn_ff2>>
         /\ (Quiet' <=> Quiet)
  BY DEF Press, Release, masterVars, startVars, sequencerVars, writeVars,
         readVars, slaveVars, Quiet

LEMMA PressInv ==
  ASSUME MemInv, Press, state = "Idle", request'.steady PROVE MemInv'
  <1>1. Quiet /\ ~init_txn_ff /\ ~init_txn_ff2
    BY DEF MemInv
  <1> QED BY <1>1, ButtonKeeps DEF MemInv

LEMMA ReleaseInv ==
  ASSUME MemInv, Release PROVE MemInv'
  <1>1. state = "Idle" /\ request' = request
    BY DEF MemInv, Release
  <1>2. Quiet /\ ~init_txn_ff /\ ~init_txn_ff2
    BY <1>1 DEF MemInv
  <1> QED BY <1>1, <1>2, ButtonKeeps DEF MemInv

LEMMA StutterInv == ASSUME MemInv, UNCHANGED vars PROVE MemInv'
  BY DEF vars, masterVars, startVars, sequencerVars, writeVars, readVars, slaveVars,
         MemInv, Quiet, Capturing, init_txn_pulse, MStrobe, MemWrite,
         WriteStage, ReadStage, NoWrite, NoRead, OnItsWay,
         WriteNew, WriteIssued, WriteUnderWay, WriteAnswered, WriteOver,
         ReadNew, ReadIssued, ReadUnderWay, ReadAnswered, ReadOver

CleanStep == CleanNext /\ request'.steady

LEMMA CleanIsNext == [CleanStep]_vars => [Next]_vars
  BY DEF CleanStep, CleanNext, Next

LEMMA InvInit == CleanInit /\ request.steady => MemInv
  <1> SUFFICES ASSUME Init, request.steady PROVE MemInv
    BY DEF CleanInit
  <1>1. Quiet
    BY DEF Init, AxiInit, SlaveInit, Quiet
  <1>2. ~init_txn_ff /\ ~init_txn_ff2 /\ state = "Idle"
    BY DEF Init, AxiInit
  <1> QED BY <1>1, <1>2 DEF MemInv

LEMMA InvStep == TypeOK /\ MemInv /\ [CleanStep]_vars => MemInv'
  <1> SUFFICES ASSUME TypeOK, MemInv, [CleanStep]_vars PROVE MemInv'
    OBVIOUS
  <1>1. CASE CleanStep /\ Posedge
    BY <1>1, PosedgeInv DEF CleanStep
  <1>2. CASE Negedge
    BY <1>2, NegedgeInv
  <1>3. CASE CleanStep /\ Press /\ state = "Idle"
    BY <1>3, PressInv DEF CleanStep
  <1>4. CASE Release
    BY <1>4, ReleaseInv
  <1>5. CASE UNCHANGED vars
    BY <1>5, StutterInv
  <1> QED BY <1>1, <1>2, <1>3, <1>4, <1>5 DEF CleanStep, CleanNext

LEMMA CleanInvariant == CleanSpec => [](TypeOK /\ MemInv)
  <1>1. CleanInit /\ request.steady => TypeOK /\ MemInv
    BY TypeInit, InvInit DEF CleanInit
  <1>2. TypeOK /\ MemInv /\ [CleanStep]_vars => TypeOK' /\ MemInv'
    BY TypeStep, InvStep, CleanIsNext
  <1> QED BY <1>1, <1>2, PTL DEF CleanSpec, CleanStep

\* For every bus size, base address, set of words and slave capacity, each
\* request is one transaction of the converter, with the request's address,
\* word and direction, and none is under way while the core goes on.
THEOREM OneTransaction == CleanSpec => []MemInv
  BY CleanInvariant, PTL

-----------------------------------------------------------------------------

\* A converter with an offer up does not meet a start pulse.
LEMMA NoPulse ==
  ASSUME MemInv, clk = 0, axi_awvalid \/ axi_wvalid \/ axi_arvalid
  PROVE  ~init_txn_pulse
  BY DEF MemInv, Quiet, Capturing

LEMMA WlastUp ==
  ASSUME MemInv, axi_wvalid PROVE axi_wlast
  BY DEF MemInv, Quiet, WriteStage, ReadStage, NoWrite, NoRead,
         WriteNew, WriteIssued, WriteUnderWay, WriteAnswered, WriteOver

OffersKept == /\ OfferKept(axi_awvalid, Target(axi_awaddr), aws)
              /\ OfferKept(axi_wvalid, axi_wdata, ws)
              /\ OfferKept(axi_arvalid, Target(axi_araddr), ars)

LEMMA PosedgeKeepsOffers == ASSUME TypeOK, MemInv, Posedge PROVE OffersKept
  <1> SUFFICES ASSUME NEW awready \in BOOLEAN, NEW wready \in BOOLEAN,
                      NEW arready \in BOOLEAN, NEW commit \in BOOLEAN,
                      NEW answer \in BOOLEAN, NEW okay \in Responses,
                      Rise(awready, wready, arready, commit, answer, okay)
               PROVE  OffersKept
    BY DEF Posedge
  <1>1. /\ commit \in {FALSE, aws # << >>} /\ commit \in {FALSE, ws # << >>}
        /\ answer \in {FALSE, ars # << >>}
    BY DEF Rise, MemoryRise, SlaveMay
  <1>2. clk = 0
    BY DEF Rise, MemoryRise
  <1>3. OfferKept(axi_awvalid, Target(axi_awaddr), aws)
    <2> SUFFICES ASSUME axi_awvalid
                 PROVE  IF axi_awvalid' THEN Target(axi_awaddr)' = Target(axi_awaddr)
                        ELSE aws' = Channel(aws, commit, TRUE, Target(axi_awaddr))
      BY <1>1 DEF OfferKept
    <2>1. /\ axi_awvalid' = ~awready
          /\ ~awready => axi_awaddr' = axi_awaddr
      BY <1>2, NoPulse DEF Rise, MemoryRise, WriteAddress
    <2>2. aws' = Channel(aws, commit, awready, Target(axi_awaddr))
      BY DEF Rise, MemoryRise, SlaveWrite
    <2>3. CASE awready = TRUE
      BY <2>1, <2>2, <2>3
    <2>4. CASE awready = FALSE
      BY <2>1, <2>4 DEF Target
    <2> QED BY <2>3, <2>4
  <1>4. OfferKept(axi_wvalid, axi_wdata, ws)
    <2> SUFFICES ASSUME axi_wvalid
                 PROVE  IF axi_wvalid' THEN axi_wdata' = axi_wdata
                        ELSE ws' = Channel(ws, commit, TRUE, axi_wdata)
      BY <1>1 DEF OfferKept
    <2>1. /\ axi_wvalid' = ~wready
          /\ ~wready => axi_wdata' = axi_wdata
      BY <1>2, NoPulse, WlastUp DEF Rise, MemoryRise, WriteChannel
    <2>2. ws' = Channel(ws, commit, wready, axi_wdata)
      BY DEF Rise, MemoryRise, SlaveWrite
    <2>3. CASE wready = TRUE
      BY <2>1, <2>2, <2>3
    <2>4. CASE wready = FALSE
      BY <2>1, <2>4
    <2> QED BY <2>3, <2>4
  <1>5. OfferKept(axi_arvalid, Target(axi_araddr), ars)
    <2> SUFFICES ASSUME axi_arvalid
                 PROVE  IF axi_arvalid' THEN Target(axi_araddr)' = Target(axi_araddr)
                        ELSE ars' = Channel(ars, answer, TRUE, Target(axi_araddr))
      BY <1>1 DEF OfferKept
    <2>1. /\ axi_arvalid' = ~arready
          /\ ~arready => axi_araddr' = axi_araddr
      BY <1>2, NoPulse DEF Rise, MemoryRise, ReadAddress
    <2>2. ars' = Channel(ars, answer, arready, Target(axi_araddr))
      BY DEF Rise, MemoryRise, SlaveRead
    <2>3. CASE arready = TRUE
      BY <2>1, <2>2, <2>3
    <2>4. CASE arready = FALSE
      BY <2>1, <2>4 DEF Target
    <2> QED BY <2>3, <2>4
  <1> QED BY <1>3, <1>4, <1>5 DEF OffersKept

LEMMA OthersKeepOffers ==
  ASSUME Negedge \/ Press \/ Release PROVE OffersKept
  <1>1. UNCHANGED <<axi_awvalid, axi_awaddr, axi_wvalid, axi_wdata, axi_arvalid,
                    axi_araddr>>
    BY DEF Negedge, Press, Release, masterVars, writeVars, readVars
  <1> QED BY <1>1 DEF OffersKept, OfferKept, Target

\* For every pace of the slave, the converter's three offers stay up and
\* unchanged until they are taken, as long as resets are clean.
THEOREM OffersAreKept == CleanSpec => OffersStay
  <1>1. TypeOK /\ MemInv /\ [CleanStep]_vars => [OffersKept]_vars
    BY PosedgeKeepsOffers, OthersKeepOffers DEF CleanStep, CleanNext
  <1> QED BY <1>1, CleanInvariant, PTL DEF CleanSpec, CleanStep, OffersStay, OffersKept

-----------------------------------------------------------------------------
(***************************************************************************)
(* The transfer of a core whose request drifts while it waits: the address *)
(* a and the word w captured by the pulse are what the slave is offered.   *)
(***************************************************************************)

WriteTransfer(a, w) ==
  /\ NoRead
  /\ \/ (WriteNew \/ WriteIssued) /\ axi_awaddr = a /\ axi_wdata = w
     \/ WriteOnWay(a, w) \/ WriteAnswered \/ WriteOver
ReadTransfer(a) ==
  /\ NoWrite
  /\ \/ (ReadNew \/ ReadIssued) /\ axi_araddr = a
     \/ ReadOnWay(a) \/ ReadAnswered \/ ReadOver

WritingOf(a, w) ==
  /\ state = "WriteMem" /\ ~Capturing
  /\ mst_exec_state = "INIT_WRITE" /\ ~compare_done /\ WriteTransfer(a, w)
ReadingOf(a) ==
  /\ state = "ReadMem" /\ ~Capturing
  /\ mst_exec_state = "INIT_READ" /\ ~compare_done /\ ReadTransfer(a)

\* What MemInv says of the controller and its pulse.
ControlInv ==
  /\ init_txn_ff \/ init_txn_ff2 => state \in {"ReadMem", "WriteMem"}
  /\ ~(init_txn_ff /\ init_txn_ff2)
  /\ init_txn_ff /\ clk = 1 => ~compare_done
  /\ state # "Idle" => ~reset /\ MStrobe
  /\ state \in {"WriteStart", "WriteMem", "WriteData"} => MemWrite
  /\ state \in {"ReadStart", "ReadMem", "ReadData"} => ~MemWrite

TransferInv(a, w) == ControlInv /\ (Quiet \/ WritingOf(a, w) \/ ReadingOf(a))

\* What the last read has delivered.
Datum == IF rvalid THEN rdata ELSE data_out

LEMMA WritingEdge ==
  ASSUME NEW a, NEW w, TypeOK, WritingOf(a, w),
         NEW awready \in BOOLEAN, NEW wready \in BOOLEAN,
         NEW arready \in BOOLEAN, NEW commit \in BOOLEAN,
         NEW answer \in BOOLEAN, NEW okay \in Responses,
         MemoryRise(awready, wready, arready, commit, answer, okay)
  PROVE  /\ Quiet' \/ WritingOf(a, w)'
         /\ Answered => Answered' /\ mem' = mem
         /\ ~Answered /\ ~Answered' => mem' = mem
         /\ ~Answered /\ Answered' =>
              mem' = IF okay THEN [mem EXCEPT ![Target(a)] = w] ELSE mem
  <1>1. /\ state' = "WriteMem" /\ ~Capturing' /\ ~init_txn_pulse
        /\ mst_exec_state = "INIT_WRITE" /\ ~compare_done /\ NoRead
    BY EdgeKeeps DEF WritingOf, WriteTransfer, Capturing
  <1>2. WriteStep(awready, wready, arready, commit, answer, okay)
    BY <1>1 DEF WriteStep
  <1>3. NoRead'
    BY <1>2, WriteStepKeeps
  <1>4. Answered <=> bvalid \/ writes_done
    BY <1>1 DEF Answered, NoRead
  <1>5. mst_exec_state' = "INIT_WRITE" /\ ~compare_done'
          => (Answered' <=> bvalid' \/ writes_done')
    BY <1>3 DEF Answered, NoRead
  <1>6. CASE WriteNew /\ axi_awaddr = a /\ axi_wdata = w
    <2>1. /\ WriteIssued' /\ axi_awaddr' = a /\ axi_wdata' = w
          /\ mst_exec_state' = "INIT_WRITE" /\ ~compare_done' /\ mem' = mem
      BY <1>1, <1>2, <1>6, WriteNewStep
    <2>2. ~Answered /\ ~Answered'
      BY <1>4, <1>5, <1>6, <2>1 DEF WriteNew, NoWrite, WriteIssued
    <2> QED BY <1>1, <1>3, <2>1, <2>2 DEF WritingOf, WriteTransfer
  <1>7. CASE WriteIssued /\ axi_awaddr = a /\ axi_wdata = w
    <2>1. /\ WriteOnWay(a, w)' /\ mst_exec_state' = "INIT_WRITE"
          /\ ~compare_done' /\ mem' = mem
      BY <1>1, <1>2, <1>7, WriteIssuedStep
    <2>2. ~Answered /\ ~Answered'
      BY <1>4, <1>5, <1>7, <2>1 DEF WriteIssued, WriteOnWay
    <2> QED BY <1>1, <1>3, <2>1, <2>2 DEF WritingOf, WriteTransfer
  <1>8. CASE WriteOnWay(a, w)
    <2>1. /\ mst_exec_state' = "INIT_WRITE" /\ ~compare_done'
          /\ ~commit => WriteOnWay(a, w)' /\ mem' = mem
          /\ commit => /\ WriteAnswered'
                       /\ mem' = IF okay THEN [mem EXCEPT ![Target(a)] = w] ELSE mem
      BY <1>1, <1>2, <1>8, WriteOnWayStep
    <2>2. ~Answered
      BY <1>4, <1>8 DEF WriteOnWay
    <2>3. Answered' <=> commit
      BY <1>5, <2>1 DEF WriteOnWay, WriteAnswered
    <2> QED BY <1>1, <1>3, <2>1, <2>2, <2>3 DEF WritingOf, WriteTransfer
  <1>9. CASE WriteAnswered
    <2>1. /\ mst_exec_state' = "INIT_WRITE" /\ ~compare_done' /\ mem' = mem
          /\ WriteAnswered' \/ WriteOver'
      BY <1>1, <1>2, <1>9, WriteAnsweredStep
    <2>2. Answered /\ Answered'
      BY <1>4, <1>5, <1>9, <2>1 DEF WriteAnswered, WriteOver
    <2> QED BY <1>1, <1>3, <2>1, <2>2 DEF WritingOf, WriteTransfer
  <1>10. CASE WriteOver
    <2>1. Quiet' /\ mem' = mem
      BY <1>2, <1>10, WriteOverStep
    <2>2. Answered /\ Answered'
      BY <1>4, <1>10, <2>1 DEF WriteOver, Quiet, Answered
    <2> QED BY <2>1, <2>2
  <1> QED BY <1>6, <1>7, <1>8, <1>9, <1>10 DEF WritingOf, WriteTransfer

LEMMA ReadingEdge ==
  ASSUME NEW a, TypeOK, ReadingOf(a),
         NEW awready \in BOOLEAN, NEW wready \in BOOLEAN,
         NEW arready \in BOOLEAN, NEW commit \in BOOLEAN,
         NEW answer \in BOOLEAN, NEW okay \in Responses,
         MemoryRise(awready, wready, arready, commit, answer, okay)
  PROVE  /\ Quiet' \/ ReadingOf(a)'
         /\ mem' = mem
         /\ Answered => Answered' /\ Datum' = Datum
         /\ ~Answered /\ Answered' /\ okay => Datum' = mem[Target(a)]
  <1>1. /\ state' = "ReadMem" /\ ~Capturing' /\ ~init_txn_pulse
        /\ mst_exec_state = "INIT_READ" /\ ~compare_done /\ NoWrite
    BY EdgeKeeps DEF ReadingOf, ReadTransfer, Capturing
  <1>2. ReadStep(awready, wready, arready, commit, answer, okay)
    BY <1>1 DEF ReadStep
  <1>3. NoWrite' /\ mem' = mem
    BY <1>2, ReadStepKeeps
  <1>4. Answered <=> rvalid \/ reads_done
    BY <1>1 DEF Answered, NoWrite
  <1>5. mst_exec_state' = "INIT_READ" /\ ~compare_done'
          => (Answered' <=> rvalid' \/ reads_done')
    BY <1>3 DEF Answered, NoWrite
  <1>6. CASE ReadNew /\ axi_araddr = a
    <2>1. /\ ReadIssued' /\ axi_araddr' = a
          /\ mst_exec_state' = "INIT_READ" /\ ~compare_done'
      BY <1>1, <1>2, <1>6, ReadNewStep
    <2>2. ~Answered /\ ~Answered'
      BY <1>4, <1>5, <1>6, <2>1 DEF ReadNew, NoRead, ReadIssued
    <2> QED BY <1>1, <1>3, <2>1, <2>2 DEF ReadingOf, ReadTransfer
  <1>7. CASE ReadIssued /\ axi_araddr = a
    <2>1. ReadOnWay(a)' /\ mst_exec_state' = "INIT_READ" /\ ~compare_done'
      BY <1>1, <1>2, <1>7, ReadIssuedStep
    <2>2. ~Answered /\ ~Answered'
      BY <1>4, <1>5, <1>7, <2>1 DEF ReadIssued, ReadOnWay
    <2> QED BY <1>1, <1>3, <2>1, <2>2 DEF ReadingOf, ReadTransfer
  <1>8. CASE ReadOnWay(a)
    <2>1. /\ mst_exec_state' = "INIT_READ" /\ ~compare_done'
          /\ ~answer => ReadOnWay(a)'
          /\ answer => ReadAnswered' /\ (okay => rdata' = mem[Target(a)])
      BY <1>1, <1>2, <1>8, ReadOnWayStep
    <2>2. ~Answered
      BY <1>4, <1>8 DEF ReadOnWay
    <2>3. Answered' <=> answer
      BY <1>5, <2>1 DEF ReadOnWay, ReadAnswered
    <2>4. answer /\ okay => Datum' = mem[Target(a)]
      BY <2>1 DEF ReadAnswered, Datum
    <2> QED BY <1>1, <1>3, <2>1, <2>2, <2>3, <2>4 DEF ReadingOf, ReadTransfer
  <1>9. CASE ReadAnswered
    <2>1. /\ mst_exec_state' = "INIT_READ" /\ ~compare_done'
          /\ \/ ReadAnswered' /\ rdata' = rdata
             \/ ReadOver' /\ data_out' = rdata
      BY <1>1, <1>2, <1>9, ReadAnsweredStep
    <2>2. Answered /\ Answered'
      BY <1>4, <1>5, <1>9, <2>1 DEF ReadAnswered, ReadOver
    <2>3. Datum' = Datum
      BY <1>9, <2>1 DEF Datum, ReadAnswered, ReadOver, NoRead
    <2> QED BY <1>1, <1>3, <2>1, <2>2, <2>3 DEF ReadingOf, ReadTransfer
  <1>10. CASE ReadOver
    <2>1. Quiet' /\ data_out' = data_out
      BY <1>2, <1>10, ReadOverStep
    <2>2. Answered /\ Answered'
      BY <1>4, <1>10, <2>1 DEF ReadOver, Quiet, Answered
    <2>3. Datum' = Datum
      BY <1>10, <2>1 DEF Datum, ReadOver, NoRead, Quiet
    <2> QED BY <1>3, <2>1, <2>2, <2>3
  <1> QED BY <1>6, <1>7, <1>8, <1>9, <1>10 DEF ReadingOf, ReadTransfer

\* The pulse captures the request of the moment.
LEMMA CapturingEdge ==
  ASSUME TypeOK, Quiet, init_txn_pulse, state \in {"ReadMem", "WriteMem"},
         NEW awready \in BOOLEAN, NEW wready \in BOOLEAN,
         NEW arready \in BOOLEAN, NEW commit \in BOOLEAN,
         NEW answer \in BOOLEAN, NEW okay \in Responses,
         MemoryRise(awready, wready, arready, commit, answer, okay)
  PROVE  /\ ~Answered' /\ ~compare_done' /\ mem' = mem
         /\ \A a, w : a = request.addr /\ w = request.data =>
              IF state = "WriteMem" THEN WritingOf(a, w)' ELSE ReadingOf(a)'
  <1>1. /\ ~compare_done' /\ mem' = mem
        /\ NoWrite' /\ NoRead' /\ ~writes_done' /\ ~reads_done' /\ ~error_reg'
        /\ axi_awaddr' = request.addr /\ axi_wdata' = request.data
        /\ axi_araddr' = request.addr
        /\ mst_exec_state' = IF DRW THEN "INIT_WRITE" ELSE "INIT_READ"
    BY PulseStep
  <1>2. state' = state /\ ~Capturing'
    BY EdgeKeeps
  <1>3. ~Answered'
    BY <1>1 DEF Answered, NoWrite, NoRead
  <1>4. ASSUME NEW a, NEW w, a = request.addr, w = request.data
        PROVE  IF state = "WriteMem" THEN WritingOf(a, w)' ELSE ReadingOf(a)'
    BY <1>1, <1>2, <1>4 DEF DRW, WritingOf, ReadingOf, WriteTransfer, ReadTransfer,
                            WriteNew, ReadNew
  <1> QED BY <1>1, <1>3, <1>4

\* A rising edge keeps the transfer, whatever becomes of the request.
LEMMA TransferRises ==
  ASSUME NEW a, NEW w, TypeOK, TransferInv(a, w),
         NEW awready \in BOOLEAN, NEW wready \in BOOLEAN,
         NEW arready \in BOOLEAN, NEW commit \in BOOLEAN,
         NEW answer \in BOOLEAN, NEW okay \in Responses,
         MemoryRise(awready, wready, arready, commit, answer, okay),
         state # "Idle" => MStrobe' = MStrobe /\ MemWrite' = MemWrite,
         Quiet /\ init_txn_pulse => a = request.addr /\ w = request.data
  PROVE  TransferInv(a, w)'
  <1>1. /\ state' = state /\ reset' = reset /\ clk = 0 /\ clk' = 1
        /\ init_txn_ff' = init_txn_ff /\ init_txn_ff2' = init_txn_ff2
    BY EdgeKeeps
  <1>2. Quiet' \/ WritingOf(a, w)' \/ ReadingOf(a)'
    <2>1. CASE Quiet /\ ~init_txn_pulse
      BY <2>1, RestStep
    <2>2. CASE Quiet /\ init_txn_pulse
      <3>1. state \in {"ReadMem", "WriteMem"}
        BY <2>2 DEF TransferInv, ControlInv, init_txn_pulse
      <3> QED BY <2>2, <3>1, CapturingEdge
    <2> QED BY <2>1, <2>2, WritingEdge, ReadingEdge DEF TransferInv
  <1>3. init_txn_ff => ~compare_done'
    <2>1. SUFFICES ASSUME init_txn_ff PROVE ~compare_done'
      OBVIOUS
    <2>2. init_txn_pulse /\ state \in {"ReadMem", "WriteMem"}
      BY <2>1 DEF TransferInv, ControlInv, init_txn_pulse
    <2>3. Quiet
      BY <1>1, <2>2 DEF TransferInv, WritingOf, ReadingOf, Capturing
    <2> QED BY <2>2, <2>3, CapturingEdge
  <1>4. ControlInv'
    BY <1>1, <1>3 DEF TransferInv, ControlInv
  <1> QED BY <1>2, <1>4 DEF TransferInv

\* What it does for a core that waits: the transfer is performed once, on
\* the captured address with the captured word.
LEMMA TransferActs ==
  ASSUME NEW a, NEW w, TypeOK, TransferInv(a, w), state # "Idle",
         NEW awready \in BOOLEAN, NEW wready \in BOOLEAN,
         NEW arready \in BOOLEAN, NEW commit \in BOOLEAN,
         NEW answer \in BOOLEAN, NEW okay \in Responses,
         MemoryRise(awready, wready, arready, commit, answer, okay),
         MStrobe' = MStrobe, MemWrite' = MemWrite
  PROVE  /\ Performed => Performed' /\ mem' = mem /\ (~MemWrite => Datum' = Datum)
         /\ ~Performed /\ ~Performed' => mem' = mem
         /\ ~Performed /\ Performed' /\ okay =>
              IF MemWrite THEN mem' = [mem EXCEPT ![Target(a)] = w]
              ELSE mem' = mem /\ Datum' = mem[Target(a)]
         /\ Quiet /\ Performed' => Performed
         /\ Quiet' /\ ~Performed' => Quiet /\ data_out' = data_out
  <1>1. /\ state' = state /\ reset' = reset /\ clk = 0 /\ clk' = 1
        /\ ~Capturing'
    BY EdgeKeeps
  <1>2. /\ Performed <=> \/ state \in {"ReadData", "WriteData"}
                         \/ state \in {"ReadMem", "WriteMem"} /\ Answered /\ ~Capturing
        /\ Performed' <=> \/ state \in {"ReadData", "WriteData"}
                          \/ state \in {"ReadMem", "WriteMem"} /\ Answered'
    BY <1>1 DEF Performed, Capturing
  <1>3. CASE Quiet /\ ~init_txn_pulse
    <2>1. Quiet' /\ mem' = mem /\ data_out' = data_out
      BY <1>3, RestStep
    <2>2. Performed' <=> Performed
      BY <1>2, <1>3, <2>1 DEF Quiet, Answered, Capturing
    <2>3. Datum' = Datum
      BY <1>3, <2>1 DEF Quiet, Datum
    <2> QED BY <1>3, <2>1, <2>2, <2>3
  <1>4. CASE Quiet /\ init_txn_pulse
    <2>1. state \in {"ReadMem", "WriteMem"} /\ Capturing
      BY <1>1, <1>4 DEF TransferInv, ControlInv, init_txn_pulse, Capturing
    <2>2. ~Answered' /\ ~compare_done' /\ mem' = mem
      BY <1>4, <2>1, CapturingEdge
    <2> QED BY <1>2, <1>4, <2>1, <2>2 DEF Quiet
  <1>5. CASE WritingOf(a, w)
    <2>1. /\ Answered => Answered' /\ mem' = mem
          /\ ~Answered /\ ~Answered' => mem' = mem
          /\ ~Answered /\ Answered' /\ okay => mem' = [mem EXCEPT ![Target(a)] = w]
      BY <1>5, WritingEdge
    <2>2. MemWrite /\ (Performed <=> Answered) /\ (Performed' <=> Answered')
      BY <1>2, <1>5 DEF WritingOf, TransferInv, ControlInv
    <2>3. ~Quiet
      BY <1>5 DEF WritingOf, Quiet
    <2>4. Quiet' => Performed'
      BY <2>2 DEF Quiet, Answered
    <2> QED BY <2>1, <2>2, <2>3, <2>4
  <1>6. CASE ReadingOf(a)
    <2>1. /\ mem' = mem
          /\ Answered => Answered' /\ Datum' = Datum
          /\ ~Answered /\ Answered' /\ okay => Datum' = mem[Target(a)]
      BY <1>6, ReadingEdge
    <2>2. ~MemWrite /\ (Performed <=> Answered) /\ (Performed' <=> Answered')
      BY <1>2, <1>6 DEF ReadingOf, TransferInv, ControlInv
    <2>3. ~Quiet
      BY <1>6 DEF ReadingOf, Quiet
    <2>4. Quiet' => Performed'
      BY <2>2 DEF Quiet, Answered
    <2> QED BY <2>1, <2>2, <2>3, <2>4
  <1> QED BY <1>3, <1>4, <1>5, <1>6 DEF TransferInv

\* With the controller idle the edge belongs to the core alone.
LEMMA IdleActs ==
  ASSUME NEW a, NEW w, TypeOK, TransferInv(a, w), state = "Idle",
         NEW awready \in BOOLEAN, NEW wready \in BOOLEAN,
         NEW arready \in BOOLEAN, NEW commit \in BOOLEAN,
         NEW answer \in BOOLEAN, NEW okay \in Responses,
         MemoryRise(awready, wready, arready, commit, answer, okay)
  PROVE  /\ state' = "Idle" /\ clk' = 1 /\ reset' = reset /\ Quiet' /\ ~Performed'
         /\ mem' = mem /\ data_out' = data_out
  <1>1. /\ state' = "Idle" /\ reset' = reset /\ clk' = 1
    BY EdgeKeeps
  <1>2. Quiet /\ ~init_txn_pulse
    BY DEF TransferInv, ControlInv, WritingOf, ReadingOf, init_txn_pulse
  <1>3. Quiet' /\ mem' = mem /\ data_out' = data_out
    BY <1>2, RestStep
  <1> QED BY <1>1, <1>3 DEF Performed

\* A falling edge keeps it too.
LEMMA TransferFalls ==
  ASSUME NEW a, NEW w, TypeOK, TransferInv(a, w), Negedge
  PROVE  TransferInv(a, w)'
  <1>1. /\ (Quiet' <=> Quiet)
        /\ compare_done' = compare_done /\ mst_exec_state' = mst_exec_state
        /\ request' = request /\ reset' = reset /\ clk = 1 /\ clk' = 0
    BY FallKeeps
  <1>2. (WriteTransfer(a, w)' <=> WriteTransfer(a, w)) /\ (ReadTransfer(a)' <=> ReadTransfer(a))
    BY DEF Negedge, sequencerVars, writeVars, readVars, slaveVars, Target,
           WriteTransfer, ReadTransfer, NoWrite, NoRead, OnItsWay,
           WriteNew, WriteIssued, WriteOnWay, WriteAnswered, WriteOver,
           ReadNew, ReadIssued, ReadOnWay, ReadAnswered, ReadOver
  <1>3. /\ state' = IF reset THEN "Idle"
                    ELSE nextstate(MStrobe, MemWrite, compare_done)
        /\ init_txn_ff' = AXIstart /\ init_txn_ff2' = init_txn_ff
    BY DEF Negedge, MemControlNegedge, TXN_DONE, InitTxn
  <1>4. state \in States
    BY DEF TypeOK
  <1>5. init_txn_ff' => /\ state \in {"ReadStart", "WriteStart"} /\ ~init_txn_ff
                        /\ state' \in {"ReadMem", "WriteMem"}
    BY <1>1, <1>3, <1>4 DEF AXIstart, TransferInv, ControlInv, nextstate, States
  <1>6. ControlInv'
    <2>1. /\ state' # "Idle" => ~reset' /\ MStrobe'
          /\ state' \in {"WriteStart", "WriteMem", "WriteData"} => MemWrite'
          /\ state' \in {"ReadStart", "ReadMem", "ReadData"} => ~MemWrite'
      BY <1>1, <1>3, <1>4 DEF TransferInv, ControlInv, MStrobe, MemWrite, nextstate, States
    <2>2. init_txn_ff2' => state' \in {"ReadMem", "WriteMem"}
      BY <1>1, <1>3, <1>4 DEF TransferInv, ControlInv, nextstate, States
    <2> QED BY <1>1, <1>3, <1>5, <2>1, <2>2 DEF ControlInv
  <1>7. WritingOf(a, w) => WritingOf(a, w)'
    BY <1>1, <1>2, <1>3, <1>5 DEF WritingOf, TransferInv, ControlInv, nextstate,
                                  Capturing, init_txn_pulse, AXIstart
  <1>8. ReadingOf(a) => ReadingOf(a)'
    BY <1>1, <1>2, <1>3, <1>5 DEF ReadingOf, TransferInv, ControlInv, nextstate,
                                  Capturing, init_txn_pulse, AXIstart
  <1> QED BY <1>1, <1>6, <1>7, <1>8 DEF TransferInv

\* A falling edge performs nothing: where the controller takes the trigger for
\* the answer, the transaction has been answered.
LEMMA NegedgePerforms ==
  ASSUME TypeOK, ControlInv, Negedge
  PROVE  Performed' <=> Performed
  <1>1. /\ state' = IF reset THEN "Idle"
                    ELSE nextstate(MStrobe, MemWrite, compare_done)
        /\ init_txn_ff' = AXIstart /\ init_txn_ff2' = init_txn_ff
    BY DEF Negedge, MemControlNegedge, TXN_DONE, InitTxn
  <1>2. /\ request' = request /\ reset' = reset /\ clk = 1 /\ clk' = 0
        /\ (MStrobe' <=> MStrobe)
    BY FallKeeps DEF MStrobe
  <1>3. Answered' <=> Answered
    BY DEF Negedge, sequencerVars, writeVars, readVars, slaveVars, Answered
  <1>4. state \in States
    BY DEF TypeOK
  <1>5. CASE state = "Idle"
    <2>1. ~Performed
      BY <1>2, <1>5 DEF Performed
    <2>2. state' = "Idle" => reset \/ ~MStrobe
      BY <1>1, <1>5 DEF nextstate
    <2>3. state' \in {"Idle", "ReadStart", "WriteStart"}
      BY <1>1, <1>5 DEF nextstate
    <2> QED BY <1>2, <2>1, <2>2, <2>3 DEF Performed
  <1>6. CASE state \in {"ReadStart", "WriteStart"}
    <2>1. ~Performed
      BY <1>6 DEF Performed
    <2>2. ~reset /\ state' \in {"ReadMem", "WriteMem"}
      BY <1>1, <1>6 DEF ControlInv, nextstate
    <2>3. init_txn_pulse'
      BY <1>1, <1>6 DEF init_txn_pulse, AXIstart, ControlInv
    <2> QED BY <1>2, <2>1, <2>2, <2>3 DEF Performed
  <1>7. CASE state \in {"ReadMem", "WriteMem"} /\ ~compare_done
    <2>1. ~reset /\ state' = state /\ ~init_txn_pulse'
      BY <1>1, <1>7 DEF ControlInv, nextstate, init_txn_pulse, AXIstart
    <2> QED BY <1>2, <1>3, <1>7, <2>1 DEF Performed
  <1>8. CASE state \in {"ReadMem", "WriteMem"} /\ compare_done
    <2>1. ~reset /\ state' \in {"ReadData", "WriteData"}
      BY <1>1, <1>8 DEF ControlInv, nextstate
    <2>2. Performed
      BY <1>2, <1>8 DEF Performed, Answered
    <2> QED BY <2>1, <2>2 DEF Performed
  <1>9. CASE state \in {"ReadData", "WriteData"}
    <2>1. ~reset /\ MStrobe /\ state' = "Idle"
      BY <1>1, <1>9 DEF ControlInv, nextstate
    <2> QED BY <1>2, <1>9, <2>1 DEF Performed
  <1> QED BY <1>4, <1>5, <1>6, <1>7, <1>8, <1>9 DEF States

\* With the controller idle there is no transfer.
LEMMA IdleRests ==
  ASSUME NEW a, NEW w
  PROVE  state = "Idle" => (TransferInv(a, w) <=> /\ Quiet
                                                  /\ ~init_txn_ff /\ ~init_txn_ff2)
  BY DEF TransferInv, ControlInv, WritingOf, ReadingOf

-----------------------------------------------------------------------------
(***************************************************************************)
(* The refinement of AtomicMemory.                                         *)
(***************************************************************************)

\* No two addresses of the core share a word of the memory.
LEMMA TargetInjective ==
  ASSUME NEW a \in Addr, NEW b \in Addr, Target(a) = Target(b) PROVE a = b
  <1> DEFINE M == AddrMod
             q(x) == (BaseAddr + x) \div M
             r(x) == (BaseAddr + x) % M
  <1>0. /\ M \in Nat \ {0} /\ BaseAddr \in Nat
        /\ a \in 0 .. M - 1 /\ b \in 0 .. M - 1
    BY BusAssumption DEF Addr
  <1>1. /\ q(a) \in Int /\ q(b) \in Int /\ r(a) \in Int /\ r(b) \in Int
        /\ BaseAddr + a = M * q(a) + r(a)
        /\ BaseAddr + b = M * q(b) + r(b)
    BY <1>0
  <1>2. r(a) = r(b)
    BY DEF Target
  <1> HIDE DEF q, r, M
  <1>3. a - b = M * q(a) - M * q(b)
    <2>1. M * q(a) \in Int /\ M * q(b) \in Int
      BY <1>0, <1>1
    <2>2. ASSUME NEW u \in Int, NEW v \in Int, NEW x \in Int, NEW y \in Int,
                 NEW r1 \in Int, NEW base \in Int,
                 base + x = u + r1, base + y = v + r1
          PROVE  x - y = u - v
      BY <2>2
    <2> QED BY <1>0, <1>1, <1>2, <2>1, <2>2
  <1>4. a - b = M * (q(a) - q(b))
    BY <1>0, <1>1, <1>3
  <1>5. a - b < M /\ b - a < M
    BY <1>0
  <1> DEFINE k == q(a) - q(b)
  <1>6. k \in Int /\ a - b = M * k
    BY <1>1, <1>4
  <1> HIDE DEF k
  <1>7. CASE k = 0
    BY <1>0, <1>6, <1>7
  <1>8. CASE k >= 1
    <2>1. M * k >= M
      BY <1>0, <1>6, <1>8
    <2> QED BY <1>0, <1>5, <1>6, <2>1
  <1>9. CASE k <= -1
    <2>1. M * k <= -M
      BY <1>0, <1>6, <1>9
    <2> QED BY <1>0, <1>5, <1>6, <2>1
  <1> QED BY <1>6, <1>7, <1>8, <1>9

\* What AtomicMemory sees of the state.
View == [a \in Addr |-> mem[Target(a)]]
Req  == [strobe |-> request.strobe, write |-> request.write,
         addr |-> request.addr, data |-> request.data]
Answer(ok, d) == IF MemWrite THEN Port!Stored(ok) ELSE Port!Loaded(ok, d)

LEMMA ReqType == TypeOK => Req \in Port!Requests
  BY DEF TypeOK, Requests, Req, Port!Requests

LEMMA ReqTypeNext == (TypeOK => Req \in Port!Requests)'
  BY ReqType, PTL

LEMMA ViewType == TypeOK => View \in [Addr -> Data]
  BY TargetType DEF TypeOK, SlaveTypeOK, View

\* A committed write changes one word of the view.
LEMMA ViewWrite ==
  ASSUME TypeOK,
         mem' = [mem EXCEPT ![Target(request.addr)] = request.data]
  PROVE  View' = [View EXCEPT ![request.addr] = request.data]
  <1>1. request.addr \in Addr /\ mem \in [Addr -> Data]
    BY DEF TypeOK, Requests, SlaveTypeOK
  <1>2. ASSUME NEW a \in Addr
        PROVE  mem'[Target(a)] = IF a = request.addr THEN request.data
                                 ELSE mem[Target(a)]
    BY <1>1, <1>2, TargetType, TargetInjective
  <1>3. View' = [a \in Addr |-> mem'[Target(a)]]
    BY DEF View, Target
  <1> QED BY <1>1, <1>2, <1>3 DEF View

\* How the request stands, stage by stage.
OutcomeFacts ==
  /\ Quiet /\ ~Performed => Outcome = Port!Pending
  /\ Quiet /\ Performed  => Outcome = Answer(~ERROR, data_out)
  /\ Writing /\ (WriteNew \/ WriteIssued \/ WriteUnderWay) => Outcome = Port!Pending
  /\ Writing /\ WriteAnswered => Outcome = Port!Stored(bokay)
  /\ Writing /\ WriteOver     => Outcome = Port!Stored(~error_reg)
  /\ Reading /\ (ReadNew \/ ReadIssued \/ ReadUnderWay) => Outcome = Port!Pending
  /\ Reading /\ ReadAnswered  => Outcome = Port!Loaded(rokay, rdata)
  /\ Reading /\ ReadOver      => Outcome = Port!Loaded(~error_reg, data_out)

LEMMA Outcomes == TypeOK /\ MemInv => OutcomeFacts
  <1> SUFFICES ASSUME TypeOK, MemInv PROVE OutcomeFacts
    OBVIOUS
  <1> USE DEF Outcome, Port!Pending, Port!Stored, Port!Loaded, Okay
  <1>1. Quiet /\ ~Performed => Outcome = Port!Pending
    OBVIOUS
  <1>2. Quiet /\ Performed => Outcome = Answer(~ERROR, data_out)
    BY DEF Quiet, Answer
  <1>3. Writing => /\ MemWrite /\ ~rvalid /\ ~compare_done
                   /\ Performed <=> bvalid \/ writes_done
    BY DEF Writing, MemInv, WriteStage, NoRead, Performed, Answered, Capturing
  <1>4. Reading => /\ ~MemWrite /\ ~bvalid /\ ~compare_done
                   /\ Performed <=> rvalid \/ reads_done
    BY DEF Reading, MemInv, ReadStage, NoWrite, Performed, Answered, Capturing
  <1>5. Writing /\ (WriteNew \/ WriteIssued \/ WriteUnderWay) => Outcome = Port!Pending
    BY <1>3 DEF WriteNew, WriteIssued, WriteUnderWay, NoWrite
  <1>6. Writing /\ WriteAnswered => Outcome = Port!Stored(bokay)
    BY <1>3 DEF WriteAnswered
  <1>7. Writing /\ WriteOver => Outcome = Port!Stored(~error_reg)
    BY <1>3 DEF WriteOver, NoWrite
  <1>8. Reading /\ (ReadNew \/ ReadIssued \/ ReadUnderWay) => Outcome = Port!Pending
    BY <1>4 DEF ReadNew, ReadIssued, ReadUnderWay, NoRead
  <1>9. Reading /\ ReadAnswered => Outcome = Port!Loaded(rokay, rdata)
    BY <1>4 DEF ReadAnswered
  <1>10. Reading /\ ReadOver => Outcome = Port!Loaded(~error_reg, data_out)
    BY <1>4 DEF ReadOver, NoRead
  <1> QED BY <1>1, <1>2, <1>5, <1>6, <1>7, <1>8, <1>9, <1>10 DEF OutcomeFacts

LEMMA OutcomesNext == TypeOK' /\ MemInv' => OutcomeFacts'
  BY Outcomes, PTL

-----------------------------------------------------------------------------
(***************************************************************************)
(* The steps of AtomicMemory, told in the terms of the board.              *)
(***************************************************************************)

LEMMA ViewKeeps == ASSUME mem' = mem PROVE View' = View
  BY DEF View, Target

LEMMA DoneIsNotPending ==
  /\ \A ok : Port!Stored(ok) # Port!Pending
  /\ \A ok, d : Port!Loaded(ok, d) # Port!Pending
  <1>1. Port!Pending.done = FALSE
    BY DEF Port!Pending
  <1>2. \A ok : Port!Stored(ok).done = TRUE
    BY DEF Port!Stored
  <1>3. \A ok, d : Port!Loaded(ok, d).done = TRUE
    BY DEF Port!Loaded
  <1> QED BY <1>1, <1>2, <1>3

LEMMA IsStore ==
  ASSUME TypeOK, ~reset, MStrobe, MemWrite, Outcome = Port!Pending,
         NEW ok \in BOOLEAN, Outcome' = Port!Stored(ok),
         View' = IF ok THEN [View EXCEPT ![request.addr] = request.data] ELSE View,
         request' = request, reset' = reset
  PROVE  Port!Store
  <1>1. Port!Asked /\ Req.write /\ Req.addr = request.addr /\ Req.data = request.data
    BY DEF Port!Asked, MStrobe, MemWrite, Req
  <1>2. UNCHANGED <<Req, reset>>
    BY DEF Req
  <1> QED BY <1>1, <1>2 DEF Port!Store, View, Req

LEMMA IsLoad ==
  ASSUME TypeOK, ~reset, MStrobe, ~MemWrite, Outcome = Port!Pending,
         NEW ok \in BOOLEAN, NEW d \in Data, Outcome' = Port!Loaded(ok, d),
         ok => d = mem[Target(request.addr)], View' = View,
         request' = request, reset' = reset
  PROVE  Port!Load
  <1>1. Port!Asked /\ ~Req.write /\ Req.addr = request.addr
    BY DEF Port!Asked, MStrobe, MemWrite, Req
  <1>2. UNCHANGED <<View, Req, reset>>
    BY DEF Req
  <1>3. View[request.addr] = mem[Target(request.addr)]
    BY DEF TypeOK, Requests, View
  <1> QED BY <1>1, <1>2, <1>3 DEF Port!Load, View, Req

LEMMA IsAdvance ==
  ASSUME TypeOK', ~reset, reset' = reset, MStrobe => Outcome # Port!Pending,
         Outcome' = Port!Pending, View' = View
  PROVE  Port!Advance
  <1>1. Req' \in Port!Requests
    BY ReqTypeNext
  <1>2. ~Port!Asked
    BY DEF Port!Asked, MStrobe
  <1> QED BY <1>1, <1>2 DEF Port!Advance, View, Req

LEMMA IsPress ==
  ASSUME TypeOK', reset', Outcome' = Port!Pending, View' = View
  PROVE  Port!Press
  <1>1. Req' \in Port!Requests /\ reset' = TRUE
    BY ReqTypeNext DEF TypeOK
  <1> QED BY <1>1 DEF Port!Press, View, Req

LEMMA IsRelease ==
  ASSUME reset, reset' = FALSE, Outcome' = Port!Pending, View' = View,
         request' = request
  PROVE  Port!Release
  BY DEF Port!Release, View, Req

LEMMA IsStutter ==
  ASSUME View' = View, request' = request, reset' = reset, Outcome' = Outcome
  PROVE  UNCHANGED Port!vars
  BY DEF Port!vars, View, Req

-----------------------------------------------------------------------------
(***************************************************************************)
(* Every step of the board is a step of AtomicMemory or a stutter.         *)
(***************************************************************************)

PortStep == [Port!Next]_(Port!vars)

\* The core goes on, or is held by reset.
LEMMA IdleRises ==
  ASSUME TypeOK, MemInv, TypeOK', MemInv', state = "Idle",
         NEW awready \in BOOLEAN, NEW wready \in BOOLEAN,
         NEW arready \in BOOLEAN, NEW commit \in BOOLEAN,
         NEW answer \in BOOLEAN, NEW okay \in Responses,
         Rise(awready, wready, arready, commit, answer, okay)
  PROVE  Port!Next
  <1>1. /\ state' = state /\ reset' = reset /\ clk = 0 /\ clk' = 1
    BY RiseKeeps
  <1>2. Quiet /\ ~init_txn_pulse
    BY DEF MemInv, init_txn_pulse
  <1>3. Quiet' /\ mem' = mem
    BY <1>2, RestStep DEF Rise
  <1>4. ~Performed'
    BY <1>1 DEF Performed
  <1>5. Outcome' = Port!Pending /\ View' = View
    BY <1>3, <1>4, OutcomesNext, ViewKeeps DEF OutcomeFacts
  <1>6. CASE reset
    BY <1>1, <1>5, <1>6, IsPress DEF Port!Next
  <1>7. CASE ~reset
    <2>1. MStrobe => Performed
      BY <1>1, <1>7 DEF Performed
    <2>2. MStrobe => Outcome # Port!Pending
      BY <1>2, <2>1, Outcomes, DoneIsNotPending DEF OutcomeFacts, Answer
    <2> QED BY <1>1, <1>5, <1>7, <2>2, IsAdvance DEF Port!Next
  <1> QED BY <1>6, <1>7

\* The core waits while the converter rests: before the pulse, and once the
\* converter has answered.
LEMMA QuietRises ==
  ASSUME TypeOK, MemInv, TypeOK', MemInv', state # "Idle", Quiet, ~init_txn_pulse,
         NEW awready \in BOOLEAN, NEW wready \in BOOLEAN,
         NEW arready \in BOOLEAN, NEW commit \in BOOLEAN,
         NEW answer \in BOOLEAN, NEW okay \in Responses,
         Rise(awready, wready, arready, commit, answer, okay)
  PROVE  UNCHANGED Port!vars
  <1>1. /\ state' = state /\ reset' = reset /\ clk = 0 /\ clk' = 1
        /\ request' = request
    BY RiseKeeps, CoreWaits
  <1>2. Quiet' /\ mem' = mem /\ ERROR' = ERROR /\ data_out' = data_out
    BY RestStep DEF Rise
  <1>3. Performed' <=> Performed
    BY <1>1, <1>2 DEF Performed, Answered, Quiet
  <1>4. Outcome' = Outcome
    <2>1. CASE Performed
      <3>1. Outcome = Answer(~ERROR, data_out)
        BY <2>1, Outcomes DEF OutcomeFacts
      <3>2. Outcome' = Answer(~ERROR, data_out)'
        BY <1>2, <1>3, <2>1, OutcomesNext DEF OutcomeFacts
      <3>3. Answer(~ERROR, data_out)' = Answer(~ERROR, data_out)
        BY <1>1, <1>2 DEF Answer, MemWrite, Port!Stored, Port!Loaded
      <3> QED BY <3>1, <3>2, <3>3
    <2>2. CASE ~Performed
      BY <1>2, <1>3, <2>2, Outcomes, OutcomesNext DEF OutcomeFacts, Port!Pending
    <2> QED BY <2>1, <2>2
  <1> QED BY <1>1, <1>2, <1>4, IsStutter, ViewKeeps

\* The pulse only begins the transaction.
LEMMA PulseRises ==
  ASSUME TypeOK, MemInv, TypeOK', MemInv', Quiet, init_txn_pulse,
         NEW awready \in BOOLEAN, NEW wready \in BOOLEAN,
         NEW arready \in BOOLEAN, NEW commit \in BOOLEAN,
         NEW answer \in BOOLEAN, NEW okay \in Responses,
         Rise(awready, wready, arready, commit, answer, okay)
  PROVE  UNCHANGED Port!vars
  <1>1. state \in {"ReadMem", "WriteMem"}
    BY DEF init_txn_pulse, MemInv
  <1>2. /\ state' = state /\ reset' = reset /\ clk = 0 /\ ~Capturing'
        /\ request' = request
    BY <1>1, RiseKeeps, CoreWaits
  <1>3. /\ ~compare_done' /\ mem' = mem
        /\ NoWrite' /\ NoRead' /\ ~writes_done' /\ ~reads_done' /\ ~error_reg'
        /\ axi_awaddr' = request'.addr /\ axi_wdata' = request'.data
        /\ axi_araddr' = request'.addr
        /\ mst_exec_state' = IF DRW THEN "INIT_WRITE" ELSE "INIT_READ"
    BY <1>2, PulseStep DEF Rise
  <1>4. (Writing' /\ WriteNew') \/ (Reading' /\ ReadNew')
    BY <1>1, <1>2, <1>3 DEF DRW, Writing, Reading, WriteStage, ReadStage,
                            WriteNew, ReadNew
  <1>5. Outcome' = Port!Pending
    BY <1>4, OutcomesNext DEF OutcomeFacts
  <1>6. Outcome = Port!Pending
    <2>1. ~Performed
      BY <1>1, <1>2 DEF Performed
    <2> QED BY <2>1, Outcomes DEF OutcomeFacts
  <1>7. Outcome' = Outcome
    BY <1>5, <1>6 DEF Port!Pending
  <1> QED BY <1>2, <1>3, <1>7, IsStutter, ViewKeeps

\* A write is performed at the edge at which the slave commits it.
LEMMA WriteRises ==
  ASSUME TypeOK, MemInv, TypeOK', MemInv', Writing,
         NEW awready \in BOOLEAN, NEW wready \in BOOLEAN,
         NEW arready \in BOOLEAN, NEW commit \in BOOLEAN,
         NEW answer \in BOOLEAN, NEW okay \in Responses,
         Rise(awready, wready, arready, commit, answer, okay)
  PROVE  PortStep
  <1>1. /\ request' = request /\ reset' = reset /\ ~init_txn_pulse
        /\ state' = "WriteMem" /\ clk' = 1
        /\ ~reset /\ MStrobe /\ MemWrite
    BY CoreWaits, RiseKeeps DEF Writing, Capturing, MemInv
  <1>2. WriteStep(awready, wready, arready, commit, answer, okay)
    BY <1>1 DEF WriteStep, Writing, WriteStage, Rise
  <1>3. Quiet' \/ Writing'
    BY WritingStep
  <1>4. mst_exec_state' = "INIT_WRITE" => Writing'
    BY <1>3 DEF Quiet
  <1>5. CASE WriteNew
    <2>1. WriteIssued' /\ Writing' /\ mem' = mem
      BY <1>2, <1>4, <1>5, WriteNewStep
    <2>2. Outcome = Port!Pending /\ Outcome' = Port!Pending
      BY <1>5, <2>1, Outcomes, OutcomesNext DEF OutcomeFacts
    <2> QED BY <1>1, <2>1, <2>2, IsStutter, ViewKeeps DEF PortStep
  <1>6. CASE WriteIssued
    <2>1. WriteUnderWay' /\ Writing' /\ mem' = mem
      BY <1>1, <1>2, <1>4, <1>6, WriteWaits DEF Writing, WriteStage
    <2>2. Outcome = Port!Pending /\ Outcome' = Port!Pending
      BY <1>6, <2>1, Outcomes, OutcomesNext DEF OutcomeFacts
    <2> QED BY <1>1, <2>1, <2>2, IsStutter, ViewKeeps DEF PortStep
  <1>7. CASE WriteUnderWay /\ ~commit
    <2>1. WriteUnderWay' /\ Writing' /\ mem' = mem
      BY <1>1, <1>2, <1>4, <1>7, WriteWaits DEF Writing, WriteStage
    <2>2. Outcome = Port!Pending /\ Outcome' = Port!Pending
      BY <1>7, <2>1, Outcomes, OutcomesNext DEF OutcomeFacts
    <2> QED BY <1>1, <2>1, <2>2, IsStutter, ViewKeeps DEF PortStep
  <1>8. CASE WriteUnderWay /\ commit
    <2>1. /\ WriteAnswered' /\ Writing' /\ bokay' = okay
          /\ mem' = IF okay
                    THEN [mem EXCEPT ![Target(request.addr)] = request.data]
                    ELSE mem
      BY <1>1, <1>2, <1>4, <1>8, WriteWaits DEF Writing, WriteStage
    <2>2. Outcome = Port!Pending /\ Outcome' = Port!Stored(okay)
      BY <1>8, <2>1, Outcomes, OutcomesNext DEF OutcomeFacts, Port!Stored
    <2>3. okay \in BOOLEAN
      BY SlaveAssumption
    <2>4. View' = IF okay THEN [View EXCEPT ![request.addr] = request.data] ELSE View
      BY <2>1, ViewWrite, ViewKeeps
    <2> QED BY <1>1, <2>2, <2>3, <2>4, IsStore DEF PortStep, Port!Next
  <1>9. CASE WriteAnswered
    <2>1. /\ mst_exec_state' = "INIT_WRITE" /\ mem' = mem
          /\ \/ WriteAnswered' /\ bokay' = bokay
             \/ WriteOver' /\ error_reg' = ~bokay
      BY <1>2, <1>9, WriteAnsweredStep
    <2>2. Outcome = Port!Stored(bokay) /\ bokay \in BOOLEAN
      BY <1>9, Outcomes DEF OutcomeFacts, TypeOK, SlaveTypeOK
    <2>3. Outcome' = Port!Stored(bokay)
      BY <1>4, <2>1, <2>2, OutcomesNext DEF OutcomeFacts, Port!Stored
    <2> QED BY <1>1, <2>1, <2>2, <2>3, IsStutter, ViewKeeps DEF PortStep
  <1>10. CASE WriteOver
    <2>1. Quiet' /\ ERROR' = error_reg /\ mem' = mem
      BY <1>2, <1>10, WriteOverStep
    <2>2. Performed' /\ MemWrite'
      BY <1>1, <2>1 DEF Performed, Answered, Quiet, MemWrite
    <2>3. Outcome = Port!Stored(~error_reg)
      BY <1>10, Outcomes DEF OutcomeFacts
    <2>4. Outcome' = Port!Stored(~error_reg)
      BY <2>1, <2>2, OutcomesNext DEF OutcomeFacts, Answer, Port!Stored
    <2> QED BY <1>1, <2>1, <2>3, <2>4, IsStutter, ViewKeeps DEF PortStep
  <1> QED BY <1>5, <1>6, <1>7, <1>8, <1>9, <1>10 DEF Writing, WriteStage

\* A read is performed at the edge at which the slave answers it.
LEMMA ReadRises ==
  ASSUME TypeOK, MemInv, TypeOK', MemInv', Reading,
         NEW awready \in BOOLEAN, NEW wready \in BOOLEAN,
         NEW arready \in BOOLEAN, NEW commit \in BOOLEAN,
         NEW answer \in BOOLEAN, NEW okay \in Responses,
         Rise(awready, wready, arready, commit, answer, okay)
  PROVE  PortStep
  <1>1. /\ request' = request /\ reset' = reset /\ ~init_txn_pulse
        /\ state' = "ReadMem" /\ clk' = 1
        /\ ~reset /\ MStrobe /\ ~MemWrite
    BY CoreWaits, RiseKeeps DEF Reading, Capturing, MemInv
  <1>2. ReadStep(awready, wready, arready, commit, answer, okay)
    BY <1>1 DEF ReadStep, Reading, ReadStage, Rise
  <1>3. View' = View
    BY <1>2, ReadStepKeeps, ViewKeeps
  <1>4. mst_exec_state' = "INIT_READ" => Reading'
    BY ReadingStep DEF Quiet
  <1>5. CASE ReadNew
    <2>1. ReadIssued' /\ Reading'
      BY <1>2, <1>4, <1>5, ReadNewStep
    <2>2. Outcome = Port!Pending /\ Outcome' = Port!Pending
      BY <1>5, <2>1, Outcomes, OutcomesNext DEF OutcomeFacts
    <2> QED BY <1>1, <1>3, <2>2, IsStutter DEF PortStep
  <1>6. CASE ReadIssued
    <2>1. ReadUnderWay' /\ Reading'
      BY <1>1, <1>2, <1>4, <1>6, ReadWaits DEF Reading, ReadStage
    <2>2. Outcome = Port!Pending /\ Outcome' = Port!Pending
      BY <1>6, <2>1, Outcomes, OutcomesNext DEF OutcomeFacts
    <2> QED BY <1>1, <1>3, <2>2, IsStutter DEF PortStep
  <1>7. CASE ReadUnderWay /\ ~answer
    <2>1. ReadUnderWay' /\ Reading'
      BY <1>1, <1>2, <1>4, <1>7, ReadWaits DEF Reading, ReadStage
    <2>2. Outcome = Port!Pending /\ Outcome' = Port!Pending
      BY <1>7, <2>1, Outcomes, OutcomesNext DEF OutcomeFacts
    <2> QED BY <1>1, <1>3, <2>2, IsStutter DEF PortStep
  <1>8. CASE ReadUnderWay /\ answer
    <2>1. /\ ReadAnswered' /\ Reading' /\ rokay' = okay
          /\ okay => rdata' = mem[Target(request.addr)]
      BY <1>1, <1>2, <1>4, <1>8, ReadWaits DEF Reading, ReadStage
    <2>2. Outcome = Port!Pending /\ Outcome' = Port!Loaded(okay, rdata')
      BY <1>8, <2>1, Outcomes, OutcomesNext DEF OutcomeFacts, Port!Loaded
    <2>3. okay \in BOOLEAN /\ rdata' \in Data
      BY SlaveAssumption DEF TypeOK, SlaveTypeOK
    <2> QED BY <1>1, <1>3, <2>1, <2>2, <2>3, IsLoad DEF PortStep, Port!Next
  <1>9. CASE ReadAnswered
    <2>1. /\ mst_exec_state' = "INIT_READ"
          /\ \/ ReadAnswered' /\ rokay' = rokay /\ rdata' = rdata
             \/ ReadOver' /\ error_reg' = ~rokay /\ data_out' = rdata
      BY <1>2, <1>9, ReadAnsweredStep
    <2>2. Outcome = Port!Loaded(rokay, rdata) /\ rokay \in BOOLEAN
      BY <1>9, Outcomes DEF OutcomeFacts, TypeOK, SlaveTypeOK
    <2>3. Outcome' = Port!Loaded(rokay, rdata)
      BY <1>4, <2>1, <2>2, OutcomesNext DEF OutcomeFacts, Port!Loaded
    <2> QED BY <1>1, <1>3, <2>2, <2>3, IsStutter DEF PortStep
  <1>10. CASE ReadOver
    <2>1. Quiet' /\ ERROR' = error_reg /\ data_out' = data_out
      BY <1>2, <1>10, ReadOverStep
    <2>2. Performed' /\ ~MemWrite'
      BY <1>1, <2>1 DEF Performed, Answered, Quiet, MemWrite
    <2>3. Outcome = Port!Loaded(~error_reg, data_out)
      BY <1>10, Outcomes DEF OutcomeFacts
    <2>4. Outcome' = Port!Loaded(~error_reg, data_out)
      BY <2>1, <2>2, OutcomesNext DEF OutcomeFacts, Answer, Port!Loaded
    <2> QED BY <1>1, <1>3, <2>3, <2>4, IsStutter DEF PortStep
  <1> QED BY <1>5, <1>6, <1>7, <1>8, <1>9, <1>10 DEF Reading, ReadStage

LEMMA PosedgeRefines ==
  ASSUME TypeOK, MemInv, TypeOK', MemInv', Posedge
  PROVE  PortStep
  <1> SUFFICES ASSUME NEW awready \in BOOLEAN, NEW wready \in BOOLEAN,
                      NEW arready \in BOOLEAN, NEW commit \in BOOLEAN,
                      NEW answer \in BOOLEAN, NEW okay \in Responses,
                      Rise(awready, wready, arready, commit, answer, okay)
               PROVE  PortStep
    BY DEF Posedge
  <1>1. CASE state = "Idle"
    BY <1>1, IdleRises DEF PortStep
  <1>2. CASE state # "Idle" /\ Quiet /\ ~init_txn_pulse
    BY <1>2, QuietRises DEF PortStep
  <1>3. CASE Quiet /\ init_txn_pulse
    BY <1>3, PulseRises DEF PortStep
  <1>4. CASE Writing
    BY <1>4, WriteRises
  <1>5. CASE Reading
    BY <1>5, ReadRises
  <1> QED BY <1>1, <1>2, <1>3, <1>4, <1>5 DEF MemInv, Writing, Reading

LEMMA NegedgeRefines ==
  ASSUME TypeOK, MemInv, Negedge
  PROVE  UNCHANGED Port!vars
  <1>1. request' = request /\ reset' = reset /\ mem' = mem
    BY DEF Negedge, slaveVars
  <1>2. /\ bvalid' = bvalid /\ bokay' = bokay /\ rvalid' = rvalid
        /\ rokay' = rokay /\ rdata' = rdata /\ data_out' = data_out
        /\ ERROR' = ERROR /\ error_reg' = error_reg /\ compare_done' = compare_done
    BY DEF Negedge, slaveVars, sequencerVars, readVars
  <1>3. (Performed' <=> Performed) /\ Okay' = Okay /\ MemWrite' = MemWrite
    <2>1. ControlInv
      BY DEF MemInv, ControlInv
    <2> QED BY <1>1, <1>2, <2>1, NegedgePerforms DEF Okay, MemWrite
  <1>4. Outcome' = Outcome
    BY <1>2, <1>3 DEF Outcome
  <1> QED BY <1>1, <1>4, IsStutter, ViewKeeps

LEMMA ButtonRefines ==
  ASSUME TypeOK, MemInv, TypeOK', MemInv',
         (Press /\ state = "Idle") \/ (Release /\ clk = 1)
  PROVE  Port!Next
  <1>1. /\ state' = state /\ clk' = clk /\ mem' = mem /\ (Quiet' <=> Quiet)
    BY ButtonKeeps
  <1>2. state = "Idle"
    BY DEF MemInv, Release
  <1>3. Quiet'
    BY <1>1, <1>2 DEF MemInv
  <1>4. reset' \/ clk' = 1
    BY <1>1 DEF Press
  <1>5. ~Performed'
    BY <1>1, <1>2, <1>4 DEF Performed
  <1>6. Outcome' = Port!Pending /\ View' = View
    BY <1>1, <1>3, <1>5, OutcomesNext, ViewKeeps DEF OutcomeFacts
  <1>7. CASE Press
    BY <1>6, <1>7, IsPress DEF Press, Port!Next
  <1>8. CASE Release
    <2>1. reset /\ reset' = FALSE /\ request' = request
      BY <1>8 DEF Release
    <2> QED BY <1>6, <2>1, IsRelease DEF Port!Next
  <1> QED BY <1>7, <1>8

LEMMA StutterRefines ==
  ASSUME UNCHANGED vars
  PROVE  UNCHANGED Port!vars
  <1>1. /\ request' = request /\ reset' = reset /\ mem' = mem
        /\ Outcome' = Outcome
    BY DEF vars, masterVars, startVars, sequencerVars, writeVars, readVars, slaveVars,
           Outcome, Performed, Answered, Okay, MStrobe, MemWrite, init_txn_pulse
  <1> QED BY <1>1, IsStutter, ViewKeeps

LEMMA RefinesInit == CleanInit /\ request.steady => Port!Init
  <1> SUFFICES ASSUME CleanInit, request.steady PROVE Port!Init
    OBVIOUS
  <1>1. TypeOK /\ MemInv
    BY TypeInit, InvInit DEF CleanInit
  <1>2. state = "Idle" /\ ~Performed
    BY DEF CleanInit, Init, Performed
  <1>3. Quiet
    BY <1>1, <1>2 DEF MemInv
  <1>4. Outcome = Port!Pending
    BY <1>1, <1>2, <1>3, Outcomes DEF OutcomeFacts
  <1>5. Req \in Port!Requests /\ View \in [Addr -> Data] /\ reset \in BOOLEAN
    BY <1>1, ReqType, ViewType DEF TypeOK
  <1> QED BY <1>4, <1>5 DEF Port!Init, View, Req

LEMMA RefinesStep ==
  TypeOK /\ MemInv /\ TypeOK' /\ MemInv' /\ [CleanStep]_vars => PortStep
  <1> SUFFICES ASSUME TypeOK, MemInv, TypeOK', MemInv', [CleanStep]_vars
               PROVE  PortStep
    OBVIOUS
  <1>1. CASE Posedge
    BY <1>1, PosedgeRefines
  <1>2. CASE Negedge
    BY <1>2, NegedgeRefines DEF PortStep
  <1>3. CASE (Press /\ state = "Idle") \/ (Release /\ clk = 1)
    BY <1>3, ButtonRefines DEF PortStep
  <1>4. CASE UNCHANGED vars
    BY <1>4, StutterRefines DEF PortStep
  <1> QED BY <1>1, <1>2, <1>3, <1>4 DEF CleanStep, CleanNext

\* For every bus size, base address, set of words, slave capacity and set of
\* responses, the controller, the converter and the bus perform each request
\* of the core exactly once, on the addressed word, before the core goes on.
THEOREM BoardCorrect == CleanSpec => Refines
  <1>1. CleanInit /\ request.steady => Port!Init
    BY RefinesInit
  <1>2. /\ TypeOK /\ MemInv /\ TypeOK' /\ MemInv' /\ [CleanStep]_vars
        => [Port!Next]_(Port!vars)
    BY RefinesStep DEF PortStep
  <1> QED BY <1>1, <1>2, CleanInvariant, PTL
          DEF CleanSpec, CleanStep, Refines, Port!Spec
=============================================================================
