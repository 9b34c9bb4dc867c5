------------------------------ MODULE AxiSlave ------------------------------
(***************************************************************************)
(* External: what the SmartConnect and the memory of the processing system *)
(* show to the converter.  Every channel takes its own time: an accepted   *)
(* write address and an accepted word wait for each other, and a committed *)
(* write or a read is answered at some later rising edge, with an error    *)
(* response when the slave refuses it.  At most Outstanding addresses and  *)
(* words wait on each channel.                                             *)
(***************************************************************************)
EXTENDS AxiMaster, Sequences

CONSTANTS Outstanding,  \* acceptance capability of each channel
          Responses     \* TRUE for OKAY, FALSE for an error response

ASSUME SlaveAssumption == Outstanding \in Nat \ {0} /\ Responses \subseteq BOOLEAN

VARIABLES mem,     \* the memory, by bus address
          aws, ws, \* accepted write addresses and words
          ars,     \* accepted read addresses
          bvalid, bokay, rvalid, rokay, rdata

slaveVars == <<mem, aws, ws, ars, bvalid, bokay, rvalid, rokay, rdata>>

SlaveTypeOK ==
  /\ mem \in [Addr -> Data]
  /\ aws \in Seq(Addr) /\ ars \in Seq(Addr) /\ ws \in Seq(Data)
  /\ bvalid \in BOOLEAN /\ bokay \in BOOLEAN
  /\ rvalid \in BOOLEAN /\ rokay \in BOOLEAN /\ rdata \in Data

SlaveInit ==
  /\ mem \in [Addr -> Data]
  /\ aws = << >> /\ ws = << >> /\ ars = << >>
  /\ bvalid = FALSE /\ bokay = TRUE
  /\ rvalid = FALSE /\ rokay = TRUE /\ rdata \in Data

\* A channel of waiting items: at a rising edge its head may be consumed and
\* an item offered on the bus accepted.
Channel(queue, consumed, accepted, item) ==
  LET rest == IF consumed THEN Tail(queue) ELSE queue
  IN  IF accepted THEN Append(rest, item) ELSE rest

Room(queue) == Len(queue) < Outstanding

\* What the slave may do at a rising edge: take an offered item where it has
\* room (a ready line that meets no offer makes no difference), commit a
\* write whose address and word are there, answer a read.
SlaveMay(awready, wready, arready, commit, answer) ==
  /\ awready => axi_awvalid /\ Room(aws)
  /\ wready => axi_wvalid /\ Room(ws)
  /\ arready => axi_arvalid /\ Room(ars)
  /\ commit => aws # << >> /\ ws # << >> /\ ~bvalid
  /\ answer => ars # << >> /\ ~rvalid

\* Memory write, and its response until the master takes it.
SlaveWrite(awready, wready, commit, okay) ==
  /\ aws' = Channel(aws, commit, awready, Target(axi_awaddr))
  /\ ws' = Channel(ws, commit, wready, axi_wdata)
  /\ mem' = IF commit /\ okay THEN [mem EXCEPT ![Head(aws)] = Head(ws)] ELSE mem
  /\ bvalid' = (commit \/ (bvalid /\ ~axi_bready))
  /\ bokay' = IF commit THEN okay ELSE bokay

\* Memory read; an error response carries any data.
SlaveRead(arready, answer, okay) ==
  /\ ars' = Channel(ars, answer, arready, Target(axi_araddr))
  /\ rvalid' = (answer \/ (rvalid /\ ~axi_rready))
  /\ rokay' = IF answer THEN okay ELSE rokay
  /\ IF answer THEN rdata' \in (IF okay THEN {mem[Head(ars)]} ELSE Data)
     ELSE rdata' = rdata
=============================================================================
