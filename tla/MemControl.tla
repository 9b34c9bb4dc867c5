----------------------------- MODULE MemControl -----------------------------
(***************************************************************************)
(* The memory controller of the board design: it turns the core's memory   *)
(* strobe into one transaction of the AXI converter and holds the core     *)
(* (Done is the core's PCReady) until the converter's trigger comes back.  *)
(* Its state changes at falling clock edges; its outputs follow the state. *)
(***************************************************************************)
VARIABLE state

States == {"Idle", "ReadStart", "ReadMem", "ReadData",
           "WriteStart", "WriteMem", "WriteData"}

\* OutputLogic
Done     == state = "Idle"
DRW      == state \in {"Idle", "WriteStart", "WriteMem"}
AXIstart == state \in {"ReadStart", "WriteStart"}

\* Mutant: a write counts as done as soon as it has started.
nextstatePosted(MStrobe, MemWrite, Trigger) ==
  CASE state = "Idle"       -> IF ~MStrobe THEN "Idle"
                               ELSE IF MemWrite THEN "WriteStart" ELSE "ReadStart"
    [] state = "ReadStart"  -> "ReadMem"
    [] state = "ReadMem"    -> IF Trigger THEN "ReadData" ELSE "ReadMem"
    [] state = "WriteStart" -> "WriteMem"
    [] state = "WriteMem"   -> "WriteData"
    [] OTHER                -> "Idle"

nextstate(MStrobe, MemWrite, Trigger) ==
  CASE state = "Idle"       -> IF ~MStrobe THEN "Idle"
                               ELSE IF MemWrite THEN "WriteStart" ELSE "ReadStart"
    [] state = "ReadStart"  -> "ReadMem"
    [] state = "ReadMem"    -> IF Trigger THEN "ReadData" ELSE "ReadMem"
    [] state = "WriteStart" -> "WriteMem"
    [] state = "WriteMem"   -> IF Trigger THEN "WriteData" ELSE "WriteMem"
    [] OTHER                -> "Idle"

\* The state register; reset is synchronous.
MemControlNegedge(MStrobe, MemWrite, Trigger, reset) ==
  state' = IF reset THEN "Idle" ELSE nextstate(MStrobe, MemWrite, Trigger)
=============================================================================
