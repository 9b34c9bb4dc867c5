------------------------------ MODULE Ps7Scripts ------------------------------
(***************************************************************************)
(* The tables of ps7_init.c: the programs, one per part of the processing  *)
(* system, that ps7_config interprets to bring the board up before the     *)
(* core runs.  A register is the set of its bits that are 1.  The bits     *)
(* that steer the sequence (reset, bypass, lock, done) are kept apart;     *)
(* "VALUES" stands for all the settings a table gives a register or a      *)
(* group of registers that is written as a block.                          *)
(***************************************************************************)
EXTENDS Sequences

PLLs == {"ARM", "DDR", "IO"}

\* The registers, and which of them lie behind the write protection of the
\* system-level control registers (0XF8000000 .. 0XF8000B74).
PLL_CTRL == [ARM |-> "ARM_PLL_CTRL", DDR |-> "DDR_PLL_CTRL", IO |-> "IO_PLL_CTRL"]
PLL_CFG  == [ARM |-> "ARM_PLL_CFG", DDR |-> "DDR_PLL_CFG", IO |-> "IO_PLL_CFG"]
CLK_CTRL == [ARM |-> "ARM_CLK_CTRL", DDR |-> "DDR_CLK_CTRL"]
LOCK     == [ARM |-> "ARM_PLL_LOCK", DDR |-> "DDR_PLL_LOCK", IO |-> "IO_PLL_LOCK"]

SlcrRegisters ==
  {PLL_CTRL[p] : p \in PLLs} \cup {PLL_CFG[p] : p \in PLLs}
    \cup {CLK_CTRL[p] : p \in {"ARM", "DDR"}}
    \cup {"PERIPHERAL_CLOCKS", "DDRIOB", "DCI_CTRL", "MIO_PINS", "DDRIOB_TERM",
          "LVL_SHFTR_EN", "FPGA_RST_CTRL"}

OtherRegisters ==
  {"ddrc_ctrl", "DDRC", "UART", "QSPI", "DEVCFG", "CTI", "TIMER"}

StatusRegisters == {"PLL_STATUS", "DCI_STATUS", "mode_sts"}

Registers == SlcrRegisters \cup OtherRegisters \cup StatusRegisters

\* The instructions (EMIT_... of ps7_init.h).
EXIT == [opcode |-> "EXIT"]
CLEAR(addr) == [opcode |-> "CLEAR", addr |-> addr]
WRITE(addr, val) == [opcode |-> "WRITE", addr |-> addr, val |-> val]
MASKWRITE(addr, mask, val) ==
  [opcode |-> "MASKWRITE", addr |-> addr, mask |-> mask, val |-> val]
MASKPOLL(addr, mask) == [opcode |-> "MASKPOLL", addr |-> addr, mask |-> mask]
MASKDELAY(addr, delay) == [opcode |-> "MASKDELAY", addr |-> addr, mask |-> delay]

\* A block of settings, written whole.
Configure(addr) == MASKWRITE(addr, {"VALUES"}, {"VALUES"})

UNLOCK_SLCR == WRITE("SLCR_UNLOCK", "DF0D")
LOCK_SLCR   == WRITE("SLCR_LOCK", "767B")

\* Mutant: the bypass comes after the reset.
PllInitResetFirst(p) ==
  << Configure(PLL_CFG[p]),
     MASKWRITE(PLL_CTRL[p], {"FDIV"}, {"FDIV"}),
     MASKWRITE(PLL_CTRL[p], {"RESET"}, {"RESET"}),
     MASKWRITE(PLL_CTRL[p], {"BYPASS"}, {"BYPASS"}),
     MASKWRITE(PLL_CTRL[p], {"RESET"}, {}),
     MASKPOLL("PLL_STATUS", {LOCK[p]}),
     MASKWRITE(PLL_CTRL[p], {"BYPASS"}, {}) >>

\* One PLL: bypassed before it is reset, back in use only after the poll.
PllInit(p) ==
  << Configure(PLL_CFG[p]),
     MASKWRITE(PLL_CTRL[p], {"FDIV"}, {"FDIV"}),
     MASKWRITE(PLL_CTRL[p], {"BYPASS"}, {"BYPASS"}),
     MASKWRITE(PLL_CTRL[p], {"RESET"}, {"RESET"}),
     MASKWRITE(PLL_CTRL[p], {"RESET"}, {}),
     MASKPOLL("PLL_STATUS", {LOCK[p]}),
     MASKWRITE(PLL_CTRL[p], {"BYPASS"}, {}) >>

ArmPll == PllInit("ARM") \o << Configure(CLK_CTRL["ARM"]) >>
DdrPll == PllInit("DDR") \o << Configure(CLK_CTRL["DDR"]) >>
IoPll  == PllInit("IO")

\* What a table configures, and in which order.
PllTable ==
  << UNLOCK_SLCR >> \o ArmPll \o DdrPll \o IoPll \o << LOCK_SLCR, EXIT >>

ClockTable == << UNLOCK_SLCR, Configure("PERIPHERAL_CLOCKS"), LOCK_SLCR, EXIT >>

\* Mutant: the controller is released without waiting for the calibration.
DdrTableNoWait ==
  << MASKWRITE("ddrc_ctrl", {"SOFT_RSTB", "VALUES"}, {"VALUES"}),
     Configure("DDRC"),
     MASKWRITE("ddrc_ctrl", {"SOFT_RSTB", "VALUES"}, {"SOFT_RSTB", "VALUES"}),
     MASKPOLL("mode_sts", {"MODE0", "MODE1", "MODE2"}),
     EXIT >>

\* The controller is held in reset while it is programmed, and released when
\* the impedance calibration of its pins is done.
DdrTable ==
  << MASKWRITE("ddrc_ctrl", {"SOFT_RSTB", "VALUES"}, {"VALUES"}),
     Configure("DDRC"),
     MASKPOLL("DCI_STATUS", {"DONE"}),
     MASKWRITE("ddrc_ctrl", {"SOFT_RSTB", "VALUES"}, {"SOFT_RSTB", "VALUES"}),
     MASKPOLL("mode_sts", {"MODE0", "MODE1", "MODE2"}),
     EXIT >>

\* The reset of the calibration logic is pulsed, then the logic enabled; the
\* first write also drives VRN_OUT on the older silicon.
DdrPins(first) ==
  << Configure("DDRIOB"),
     MASKWRITE("DCI_CTRL", first, first),
     MASKWRITE("DCI_CTRL", {"RESET", "VRN_OUT"}, {"VRN_OUT"}),
     MASKWRITE("DCI_CTRL", {"RESET", "ENABLE", "VRN_OUT", "VALUES"},
               {"RESET", "ENABLE", "VRN_OUT", "VALUES"}) >>

MioTable(first) ==
  << UNLOCK_SLCR >> \o DdrPins(first) \o << Configure("MIO_PINS"), LOCK_SLCR, EXIT >>

\* Mutant: one settings block is written after the protection is back on.
PeripheralsTableLate ==
  << UNLOCK_SLCR, LOCK_SLCR, Configure("DDRIOB_TERM"),
     Configure("UART"), Configure("QSPI"), Configure("DEVCFG"), EXIT >>

PeripheralsTable ==
  << UNLOCK_SLCR, Configure("DDRIOB_TERM"), LOCK_SLCR,
     Configure("UART"), Configure("QSPI"), Configure("DEVCFG"), EXIT >>

\* Mutant: the fabric leaves reset first.
PostConfigTableEarly ==
  << UNLOCK_SLCR, MASKWRITE("FPGA_RST_CTRL", {"RESET"}, {}),
     Configure("LVL_SHFTR_EN"), LOCK_SLCR, EXIT >>

\* The level shifters to the fabric are on before its resets are released.
PostConfigTable ==
  << UNLOCK_SLCR, Configure("LVL_SHFTR_EN"),
     MASKWRITE("FPGA_RST_CTRL", {"RESET"}, {}), LOCK_SLCR, EXIT >>

DebugTable == << WRITE("CTI", {"VALUES"}), EXIT >>

\* The tables of each version of the silicon.
ps7_pll_init_data_3_0 == PllTable
ps7_pll_init_data_2_0 == PllTable
ps7_pll_init_data_1_0 == PllTable
ps7_clock_init_data_3_0 == ClockTable
ps7_clock_init_data_2_0 == ClockTable
ps7_clock_init_data_1_0 == ClockTable
ps7_ddr_init_data_3_0 == DdrTable
ps7_ddr_init_data_2_0 == DdrTable
ps7_ddr_init_data_1_0 == DdrTable
ps7_mio_init_data_3_0 == MioTable({"RESET"})
ps7_mio_init_data_2_0 == MioTable({"RESET", "VRN_OUT"})
ps7_mio_init_data_1_0 == MioTable({"RESET", "VRN_OUT"})
ps7_peripherals_init_data_3_0 == PeripheralsTable
ps7_peripherals_init_data_2_0 == PeripheralsTable
ps7_peripherals_init_data_1_0 == PeripheralsTable
ps7_post_config_3_0 == PostConfigTable
ps7_post_config_2_0 == PostConfigTable
ps7_post_config_1_0 == PostConfigTable
ps7_debug_3_0 == DebugTable
ps7_debug_2_0 == DebugTable
ps7_debug_1_0 == DebugTable
===============================================================================
