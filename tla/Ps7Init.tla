-------------------------------- MODULE Ps7Init --------------------------------
(***************************************************************************)
(* ps7_init.c: the boot code of the processing system.  ps7_config         *)
(* interprets a table of register writes, polls and delays; ps7_init runs  *)
(* five tables in order and stops at the first that fails; ps7_post_config *)
(* and ps7_debug run one each.  The code of a part of the silicon answers  *)
(* in its own time, or never: a poll gives up after PS7_MASK_POLL_TIME     *)
(* readings.  A first-stage boot loader calls the functions, and may call  *)
(* ps7_init again when it failed.                                          *)
(***************************************************************************)
EXTENDS Ps7Scripts, Naturals

CONSTANTS
  PS7_MASK_POLL_TIME,  \* readings before a poll gives up
  APU_FREQ,            \* cpu clock in Hz (scaled)
  WordMod,             \* 2^32 (scaled): an unsigned long and an int of the cpu
  CallerTables,        \* tables a caller gives to ps7_config itself
  MaxCalls             \* bound: calls by the boot loader

ASSUME Ps7Assumption ==
  /\ PS7_MASK_POLL_TIME \in Nat
  /\ APU_FREQ \in Nat \ {0}
  /\ WordMod \in Nat \ {0, 1}
  /\ MaxCalls \in Nat

\* A caller's own table is interpreted to its end; it writes none of the
\* registers that the boot has set up, and its delays fit the arithmetic.
ASSUME CallerAssumption ==
  \A t \in CallerTables :
    /\ Len(t) \in Nat \ {0}
    /\ \A k \in 1 .. Len(t) :
         /\ t[k].opcode \in {"CLEAR", "WRITE", "MASKWRITE", "MASKPOLL", "MASKDELAY"}
              <=> k < Len(t)
         /\ t[k].opcode \in {"CLEAR", "WRITE", "MASKWRITE"} =>
              t[k].addr \in {"CTI", "TIMER"}
         /\ t[k].opcode = "MASKDELAY" =>
              t[k].mask \in Nat /\ APU_FREQ * t[k].mask < WordMod

VARIABLES
  si_ver,    \* the version of the silicon, read by every function
  reg,       \* the registers of the silicon, each the set of its 1 bits
  slcr,      \* whether the system-level control registers may be written
  func,      \* the function of ps7_init.c that runs, or "none"
  todo,      \* the tables it still runs after the current one
  table,     \* the table ps7_config interprets
  ptr,       \* the next instruction
  i,         \* the readings of the current poll
  waiting,   \* inside the loop of a delay
  timer,     \* the global timer: its count, and whether it counts
  ret,       \* what the last finished function returned
  booted,    \* history: ps7_init has returned success
  ignored,   \* history: a write fell on write-protected registers
  elapsed,   \* history: timer periods since the last delay began
  calls      \* calls by the boot loader so far

software == <<func, todo, table, ptr, i, waiting>>
history == <<booted, ignored, elapsed>>
vars == <<si_ver, reg, slcr, func, todo, table, ptr, i, waiting, timer, ret, booted,
          ignored, elapsed, calls>>

\* Return codes (ps7_init.h).
PS7_INIT_SUCCESS == 0
PS7_INIT_CORRUPT == 1
PS7_INIT_TIMEOUT == 2

\* The tables that the version of the silicon selects; any other version is
\* taken for the newest.
PCW_SILICON_VERSION_1 == 0
PCW_SILICON_VERSION_2 == 1

InitTables ==
  CASE si_ver = PCW_SILICON_VERSION_1 ->
         << ps7_mio_init_data_1_0, ps7_pll_init_data_1_0, ps7_clock_init_data_1_0,
            ps7_ddr_init_data_1_0, ps7_peripherals_init_data_1_0 >>
    [] si_ver = PCW_SILICON_VERSION_2 ->
         << ps7_mio_init_data_2_0, ps7_pll_init_data_2_0, ps7_clock_init_data_2_0,
            ps7_ddr_init_data_2_0, ps7_peripherals_init_data_2_0 >>
    [] OTHER ->
         << ps7_mio_init_data_3_0, ps7_pll_init_data_3_0, ps7_clock_init_data_3_0,
            ps7_ddr_init_data_3_0, ps7_peripherals_init_data_3_0 >>

PostConfigTables ==
  CASE si_ver = PCW_SILICON_VERSION_1 -> << ps7_post_config_1_0 >>
    [] si_ver = PCW_SILICON_VERSION_2 -> << ps7_post_config_2_0 >>
    [] OTHER -> << ps7_post_config_3_0 >>

DebugTables ==
  CASE si_ver = PCW_SILICON_VERSION_1 -> << ps7_debug_1_0 >>
    [] si_ver = PCW_SILICON_VERSION_2 -> << ps7_debug_2_0 >>
    [] OTHER -> << ps7_debug_3_0 >>

Instr == table[ptr]

\* At power-on the boot rom has the plls running or bypassed; the fabric is
\* in reset and the control registers are write-protected.
Init ==
  /\ \E locked \in {{}, {LOCK[p] : p \in PLLs}} :
       reg = [r \in Registers |->
                CASE r = "PLL_STATUS" -> locked
                  [] r = "FPGA_RST_CTRL" -> {"RESET"}
                  [] OTHER -> {}]
  /\ si_ver \in 0..3
  /\ slcr = "locked"
  /\ func = "none" /\ todo = << >> /\ table = << >> /\ ptr = 1
  /\ i = 0 /\ waiting = FALSE
  /\ timer = [count |-> 0, on |-> FALSE]
  /\ ret = PS7_INIT_SUCCESS
  /\ booted = FALSE /\ ignored = FALSE /\ elapsed = 0
  /\ calls = 0

\* The timer runs at half the cpu clock; the product is an unsigned int.
get_number_of_cycles_for_delay(delay) == ((APU_FREQ * delay) % WordMod) \div (2 * 1000)

-------------------------------------------------------------------------------
(* The silicon. *)

\* A pll locks once it is out of reset.
PllLocks ==
  /\ \E p \in PLLs :
       /\ "RESET" \notin reg[PLL_CTRL[p]]
       /\ LOCK[p] \notin reg["PLL_STATUS"]
       /\ reg' = [reg EXCEPT !["PLL_STATUS"] = @ \cup {LOCK[p]}]
  /\ UNCHANGED <<si_ver, slcr, software, timer, ret, history, calls>>

\* The calibration of the memory pins ends once it is enabled and clocked.
DciDone ==
  /\ {"RESET", "ENABLE"} \subseteq reg["DCI_CTRL"]
  /\ reg["PERIPHERAL_CLOCKS"] # {}
  /\ "DONE" \notin reg["DCI_STATUS"]
  /\ reg' = [reg EXCEPT !["DCI_STATUS"] = {"DONE"}]
  /\ UNCHANGED <<si_ver, slcr, software, timer, ret, history, calls>>

\* The memory controller reports its mode, normal or not, once it is out of
\* reset.
DdrOperates ==
  /\ "SOFT_RSTB" \in reg["ddrc_ctrl"]
  /\ reg["mode_sts"] = {}
  /\ \E mode \in (SUBSET {"MODE0", "MODE1", "MODE2"}) \ {{}} :
       reg' = [reg EXCEPT !["mode_sts"] = mode]
  /\ UNCHANGED <<si_ver, slcr, software, timer, ret, history, calls>>

\* The timer counts; it is followed while the code waits for it, and (a
\* bound) not further than one period past what the code waits for.
TimerTick ==
  /\ timer.on /\ waiting
  /\ timer.count <= get_number_of_cycles_for_delay(Instr.mask)
  /\ timer' = [timer EXCEPT !.count = @ + 1]
  /\ elapsed' = elapsed + 1
  /\ UNCHANGED <<si_ver, reg, slcr, software, ret, booted, ignored, calls>>

Silicon == PllLocks \/ DciDone \/ DdrOperates \/ TimerTick

\* What a write of bits to a register does: protected registers ignore it,
\* a pll in reset loses its lock, a controller in reset its mode.
Store(addr, bits) ==
  IF addr \in SlcrRegisters /\ slcr = "locked"
  THEN ignored' = TRUE /\ UNCHANGED reg
  ELSE /\ reg' = [r \in Registers |->
            CASE r = addr -> bits
              [] r = "PLL_STATUS" ->
                   reg[r] \ {LOCK[p] : p \in {q \in PLLs : addr = PLL_CTRL[q] /\ "RESET" \in bits}}
              [] r = "mode_sts" /\ addr = "ddrc_ctrl" /\ "SOFT_RSTB" \notin bits -> {}
              [] r = "DCI_STATUS" /\ addr = "DCI_CTRL" /\ "RESET" \notin bits -> {}
              [] OTHER -> reg[r]]
       /\ UNCHANGED ignored

-------------------------------------------------------------------------------
(* ps7_config: one action per opcode and branch. *)

Running(opcode) == func # "none" /\ ~waiting /\ Instr.opcode = opcode

Advance ==
  /\ ptr' = ptr + 1
  /\ UNCHANGED <<func, todo, table>>

Done(code) == func' = "none" /\ todo' = << >> /\ table' = << >> /\ ptr' = 1 /\ ret' = code

\* Mutant: the caller does not look at what ps7_config returned.
FinishUnchecked(code) ==
  /\ IF todo # << >>
     THEN /\ table' = Head(todo) /\ todo' = Tail(todo) /\ ptr' = 1
          /\ UNCHANGED <<func, ret>>
     ELSE Done(code)
  /\ booted' = IF func = "ps7_init" THEN todo = << >> /\ code = PS7_INIT_SUCCESS ELSE booted

\* ps7_config has finished with this code: its caller goes on to the next
\* table, or returns.
Finish(code) ==
  /\ IF code = PS7_INIT_SUCCESS /\ todo # << >>
     THEN /\ table' = Head(todo) /\ todo' = Tail(todo) /\ ptr' = 1
          /\ UNCHANGED <<func, ret>>
     ELSE Done(code)
  /\ booted' = IF func = "ps7_init" THEN todo = << >> /\ code = PS7_INIT_SUCCESS ELSE booted

Exit ==
  /\ Running("EXIT")
  /\ Finish(PS7_INIT_SUCCESS)
  /\ UNCHANGED <<si_ver, reg, slcr, i, waiting, timer, ignored, elapsed, calls>>

Clear ==
  /\ Running("CLEAR")
  /\ Store(Instr.addr, {})
  /\ Advance
  /\ UNCHANGED <<si_ver, slcr, i, waiting, timer, ret, booted, elapsed, calls>>

\* The keys that open and close the protection are written like any value.
Write ==
  /\ Running("WRITE")
  /\ CASE Instr.addr = "SLCR_UNLOCK" -> slcr' = "open" /\ UNCHANGED <<reg, ignored>>
       [] Instr.addr = "SLCR_LOCK" -> slcr' = "locked" /\ UNCHANGED <<reg, ignored>>
       [] OTHER -> Store(Instr.addr, Instr.val) /\ UNCHANGED slcr
  /\ Advance
  /\ UNCHANGED <<si_ver, i, waiting, timer, ret, booted, elapsed, calls>>

\* Mutant: the bits outside the mask are not kept.
MaskedNotKept(old, mask, val) == val \cap mask

Masked(old, mask, val) == (val \cap mask) \cup (old \ mask)

MaskWrite ==
  /\ Running("MASKWRITE")
  /\ Store(Instr.addr, Masked(reg[Instr.addr], Instr.mask, Instr.val))
  /\ Advance
  /\ UNCHANGED <<si_ver, slcr, i, waiting, timer, ret, booted, elapsed, calls>>

\* while (!( *addr & mask)): one reading.  A poll ends with the first bit
\* of its mask; the counter is reset when the next one starts.
Polled == reg[Instr.addr] \cap Instr.mask # {}

PollHit ==
  /\ Running("MASKPOLL")
  /\ Polled
  /\ Advance
  /\ i' = 0
  /\ UNCHANGED <<si_ver, reg, slcr, waiting, timer, ret, history, calls>>

\* Mutants: the limit is not looked at; readings are not counted.
PollAgainUnlimited ==
  /\ Running("MASKPOLL")
  /\ ~Polled
  /\ i' = i + 1
  /\ UNCHANGED <<si_ver, reg, slcr, func, todo, table, ptr, waiting, timer, ret, history, calls>>

PollAgainUncounted ==
  /\ Running("MASKPOLL")
  /\ ~Polled /\ i # PS7_MASK_POLL_TIME
  /\ UNCHANGED vars

PollAgain ==
  /\ Running("MASKPOLL")
  /\ ~Polled /\ i # PS7_MASK_POLL_TIME
  /\ i' = i + 1
  /\ UNCHANGED <<si_ver, reg, slcr, func, todo, table, ptr, waiting, timer, ret, history, calls>>

\* Mutant: the poll that gives up ends like one that was answered.
PollTimeoutGoesOn ==
  /\ Running("MASKPOLL")
  /\ ~Polled /\ i = PS7_MASK_POLL_TIME
  /\ Advance
  /\ i' = 0
  /\ UNCHANGED <<si_ver, reg, slcr, waiting, timer, ret, history, calls>>

PollTimeout ==
  /\ Running("MASKPOLL")
  /\ ~Polled /\ i = PS7_MASK_POLL_TIME
  /\ i' = 0
  /\ Finish(PS7_INIT_TIMEOUT)
  /\ UNCHANGED <<si_ver, reg, slcr, waiting, timer, ignored, elapsed, calls>>

\* Mutant: a timer that runs is not cleared.
MaskDelayNoReset ==
  /\ Running("MASKDELAY")
  /\ timer' = [timer EXCEPT !.on = TRUE]
  /\ waiting' = TRUE
  /\ elapsed' = 0
  /\ UNCHANGED <<si_ver, reg, slcr, func, todo, table, ptr, i, ret, booted, ignored, calls>>

\* perf_reset_and_start_timer stops and clears the timer, then starts it.
MaskDelay ==
  /\ Running("MASKDELAY")
  /\ timer' = [count |-> 0, on |-> TRUE]
  /\ waiting' = TRUE
  /\ elapsed' = 0
  /\ UNCHANGED <<si_ver, reg, slcr, func, todo, table, ptr, i, ret, booted, ignored, calls>>

\* while ( *addr < delay): the reading that ends the loop.
DelayOver ==
  /\ waiting
  /\ timer.count >= get_number_of_cycles_for_delay(Instr.mask)
  /\ waiting' = FALSE
  /\ Advance
  /\ UNCHANGED <<si_ver, reg, slcr, i, timer, ret, history, calls>>

\* default: anything else corrupts the run.
Corrupt ==
  /\ func # "none" /\ ~waiting
  /\ Instr.opcode \notin {"EXIT", "CLEAR", "WRITE", "MASKWRITE", "MASKPOLL", "MASKDELAY"}
  /\ Finish(PS7_INIT_CORRUPT)
  /\ UNCHANGED <<si_ver, reg, slcr, i, waiting, timer, ignored, elapsed, calls>>

Code ==
  Exit \/ Clear \/ Write \/ MaskWrite \/ PollHit \/ PollAgain \/ PollTimeout
    \/ MaskDelay \/ DelayOver \/ Corrupt

-------------------------------------------------------------------------------
(* The boot loader: calls the functions, and ps7_init again when it failed. *)

Start(f, tables) ==
  /\ func = "none" /\ calls < MaxCalls
  /\ func' = f /\ table' = Head(tables) /\ todo' = Tail(tables) /\ ptr' = 1
  /\ calls' = calls + 1
  /\ UNCHANGED <<si_ver, reg, slcr, i, waiting, timer, ret, history>>

CallInit == ~booted /\ Start("ps7_init", InitTables)
CallPostConfig == booted /\ Start("ps7_post_config", PostConfigTables)
CallDebug == booted /\ Start("ps7_debug", DebugTables)
CallConfig == booted /\ \E t \in CallerTables : Start("ps7_config", << t >>)

\* The boot loader calls no more.
Quiet ==
  /\ func = "none" /\ calls = MaxCalls
  /\ UNCHANGED vars

Next ==
  \/ Code \/ Silicon \/ Quiet
  \/ CallInit \/ CallPostConfig \/ CallDebug \/ CallConfig

Spec == Init /\ [][Next]_vars

\* The cpu executes, and the timer counts; nothing is asked of the plls, the
\* calibration or the memory controller.
FairSpec == Spec /\ WF_vars(Code) /\ WF_vars(TimerTick)

-------------------------------------------------------------------------------
(* Properties. *)

TypeOK ==
  /\ DOMAIN reg = Registers
  /\ slcr \in {"open", "locked"}
  /\ func \in {"none", "ps7_init", "ps7_post_config", "ps7_debug", "ps7_config"}
  /\ func # "none" => ptr \in 1..Len(table)
  /\ i \in 0..PS7_MASK_POLL_TIME
  /\ waiting \in BOOLEAN
  /\ timer.count \in 0..(WordMod - 1)
  /\ ret \in {PS7_INIT_SUCCESS, PS7_INIT_CORRUPT, PS7_INIT_TIMEOUT}

\* A pll is never reset while its clock is in use: reset and bypass share a
\* register with the divider, so this rests on the order of the table and on
\* MASKWRITE keeping the other bits (ps7_init.c:60-105, 11942).
ResetOnlyBypassed ==
  \A p \in PLLs : "RESET" \in reg[PLL_CTRL[p]] => "BYPASS" \in reg[PLL_CTRL[p]]

\* A pll comes out of bypass only locked, also in a run that a poll which
\* gave up has cut short and in the one that is tried after it
\* (ps7_init.c:82-99, 11945-11956).
BypassEndsLocked ==
  [][\A p \in PLLs :
       ("BYPASS" \in reg[PLL_CTRL[p]] /\ "BYPASS" \notin reg'[PLL_CTRL[p]])
         => LOCK[p] \in reg["PLL_STATUS"]]_vars

\* The memory controller leaves reset programmed, with its pins calibrated
\* and its clock locked and in use: four tables written apart have to be
\* right for it (ps7_init.c:1549-1582, 12055-12074).
DdrReleasedReady ==
  [][("SOFT_RSTB" \notin reg["ddrc_ctrl"] /\ "SOFT_RSTB" \in reg'["ddrc_ctrl"])
       => /\ reg["DDRC"] # {} /\ reg["DDRIOB"] # {}
          /\ "DONE" \in reg["DCI_STATUS"]
          /\ LOCK["DDR"] \in reg["PLL_STATUS"]
          /\ "BYPASS" \notin reg[PLL_CTRL["DDR"]]]_vars

\* The fabric, and with it the core, leaves reset behind level shifters that
\* are on, after a boot that succeeded (ps7_init.c:3749-3831, 11982-11998).
FabricReleasedLast ==
  "RESET" \notin reg["FPGA_RST_CTRL"] => booted /\ reg["LVL_SHFTR_EN"] # {}

\* No setting is lost to the write protection: every table that writes the
\* control registers opens it first and writes them before it closes it,
\* whatever state the failed run before it left (ps7_init.c:11932-11943).
NoWriteIgnored == ~ignored

\* When ps7_init returns success the whole processing system is up and the
\* control registers are protected again (ps7_init.c:12055-12077).
BootedMeansUp ==
  booted =>
    /\ \A p \in PLLs : LOCK[p] \in reg["PLL_STATUS"] /\ "BYPASS" \notin reg[PLL_CTRL[p]]
    /\ \A r \in {"PERIPHERAL_CLOCKS", "DDRIOB", "MIO_PINS", "DDRIOB_TERM",
                 "DDRC", "UART", "QSPI", "DEVCFG"} : reg[r] # {}
    /\ reg["mode_sts"] # {}
    /\ func = "none" => slcr = "locked"

\* A delay lasts at least the milliseconds it was asked for
\* (ps7_init.c:11957-11966, 12101-12105).
DelayLasts ==
  [][waiting /\ ~waiting' => elapsed >= (APU_FREQ * Instr.mask) \div 2000]_vars

\* Every function returns, whether or not the silicon ever answers
\* (ps7_init.c:11949-11955).
Returns == func # "none" ~> func = "none"
===============================================================================
