----------------------------- MODULE Ps7Init_proofs -----------------------------
(***************************************************************************)
(* What holds of the boot code for every time limit, clock and word size   *)
(* of the cpu, however the silicon answers and whatever is called again.   *)
(* The tables are programs without branches, so the argument is Hoare's:   *)
(* every instruction needs some facts about the silicon, gives some and    *)
(* keeps others.  A table is sound if what an instruction needs is known   *)
(* before it, from where the table starts or from what an instruction      *)
(* before gave and none since took away; the invariant says the same of    *)
(* the instructions that are still to come.                                *)
(***************************************************************************)
EXTENDS Ps7Init, TLAPS

-------------------------------------------------------------------------------
(* Facts about the silicon. *)

Settings == {"PERIPHERAL_CLOCKS", "DDRIOB", "MIO_PINS", "DDRIOB_TERM",
             "LVL_SHFTR_EN", "DDRC", "UART", "QSPI", "DEVCFG"}

Open       == <<"open", "slcr">>
Protected  == <<"protected", "slcr">>
Calibrated == <<"calibrated", "ddr">>
Operating  == <<"operating", "ddr">>
Booted     == <<"booted", "system">>

Fact == {Open, Protected, Calibrated, Operating, Booted}
          \cup ({"bypassed", "inUse", "unreset", "locked"} \X PLLs)
          \cup ({"set"} \X Settings)

Holds(f) ==
  CASE f[1] = "open"       -> slcr = "open"
    [] f[1] = "protected"  -> slcr = "locked"
    [] f[1] = "calibrated" -> "DONE" \in reg["DCI_STATUS"]
    [] f[1] = "operating"  -> reg["mode_sts"] # {}
    [] f[1] = "booted"     -> booted
    [] f[1] = "bypassed"   -> "BYPASS" \in reg[PLL_CTRL[f[2]]]
    [] f[1] = "inUse"      -> "BYPASS" \notin reg[PLL_CTRL[f[2]]]
    [] f[1] = "unreset"    -> "RESET" \notin reg[PLL_CTRL[f[2]]]
    [] f[1] = "locked"     -> LOCK[f[2]] \in reg["PLL_STATUS"]
    [] OTHER               -> reg[f[2]] # {}

\* An instruction writes 1, or 0, to a bit of a register.
Writing(ins) == ins.opcode \in {"CLEAR", "WRITE", "MASKWRITE"}
Sets(ins, r, b) ==
  /\ Writing(ins) /\ ins.addr = r
  /\ \/ ins.opcode = "WRITE" /\ b \in ins.val
     \/ ins.opcode = "MASKWRITE" /\ b \in ins.val \cap ins.mask
Clears(ins, r, b) ==
  /\ Writing(ins) /\ ins.addr = r
  /\ \/ ins.opcode = "CLEAR"
     \/ ins.opcode = "WRITE" /\ b \notin ins.val
     \/ ins.opcode = "MASKWRITE" /\ b \in ins.mask \ ins.val
Key(ins, addr) == ins.opcode = "WRITE" /\ ins.addr = addr

\* What an instruction makes true ...
Gives(ins, f) ==
  CASE f[1] = "open"       -> Key(ins, "SLCR_UNLOCK")
    [] f[1] = "protected"  -> Key(ins, "SLCR_LOCK")
    [] f[1] = "calibrated" -> ins = MASKPOLL("DCI_STATUS", {"DONE"})
    [] f[1] = "operating"  -> ins.opcode = "MASKPOLL" /\ ins.addr = "mode_sts"
    [] f[1] = "booted"     -> FALSE
    [] f[1] = "bypassed"   -> Sets(ins, PLL_CTRL[f[2]], "BYPASS")
    [] f[1] = "inUse"      -> Clears(ins, PLL_CTRL[f[2]], "BYPASS")
    [] f[1] = "unreset"    -> Clears(ins, PLL_CTRL[f[2]], "RESET")
    [] f[1] = "locked"     -> ins = MASKPOLL("PLL_STATUS", {LOCK[f[2]]})
    [] OTHER               -> Sets(ins, f[2], "VALUES")

\* ... and what it leaves true.
Keeps(ins, f) ==
  CASE f[1] = "open"       -> ~Key(ins, "SLCR_LOCK")
    [] f[1] = "protected"  -> ~Key(ins, "SLCR_UNLOCK")
    [] f[1] = "calibrated" -> ~Clears(ins, "DCI_CTRL", "RESET")
    [] f[1] = "operating"  -> ~Clears(ins, "ddrc_ctrl", "SOFT_RSTB")
    [] f[1] = "booted"     -> TRUE
    [] f[1] = "bypassed"   -> ~Clears(ins, PLL_CTRL[f[2]], "BYPASS")
    [] f[1] = "inUse"      -> ~Sets(ins, PLL_CTRL[f[2]], "BYPASS")
    [] f[1] = "unreset"    -> ~Sets(ins, PLL_CTRL[f[2]], "RESET")
    [] f[1] = "locked"     -> ~Sets(ins, PLL_CTRL[f[2]], "RESET")
    [] OTHER               -> Writing(ins) /\ ins.addr = f[2] =>
                                Sets(ins, f[2], "VALUES")

\* What must be true for an instruction to be safe.
Needs(ins, f) ==
  \/ f = Open /\ Writing(ins) /\ ins.addr \in SlcrRegisters
  \/ \E p \in PLLs :
       \/ f = <<"bypassed", p>> /\ Sets(ins, PLL_CTRL[p], "RESET")
       \/ /\ f \in {<<"unreset", p>>, <<"locked", p>>}
          /\ Clears(ins, PLL_CTRL[p], "BYPASS")
  \/ /\ f \in {<<"set", "DDRC">>, <<"set", "DDRIOB">>, Calibrated,
               <<"locked", "DDR">>, <<"inUse", "DDR">>}
     /\ Sets(ins, "ddrc_ctrl", "SOFT_RSTB")
  \/ /\ f \in {<<"set", "LVL_SHFTR_EN">>, Booted}
     /\ Clears(ins, "FPGA_RST_CTRL", "RESET")

-------------------------------------------------------------------------------
(* Sound tables. *)

\* A fact that is true before instruction j is true before k; a fact that an
\* instruction from j on gives is.
Kept(t, j, k, f) == \A l \in j .. k - 1 : Keeps(t[l], f)
Given(t, j, k, f) == \E g \in j .. k - 1 : Gives(t[g], f) /\ Kept(t, g + 1, k, f)
Known(t, pre, k, f) == (f \in pre /\ Kept(t, 1, k, f)) \/ Given(t, 1, k, f)

\* A table ends with its only instruction that is not a step, and no
\* instruction empties a setting or writes two bits that depend on each other.
StepFormed(t, k) ==
  /\ t[k].opcode \in {"CLEAR", "WRITE", "MASKWRITE", "MASKPOLL", "MASKDELAY"}
       <=> k < Len(t)
  /\ Writing(t[k]) => \/ t[k].addr \in SlcrRegisters \cup OtherRegisters
                      \/ Key(t[k], "SLCR_UNLOCK") \/ Key(t[k], "SLCR_LOCK")
  /\ t[k].opcode = "MASKDELAY" => t[k].mask \in Nat /\ APU_FREQ * t[k].mask < WordMod
  /\ \A r \in Settings : Keeps(t[k], <<"set", r>>)
  /\ \A p \in PLLs : ~(/\ Sets(t[k], PLL_CTRL[p], "RESET")
                       /\ Clears(t[k], PLL_CTRL[p], "BYPASS"))

WellFormed(t) == Len(t) \in Nat \ {0} /\ \A k \in 1 .. Len(t) : StepFormed(t, k)

\* From pre, every instruction has what it needs, and the last leaves post.
Sound(t, pre, post) ==
  \A k \in 1 .. Len(t), f \in Fact :
    Needs(t[k], f) \/ (k = Len(t) /\ f \in post) => Known(t, pre, k, f)

\* What ps7_init has achieved when n of its tables are still to come.
Achieved(n) == {f \in Fact :
  \/ n <= 4 /\ f \in {Protected, <<"set", "DDRIOB">>, <<"set", "MIO_PINS">>}
  \/ n <= 3 /\ f \in {"locked", "inUse"} \X PLLs
  \/ n <= 2 /\ f = <<"set", "PERIPHERAL_CLOCKS">>
  \/ n <= 1 /\ f \in {<<"set", "DDRC">>, Operating}
  \/ n = 0 /\ f \in {"set"} \X {"DDRIOB_TERM", "UART", "QSPI", "DEVCFG"}}
Up == Achieved(0)

\* A table that runs on a system that is up leaves it up at every moment, and
\* the protection on wherever it may end.
Harmless(t) ==
  /\ \A k \in 1 .. Len(t), f \in Up \ {Protected} : Keeps(t[k], f)
  /\ (\E k \in 1 .. Len(t) : t[k].opcode = "MASKPOLL") =>
       \A k \in 1 .. Len(t) : Keeps(t[k], Protected)

-------------------------------------------------------------------------------
(* The inductive invariant. *)

\* The silicon reports only what can be.
SiliconInv ==
  /\ \A p \in PLLs : LOCK[p] \in reg["PLL_STATUS"] => "RESET" \notin reg[PLL_CTRL[p]]
  /\ "DONE" \in reg["DCI_STATUS"] => "RESET" \in reg["DCI_CTRL"]
  /\ reg["mode_sts"] # {} => "SOFT_RSTB" \in reg["ddrc_ctrl"]

\* What the rest of the table needs and promises will be there.
Promise == IF func = "ps7_init" THEN Achieved(Len(todo)) ELSE Up
Pending ==
  \A k \in ptr .. Len(table), f \in Fact :
    Needs(table[k], f) \/ (k = Len(table) /\ f \in Promise) =>
      (Holds(f) /\ Kept(table, ptr, k, f)) \/ Given(table, ptr, k, f)

InitTodo == /\ todo \in Seq({InitTables[s] : s \in 1 .. 5})
            /\ Len(todo) \in 0 .. 4
            /\ \A q \in 1 .. Len(todo) : todo[q] = InitTables[5 - Len(todo) + q]

RunInv ==
  func # "none" =>
    /\ WellFormed(table) /\ ptr \in 1 .. Len(table) /\ Pending
    /\ IF func = "ps7_init" THEN InitTodo /\ ~booted
       ELSE todo = << >> /\ booted /\ Harmless(table)

UpInv ==
  /\ booted => \A f \in Up \ {Protected} : Holds(f)
  /\ booted /\ (func = "none" \/ \A k \in 1 .. Len(table) : Keeps(table[k], Protected))
       => Holds(Protected)

DelayInv ==
  waiting => func # "none" /\ Instr.opcode = "MASKDELAY" /\ elapsed = timer.count

BootInv ==
  /\ TypeOK /\ si_ver \in 0 .. 3 /\ booted \in BOOLEAN
  /\ timer = [count |-> timer.count, on |-> timer.on]
  /\ SiliconInv /\ RunInv /\ UpInv /\ DelayInv
  /\ ResetOnlyBypassed /\ FabricReleasedLast /\ NoWriteIgnored

-------------------------------------------------------------------------------
(* Tables that steer nothing. *)

\* A table that writes no register that steers the sequence.
Plain(t) ==
  \A k \in 1 .. Len(t) : Writing(t[k]) =>
    t[k].addr \notin {PLL_CTRL[p] : p \in PLLs} \cup {"ddrc_ctrl", "FPGA_RST_CTRL"}

\* What a plain table needs is the protection open.
LEMMA PlainNeeds ==
  ASSUME NEW t, Plain(t), NEW k \in 1 .. Len(t), NEW f, Needs(t[k], f)
  PROVE  f = Open /\ Writing(t[k]) /\ t[k].addr \in SlcrRegisters
  BY DEF Plain, Needs, Sets, Clears

\* A plain table takes no fact away but what its keys and the pins do.
LEMMA PlainKeeps ==
  ASSUME NEW t, WellFormed(t), Plain(t), NEW k \in 1 .. Len(t),
         NEW f \in Fact \ {Open, Protected, Calibrated}
  PROVE  Keeps(t[k], f)
  <1>1. CASE f \in {"set"} \X Settings
    <2>1. PICK r \in Settings : f = <<"set", r>>
      BY <1>1
    <2> QED
      BY <2>1 DEF WellFormed, StepFormed
  <1>2. CASE f \in {"bypassed", "inUse", "unreset", "locked"} \X PLLs
    <2>1. PICK p \in PLLs :
            f \in {<<"bypassed", p>>, <<"inUse", p>>, <<"unreset", p>>, <<"locked", p>>}
      BY <1>2
    <2> QED
      BY <2>1 DEF Plain, Keeps, Sets, Clears
  <1>3. CASE f \in {Operating, Booted}
    BY <1>3 DEF Plain, Keeps, Clears, Operating, Booted
  <1> QED
    BY <1>1, <1>2, <1>3 DEF Fact

\* A table that opens the protection first, closes it at c for good, and writes
\* what is protected only in between.
Bracketed(t, c) ==
  /\ c \in 2 .. Len(t) - 1
  /\ Key(t[1], "SLCR_UNLOCK") /\ Key(t[c], "SLCR_LOCK")
  /\ \A l \in 1 .. Len(t) :
       /\ l # 1 /\ Writing(t[l]) /\ t[l].addr \in SlcrRegisters => l < c
       /\ Key(t[l], "SLCR_LOCK") => l = c
       /\ Key(t[l], "SLCR_UNLOCK") => l = 1

\* Such a table, if plain, is sound when what it promises it had or gives.
LEMMA PlainSound ==
  ASSUME NEW t, WellFormed(t), Plain(t), NEW c, Bracketed(t, c), NEW pre,
         NEW post \in SUBSET (Fact \ {Open, Calibrated}),
         \A f \in post \ {Protected} :
           f \in pre \/ \E g \in 1 .. Len(t) - 1 : Gives(t[g], f)
  PROVE  Sound(t, pre, post)
  <1> SUFFICES ASSUME NEW k \in 1 .. Len(t), NEW f \in Fact,
                      Needs(t[k], f) \/ (k = Len(t) /\ f \in post)
               PROVE  Known(t, pre, k, f)
    BY DEF Sound
  <1>0. Len(t) \in Nat /\ c \in 2 .. Len(t) - 1
    BY DEF WellFormed, Bracketed
  <1>1. CASE Needs(t[k], f)
    <2>1. f = Open /\ Writing(t[k]) /\ t[k].addr \in SlcrRegisters
      BY <1>1, PlainNeeds
    <2>2. k # 1
      BY <2>1 DEF Bracketed, Key, SlcrRegisters, PLL_CTRL, PLL_CFG, CLK_CTRL, PLLs
    <2>3. k < c
      BY <1>0, <2>1, <2>2 DEF Bracketed
    <2>4. Gives(t[1], Open) /\ Kept(t, 2, k, Open)
      BY <1>0, <2>2, <2>3 DEF Bracketed, Gives, Keeps, Kept, Open
    <2>5. Given(t, 1, k, Open)
      BY <1>0, <2>2, <2>4 DEF Given
    <2> QED
      BY <2>1, <2>5 DEF Known
  <1>2. CASE k = Len(t) /\ f = Protected
    <2>1. Gives(t[c], Protected) /\ Kept(t, c + 1, k, Protected)
      BY <1>0, <1>2 DEF Bracketed, Gives, Keeps, Kept, Protected
    <2> QED
      BY <1>0, <1>2, <2>1 DEF Known, Given
  <1>3. CASE k = Len(t) /\ f \in post /\ f # Protected
    <2>1. \A l \in 1 .. Len(t) : Keeps(t[l], f)
      BY <1>3, PlainKeeps
    <2>2. CASE f \in pre
      BY <1>0, <1>3, <2>1, <2>2 DEF Known, Kept
    <2>3. CASE \E g \in 1 .. Len(t) - 1 : Gives(t[g], f)
      <3>1. PICK g \in 1 .. k - 1 : Gives(t[g], f)
        BY <1>3, <2>3
      <3>2. Kept(t, g + 1, k, f)
        BY <1>0, <1>3, <2>1 DEF Kept
      <3> QED
        BY <3>1, <3>2 DEF Known, Given
    <2>4. f \in pre \/ \E g \in 1 .. Len(t) - 1 : Gives(t[g], f)
      BY <1>3
    <2> QED
      BY <2>2, <2>3, <2>4
  <1> QED
    BY <1>1, <1>2, <1>3

-------------------------------------------------------------------------------
(* The tables of ps7_init. *)

\* The pins, of every version of the silicon.
LEMMA MioProper ==
  ASSUME NEW first \in {{"RESET"}, {"RESET", "VRN_OUT"}}
  PROVE  /\ WellFormed(MioTable(first)) /\ Sound(MioTable(first), {}, Achieved(4))
  <1> DEFINE t == MioTable(first)
  <1>1. Len(t) = 8
    BY DEF MioTable, DdrPins
  <1>2. WellFormed(t)
    <2>1. \A k \in 1 .. 8 : t[k] \in {UNLOCK_SLCR, Configure("DDRIOB"), Configure("MIO_PINS"),
                                     LOCK_SLCR, EXIT}
                            \cup {MASKWRITE("DCI_CTRL", m, v) : m, v \in SUBSET
                                     {"RESET", "ENABLE", "VRN_OUT", "VALUES"}}
      BY DEF MioTable, DdrPins
    <2>2. \A k \in 1 .. 8 : t[k] = EXIT <=> k = 8
      BY DEF MioTable, DdrPins, Configure, UNLOCK_SLCR, LOCK_SLCR, EXIT, WRITE, MASKWRITE
    <2> HIDE DEF t
    <2>3. \A k \in 1 .. 8 :
            t[k].opcode \in {"CLEAR", "WRITE", "MASKWRITE", "MASKPOLL", "MASKDELAY"} <=> k < 8
      BY <2>1, <2>2 DEF Configure, UNLOCK_SLCR, LOCK_SLCR, EXIT, WRITE, MASKWRITE
    <2>4. \A k \in 1 .. 8 :
            /\ Writing(t[k]) => \/ t[k].addr \in SlcrRegisters \cup OtherRegisters
                                \/ Key(t[k], "SLCR_UNLOCK") \/ Key(t[k], "SLCR_LOCK")
            /\ t[k].opcode # "MASKDELAY"
      BY <2>1 DEF Writing, Key, Configure, UNLOCK_SLCR, LOCK_SLCR, EXIT, WRITE, MASKWRITE,
                 SlcrRegisters
    <2>5. \A k \in 1 .. 8, r \in Settings : Keeps(t[k], <<"set", r>>)
      BY <2>1 DEF Keeps, Sets, Writing, Configure, UNLOCK_SLCR, LOCK_SLCR, EXIT, WRITE,
                 MASKWRITE, Settings
    <2>6. \A k \in 1 .. 8, p \in PLLs : ~Sets(t[k], PLL_CTRL[p], "RESET")
      BY <2>1 DEF Sets, Writing, Configure, UNLOCK_SLCR, LOCK_SLCR, EXIT, WRITE,
                 MASKWRITE, PLLs, PLL_CTRL
    <2> QED
      BY <1>1, <2>3, <2>4, <2>5, <2>6 DEF WellFormed, StepFormed
  <1>3. Plain(t)
    BY DEF MioTable, DdrPins, Plain, Writing, Configure, UNLOCK_SLCR, LOCK_SLCR, EXIT,
           WRITE, MASKWRITE, PLLs, PLL_CTRL
  <1>4. Bracketed(t, 7)
    BY <1>1 DEF MioTable, DdrPins, Bracketed, Writing, Key, Configure, UNLOCK_SLCR, LOCK_SLCR, EXIT,
           WRITE, MASKWRITE, SlcrRegisters, PLLs, PLL_CTRL, PLL_CFG, CLK_CTRL
  <1>5. Gives(t[2], <<"set", "DDRIOB">>) /\ Gives(t[6], <<"set", "MIO_PINS">>)
    BY DEF MioTable, DdrPins, Gives, Sets, Writing, Configure, MASKWRITE
  <1>6. /\ Achieved(4) \in SUBSET (Fact \ {Open, Calibrated})
        /\ \A f \in Achieved(4) \ {Protected} : f \in {<<"set", "DDRIOB">>, <<"set", "MIO_PINS">>}
    BY DEF Achieved, Fact, Open, Calibrated, Protected, Operating, Booted
  <1> HIDE DEF t
  <1>7. \A f \in Achieved(4) \ {Protected} :
          f \in {} \/ \E g \in 1 .. Len(t) - 1 : Gives(t[g], f)
    BY <1>1, <1>5, <1>6
  <1>8. Sound(t, {}, Achieved(4))
    BY <1>2, <1>3, <1>4, <1>6, <1>7, PlainSound
  <1> QED
    BY <1>2, <1>8 DEF t

\* The clocks.
LEMMA ClockProper == WellFormed(ClockTable) /\ Sound(ClockTable, Achieved(3), Achieved(2))
  <1> DEFINE t == ClockTable
  <1>1. Len(t) = 4
    BY DEF ClockTable
  <1>2. WellFormed(t)
    BY DEF ClockTable, WellFormed, StepFormed, Writing, Key, Keeps, Sets, Clears, Configure,
           UNLOCK_SLCR, LOCK_SLCR, EXIT, WRITE, MASKWRITE, SlcrRegisters, OtherRegisters,
           Settings, PLLs, PLL_CTRL
  <1>3. Plain(t)
    BY DEF ClockTable, Plain, Writing, Configure, UNLOCK_SLCR, LOCK_SLCR, EXIT,
           WRITE, MASKWRITE, PLLs, PLL_CTRL
  <1>4. Bracketed(t, 3)
    BY <1>1 DEF ClockTable, Bracketed, Writing, Key, Configure, UNLOCK_SLCR, LOCK_SLCR, EXIT,
           WRITE, MASKWRITE, SlcrRegisters, PLLs, PLL_CTRL, PLL_CFG, CLK_CTRL
  <1>5. Gives(t[2], <<"set", "PERIPHERAL_CLOCKS">>)
    BY DEF ClockTable, Gives, Sets, Writing, Configure, MASKWRITE
  <1>6. /\ Achieved(2) \in SUBSET (Fact \ {Open, Calibrated})
        /\ \A f \in Achieved(2) : f \in Achieved(3) \/ f = <<"set", "PERIPHERAL_CLOCKS">>
    BY DEF Achieved, Fact, Open, Calibrated, Protected, Operating, Booted
  <1> HIDE DEF t
  <1>7. \A f \in Achieved(2) \ {Protected} :
          f \in Achieved(3) \/ \E g \in 1 .. Len(t) - 1 : Gives(t[g], f)
    BY <1>1, <1>5, <1>6
  <1>8. Sound(t, Achieved(3), Achieved(2))
    BY <1>2, <1>3, <1>4, <1>6, <1>7, PlainSound
  <1> QED
    BY <1>2, <1>8 DEF t

\* The peripherals.
LEMMA PeripheralsProper ==
  WellFormed(PeripheralsTable) /\ Sound(PeripheralsTable, Achieved(1), Achieved(0))
  <1> DEFINE t == PeripheralsTable
  <1>1. Len(t) = 7
    BY DEF PeripheralsTable
  <1>2. WellFormed(t)
    BY DEF PeripheralsTable, WellFormed, StepFormed, Writing, Key, Keeps, Sets, Clears, Configure,
           UNLOCK_SLCR, LOCK_SLCR, EXIT, WRITE, MASKWRITE, SlcrRegisters, OtherRegisters,
           Settings, PLLs, PLL_CTRL
  <1>3. Plain(t)
    BY DEF PeripheralsTable, Plain, Writing, Configure, UNLOCK_SLCR, LOCK_SLCR, EXIT,
           WRITE, MASKWRITE, PLLs, PLL_CTRL
  <1>4. Bracketed(t, 3)
    BY <1>1 DEF PeripheralsTable, Bracketed, Writing, Key, Configure, UNLOCK_SLCR, LOCK_SLCR, EXIT,
           WRITE, MASKWRITE, SlcrRegisters, PLLs, PLL_CTRL, PLL_CFG, CLK_CTRL
  <1>5. /\ Gives(t[2], <<"set", "DDRIOB_TERM">>) /\ Gives(t[4], <<"set", "UART">>)
        /\ Gives(t[5], <<"set", "QSPI">>) /\ Gives(t[6], <<"set", "DEVCFG">>)
    BY DEF PeripheralsTable, Gives, Sets, Writing, Configure, MASKWRITE
  <1>6. /\ Achieved(0) \in SUBSET (Fact \ {Open, Calibrated})
        /\ \A f \in Achieved(0) :
             \/ f \in Achieved(1)
             \/ f \in {<<"set", "DDRIOB_TERM">>, <<"set", "UART">>, <<"set", "QSPI">>,
                       <<"set", "DEVCFG">>}
    BY DEF Achieved, Fact, Open, Calibrated, Protected, Operating, Booted
  <1> HIDE DEF t
  <1>7. \A f \in Achieved(0) \ {Protected} :
          f \in Achieved(1) \/ \E g \in 1 .. Len(t) - 1 : Gives(t[g], f)
    BY <1>1, <1>5, <1>6
  <1>8. Sound(t, Achieved(1), Achieved(0))
    BY <1>2, <1>3, <1>4, <1>6, <1>7, PlainSound
  <1> QED
    BY <1>2, <1>8 DEF t

\* Where the instructions for a pll begin.
Base == [ARM |-> 2, DDR |-> 10, IO |-> 18]

\* The steps of the table of the plls, by their place in it.
LEMMA PllTableSteps ==
  /\ Len(PllTable) = 26
  /\ PllTable[1] = UNLOCK_SLCR /\ PllTable[25] = LOCK_SLCR /\ PllTable[26] = EXIT
  /\ PllTable[9] = Configure(CLK_CTRL["ARM"]) /\ PllTable[17] = Configure(CLK_CTRL["DDR"])
  /\ \A p \in PLLs :
       /\ PllTable[Base[p]] = Configure(PLL_CFG[p])
       /\ PllTable[Base[p] + 1] = MASKWRITE(PLL_CTRL[p], {"FDIV"}, {"FDIV"})
       /\ PllTable[Base[p] + 2] = MASKWRITE(PLL_CTRL[p], {"BYPASS"}, {"BYPASS"})
       /\ PllTable[Base[p] + 3] = MASKWRITE(PLL_CTRL[p], {"RESET"}, {"RESET"})
       /\ PllTable[Base[p] + 4] = MASKWRITE(PLL_CTRL[p], {"RESET"}, {})
       /\ PllTable[Base[p] + 5] = MASKPOLL("PLL_STATUS", {LOCK[p]})
       /\ PllTable[Base[p] + 6] = MASKWRITE(PLL_CTRL[p], {"BYPASS"}, {})
  <1> DEFINE t == PllTable
  <1>1. /\ Len(t) = 26
        /\ t[1] = UNLOCK_SLCR /\ t[25] = LOCK_SLCR /\ t[26] = EXIT
        /\ t[9] = Configure(CLK_CTRL["ARM"]) /\ t[17] = Configure(CLK_CTRL["DDR"])
    BY DEF PllTable, ArmPll, DdrPll, IoPll, PllInit
  <1>2. \A n \in 0 .. 6 : t[2 + n] = PllInit("ARM")[n + 1]
    BY DEF PllTable, ArmPll, DdrPll, IoPll, PllInit
  <1>3. \A n \in 0 .. 6 : t[10 + n] = PllInit("DDR")[n + 1]
    BY DEF PllTable, ArmPll, DdrPll, IoPll, PllInit
  <1>4. \A n \in 0 .. 6 : t[18 + n] = PllInit("IO")[n + 1]
    BY DEF PllTable, ArmPll, DdrPll, IoPll, PllInit
  <1> HIDE DEF t
  <1>5. \A p \in PLLs, n \in 0 .. 6 : t[Base[p] + n] = PllInit(p)[n + 1]
    BY <1>2, <1>3, <1>4 DEF Base, PLLs
  <1>6. ASSUME NEW p \in PLLs
        PROVE  /\ t[Base[p]] = Configure(PLL_CFG[p])
               /\ t[Base[p] + 1] = MASKWRITE(PLL_CTRL[p], {"FDIV"}, {"FDIV"})
               /\ t[Base[p] + 2] = MASKWRITE(PLL_CTRL[p], {"BYPASS"}, {"BYPASS"})
               /\ t[Base[p] + 3] = MASKWRITE(PLL_CTRL[p], {"RESET"}, {"RESET"})
               /\ t[Base[p] + 4] = MASKWRITE(PLL_CTRL[p], {"RESET"}, {})
               /\ t[Base[p] + 5] = MASKPOLL("PLL_STATUS", {LOCK[p]})
               /\ t[Base[p] + 6] = MASKWRITE(PLL_CTRL[p], {"BYPASS"}, {})
    BY <1>5 DEF PllInit, Base, PLLs
  <1> QED
    BY <1>1, <1>6 DEF t

\* The bits that a masked write writes.
LEMMA MaskWriteBits ==
  ASSUME NEW a, NEW m, NEW v, NEW r, NEW b
  PROVE  /\ Sets(MASKWRITE(a, m, v), r, b) <=> a = r /\ b \in v \cap m
         /\ Clears(MASKWRITE(a, m, v), r, b) <=> a = r /\ b \in m \ v
  BY DEF MASKWRITE, Sets, Clears, Writing

\* Which steps of the table touch which bits.
LEMMA PllTableBits ==
  ASSUME NEW k \in 1 .. 26
  PROVE  /\ Key(PllTable[k], "SLCR_UNLOCK") <=> k = 1
         /\ Key(PllTable[k], "SLCR_LOCK") <=> k = 25
         /\ PllTable[k].opcode \in {"CLEAR", "WRITE", "MASKWRITE", "MASKPOLL", "MASKDELAY"}
              <=> k < 26
         /\ PllTable[k].opcode # "MASKDELAY"
         /\ Writing(PllTable[k]) => k \in 1 .. 25
         /\ Writing(PllTable[k]) /\ k \notin {1, 25} =>
               PllTable[k].addr \in {PLL_CTRL[p] : p \in PLLs} \cup {PLL_CFG[p] : p \in PLLs}
                 \cup {CLK_CTRL[p] : p \in {"ARM", "DDR"}}
         /\ \A p \in PLLs :
              /\ Sets(PllTable[k], PLL_CTRL[p], "BYPASS") <=> k = Base[p] + 2
              /\ Sets(PllTable[k], PLL_CTRL[p], "RESET") <=> k = Base[p] + 3
              /\ Clears(PllTable[k], PLL_CTRL[p], "RESET") <=> k = Base[p] + 4
              /\ Clears(PllTable[k], PLL_CTRL[p], "BYPASS") <=> k = Base[p] + 6
  <1> DEFINE ins == PllTable[k]
  <1>1. CASE k \in {1, 25, 26, 9, 17}
    BY <1>1, PllTableSteps DEF Key, Writing, Sets, Clears, Configure, UNLOCK_SLCR, LOCK_SLCR,
          EXIT, WRITE, MASKWRITE, Base, PLLs, PLL_CTRL, CLK_CTRL
  <1>2. CASE k \notin {1, 25, 26, 9, 17}
    <2>1. PICK q \in PLLs, n \in 0 .. 6 : k = Base[q] + n
      <3>1. CASE k \in 2 .. 8
        BY <3>1 DEF Base, PLLs
      <3>2. CASE k \in 10 .. 16
        BY <3>2 DEF Base, PLLs
      <3>3. CASE k \in 18 .. 24
        BY <3>3 DEF Base, PLLs
      <3> QED
        BY <1>2, <3>1, <3>2, <3>3
    <2>2. \A p \in PLLs, m \in 0 .. 6 : k = Base[p] + m <=> p = q /\ m = n
      BY <2>1 DEF Base, PLLs
    <2>3. \A p \in PLLs : PLL_CTRL[p] = PLL_CTRL[q] <=> p = q
      BY DEF PLL_CTRL, PLLs
    <2>4. \A p, r \in PLLs : PLL_CFG[p] # PLL_CTRL[r]
      BY DEF PLL_CTRL, PLL_CFG, PLLs
    <2>5. n = 0 \/ n = 1 \/ n = 2 \/ n = 3 \/ n = 4 \/ n = 5 \/ n = 6
      BY <2>1
    <2>6. \/ n = 0 /\ ins = Configure(PLL_CFG[q])
          \/ n = 1 /\ ins = MASKWRITE(PLL_CTRL[q], {"FDIV"}, {"FDIV"})
          \/ n = 2 /\ ins = MASKWRITE(PLL_CTRL[q], {"BYPASS"}, {"BYPASS"})
          \/ n = 3 /\ ins = MASKWRITE(PLL_CTRL[q], {"RESET"}, {"RESET"})
          \/ n = 4 /\ ins = MASKWRITE(PLL_CTRL[q], {"RESET"}, {})
          \/ n = 5 /\ ins = MASKPOLL("PLL_STATUS", {LOCK[q]})
          \/ n = 6 /\ ins = MASKWRITE(PLL_CTRL[q], {"BYPASS"}, {})
      <3>1. Base[q] \in Nat
        BY DEF Base, PLLs
      <3> QED
        BY <2>1, <2>5, <3>1, PllTableSteps
    <2>7. ASSUME NEW p \in PLLs
          PROVE  /\ Sets(ins, PLL_CTRL[p], "BYPASS") <=> p = q /\ n = 2
                 /\ Sets(ins, PLL_CTRL[p], "RESET") <=> p = q /\ n = 3
                 /\ Clears(ins, PLL_CTRL[p], "RESET") <=> p = q /\ n = 4
                 /\ Clears(ins, PLL_CTRL[p], "BYPASS") <=> p = q /\ n = 6
      <3> HIDE DEF ins
      <3> USE <2>3, <2>4, MaskWriteBits
      <3>0. CASE n = 0
        BY <2>6, <3>0 DEF Configure
      <3>1. CASE n = 1
        BY <2>6, <3>1
      <3>2. CASE n = 2
        BY <2>6, <3>2
      <3>3. CASE n = 3
        BY <2>6, <3>3
      <3>4. CASE n = 4
        BY <2>6, <3>4
      <3>5. CASE n = 5
        <4>1. ~Writing(ins)
          BY <2>6, <3>5 DEF Writing, MASKPOLL
        <4> QED
          BY <3>5, <4>1 DEF Sets, Clears
      <3>6. CASE n = 6
        BY <2>6, <3>6
      <3> QED
        BY <2>5, <3>0, <3>1, <3>2, <3>3, <3>4, <3>5, <3>6
    <2>8. /\ ins.opcode \in {"MASKWRITE", "MASKPOLL"}
          /\ Writing(ins) => ins.addr \in {PLL_CTRL[q], PLL_CFG[q]}
      <3> HIDE DEF ins
      <3> QED
        BY <2>6 DEF Writing, Configure, MASKWRITE, MASKPOLL
    <2> QED
      BY <1>2, <2>2, <2>7, <2>8 DEF Key
  <1> QED
    BY <1>1, <1>2

\* The table of the plls is well formed.
LEMMA PllWellFormed == WellFormed(PllTable)
  <1> DEFINE t == PllTable
  <1>1. Len(t) = 26
    BY PllTableSteps
  <1> HIDE DEF t
  <1>2. ASSUME NEW k \in 1 .. 26
        PROVE  /\ Writing(t[k]) => \/ t[k].addr \in SlcrRegisters \cup OtherRegisters
                                   \/ Key(t[k], "SLCR_UNLOCK") \/ Key(t[k], "SLCR_LOCK")
               /\ \A r \in Settings : ~(Writing(t[k]) /\ t[k].addr = r)
    <2>1. CASE k \in {1, 25}
      BY <2>1, PllTableSteps DEF t, UNLOCK_SLCR, LOCK_SLCR, WRITE, Key, Settings
    <2>2. CASE k \notin {1, 25}
      BY <2>2, PllTableBits DEF t, SlcrRegisters, Settings, PLLs, PLL_CTRL, PLL_CFG, CLK_CTRL
    <2> QED
      BY <2>1, <2>2
  <1>3. \A k \in 1 .. 26, r \in Settings : Keeps(t[k], <<"set", r>>)
    BY <1>2 DEF Keeps
  <1>4. \A p \in PLLs : Base[p] \in Nat
    BY DEF Base, PLLs
  <1>5. ASSUME NEW k \in 1 .. 26, NEW p \in PLLs,
               Sets(t[k], PLL_CTRL[p], "RESET"), Clears(t[k], PLL_CTRL[p], "BYPASS")
        PROVE  FALSE
    <2>1. k = Base[p] + 3
      BY <1>5, PllTableBits DEF t
    <2>2. k = Base[p] + 6
      BY <1>5, PllTableBits DEF t
    <2> QED
      BY <1>4, <2>1, <2>2
  <1>6. \A k \in 1 .. 26 :
          /\ t[k].opcode \in {"CLEAR", "WRITE", "MASKWRITE", "MASKPOLL", "MASKDELAY"} <=> k < 26
          /\ t[k].opcode # "MASKDELAY"
    BY PllTableBits DEF t
  <1>7. \A k \in 1 .. 26 : StepFormed(t, k)
    BY <1>1, <1>2, <1>3, <1>5, <1>6 DEF StepFormed
  <1> QED
    BY <1>1, <1>7 DEF WellFormed, t

\* A fact that is given and not taken away is known.
LEMMA GivenKnown ==
  ASSUME NEW t, NEW pre, NEW k \in Nat, NEW g \in 1 .. k - 1, NEW f, Gives(t[g], f),
         \A l \in g + 1 .. k - 1 : Keeps(t[l], f)
  PROVE  Known(t, pre, k, f)
  BY DEF Known, Given, Kept

\* Each pll is bypassed, reset, locked and put back into use, in this order.
LEMMA PllSound == Sound(PllTable, Achieved(4), Achieved(3))
  <1> DEFINE t == PllTable
  <1>1. Len(t) = 26
    BY PllTableSteps
  <1>2. \A p \in PLLs : Base[p] \in 2 .. 18
    BY DEF Base, PLLs
  <1>3. \A k \in 1 .. 26 : Writing(t[k]) => t[k].addr \notin {"ddrc_ctrl", "FPGA_RST_CTRL"}
    <2>1. \A k \in {1, 25} : t[k].addr \in {"SLCR_UNLOCK", "SLCR_LOCK"}
      BY PllTableSteps DEF UNLOCK_SLCR, LOCK_SLCR, WRITE
    <2> QED
      BY <2>1, PllTableBits DEF PLLs, PLL_CTRL, PLL_CFG, CLK_CTRL
  <1>4. \A k \in {1, 25} : t[k].addr \notin SlcrRegisters
    BY PllTableSteps DEF UNLOCK_SLCR, LOCK_SLCR, WRITE, SlcrRegisters, PLLs, PLL_CTRL, PLL_CFG,
                         CLK_CTRL
  <1> SUFFICES ASSUME NEW k \in 1 .. 26, NEW f \in Fact,
                      Needs(t[k], f) \/ (k = 26 /\ f \in Achieved(3))
               PROVE  Known(t, Achieved(4), k, f)
    BY <1>1 DEF Sound
  <1>5. Gives(t[1], Open) /\ \A l \in 2 .. 24 : Keeps(t[l], Open)
    BY PllTableBits DEF Gives, Keeps, Open
  <1>6. Gives(t[25], Protected)
    BY PllTableBits DEF Gives, Protected
  <1>7. ASSUME NEW p \in PLLs
        PROVE  /\ Gives(t[Base[p] + 2], <<"bypassed", p>>)
               /\ Gives(t[Base[p] + 4], <<"unreset", p>>)
               /\ Keeps(t[Base[p] + 5], <<"unreset", p>>)
               /\ Gives(t[Base[p] + 5], <<"locked", p>>)
               /\ \A l \in Base[p] + 6 .. 25 : Keeps(t[l], <<"locked", p>>)
               /\ Gives(t[Base[p] + 6], <<"inUse", p>>)
               /\ \A l \in Base[p] + 7 .. 25 : Keeps(t[l], <<"inUse", p>>)
    BY <1>2, PllTableBits, PllTableSteps DEF Gives, Keeps
  <1> HIDE DEF t
  <1>8. CASE f = Open /\ Writing(t[k]) /\ t[k].addr \in SlcrRegisters
    <2>1. k \in 2 .. 24
      BY <1>4, <1>8, PllTableBits DEF t
    <2> QED
      BY <1>5, <1>8, <2>1 DEF Known, Given, Kept
  <1>9. ASSUME NEW p \in PLLs
        PROVE  /\ Known(t, Achieved(4), Base[p] + 3, <<"bypassed", p>>)
               /\ Known(t, Achieved(4), Base[p] + 6, <<"unreset", p>>)
               /\ Known(t, Achieved(4), Base[p] + 6, <<"locked", p>>)
               /\ Known(t, Achieved(4), 26, <<"locked", p>>)
               /\ Known(t, Achieved(4), 26, <<"inUse", p>>)
    <2> PICK b \in 2 .. 18 : b = Base[p]
      BY <1>2
    <2>0. /\ Gives(t[b + 2], <<"bypassed", p>>)
          /\ Gives(t[b + 4], <<"unreset", p>>)
          /\ Keeps(t[b + 5], <<"unreset", p>>)
          /\ Gives(t[b + 5], <<"locked", p>>)
          /\ \A l \in b + 6 .. 25 : Keeps(t[l], <<"locked", p>>)
          /\ Gives(t[b + 6], <<"inUse", p>>)
          /\ \A l \in b + 7 .. 25 : Keeps(t[l], <<"inUse", p>>)
      BY <1>7
    <2>1. Known(t, Achieved(4), b + 3, <<"bypassed", p>>)
      BY <2>0 DEF Known, Given, Kept
    <2>2. Known(t, Achieved(4), b + 6, <<"unreset", p>>)
      BY <2>0 DEF Known, Given, Kept
    <2>3. Known(t, Achieved(4), b + 6, <<"locked", p>>)
      BY <2>0 DEF Known, Given, Kept
    <2>4. Known(t, Achieved(4), 26, <<"locked", p>>)
      BY <2>0 DEF Known, Given, Kept
    <2>5. Known(t, Achieved(4), 26, <<"inUse", p>>)
      BY <2>0 DEF Known, Given, Kept
    <2> QED
      BY <2>1, <2>2, <2>3, <2>4, <2>5
  <1>10. ASSUME NEW p \in PLLs
         PROVE  /\ Sets(t[k], PLL_CTRL[p], "RESET") => k = Base[p] + 3
                /\ Clears(t[k], PLL_CTRL[p], "BYPASS") => k = Base[p] + 6
    BY PllTableBits DEF t
  <1>11. CASE k = 26 /\ f \in Achieved(3)
    <2>1. CASE f = Protected
      BY <1>6, <1>11, <2>1 DEF Known, Given, Kept
    <2>2. CASE f \in {<<"set", "DDRIOB">>, <<"set", "MIO_PINS">>}
      <3>1. f \in Achieved(4)
        BY <2>2 DEF Achieved
      <3>2. \A l \in 1 .. 25 : Keeps(t[l], f)
        BY <1>1, <2>2, PllWellFormed DEF WellFormed, StepFormed, Settings, t
      <3> QED
        BY <1>11, <3>1, <3>2 DEF Known, Kept
    <2>3. CASE f \in {"locked", "inUse"} \X PLLs
      <3>1. PICK p \in PLLs : f = <<"locked", p>> \/ f = <<"inUse", p>>
        BY <2>3
      <3> QED
        BY <1>9, <1>11, <3>1
    <2> QED
      BY <1>11, <2>1, <2>2, <2>3 DEF Achieved
  <1>12. CASE Needs(t[k], f)
    <2>1. ~Sets(t[k], "ddrc_ctrl", "SOFT_RSTB") /\ ~Clears(t[k], "FPGA_RST_CTRL", "RESET")
      BY <1>3 DEF Sets, Clears
    <2>2. ASSUME NEW p \in PLLs, f = <<"bypassed", p>>, Sets(t[k], PLL_CTRL[p], "RESET")
          PROVE  Known(t, Achieved(4), k, f)
      BY <1>9, <1>10, <2>2
    <2>3. ASSUME NEW p \in PLLs, f \in {<<"unreset", p>>, <<"locked", p>>},
                 Clears(t[k], PLL_CTRL[p], "BYPASS")
          PROVE  Known(t, Achieved(4), k, f)
      BY <1>9, <1>10, <2>3
    <2> QED
      BY <1>8, <1>12, <2>1, <2>2, <2>3 DEF Needs
  <1> QED
    BY <1>11, <1>12

\* The table of the memory controller is well formed.
LEMMA DdrWellFormed == WellFormed(DdrTable)
  BY DEF DdrTable, WellFormed, StepFormed, Writing, Key, Keeps, Sets, Clears, Configure,
         EXIT, MASKWRITE, MASKPOLL, SlcrRegisters, OtherRegisters, Settings, PLLs, PLL_CTRL

\* The controller is released programmed, calibrated and clocked.
LEMMA DdrSound == Sound(DdrTable, Achieved(2), Achieved(1))
  <1> DEFINE t == DdrTable
  <1>1. /\ Len(t) = 6
        /\ t[1] = MASKWRITE("ddrc_ctrl", {"SOFT_RSTB", "VALUES"}, {"VALUES"})
        /\ t[2] = Configure("DDRC")
        /\ t[3] = MASKPOLL("DCI_STATUS", {"DONE"})
        /\ t[4] = MASKWRITE("ddrc_ctrl", {"SOFT_RSTB", "VALUES"}, {"SOFT_RSTB", "VALUES"})
        /\ t[5] = MASKPOLL("mode_sts", {"MODE0", "MODE1", "MODE2"})
        /\ t[6] = EXIT
    BY DEF DdrTable
  <1>2. \A l \in 1 .. 6 :
          /\ Writing(t[l]) => t[l].addr \in {"ddrc_ctrl", "DDRC"}
          /\ ~Key(t[l], "SLCR_LOCK") /\ ~Key(t[l], "SLCR_UNLOCK")
          /\ Sets(t[l], "ddrc_ctrl", "SOFT_RSTB") => l = 4
    BY DEF DdrTable, Writing, Key, Sets, Configure, EXIT, MASKWRITE, MASKPOLL
  <1> HIDE DEF t
  <1>3. \A l \in 1 .. 6, f \in Fact \ {Operating} : Keeps(t[l], f)
    <2> SUFFICES ASSUME NEW l \in 1 .. 6, NEW f \in Fact, f # Operating
                 PROVE  Keeps(t[l], f)
      OBVIOUS
    <2>1. CASE f \in {Open, Protected, Calibrated, Booted}
      BY <1>2, <2>1 DEF Keeps, Clears, Open, Protected, Calibrated, Booted
    <2>2. CASE f \in {"bypassed", "inUse", "unreset", "locked"} \X PLLs
      <3>1. PICK p \in PLLs :
              f \in {<<"bypassed", p>>, <<"inUse", p>>, <<"unreset", p>>, <<"locked", p>>}
        BY <2>2
      <3>2. PLL_CTRL[p] \notin {"ddrc_ctrl", "DDRC"}
        BY DEF PLLs, PLL_CTRL
      <3> QED
        BY <1>2, <3>1, <3>2 DEF Keeps, Sets, Clears
    <2>3. CASE f \in {"set"} \X Settings
      <3>1. PICK r \in Settings : f = <<"set", r>>
        BY <2>3
      <3> QED
        BY <1>1, <3>1, DdrWellFormed DEF WellFormed, StepFormed, t
    <2> QED
      BY <2>1, <2>2, <2>3 DEF Fact
  <1>4. Gives(t[2], <<"set", "DDRC">>) /\ Gives(t[3], Calibrated) /\ Gives(t[5], Operating)
    BY <1>1 DEF Gives, Sets, Writing, Configure, MASKWRITE, MASKPOLL, Calibrated, Operating
  <1> SUFFICES ASSUME NEW k \in 1 .. 6, NEW f \in Fact,
                      Needs(t[k], f) \/ (k = 6 /\ f \in Achieved(1))
               PROVE  Known(t, Achieved(2), k, f)
    BY <1>1 DEF Sound, t
  <1>5. ASSUME f \in Achieved(2)
        PROVE  Known(t, Achieved(2), k, f)
    <2>1. f # Operating
      BY <1>5 DEF Achieved, Operating, Protected
    <2> QED
      BY <1>3, <1>5, <2>1 DEF Known, Kept
  <1>6. CASE Needs(t[k], f)
    <2>1. /\ k = 4
          /\ f \in {<<"set", "DDRC">>, <<"set", "DDRIOB">>, Calibrated, <<"locked", "DDR">>,
                    <<"inUse", "DDR">>}
      <3>1. \A p \in PLLs : PLL_CTRL[p] \notin {"ddrc_ctrl", "DDRC"}
        BY DEF PLLs, PLL_CTRL
      <3>2. "ddrc_ctrl" \notin SlcrRegisters /\ "DDRC" \notin SlcrRegisters
        BY DEF SlcrRegisters, PLLs, PLL_CTRL, PLL_CFG, CLK_CTRL
      <3> QED
        BY <1>2, <1>6, <3>1, <3>2 DEF Needs, Sets, Clears
    <2>2. CASE f \in {<<"set", "DDRIOB">>, <<"locked", "DDR">>, <<"inUse", "DDR">>}
      BY <1>5, <2>2 DEF Achieved, PLLs
    <2>3. CASE f = <<"set", "DDRC">>
      BY <1>3, <1>4, <2>1, <2>3, GivenKnown DEF Operating
    <2>4. CASE f = Calibrated
      BY <1>4, <2>1, <2>4 DEF Known, Given, Kept
    <2> QED
      BY <2>1, <2>2, <2>3, <2>4
  <1>7. CASE k = 6 /\ f \in Achieved(1)
    <2>1. f \in Achieved(2) \/ f = <<"set", "DDRC">> \/ f = Operating
      BY <1>7 DEF Achieved
    <2>2. CASE f = <<"set", "DDRC">>
      <3>1. \A l \in 3 .. 5 : Keeps(t[l], f)
        BY <1>3, <2>2 DEF Operating
      <3> QED
        BY <1>4, <1>7, <2>2, <3>1 DEF Known, Given, Kept
    <2>3. CASE f = Operating
      <3>1. \A l \in 6 .. 5 : Keeps(t[l], f)
        OBVIOUS
      <3> QED
        BY <1>4, <1>7, <2>3, <3>1 DEF Known, Given, Kept
    <2> QED
      BY <1>5, <2>1, <2>2, <2>3
  <1> QED
    BY <1>6, <1>7

-------------------------------------------------------------------------------
(* The tables that run on a system that is up. *)

\* The table that lets the fabric go.
LEMMA PostConfigProper ==
  /\ WellFormed(PostConfigTable) /\ Harmless(PostConfigTable)
  /\ Sound(PostConfigTable, Up \cup {Booted}, Up)
  <1> DEFINE t == PostConfigTable
  <1>1. /\ Len(t) = 5
        /\ t[1] = UNLOCK_SLCR /\ t[2] = Configure("LVL_SHFTR_EN")
        /\ t[3] = MASKWRITE("FPGA_RST_CTRL", {"RESET"}, {})
        /\ t[4] = LOCK_SLCR /\ t[5] = EXIT
    BY DEF PostConfigTable
  <1>2. WellFormed(t)
    BY DEF PostConfigTable, WellFormed, StepFormed, Writing, Key, Keeps, Sets, Clears,
           Configure, UNLOCK_SLCR, LOCK_SLCR, EXIT, WRITE, MASKWRITE, SlcrRegisters,
           OtherRegisters, Settings, PLLs, PLL_CTRL
  <1>3. /\ \A l \in 1 .. 5 :
             /\ Writing(t[l]) => t[l].addr \in {"SLCR_UNLOCK", "LVL_SHFTR_EN",
                                               "FPGA_RST_CTRL", "SLCR_LOCK"}
             /\ Key(t[l], "SLCR_LOCK") <=> l = 4
             /\ Key(t[l], "SLCR_UNLOCK") <=> l = 1
             /\ Writing(t[l]) /\ t[l].addr \in SlcrRegisters => l \in {2, 3}
             /\ Writing(t[l]) /\ t[l].addr = "FPGA_RST_CTRL" => l = 3
             /\ t[l].opcode # "MASKPOLL"
        /\ Sets(t[2], "LVL_SHFTR_EN", "VALUES")
    BY DEF PostConfigTable, Writing, Key, Sets, Configure, UNLOCK_SLCR, LOCK_SLCR, EXIT,
           WRITE, MASKWRITE, SlcrRegisters, PLLs, PLL_CTRL, PLL_CFG, CLK_CTRL
  <1> HIDE DEF t
  <1>4. \A l \in 1 .. 5, f \in Fact \ {Open, Protected} : Keeps(t[l], f)
    <2> SUFFICES ASSUME NEW l \in 1 .. 5, NEW f \in Fact, f # Open, f # Protected
                 PROVE  Keeps(t[l], f)
      OBVIOUS
    <2>1. CASE f \in {Operating, Calibrated, Booted}
      BY <1>3, <2>1 DEF Keeps, Clears, Operating, Calibrated, Booted
    <2>2. CASE f \in {"bypassed", "inUse", "unreset", "locked"} \X PLLs
      <3>1. PICK p \in PLLs :
              f \in {<<"bypassed", p>>, <<"inUse", p>>, <<"unreset", p>>, <<"locked", p>>}
        BY <2>2
      <3>2. PLL_CTRL[p] \notin {"SLCR_UNLOCK", "LVL_SHFTR_EN", "FPGA_RST_CTRL", "SLCR_LOCK"}
        BY DEF PLLs, PLL_CTRL
      <3> QED
        BY <1>3, <3>1, <3>2 DEF Keeps, Sets, Clears
    <2>3. CASE f \in {"set"} \X Settings
      <3>1. PICK r \in Settings : f = <<"set", r>>
        BY <2>3
      <3> QED
        BY <1>1, <1>2, <3>1 DEF WellFormed, StepFormed
    <2> QED
      BY <2>1, <2>2, <2>3 DEF Fact
  <1>5. Harmless(t)
    <2>1. Up \ {Protected} \subseteq Fact \ {Open, Protected}
      BY DEF Up, Achieved, Open, Protected, Operating
    <2> QED
      BY <1>1, <1>3, <1>4, <2>1 DEF Harmless
  <1>6. /\ Gives(t[1], Open) /\ Keeps(t[2], Open) /\ Gives(t[4], Protected)
        /\ Gives(t[2], <<"set", "LVL_SHFTR_EN">>)
    BY <1>3 DEF Gives, Keeps, Open, Protected
  <1>7. Sound(t, Up \cup {Booted}, Up)
    <2> SUFFICES ASSUME NEW k \in 1 .. 5, NEW f \in Fact,
                        Needs(t[k], f) \/ (k = 5 /\ f \in Up)
                 PROVE  Known(t, Up \cup {Booted}, k, f)
      BY <1>1 DEF Sound
    <2>1. ASSUME f \in Up \cup {Booted}, f # Protected
          PROVE  Known(t, Up \cup {Booted}, k, f)
      <3>1. f # Open
        BY <2>1 DEF Up, Achieved, Open, Protected, Operating, Booted
      <3> QED
        BY <1>4, <2>1, <3>1 DEF Known, Kept
    <2>2. CASE k = 5 /\ f = Protected
      BY <1>6, <2>2 DEF Known, Given, Kept
    <2>3. CASE Needs(t[k], f)
      <3>1. \A p \in PLLs : PLL_CTRL[p] \notin {"SLCR_UNLOCK", "LVL_SHFTR_EN",
                                               "FPGA_RST_CTRL", "SLCR_LOCK"}
        BY DEF PLLs, PLL_CTRL
      <3>2. \/ f = Open /\ k \in {2, 3}
            \/ f \in {<<"set", "LVL_SHFTR_EN">>, Booted} /\ k = 3
        BY <1>3, <2>3, <3>1 DEF Needs, Sets, Clears
      <3>3. CASE f = Open
        <4>1. \A l \in 2 .. k - 1 : Keeps(t[l], Open)
          BY <1>6, <3>2, <3>3 DEF Booted, Open
        <4>2. k \in {2, 3}
          BY <3>2, <3>3 DEF Booted, Open
        <4> QED
          BY <1>6, <3>3, <4>1, <4>2 DEF Known, Given, Kept
      <3>4. CASE f = <<"set", "LVL_SHFTR_EN">> /\ k = 3
        BY <1>6, <3>4 DEF Known, Given, Kept
      <3>5. CASE f = Booted
        BY <2>1, <3>5 DEF Booted, Protected
      <3> QED
        BY <3>2, <3>3, <3>4, <3>5
    <2> QED
      BY <2>1, <2>2, <2>3
  <1> QED
    BY <1>2, <1>5, <1>7 DEF t

\* A table that writes only what no fact is about: the debug table and those
\* of a caller.
Aside(t) ==
  /\ Len(t) \in Nat \ {0}
  /\ \A k \in 1 .. Len(t) :
       /\ t[k].opcode \in {"CLEAR", "WRITE", "MASKWRITE", "MASKPOLL", "MASKDELAY"}
            <=> k < Len(t)
       /\ Writing(t[k]) => t[k].addr \in {"CTI", "TIMER"}
       /\ t[k].opcode = "MASKDELAY" =>
            t[k].mask \in Nat /\ APU_FREQ * t[k].mask < WordMod

\* Such a table is sound and harmless.
LEMMA AsideProper ==
  ASSUME NEW t, Aside(t)
  PROVE  WellFormed(t) /\ Harmless(t) /\ Sound(t, Up \cup {Booted}, Up)
  <1>0. Len(t) \in Nat \ {0}
    BY DEF Aside
  <1>1. \A p \in PLLs : PLL_CTRL[p] \notin {"CTI", "TIMER"}
    BY DEF PLLs, PLL_CTRL
  <1>2. ASSUME NEW k \in 1 .. Len(t), NEW f \in Fact
        PROVE  Keeps(t[k], f)
    <2>1. CASE f \in {Open, Protected, Operating, Calibrated, Booted}
      BY <2>1 DEF Aside, Keeps, Key, Clears, Writing, Open, Protected, Operating, Calibrated, Booted
    <2>2. CASE f \in {"bypassed", "inUse", "unreset", "locked"} \X PLLs
      <3>1. PICK p \in PLLs :
              f \in {<<"bypassed", p>>, <<"inUse", p>>, <<"unreset", p>>, <<"locked", p>>}
        BY <2>2
      <3> QED
        BY <1>1, <3>1 DEF Aside, Keeps, Sets, Clears
    <2>3. CASE f \in {"set"} \X Settings
      <3>1. PICK r \in Settings : f = <<"set", r>>
        BY <2>3
      <3> QED
        BY <3>1 DEF Aside, Keeps, Settings
    <2> QED
      BY <2>1, <2>2, <2>3 DEF Fact
  <1>3. WellFormed(t)
    <2>1. \A r \in Settings : <<"set", r>> \in Fact
      BY DEF Fact
    <2>2. \A k \in 1 .. Len(t), p \in PLLs : ~Sets(t[k], PLL_CTRL[p], "RESET")
      BY <1>1 DEF Aside, Sets
    <2>3. {"CTI", "TIMER"} \subseteq OtherRegisters
      BY DEF OtherRegisters
    <2>4. \A k \in 1 .. Len(t) : StepFormed(t, k)
      BY <1>2, <2>1, <2>2, <2>3 DEF Aside, StepFormed
    <2> QED
      BY <1>0, <2>4 DEF WellFormed
  <1>4. Up \subseteq Fact /\ Protected \in Fact /\ Booted \in Fact
    BY DEF Up, Achieved, Fact
  <1>5. Harmless(t)
    BY <1>2, <1>4 DEF Harmless
  <1>6. \A k \in 1 .. Len(t), f \in Fact : ~Needs(t[k], f)
    <2>1. {"CTI", "TIMER"} \cap SlcrRegisters = {}
      BY DEF SlcrRegisters, PLLs, PLL_CTRL, PLL_CFG, CLK_CTRL
    <2> QED
      BY <1>1, <2>1 DEF Aside, Needs, Sets, Clears
  <1>7. Sound(t, Up \cup {Booted}, Up)
    BY <1>2, <1>6 DEF Sound, Known, Kept
  <1> QED
    BY <1>3, <1>5, <1>7

\* The debug table.
LEMMA DebugProper ==
  WellFormed(DebugTable) /\ Harmless(DebugTable) /\ Sound(DebugTable, Up \cup {Booted}, Up)
  <1>1. Aside(DebugTable)
    BY DEF Aside, DebugTable, WRITE, EXIT, Writing
  <1> QED
    BY <1>1, AsideProper

\* The tables of a caller.
LEMMA CallerProper ==
  ASSUME NEW t \in CallerTables
  PROVE  WellFormed(t) /\ Harmless(t) /\ Sound(t, Up \cup {Booted}, Up)
  <1>1. Aside(t)
    BY CallerAssumption DEF Aside, Writing
  <1> QED
    BY <1>1, AsideProper

-------------------------------------------------------------------------------
(* The sequence of ps7_init: each table starts from what the ones before     *)
(* have achieved, and achieves what the ones after it start from.            *)

\* Every table of ps7_init, of every version, keeps its part of the contract.
LEMMA InitContracts ==
  /\ Len(InitTables) = 5 /\ InitTables \in Seq({InitTables[s] : s \in 1 .. 5})
  /\ \A s \in 1 .. 5 : /\ WellFormed(InitTables[s])
                        /\ Sound(InitTables[s], Achieved(6 - s), Achieved(5 - s))
  <1> DEFINE Mio == IF si_ver \in {PCW_SILICON_VERSION_1, PCW_SILICON_VERSION_2}
                    THEN MioTable({"RESET", "VRN_OUT"}) ELSE MioTable({"RESET"})
  <1>1. InitTables = <<Mio, PllTable, ClockTable, DdrTable, PeripheralsTable>>
    BY DEF InitTables, PCW_SILICON_VERSION_1, PCW_SILICON_VERSION_2,
       ps7_mio_init_data_1_0, ps7_pll_init_data_1_0, ps7_clock_init_data_1_0,
       ps7_ddr_init_data_1_0, ps7_peripherals_init_data_1_0,
       ps7_mio_init_data_2_0, ps7_pll_init_data_2_0, ps7_clock_init_data_2_0,
       ps7_ddr_init_data_2_0, ps7_peripherals_init_data_2_0,
       ps7_mio_init_data_3_0, ps7_pll_init_data_3_0, ps7_clock_init_data_3_0,
       ps7_ddr_init_data_3_0, ps7_peripherals_init_data_3_0
  <1>2. WellFormed(Mio) /\ Sound(Mio, {}, Achieved(4))
    BY MioProper
  <1> HIDE DEF Mio
  <1>3. Sound(Mio, Achieved(5), Achieved(4))
    <2>1. \A k, f : Known(Mio, {}, k, f) => Known(Mio, Achieved(5), k, f)
      BY DEF Known
    <2> QED
      BY <1>2, <2>1 DEF Sound
  <1>4. /\ Len(InitTables) = 5 /\ InitTables[1] = Mio /\ InitTables[2] = PllTable
        /\ InitTables[3] = ClockTable /\ InitTables[4] = DdrTable
        /\ InitTables[5] = PeripheralsTable
    BY <1>1
  <1>5. InitTables \in Seq({InitTables[s] : s \in 1 .. 5})
    BY <1>1, <1>4
  <1>6. ASSUME NEW s \in 1 .. 5
        PROVE  /\ WellFormed(InitTables[s])
               /\ Sound(InitTables[s], Achieved(6 - s), Achieved(5 - s))
    <2>1. CASE s = 1
      BY <1>2, <1>3, <1>4, <2>1
    <2>2. CASE s = 2
      BY <1>4, <2>2, PllWellFormed, PllSound
    <2>3. CASE s = 3
      BY <1>4, <2>3, ClockProper
    <2>4. CASE s = 4
      BY <1>4, <2>4, DdrWellFormed, DdrSound
    <2>5. CASE s = 5
      BY <1>4, <2>5, PeripheralsProper
    <2> QED
      BY <2>1, <2>2, <2>3, <2>4, <2>5
  <1> QED
    BY <1>4, <1>5, <1>6

-------------------------------------------------------------------------------
(* The steps. *)

\* What a step of a table does to the registers, bit by bit.
Effect ==
  /\ slcr' = IF Key(Instr, "SLCR_UNLOCK") THEN "open"
             ELSE IF Key(Instr, "SLCR_LOCK") THEN "locked" ELSE slcr
  /\ DOMAIN reg' = Registers
  /\ \A r \in SlcrRegisters \cup OtherRegisters : \A b :
       b \in reg'[r] <=> Sets(Instr, r, b) \/ (b \in reg[r] /\ ~Clears(Instr, r, b))
  /\ \A p \in PLLs : LOCK[p] \in reg'["PLL_STATUS"] <=>
       LOCK[p] \in reg["PLL_STATUS"] /\ ~Sets(Instr, PLL_CTRL[p], "RESET")
  /\ "DONE" \in reg'["DCI_STATUS"] <=>
       "DONE" \in reg["DCI_STATUS"] /\ ~Clears(Instr, "DCI_CTRL", "RESET")
  /\ reg'["mode_sts"] # {} <=>
       reg["mode_sts"] # {} /\ ~Clears(Instr, "ddrc_ctrl", "SOFT_RSTB")
  /\ UNCHANGED <<si_ver, ret, booted, ignored>>

\* The actions that finish an instruction.
Steps == Clear \/ Write \/ MaskWrite \/ PollHit \/ DelayOver

\* What the current instruction needs is there.
LEMMA NeedsHold ==
  ASSUME BootInv, func # "none", NEW f \in Fact, Needs(Instr, f)
  PROVE  Holds(f)
  <1>1. ptr \in 1 .. Len(table) /\ Len(table) \in Nat /\ Pending
    BY DEF BootInv, RunInv, WellFormed
  <1>2. (Holds(f) /\ Kept(table, ptr, ptr, f)) \/ Given(table, ptr, ptr, f)
    BY <1>1 DEF Pending, Instr
  <1> QED
    BY <1>1, <1>2 DEF Given

\* The current instruction is one of a well-formed table.
LEMMA CurrentFormed ==
  ASSUME BootInv, func # "none"
  PROVE  StepFormed(table, ptr) /\ ptr \in 1 .. Len(table) /\ Len(table) \in Nat
  BY DEF BootInv, RunInv, WellFormed

\* The write of an instruction takes effect, and its whole effect is on the bits
\* it sets and clears and on what the silicon says of them.
LEMMA StoreEffect ==
  ASSUME BootInv, func # "none", Instr.addr \in SlcrRegisters \cup OtherRegisters,
         NEW bits, Store(Instr.addr, bits), UNCHANGED <<si_ver, slcr, ret, booted>>,
         Writing(Instr),
         \A b : b \in bits <=> \/ Sets(Instr, Instr.addr, b)
                               \/ b \in reg[Instr.addr] /\ ~Clears(Instr, Instr.addr, b)
  PROVE  Effect
  <1> DEFINE addr == Instr.addr
  <1>1. addr \in SlcrRegisters => slcr = "open"
    <2>1. Open \in Fact
      BY DEF Fact
    <2>2. addr \in SlcrRegisters => Holds(Open)
      BY <2>1, NeedsHold DEF Needs
    <2> QED
      BY <2>2 DEF Holds, Open
  <1>2. addr \in Registers /\ addr \notin StatusRegisters
         /\ ~Key(Instr, "SLCR_UNLOCK") /\ ~Key(Instr, "SLCR_LOCK")
    BY DEF Registers, StatusRegisters, SlcrRegisters, OtherRegisters, Key, PLLs, PLL_CTRL,
           PLL_CFG, CLK_CTRL
  <1>3. /\ reg' = [r \in Registers |->
            CASE r = addr -> bits
              [] r = "PLL_STATUS" ->
                   reg[r] \ {LOCK[p] : p \in {q \in PLLs : addr = PLL_CTRL[q] /\ "RESET" \in bits}}
              [] r = "mode_sts" /\ addr = "ddrc_ctrl" /\ "SOFT_RSTB" \notin bits -> {}
              [] r = "DCI_STATUS" /\ addr = "DCI_CTRL" /\ "RESET" \notin bits -> {}
              [] OTHER -> reg[r]]
        /\ UNCHANGED ignored
    BY <1>1 DEF BootInv, TypeOK, Store
  <1>4. ASSUME NEW r \in SlcrRegisters \cup OtherRegisters, NEW b
        PROVE  b \in reg'[r] <=> Sets(Instr, r, b) \/ (b \in reg[r] /\ ~Clears(Instr, r, b))
    <2>1. r \in Registers /\ r \notin StatusRegisters
      BY DEF Registers, StatusRegisters, SlcrRegisters, OtherRegisters, PLLs, PLL_CTRL,
             PLL_CFG, CLK_CTRL
    <2>2. CASE r = addr
      <3>1. reg'[addr] = bits
        BY <1>2, <1>3 DEF StatusRegisters
      <3> QED
        BY <2>2, <3>1
    <2>3. CASE r # addr
      <3>1. reg'[r] = reg[r]
        BY <1>3, <2>1, <2>3 DEF StatusRegisters
      <3>2. ~Sets(Instr, r, b) /\ ~Clears(Instr, r, b)
        BY <2>3 DEF Sets, Clears
      <3> QED
        BY <3>1, <3>2
    <2> QED
      BY <2>2, <2>3
  <1>5. {"PLL_STATUS", "DCI_STATUS", "mode_sts"} \subseteq Registers
         /\ "PLL_STATUS" # addr /\ "DCI_STATUS" # addr /\ "mode_sts" # addr
    BY <1>2 DEF Registers, StatusRegisters
  <1>6. ASSUME NEW p \in PLLs
        PROVE  LOCK[p] \in reg'["PLL_STATUS"] <=>
                 LOCK[p] \in reg["PLL_STATUS"] /\ ~Sets(Instr, PLL_CTRL[p], "RESET")
    <2>1. \A q \in PLLs : LOCK[q] = LOCK[p] <=> q = p
      BY DEF LOCK, PLLs
    <2>2. LOCK[p] \in reg'["PLL_STATUS"] <=>
            LOCK[p] \in reg["PLL_STATUS"] /\ ~(addr = PLL_CTRL[p] /\ "RESET" \in bits)
      <3>1. reg'["PLL_STATUS"] = reg["PLL_STATUS"] \
              {LOCK[x] : x \in {q \in PLLs : addr = PLL_CTRL[q] /\ "RESET" \in bits}}
        BY <1>3, <1>5
      <3> QED
        BY <2>1, <3>1
    <2>3. LOCK[p] \in reg["PLL_STATUS"] => "RESET" \notin reg[PLL_CTRL[p]]
      BY DEF BootInv, SiliconInv
    <2>4. Sets(Instr, PLL_CTRL[p], "RESET") => addr = PLL_CTRL[p]
      BY DEF Sets
    <2> QED
      BY <2>2, <2>3, <2>4
  <1>7. "DONE" \in reg'["DCI_STATUS"] <=>
          "DONE" \in reg["DCI_STATUS"] /\ ~Clears(Instr, "DCI_CTRL", "RESET")
    <2>1. "DONE" \in reg'["DCI_STATUS"] <=>
            "DONE" \in reg["DCI_STATUS"] /\ ~(addr = "DCI_CTRL" /\ "RESET" \notin bits)
      BY <1>3, <1>5
    <2>2. "DONE" \in reg["DCI_STATUS"] => "RESET" \in reg["DCI_CTRL"]
      BY DEF BootInv, SiliconInv
    <2>3. Clears(Instr, "DCI_CTRL", "RESET") => addr = "DCI_CTRL"
      BY DEF Clears
    <2>4. ~(Sets(Instr, "DCI_CTRL", "RESET") /\ Clears(Instr, "DCI_CTRL", "RESET"))
      BY DEF Sets, Clears
    <2> QED
      BY <2>1, <2>2, <2>3, <2>4
  <1>8. reg'["mode_sts"] # {} <=>
          reg["mode_sts"] # {} /\ ~Clears(Instr, "ddrc_ctrl", "SOFT_RSTB")
    <2>1. reg'["mode_sts"] = IF addr = "ddrc_ctrl" /\ "SOFT_RSTB" \notin bits THEN {}
                             ELSE reg["mode_sts"]
      BY <1>3, <1>5
    <2>2. reg["mode_sts"] # {} => "SOFT_RSTB" \in reg["ddrc_ctrl"]
      BY DEF BootInv, SiliconInv
    <2>3. Clears(Instr, "ddrc_ctrl", "SOFT_RSTB") => addr = "ddrc_ctrl"
      BY DEF Clears
    <2>4. ~(Sets(Instr, "ddrc_ctrl", "SOFT_RSTB") /\ Clears(Instr, "ddrc_ctrl", "SOFT_RSTB"))
      BY DEF Sets, Clears
    <2> QED
      BY <2>1, <2>2, <2>3, <2>4
  <1>9. DOMAIN reg' = Registers
    BY <1>3
  <1> QED
    BY <1>2, <1>3, <1>4, <1>6, <1>7, <1>8, <1>9 DEF Effect

\* An instruction that writes nothing, or a key, changes no register.
LEMMA StillEffect ==
  ASSUME BootInv, UNCHANGED <<reg, si_ver, ret, booted, ignored>>,
         slcr' = IF Key(Instr, "SLCR_UNLOCK") THEN "open"
                 ELSE IF Key(Instr, "SLCR_LOCK") THEN "locked" ELSE slcr,
         Writing(Instr) => Key(Instr, "SLCR_UNLOCK") \/ Key(Instr, "SLCR_LOCK")
  PROVE  Effect
  <1>1. {"SLCR_UNLOCK", "SLCR_LOCK"} \cap Registers = {}
    BY DEF Registers, StatusRegisters, SlcrRegisters, OtherRegisters, PLLs, PLL_CTRL,
           PLL_CFG, CLK_CTRL
  <1>2. \A r \in SlcrRegisters \cup OtherRegisters : \A b :
          ~Sets(Instr, r, b) /\ ~Clears(Instr, r, b)
    BY <1>1 DEF Sets, Clears, Key, Registers
  <1>3. \A p \in PLLs : PLL_CTRL[p] \in SlcrRegisters \cup OtherRegisters
    BY DEF SlcrRegisters
  <1>4. "DCI_CTRL" \in SlcrRegisters \cup OtherRegisters
         /\ "ddrc_ctrl" \in SlcrRegisters \cup OtherRegisters
    BY DEF SlcrRegisters, OtherRegisters
  <1>5. DOMAIN reg' = Registers
    BY DEF BootInv, TypeOK
  <1> QED
    BY <1>2, <1>3, <1>4, <1>5 DEF Effect

\* Every action that finishes an instruction has its effect.
LEMMA StepsEffect ==
  ASSUME BootInv, Steps
  PROVE  Effect /\ Advance /\ func # "none"
  <1>1. CASE Clear
    <2>1. func # "none" /\ Writing(Instr) /\ Instr.opcode = "CLEAR"
      BY <1>1 DEF Clear, Running, Writing
    <2>2. Instr.addr \in SlcrRegisters \cup OtherRegisters
      BY <2>1, CurrentFormed DEF StepFormed, Instr, Key
    <2>3. Effect
      <3>1. \A b : b \in {} <=> \/ Sets(Instr, Instr.addr, b)
                                \/ b \in reg[Instr.addr] /\ ~Clears(Instr, Instr.addr, b)
        BY <2>1 DEF Sets, Clears
      <3> QED
        BY <1>1, <2>1, <2>2, <3>1, StoreEffect DEF Clear
    <2> QED
      BY <1>1, <2>1, <2>3 DEF Clear
  <1>2. CASE Write
    <2>1. func # "none" /\ Writing(Instr) /\ Instr.opcode = "WRITE"
      BY <1>2 DEF Write, Running, Writing
    <2>2. CASE Instr.addr \in {"SLCR_UNLOCK", "SLCR_LOCK"}
      <3>1. /\ UNCHANGED <<reg, si_ver, ret, booted, ignored>>
            /\ slcr' = IF Key(Instr, "SLCR_UNLOCK") THEN "open"
                       ELSE IF Key(Instr, "SLCR_LOCK") THEN "locked" ELSE slcr
        BY <1>2, <2>1, <2>2 DEF Write, Key
      <3>2. Key(Instr, "SLCR_UNLOCK") \/ Key(Instr, "SLCR_LOCK")
        BY <2>1, <2>2 DEF Key
      <3> QED
        BY <1>2, <2>1, <3>1, <3>2, StillEffect DEF Write
    <2>3. CASE Instr.addr \notin {"SLCR_UNLOCK", "SLCR_LOCK"}
      <3>1. Instr.addr \in SlcrRegisters \cup OtherRegisters
        BY <2>1, <2>3, CurrentFormed DEF StepFormed, Instr, Key
      <3> DEFINE bits == Instr.val
      <3>2. \A b : b \in bits <=> \/ Sets(Instr, Instr.addr, b)
                                  \/ b \in reg[Instr.addr] /\ ~Clears(Instr, Instr.addr, b)
        BY <2>1 DEF Sets, Clears
      <3>3. Store(Instr.addr, bits) /\ UNCHANGED <<si_ver, slcr, ret, booted>>
        BY <1>2, <2>3 DEF Write
      <3> HIDE DEF bits
      <3>4. Effect
        BY <2>1, <3>1, <3>2, <3>3, StoreEffect
      <3> QED
        BY <1>2, <2>1, <3>4 DEF Write
    <2> QED
      BY <2>2, <2>3
  <1>3. CASE MaskWrite
    <2>1. func # "none" /\ Writing(Instr) /\ Instr.opcode = "MASKWRITE"
      BY <1>3 DEF MaskWrite, Running, Writing
    <2>2. Instr.addr \in SlcrRegisters \cup OtherRegisters
      BY <2>1, CurrentFormed DEF StepFormed, Instr, Key
    <2>3. Effect
      <3>1. \A b : b \in Masked(reg[Instr.addr], Instr.mask, Instr.val) <=>
                     \/ Sets(Instr, Instr.addr, b)
                     \/ b \in reg[Instr.addr] /\ ~Clears(Instr, Instr.addr, b)
        BY <2>1 DEF Sets, Clears, Masked
      <3>2. Store(Instr.addr, Masked(reg[Instr.addr], Instr.mask, Instr.val))
            /\ UNCHANGED <<si_ver, slcr, ret, booted>>
        BY <1>3 DEF MaskWrite
      <3> QED
        BY <2>1, <2>2, <3>1, <3>2, StoreEffect
    <2> QED
      BY <1>3, <2>1, <2>3 DEF MaskWrite
  <1>4. CASE PollHit
    <2>1. func # "none" /\ ~Writing(Instr) /\ ~Key(Instr, "SLCR_UNLOCK")
            /\ ~Key(Instr, "SLCR_LOCK")
      BY <1>4 DEF PollHit, Running, Writing, Key
    <2> QED
      BY <1>4, <2>1, StillEffect DEF PollHit, history
  <1>5. CASE DelayOver
    <2>1. func # "none" /\ ~Writing(Instr) /\ ~Key(Instr, "SLCR_UNLOCK")
            /\ ~Key(Instr, "SLCR_LOCK")
      BY <1>5 DEF DelayOver, BootInv, DelayInv, Writing, Key
    <2> QED
      BY <1>5, <2>1, StillEffect DEF DelayOver, history
  <1> QED
    BY <1>1, <1>2, <1>3, <1>4, <1>5 DEF Steps

\* What an instruction keeps stays true over it.
LEMMA EffectKeeps ==
  ASSUME Effect, NEW f \in Fact, Holds(f), Keeps(Instr, f)
  PROVE  Holds(f)'
  <1>1. CASE f \in {Open, Protected, Calibrated, Operating, Booted}
    BY <1>1 DEF Effect, Holds, Keeps, Open, Protected, Calibrated, Operating, Booted
  <1>2. CASE f \in {"bypassed", "inUse", "unreset", "locked"} \X PLLs
    <2>1. PICK p \in PLLs :
            f \in {<<"bypassed", p>>, <<"inUse", p>>, <<"unreset", p>>, <<"locked", p>>}
      BY <1>2
    <2>2. PLL_CTRL[p] \in SlcrRegisters \cup OtherRegisters
      BY DEF SlcrRegisters
    <2> QED
      BY <2>1, <2>2 DEF Effect, Holds, Keeps
  <1>3. CASE f \in {"set"} \X Settings
    <2>1. PICK r \in Settings : f = <<"set", r>>
      BY <1>3
    <2>2. r \in SlcrRegisters \cup OtherRegisters
      BY DEF Settings, SlcrRegisters, OtherRegisters
    <2>3. reg[r] # {} /\ (Writing(Instr) /\ Instr.addr = r => Sets(Instr, r, "VALUES"))
      BY <2>1 DEF Holds, Keeps
    <2>4. PICK b : b \in reg[r]
      BY <2>3
    <2>5. Sets(Instr, r, "VALUES") \/ ~Clears(Instr, r, b)
      BY <2>3 DEF Clears
    <2>6. reg'[r] # {}
      BY <2>2, <2>4, <2>5 DEF Effect
    <2> QED
      BY <2>1, <2>6 DEF Holds
  <1> QED
    BY <1>1, <1>2, <1>3 DEF Fact

\* What an instruction gives is true after it.
LEMMA StepsGive ==
  ASSUME BootInv, Steps, NEW f \in Fact, Gives(Instr, f)
  PROVE  Holds(f)'
  <1>1. Effect
    BY StepsEffect
  <1>2. ASSUME Instr.opcode = "MASKPOLL"
        PROVE  UNCHANGED reg /\ reg[Instr.addr] \cap Instr.mask # {}
    BY <1>2 DEF Steps, Clear, Write, MaskWrite, PollHit, DelayOver, Running, Polled,
                BootInv, DelayInv
  <1>3. CASE f \in {Open, Protected, Operating, Booted}
    BY <1>1, <1>2, <1>3 DEF Effect, Holds, Gives, Open, Protected, Operating, Booted, Key
  <1>4. CASE f = Calibrated
    <2>1. Instr = MASKPOLL("DCI_STATUS", {"DONE"})
      BY <1>4 DEF Gives, Calibrated
    <2> QED
      BY <1>2, <1>4, <2>1 DEF Holds, Calibrated, MASKPOLL
  <1>5. CASE f \in {"bypassed", "inUse", "unreset"} \X PLLs
    <2>1. PICK p \in PLLs : f \in {<<"bypassed", p>>, <<"inUse", p>>, <<"unreset", p>>}
      BY <1>5
    <2>2. PLL_CTRL[p] \in SlcrRegisters \cup OtherRegisters
      BY DEF SlcrRegisters
    <2>3. \A b : ~(Sets(Instr, PLL_CTRL[p], b) /\ Clears(Instr, PLL_CTRL[p], b))
      BY DEF Sets, Clears
    <2> QED
      BY <1>1, <2>1, <2>2, <2>3 DEF Effect, Holds, Gives
  <1>6. CASE f \in {"locked"} \X PLLs
    <2>1. PICK p \in PLLs : f = <<"locked", p>>
      BY <1>6
    <2>2. Instr = MASKPOLL("PLL_STATUS", {LOCK[p]})
      BY <2>1 DEF Gives
    <2> QED
      BY <1>2, <2>1, <2>2 DEF Holds, MASKPOLL
  <1>7. CASE f \in {"set"} \X Settings
    <2>1. PICK r \in Settings : f = <<"set", r>>
      BY <1>7
    <2>2. r \in SlcrRegisters \cup OtherRegisters
      BY DEF Settings, SlcrRegisters, OtherRegisters
    <2>3. Sets(Instr, r, "VALUES")
      BY <2>1 DEF Gives
    <2>4. reg'[r] # {}
      BY <1>1, <2>2, <2>3 DEF Effect
    <2> QED
      BY <2>1, <2>4 DEF Holds
  <1> QED
    BY <1>3, <1>4, <1>5, <1>6, <1>7 DEF Fact

\* The silicon takes nothing away.
LEMMA SiliconKeeps ==
  ASSUME BootInv, PllLocks \/ DciDone \/ DdrOperates, NEW f \in Fact, Holds(f)
  PROVE  Holds(f)'
  <1>1. /\ \A p \in PLLs : LOCK[p] \in reg["PLL_STATUS"] => LOCK[p] \in reg'["PLL_STATUS"]
        /\ "DONE" \in reg["DCI_STATUS"] => "DONE" \in reg'["DCI_STATUS"]
        /\ reg["mode_sts"] # {} => reg'["mode_sts"] # {}
        /\ \A r \in SlcrRegisters \cup OtherRegisters : reg'[r] = reg[r]
        /\ UNCHANGED <<slcr, booted>>
    <2>1. StatusRegisters \subseteq Registers /\ DOMAIN reg = Registers
      BY DEF BootInv, TypeOK, Registers
    <2>2. \A r \in SlcrRegisters \cup OtherRegisters : r \in Registers \ StatusRegisters
      BY DEF Registers, StatusRegisters, SlcrRegisters, OtherRegisters, PLLs, PLL_CTRL,
             PLL_CFG, CLK_CTRL
    <2>3. CASE PllLocks
      BY <2>1, <2>2, <2>3 DEF PllLocks, StatusRegisters, history
    <2>4. CASE DciDone
      BY <2>1, <2>2, <2>4 DEF DciDone, StatusRegisters, history
    <2>5. CASE DdrOperates
      BY <2>1, <2>2, <2>5 DEF DdrOperates, StatusRegisters, history
    <2> QED
      BY <2>3, <2>4, <2>5
  <1>3. CASE f \in {Open, Protected, Calibrated, Operating, Booted}
    BY <1>1, <1>3 DEF Holds, Open, Protected, Calibrated, Operating, Booted
  <1>4. CASE f \in {"bypassed", "inUse", "unreset", "locked"} \X PLLs
    <2>1. PICK p \in PLLs :
            f \in {<<"bypassed", p>>, <<"inUse", p>>, <<"unreset", p>>, <<"locked", p>>}
      BY <1>4
    <2>2. PLL_CTRL[p] \in SlcrRegisters \cup OtherRegisters
      BY DEF SlcrRegisters
    <2> QED
      BY <1>1, <2>1, <2>2 DEF Holds
  <1>5. CASE f \in {"set"} \X Settings
    <2>1. PICK r \in Settings : f = <<"set", r>>
      BY <1>5
    <2>2. r \in SlcrRegisters \cup OtherRegisters
      BY DEF Settings, SlcrRegisters, OtherRegisters
    <2> QED
      BY <1>1, <2>1, <2>2 DEF Holds
  <1> QED
    BY <1>3, <1>4, <1>5 DEF Fact

-------------------------------------------------------------------------------
(* The invariant, action by action. *)

\* A step of the table that does not end it.
LEMMA PendingAdvances ==
  ASSUME BootInv, Steps
  PROVE  Pending'
  <1>1. Effect /\ Advance /\ func # "none"
    BY StepsEffect
  <1>2. ptr \in 1 .. Len(table) /\ Len(table) \in Nat /\ Pending
    BY <1>1 DEF BootInv, RunInv, WellFormed
  <1>3. Promise' = Promise /\ table' = table /\ ptr' = ptr + 1
    BY <1>1 DEF Advance, Promise, Achieved
  <1> SUFFICES ASSUME NEW k \in ptr + 1 .. Len(table), NEW f \in Fact,
                      Needs(table[k], f) \/ (k = Len(table) /\ f \in Promise)
               PROVE  (Holds(f)' /\ Kept(table, ptr + 1, k, f)) \/ Given(table, ptr + 1, k, f)
    BY <1>3 DEF Pending
  <1>4. (Holds(f) /\ Kept(table, ptr, k, f)) \/ Given(table, ptr, k, f)
    BY <1>2 DEF Pending
  <1>5. CASE Holds(f) /\ Kept(table, ptr, k, f)
    <2>1. Keeps(Instr, f) /\ Kept(table, ptr + 1, k, f)
      BY <1>2, <1>5 DEF Kept, Instr
    <2> QED
      BY <1>1, <1>5, <2>1, EffectKeeps
  <1>6. CASE Given(table, ptr, k, f)
    <2>1. PICK g \in ptr .. k - 1 : Gives(table[g], f) /\ Kept(table, g + 1, k, f)
      BY <1>6 DEF Given
    <2>2. CASE g = ptr
      BY <2>1, <2>2, StepsGive DEF Instr
    <2>3. CASE g # ptr
      BY <1>2, <2>1, <2>3 DEF Given
    <2> QED
      BY <2>2, <2>3
  <1> QED
    BY <1>4, <1>5, <1>6

\* A step keeps the program, the system that is up, the fabric and the plls.
LEMMA StepsRun ==
  ASSUME BootInv, Steps
  PROVE  RunInv' /\ UpInv' /\ FabricReleasedLast' /\ ResetOnlyBypassed'
  <1>1. Effect /\ Advance /\ func # "none"
    BY StepsEffect
  <1>2. StepFormed(table, ptr) /\ ptr \in 1 .. Len(table) /\ Len(table) \in Nat
    BY <1>1, CurrentFormed
  <1>3. ptr < Len(table)
    BY <1>2 DEF Steps, Clear, Write, MaskWrite, PollHit, DelayOver, Running, StepFormed,
                BootInv, DelayInv, Instr
  <1>4. UNCHANGED <<func, todo, table, booted, si_ver>> /\ ptr' = ptr + 1
    BY <1>1 DEF Advance, Effect
  <1>5. RunInv'
    <2>1. InitTables' = InitTables
      BY <1>4 DEF InitTables
    <2>2. InitTodo => InitTodo'
      BY <1>4, <2>1 DEF InitTodo
    <2> QED
      BY <1>1, <1>2, <1>3, <1>4, <2>2, PendingAdvances DEF BootInv, RunInv
  <1>6. UpInv'
    <2>1. ASSUME booted, NEW f \in Up \ {Protected}
          PROVE  Holds(f)'
      <3>1. f \in Fact
        BY DEF Up, Achieved
      <3>2. Harmless(table) /\ Holds(f)
        BY <1>1, <2>1 DEF BootInv, RunInv, UpInv
      <3>3. Keeps(Instr, f)
        BY <1>2, <3>2 DEF Harmless, Instr
      <3> QED
        BY <1>1, <3>1, <3>2, <3>3, EffectKeeps
    <2>2. ASSUME booted, \A k \in 1 .. Len(table) : Keeps(table[k], Protected)
          PROVE  Holds(Protected)'
      <3>1. Holds(Protected) /\ Protected \in Fact
        BY <2>2 DEF BootInv, UpInv, Fact
      <3>2. Keeps(Instr, Protected)
        BY <1>2, <2>2 DEF Instr
      <3> QED
        BY <1>1, <3>1, <3>2, EffectKeeps
    <2> QED
      BY <1>1, <1>4, <2>1, <2>2 DEF UpInv
  <1>7. FabricReleasedLast'
    <2>1. ASSUME "RESET" \notin reg'["FPGA_RST_CTRL"]
          PROVE  booted /\ reg'["LVL_SHFTR_EN"] # {}
      <3>1. "FPGA_RST_CTRL" \in SlcrRegisters /\ "LVL_SHFTR_EN" \in Settings
            /\ <<"set", "LVL_SHFTR_EN">> \in Fact /\ Booted \in Fact
        BY DEF SlcrRegisters, Settings, Fact
      <3>2. booted /\ reg["LVL_SHFTR_EN"] # {}
        <4>1. CASE Clears(Instr, "FPGA_RST_CTRL", "RESET")
          <5>1. Needs(Instr, Booted) /\ Needs(Instr, <<"set", "LVL_SHFTR_EN">>)
            BY <4>1 DEF Needs
          <5>2. Holds(Booted) /\ Holds(<<"set", "LVL_SHFTR_EN">>)
            BY <1>1, <3>1, <5>1, NeedsHold
          <5> QED
            BY <5>2 DEF Holds, Booted
        <4>2. CASE ~Clears(Instr, "FPGA_RST_CTRL", "RESET")
          <5>1. "RESET" \notin reg["FPGA_RST_CTRL"]
            BY <1>1, <2>1, <3>1, <4>2 DEF Effect
          <5> QED
            BY <5>1 DEF BootInv, FabricReleasedLast
        <4> QED
          BY <4>1, <4>2
      <3>3. Holds(<<"set", "LVL_SHFTR_EN">>) /\ Keeps(Instr, <<"set", "LVL_SHFTR_EN">>)
        BY <1>2, <3>1, <3>2 DEF Holds, StepFormed, Instr
      <3>4. Holds(<<"set", "LVL_SHFTR_EN">>)'
        BY <1>1, <3>1, <3>3, EffectKeeps
      <3> QED
        BY <3>2, <3>4 DEF Holds
    <2> QED
      BY <1>4, <2>1 DEF FabricReleasedLast
  <1>8. ResetOnlyBypassed'
    <2> SUFFICES ASSUME NEW p \in PLLs, "RESET" \in reg'[PLL_CTRL[p]]
                 PROVE  "BYPASS" \in reg'[PLL_CTRL[p]]
      BY DEF ResetOnlyBypassed
    <2>1. /\ PLL_CTRL[p] \in SlcrRegisters
          /\ <<"bypassed", p>> \in Fact /\ <<"unreset", p>> \in Fact
      BY DEF SlcrRegisters, Fact
    <2>2. CASE Sets(Instr, PLL_CTRL[p], "RESET")
      <3>1. Needs(Instr, <<"bypassed", p>>)
        BY <2>2 DEF Needs
      <3>2. "BYPASS" \in reg[PLL_CTRL[p]]
        BY <1>1, <2>1, <3>1, NeedsHold DEF Holds
      <3>3. ~Clears(Instr, PLL_CTRL[p], "BYPASS")
        BY <1>2, <2>2 DEF StepFormed, Instr
      <3> QED
        BY <1>1, <2>1, <3>2, <3>3 DEF Effect
    <2>3. CASE ~Sets(Instr, PLL_CTRL[p], "RESET")
      <3>1. "RESET" \in reg[PLL_CTRL[p]]
        BY <1>1, <2>1, <2>3 DEF Effect
      <3>2. "BYPASS" \in reg[PLL_CTRL[p]]
        BY <3>1 DEF BootInv, ResetOnlyBypassed
      <3>3. ~Clears(Instr, PLL_CTRL[p], "BYPASS")
        <4>1. ASSUME Clears(Instr, PLL_CTRL[p], "BYPASS") PROVE FALSE
          <5>1. Needs(Instr, <<"unreset", p>>)
            BY <4>1 DEF Needs
          <5> QED
            BY <1>1, <2>1, <3>1, <5>1, NeedsHold DEF Holds
        <4> QED
          BY <4>1
      <3> QED
        BY <1>1, <2>1, <3>2, <3>3 DEF Effect
    <2> QED
      BY <2>2, <2>3
  <1> QED
    BY <1>5, <1>6, <1>7, <1>8

\* A step keeps the types and what the silicon reports.
LEMMA StepsType ==
  ASSUME BootInv, Steps
  PROVE  /\ TypeOK' /\ si_ver' \in 0 .. 3 /\ booted' \in BOOLEAN
         /\ timer' = [count |-> timer'.count, on |-> timer'.on]
         /\ SiliconInv' /\ DelayInv' /\ NoWriteIgnored'
  <1>1. Effect /\ Advance /\ func # "none"
    BY StepsEffect
  <1>2. StepFormed(table, ptr) /\ ptr \in 1 .. Len(table) /\ Len(table) \in Nat
    BY <1>1, CurrentFormed
  <1>3. ptr < Len(table)
    BY <1>2 DEF Steps, Clear, Write, MaskWrite, PollHit, DelayOver, Running, StepFormed,
                BootInv, DelayInv, Instr
  <1>4. i' \in 0 .. PS7_MASK_POLL_TIME /\ timer' = timer /\ waiting' = FALSE
    BY Ps7Assumption DEF BootInv, TypeOK, Steps, Clear, Write, MaskWrite, PollHit, DelayOver,
                         Running
  <1>5. TypeOK'
    <2>1. slcr' \in {"open", "locked"} /\ DOMAIN reg' = Registers /\ ret' = ret
      BY <1>1 DEF BootInv, TypeOK, Effect
    <2>2. func' = func /\ ptr' \in 1 .. Len(table')
      BY <1>1, <1>2, <1>3 DEF Advance
    <2> QED
      BY <1>4, <2>1, <2>2 DEF BootInv, TypeOK
  <1>6. SiliconInv'
    <2>1. ASSUME NEW p \in PLLs, LOCK[p] \in reg'["PLL_STATUS"]
          PROVE  "RESET" \notin reg'[PLL_CTRL[p]]
      <3>1. PLL_CTRL[p] \in SlcrRegisters
        BY DEF SlcrRegisters
      <3> QED
        BY <1>1, <2>1, <3>1 DEF Effect, BootInv, SiliconInv
    <2>2. "DCI_CTRL" \in SlcrRegisters /\ "ddrc_ctrl" \in OtherRegisters
      BY DEF SlcrRegisters, OtherRegisters
    <2>3. "DONE" \in reg'["DCI_STATUS"] => "RESET" \in reg'["DCI_CTRL"]
      BY <1>1, <2>2 DEF Effect, BootInv, SiliconInv
    <2>4. reg'["mode_sts"] # {} => "SOFT_RSTB" \in reg'["ddrc_ctrl"]
      BY <1>1, <2>2 DEF Effect, BootInv, SiliconInv
    <2> QED
      BY <2>1, <2>3, <2>4 DEF SiliconInv
  <1> QED
    BY <1>1, <1>4, <1>5, <1>6 DEF Effect, BootInv, DelayInv, NoWriteIgnored

\* Nothing of the program or of the facts changes.
LEMMA StillRuns ==
  ASSUME BootInv, UNCHANGED <<si_ver, func, todo, table, ptr, booted>>,
         \A f \in Fact : Holds(f) => Holds(f)'
  PROVE  RunInv' /\ UpInv'
  <1>1. InitTables' = InitTables
    BY DEF InitTables
  <1>2. InitTodo => InitTodo'
    BY <1>1 DEF InitTodo
  <1>3. Promise' = Promise
    BY DEF Promise, Achieved
  <1>4. Pending => Pending'
    BY <1>3 DEF Pending
  <1>5. RunInv'
    BY <1>2, <1>4 DEF BootInv, RunInv
  <1>6. UpInv'
    <2>1. Up \subseteq Fact /\ Protected \in Fact
      BY DEF Up, Achieved, Fact
    <2> QED
      BY <2>1 DEF BootInv, UpInv
  <1> QED
    BY <1>5, <1>6

\* Facts are about the registers, the protection and the history.
LEMMA SamePinsHold ==
  ASSUME UNCHANGED <<reg, slcr, booted>>, NEW f, Holds(f)
  PROVE  Holds(f)'
  BY DEF Holds

\* The silicon answers.
LEMMA SiliconPreserves ==
  ASSUME BootInv, PllLocks \/ DciDone \/ DdrOperates
  PROVE  BootInv'
  <1>1. UNCHANGED <<si_ver, slcr, func, todo, table, ptr, i, waiting, timer, ret, booted,
                    ignored, elapsed, calls>>
    BY DEF PllLocks, DciDone, DdrOperates, software, history
  <1>2. StatusRegisters \subseteq Registers /\ DOMAIN reg = Registers
    BY DEF BootInv, TypeOK, Registers
  <1>3. \A r \in SlcrRegisters \cup OtherRegisters : r \in Registers \ StatusRegisters
    BY DEF Registers, StatusRegisters, SlcrRegisters, OtherRegisters, PLLs, PLL_CTRL,
           PLL_CFG, CLK_CTRL
  <1>4. \A r \in SlcrRegisters \cup OtherRegisters : reg'[r] = reg[r]
    BY <1>2, <1>3 DEF PllLocks, DciDone, DdrOperates, StatusRegisters
  <1>5. RunInv' /\ UpInv'
    BY <1>1, SiliconKeeps, StillRuns
  <1>6. /\ \A p \in PLLs : PLL_CTRL[p] \in SlcrRegisters
        /\ "DCI_CTRL" \in SlcrRegisters /\ "ddrc_ctrl" \in OtherRegisters
        /\ "FPGA_RST_CTRL" \in SlcrRegisters /\ "LVL_SHFTR_EN" \in SlcrRegisters
    BY DEF SlcrRegisters, OtherRegisters
  <1>7. SiliconInv'
    <2>1. CASE PllLocks
      <3>1. PICK q \in PLLs :
              /\ "RESET" \notin reg[PLL_CTRL[q]]
              /\ reg' = [reg EXCEPT !["PLL_STATUS"] = @ \cup {LOCK[q]}]
        BY <2>1 DEF PllLocks
      <3>2. \A p \in PLLs : LOCK[p] = LOCK[q] => p = q
        BY DEF LOCK, PLLs
      <3>3. /\ reg'["PLL_STATUS"] = reg["PLL_STATUS"] \cup {LOCK[q]}
            /\ reg'["DCI_STATUS"] = reg["DCI_STATUS"] /\ reg'["mode_sts"] = reg["mode_sts"]
        BY <1>2, <3>1 DEF StatusRegisters
      <3> QED
        BY <1>4, <1>6, <3>1, <3>2, <3>3 DEF BootInv, SiliconInv
    <2>2. CASE DciDone
      <3>1. /\ reg'["PLL_STATUS"] = reg["PLL_STATUS"]
            /\ "RESET" \in reg["DCI_CTRL"] /\ reg'["mode_sts"] = reg["mode_sts"]
        BY <1>2, <2>2 DEF StatusRegisters, DciDone
      <3> QED
        BY <1>4, <1>6, <3>1 DEF BootInv, SiliconInv
    <2>3. CASE DdrOperates
      <3>1. /\ reg'["PLL_STATUS"] = reg["PLL_STATUS"]
            /\ reg'["DCI_STATUS"] = reg["DCI_STATUS"] /\ "SOFT_RSTB" \in reg["ddrc_ctrl"]
        BY <1>2, <2>3 DEF StatusRegisters, DdrOperates
      <3> QED
        BY <1>4, <1>6, <3>1 DEF BootInv, SiliconInv
    <2> QED
      BY <2>1, <2>2, <2>3
  <1>8. TypeOK'
    <2>1. DOMAIN reg' = Registers
      BY <1>2 DEF PllLocks, DciDone, DdrOperates
    <2> QED
      BY <1>1, <2>1 DEF BootInv, TypeOK
  <1>9. ResetOnlyBypassed' /\ FabricReleasedLast' /\ NoWriteIgnored' /\ DelayInv'
    BY <1>1, <1>4, <1>6 DEF BootInv, ResetOnlyBypassed, FabricReleasedLast, NoWriteIgnored,
                            DelayInv, Instr
  <1> QED
    BY <1>1, <1>5, <1>7, <1>8, <1>9 DEF BootInv

\* Polls that read again, and the waits of a delay.
LEMMA WaitPreserves ==
  ASSUME BootInv, PollAgain \/ MaskDelay \/ TimerTick
  PROVE  BootInv'
  <1>1. UNCHANGED <<si_ver, reg, slcr, func, todo, table, ptr, ret, booted, ignored, calls>>
    BY DEF PollAgain, MaskDelay, TimerTick, software, history
  <1>2. RunInv' /\ UpInv'
    BY <1>1, SamePinsHold, StillRuns
  <1>3. SiliconInv' /\ ResetOnlyBypassed' /\ FabricReleasedLast' /\ NoWriteIgnored'
    BY <1>1 DEF BootInv, SiliconInv, ResetOnlyBypassed, FabricReleasedLast, NoWriteIgnored
  <1>4. /\ i' \in 0 .. PS7_MASK_POLL_TIME /\ waiting' \in BOOLEAN
        /\ timer'.count \in 0 .. WordMod - 1
        /\ timer' = [count |-> timer'.count, on |-> timer'.on] /\ DelayInv'
    <2>1. CASE PollAgain
      BY <1>1, <2>1, Ps7Assumption DEF PollAgain, BootInv, TypeOK, history, DelayInv, Running
    <2>2. CASE MaskDelay
      BY <1>1, <2>2, Ps7Assumption DEF MaskDelay, BootInv, TypeOK, DelayInv, Running, Instr
    <2>3. CASE TimerTick
      <3>1. waiting /\ func # "none" /\ Instr.opcode = "MASKDELAY" /\ elapsed = timer.count
        BY <2>3 DEF TimerTick, BootInv, DelayInv
      <3>2. Instr.mask \in Nat /\ APU_FREQ * Instr.mask < WordMod
        BY <3>1, CurrentFormed DEF StepFormed, Instr
      <3> DEFINE product == APU_FREQ * Instr.mask
      <3>3. product \in Nat /\ product < WordMod
        BY <3>2, Ps7Assumption
      <3> HIDE DEF product
      <3>4. timer.count <= (product % WordMod) \div (2 * 1000)
        BY <2>3 DEF TimerTick, get_number_of_cycles_for_delay, product
      <3>5. timer.count + 1 \in 0 .. WordMod - 1
        <4>1. product % WordMod = product
          BY <3>3, Ps7Assumption
        <4>2. timer.count \in Nat
          BY DEF BootInv, TypeOK
        <4> QED
          BY <3>3, <3>4, <4>1, <4>2, Ps7Assumption
      <3>6. timer' = [timer EXCEPT !.count = @ + 1] /\ elapsed' = elapsed + 1
             /\ i' = i /\ waiting' = waiting
        BY <2>3 DEF TimerTick, software
      <3>7. timer'.count = timer.count + 1 /\ timer' = [count |-> timer'.count, on |-> timer'.on]
        BY <3>6 DEF BootInv
      <3> QED
        BY <1>1, <3>1, <3>5, <3>6, <3>7 DEF BootInv, TypeOK, DelayInv, Instr
    <2> QED
      BY <2>1, <2>2, <2>3
  <1>5. TypeOK'
    BY <1>1, <1>4 DEF BootInv, TypeOK
  <1> QED
    BY <1>1, <1>2, <1>3, <1>4, <1>5 DEF BootInv

\* The elements of a tail.
LEMMA TailElements ==
  ASSUME NEW S, NEW s \in Seq(S), s # << >>, NEW q \in 1 .. Len(s) - 1
  PROVE  Tail(s)[q] = s[q + 1]
  OBVIOUS

\* What holds where a table starts carries it to its end.
LEMMA TableStarts ==
  ASSUME NEW pre, Sound(table', pre, Promise'), ptr' = 1,
         \A f \in pre : Holds(f)'
  PROVE  Pending'
  BY DEF Sound, Known, Pending

\* At its last instruction a table has kept its promise.
LEMMA PromiseKept ==
  ASSUME BootInv, func # "none", ~waiting,
         Instr.opcode \notin {"CLEAR", "WRITE", "MASKWRITE", "MASKPOLL", "MASKDELAY"},
         NEW f \in Promise
  PROVE  Holds(f)
  <1>1. StepFormed(table, ptr) /\ ptr \in 1 .. Len(table) /\ Len(table) \in Nat /\ Pending
    BY CurrentFormed DEF BootInv, RunInv
  <1>2. ptr = Len(table)
    BY <1>1 DEF StepFormed, Instr
  <1>3. f \in Fact
    BY DEF Promise, Up, Achieved
  <1>4. (Holds(f) /\ Kept(table, ptr, ptr, f)) \/ Given(table, ptr, ptr, f)
    BY <1>1, <1>2, <1>3 DEF Pending
  <1> QED
    BY <1>1, <1>4 DEF Given

\* ps7_init goes on to its next table.
LEMMA NextTableRuns ==
  ASSUME BootInv, Exit, todo # << >>
  PROVE  RunInv' /\ UpInv' /\ ptr' \in 1 .. Len(table')
  <1>1. /\ func # "none" /\ ~waiting /\ Instr.opcode = "EXIT"
        /\ table' = Head(todo) /\ todo' = Tail(todo) /\ ptr' = 1
        /\ UNCHANGED <<func, si_ver, reg, slcr>>
    BY DEF Exit, Running, Finish, PS7_INIT_SUCCESS
  <1>2. func = "ps7_init" /\ InitTodo /\ booted' = FALSE /\ ~booted
    BY <1>1 DEF Exit, Finish, BootInv, RunInv
  <1> DEFINE n == Len(todo)
  <1>3. /\ n \in 1 .. 4 /\ Len(todo') = n - 1 /\ table' = InitTables[6 - n]
        /\ todo' \in Seq({InitTables[s] : s \in 1 .. 5})
        /\ \A q \in 1 .. n - 1 : todo'[q] = InitTables[6 - n + q]
    <2>1. todo \in Seq({InitTables[s] : s \in 1 .. 5}) /\ n \in 0 .. 4
      BY <1>2 DEF InitTodo
    <2>2. n # 0
      BY <2>1
    <2>3. table' = todo[1] /\ Len(todo') = n - 1
          /\ todo' \in Seq({InitTables[s] : s \in 1 .. 5})
          /\ \A q \in 1 .. n - 1 : todo'[q] = todo[q + 1]
      BY <1>1, <2>1, <2>2
    <2> HIDE DEF n
    <2>4. \A q \in 1 .. n : todo[q] = InitTables[5 - n + q]
      BY <1>2 DEF InitTodo, n
    <2>5. todo[1] = InitTables[6 - n]
      BY <2>1, <2>2, <2>4
    <2>6. \A q \in 1 .. n - 1 : todo[q + 1] = InitTables[6 - n + q]
      BY <2>1, <2>2, <2>4
    <2> QED
      BY <2>1, <2>2, <2>3, <2>5, <2>6
  <1> HIDE DEF n
  <1>4. InitTables' = InitTables
    BY <1>1 DEF InitTables
  <1>5. InitTodo'
    BY <1>3, <1>4 DEF InitTodo
  <1>6. WellFormed(table') /\ Sound(table', Achieved(n), Achieved(n - 1))
    <2>1. 6 - n \in 1 .. 5 /\ 6 - (6 - n) = n /\ 5 - (6 - n) = n - 1
      BY <1>3
    <2> QED
      BY <1>3, <2>1, InitContracts
  <1>7. Pending'
    <2>1. Promise = Achieved(n) /\ Promise' = Achieved(n - 1)
      BY <1>1, <1>2, <1>3 DEF Promise, n, Achieved
    <2>2. \A f \in Achieved(n) : Holds(f)'
      <3>1. \A f \in Achieved(n) : Holds(f)
        BY <1>1, <2>1, PromiseKept
      <3>2. \A f \in Achieved(n) : f # Booted
        BY DEF Achieved, Booted, Protected, Operating
      <3>3. ASSUME NEW f \in Achieved(n) PROVE Holds(f)'
        <4>1. Holds(f) /\ f[1] # "booted"
          BY <3>1 DEF Achieved, Protected, Operating
        <4> QED
          BY <1>1, <4>1 DEF Holds
      <3> QED
        BY <3>3
    <2> QED
      BY <1>1, <1>6, <2>1, <2>2, TableStarts
  <1>8. ptr' \in 1 .. Len(table')
    BY <1>1, <1>6 DEF WellFormed
  <1> QED
    BY <1>1, <1>2, <1>5, <1>6, <1>7, <1>8 DEF RunInv, UpInv

\* A function returns.
LEMMA ReturnRuns ==
  ASSUME BootInv, Exit \/ PollTimeout \/ Corrupt, Exit => todo = << >>
  PROVE  RunInv' /\ UpInv' /\ func' = "none" /\ ret' \in {0, 1, 2}
  <1>1. /\ func # "none" /\ ~waiting /\ UNCHANGED <<si_ver, reg, slcr>>
        /\ func' = "none" /\ ret' \in {0, 1, 2}
        /\ func = "ps7_init" => Exit \/ ~booted'
        /\ func # "ps7_init" => booted' = booted
    <2>1. PICK code \in {0, 1, 2} :
            Finish(code) /\ (code = 0 => Exit) /\ ~(code = 0 /\ todo # << >>)
      BY DEF Exit, PollTimeout, Corrupt, PS7_INIT_SUCCESS, PS7_INIT_TIMEOUT, PS7_INIT_CORRUPT
    <2>2. Done(code)
      BY <2>1 DEF Finish, PS7_INIT_SUCCESS
    <2>3. /\ func = "ps7_init" => (booted' = (todo = << >> /\ code = 0))
          /\ func # "ps7_init" => booted' = booted
      BY <2>1 DEF Finish, PS7_INIT_SUCCESS
    <2>4. func = "ps7_init" => Exit \/ ~booted'
      <3>1. CASE code = 0
        BY <2>1, <3>1
      <3>2. CASE code # 0
        BY <2>3, <3>2
      <3> QED
        BY <3>1, <3>2
    <2>5. func # "none" /\ ~waiting /\ UNCHANGED <<si_ver, reg, slcr>>
      BY DEF Exit, PollTimeout, Corrupt, Running
    <2> QED
      BY <2>2, <2>3, <2>4, <2>5 DEF Done
  <1>2. RunInv'
    BY <1>1 DEF RunInv
  <1>3. \A f \in Up : f[1] # "booted" /\ f \in Fact
    BY DEF Up, Achieved, Protected, Operating
  <1>4. \A f \in Up : Holds(f) => Holds(f)'
    BY <1>1, <1>3 DEF Holds
  <1>5. Protected \in Up
    BY DEF Up, Achieved, Fact
  <1>6. ASSUME booted'
        PROVE  \A f \in Up : Holds(f)
    <2>1. CASE Exit \/ Corrupt
      <3>1. Instr.opcode \notin {"CLEAR", "WRITE", "MASKWRITE", "MASKPOLL", "MASKDELAY"}
        BY <2>1 DEF Exit, Corrupt, Running
      <3>2. Promise = Up
        <4>1. CASE func = "ps7_init"
          <5>1. Exit
            BY <1>1, <1>6, <4>1
          <5>2. Len(todo) = 0
            BY <5>1
          <5> QED
            BY <4>1, <5>2 DEF Promise, Up
        <4>2. CASE func # "ps7_init"
          BY <4>2 DEF Promise
        <4> QED
          BY <4>1, <4>2
      <3> QED
        BY <1>1, <3>1, <3>2, PromiseKept
    <2>2. CASE PollTimeout
      <3>1. Instr.opcode = "MASKPOLL" /\ ~Exit
        BY <2>2 DEF PollTimeout, Exit, Running
      <3>2. booted /\ Harmless(table)
        BY <1>1, <1>6, <3>1 DEF BootInv, RunInv
      <3>3. \A k \in 1 .. Len(table) : Keeps(table[k], Protected)
        BY <1>1, <3>1, <3>2, CurrentFormed DEF Harmless, Instr
      <3> QED
        BY <3>2, <3>3 DEF BootInv, UpInv
    <2> QED
      BY <2>1, <2>2
  <1>7. UpInv'
    BY <1>1, <1>4, <1>5, <1>6 DEF UpInv
  <1> QED
    BY <1>1, <1>2, <1>7

\* A table ends, or the run does.
LEMMA FinishPreserves ==
  ASSUME BootInv, Exit \/ PollTimeout \/ Corrupt
  PROVE  BootInv'
  <1>1. /\ func # "none" /\ UNCHANGED <<si_ver, reg, slcr, waiting, timer, ignored>>
        /\ waiting = FALSE
    BY DEF Exit, PollTimeout, Corrupt, Running, BootInv, TypeOK
  <1>2. i' \in 0 .. PS7_MASK_POLL_TIME
    BY Ps7Assumption DEF Exit, PollTimeout, Corrupt, BootInv, TypeOK
  <1>3. /\ RunInv' /\ UpInv' /\ (func' # "none" => ptr' \in 1 .. Len(table'))
        /\ func' \in {"none", "ps7_init", "ps7_post_config", "ps7_debug", "ps7_config"}
        /\ ret' \in {0, 1, 2}
    <2>1. CASE Exit /\ todo # << >>
      <3>1. func' = func /\ ret' = ret
        BY <2>1 DEF Exit, Finish, PS7_INIT_SUCCESS
      <3> QED
        BY <2>1, <3>1, NextTableRuns DEF BootInv, TypeOK, PS7_INIT_SUCCESS,
           PS7_INIT_TIMEOUT, PS7_INIT_CORRUPT
    <2>2. CASE ~(Exit /\ todo # << >>)
      BY <2>2, ReturnRuns
    <2> QED
      BY <2>1, <2>2
  <1>4. booted' \in BOOLEAN
    BY DEF Exit, PollTimeout, Corrupt, Finish, BootInv
  <1>5. TypeOK'
    BY <1>1, <1>2, <1>3 DEF BootInv, TypeOK, PS7_INIT_SUCCESS, PS7_INIT_TIMEOUT,
                            PS7_INIT_CORRUPT
  <1>6. FabricReleasedLast'
    <2>1. booted => booted'
      BY <1>1 DEF BootInv, RunInv, Exit, PollTimeout, Corrupt, Finish
    <2> QED
      BY <1>1, <2>1 DEF BootInv, FabricReleasedLast
  <1> QED
    BY <1>1, <1>3, <1>4, <1>5, <1>6 DEF BootInv, SiliconInv, DelayInv, ResetOnlyBypassed,
                                        NoWriteIgnored

\* The boot loader starts a function.
LEMMA StartPreserves ==
  ASSUME BootInv, CallInit \/ CallPostConfig \/ CallDebug \/ CallConfig
  PROVE  BootInv'
  <1>1. /\ func = "none" /\ ptr' = 1
        /\ UNCHANGED <<si_ver, reg, slcr, i, waiting, timer, ret, booted, ignored, elapsed>>
    BY DEF CallInit, CallPostConfig, CallDebug, CallConfig, Start, history
  <1>2. InitTables' = InitTables
    BY <1>1 DEF InitTables
  <1>3. /\ WellFormed(table') /\ Pending'
        /\ IF func' = "ps7_init" THEN InitTodo' /\ ~booted'
           ELSE todo' = << >> /\ booted' /\ Harmless(table')
        /\ func' \in {"ps7_init", "ps7_post_config", "ps7_debug", "ps7_config"}
    <2>1. CASE CallInit
      <3>1. func' = "ps7_init" /\ table' = Head(InitTables) /\ todo' = Tail(InitTables)
             /\ ~booted
        BY <2>1 DEF CallInit, Start
      <3>2. Len(InitTables) = 5 /\ InitTables \in Seq({InitTables[s] : s \in 1 .. 5})
        BY InitContracts
      <3>3. /\ table' = InitTables[1] /\ Len(todo') = 4
            /\ todo' \in Seq({InitTables[s] : s \in 1 .. 5})
            /\ \A q \in 1 .. 4 : todo'[q] = InitTables[1 + q]
        <4> DEFINE T == InitTables
                   S == {InitTables[s] : s \in 1 .. 5}
        <4>1. Len(T) = 5 /\ T \in Seq(S) /\ table' = Head(T) /\ todo' = Tail(T)
          BY <3>1, <3>2
        <4> HIDE DEF T, S
        <4>2. /\ table' = T[1] /\ Len(todo') = 4 /\ todo' \in Seq(S)
              /\ \A q \in 1 .. 4 : todo'[q] = T[1 + q]
          <5>1. T # << >>
            BY <4>1
          <5>2. table' = T[1] /\ Len(todo') = 4 /\ todo' \in Seq(S)
            BY <4>1, <5>1
          <5>3. ASSUME NEW q \in 1 .. 4
                PROVE  todo'[q] = T[1 + q]
            BY <4>1, <5>1, TailElements
          <5> QED
            BY <5>2, <5>3
        <4> QED
          BY <4>2 DEF T, S
      <3>4. InitTodo'
        BY <1>2, <3>3 DEF InitTodo
      <3>5. WellFormed(table') /\ Sound(table', Achieved(5), Achieved(4))
        BY <3>3, InitContracts
      <3>6. \A f : f \notin Achieved(5)
        BY DEF Achieved
      <3>7. Promise' = Achieved(4)
        BY <3>1, <3>3 DEF Promise, Achieved
      <3>8. Pending'
        BY <1>1, <3>5, <3>6, <3>7, TableStarts
      <3> QED
        BY <1>1, <3>1, <3>4, <3>5, <3>8
    <2>2. CASE CallPostConfig \/ CallDebug \/ CallConfig
      <3>1. PICK t : /\ table' = t /\ todo' = << >> /\ booted
                     /\ func' \in {"ps7_post_config", "ps7_debug", "ps7_config"}
                     /\ t \in CallerTables \cup {PostConfigTable, DebugTable}
        BY <2>2 DEF CallPostConfig, CallDebug, CallConfig, Start, PostConfigTables, DebugTables,
                    ps7_post_config_1_0, ps7_post_config_2_0, ps7_post_config_3_0,
                    ps7_debug_1_0, ps7_debug_2_0, ps7_debug_3_0
      <3>2. WellFormed(t) /\ Harmless(t) /\ Sound(t, Up \cup {Booted}, Up)
        BY <3>1, PostConfigProper, DebugProper, CallerProper
      <3>3. Promise' = Up
        BY <3>1 DEF Promise, Up, Achieved
      <3>4. \A f \in Up \cup {Booted} : Holds(f)
        <4>1. \A f \in Up : Holds(f)
          BY <1>1, <3>1 DEF BootInv, UpInv
        <4>2. Holds(Booted)
          BY <3>1 DEF Holds, Booted
        <4> QED
          BY <4>1, <4>2
      <3>5. Pending'
        BY <1>1, <3>1, <3>2, <3>3, <3>4, SamePinsHold, TableStarts
      <3> QED
        BY <1>1, <3>1, <3>2, <3>5
    <2> QED
      BY <2>1, <2>2
  <1>4. ptr' \in 1 .. Len(table')
    BY <1>1, <1>3 DEF WellFormed
  <1>5. RunInv'
    BY <1>3, <1>4 DEF RunInv
  <1>6. UpInv'
    <2>1. booted => \A f \in Up \cup {Protected} : Holds(f)
      BY <1>1 DEF BootInv, UpInv
    <2> QED
      BY <1>1, <2>1, SamePinsHold DEF UpInv
  <1>7. TypeOK'
    BY <1>1, <1>3, <1>4 DEF BootInv, TypeOK
  <1>8. waiting = FALSE
    BY <1>1 DEF BootInv, TypeOK, DelayInv
  <1> QED
    BY <1>1, <1>5, <1>6, <1>7, <1>8 DEF BootInv, SiliconInv, DelayInv, ResetOnlyBypassed,
                                        FabricReleasedLast, NoWriteIgnored

-------------------------------------------------------------------------------
(* The theorems. *)

\* The invariant holds at power-on.
LEMMA InitBoots == Init => BootInv
  <1> SUFFICES ASSUME Init PROVE BootInv
    OBVIOUS
  <1>1. PICK locked : reg = [r \in Registers |->
                CASE r = "PLL_STATUS" -> locked
                  [] r = "FPGA_RST_CTRL" -> {"RESET"}
                  [] OTHER -> {}]
    BY DEF Init
  <1>2. /\ \A r \in SlcrRegisters \ {"FPGA_RST_CTRL"} : r \in Registers /\ r # "PLL_STATUS"
        /\ {"FPGA_RST_CTRL", "DCI_STATUS", "mode_sts"} \subseteq Registers
        /\ \A p \in PLLs : PLL_CTRL[p] \in SlcrRegisters \ {"FPGA_RST_CTRL"}
    BY DEF Registers, StatusRegisters, SlcrRegisters, OtherRegisters, PLLs, PLL_CTRL,
           PLL_CFG, CLK_CTRL
  <1>3. /\ \A p \in PLLs : reg[PLL_CTRL[p]] = {}
        /\ reg["FPGA_RST_CTRL"] = {"RESET"} /\ reg["DCI_STATUS"] = {} /\ reg["mode_sts"] = {}
    BY <1>1, <1>2
  <1>4. SiliconInv /\ ResetOnlyBypassed /\ FabricReleasedLast
    BY <1>3 DEF SiliconInv, ResetOnlyBypassed, FabricReleasedLast
  <1>5. TypeOK
    <2>1. DOMAIN reg = Registers
      BY <1>1
    <2>2. i \in 0 .. PS7_MASK_POLL_TIME /\ timer.count \in 0 .. WordMod - 1
      BY Ps7Assumption DEF Init
    <2> QED
      BY <2>1, <2>2 DEF Init, TypeOK
  <1> QED
    BY <1>4, <1>5 DEF Init, BootInv, RunInv, UpInv, DelayInv, NoWriteIgnored

\* Every step preserves the invariant.
LEMMA NextBoots == BootInv /\ [Next]_vars => BootInv'
  <1> SUFFICES ASSUME BootInv, [Next]_vars PROVE BootInv'
    OBVIOUS
  <1>1. CASE Steps
    BY <1>1, StepsRun, StepsType DEF BootInv
  <1>2. CASE PllLocks \/ DciDone \/ DdrOperates
    BY <1>2, SiliconPreserves
  <1>3. CASE PollAgain \/ MaskDelay \/ TimerTick
    BY <1>3, WaitPreserves
  <1>4. CASE Exit \/ PollTimeout \/ Corrupt
    BY <1>4, FinishPreserves
  <1>5. CASE CallInit \/ CallPostConfig \/ CallDebug \/ CallConfig
    BY <1>5, StartPreserves
  <1>6. CASE UNCHANGED vars
    <2>1. UNCHANGED <<si_ver, reg, slcr, func, todo, table, ptr, i, waiting, timer, ret,
                      booted, ignored, elapsed, calls>>
      BY <1>6 DEF vars
    <2>2. RunInv' /\ UpInv'
      BY <2>1, SamePinsHold, StillRuns
    <2> QED
      BY <2>1, <2>2 DEF BootInv, TypeOK, SiliconInv, DelayInv, ResetOnlyBypassed,
                        FabricReleasedLast, NoWriteIgnored, Instr
  <1> QED
    BY <1>1, <1>2, <1>3, <1>4, <1>5, <1>6 DEF Next, Code, Silicon, Quiet, Steps

\* The invariant holds in every run.
LEMMA BootInvariant == Spec => []BootInv
  BY InitBoots, NextBoots, PTL DEF Spec

\* The interpreter stays within its table and its counters within their words,
\* whatever the tables of a caller and however often a poll is not answered
\* (ps7_init.c:11907-11970).
THEOREM TypeCorrect == Spec => []TypeOK
  <1>1. BootInv => TypeOK
    BY DEF BootInv
  <1> QED
    BY <1>1, BootInvariant, PTL

\* No pll is in reset while its clock is in use, in the first run and in one
\* after a run that was cut short (ps7_init.c:60-105, 11942).
THEOREM ResetBypassed == Spec => []ResetOnlyBypassed
  <1>1. BootInv => ResetOnlyBypassed
    BY DEF BootInv
  <1> QED
    BY <1>1, BootInvariant, PTL

\* The fabric leaves reset only on a booted system, its level shifters on
\* (ps7_init.c:3749-3831, 11982-11998).
THEOREM FabricLast == Spec => []FabricReleasedLast
  <1>1. BootInv => FabricReleasedLast
    BY DEF BootInv
  <1> QED
    BY <1>1, BootInvariant, PTL

\* No write of any table falls on protected registers (ps7_init.c:11932-11943).
THEOREM WritesTaken == Spec => []NoWriteIgnored
  <1>1. BootInv => NoWriteIgnored
    BY DEF BootInv
  <1> QED
    BY <1>1, BootInvariant, PTL

\* Success means that every part is up, and it stays up under every later call
\* (ps7_init.c:12055-12077).
THEOREM SuccessMeansUp == Spec => []BootedMeansUp
  <1>1. BootInv => BootedMeansUp
    <2> SUFFICES ASSUME BootInv, booted PROVE BootedMeansUp
      BY DEF BootedMeansUp
    <2>1. /\ \A f \in Up \ {Protected} : Holds(f)
          /\ func = "none" => slcr = "locked"
      BY DEF BootInv, UpInv, Holds, Protected
    <2>2. ASSUME NEW p \in PLLs
          PROVE  LOCK[p] \in reg["PLL_STATUS"] /\ "BYPASS" \notin reg[PLL_CTRL[p]]
      <3>1. {<<"locked", p>>, <<"inUse", p>>} \subseteq Up \ {Protected}
        BY DEF Up, Achieved, Fact, Protected
      <3>2. Holds(<<"locked", p>>) /\ Holds(<<"inUse", p>>)
        BY <2>1, <3>1
      <3> QED
        BY <3>2 DEF Holds
    <2>3. ASSUME NEW r \in {"PERIPHERAL_CLOCKS", "DDRIOB", "MIO_PINS", "DDRIOB_TERM",
                            "DDRC", "UART", "QSPI", "DEVCFG"}
          PROVE  reg[r] # {}
      <3>1. <<"set", r>> \in Up \ {Protected}
        BY DEF Up, Achieved, Fact, Settings, Protected
      <3>2. Holds(<<"set", r>>)
        BY <2>1, <3>1
      <3> QED
        BY <3>2 DEF Holds
    <2>4. reg["mode_sts"] # {}
      <3>1. Operating \in Up \ {Protected}
        BY DEF Up, Achieved, Fact, Operating, Protected
      <3> QED
        BY <2>1, <3>1 DEF Holds, Operating
    <2> QED
      BY <2>1, <2>2, <2>3, <2>4 DEF BootedMeansUp
  <1> QED
    BY <1>1, BootInvariant, PTL

-------------------------------------------------------------------------------
(* What a step may do. *)

\* Only the steps of a table take a bit from a control register or give one.
LEMMA OthersKeepControls ==
  ASSUME BootInv, [Next]_vars, ~Steps,
         NEW r \in SlcrRegisters \cup OtherRegisters
  PROVE  reg'[r] = reg[r]
  <1>1. r \in Registers /\ r \notin StatusRegisters /\ DOMAIN reg = Registers
    BY DEF BootInv, TypeOK, Registers, StatusRegisters, SlcrRegisters, OtherRegisters, PLLs,
           PLL_CTRL, PLL_CFG, CLK_CTRL
  <1>2. CASE PllLocks \/ DciDone \/ DdrOperates
    BY <1>1, <1>2 DEF PllLocks, DciDone, DdrOperates, StatusRegisters
  <1>3. CASE \/ PollAgain \/ MaskDelay \/ TimerTick \/ Exit \/ PollTimeout \/ Corrupt
             \/ CallInit \/ CallPostConfig \/ CallDebug \/ CallConfig \/ UNCHANGED vars
    BY <1>3 DEF PollAgain, MaskDelay, TimerTick, Exit, PollTimeout, Corrupt, CallInit,
                CallPostConfig, CallDebug, CallConfig, Start, vars
  <1> QED
    BY <1>2, <1>3 DEF Next, Code, Silicon, Quiet, Steps

\* What the write that takes a bit, or gives one, needed is there before it.
LEMMA WritesNeed ==
  ASSUME BootInv, [Next]_vars, NEW r \in SlcrRegisters \cup OtherRegisters, NEW b,
         NEW f \in Fact
  PROVE  /\ (b \in reg[r] /\ b \notin reg'[r] /\ (Clears(Instr, r, b) => Needs(Instr, f)))
              => Holds(f)
         /\ (b \notin reg[r] /\ b \in reg'[r] /\ (Sets(Instr, r, b) => Needs(Instr, f)))
              => Holds(f)
  <1>1. CASE Steps
    <2>1. Effect /\ func # "none"
      BY <1>1, StepsEffect
    <2> QED
      BY <2>1, NeedsHold DEF Effect
  <1>2. CASE ~Steps
    BY <1>2, OthersKeepControls
  <1> QED
    BY <1>1, <1>2

\* A pll comes out of bypass only locked (ps7_init.c:82-99, 11945-11956).
THEOREM BypassEnds == Spec => BypassEndsLocked
  <1>1. ASSUME BootInv, [Next]_vars, NEW p \in PLLs,
               "BYPASS" \in reg[PLL_CTRL[p]], "BYPASS" \notin reg'[PLL_CTRL[p]]
        PROVE  LOCK[p] \in reg["PLL_STATUS"]
    <2>1. PLL_CTRL[p] \in SlcrRegisters /\ <<"locked", p>> \in Fact
      BY DEF SlcrRegisters, Fact
    <2>2. Clears(Instr, PLL_CTRL[p], "BYPASS") => Needs(Instr, <<"locked", p>>)
      BY DEF Needs
    <2> QED
      BY <1>1, <2>1, <2>2, WritesNeed DEF Holds
  <1>2. BootInv /\ [Next]_vars =>
          [\A p \in PLLs :
             ("BYPASS" \in reg[PLL_CTRL[p]] /\ "BYPASS" \notin reg'[PLL_CTRL[p]])
               => LOCK[p] \in reg["PLL_STATUS"]]_vars
    BY <1>1
  <1> QED
    BY <1>2, BootInvariant, PTL DEF Spec, BypassEndsLocked

\* The memory controller leaves reset programmed, calibrated and clocked
\* (ps7_init.c:1549-1582, 12055-12074).
THEOREM DdrReleased == Spec => DdrReleasedReady
  <1>1. ASSUME BootInv, [Next]_vars,
               "SOFT_RSTB" \notin reg["ddrc_ctrl"], "SOFT_RSTB" \in reg'["ddrc_ctrl"]
        PROVE  /\ reg["DDRC"] # {} /\ reg["DDRIOB"] # {}
               /\ "DONE" \in reg["DCI_STATUS"]
               /\ LOCK["DDR"] \in reg["PLL_STATUS"]
               /\ "BYPASS" \notin reg[PLL_CTRL["DDR"]]
    <2> DEFINE Ready == {<<"set", "DDRC">>, <<"set", "DDRIOB">>, Calibrated,
                         <<"locked", "DDR">>, <<"inUse", "DDR">>}
    <2>1. "ddrc_ctrl" \in OtherRegisters
      BY DEF OtherRegisters
    <2>2. Ready \subseteq Fact
      BY DEF Fact, Settings, PLLs
    <2>3. ASSUME NEW f \in Ready
          PROVE  Holds(f)
      <3>1. Sets(Instr, "ddrc_ctrl", "SOFT_RSTB") => Needs(Instr, f)
        BY <2>3 DEF Needs
      <3> QED
        BY <1>1, <2>1, <2>2, <3>1, WritesNeed
    <2>4. /\ Holds(<<"set", "DDRC">>) /\ Holds(<<"set", "DDRIOB">>) /\ Holds(Calibrated)
          /\ Holds(<<"locked", "DDR">>) /\ Holds(<<"inUse", "DDR">>)
      BY <2>3
    <2> QED
      BY <2>4 DEF Holds, Calibrated
  <1>2. BootInv /\ [Next]_vars =>
          [("SOFT_RSTB" \notin reg["ddrc_ctrl"] /\ "SOFT_RSTB" \in reg'["ddrc_ctrl"])
             => /\ reg["DDRC"] # {} /\ reg["DDRIOB"] # {}
                /\ "DONE" \in reg["DCI_STATUS"]
                /\ LOCK["DDR"] \in reg["PLL_STATUS"]
                /\ "BYPASS" \notin reg[PLL_CTRL["DDR"]]]_vars
    BY <1>1
  <1> QED
    BY <1>2, BootInvariant, PTL DEF Spec, DdrReleasedReady

\* A delay lasts as long as it was asked for (ps7_init.c:11957-11966, 12101-12105).
THEOREM DelaysLast == Spec => DelayLasts
  <1>1. ASSUME BootInv, [Next]_vars, waiting, ~waiting'
        PROVE  elapsed >= (APU_FREQ * Instr.mask) \div 2000
    <2>1. DelayOver
      BY <1>1 DEF Next, Code, Silicon, Quiet, PllLocks, DciDone, DdrOperates, TimerTick, Exit,
                  Clear, Write, MaskWrite, PollHit, PollAgain, PollTimeout, MaskDelay,
                  Corrupt, CallInit, CallPostConfig, CallDebug, CallConfig, Start, Running,
                  software, vars
    <2>2. func # "none" /\ Instr.opcode = "MASKDELAY" /\ elapsed = timer.count
      BY <1>1 DEF BootInv, DelayInv
    <2>3. Instr.mask \in Nat /\ APU_FREQ * Instr.mask < WordMod
      BY <1>1, <2>2, CurrentFormed DEF StepFormed, Instr
    <2> DEFINE product == APU_FREQ * Instr.mask
    <2>4. product \in Nat /\ product < WordMod
      BY <2>3, Ps7Assumption
    <2> HIDE DEF product
    <2>5. timer.count >= (product % WordMod) \div 2000
      BY <2>1 DEF DelayOver, get_number_of_cycles_for_delay, product
    <2>6. product % WordMod = product
      BY <2>4, Ps7Assumption
    <2> QED
      BY <2>2, <2>5, <2>6 DEF product
  <1>2. BootInv /\ [Next]_vars =>
          [waiting /\ ~waiting' => elapsed >= (APU_FREQ * Instr.mask) \div 2000]_vars
    BY <1>1
  <1> QED
    BY <1>2, BootInvariant, PTL DEF Spec, DelayLasts
=================================================================================
