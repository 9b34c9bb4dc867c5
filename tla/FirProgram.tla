----------------------------- MODULE FirProgram -----------------------------
(***************************************************************************)
(* The filter programs of lab 1, from main to the word that ends them:     *)
(* fir in C (fir1.c) or in assembly (fir2.S), between two calls of setStats*)
(* of the run-time library (syscalls.c), which prints through a UART that  *)
(* takes its time, and verify (util.h), whose answer is the exit code.     *)
(* An int has WordMod values and a long LongMod; memory is addressed by    *)
(* int.                                                                    *)
(***************************************************************************)
EXTENDS Integers, Sequences, FiniteSetsExt, SequencesExt

CONSTANTS HalfMod,     \* 2^31
          HexBase,     \* 16, the base of %x
          Sizes,       \* pairs of n and m, the lengths of x and c
          Samples,     \* what x, c and the uninitialised y are filled with
          StartCycles, \* what mcycle and minstret show when main begins
          MaxDigits    \* no number has more of them

WordMod == 2 * HalfMod
LongMod == WordMod * WordMod
Word    == 0 .. WordMod - 1
Signed(a) == IF a >= HalfMod THEN a - WordMod ELSE a

Powers(b) ==
  LET pow[l \in 0 .. MaxDigits] == IF l = 0 THEN 1 ELSE b * pow[l - 1]
  IN  pow

ASSUME FirAssumption ==
  /\ HalfMod \in Nat \ {0} /\ HexBase \in 2 .. 16
  /\ MaxDigits \in Nat \ {0}
  /\ \A b \in {HexBase, 10} : LongMod <= Powers(b)[MaxDigits]
  /\ Sizes \subseteq Nat \X Nat
  /\ \A s \in Sizes : s[2] \in 1 .. s[1] - 1
  /\ Samples \subseteq Word /\ StartCycles \subseteq 0 .. LongMod - 1

VARIABLES
  fir,      \* which of the two filters is linked
  n, m, expected,
  ram,      \* x, then c, then y
  at,       \* where the program is
  loop,     \* the variables of fir: j and i, or the registers of fir2.S
  csr,      \* mcycle and minstret
  counters, counter_names,
  i, ret,     \* the loop variable and the result of main
  out,        \* the characters of the call of printf that are still to come
  thr, sent,  \* the UART: its holding register, and what it has transmitted
  tohost,
  elapsed     \* history: what csr has counted between the reads of setStats

vars == <<fir, n, m, expected, ram, at, loop, csr, counters, counter_names,
          i, ret, out, thr, sent, tohost, elapsed>>
program == <<fir, n, m, expected>>
clocks  == <<csr, elapsed>>
stats   == <<counters, counter_names>>
console == <<i, ret, out, thr, sent, tohost>>

X == 0
C == n
Y == n + m
Outputs == n - m + 1

NoLoop == [j |-> 0, i |-> 0]
Nobody == "null"
CounterName == <<"mcycle", "minstret">>

Init ==
  /\ fir \in {"fir1.c", "fir2.S"}
  /\ \E s \in Sizes : n = s[1] /\ m = s[2]
  /\ ram \in [0 .. n + m + Outputs - 1 -> Samples]
  /\ expected \in [0 .. Outputs - 1 -> Word]
  /\ at = "setStats(1)" /\ loop = NoLoop
  /\ \E start \in StartCycles : csr = <<start, start>>
  /\ elapsed = <<0, 0>>
  /\ counters = <<0, 0>> /\ counter_names = <<Nobody, Nobody>>
  /\ i = 0 /\ ret = 0 /\ out = << >>
  /\ thr = << >> /\ sent = << >> /\ tohost = 0

-----------------------------------------------------------------------------
(* The processor. *)

Clock(d) == csr' = <<(csr[1] + d) % LongMod, (csr[2] + 1) % LongMod>>

\* A step of fir is d cycles, two where it multiplies.
Cycles(d) == Clock(d) /\ elapsed' = <<elapsed[1] + d, elapsed[2] + 1>>

\* The clocks go on while setStats reads them: what they count after the read
\* of a counter in setStats(1) and before its read in setStats(0) is part of
\* what the program measures.
ReadingTakes(r, enable) ==
  /\ Clock(1)
  /\ elapsed' = [k \in 1 .. 2 |-> IF (k <= r) = enable THEN elapsed[k] + 1
                                  ELSE elapsed[k]]

\* Mutant: the counter is kept as it is.
READ_CTRRaw(r, enable) ==
  /\ counters' = [counters EXCEPT ![r] = csr[r]]
  /\ counter_names' = IF enable THEN counter_names
                      ELSE [counter_names EXCEPT ![r] = CounterName[r]]
  /\ ReadingTakes(r, enable)

\* setStats(1) notes a counter, setStats(0) the difference and the name.
READ_CTR(r, enable) ==
  /\ counters' = [counters EXCEPT ![r] = IF enable THEN csr[r]
                                         ELSE (csr[r] - @) % LongMod]
  /\ counter_names' = IF enable THEN counter_names
                      ELSE [counter_names EXCEPT ![r] = CounterName[r]]
  /\ ReadingTakes(r, enable)

-----------------------------------------------------------------------------
(* fir of fir1.c. *)

mul_q31(a, b) == ((Signed(a) * Signed(b)) \div HalfMod) % WordMod

\* Mutant: the sum keeps its carry.
add_q31Wide(a, b) == a + b
add_q31(a, b) == (a + b) % WordMod

\* for (j = 0; j < n-m+1; j++) y[j] = 0 ...
CNextOutput ==
  /\ fir = "fir1.c" /\ at = "forj"
  /\ IF loop.j < Outputs
     THEN /\ ram' = [ram EXCEPT ![Y + loop.j] = 0]
          /\ loop' = [loop EXCEPT !.i = 0] /\ at' = "fori"
     ELSE /\ at' = "setStats(0)" /\ UNCHANGED <<ram, loop>>
  /\ Cycles(1) /\ UNCHANGED <<program, stats, console>>

\* for (i = 0; i < m; i++) y[j] = add_q31(y[j], mul_q31(c[i], x[j-i+(m-1)]))
CProduct ==
  /\ fir = "fir1.c" /\ at = "fori"
  /\ IF loop.i < m
     THEN /\ ram' = [ram EXCEPT ![Y + loop.j] =
                       add_q31(@, mul_q31(ram[C + loop.i],
                                          ram[X + loop.j - loop.i + (m - 1)]))]
          /\ loop' = [loop EXCEPT !.i = @ + 1] /\ UNCHANGED at
     ELSE /\ loop' = [loop EXCEPT !.j = @ + 1] /\ at' = "forj" /\ UNCHANGED ram
  /\ Cycles(2) /\ UNCHANGED <<program, stats, console>>

-----------------------------------------------------------------------------
(* fir of fir2.S: registers of 64 bits, pointers instead of indices. *)

\* forj, with the test of fori: a1 is c and stays there.
AsmNextOutput ==
  /\ fir = "fir2.S" /\ at = "forj"
  /\ IF loop.a2 >= loop.t0
     THEN at' = "setStats(0)" /\ UNCHANGED loop
     ELSE /\ loop' = [loop EXCEPT !.t3 = 0, !.t4 = loop.a1, !.t5 = loop.t2]
          /\ at' = IF loop.a1 >= loop.t1 THEN "forj" ELSE "fori"
  /\ Cycles(1) /\ UNCHANGED <<program, ram, stats, console>>

\* lw, lw, mul, srli 31, add.
Sum == (loop.t3 + ((Signed(ram[loop.t4]) * Signed(ram[loop.t5])) % LongMod) \div HalfMod)
         % LongMod

\* Mutants: the last product is left out; no pointer moves.
AsmProductShort ==
  /\ fir = "fir2.S" /\ at = "fori"
  /\ IF loop.t4 + 2 < loop.t1
     THEN /\ loop' = [loop EXCEPT !.t3 = Sum, !.t4 = @ + 1, !.t5 = @ - 1]
          /\ UNCHANGED <<at, ram>>
     ELSE /\ ram' = [ram EXCEPT ![loop.a2] = Sum % WordMod]
          /\ loop' = [loop EXCEPT !.t3 = Sum, !.t4 = @ + 1, !.t5 = @ - 1,
                                  !.a2 = @ + 1, !.t2 = @ + 1]
          /\ at' = "forj"
  /\ Cycles(2) /\ UNCHANGED <<program, stats, console>>
AsmProductStuck ==
  /\ fir = "fir2.S" /\ at = "fori"
  /\ IF loop.t4 + 1 < loop.t1
     THEN UNCHANGED <<loop, at, ram>>
     ELSE /\ ram' = [ram EXCEPT ![loop.a2] = Sum % WordMod]
          /\ loop' = [loop EXCEPT !.a2 = @ + 1, !.t2 = @ + 1] /\ at' = "forj"
  /\ UNCHANGED <<clocks, program, stats, console>>

\* One product; blt goes on with the next one, or falls into the store.
AsmProduct ==
  /\ fir = "fir2.S" /\ at = "fori"
  /\ IF loop.t4 + 1 < loop.t1
     THEN /\ loop' = [loop EXCEPT !.t3 = Sum, !.t4 = @ + 1, !.t5 = @ - 1]
          /\ UNCHANGED <<at, ram>>
     ELSE /\ ram' = [ram EXCEPT ![loop.a2] = Sum % WordMod]
          /\ loop' = [loop EXCEPT !.t3 = Sum, !.t4 = @ + 1, !.t5 = @ - 1,
                                  !.a2 = @ + 1, !.t2 = @ + 1]
          /\ at' = "forj"
  /\ Cycles(2) /\ UNCHANGED <<program, stats, console>>

-----------------------------------------------------------------------------
(* main *)

\* Mutant: the loop over the outputs runs once too often.
EndOfYFar == Y + Outputs + 1
EndOfY    == Y + Outputs

\* setStats(1) reads mcycle, then minstret; main calls fir.
StatsOn ==
  /\ at = "setStats(1)"
  /\ READ_CTR(1, TRUE) /\ at' = "minstret(1)"
  /\ UNCHANGED <<program, ram, loop, console>>

CallFir ==
  /\ at = "minstret(1)"
  /\ READ_CTR(2, TRUE)
  /\ loop' = IF fir = "fir1.c" THEN NoLoop
             ELSE [a1 |-> C, a2 |-> Y, t0 |-> EndOfY, t1 |-> C + m,
                   t2 |-> X + m - 1, t3 |-> 0, t4 |-> C, t5 |-> X]
  /\ at' = "forj"
  /\ UNCHANGED <<program, ram, console>>

\* fir returns, and setStats(0) does the same.  Nothing looks at the clocks
\* after that, so they are left alone.
FirReturns ==
  /\ at = "setStats(0)"
  /\ READ_CTR(1, FALSE) /\ at' = "minstret(0)" /\ loop' = NoLoop
  /\ UNCHANGED <<program, ram, console>>

StatsOff ==
  /\ at = "minstret(0)"
  /\ READ_CTR(2, FALSE) /\ at' = "print"
  /\ UNCHANGED <<program, ram, loop, console>>

Digit == <<"0", "1", "2", "3", "4", "5", "6", "7", "8", "9",
           "a", "b", "c", "d", "e", "f">>

\* Mutant: the loop ends when nothing is left, so zero has no digits.
printnumZero(num, base) ==
  LET digs[v \in 0 .. num] ==
        IF v = 0 THEN << >> ELSE Append(digs[v \div base], Digit[(v % base) + 1])
  IN  digs[num]

\* The digits of num; none of the programs asks for a width.
printnum(num, base) ==
  LET digs[v \in 0 .. num] ==
        IF v < base THEN <<Digit[v + 1]>>
        ELSE Append(digs[v \div base], Digit[(v % base) + 1])
  IN  digs[num]

\* vprintfmt, %d and %x: both take an int, whatever was passed.
FormatD(arg) ==
  LET num == Signed(arg % WordMod)
  IN  IF num < 0 THEN <<"-">> \o printnum(-num, 10) ELSE printnum(num, 10)
FormatX(arg) == printnum(arg % WordMod, HexBase)

\* printf("y[%d] = %x\n", i, y[i])
PrintResult ==
  /\ at = "print" /\ out = << >>
  /\ IF i < Outputs
     THEN /\ out' = <<"y[">> \o FormatD(i) \o <<"] = ">> \o FormatX(ram[Y + i])
                      \o <<"\n">>
          /\ i' = i + 1 /\ UNCHANGED at
     ELSE at' = "verify" /\ UNCHANGED <<i, out>>
  /\ UNCHANGED <<program, ram, loop, clocks, stats, ret, thr, sent, tohost>>

\* Mutant: an odd word at the end is not looked at.
verifyPairs(words, test, ref) ==
  LET pairs == words \div 2
      from[k \in 0 .. pairs] ==
        IF k = pairs THEN 0
        ELSE IF test[2 * k] # ref[2 * k] THEN 2 * k + 1
        ELSE IF test[2 * k + 1] # ref[2 * k + 1] THEN 2 * k + 2
        ELSE from[k + 1]
  IN  from[0]

\* verify: two words at a time, an odd one at the end.
verify(words, test, ref) ==
  LET pairs == words \div 2
      from[k \in 0 .. pairs] ==
        IF k = pairs
        THEN IF words % 2 # 0 /\ test[words - 1] # ref[words - 1] THEN words ELSE 0
        ELSE IF test[2 * k] # ref[2 * k] THEN 2 * k + 1
        ELSE IF test[2 * k + 1] # ref[2 * k + 1] THEN 2 * k + 2
        ELSE from[k + 1]
  IN  from[0]

\* return verify(16, y, expected), of 17 outputs.
Verify ==
  /\ at = "verify"
  /\ ret' = verify(Outputs - 1, [p \in 0 .. Outputs - 1 |-> ram[Y + p]], expected)
  /\ at' = "_init"
  /\ UNCHANGED <<program, ram, loop, clocks, stats, i, out, thr, sent, tohost>>

-----------------------------------------------------------------------------
(* The run-time library, after main. *)

\* _init prints the counters that are not zero.
PrintCounters ==
  LET Line(r) == IF counters[r] = 0 THEN << >>
                 ELSE <<counter_names[r], " = ">> \o FormatD(counters[r]) \o <<"\n">>
  IN  /\ at = "_init"
      /\ out' = Line(1) \o Line(2)
      /\ at' = "exit"
      /\ UNCHANGED <<program, ram, loop, clocks, stats, i, ret, thr, sent, tohost>>

\* exit, tohost_exit: while (1).
Exit ==
  /\ at = "exit" /\ out = << >>
  /\ tohost' = 2 * ret + 1
  /\ at' = "halt"
  /\ UNCHANGED <<program, ram, loop, clocks, stats, i, ret, out, thr, sent>>

\* uartSend: while the holding register is full, the program waits.
UartSend ==
  /\ out # << >> /\ thr = << >>
  /\ thr' = <<Head(out)>> /\ out' = Tail(out)
  /\ UNCHANGED <<program, ram, at, loop, clocks, stats, i, ret, sent, tohost>>

\* The UART transmits what its holding register has.
Transmit ==
  /\ thr # << >>
  /\ sent' = sent \o thr /\ thr' = << >>
  /\ UNCHANGED <<program, ram, at, loop, clocks, stats, i, ret, out, tohost>>

Halted == at = "halt" /\ thr = << >> /\ UNCHANGED vars

Program ==
  \/ StatsOn \/ CallFir \/ CNextOutput \/ CProduct \/ AsmNextOutput \/ AsmProduct
  \/ FirReturns \/ StatsOff \/ PrintResult \/ Verify \/ PrintCounters \/ Exit
  \/ UartSend

Next == Program \/ Transmit \/ Halted

\* The processor and the UART do not stop.
Fairness == WF_vars(Program) /\ WF_vars(Transmit)
Spec == Init /\ [][Next]_vars /\ Fairness

-----------------------------------------------------------------------------
(* Properties. *)

TypeOK ==
  /\ DOMAIN ram = 0 .. n + m + Outputs - 1
  /\ \A a \in DOMAIN ram : ram[a] \in Word
  /\ i \in 0 .. Outputs /\ ret \in 0 .. Outputs - 1
  /\ counters \in Seq(0 .. LongMod - 1) /\ Len(thr) \in 0 .. 1

\* The convolution of x and c in fixed point, of which every product is
\* rounded down, modulo the width of an int.
Product(a, b) == (Signed(a) * Signed(b)) \div HalfMod
Products(j) ==
  [p \in 0 .. m - 1 |-> Product(ram[C + p], ram[X + j + (m - 1) - p])]
Total(f, k) ==
  LET sum[l \in 0 .. k] == IF l = 0 THEN 0 ELSE sum[l - 1] + f[l - 1]
  IN  sum[k]
Convolution(j) == Total(Products(j), m) % WordMod

AfterFir == at \notin {"setStats(1)", "minstret(1)", "forj", "fori"}

\* Both filters compute the same thing: the assembly one, which shifts the
\* 64-bit product logically and cuts the sum off only when it stores it, as
\* the C one, which shifts arithmetically and cuts off at every addition
\* (fir1.c:5-29, fir2.S:88-102).
FilterCorrect ==
  AfterFir => \A j \in 0 .. Outputs - 1 : ram[Y + j] = Convolution(j)

\* The filters read x and c only where they have elements and write y only,
\* one output after the other (fir1.c:26, fir2.S:67-104).
StaysInBounds ==
  at = "fori" =>
    IF fir = "fir1.c"
    THEN /\ loop.j \in 0 .. Outputs - 1
         /\ loop.i < m => loop.j - loop.i + (m - 1) \in 0 .. n - 1
    ELSE /\ loop.t4 \in C .. C + m - 1 /\ loop.t5 \in X .. X + n - 1
         /\ loop.a2 \in Y .. Y + Outputs - 1

\* Each counter shows what passed from its read in setStats(1) to its read in
\* setStats(0), the filter and what setStats itself takes in between, also when
\* it overflows on the way (syscalls.c:78-92).
CountersElapsed ==
  AfterFir /\ at \notin {"setStats(0)", "minstret(0)"} =>
    \A r \in 1 .. 2 : counters[r] = elapsed[r] % LongMod

\* The program ends with the position of the first output that is wrong, or
\* with none if there is none, the last output left aside (util.h:12-26,
\* syscalls.c:94-98).
ExitCodeTells ==
  LET Wrong == {p \in 1 .. Outputs - 1 : ram[Y + p - 1] # expected[p - 1]}
  IN  tohost # 0 => tohost = IF Wrong = {} THEN 1 ELSE 2 * Min(Wrong) + 1

\* The digits of a number, most significant first, without zeros in front.
Numeral(v, b) ==
  LET len == Min({l \in 1 .. MaxDigits : v < Powers(b)[l]})
  IN  [p \in 1 .. len |-> Digit[((v \div Powers(b)[len - p]) % b) + 1]]
ResultLine(j) ==
  <<"y[">> \o Numeral(j, 10) \o <<"] = ">> \o Numeral(ram[Y + j], HexBase) \o <<"\n">>
CounterLine(name, v) == <<name, " = ">> \o Numeral(v, 10) \o <<"\n">>
Transcript ==
  FlattenSeq([j \in 1 .. Outputs |-> ResultLine(j - 1)])
    \o CounterLine("mcycle", elapsed[1]) \o CounterLine("minstret", elapsed[2])

\* What leaves the UART is every result and counter, each character once and
\* in order, however long the UART takes; the last one may still be in it
\* when the program ends, which does not wait for it (syscalls.c:30-36,
\* 156-174, 212-231).
NothingLostInPrint == at = "halt" => sent \o thr = Transcript

\* The program ends, whatever the samples (fir2.S:65-115, syscalls.c:94-98).
Exits == <>(tohost # 0)
=============================================================================
