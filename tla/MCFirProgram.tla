---------------------------- MODULE MCFirProgram ----------------------------
(***************************************************************************)
(* Small instances of the filter programs: ints of six bits, so that every *)
(* product that overflows, rounds or changes sign occurs; the table of     *)
(* expected results is right, or wrong in one place.                       *)
(***************************************************************************)
EXTENDS FirProgram

CONSTANT Garbage  \* what y holds before fir

MCInit ==
  /\ fir \in {"fir1.c", "fir2.S"}
  /\ \E s \in Sizes :
       /\ n = s[1] /\ m = s[2]
       /\ \E in \in [0 .. s[1] + s[2] - 1 -> Samples] :
            ram = [a \in 0 .. 2 * s[1] |-> IF a \in DOMAIN in THEN in[a] ELSE Garbage]
  /\ \E wrong \in 0 .. Outputs :
       expected = [j \in 0 .. Outputs - 1 |->
                     (Convolution(j) + (IF j = wrong THEN 1 ELSE 0)) % WordMod]
  /\ at = "setStats(1)" /\ loop = NoLoop
  /\ \E start \in StartCycles : csr = <<start, start>>
  /\ elapsed = <<0, 0>>
  /\ counters = <<0, 0>> /\ counter_names = <<Nobody, Nobody>>
  /\ i = 0 /\ ret = 0 /\ out = << >>
  /\ thr = << >> /\ sent = << >> /\ tohost = 0

MCSpec == MCInit /\ [][Next]_vars /\ Fairness

\* Three samples and one or two coefficients: an even and an odd number of
\* words for verify.
SmallSizes == {<<3, 1>>, <<3, 2>>}
\* One, the largest, the smallest and a small negative number.
Corners == {1, 31, 32, 61}
\* The counters overflow between the two calls of setStats, or not.
Starts == {0, 4091}
=============================================================================
