------------------------- MODULE FirProgram_proofs -------------------------
(***************************************************************************)
(* What holds of the filter programs for arrays of every length, samples of*)
(* every value, ints of every width and every start of the counters: every *)
(* safety property that the run of this module checks.  Three invariants   *)
(* rest on each other: where the loops stand and what the counters show    *)
(* (FirInv), what is in y (DataInv), and what has been printed (PrintInv). *)
(* The recursive functions, Total, verify, printnum and FlattenSeq, are    *)
(* shown to exist and to be what they should by induction over sets.       *)
(***************************************************************************)
EXTENDS FirProgram, SequenceTheorems, WellFoundedInduction, TLAPS

-----------------------------------------------------------------------------
(* Arithmetic modulo the width of the counters. *)

LEMMA ModUnique ==
  ASSUME NEW w \in Nat \ {0}, NEW a \in 0 .. w - 1, NEW b \in 0 .. w - 1,
         NEW k \in Int, a = b + (w * k)
  PROVE  a = b
  <1>1. CASE k = 0
    BY <1>1
  <1>2. CASE k >= 1
    <2>1. w * k >= w
      BY <1>2
    <2> QED
      BY <2>1
  <1>3. CASE k <= -1
    <2>1. w * k <= -w
      BY <1>3
    <2> QED
      BY <2>1
  <1> QED
    BY <1>1, <1>2, <1>3

LEMMA ModSplit ==
  ASSUME NEW w \in Nat \ {0}, NEW x \in Int
  PROVE  x % w \in 0 .. w - 1 /\ x \div w \in Int /\ x = (w * (x \div w)) + (x % w)
  OBVIOUS

\* Numbers that differ by a multiple of w have the same remainder.
LEMMA ModShift ==
  ASSUME NEW w \in Nat \ {0}, NEW x \in Int, NEW y \in Int, NEW k \in Int,
         x = y + (w * k)
  PROVE  x % w = y % w
  <1> DEFINE p == x \div w
             q == y \div w
             r == x % w
             t == y % w
  <1>1. /\ r \in 0 .. w - 1 /\ p \in Int /\ x = (w * p) + r
        /\ t \in 0 .. w - 1 /\ q \in Int /\ y = (w * q) + t
    BY ModSplit
  <1> HIDE DEF p, q, r, t
  <1>2. q + k - p \in Int
    BY <1>1
  <1>3. w * (q + k - p) = ((w * q) + (w * k)) - (w * p)
    BY <1>1
  <1>4. r = t + (w * (q + k - p))
    BY <1>1, <1>3
  <1>5. r = t
    BY <1>1, <1>2, <1>4, ModUnique
  <1> QED
    BY <1>5 DEF r, t

\* A counter that counts on after it wrapped ...
LEMMA CountOn ==
  ASSUME NEW w \in Nat \ {0}, NEW c \in Int, NEW d \in Int
  PROVE  ((c % w) + d) % w = (c + d) % w
  <1> DEFINE p == c \div w
             r == c % w
  <1>1. r \in 0 .. w - 1 /\ p \in Int /\ c = (w * p) + r
    BY ModSplit
  <1> HIDE DEF p, r
  <1>2. /\ c + d = (r + d) + (w * p)
        /\ c + d \in Int /\ r + d \in Int
    BY <1>1
  <1>3. (c + d) % w = (r + d) % w
    BY <1>1, <1>2, ModShift
  <1> QED
    BY <1>3 DEF r

\* ... still shows the difference.
LEMMA Difference ==
  ASSUME NEW w \in Nat \ {0}, NEW c \in Int, NEW e \in Int
  PROVE  (((c + e) % w) - c) % w = e % w
  <1>0. c + e \in Int /\ -c \in Int
    OBVIOUS
  <1>1. (((c + e) % w) + (-c)) % w = ((c + e) + (-c)) % w
    BY <1>0, CountOn
  <1>2. (c + e) + (-c) = e /\ (c + e) % w \in Int
    BY <1>0, ModSplit
  <1>3. ((c + e) % w) + (-c) = ((c + e) % w) - c
    BY <1>2
  <1> QED
    BY <1>1, <1>2, <1>3

\* Adding up ints loses nothing of the int at the end.
LEMMA ModAdd ==
  ASSUME NEW w \in Nat \ {0}, NEW a \in Int, NEW b \in Int
  PROVE  ((a % w) + (b % w)) % w = (a + b) % w
  <1>1. a % w \in Int /\ b % w \in Int
    BY ModSplit
  <1>2. ((a % w) + (b % w)) % w = (a + (b % w)) % w
    BY <1>1, CountOn
  <1>3. ((b % w) + a) % w = (b + a) % w
    BY CountOn
  <1>4. a + (b % w) = (b % w) + a /\ a + b = b + a
    BY <1>1
  <1> QED
    BY <1>2, <1>3, <1>4

\* The quotient is what leaves a remainder below the divisor ...
LEMMA DivUnique ==
  ASSUME NEW w \in Nat \ {0}, NEW x \in Int, NEW q \in Int, NEW r \in 0 .. w - 1,
         x = (w * q) + r
  PROVE  x \div w = q
  <1> DEFINE p == x \div w
             s == x % w
  <1>1. s \in 0 .. w - 1 /\ p \in Int /\ x = (w * p) + s
    BY ModSplit
  <1> HIDE DEF p, s
  <1>2. q - p \in Int /\ w * (q - p) = (w * q) - (w * p)
    BY <1>1
  <1>3. s = r + (w * (q - p))
    BY <1>1, <1>2
  <1>4. s = r
    BY <1>1, <1>2, <1>3, ModUnique
  <1>5. w * (q - p) = 0
    BY <1>1, <1>2, <1>3, <1>4
  <1>6. CASE q - p >= 1
    <2>1. w * (q - p) >= w
      BY <1>2, <1>6
    <2> QED
      BY <1>5, <2>1
  <1>7. CASE q - p <= -1
    <2>1. w * (q - p) <= -w
      BY <1>2, <1>7
    <2> QED
      BY <1>5, <2>1
  <1> QED
    BY <1>1, <1>6, <1>7 DEF p

\* ... and dividing twice is dividing once, by the product.
LEMMA DivDiv ==
  ASSUME NEW v \in Nat, NEW b \in Nat \ {0}, NEW c \in Nat \ {0}
  PROVE  /\ v \div (b * c) = (v \div b) \div c
         /\ v \div b \in Nat
         /\ v < b * c <=> v \div b < c
  <1> DEFINE q == v \div b
             r == v % b
  <1>1. r \in 0 .. b - 1 /\ q \in Int /\ v = (b * q) + r
    BY ModSplit
  <1> HIDE DEF q, r
  <1>2. q \in Nat
    <2> SUFFICES ASSUME q <= -1 PROVE FALSE
      BY <1>1
    <2>1. b * q <= -b
      BY <1>1
    <2> QED
      BY <1>1, <2>1
  <1> DEFINE s == q \div c
             t == q % c
  <1>3. t \in 0 .. c - 1 /\ s \in Int /\ q = (c * s) + t
    BY <1>2, ModSplit
  <1> HIDE DEF s, t
  <1>4. b * c \in Nat \ {0}
    OBVIOUS
  <1>5. (b * t) + r \in 0 .. (b * c) - 1
    <2>1. b * t <= b * (c - 1) /\ b * t >= 0
      BY <1>3
    <2>2. b * (c - 1) = (b * c) - b
      OBVIOUS
    <2> QED
      BY <1>1, <1>3, <1>4, <2>1, <2>2
  <1>6. v = ((b * c) * s) + ((b * t) + r)
    <2>1. b * q = ((b * c) * s) + (b * t)
      BY <1>3
    <2> QED
      BY <1>1, <1>3, <2>1
  <1>7. v \div (b * c) = s
    <2> DEFINE u == (b * t) + r
               bc == b * c
    <2>1. u \in 0 .. bc - 1 /\ bc \in Nat \ {0} /\ v = (bc * s) + u
      BY <1>4, <1>5, <1>6
    <2> HIDE DEF u, bc
    <2>2. v \div bc = s
      BY <1>3, <2>1, DivUnique
    <2> QED
      BY <2>2 DEF bc
  <1>8. v < b * c <=> q < c
    <2>1. ASSUME q < c PROVE v < b * c
      <3>1. b * q <= b * (c - 1) /\ b * (c - 1) = (b * c) - b
        BY <1>2, <2>1
      <3> QED
        BY <1>1, <1>4, <3>1
    <2>2. ASSUME q >= c PROVE v >= b * c
      <3>1. b * q >= b * c
        BY <1>2, <2>2
      <3> QED
        BY <1>1, <1>2, <1>4, <3>1
    <2> QED
      BY <1>2, <2>1, <2>2
  <1> QED
    BY <1>2, <1>7, <1>8 DEF q, s

-----------------------------------------------------------------------------
(* Induction over a set of numbers instead of a predicate, from the theorem  *)
(* of the library that the order of the numbers is well founded.             *)

\* Among numbers there is a least one.
LEMMA Least ==
  ASSUME NEW S, S \subseteq Nat, S # {}
  PROVE  \E k \in S : \A l \in S : k <= l
  <1> DEFINE R == OpToRel(<, Nat)
  <1>1. IsWellFoundedOn(R, Nat)
    BY NatLessThanWellFounded
  <1>2. \A x, y \in Nat : x < y => <<x, y>> \in R
    BY DEF OpToRel
  <1> HIDE DEF R
  <1>3. PICK k \in S : \A l \in S : ~(<<l, k>> \in R)
    BY <1>1, WFMin
  <1>4. ASSUME NEW l \in S PROVE k <= l
    <2>1. ~(<<l, k>> \in R) /\ l \in Nat /\ k \in Nat
      BY <1>3, <1>4
    <2>2. ~(l < k)
      BY <1>2, <2>1, Zenon
    <2> QED
      BY <2>1, <2>2
  <1> QED
    BY <1>4

\* What holds at zero, and at k + 1 if at k, holds everywhere.
LEMMA SetInduction ==
  ASSUME NEW S, 0 \in S, \A k \in Nat : k \in S => k + 1 \in S
  PROVE  Nat \subseteq S
  <1> DEFINE U == Nat \ S
  <1> SUFFICES ASSUME U # {} PROVE FALSE
    OBVIOUS
  <1>1. U \subseteq Nat
    OBVIOUS
  <1>2. PICK k \in U : \A l \in U : k <= l
    <2> HIDE DEF U
    <2> QED
      BY <1>1, Least
  <1>3. k # 0
    OBVIOUS
  <1>4. k - 1 \in Nat /\ k - 1 \in S
    BY <1>2, <1>3
  <1>5. (k - 1) + 1 \in S
    BY <1>4
  <1> QED
    BY <1>2, <1>5

-----------------------------------------------------------------------------
(* Sums. *)

\* g is the function that Total computes.
IsSum(g, f, k) ==
  g = [l \in 0 .. k |-> IF l = 0 THEN 0 ELSE g[l - 1] + f[l - 1]]

LEMMA SumUnique ==
  ASSUME NEW f, NEW k \in Nat, NEW h \in 0 .. k, NEW a, NEW b,
         IsSum(a, f, k), IsSum(b, f, h)
  PROVE  a[h] = b[h]
  <1> DEFINE S == {l \in Nat : l <= h => a[l] = b[l]}
  <1>1. 0 \in S
    BY DEF IsSum
  <1>2. ASSUME NEW l \in Nat, l \in S PROVE l + 1 \in S
    <2> SUFFICES ASSUME l + 1 <= h PROVE a[l + 1] = b[l + 1]
      OBVIOUS
    <2>1. a[l] = b[l]
      BY <1>2
    <2>2. l + 1 \in 0 .. k /\ l + 1 \in 0 .. h /\ l + 1 # 0 /\ (l + 1) - 1 = l
      OBVIOUS
    <2>3. a[l + 1] = a[l] + f[l]
      BY <2>2 DEF IsSum
    <2>4. b[l + 1] = b[l] + f[l]
      BY <2>2 DEF IsSum
    <2> QED
      BY <2>1, <2>3, <2>4
  <1> HIDE DEF S
  <1>3. Nat \subseteq S
    BY <1>1, <1>2, SetInduction
  <1> QED
    BY <1>3 DEF S

LEMMA SumExists ==
  ASSUME NEW K \in Nat, NEW f \in [0 .. K - 1 -> Int], NEW k \in 0 .. K
  PROVE  \E g \in [0 .. k -> Int] : IsSum(g, f, k)
  <1> DEFINE S == {l \in Nat : l <= K => \E g \in [0 .. l -> Int] : IsSum(g, f, l)}
  <1>1. 0 \in S
    <2> DEFINE g == [l \in 0 .. 0 |-> 0]
    <2>1. g \in [0 .. 0 -> Int] /\ IsSum(g, f, 0)
      BY DEF IsSum
    <2> QED
      BY <2>1
  <1>2. ASSUME NEW l \in Nat, l \in S PROVE l + 1 \in S
    <2> SUFFICES ASSUME l + 1 <= K
                 PROVE  \E g \in [0 .. l + 1 -> Int] : IsSum(g, f, l + 1)
      OBVIOUS
    <2>1. PICK g \in [0 .. l -> Int] : IsSum(g, f, l)
      BY <1>2
    <2> DEFINE h == [q \in 0 .. l + 1 |-> IF q = l + 1 THEN g[l] + f[l] ELSE g[q]]
    <2>2. h \in [0 .. l + 1 -> Int]
      OBVIOUS
    <2>3. ASSUME NEW q \in 0 .. l + 1
          PROVE  h[q] = IF q = 0 THEN 0 ELSE h[q - 1] + f[q - 1]
      <3>1. CASE q = l + 1
        BY <3>1
      <3>2. CASE q # l + 1
        <4>1. q \in 0 .. l
          BY <3>2
        <4>2. g[q] = IF q = 0 THEN 0 ELSE g[q - 1] + f[q - 1]
          BY <2>1, <4>1 DEF IsSum
        <4>3. q # 0 => h[q - 1] = g[q - 1]
          BY <4>1
        <4> QED
          BY <3>2, <4>1, <4>2, <4>3
      <3> QED
        BY <3>1, <3>2
    <2>4. IsSum(h, f, l + 1)
      BY <2>3 DEF IsSum
    <2> QED
      BY <2>2, <2>4
  <1> HIDE DEF S
  <1>3. Nat \subseteq S
    BY <1>1, <1>2, SetInduction
  <1>4. k \in S
    BY <1>3
  <1> QED
    BY <1>4 DEF S

\* What Total returns.
LEMMA TotalStep ==
  ASSUME NEW K \in Nat, NEW f \in [0 .. K - 1 -> Int], NEW k \in 0 .. K
  PROVE  /\ Total(f, k) \in Int
         /\ Total(f, 0) = 0
         /\ k < K => Total(f, k + 1) = Total(f, k) + f[k]
  <1> DEFINE sum(l) == CHOOSE g : IsSum(g, f, l)
  <1>1. \A l : Total(f, l) = sum(l)[l]
    BY DEF Total, IsSum
  <1>2. ASSUME NEW l \in 0 .. K
        PROVE  IsSum(sum(l), f, l) /\ sum(l)[l] \in Int
    <2>1. PICK g \in [0 .. l -> Int] : IsSum(g, f, l)
      BY SumExists
    <2>2. IsSum(sum(l), f, l)
      BY <2>1
    <2> HIDE DEF sum
    <2>3. sum(l)[l] = g[l]
      BY <2>1, <2>2, SumUnique
    <2> QED
      BY <2>1, <2>2, <2>3
  <1> HIDE DEF sum
  <1>3. sum(0)[0] = 0
    BY <1>2 DEF IsSum
  <1>4. ASSUME k < K PROVE sum(k + 1)[k + 1] = sum(k)[k] + f[k]
    <2>1. IsSum(sum(k + 1), f, k + 1) /\ IsSum(sum(k), f, k)
      BY <1>2, <1>4
    <2>2. sum(k + 1)[k] = sum(k)[k]
      BY <2>1, SumUnique
    <2>3. sum(k + 1)[k + 1] = sum(k + 1)[k] + f[k]
      BY <2>1 DEF IsSum
    <2> QED
      BY <2>2, <2>3
  <1> QED
    BY <1>1, <1>2, <1>3, <1>4
-----------------------------------------------------------------------------
(* The inductive invariant. *)

\* Until both counters have been read for the second time.
Early == {"setStats(1)", "minstret(1)", "forj", "fori", "setStats(0)", "minstret(0)"}

SizesInv ==
  /\ fir \in {"fir1.c", "fir2.S"}
  /\ n \in Nat /\ m \in Nat /\ m \in 1 .. n - 1

\* Where the two filters stand: indices of the C one; pointers of the
\* assembly one, of which t5 moves back from t2 as t4 moves on from c.
CLoop ==
  /\ DOMAIN loop = {"j", "i"}
  /\ loop.j \in 0 .. Outputs /\ loop.i \in 0 .. m
  /\ at = "fori" => loop.j < Outputs

AsmLoop ==
  /\ DOMAIN loop = {"a1", "a2", "t0", "t1", "t2", "t3", "t4", "t5"}
  /\ loop.a1 = C /\ loop.t0 = Y + Outputs /\ loop.t1 = C + m
  /\ loop.a2 \in Y .. Y + Outputs
  /\ loop.t2 = X + m - 1 + (loop.a2 - Y)
  /\ at = "fori" => /\ loop.a2 < loop.t0
                    /\ loop.t4 \in C .. C + m - 1
                    /\ loop.t5 = loop.t2 - (loop.t4 - C)

LoopInv == at \in {"forj", "fori"} => IF fir = "fir1.c" THEN CLoop ELSE AsmLoop

\* A counter before its read in setStats(1), until its read in setStats(0), and
\* after that.
Unread(r) ==
  \/ at = "setStats(1)"
  \/ at = "minstret(1)" /\ r = 2
Measuring(r) ==
  \/ at = "minstret(1)" /\ r = 1
  \/ at \in {"forj", "fori", "setStats(0)"}
  \/ at = "minstret(0)" /\ r = 2

CounterInv ==
  /\ DOMAIN counters = 1 .. 2
  /\ \A r \in 1 .. 2 :
       /\ csr[r] \in Int /\ counters[r] \in Int /\ elapsed[r] \in Int
       /\ Unread(r) => elapsed[r] = 0 /\ csr[r] = csr[r] % LongMod
       /\ Measuring(r) => csr[r] = (counters[r] + elapsed[r]) % LongMod
       /\ ~Unread(r) /\ ~Measuring(r) => counters[r] = elapsed[r] % LongMod

FirInv == SizesInv /\ LoopInv /\ CounterInv

LEMMA LongModNat == LongMod \in Nat \ {0}
  <1>1. WordMod \in Nat \ {0}
    BY FirAssumption DEF WordMod
  <1> QED
    BY <1>1 DEF LongMod

LEMMA InitInv == Init => FirInv
  <1> SUFFICES ASSUME Init PROVE FirInv
    OBVIOUS
  <1>1. SizesInv
    BY FirAssumption DEF Init, SizesInv
  <1>2. LoopInv
    BY DEF Init, LoopInv
  <1>3. CounterInv
    <2>1. PICK start \in 0 .. LongMod - 1 : csr = <<start, start>>
      BY FirAssumption DEF Init
    <2>2. start % LongMod = start
      BY <2>1, LongModNat
    <2> QED
      BY <2>1, <2>2, LongModNat DEF Init, CounterInv, Unread, Measuring
  <1> QED
    BY <1>1, <1>2, <1>3 DEF FirInv

\* While the counter is measuring, it counts what passes ...
LEMMA StillMeasures ==
  ASSUME NEW r, NEW k \in Nat,
         csr[r] \in Int, counters[r] \in Int, elapsed[r] \in Int,
         csr[r] = (counters[r] + elapsed[r]) % LongMod,
         csr'[r] = (csr[r] + k) % LongMod, elapsed'[r] = elapsed[r] + k,
         counters'[r] = counters[r]
  PROVE  csr'[r] = (counters'[r] + elapsed'[r]) % LongMod
  <1> DEFINE before == counters[r] + elapsed[r]
  <1>1. before \in Int /\ k \in Int
    OBVIOUS
  <1>2. csr'[r] = ((before % LongMod) + k) % LongMod
    OBVIOUS
  <1> DEFINE total == counters'[r] + elapsed'[r]
  <1>3. total = before + k
    OBVIOUS
  <1> HIDE DEF before, total
  <1>4. ((before % LongMod) + k) % LongMod = (before + k) % LongMod
    BY <1>1, CountOn, LongModNat
  <1>5. csr'[r] = total % LongMod
    BY <1>2, <1>3, <1>4
  <1> QED
    BY <1>5 DEF total

\* ... and each of them goes on with the clock.
LEMMA ClockTicks ==
  ASSUME CounterInv, NEW d \in Nat, Clock(d), NEW r \in 1 .. 2
  PROVE  /\ csr'[r] = (csr[r] + (IF r = 1 THEN d ELSE 1)) % LongMod
         /\ csr'[r] \in Int /\ csr'[r] = csr'[r] % LongMod
  <1> DEFINE k == IF r = 1 THEN d ELSE 1
             x == csr[r] + k
  <1>1. csr'[r] = x % LongMod /\ x \in Int
    BY DEF Clock, CounterInv
  <1> HIDE DEF x
  <1>2. x % LongMod \in 0 .. LongMod - 1
    BY <1>1, ModSplit, LongModNat
  <1> DEFINE y == x % LongMod
  <1>3. y \in 0 .. LongMod - 1
    BY <1>2
  <1> HIDE DEF y
  <1>4. y % LongMod = y
    BY <1>3, LongModNat
  <1> QED
    BY <1>1, <1>3, <1>4 DEF x, y

\* A step inside the filter counts on both counters alike.
LEMMA CyclesCount ==
  ASSUME CounterInv, NEW d \in Nat, Cycles(d), UNCHANGED counters,
         at \in {"forj", "fori"}, at' \in {"forj", "fori", "setStats(0)"}
  PROVE  CounterInv'
  <1>1. ASSUME NEW r \in 1 .. 2
        PROVE  /\ csr'[r] \in Int /\ counters'[r] \in Int /\ elapsed'[r] \in Int
               /\ csr'[r] = (counters'[r] + elapsed'[r]) % LongMod
    <2>1. /\ csr[r] \in Int /\ counters[r] \in Int /\ elapsed[r] \in Int
          /\ csr[r] = (counters[r] + elapsed[r]) % LongMod
      BY DEF CounterInv, Measuring
    <2> DEFINE k == IF r = 1 THEN d ELSE 1
    <2>2. k \in Nat /\ elapsed'[r] = elapsed[r] + k
      BY DEF Cycles
    <2>3. csr'[r] = (csr[r] + k) % LongMod /\ csr'[r] \in Int
      BY ClockTicks DEF Cycles
    <2> HIDE DEF k
    <2>4. csr'[r] = (counters'[r] + elapsed'[r]) % LongMod
      BY <2>1, <2>2, <2>3, StillMeasures
    <2> QED
      BY <2>1, <2>2, <2>3, <2>4
  <1>2. \A r \in 1 .. 2 : ~Unread(r)' /\ Measuring(r)'
    BY DEF Unread, Measuring
  <1> QED
    BY <1>1, <1>2 DEF CounterInv

\* A counter that setStats(1) reads starts to measure; the other one does what
\* it did.
LEMMA ReadOn ==
  ASSUME CounterInv, NEW q \in 1 .. 2, READ_CTR(q, TRUE), NEW r \in 1 .. 2
  PROVE  /\ DOMAIN counters' = 1 .. 2
         /\ csr'[r] \in Int /\ counters'[r] \in Int /\ elapsed'[r] \in Int
         /\ csr'[r] = csr'[r] % LongMod
         /\ r > q => elapsed'[r] = elapsed[r]
         /\ r = q /\ Unread(r) => csr'[r] = (counters'[r] + elapsed'[r]) % LongMod
         /\ r < q /\ Measuring(r) => csr'[r] = (counters'[r] + elapsed'[r]) % LongMod
  <1>1. /\ csr[r] \in Int /\ counters[r] \in Int /\ elapsed[r] \in Int
        /\ Unread(r) => elapsed[r] = 0
        /\ Measuring(r) => csr[r] = (counters[r] + elapsed[r]) % LongMod
    BY DEF CounterInv
  <1>2. /\ csr'[r] = (csr[r] + 1) % LongMod
        /\ csr'[r] \in Int /\ csr'[r] = csr'[r] % LongMod
    <2>1. Clock(1) /\ 1 \in Nat
      BY DEF READ_CTR, ReadingTakes
    <2> QED
      BY <2>1, ClockTicks
  <1>3. elapsed'[r] = IF r <= q THEN elapsed[r] + 1 ELSE elapsed[r]
    BY DEF READ_CTR, ReadingTakes
  <1>4. /\ DOMAIN counters' = 1 .. 2
        /\ r # q => counters'[r] = counters[r]
        /\ r = q => counters'[r] = csr[r]
    BY DEF READ_CTR, CounterInv
  <1>5. ASSUME r < q, Measuring(r)
        PROVE  csr'[r] = (counters'[r] + elapsed'[r]) % LongMod
    <2>1. 1 \in Nat /\ counters'[r] = counters[r] /\ elapsed'[r] = elapsed[r] + 1
      BY <1>3, <1>4, <1>5
    <2> QED
      BY <1>1, <1>2, <1>5, <2>1, StillMeasures
  <1>6. ASSUME r = q, Unread(r)
        PROVE  csr'[r] = (counters'[r] + elapsed'[r]) % LongMod
    <2>1. counters'[r] = csr[r] /\ elapsed'[r] = 1
      BY <1>1, <1>3, <1>4, <1>6
    <2> QED
      BY <1>2, <2>1
  <1> QED
    BY <1>1, <1>2, <1>3, <1>4, <1>5, <1>6

\* A counter that setStats(0) reads shows what it has measured, as it did
\* before; the one that is still to be read goes on.
LEMMA ReadOff ==
  ASSUME CounterInv, NEW q \in 1 .. 2, READ_CTR(q, FALSE), NEW r \in 1 .. 2
  PROVE  /\ DOMAIN counters' = 1 .. 2
         /\ csr'[r] \in Int /\ counters'[r] \in Int /\ elapsed'[r] \in Int
         /\ r > q /\ Measuring(r) => csr'[r] = (counters'[r] + elapsed'[r]) % LongMod
         /\ r = q /\ Measuring(r) => counters'[r] = elapsed'[r] % LongMod
         /\ r < q /\ ~Unread(r) /\ ~Measuring(r) => counters'[r] = elapsed'[r] % LongMod
  <1>1. /\ csr[r] \in Int /\ counters[r] \in Int /\ elapsed[r] \in Int
        /\ Measuring(r) => csr[r] = (counters[r] + elapsed[r]) % LongMod
        /\ ~Unread(r) /\ ~Measuring(r) => counters[r] = elapsed[r] % LongMod
    BY DEF CounterInv
  <1>2. csr'[r] = (csr[r] + 1) % LongMod /\ csr'[r] \in Int
    <2>1. Clock(1) /\ 1 \in Nat
      BY DEF READ_CTR, ReadingTakes
    <2> QED
      BY <2>1, ClockTicks
  <1>3. elapsed'[r] = IF r <= q THEN elapsed[r] ELSE elapsed[r] + 1
    BY DEF READ_CTR, ReadingTakes
  <1>4. /\ DOMAIN counters' = 1 .. 2
        /\ r # q => counters'[r] = counters[r]
        /\ r = q => counters'[r] = (csr[r] - counters[r]) % LongMod
    BY DEF READ_CTR, CounterInv
  <1>5. (csr[r] - counters[r]) % LongMod \in Int
    <2> DEFINE x == csr[r] - counters[r]
    <2>1. x \in Int
      BY <1>1
    <2> HIDE DEF x
    <2>2. x % LongMod \in Int
      BY <2>1, ModSplit, LongModNat
    <2> QED
      BY <2>2 DEF x
  <1>6. ASSUME r > q, Measuring(r)
        PROVE  csr'[r] = (counters'[r] + elapsed'[r]) % LongMod
    <2>1. 1 \in Nat /\ counters'[r] = counters[r] /\ elapsed'[r] = elapsed[r] + 1
      BY <1>3, <1>4, <1>6
    <2> QED
      BY <1>1, <1>2, <1>6, <2>1, StillMeasures
  <1>7. ASSUME r = q, Measuring(r) PROVE counters'[r] = elapsed'[r] % LongMod
    <2>1. counters'[r] = (((counters[r] + elapsed[r]) % LongMod) - counters[r]) % LongMod
      BY <1>1, <1>4, <1>7
    <2>2. counters'[r] = elapsed[r] % LongMod
      BY <1>1, <2>1, Difference, LongModNat
    <2>3. elapsed'[r] = elapsed[r]
      BY <1>3, <1>7
    <2> QED
      BY <2>2, <2>3
  <1>8. ASSUME r < q, ~Unread(r), ~Measuring(r) PROVE counters'[r] = elapsed'[r] % LongMod
    BY <1>1, <1>3, <1>4, <1>8
  <1> QED
    BY <1>1, <1>2, <1>3, <1>4, <1>5, <1>6, <1>7, <1>8

LEMMA NextInv == FirInv /\ [Next]_vars => FirInv'
  <1> SUFFICES ASSUME FirInv, [Next]_vars PROVE FirInv'
    OBVIOUS
  <1> USE DEF FirInv
  <1>a. SizesInv'
    <2>1. UNCHANGED program
      BY DEF Next, Program, StatsOn, StatsOff, CallFir, CNextOutput, CProduct, AsmNextOutput,
             AsmProduct, FirReturns, PrintResult, Verify, PrintCounters, Exit,
             UartSend, Transmit, Halted, vars, program
    <2> QED
      BY <2>1 DEF SizesInv, program
  <1>1. CASE CallFir
    <2>1. LoopInv'
      BY <1>1, <1>a DEF CallFir, LoopInv, SizesInv, AsmLoop, CLoop, NoLoop, program,
                     X, C, Y, Outputs, EndOfY
    <2>2. CounterInv'
      <3>1. /\ at = "minstret(1)" /\ at' = "forj"
            /\ READ_CTR(2, TRUE)
        BY <1>1, Zenon DEF CallFir
      <3>0. 2 \in 1 .. 2
        OBVIOUS
      <3>2. ASSUME NEW r \in 1 .. 2
            PROVE  /\ DOMAIN counters' = 1 .. 2
                   /\ csr'[r] \in Int /\ counters'[r] \in Int /\ elapsed'[r] \in Int
                   /\ csr'[r] = (counters'[r] + elapsed'[r]) % LongMod
        <4>1. (r < 2 /\ Measuring(r)) \/ (r = 2 /\ Unread(r))
          BY <3>1 DEF Measuring, Unread
        <4> QED
          BY <3>0, <3>1, <4>1, ReadOn
      <3>3. \A r \in 1 .. 2 : ~Unread(r)' /\ Measuring(r)'
        BY <3>1 DEF Unread, Measuring
      <3> QED
        BY <3>2, <3>3 DEF CounterInv
    <2> QED
      BY <1>a, <2>1, <2>2
  <1>0. CASE StatsOn
    <2>1. /\ at = "setStats(1)" /\ at' = "minstret(1)"
          /\ READ_CTR(1, TRUE)
      BY <1>0, Zenon DEF StatsOn
    <2>0. 1 \in 1 .. 2
      OBVIOUS
    <2>2. LoopInv'
      BY <2>1 DEF LoopInv
    <2>3. ASSUME NEW r \in 1 .. 2
          PROVE  /\ DOMAIN counters' = 1 .. 2
                 /\ csr'[r] \in Int /\ counters'[r] \in Int /\ elapsed'[r] \in Int
                 /\ r = 1 => csr'[r] = (counters'[r] + elapsed'[r]) % LongMod
                 /\ r = 2 => elapsed'[r] = 0 /\ csr'[r] = csr'[r] % LongMod
      <3>1. elapsed[r] = 0 /\ Unread(r)
        BY <2>1 DEF CounterInv, Unread
      <3> QED
        BY <2>0, <2>1, <3>1, ReadOn
    <2>4. \A r \in 1 .. 2 : /\ Unread(r)' <=> r = 2
                            /\ Measuring(r)' <=> r = 1
      BY <2>1 DEF Unread, Measuring
    <2>5. CounterInv'
      BY <2>3, <2>4 DEF CounterInv
    <2> QED
      BY <1>a, <2>2, <2>5
  <1>2. CASE CNextOutput
    <2>1. LoopInv'
      BY <1>2 DEF CNextOutput, LoopInv, SizesInv, CLoop, program, Outputs
    <2>2. CounterInv'
      BY <1>2, CyclesCount DEF CNextOutput, stats
    <2> QED
      BY <1>a, <2>1, <2>2
  <1>3. CASE CProduct
    <2>1. LoopInv'
      BY <1>3 DEF CProduct, LoopInv, SizesInv, CLoop, program, Outputs
    <2>2. CounterInv'
      BY <1>3, CyclesCount DEF CProduct, stats
    <2> QED
      BY <1>a, <2>1, <2>2
  <1>4. CASE AsmNextOutput
    <2>1. LoopInv'
      <3>1. AsmLoop /\ fir' = "fir2.S" /\ n' = n /\ m' = m /\ n \in Nat /\ m \in 1 .. n - 1
        BY <1>4 DEF AsmNextOutput, LoopInv, SizesInv, program
      <3>2. CASE loop.a2 >= loop.t0
        BY <1>4, <3>2 DEF AsmNextOutput, LoopInv
      <3>3. CASE ~(loop.a2 >= loop.t0)
        <4>1. /\ DOMAIN loop' = DOMAIN loop
              /\ loop'.a1 = loop.a1 /\ loop'.a2 = loop.a2 /\ loop'.t0 = loop.t0
              /\ loop'.t1 = loop.t1 /\ loop'.t2 = loop.t2
              /\ loop'.t4 = loop.a1 /\ loop'.t5 = loop.t2
          BY <1>4, <3>1, <3>3 DEF AsmNextOutput, AsmLoop
        <4> QED
          BY <3>1, <3>3, <4>1 DEF LoopInv, AsmLoop, X, C, Y, Outputs
      <3> QED
        BY <3>2, <3>3
    <2>2. CounterInv'
      BY <1>4, CyclesCount DEF AsmNextOutput, stats
    <2> QED
      BY <1>a, <2>1, <2>2
  <1>5. CASE AsmProduct
    <2>1. LoopInv'
      <3>1. /\ AsmLoop /\ fir' = "fir2.S" /\ n' = n /\ m' = m
            /\ n \in Nat /\ m \in 1 .. n - 1 /\ at = "fori"
        BY <1>5 DEF AsmProduct, LoopInv, SizesInv, program
      <3>2. CASE loop.t4 + 1 < loop.t1
        <4>1. /\ DOMAIN loop' = DOMAIN loop /\ at' = "fori"
              /\ loop'.a1 = loop.a1 /\ loop'.a2 = loop.a2 /\ loop'.t0 = loop.t0
              /\ loop'.t1 = loop.t1 /\ loop'.t2 = loop.t2
              /\ loop'.t4 = loop.t4 + 1 /\ loop'.t5 = loop.t5 - 1
          BY <1>5, <3>1, <3>2 DEF AsmProduct, AsmLoop
        <4> QED
          BY <3>1, <3>2, <4>1 DEF LoopInv, AsmLoop, X, C, Y, Outputs
      <3>3. CASE ~(loop.t4 + 1 < loop.t1)
        <4>1. /\ DOMAIN loop' = DOMAIN loop /\ at' = "forj"
              /\ loop'.a1 = loop.a1 /\ loop'.a2 = loop.a2 + 1 /\ loop'.t0 = loop.t0
              /\ loop'.t1 = loop.t1 /\ loop'.t2 = loop.t2 + 1
          BY <1>5, <3>1, <3>3 DEF AsmProduct, AsmLoop
        <4> QED
          BY <3>1, <4>1 DEF LoopInv, AsmLoop, X, C, Y, Outputs
      <3> QED
        BY <3>2, <3>3
    <2>2. CounterInv'
      BY <1>5, CyclesCount DEF AsmProduct, stats
    <2> QED
      BY <1>a, <2>1, <2>2
  <1>6. CASE FirReturns
    <2>1. /\ at = "setStats(0)" /\ at' = "minstret(0)"
          /\ READ_CTR(1, FALSE)
      BY <1>6, Zenon DEF FirReturns
    <2>0. 1 \in 1 .. 2
      OBVIOUS
    <2>2. LoopInv'
      BY <2>1 DEF LoopInv
    <2>3. ASSUME NEW r \in 1 .. 2
          PROVE  /\ DOMAIN counters' = 1 .. 2
                 /\ csr'[r] \in Int /\ counters'[r] \in Int /\ elapsed'[r] \in Int
                 /\ r = 1 => counters'[r] = elapsed'[r] % LongMod
                 /\ r = 2 => csr'[r] = (counters'[r] + elapsed'[r]) % LongMod
      <3>1. Measuring(r)
        BY <2>1 DEF Measuring
      <3> QED
        BY <2>0, <2>1, <3>1, ReadOff
    <2>4. \A r \in 1 .. 2 : ~Unread(r)' /\ (Measuring(r)' <=> r = 2)
      BY <2>1 DEF Unread, Measuring
    <2>5. CounterInv'
      BY <2>3, <2>4 DEF CounterInv
    <2> QED
      BY <1>a, <2>2, <2>5
  <1>9. CASE StatsOff
    <2>1. /\ at = "minstret(0)" /\ at' = "print"
          /\ READ_CTR(2, FALSE)
      BY <1>9, Zenon DEF StatsOff
    <2>0. 2 \in 1 .. 2
      OBVIOUS
    <2>2. LoopInv'
      BY <2>1 DEF LoopInv
    <2>3. ASSUME NEW r \in 1 .. 2
          PROVE  /\ DOMAIN counters' = 1 .. 2
                 /\ csr'[r] \in Int /\ counters'[r] \in Int /\ elapsed'[r] \in Int
                 /\ counters'[r] = elapsed'[r] % LongMod
      <3>1. (r < 2 /\ ~Unread(r) /\ ~Measuring(r)) \/ (r = 2 /\ Measuring(r))
        BY <2>1 DEF Unread, Measuring
      <3> QED
        BY <2>0, <2>1, <3>1, ReadOff
    <2>4. \A r \in 1 .. 2 : ~Unread(r)' /\ ~Measuring(r)'
      BY <2>1 DEF Unread, Measuring
    <2>5. CounterInv'
      BY <2>3, <2>4 DEF CounterInv
    <2> QED
      BY <1>a, <2>2, <2>5
  <1>7. CASE \/ PrintResult \/ Verify \/ PrintCounters \/ Exit
    <2>1. /\ at \notin Early /\ at' \notin Early
          /\ UNCHANGED <<clocks, stats>>
      BY <1>7 DEF PrintResult, Verify, PrintCounters, Exit, clocks, stats, Early
    <2>2. \A r : ~Unread(r) /\ ~Measuring(r) /\ ~Unread(r)' /\ ~Measuring(r)'
      BY <2>1 DEF Unread, Measuring, Early
    <2>3. CounterInv'
      BY <2>1, <2>2 DEF CounterInv, clocks, stats
    <2>4. LoopInv'
      BY <2>1 DEF LoopInv, Early
    <2> QED
      BY <1>a, <2>3, <2>4
  <1>8. CASE UartSend \/ Transmit \/ Halted \/ UNCHANGED vars
    <2>1. UNCHANGED <<program, at, loop, clocks, stats>>
      BY <1>8 DEF UartSend, Transmit, Halted, vars, program, clocks, stats
    <2> QED
      BY <1>a, <2>1 DEF LoopInv, CLoop, AsmLoop, CounterInv, Unread, Measuring,
                     program, clocks, stats, X, C, Y, Outputs
  <1> QED
    BY <1>0, <1>1, <1>2, <1>3, <1>4, <1>5, <1>6, <1>7, <1>8, <1>9 DEF Next, Program

LEMMA SpecInv == Spec => []FirInv
  <1> QED
    BY InitInv, NextInv, PTL DEF Spec

-----------------------------------------------------------------------------
(* What the filters have computed. *)

\* The 64-bit product, shifted logically, ends in the same int as the product.
LEMMA ShiftKeepsLow ==
  ASSUME NEW x \in Int
  PROVE  ((x % LongMod) \div HalfMod) % WordMod = (x \div HalfMod) % WordMod
  <1> DEFINE k == x \div LongMod
             r == x % LongMod
             q == r \div HalfMod
             s == r % HalfMod
  <1>0. HalfMod \in Nat \ {0} /\ WordMod \in Nat \ {0} /\ LongMod \in Nat \ {0}
    BY FirAssumption, LongModNat DEF WordMod
  <1>1. r \in 0 .. LongMod - 1 /\ k \in Int /\ x = (LongMod * k) + r
    BY <1>0, ModSplit
  <1>2. s \in 0 .. HalfMod - 1 /\ q \in Int /\ r = (HalfMod * q) + s
    <2>1. r \in Int
      BY <1>0, <1>1
    <2> HIDE DEF r
    <2> QED
      BY <1>0, <2>1, ModSplit
  <1> HIDE DEF k, r, q, s
  <1>3. LongMod * k = HalfMod * (WordMod * (2 * k))
    <2>1. LongMod = (2 * HalfMod) * WordMod
      BY DEF LongMod, WordMod
    <2> QED
      BY <1>0, <1>1, <2>1
  <1>4. WordMod * (2 * k) \in Int
    BY <1>0, <1>1
  <1>5. x = (HalfMod * ((WordMod * (2 * k)) + q)) + s
    <2> DEFINE t == WordMod * (2 * k)
    <2>1. t \in Int /\ LongMod * k = HalfMod * t
      BY <1>3, <1>4
    <2> HIDE DEF t
    <2>2. HalfMod * (t + q) = (HalfMod * t) + (HalfMod * q)
      BY <1>0, <1>2, <2>1
    <2>3. x = (HalfMod * (t + q)) + s
      BY <1>0, <1>1, <1>2, <2>1, <2>2
    <2> QED
      BY <2>3 DEF t
  <1>6. x \div HalfMod = (WordMod * (2 * k)) + q
    <2> DEFINE t == (WordMod * (2 * k)) + q
    <2>1. t \in Int /\ x = (HalfMod * t) + s
      BY <1>2, <1>4, <1>5
    <2> HIDE DEF t
    <2>2. x \div HalfMod = t
      BY <1>0, <1>2, <2>1, DivUnique
    <2> QED
      BY <2>2 DEF t
  <1>7. (x \div HalfMod) % WordMod = q % WordMod
    <2> DEFINE y == x \div HalfMod
    <2>1. y \in Int /\ 2 * k \in Int /\ y = q + (WordMod * (2 * k))
      BY <1>0, <1>1, <1>2, <1>4, <1>6
    <2> HIDE DEF y
    <2>2. y % WordMod = q % WordMod
      BY <1>0, <1>2, <2>1, ModShift
    <2> QED
      BY <2>2 DEF y
  <1> QED
    BY <1>7 DEF r, q

\* A remainder modulo LongMod ends in the same int.
LEMMA LongKeepsLow ==
  ASSUME NEW x \in Int
  PROVE  (x % LongMod) % WordMod = x % WordMod
  <1> DEFINE k == x \div LongMod
             r == x % LongMod
  <1>0. WordMod \in Nat \ {0} /\ LongMod \in Nat \ {0}
    BY FirAssumption, LongModNat DEF WordMod
  <1>1. r \in 0 .. LongMod - 1 /\ k \in Int /\ x = (LongMod * k) + r
    BY <1>0, ModSplit
  <1> HIDE DEF k, r
  <1>2. LongMod * k = WordMod * (WordMod * k) /\ WordMod * k \in Int
    BY <1>0, <1>1 DEF LongMod
  <1>3. x = r + (WordMod * (WordMod * k)) /\ r \in Int
    BY <1>0, <1>1, <1>2
  <1>4. x % WordMod = r % WordMod
    BY <1>0, <1>2, <1>3, ModShift
  <1> QED
    BY <1>4 DEF r

\* The outputs before the q-th one are right.
RightBefore(q) == \A j \in 0 .. q - 1 : ram[Y + j] = Convolution(j)

CData ==
  /\ RightBefore(loop.j)
  /\ at = "fori" =>
       ram[Y + loop.j] = Total(Products(loop.j), loop.i) % WordMod

\* t3 has more bits than an int, of which the last ones are right.
AsmData ==
  /\ RightBefore(loop.a2 - Y)
  /\ at = "fori" =>
       /\ loop.t3 \in Int
       /\ loop.t3 % WordMod =
            Total(Products(loop.a2 - Y), loop.t4 - C) % WordMod

RamInv == ram \in [0 .. n + m + Outputs - 1 -> Word]

DataInv ==
  /\ RamInv
  /\ at \in {"forj", "fori"} => IF fir = "fir1.c" THEN CData ELSE AsmData
  /\ AfterFir => RightBefore(Outputs)

LEMMA WordsNat == /\ HalfMod \in Nat \ {0} /\ WordMod \in Nat \ {0}
                  /\ LongMod \in Nat \ {0}
  BY FirAssumption, LongModNat DEF WordMod

LEMMA ProductInt ==
  ASSUME NEW a \in Word, NEW b \in Word
  PROVE  Product(a, b) \in Int /\ Signed(a) * Signed(b) \in Int
  <1>1. Signed(a) \in Int /\ Signed(b) \in Int
    BY WordsNat DEF Signed, Word
  <1>2. Signed(a) * Signed(b) \in Int
    BY <1>1
  <1> QED
    BY <1>2, ModSplit, WordsNat DEF Product

\* The samples and coefficients of an output.
LEMMA Operands ==
  ASSUME SizesInv, RamInv, NEW j \in 0 .. Outputs - 1, NEW p \in 0 .. m - 1
  PROVE  /\ C + p \in 0 .. Y - 1 /\ X + j + (m - 1) - p \in 0 .. Y - 1
         /\ ram[C + p] \in Word /\ ram[X + j + (m - 1) - p] \in Word
         /\ Products(j)[p] = Product(ram[C + p], ram[X + j + (m - 1) - p])
  <1>1. C + p \in 0 .. Y - 1 /\ X + j + (m - 1) - p \in 0 .. Y - 1
    BY DEF SizesInv, C, X, Y, Outputs
  <1>2. \A a \in 0 .. Y - 1 : ram[a] \in Word
    BY DEF RamInv, SizesInv, Y, Outputs
  <1> QED
    BY <1>1, <1>2 DEF Products

LEMMA ProductsType ==
  ASSUME SizesInv, RamInv, NEW j \in 0 .. Outputs - 1
  PROVE  Products(j) \in [0 .. m - 1 -> Int]
  <1>1. \A p \in 0 .. m - 1 : Products(j)[p] \in Int
    BY Operands, ProductInt
  <1> QED
    BY <1>1 DEF Products

\* A store into y leaves the products as they are.
LEMMA ProductsStable ==
  ASSUME SizesInv, RamInv, NEW q \in 0 .. Outputs - 1, NEW v \in Word,
         ram' = [ram EXCEPT ![Y + q] = v], UNCHANGED program
  PROVE  /\ RamInv'
         /\ ram'[Y + q] = v
         /\ \A j \in 0 .. Outputs - 1 :
              /\ Products(j)' = Products(j) /\ Convolution(j)' = Convolution(j)
              /\ j # q => ram'[Y + j] = ram[Y + j]
  <1>1. n' = n /\ m' = m
    BY DEF program
  <1>2. RamInv'
    BY <1>1 DEF RamInv, Outputs, SizesInv, Y
  <1>3. Y + q \in 0 .. n + m + Outputs - 1 /\ Y + q \in Int
    BY DEF SizesInv, Y, Outputs
  <1>4. \A a \in 0 .. n + m + Outputs - 1 : a # Y + q => ram'[a] = ram[a]
    BY DEF RamInv
  <1>5. ASSUME NEW j \in 0 .. Outputs - 1 PROVE Products(j)' = Products(j)
    <2>1. \A p \in 0 .. m - 1 :
            /\ C + p \in 0 .. n + m + Outputs - 1 /\ C + p # Y + q
            /\ X + j + (m - 1) - p \in 0 .. n + m + Outputs - 1
            /\ X + j + (m - 1) - p # Y + q
      BY Operands DEF SizesInv, Y, Outputs
    <2>2. \A p \in 0 .. m - 1 :
            Product(ram'[C + p], ram'[X + j + (m - 1) - p])
              = Product(ram[C + p], ram[X + j + (m - 1) - p])
      BY <1>4, <2>1
    <2> QED
      BY <1>1, <2>2 DEF Products, C, X
  <1>6. \A j \in 0 .. Outputs - 1 : Convolution(j)' = Convolution(j)
    BY <1>1, <1>5 DEF Convolution
  <1>7. \A j \in 0 .. Outputs - 1 : j # q => ram'[Y + j] = ram[Y + j]
    BY <1>4 DEF SizesInv, Y, Outputs
  <1> QED
    BY <1>2, <1>3, <1>5, <1>6, <1>7 DEF RamInv

LEMMA InitData == Init => DataInv
  <1> SUFFICES ASSUME Init PROVE DataInv
    OBVIOUS
  <1>1. RamInv
    BY FirAssumption DEF Init, RamInv
  <1>2. at = "setStats(1)"
    BY DEF Init
  <1> QED
    BY <1>1, <1>2 DEF DataInv, AfterFir

LEMMA NextData == FirInv /\ DataInv /\ [Next]_vars => DataInv'
  <1> SUFFICES ASSUME FirInv, DataInv, [Next]_vars PROVE DataInv'
    OBVIOUS
  <1>0. SizesInv /\ LoopInv /\ RamInv
    BY DEF FirInv, DataInv
  <1>n. n \in Nat /\ m \in 1 .. n - 1 /\ Outputs \in Nat \ {0} /\ Y \in Nat
    BY <1>0 DEF SizesInv, Outputs, Y
  <1>a. UNCHANGED program
    BY DEF Next, Program, StatsOn, StatsOff, CallFir, CNextOutput, CProduct, AsmNextOutput,
           AsmProduct, FirReturns, PrintResult, Verify, PrintCounters, Exit,
           UartSend, Transmit, Halted, vars, program
  <1>b. UNCHANGED ram => /\ RamInv'
                         /\ \A j : Convolution(j)' = Convolution(j)
                         /\ \A j : Products(j)' = Products(j)
                         /\ \A q : RightBefore(q)' <=> RightBefore(q)
    BY <1>0, <1>a DEF RamInv, Outputs, program, Convolution, Products, C, X, Y,
                      RightBefore
  <1>c. Y' = Y /\ C' = C /\ Outputs' = Outputs /\ fir' = fir /\ m' = m
    BY <1>a DEF program, Y, C, Outputs
  \* With no product added yet, zero is right.
  <1>z. \A j \in 0 .. Outputs - 1 : Total(Products(j), 0) % WordMod = 0 % WordMod
    BY <1>0, <1>n, ProductsType, TotalStep
  <1>1. CASE CallFir
    <2>1. at' = "forj" /\ UNCHANGED ram
      BY <1>1 DEF CallFir
    <2>2. CASE fir = "fir1.c"
      <3>1. loop' = NoLoop
        BY <1>1, <2>2 DEF CallFir
      <3>2. \A j \in 0 .. loop'.j - 1 : FALSE
        BY <3>1 DEF NoLoop
      <3> QED
        BY <1>b, <1>c, <2>1, <2>2, <3>2 DEF DataInv, CData, AfterFir, RightBefore
    <2>3. CASE fir # "fir1.c"
      <3>1. loop'.a2 = Y
        BY <1>1, <2>3 DEF CallFir
      <3>2. \A j \in 0 .. (loop'.a2 - Y') - 1 : FALSE
        BY <1>c, <1>n, <3>1
      <3> QED
        BY <1>b, <1>c, <2>1, <2>3, <3>2 DEF DataInv, AsmData, AfterFir, RightBefore
    <2> QED
      BY <2>2, <2>3
  <1>2. CASE CNextOutput
    <2>1. fir = "fir1.c" /\ at = "forj" /\ CData /\ CLoop
      BY <1>0, <1>2 DEF CNextOutput, DataInv, LoopInv
    <2>2. CASE loop.j < Outputs
      <3>1. /\ ram' = [ram EXCEPT ![Y + loop.j] = 0]
            /\ loop' = [loop EXCEPT !.i = 0] /\ at' = "fori"
        BY <1>2, <2>2 DEF CNextOutput
      <3>2. loop.j \in 0 .. Outputs - 1 /\ loop'.j = loop.j /\ loop'.i = 0
        BY <1>n, <2>1, <2>2, <3>1 DEF CLoop
      <3>3. 0 \in Word
        BY WordsNat DEF Word
      <3>4. /\ RamInv' /\ ram'[Y + loop.j] = 0
            /\ \A j \in 0 .. Outputs - 1 :
                 /\ Products(j)' = Products(j) /\ Convolution(j)' = Convolution(j)
                 /\ j # loop.j => ram'[Y + j] = ram[Y + j]
        BY <1>0, <1>a, <3>1, <3>2, <3>3, ProductsStable
      <3>5. RightBefore(loop.j)'
        <4> SUFFICES ASSUME NEW j \in 0 .. loop'.j - 1
                     PROVE  ram'[Y' + j] = Convolution(j)'
          BY DEF RightBefore
        <4>1. j \in 0 .. loop.j - 1 /\ j \in 0 .. Outputs - 1 /\ j # loop.j
          BY <1>n, <3>2
        <4> QED
          BY <1>c, <2>1, <3>4, <4>1 DEF CData, RightBefore
      <3>6. 0 % WordMod = 0
        BY WordsNat
      <3>7. (ram[Y + loop.j] = Total(Products(loop.j), loop.i) % WordMod)'
        BY <1>c, <1>z, <3>2, <3>4, <3>6
      <3> QED
        BY <1>c, <2>1, <3>1, <3>4, <3>5, <3>7 DEF DataInv, CData, AfterFir
    <2>3. CASE ~(loop.j < Outputs)
      <3>1. UNCHANGED <<ram, loop>> /\ at' = "setStats(0)"
        BY <1>2, <2>3 DEF CNextOutput
      <3>2. loop.j = Outputs
        BY <1>n, <2>1, <2>3 DEF CLoop
      <3>3. RightBefore(Outputs)
        BY <2>1, <3>2 DEF CData
      <3> QED
        BY <1>b, <1>c, <3>1, <3>3 DEF DataInv, RightBefore
    <2> QED
      BY <2>2, <2>3
  <1>3. CASE CProduct
    <2>1. /\ fir = "fir1.c" /\ at = "fori" /\ CData /\ CLoop
          /\ loop.j \in 0 .. Outputs - 1 /\ loop.i \in 0 .. m
      BY <1>0, <1>3, <1>n DEF CProduct, DataInv, LoopInv, CLoop
    <2> DEFINE j == loop.j
               k == loop.i
               f == Products(j)
               old == Total(f, k)
    <2>2. f \in [0 .. m - 1 -> Int] /\ old \in Int /\ m \in Nat
      BY <1>0, <1>n, <2>1, ProductsType, TotalStep
    <2>3. ram[Y + j] = old % WordMod
      BY <2>1 DEF CData
    <2>4. CASE loop.i < m
      <3> DEFINE prod == Signed(ram[C + k]) * Signed(ram[X + j - k + (m - 1)])
                 new == add_q31(ram[Y + j], mul_q31(ram[C + k], ram[X + j - k + (m - 1)]))
      <3>1. /\ ram' = [ram EXCEPT ![Y + j] = new]
            /\ loop' = [loop EXCEPT !.i = @ + 1] /\ at' = "fori"
        <4>1. Y + j \in 0 .. n + m + Outputs - 1
          BY <1>n, <2>1 DEF Y, Outputs
        <4> QED
          BY <1>3, <2>1, <2>4, <4>1 DEF CProduct, RamInv
      <3>2. k \in 0 .. m - 1 /\ X + j - k + (m - 1) = X + j + (m - 1) - k
        BY <1>n, <2>1, <2>4 DEF X
      <3>3. f[k] = prod \div HalfMod /\ prod \in Int /\ f[k] \in Int
        BY <1>0, <2>1, <2>2, <3>2, Operands, ProductInt DEF Product
      <3>4. new = ((old % WordMod) + (f[k] % WordMod)) % WordMod
        BY <2>3, <3>3 DEF add_q31, mul_q31
      <3>5. new = (old + f[k]) % WordMod
        <4> HIDE DEF old, f, new
        <4> QED
          BY <2>2, <3>3, <3>4, ModAdd, WordsNat
      <3>6. Total(f, k + 1) = old + f[k]
        <4> HIDE DEF f
        <4> QED
          BY <2>2, <3>2, TotalStep
      <3>7. new \in Word
        <4>1. old + f[k] \in Int
          BY <2>2, <3>3
        <4> HIDE DEF old, f, new
        <4> QED
          BY <3>5, <4>1, ModSplit, WordsNat DEF Word
      <3>8. /\ RamInv' /\ ram'[Y + j] = new
            /\ \A q \in 0 .. Outputs - 1 :
                 /\ Products(q)' = Products(q) /\ Convolution(q)' = Convolution(q)
                 /\ q # j => ram'[Y + q] = ram[Y + q]
        <4> HIDE DEF new
        <4> QED
          BY <1>0, <1>a, <2>1, <3>1, <3>7, ProductsStable
      <3>9. loop'.j = j /\ loop'.i = k + 1
        BY <2>1, <3>1 DEF CLoop
      <3>10. RightBefore(loop.j)'
        <4> SUFFICES ASSUME NEW q \in 0 .. loop'.j - 1
                     PROVE  ram'[Y' + q] = Convolution(q)'
          BY DEF RightBefore
        <4>1. q \in 0 .. j - 1 /\ q \in 0 .. Outputs - 1 /\ q # j
          BY <1>n, <2>1, <3>9
        <4> QED
          BY <1>c, <2>1, <3>8, <4>1 DEF CData, RightBefore
      <3>11. (ram[Y + loop.j] = Total(Products(loop.j), loop.i) % WordMod)'
        BY <1>c, <2>1, <3>5, <3>6, <3>8, <3>9
      <3> QED
        BY <1>c, <2>1, <3>1, <3>8, <3>10, <3>11 DEF DataInv, CData, AfterFir
    <2>5. CASE ~(loop.i < m)
      <3>1. loop' = [loop EXCEPT !.j = @ + 1] /\ at' = "forj" /\ UNCHANGED ram
        BY <1>3, <2>5 DEF CProduct
      <3>2. loop'.j = j + 1 /\ k = m
        BY <1>n, <2>1, <2>5, <3>1 DEF CLoop
      <3>3. ram[Y + j] = Convolution(j)
        BY <2>3, <3>2 DEF Convolution
      <3>4. RightBefore(j + 1)
        <4> SUFFICES ASSUME NEW q \in 0 .. (j + 1) - 1 PROVE ram[Y + q] = Convolution(q)
          BY DEF RightBefore
        <4>1. q \in 0 .. j - 1 \/ q = j
          BY <2>1
        <4> QED
          BY <2>1, <3>3, <4>1 DEF CData, RightBefore
      <3>5. RightBefore(loop.j)'
        BY <1>b, <3>1, <3>2, <3>4
      <3> QED
        BY <1>b, <1>c, <2>1, <3>1, <3>5 DEF DataInv, CData, AfterFir
    <2> QED
      BY <2>4, <2>5

  <1>4. CASE AsmNextOutput
    <2>1. fir = "fir2.S" /\ at = "forj" /\ AsmData /\ AsmLoop /\ UNCHANGED ram
      BY <1>0, <1>4 DEF AsmNextOutput, DataInv, LoopInv
    <2>2. CASE loop.a2 >= loop.t0
      <3>1. UNCHANGED <<ram, loop>> /\ at' = "setStats(0)"
        BY <1>4, <2>1, <2>2 DEF AsmNextOutput
      <3>2. loop.a2 - Y = Outputs
        BY <1>n, <2>1, <2>2 DEF AsmLoop
      <3>3. RightBefore(Outputs)
        BY <2>1, <3>2 DEF AsmData
      <3> QED
        BY <1>b, <1>c, <3>1, <3>3 DEF DataInv, RightBefore
    <2>3. CASE ~(loop.a2 >= loop.t0)
      <3>1. loop' = [loop EXCEPT !.t3 = 0, !.t4 = loop.a1, !.t5 = loop.t2]
        BY <1>4, <2>1, <2>3 DEF AsmNextOutput
      <3>2. /\ loop'.a2 = loop.a2 /\ loop'.t3 = 0 /\ loop'.t4 = C
            /\ C - C = 0
        BY <1>n, <2>1, <3>1 DEF AsmLoop, C
      <3>3. at' \in {"forj", "fori"}
        BY <1>4, <2>1, <2>3 DEF AsmNextOutput
      <3>4. RightBefore(loop.a2 - Y)'
        BY <1>b, <1>c, <2>1, <3>2 DEF AsmData, RightBefore
      <3>5. loop.a2 - Y \in 0 .. Outputs - 1
        BY <1>n, <2>1, <2>3 DEF AsmLoop
      <3>6. (loop.t3 % WordMod = Total(Products(loop.a2 - Y), loop.t4 - C) % WordMod)'
        BY <1>b, <1>c, <1>z, <2>1, <3>2, <3>5
      <3> QED
        BY <1>b, <1>c, <2>1, <3>2, <3>3, <3>4, <3>6 DEF DataInv, AsmData, AfterFir
    <2> QED
      BY <2>2, <2>3
  <1>5. CASE AsmProduct
    <2>1. fir = "fir2.S" /\ at = "fori" /\ AsmData /\ AsmLoop
      BY <1>0, <1>5 DEF AsmProduct, DataInv, LoopInv
    <2> DEFINE j == loop.a2 - Y
               k == loop.t4 - C
               f == Products(j)
               old == Total(f, k)
               prod == Signed(ram[loop.t4]) * Signed(ram[loop.t5])
    <2>2. /\ j \in 0 .. Outputs - 1 /\ k \in 0 .. m - 1 /\ m \in Nat
          /\ loop.t4 = C + k /\ loop.t5 = X + j + (m - 1) - k
          /\ loop.a2 = Y + j
      BY <1>n, <2>1 DEF AsmLoop, C, X
    <2>3. f \in [0 .. m - 1 -> Int] /\ old \in Int
      <3>1. f \in [0 .. m - 1 -> Int]
        BY <1>0, <2>2, ProductsType
      <3> HIDE DEF f
      <3> QED
        BY <2>2, <3>1, TotalStep
    <2>4. f[k] = prod \div HalfMod /\ prod \in Int /\ f[k] \in Int
      BY <1>0, <2>2, <2>3, Operands, ProductInt DEF Product
    <2>5. Total(f, k + 1) = old + f[k]
      <3>1. k \in 0 .. m /\ k < m /\ m \in Nat
        BY <2>2
      <3>2. f \in [0 .. m - 1 -> Int]
        BY <2>3
      <3> HIDE DEF f, k
      <3> QED
        BY <3>1, <3>2, TotalStep
    <2>6. loop.t3 \in Int /\ loop.t3 % WordMod = old % WordMod
      BY <2>1 DEF AsmData
    <2>7. Sum \in Int /\ Sum % WordMod = Total(f, k + 1) % WordMod
      <3> DEFINE high == (prod % LongMod) \div HalfMod
      <3>1. high \in Int /\ high % WordMod = f[k] % WordMod
        <4>1. prod % LongMod \in Int
          <5> HIDE DEF prod
          <5> QED
            BY <2>4, ModSplit, WordsNat
        <4>2. high \in Int
          <5> DEFINE low == prod % LongMod
          <5>1. low \in Int
            BY <4>1
          <5> HIDE DEF low
          <5>2. low \div HalfMod \in Int
            BY <5>1, ModSplit, WordsNat
          <5> QED
            BY <5>2 DEF low
        <4>3. high % WordMod = (prod \div HalfMod) % WordMod
          <5> HIDE DEF prod
          <5> QED
            BY <2>4, ShiftKeepsLow
        <4> QED
          BY <2>4, <4>2, <4>3
      <3>2. Sum = (loop.t3 + high) % LongMod
        BY DEF Sum
      <3> HIDE DEF high, f, old, prod
      <3>3. loop.t3 + high \in Int /\ old + f[k] \in Int
        BY <2>3, <2>4, <2>6, <3>1
      <3>4. Sum \in Int /\ Sum % WordMod = (loop.t3 + high) % WordMod
        <4> DEFINE s == loop.t3 + high
        <4>1. s \in Int /\ Sum = s % LongMod
          BY <3>2, <3>3
        <4> HIDE DEF s
        <4>2. (s % LongMod) % WordMod = s % WordMod
          BY <4>1, LongKeepsLow
        <4>3. s % LongMod \in Int
          BY <4>1, ModSplit, WordsNat
        <4> QED
          BY <4>1, <4>2, <4>3 DEF s
      <3>5. (loop.t3 + high) % WordMod = ((old % WordMod) + (f[k] % WordMod)) % WordMod
        <4>1. ((loop.t3 % WordMod) + (high % WordMod)) % WordMod
                = (loop.t3 + high) % WordMod
          BY <2>6, <3>1, ModAdd, WordsNat
        <4> QED
          BY <2>6, <3>1, <4>1
      <3>6. ((old % WordMod) + (f[k] % WordMod)) % WordMod = (old + f[k]) % WordMod
        BY <2>3, <2>4, ModAdd, WordsNat
      <3> QED
        BY <2>5, <3>4, <3>5, <3>6
    <2> HIDE DEF f, old, prod
    <2>8. CASE loop.t4 + 1 < loop.t1
      <3>1. /\ loop' = [loop EXCEPT !.t3 = Sum, !.t4 = @ + 1, !.t5 = @ - 1]
            /\ UNCHANGED <<at, ram>>
        BY <1>5, <2>8 DEF AsmProduct
      <3>2. loop'.a2 = loop.a2 /\ loop'.t3 = Sum /\ loop'.t4 = loop.t4 + 1
        BY <2>1, <3>1 DEF AsmLoop
      <3>3. loop'.t4 - C' = k + 1 /\ loop'.a2 - Y' = j
        BY <1>c, <1>n, <2>2, <3>2 DEF C
      <3>4. (loop.t3 % WordMod = Total(Products(loop.a2 - Y), loop.t4 - C) % WordMod)'
        BY <1>b, <2>7, <3>1, <3>2, <3>3 DEF f
      <3>5. RightBefore(loop.a2 - Y)'
        BY <1>b, <2>1, <3>1, <3>3 DEF AsmData, RightBefore
      <3> QED
        BY <1>b, <1>c, <2>1, <2>7, <3>1, <3>2, <3>4, <3>5 DEF DataInv, AsmData, AfterFir
    <2>9. CASE ~(loop.t4 + 1 < loop.t1)
      <3> DEFINE new == Sum % WordMod
      <3>1. /\ ram' = [ram EXCEPT ![Y + j] = new]
            /\ loop' = [loop EXCEPT !.t3 = Sum, !.t4 = @ + 1, !.t5 = @ - 1,
                                    !.a2 = @ + 1, !.t2 = @ + 1]
            /\ at' = "forj"
        BY <1>5, <2>2, <2>9 DEF AsmProduct
      <3>2. k + 1 = m
        BY <1>n, <2>1, <2>2, <2>9 DEF AsmLoop, C
      <3>3. new \in Word /\ new = Convolution(j)
        <4>1. new \in Word
          BY <2>7, ModSplit, WordsNat DEF Word
        <4> QED
          BY <2>7, <3>2, <4>1 DEF Convolution, f
      <3> HIDE DEF new
      <3>4. /\ RamInv' /\ ram'[Y + j] = new
            /\ \A q \in 0 .. Outputs - 1 :
                 /\ Products(q)' = Products(q) /\ Convolution(q)' = Convolution(q)
                 /\ q # j => ram'[Y + q] = ram[Y + q]
        BY <1>0, <1>a, <2>2, <3>1, <3>3, ProductsStable
      <3>5. loop'.a2 - Y' = j + 1
        <4>1. loop'.a2 = loop.a2 + 1
          BY <2>1, <3>1 DEF AsmLoop
        <4> QED
          BY <1>c, <1>n, <2>2, <4>1
      <3>6. RightBefore(loop.a2 - Y)'
        <4> SUFFICES ASSUME NEW q \in 0 .. (loop'.a2 - Y') - 1
                     PROVE  ram'[Y' + q] = Convolution(q)'
          BY DEF RightBefore
        <4>1. q \in 0 .. Outputs - 1 /\ (q \in 0 .. j - 1 \/ q = j)
          BY <1>n, <2>2, <3>5
        <4>2. CASE q = j
          BY <1>c, <2>2, <3>3, <3>4, <4>2
        <4>3. CASE q # j
          <5>1. ram[Y + q] = Convolution(q)
            BY <2>1, <4>1, <4>3 DEF AsmData, RightBefore
          <5> QED
            BY <1>c, <3>4, <4>1, <4>3, <5>1
        <4> QED
          BY <4>2, <4>3
      <3> QED
        BY <1>c, <2>1, <3>1, <3>4, <3>6 DEF DataInv, AsmData, AfterFir
    <2> QED
      BY <2>8, <2>9
  <1>6. CASE \/ FirReturns \/ StatsOff \/ PrintResult \/ Verify \/ PrintCounters
             \/ Exit
    <2>1. AfterFir /\ AfterFir' /\ UNCHANGED ram
          /\ at' \notin {"forj", "fori"}
      BY <1>6 DEF FirReturns, StatsOff, PrintResult, Verify, PrintCounters, Exit,
                  AfterFir
    <2> QED
      BY <1>b, <1>c, <2>1 DEF DataInv, RightBefore
  <1>8. CASE StatsOn
    <2>1. at' = "minstret(1)" /\ UNCHANGED ram
      BY <1>8, Zenon DEF StatsOn
    <2> QED
      BY <1>b, <2>1 DEF DataInv, AfterFir
  <1>7. CASE UartSend \/ Transmit \/ Halted \/ UNCHANGED vars
    <2>1. UNCHANGED <<at, ram, loop>>
      BY <1>7 DEF UartSend, Transmit, Halted, vars
    <2> QED
      BY <1>b, <1>c, <2>1 DEF DataInv, CData, AsmData, AfterFir, RightBefore
  <1> QED
    BY <1>1, <1>2, <1>3, <1>4, <1>5, <1>6, <1>7, <1>8 DEF Next, Program

LEMMA SpecData == Spec => []DataInv
  <1>1. FirInv /\ DataInv /\ [Next]_vars => (FirInv /\ DataInv)'
    BY NextInv, NextData
  <1> QED
    BY InitInv, InitData, <1>1, PTL DEF Spec

-----------------------------------------------------------------------------
(* What verify returns. *)

LEMMA MinIs ==
  ASSUME NEW S, S \subseteq Nat, NEW k \in S, \A l \in S : k <= l
  PROVE  Min(S) = k
  <1>1. \A x \in S : (\A y \in S : x =< y) => x = k
    <2> SUFFICES ASSUME NEW x \in S, \A y \in S : x =< y PROVE x = k
      OBVIOUS
    <2>1. x =< k /\ k <= x /\ x \in Nat /\ k \in Nat
      OBVIOUS
    <2> QED
      BY <2>1
  <1> QED
    BY <1>1 DEF Min

\* The positions of words that differ, from the pair k on, counted from one.
Differ(words, test, ref, k) == {p \in 2 * k + 1 .. words : test[p - 1] # ref[p - 1]}
First(S) == IF S = {} THEN 0 ELSE Min(S)

\* g is the function that verify computes.
IsVerify(g, words, test, ref) ==
  g = [k \in 0 .. words \div 2 |->
         IF k = words \div 2
         THEN IF words % 2 # 0 /\ test[words - 1] # ref[words - 1] THEN words ELSE 0
         ELSE IF test[2 * k] # ref[2 * k] THEN 2 * k + 1
         ELSE IF test[2 * k + 1] # ref[2 * k + 1] THEN 2 * k + 2
         ELSE g[k + 1]]

LEMMA VerifyUnique ==
  ASSUME NEW words \in Nat, NEW test, NEW ref, NEW a, NEW b,
         IsVerify(a, words, test, ref), IsVerify(b, words, test, ref)
  PROVE  a[0] = b[0]
  <1> DEFINE pairs == words \div 2
             S == {d \in Nat : d <= pairs => a[pairs - d] = b[pairs - d]}
  <1>0. pairs \in Nat
    OBVIOUS
  <1> HIDE DEF pairs
  <1>1. 0 \in S
    <2>1. pairs - 0 = pairs /\ pairs \in 0 .. pairs
      BY <1>0
    <2>2. a[pairs] = b[pairs]
      BY <2>1 DEF IsVerify, pairs
    <2> QED
      BY <2>1, <2>2
  <1>2. ASSUME NEW d \in Nat, d \in S PROVE d + 1 \in S
    <2> SUFFICES ASSUME d + 1 <= pairs PROVE a[pairs - (d + 1)] = b[pairs - (d + 1)]
      OBVIOUS
    <2> DEFINE k == pairs - (d + 1)
    <2>1. k \in 0 .. pairs /\ k # pairs /\ k + 1 = pairs - d
      BY <1>0
    <2>2. a[k + 1] = b[k + 1]
      BY <1>0, <1>2, <2>1
    <2> HIDE DEF k
    <2>3. a[k] = b[k]
      BY <2>1, <2>2 DEF IsVerify, pairs
    <2> QED
      BY <2>3 DEF k
  <1> HIDE DEF S
  <1>3. pairs \in S
    BY <1>0, <1>1, <1>2, SetInduction
  <1>4. pairs - pairs = 0
    BY <1>0
  <1> QED
    BY <1>0, <1>3, <1>4 DEF S

\* verify answers with the first position where the words differ.
LEMMA VerifyFinds ==
  ASSUME NEW words \in Nat, NEW test, NEW ref
  PROVE  verify(words, test, ref) = First(Differ(words, test, ref, 0))
  <1> DEFINE D(k) == Differ(words, test, ref, k)
             pairs == words \div 2
             g == [k \in 0 .. pairs |-> First(D(k))]
  <1>0. pairs \in Nat /\ (words = 2 * pairs \/ words = 2 * pairs + 1)
        /\ (words % 2 # 0 <=> words = 2 * pairs + 1)
    OBVIOUS
  <1> HIDE DEF pairs
  <1>1. D(pairs) = IF words % 2 # 0 /\ test[words - 1] # ref[words - 1]
                   THEN {words} ELSE {}
    BY <1>0 DEF Differ
  <1>2. First(D(pairs)) = IF words % 2 # 0 /\ test[words - 1] # ref[words - 1]
                          THEN words ELSE 0
    <2>1. Min({words}) = words
      BY MinIs
    <2> QED
      BY <1>1, <2>1 DEF First
  <1>3. ASSUME NEW k \in 0 .. pairs, k # pairs
        PROVE  First(D(k)) = IF test[2 * k] # ref[2 * k] THEN 2 * k + 1
                             ELSE IF test[2 * k + 1] # ref[2 * k + 1] THEN 2 * k + 2
                             ELSE First(D(k + 1))
    <2>1. /\ 2 * k + 2 <= words /\ 2 * k \in Nat /\ (2 * k + 1) - 1 = 2 * k
          /\ (2 * k + 2) - 1 = 2 * k + 1 /\ 2 * (k + 1) + 1 = 2 * k + 3
      BY <1>0, <1>3
    <2>2. D(k) \subseteq Nat /\ \A p \in D(k) : p >= 2 * k + 1
      BY <2>1 DEF Differ
    <2>3. CASE test[2 * k] # ref[2 * k]
      <3>1. 2 * k + 1 \in D(k)
        BY <2>1, <2>3 DEF Differ
      <3>2. Min(D(k)) = 2 * k + 1
        BY <2>1, <2>2, <3>1, MinIs
      <3> QED
        BY <2>3, <3>1, <3>2 DEF First
    <2>4. CASE test[2 * k] = ref[2 * k] /\ test[2 * k + 1] # ref[2 * k + 1]
      <3>1. 2 * k + 2 \in D(k)
        BY <2>1, <2>4 DEF Differ
      <3>2. \A p \in D(k) : p >= 2 * k + 2
        <4> SUFFICES ASSUME NEW p \in D(k), p = 2 * k + 1 PROVE FALSE
          BY <2>1, <2>2
        <4>1. test[p - 1] # ref[p - 1]
          BY DEF Differ
        <4> QED
          BY <2>1, <2>4, <4>1
      <3>3. Min(D(k)) = 2 * k + 2
        BY <2>1, <2>2, <3>1, <3>2, MinIs
      <3> QED
        BY <2>4, <3>1, <3>3 DEF First
    <2>5. CASE test[2 * k] = ref[2 * k] /\ test[2 * k + 1] = ref[2 * k + 1]
      <3>1. D(k) = D(k + 1)
        <4>1. ASSUME NEW p \in D(k) PROVE p \in D(k + 1)
          <5>1. p \in 2 * k + 1 .. words /\ test[p - 1] # ref[p - 1]
            BY <4>1 DEF Differ
          <5>2. p # 2 * k + 1 /\ p # 2 * k + 2
            BY <2>1, <2>5, <5>1
          <5> QED
            BY <2>1, <5>1, <5>2 DEF Differ
        <4>2. ASSUME NEW p \in D(k + 1) PROVE p \in D(k)
          BY <2>1, <4>2 DEF Differ
        <4> QED
          BY <4>1, <4>2
      <3> QED
        BY <2>5, <3>1
    <2> QED
      BY <2>3, <2>4, <2>5
  <1>4. IsVerify(g, words, test, ref)
    <2>1. \A k \in 0 .. pairs : k # pairs => k + 1 \in 0 .. pairs
      BY <1>0
    <2>2. \A k \in 0 .. pairs :
            g[k] = IF k = pairs
                   THEN IF words % 2 # 0 /\ test[words - 1] # ref[words - 1]
                        THEN words ELSE 0
                   ELSE IF test[2 * k] # ref[2 * k] THEN 2 * k + 1
                   ELSE IF test[2 * k + 1] # ref[2 * k + 1] THEN 2 * k + 2
                   ELSE g[k + 1]
      BY <1>2, <1>3, <2>1
    <2> QED
      BY <2>2 DEF IsVerify, pairs
  <1> DEFINE from == CHOOSE h : IsVerify(h, words, test, ref)
  <1>5. verify(words, test, ref) = from[0]
    BY DEF verify, IsVerify
  <1>6. from[0] = g[0]
    <2>1. IsVerify(from, words, test, ref)
      BY <1>4
    <2> HIDE DEF from, g
    <2> QED
      BY <1>4, <2>1, VerifyUnique
  <1>7. g[0] = First(D(0))
    BY <1>0
  <1> QED
    BY <1>5, <1>6, <1>7

-----------------------------------------------------------------------------
(* The exit code, and what the rest of the state can hold. *)

Answer == First({p \in 1 .. Outputs - 1 : ram[Y + p - 1] # expected[p - 1]})

ExitInv ==
  /\ ret = IF at \in {"_init", "exit", "halt"} THEN Answer ELSE 0
  /\ tohost # 0 => at = "halt" /\ tohost = 2 * ret + 1

TypeInv ==
  /\ \E c \in 0 .. LongMod - 1, d \in 0 .. LongMod - 1 : csr = <<c, d>>
  /\ \E c \in 0 .. LongMod - 1, d \in 0 .. LongMod - 1 : counters = <<c, d>>
  /\ i \in 0 .. Outputs
  /\ thr = << >> \/ \E c : thr = <<c>>

LEMMA AnswerType ==
  ASSUME SizesInv PROVE Answer \in 0 .. Outputs - 1
  <1> DEFINE S == {p \in 1 .. Outputs - 1 : ram[Y + p - 1] # expected[p - 1]}
  <1>1. S \subseteq 1 .. Outputs - 1 /\ 1 .. Outputs - 1 \subseteq Nat /\ Outputs \in Nat \ {0}
    BY DEF SizesInv, Outputs
  <1>2. CASE S = {}
    BY <1>1, <1>2 DEF Answer, First
  <1>3. CASE S # {}
    <2> HIDE DEF S
    <2>1. PICK k \in S : \A l \in S : k <= l
      BY <1>1, <1>3, Least
    <2>2. Min(S) = k
      BY <1>1, <2>1, MinIs
    <2> QED
      BY <1>1, <1>3, <2>2 DEF Answer, First, S
  <1> QED
    BY <1>2, <1>3

LEMMA InitExit == Init => ExitInv /\ TypeInv
  <1> SUFFICES ASSUME Init PROVE ExitInv /\ TypeInv
    OBVIOUS
  <1>1. n \in Nat /\ m \in 1 .. n - 1
    BY FirAssumption DEF Init
  <1>2. PICK start \in 0 .. LongMod - 1 : csr = <<start, start>>
    BY FirAssumption DEF Init
  <1>3. ExitInv
    BY DEF Init, ExitInv
  <1>4. counters = <<0, 0>> /\ 0 \in 0 .. LongMod - 1
    BY WordsNat DEF Init
  <1>5. i \in 0 .. Outputs /\ thr = << >>
    BY <1>1 DEF Init, Outputs
  <1> QED
    BY <1>2, <1>3, <1>4, <1>5 DEF TypeInv

LEMMA NextExit == FirInv /\ ExitInv /\ [Next]_vars => ExitInv'
  <1> SUFFICES ASSUME FirInv, ExitInv, [Next]_vars PROVE ExitInv'
    OBVIOUS
  <1>0. SizesInv /\ n \in Nat /\ m \in 1 .. n - 1 /\ Outputs \in Nat \ {0}
    BY DEF FirInv, SizesInv, Outputs
  <1>a. UNCHANGED program
    BY DEF Next, Program, StatsOn, StatsOff, CallFir, CNextOutput, CProduct, AsmNextOutput,
           AsmProduct, FirReturns, PrintResult, Verify, PrintCounters, Exit,
           UartSend, Transmit, Halted, vars, program
  <1>b. UNCHANGED ram => UNCHANGED Answer
    BY <1>a DEF program, Answer, Outputs, Y
  <1>1. CASE CallFir \/ CNextOutput \/ CProduct \/ AsmNextOutput \/ AsmProduct
             \/ FirReturns \/ PrintResult \/ StatsOn \/ StatsOff
    <2>1. /\ at \notin {"_init", "exit", "halt"} /\ at' \notin {"_init", "exit", "halt"}
          /\ UNCHANGED <<ret, tohost>>
      BY <1>1 DEF CallFir, CNextOutput, CProduct, AsmNextOutput, AsmProduct,
                  FirReturns, PrintResult, StatsOn, StatsOff, console
    <2> QED
      BY <2>1 DEF ExitInv
  <1>2. CASE Verify
    <2> DEFINE test == [p \in 0 .. Outputs - 1 |-> ram[Y + p]]
    <2>1. /\ ret' = First(Differ(Outputs - 1, test, expected, 0))
          /\ at = "verify" /\ at' = "_init" /\ UNCHANGED <<ram, tohost>>
      <3>1. Outputs - 1 \in Nat
        BY <1>0
      <3> QED
        BY <1>2, <3>1, VerifyFinds DEF Verify
    <2>2. Differ(Outputs - 1, test, expected, 0)
            = {p \in 1 .. Outputs - 1 : ram[Y + p - 1] # expected[p - 1]}
      <3>1. 2 * 0 + 1 = 1
        OBVIOUS
      <3>2. \A p \in 1 .. Outputs - 1 : test[p - 1] = ram[Y + p - 1]
        <4> SUFFICES ASSUME NEW p \in 1 .. Outputs - 1 PROVE test[p - 1] = ram[Y + p - 1]
          OBVIOUS
        <4>1. p - 1 \in 0 .. Outputs - 1 /\ Y + (p - 1) = Y + p - 1
          BY <1>0 DEF Y
        <4> QED
          BY <4>1
      <3> QED
        BY <3>1, <3>2 DEF Differ
    <2> QED
      BY <1>b, <2>1, <2>2 DEF ExitInv, Answer
  <1>3. CASE PrintCounters
    BY <1>3, <1>b DEF PrintCounters, ExitInv
  <1>4. CASE Exit
    BY <1>4, <1>b DEF Exit, ExitInv
  <1>5. CASE UartSend \/ Transmit \/ Halted \/ UNCHANGED vars
    <2>1. UNCHANGED <<ram, at, ret, tohost>>
      BY <1>5 DEF UartSend, Transmit, Halted, vars
    <2> QED
      BY <1>b, <2>1 DEF ExitInv
  <1> QED
    BY <1>1, <1>2, <1>3, <1>4, <1>5 DEF Next, Program

LEMMA NextType == FirInv /\ TypeInv /\ [Next]_vars => TypeInv'
  <1> SUFFICES ASSUME FirInv, TypeInv, [Next]_vars PROVE TypeInv'
    OBVIOUS
  <1>0. n \in Nat /\ m \in 1 .. n - 1 /\ Outputs \in Nat \ {0}
    BY DEF FirInv, SizesInv, Outputs
  <1>a. Outputs' = Outputs
    BY DEF Next, Program, StatsOn, StatsOff, CallFir, CNextOutput, CProduct, AsmNextOutput,
           AsmProduct, FirReturns, PrintResult, Verify, PrintCounters, Exit,
           UartSend, Transmit, Halted, vars, program, Outputs
  <1>b. PICK c \in 0 .. LongMod - 1, d \in 0 .. LongMod - 1 : csr = <<c, d>>
    BY DEF TypeInv
  <1>c. PICK p \in 0 .. LongMod - 1, q \in 0 .. LongMod - 1 : counters = <<p, q>>
    BY DEF TypeInv
  <1>d. \A x \in Int : x % LongMod \in 0 .. LongMod - 1
    BY ModSplit, WordsNat
  <1>k. ASSUME NEW k \in Nat, Clock(k)
        PROVE  \E x \in 0 .. LongMod - 1, y \in 0 .. LongMod - 1 : csr' = <<x, y>>
    <2>1. csr' = <<(c + k) % LongMod, (d + 1) % LongMod>>
      BY <1>b, <1>k DEF Clock
    <2>2. c + k \in Int /\ d + 1 \in Int
      OBVIOUS
    <2>3. (c + k) % LongMod \in 0 .. LongMod - 1 /\ (d + 1) % LongMod \in 0 .. LongMod - 1
      BY <1>d, <2>2
    <2> QED
      BY <2>1, <2>3
  <1>1. CASE StatsOn \/ CallFir \/ FirReturns \/ StatsOff
    <2>1. PICK r \in 1 .. 2, enable \in BOOLEAN : READ_CTR(r, enable)
      <3>1. 1 \in 1 .. 2 /\ 2 \in 1 .. 2 /\ TRUE \in BOOLEAN /\ FALSE \in BOOLEAN
        OBVIOUS
      <3> QED
        BY <1>1, <3>1, Zenon DEF StatsOn, CallFir, FirReturns, StatsOff
    <2>2. UNCHANGED <<i, thr>>
      BY <1>1 DEF StatsOn, CallFir, FirReturns, StatsOff, console
    <2>3. \E x \in 0 .. LongMod - 1, y \in 0 .. LongMod - 1 : csr' = <<x, y>>
      <3>1. Clock(1) /\ 1 \in Nat
        BY <2>1 DEF READ_CTR, ReadingTakes
      <3> QED
        BY <1>k, <3>1
    <2>4. \E x \in 0 .. LongMod - 1, y \in 0 .. LongMod - 1 : counters' = <<x, y>>
      <3> DEFINE v == IF enable THEN csr[r] ELSE (csr[r] - counters[r]) % LongMod
      <3>1. v \in 0 .. LongMod - 1
        <4>1. csr[r] \in 0 .. LongMod - 1 /\ counters[r] \in 0 .. LongMod - 1
          BY <1>b, <1>c
        <4>2. csr[r] - counters[r] \in Int
          BY <4>1
        <4> QED
          BY <1>d, <4>1, <4>2
      <3>2. counters' = [counters EXCEPT ![r] = v]
        BY <2>1 DEF READ_CTR
      <3> HIDE DEF v
      <3>3. r = 1 => counters' = <<v, q>>
        BY <1>c, <3>2
      <3>4. r = 2 => counters' = <<p, v>>
        BY <1>c, <3>2
      <3> QED
        BY <1>c, <3>1, <3>3, <3>4
    <2> QED
      BY <1>a, <2>2, <2>3, <2>4 DEF TypeInv
  <1>2. CASE CNextOutput \/ CProduct \/ AsmNextOutput \/ AsmProduct
    <2>1. UNCHANGED <<counters, i, thr>> /\ \E k \in Nat : Cycles(k)
      BY <1>2 DEF CNextOutput, CProduct, AsmNextOutput, AsmProduct, stats, console
    <2>2. \E x \in 0 .. LongMod - 1, y \in 0 .. LongMod - 1 : csr' = <<x, y>>
      BY <1>k, <2>1 DEF Cycles
    <2> QED
      BY <1>a, <2>1, <2>2 DEF TypeInv
  <1>4. CASE PrintResult
    <2>1. UNCHANGED <<csr, counters, thr>>
      BY <1>4 DEF PrintResult, clocks, stats
    <2>2. i' \in 0 .. Outputs
      <3>1. (i < Outputs /\ i' = i + 1) \/ i' = i
        BY <1>4 DEF PrintResult
      <3>2. i \in 0 .. Outputs
        BY DEF TypeInv
      <3> QED
        BY <1>0, <3>1, <3>2
    <2> QED
      BY <1>a, <2>1, <2>2 DEF TypeInv
  <1>5. CASE Verify \/ PrintCounters \/ Exit \/ Halted \/ UNCHANGED vars
    <2>1. UNCHANGED <<csr, counters, i, thr>>
      BY <1>5 DEF Verify, PrintCounters, Exit, Halted, vars, clocks, stats
    <2> QED
      BY <1>a, <2>1 DEF TypeInv
  <1>6. CASE UartSend \/ Transmit
    <2>1. UNCHANGED <<csr, counters, i>> /\ (thr' = << >> \/ \E x : thr' = <<x>>)
      BY <1>6 DEF UartSend, Transmit, clocks, stats
    <2> QED
      BY <1>a, <2>1 DEF TypeInv
  <1> QED
    BY <1>1, <1>2, <1>4, <1>5, <1>6 DEF Next, Program

LEMMA SpecExit == Spec => [](ExitInv /\ TypeInv)
  <1>1. FirInv /\ (ExitInv /\ TypeInv) /\ [Next]_vars => (FirInv /\ (ExitInv /\ TypeInv))'
    BY NextInv, NextExit, NextType
  <1> QED
    BY InitInv, InitExit, <1>1, PTL DEF Spec

-----------------------------------------------------------------------------
(* Digits. *)

IsPower(g, b, k) == g = [l \in 0 .. k |-> IF l = 0 THEN 1 ELSE b * g[l - 1]]

LEMMA PowerExists ==
  ASSUME NEW b \in Nat \ {0}, NEW k \in Nat
  PROVE  \E g \in [0 .. k -> Nat \ {0}] : IsPower(g, b, k)
  <1> DEFINE S == {l \in Nat : \E g \in [0 .. l -> Nat \ {0}] : IsPower(g, b, l)}
  <1>1. 0 \in S
    <2> DEFINE g == [l \in 0 .. 0 |-> 1]
    <2>1. g \in [0 .. 0 -> Nat \ {0}] /\ IsPower(g, b, 0)
      BY DEF IsPower
    <2> QED
      BY <2>1
  <1>2. ASSUME NEW l \in Nat, l \in S PROVE l + 1 \in S
    <2>1. PICK g \in [0 .. l -> Nat \ {0}] : IsPower(g, b, l)
      BY <1>2
    <2> DEFINE h == [q \in 0 .. l + 1 |-> IF q = l + 1 THEN b * g[l] ELSE g[q]]
    <2>2. h \in [0 .. l + 1 -> Nat \ {0}]
      <3>1. g[l] \in Nat \ {0}
        OBVIOUS
      <3>2. b * g[l] \in Nat \ {0}
        BY <3>1
      <3> QED
        BY <3>2
    <2>3. ASSUME NEW q \in 0 .. l + 1
          PROVE  h[q] = IF q = 0 THEN 1 ELSE b * h[q - 1]
      <3>1. CASE q = l + 1
        <4>1. q - 1 = l /\ q # 0 /\ l \in 0 .. l + 1 /\ l # l + 1
          BY <3>1
        <4> QED
          BY <3>1, <4>1
      <3>2. CASE q # l + 1
        <4>1. q \in 0 .. l
          BY <3>2
        <4>2. g[q] = IF q = 0 THEN 1 ELSE b * g[q - 1]
          BY <2>1, <4>1 DEF IsPower
        <4>3. q # 0 => h[q - 1] = g[q - 1]
          BY <4>1
        <4> QED
          BY <3>2, <4>1, <4>2, <4>3
      <3> QED
        BY <3>1, <3>2
    <2>4. IsPower(h, b, l + 1)
      BY <2>3 DEF IsPower
    <2> QED
      BY <2>2, <2>4
  <1> HIDE DEF S
  <1>3. k \in S
    BY <1>1, <1>2, SetInduction
  <1> QED
    BY <1>3 DEF S

LEMMA PowersStep ==
  ASSUME NEW b \in Nat \ {0}
  PROVE  /\ Powers(b)[0] = 1
         /\ \A l \in 0 .. MaxDigits : Powers(b)[l] \in Nat \ {0}
         /\ \A l \in 0 .. MaxDigits - 1 : Powers(b)[l + 1] = b * Powers(b)[l]
  <1>0. MaxDigits \in Nat \ {0}
    BY FirAssumption
  <1>1. PICK g \in [0 .. MaxDigits -> Nat \ {0}] : IsPower(g, b, MaxDigits)
    BY <1>0, PowerExists
  <1>2. Powers(b) = CHOOSE h : IsPower(h, b, MaxDigits)
    BY DEF Powers, IsPower
  <1>3. IsPower(Powers(b), b, MaxDigits)
    BY <1>1, <1>2
  <1>4. \A l \in 0 .. MaxDigits :
          Powers(b)[l] = IF l = 0 THEN 1 ELSE b * Powers(b)[l - 1]
    BY <1>3 DEF IsPower
  <1>5. \A l \in 0 .. MaxDigits - 1 :
          l + 1 \in 0 .. MaxDigits /\ l + 1 # 0 /\ (l + 1) - 1 = l
    BY <1>0
  <1>6. \A l \in 0 .. MaxDigits - 1 : Powers(b)[l + 1] = b * Powers(b)[l]
    BY <1>4, <1>5
  <1> DEFINE S == {l \in Nat : l <= MaxDigits => Powers(b)[l] \in Nat \ {0}}
  <1>7. Powers(b)[0] = 1
    BY <1>0, <1>4
  <1>8. 0 \in S
    BY <1>7
  <1>9. ASSUME NEW l \in Nat, l \in S PROVE l + 1 \in S
    <2> SUFFICES ASSUME l + 1 <= MaxDigits PROVE Powers(b)[l + 1] \in Nat \ {0}
      OBVIOUS
    <2> DEFINE p == Powers(b)[l]
    <2>1. p \in Nat \ {0} /\ Powers(b)[l + 1] = b * p
      BY <1>0, <1>6, <1>9
    <2> HIDE DEF p
    <2>2. b * p \in Nat \ {0}
      BY <2>1
    <2> QED
      BY <2>1, <2>2
  <1> HIDE DEF S
  <1>10. Nat \subseteq S
    BY <1>8, <1>9, SetInduction
  <1>11. \A l \in 0 .. MaxDigits : Powers(b)[l] \in Nat \ {0}
    BY <1>0, <1>10 DEF S
  <1> QED
    BY <1>6, <1>7, <1>11

\* A number fits into the digits that Numeral gives it, and into no fewer.
Lengths(v, b) == {l \in 1 .. MaxDigits : v < Powers(b)[l]}

LEMMA LengthIs ==
  ASSUME NEW b \in Nat \ {0}, NEW v \in Nat, v < Powers(b)[MaxDigits]
  PROVE  /\ Min(Lengths(v, b)) \in Lengths(v, b)
         /\ \A l \in Lengths(v, b) : Min(Lengths(v, b)) <= l
  <1>1. MaxDigits \in Lengths(v, b) /\ Lengths(v, b) \subseteq Nat
    BY FirAssumption DEF Lengths
  <1>2. PICK k \in Lengths(v, b) : \A l \in Lengths(v, b) : k <= l
    BY <1>1, Least
  <1>3. Min(Lengths(v, b)) = k
    BY <1>1, <1>2, MinIs
  <1> QED
    BY <1>2, <1>3

\* What a program prints: a string that is not computed counts as one.
Character == {"0", "1", "2", "3", "4", "5", "6", "7", "8", "9", "a", "b", "c", "d",
              "e", "f", "y[", "] = ", "\n", " = ", "mcycle", "minstret"}

LEMMA DigitType == ASSUME NEW d \in 1 .. 16 PROVE Digit[d] \in Character
  <1>1. \/ d = 1 \/ d = 2 \/ d = 3 \/ d = 4 \/ d = 5 \/ d = 6 \/ d = 7 \/ d = 8
        \/ d = 9 \/ d = 10 \/ d = 11 \/ d = 12 \/ d = 13 \/ d = 14 \/ d = 15 \/ d = 16
    OBVIOUS
  <1>2. /\ Digit[1] = "0" /\ Digit[2] = "1" /\ Digit[3] = "2" /\ Digit[4] = "3"
        /\ Digit[5] = "4" /\ Digit[6] = "5" /\ Digit[7] = "6" /\ Digit[8] = "7"
        /\ Digit[9] = "8" /\ Digit[10] = "9" /\ Digit[11] = "a" /\ Digit[12] = "b"
        /\ Digit[13] = "c" /\ Digit[14] = "d" /\ Digit[15] = "e" /\ Digit[16] = "f"
    BY DEF Digit
  <1> QED
    BY <1>1, <1>2 DEF Character

LEMMA NumeralType ==
  ASSUME NEW b \in 2 .. 16, NEW v \in Nat, v < Powers(b)[MaxDigits]
  PROVE  /\ Numeral(v, b) \in Seq(Character)
         /\ Len(Numeral(v, b)) = Min(Lengths(v, b))
         /\ \A p \in 1 .. Min(Lengths(v, b)) :
              Numeral(v, b)[p]
                = Digit[((v \div Powers(b)[Min(Lengths(v, b)) - p]) % b) + 1]
  <1> DEFINE len == Min(Lengths(v, b))
             s == [p \in 1 .. len |-> Digit[((v \div Powers(b)[len - p]) % b) + 1]]
  <1>1. len \in 1 .. MaxDigits /\ MaxDigits \in Nat
    BY LengthIs, FirAssumption DEF Lengths
  <1>2. Numeral(v, b) = s
    BY DEF Numeral, Lengths
  <1>3. b \in Nat \ {0}
    OBVIOUS
  <1>4. ASSUME NEW p \in 1 .. len PROVE s[p] \in Character
    <2> DEFINE w == Powers(b)[len - p]
               q == v \div w
    <2>1. w \in Nat \ {0}
      <3> HIDE DEF len
      <3>1. len - p \in 0 .. MaxDigits
        BY <1>1
      <3> QED
        BY <1>3, <3>1, PowersStep
    <2>2. q \in Int
      <3> HIDE DEF w
      <3> QED
        BY <2>1, ModSplit
    <2>3. q % b \in 0 .. b - 1
      <3> HIDE DEF q
      <3> QED
        BY <1>3, <2>2, ModSplit
    <2>4. (q % b) + 1 \in 1 .. 16
      <3> DEFINE r == q % b
      <3>1. r \in 0 .. b - 1
        BY <2>3
      <3> HIDE DEF r
      <3>2. r + 1 \in 1 .. 16
        BY <3>1
      <3> QED
        BY <3>2 DEF r
    <2>5. Digit[(q % b) + 1] \in Character
      BY <2>4, DigitType
    <2> QED
      BY <2>5
  <1> HIDE DEF len
  <1>5. s \in [1 .. len -> Character] /\ len \in Nat
    BY <1>1, <1>4
  <1> HIDE DEF s
  <1>6. s \in Seq(Character) /\ Len(s) = len
    BY <1>5
  <1> QED
    BY <1>2, <1>6 DEF len, s

\* A number below the base is one digit ...
LEMMA NumeralOne ==
  ASSUME NEW b \in 2 .. 16, NEW v \in 0 .. b - 1
  PROVE  Numeral(v, b) = <<Digit[v + 1]>>
  <1>0. b \in Nat \ {0} /\ MaxDigits \in Nat \ {0} /\ v \in Nat
    BY FirAssumption
  <1>1. Powers(b)[0] = 1 /\ Powers(b)[1] = b
    <2>1. 0 \in 0 .. MaxDigits - 1 /\ 0 + 1 = 1
      BY <1>0
    <2> QED
      BY <1>0, <2>1, PowersStep
  <1>2. 1 \in Lengths(v, b) /\ Lengths(v, b) \subseteq Nat
        /\ \A l \in Lengths(v, b) : 1 <= l
    BY <1>0, <1>1 DEF Lengths
  <1>3. Min(Lengths(v, b)) = 1
    BY <1>2, MinIs
  <1>4. Numeral(v, b) = [p \in 1 .. 1 |-> Digit[((v \div Powers(b)[1 - p]) % b) + 1]]
    BY <1>3 DEF Numeral, Lengths
  <1>5. (v \div 1) % b = v
    BY <1>0
  <1>6. \A p \in 1 .. 1 : p = 1 /\ 1 - p = 0
    OBVIOUS
  <1>7. Numeral(v, b) = [p \in 1 .. 1 |-> Digit[v + 1]]
    BY <1>1, <1>4, <1>5, <1>6
  <1> QED
    BY <1>7

\* ... and any other is its quotient with one more digit.
LEMMA NumeralMore ==
  ASSUME NEW b \in 2 .. 16, NEW v \in Nat, b <= v, v < Powers(b)[MaxDigits]
  PROVE  /\ v \div b \in 0 .. v - 1
         /\ v \div b < Powers(b)[MaxDigits]
         /\ Numeral(v, b) = Append(Numeral(v \div b, b), Digit[(v % b) + 1])
  <1> DEFINE q == v \div b
             r == v % b
             P == Powers(b)
             k == Min(Lengths(v, b))
  <1>0. b \in Nat \ {0} /\ MaxDigits \in Nat \ {0}
    BY FirAssumption
  <1>1. /\ P[0] = 1
        /\ \A l \in 0 .. MaxDigits : P[l] \in Nat \ {0}
        /\ \A l \in 0 .. MaxDigits - 1 : P[l + 1] = b * P[l]
    BY <1>0, PowersStep
  <1>2. r \in 0 .. b - 1 /\ q \in Int /\ v = (b * q) + r
    BY <1>0, ModSplit
  <1>3. q \in 0 .. v - 1
    <2> HIDE DEF q, r
    <2>1. CASE q <= -1
      <3>1. b * q <= -b
        BY <1>0, <1>2, <2>1
      <3> QED
        BY <1>0, <1>2, <3>1
    <2>2. CASE q >= 0
      <3>1. b * q >= 2 * q
        BY <1>0, <1>2, <2>2
      <3>2. CASE q = 0
        BY <1>2, <3>2
      <3>3. CASE q >= 1
        BY <1>2, <3>1, <3>3
      <3> QED
        BY <1>2, <2>2, <3>2, <3>3
    <2> QED
      BY <1>2, <2>1, <2>2
  <1>4. \A l \in 0 .. MaxDigits - 1 : v < P[l + 1] <=> q < P[l]
    <2> SUFFICES ASSUME NEW l \in 0 .. MaxDigits - 1 PROVE v < P[l + 1] <=> q < P[l]
      OBVIOUS
    <2> DEFINE c == P[l]
    <2>1. c \in Nat \ {0} /\ P[l + 1] = b * c
      BY <1>0, <1>1
    <2> HIDE DEF c, P
    <2>2. v < b * c <=> q < c
      BY <1>0, <2>1, DivDiv
    <2> QED
      BY <2>1, <2>2 DEF c
  <1>5. /\ k \in Lengths(v, b) /\ \A l \in Lengths(v, b) : k <= l
    BY <1>0, LengthIs
  <1> HIDE DEF q, r, P, k
  <1>6. k \in 2 .. MaxDigits /\ v < P[k]
    <2>1. k \in 1 .. MaxDigits /\ v < P[k]
      BY <1>5 DEF Lengths, P
    <2>2. P[1] = b
      <3>1. 0 \in 0 .. MaxDigits - 1 /\ 0 + 1 = 1
        BY <1>0
      <3> QED
        BY <1>0, <1>1, <3>1
    <2> QED
      BY <1>0, <2>1, <2>2
  <1>7. k - 1 \in Lengths(q, b)
    <2>1. k - 1 \in 0 .. MaxDigits - 1 /\ (k - 1) + 1 = k /\ k - 1 \in 1 .. MaxDigits
      BY <1>0, <1>6
    <2>2. q < P[k - 1]
      BY <1>4, <1>6, <2>1
    <2> QED
      BY <2>1, <2>2 DEF Lengths, P
  <1>8. \A l \in Lengths(q, b) : k - 1 <= l
    <2> SUFFICES ASSUME NEW l \in Lengths(q, b) PROVE k - 1 <= l
      OBVIOUS
    <2>1. l \in 1 .. MaxDigits /\ q < P[l]
      BY DEF Lengths, P
    <2>2. CASE l = MaxDigits
      BY <1>0, <1>6, <2>2
    <2>3. CASE l # MaxDigits
      <3>1. l \in 0 .. MaxDigits - 1 /\ l + 1 \in 1 .. MaxDigits
        BY <1>0, <2>1, <2>3
      <3>2. v < P[l + 1]
        BY <1>4, <2>1, <3>1
      <3>3. l + 1 \in Lengths(v, b)
        BY <3>1, <3>2 DEF Lengths, P
      <3> QED
        BY <1>5, <1>6, <2>1, <3>3
    <2> QED
      BY <2>2, <2>3
  <1>9. Min(Lengths(q, b)) = k - 1
    <2>1. Lengths(q, b) \subseteq Nat
      BY <1>0 DEF Lengths
    <2> QED
      BY <1>7, <1>8, <2>1, MinIs
  <1>10. q < P[MaxDigits] /\ q \in Nat
    <2>1. v < P[MaxDigits]
      BY DEF P
    <2>2. P[MaxDigits] \in Nat
      BY <1>0, <1>1
    <2> QED
      BY <1>3, <2>1, <2>2
  <1>11. r + 1 \in 1 .. 16 /\ Digit[r + 1] \in Character
    <2>1. r + 1 \in 1 .. 16
      BY <1>2
    <2> QED
      BY <2>1, DigitType
  <1> DEFINE s == Numeral(q, b)
             t == Append(s, Digit[r + 1])
             u == Numeral(v, b)
  <1>12. /\ s \in Seq(Character) /\ Len(s) = k - 1
         /\ \A p \in 1 .. k - 1 : s[p] = Digit[((q \div P[k - 1 - p]) % b) + 1]
    BY <1>9, <1>10, NumeralType DEF P
  <1>13. /\ u \in Seq(Character) /\ Len(u) = k
         /\ \A p \in 1 .. k : u[p] = Digit[((v \div P[k - p]) % b) + 1]
    BY NumeralType DEF P, k
  <1> HIDE DEF s, u
  <1>14. /\ t \in Seq(Character) /\ Len(t) = k
         /\ \A p \in 1 .. k - 1 : t[p] = s[p]
         /\ t[k] = Digit[r + 1]
    <2>1. (k - 1) + 1 = k
      BY <1>6
    <2> QED
      BY <1>11, <1>12, <2>1, AppendProperties
  <1> HIDE DEF t
  <1>15. ASSUME NEW p \in 1 .. k PROVE u[p] = t[p]
    <2>1. CASE p = k
      <3>1. k - p = 0 /\ v \div 1 = v
        BY <1>6, <2>1
      <3>2. u[p] = Digit[((v \div 1) % b) + 1]
        BY <1>1, <1>13, <3>1
      <3> QED
        BY <1>14, <2>1, <3>1, <3>2 DEF r
    <2>2. CASE p # k
      <3> DEFINE c == P[k - 1 - p]
      <3>1. p \in 1 .. k - 1 /\ k - 1 - p \in 0 .. MaxDigits - 1 /\ (k - 1 - p) + 1 = k - p
            /\ k - 1 - p \in 0 .. MaxDigits
        BY <1>0, <1>6, <2>2
      <3>2. c \in Nat \ {0} /\ P[k - p] = b * c
        BY <1>1, <3>1
      <3>3. v \div (b * c) = q \div c
        <4> HIDE DEF c
        <4> QED
          BY <1>0, <3>2, DivDiv DEF q
      <3> QED
        BY <1>12, <1>13, <1>14, <3>1, <3>2, <3>3
    <2> QED
      BY <2>1, <2>2
  <1>16. u = t
    <2>1. Len(u) = Len(t) /\ \A p \in 1 .. Len(u) : u[p] = t[p]
      BY <1>13, <1>14, <1>15
    <2> QED
      BY <1>13, <1>14, <2>1, SeqEqual
  <1> QED
    BY <1>3, <1>10, <1>16 DEF q, r, s, t, u, P

\* g is the function that printnum computes.
IsPrintnum(g, num, base) ==
  g = [v \in 0 .. num |-> IF v < base THEN <<Digit[v + 1]>>
                          ELSE Append(g[v \div base], Digit[(v % base) + 1])]

\* printnum collects the digits of a number, which Numeral has.
LEMMA PrintnumDigits ==
  ASSUME NEW b \in 2 .. 16, NEW num \in Nat, num < Powers(b)[MaxDigits]
  PROVE  printnum(num, b) = Numeral(num, b)
  <1> DEFINE g == [v \in 0 .. num |-> Numeral(v, b)]
  <1>0. Powers(b)[MaxDigits] \in Nat
    <2>1. MaxDigits \in 0 .. MaxDigits /\ b \in Nat \ {0}
      BY FirAssumption
    <2> QED
      BY <2>1, PowersStep
  <1>1. IsPrintnum(g, num, b)
    <2>1. ASSUME NEW v \in 0 .. num
          PROVE  g[v] = IF v < b THEN <<Digit[v + 1]>>
                        ELSE Append(g[v \div b], Digit[(v % b) + 1])
      <3>1. CASE v < b
        <4>1. v \in 0 .. b - 1
          BY <3>1
        <4>2. Numeral(v, b) = <<Digit[v + 1]>>
          BY <4>1, NumeralOne
        <4> QED
          BY <3>1, <4>2
      <3>2. CASE ~(v < b)
        <4>1. b <= v /\ v \in Nat /\ v < Powers(b)[MaxDigits]
          BY <1>0, <3>2
        <4>2. /\ v \div b \in 0 .. v - 1
              /\ Numeral(v, b) = Append(Numeral(v \div b, b), Digit[(v % b) + 1])
          BY <4>1, NumeralMore
        <4>3. v \div b \in 0 .. num
          BY <4>2
        <4> QED
          BY <3>2, <4>2, <4>3
      <3> QED
        BY <3>1, <3>2
    <2> QED
      BY <2>1 DEF IsPrintnum
  <1> DEFINE h == CHOOSE f : IsPrintnum(f, num, b)
  <1>2. printnum(num, b) = h[num]
    BY DEF printnum, IsPrintnum
  <1>3. IsPrintnum(h, num, b)
    BY <1>1
  <1> HIDE DEF h, g
  <1> DEFINE Bad == {v \in 0 .. num : h[v] # g[v]}
  <1>4. Bad = {}
    <2> SUFFICES ASSUME Bad # {} PROVE FALSE
      OBVIOUS
    <2>1. Bad \subseteq Nat
      OBVIOUS
    <2>2. PICK v \in Bad : \A l \in Bad : v <= l
      <3> HIDE DEF Bad
      <3> QED
        BY <2>1, Least
    <2>3. v \in 0 .. num /\ h[v] # g[v]
      OBVIOUS
    <2>4. ~(v < b)
      BY <1>1, <1>3, <2>3 DEF IsPrintnum
    <2>5. v \div b \in 0 .. v - 1
      <3>1. b <= v /\ v \in Nat /\ v < Powers(b)[MaxDigits]
        BY <1>0, <2>3, <2>4
      <3> QED
        BY <3>1, NumeralMore
    <2> DEFINE q == v \div b
    <2>6. q \in 0 .. num /\ q < v
      BY <2>3, <2>5
    <2> HIDE DEF q
    <2>7. h[q] = g[q]
      BY <2>2, <2>3, <2>6
    <2>8. /\ g[v] = Append(g[q], Digit[(v % b) + 1])
          /\ h[v] = Append(h[q], Digit[(v % b) + 1])
      BY <1>1, <1>3, <2>3, <2>4 DEF IsPrintnum, q
    <2> QED
      BY <2>3, <2>7, <2>8
  <1>5. h[num] = g[num]
    BY <1>4
  <1> QED
    BY <1>2, <1>5 DEF g

LEMMA FormatDigits ==
  /\ \A v \in 0 .. HalfMod - 1 :
       FormatD(v) = Numeral(v, 10) /\ Numeral(v, 10) \in Seq(Character)
  /\ \A v \in Word :
       FormatX(v) = Numeral(v, HexBase) /\ Numeral(v, HexBase) \in Seq(Character)
  <1>1. /\ WordMod = 2 * HalfMod /\ WordMod <= LongMod
        /\ WordMod \in Nat \ {0} /\ HalfMod \in Nat \ {0} /\ LongMod \in Nat
    BY WordsNat DEF WordMod, LongMod
  <1>2. ASSUME NEW b \in {HexBase, 10}, NEW v \in 0 .. WordMod - 1
        PROVE  printnum(v, b) = Numeral(v, b) /\ Numeral(v, b) \in Seq(Character)
    <2>1. b \in 2 .. 16 /\ b \in Nat \ {0} /\ LongMod <= Powers(b)[MaxDigits]
          /\ MaxDigits \in 0 .. MaxDigits
      BY FirAssumption
    <2>2. Powers(b)[MaxDigits] \in Nat
      BY <2>1, PowersStep
    <2>3. v \in Nat /\ v < Powers(b)[MaxDigits]
      BY <1>1, <2>1, <2>2
    <2> QED
      BY <2>1, <2>3, PrintnumDigits, NumeralType
  <1>3. ASSUME NEW v \in 0 .. HalfMod - 1
        PROVE  FormatD(v) = Numeral(v, 10) /\ Numeral(v, 10) \in Seq(Character)
    <2>1. v \in 0 .. WordMod - 1 /\ ~(v >= HalfMod) /\ ~(v < 0)
      BY <1>1
    <2>2. v % WordMod = v
      BY <1>1, <2>1
    <2>3. Signed(v % WordMod) = v
      BY <2>1, <2>2 DEF Signed
    <2>4. FormatD(v) = printnum(v, 10)
      BY <2>1, <2>3 DEF FormatD
    <2> QED
      BY <1>2, <2>1, <2>4
  <1>4. ASSUME NEW v \in Word
        PROVE  FormatX(v) = Numeral(v, HexBase) /\ Numeral(v, HexBase) \in Seq(Character)
    <2>1. v \in 0 .. WordMod - 1
      BY DEF Word
    <2>2. v % WordMod = v
      BY <1>1, <2>1
    <2> QED
      BY <1>2, <2>1, <2>2 DEF FormatX
  <1> QED
    BY <1>3, <1>4

-----------------------------------------------------------------------------
(* Lines after lines. *)

\* g is the function that FlattenSeq computes, of the first k of the lines f.
IsFlat(g, f, k) ==
  g = [l \in 1 .. k |-> IF l = 1 THEN f[l] ELSE g[l - 1] \o f[l]]

LEMMA FlatUnique ==
  ASSUME NEW f, NEW k \in Nat, NEW h \in 1 .. k, NEW a, NEW b,
         IsFlat(a, f, k), IsFlat(b, f, h)
  PROVE  a[h] = b[h]
  <1> DEFINE S == {l \in Nat : l + 1 <= h => a[l + 1] = b[l + 1]}
  <1>1. 0 \in S
    BY DEF IsFlat
  <1>2. ASSUME NEW l \in Nat, l \in S PROVE l + 1 \in S
    <2> SUFFICES ASSUME (l + 1) + 1 <= h PROVE a[(l + 1) + 1] = b[(l + 1) + 1]
      OBVIOUS
    <2>1. a[l + 1] = b[l + 1]
      BY <1>2
    <2> DEFINE q == (l + 1) + 1
    <2>2. q \in 1 .. k /\ q \in 1 .. h /\ q # 1 /\ q - 1 = l + 1
      OBVIOUS
    <2> HIDE DEF q
    <2>3. a[q] = a[l + 1] \o f[q]
      BY <2>2 DEF IsFlat
    <2>4. b[q] = b[l + 1] \o f[q]
      BY <2>2 DEF IsFlat
    <2> QED
      BY <2>1, <2>3, <2>4 DEF q
  <1> HIDE DEF S
  <1>3. h - 1 \in S
    <2>1. h - 1 \in Nat
      OBVIOUS
    <2> QED
      BY <1>1, <1>2, <2>1, SetInduction
  <1>4. (h - 1) + 1 = h
    OBVIOUS
  <1> QED
    BY <1>3, <1>4 DEF S

LEMMA FlatExists ==
  ASSUME NEW S, NEW K \in Nat, NEW f \in [1 .. K -> Seq(S)], NEW k \in 0 .. K
  PROVE  \E g \in [1 .. k -> Seq(S)] : IsFlat(g, f, k)
  <1> DEFINE T == {l \in Nat : l <= K => \E g \in [1 .. l -> Seq(S)] : IsFlat(g, f, l)}
  <1>1. 0 \in T
    <2> DEFINE g == [l \in 1 .. 0 |-> << >>]
    <2>1. g \in [1 .. 0 -> Seq(S)] /\ IsFlat(g, f, 0)
      BY DEF IsFlat
    <2> QED
      BY <2>1
  <1>2. ASSUME NEW l \in Nat, l \in T PROVE l + 1 \in T
    <2> SUFFICES ASSUME l + 1 <= K
                 PROVE  \E g \in [1 .. l + 1 -> Seq(S)] : IsFlat(g, f, l + 1)
      OBVIOUS
    <2>1. PICK g \in [1 .. l -> Seq(S)] : IsFlat(g, f, l)
      BY <1>2
    <2> DEFINE new == IF l = 0 THEN f[1] ELSE g[l] \o f[l + 1]
               h == [q \in 1 .. l + 1 |-> IF q = l + 1 THEN new ELSE g[q]]
    <2>2. new \in Seq(S)
      <3>1. CASE l = 0
        <4>1. 1 \in 1 .. K
          BY <3>1
        <4> QED
          BY <3>1, <4>1
      <3>2. CASE l # 0
        <4>1. l \in 1 .. l /\ l + 1 \in 1 .. K
          BY <3>2
        <4>2. g[l] \in Seq(S) /\ f[l + 1] \in Seq(S)
          BY <4>1
        <4> QED
          BY <3>2, <4>2, ConcatProperties
      <3> QED
        BY <3>1, <3>2
    <2>3. h \in [1 .. l + 1 -> Seq(S)]
      <3> HIDE DEF new
      <3> QED
        BY <2>2
    <2>4. ASSUME NEW q \in 1 .. l + 1
          PROVE  h[q] = IF q = 1 THEN f[q] ELSE h[q - 1] \o f[q]
      <3>1. CASE q = l + 1
        <4>1. q - 1 = l /\ (q = 1 <=> l = 0) /\ (l # 0 => l \in 1 .. l + 1 /\ l # l + 1)
          BY <3>1
        <4> QED
          BY <3>1, <4>1
      <3>2. CASE q # l + 1
        <4>1. q \in 1 .. l
          BY <3>2
        <4>2. g[q] = IF q = 1 THEN f[q] ELSE g[q - 1] \o f[q]
          BY <2>1, <4>1 DEF IsFlat
        <4>3. q # 1 => h[q - 1] = g[q - 1]
          BY <4>1
        <4> QED
          BY <3>2, <4>1, <4>2, <4>3
      <3> QED
        BY <3>1, <3>2
    <2>5. IsFlat(h, f, l + 1)
      BY <2>4 DEF IsFlat
    <2> QED
      BY <2>3, <2>5
  <1> HIDE DEF T
  <1>3. k \in T
    <2>1. Nat \subseteq T
      BY <1>1, <1>2, SetInduction
    <2> QED
      BY <2>1
  <1> QED
    BY <1>3 DEF T

Prefix(f, k) == [j \in 1 .. k |-> f[j]]

LEMMA FlattenStep ==
  ASSUME NEW S, NEW K \in Nat, NEW f \in [1 .. K -> Seq(S)], NEW k \in 0 .. K
  PROVE  /\ FlattenSeq(Prefix(f, k)) \in Seq(S)
         /\ FlattenSeq(Prefix(f, 0)) = << >>
         /\ k < K => FlattenSeq(Prefix(f, k + 1))
                       = FlattenSeq(Prefix(f, k)) \o f[k + 1]
  <1> DEFINE flat(l) == CHOOSE g : IsFlat(g, f, l)
  <1>1. FlattenSeq(Prefix(f, 0)) = << >>
    <2>1. Prefix(f, 0) = << >>
      BY DEF Prefix
    <2> QED
      BY <2>1 DEF FlattenSeq
  <1>2. ASSUME NEW l \in 1 .. K
        PROVE  /\ FlattenSeq(Prefix(f, l)) = flat(l)[l]
               /\ IsFlat(flat(l), f, l) /\ flat(l)[l] \in Seq(S)
    <2>1. Len(Prefix(f, l)) = l /\ l # 0
      BY DEF Prefix
    <2>2. \A g : IsFlat(g, Prefix(f, l), l) <=> IsFlat(g, f, l)
      BY DEF IsFlat, Prefix
    <2>3. FlattenSeq(Prefix(f, l)) = (CHOOSE g : IsFlat(g, Prefix(f, l), l))[l]
      BY <2>1 DEF FlattenSeq, IsFlat
    <2>4. FlattenSeq(Prefix(f, l)) = flat(l)[l]
      BY <2>2, <2>3
    <2>5. PICK g \in [1 .. l -> Seq(S)] : IsFlat(g, f, l)
      BY FlatExists
    <2>6. IsFlat(flat(l), f, l)
      BY <2>5
    <2> HIDE DEF flat
    <2>7. l \in Nat /\ l \in 1 .. l
      OBVIOUS
    <2>8. flat(l)[l] = g[l]
      BY <2>5, <2>6, <2>7, FlatUnique
    <2> QED
      BY <2>4, <2>5, <2>6, <2>7, <2>8
  <1> HIDE DEF flat
  <1>3. FlattenSeq(Prefix(f, k)) \in Seq(S)
    <2>1. CASE k = 0
      <3>1. << >> \in Seq(S)
        OBVIOUS
      <3> QED
        BY <1>1, <2>1, <3>1
    <2>2. CASE k # 0
      <3>1. k \in 1 .. K
        BY <2>2
      <3> QED
        BY <1>2, <3>1
    <2> QED
      BY <2>1, <2>2
  <1>4. ASSUME k < K
        PROVE  FlattenSeq(Prefix(f, k + 1)) = FlattenSeq(Prefix(f, k)) \o f[k + 1]
    <2>1. k + 1 \in 1 .. K /\ k + 1 \in 1 .. k + 1
      BY <1>4
    <2>2. /\ FlattenSeq(Prefix(f, k + 1)) = flat(k + 1)[k + 1]
          /\ IsFlat(flat(k + 1), f, k + 1)
      BY <1>2, <2>1
    <2>3. CASE k = 0
      <3>1. flat(k + 1)[k + 1] = f[k + 1]
        BY <2>1, <2>2, <2>3 DEF IsFlat
      <3>2. f[k + 1] \in Seq(S)
        BY <2>1
      <3> QED
        BY <1>1, <2>2, <2>3, <3>1, <3>2, ConcatEmptySeq
    <2>4. CASE k # 0
      <3>1. k \in 1 .. K /\ k \in 1 .. k + 1 /\ k + 1 \in Nat /\ k + 1 # 1 /\ (k + 1) - 1 = k
        BY <1>4, <2>4
      <3>2. flat(k + 1)[k + 1] = flat(k + 1)[k] \o f[k + 1]
        BY <2>1, <2>2, <3>1 DEF IsFlat
      <3>3. IsFlat(flat(k), f, k) /\ FlattenSeq(Prefix(f, k)) = flat(k)[k]
        BY <1>2, <3>1
      <3>4. flat(k + 1)[k] = flat(k)[k]
        BY <2>2, <3>1, <3>3, FlatUnique
      <3> QED
        BY <2>2, <3>2, <3>3, <3>4
    <2> QED
      BY <2>3, <2>4
  <1> QED
    BY <1>1, <1>3, <1>4

-----------------------------------------------------------------------------
(* How long a filter takes. *)

\* The outputs that are done and the products of the next one.
OutputsDone == IF fir = "fir1.c" THEN loop.j ELSE loop.a2 - Y
ProductsDone == IF fir = "fir1.c" THEN loop.i ELSE loop.t4 - C

ElapsedInv ==
  /\ \E s \in Sizes : n = s[1] /\ m = s[2]
  /\ \E c \in Nat, d \in Nat : elapsed = <<c, d>>
  /\ elapsed[2] <= elapsed[1]
  /\ at = "setStats(1)" => elapsed = <<0, 0>>
  /\ at = "minstret(1)" => elapsed = <<1, 0>>
  /\ at \in {"forj", "fori", "setStats(0)", "minstret(0)"} => elapsed[2] >= 1
  /\ at \in {"forj", "fori", "setStats(0)"} => elapsed[2] < elapsed[1]
  /\ at = "forj" => elapsed[1] <= OutputsDone * (2 * m + 3) + 2
  /\ at = "fori" => elapsed[1] <= OutputsDone * (2 * m + 3) + 3 + 2 * ProductsDone
  /\ AfterFir => /\ elapsed[2] >= 1
                 /\ elapsed[1] <= Outputs * (2 * m + 3) + 3

LEMMA InitElapsed == Init => ElapsedInv
  <1> SUFFICES ASSUME Init PROVE ElapsedInv
    OBVIOUS
  <1>1. elapsed = <<0, 0>> /\ at = "setStats(1)" /\ 0 \in Nat
    BY DEF Init
  <1>2. \E s \in Sizes : n = s[1] /\ m = s[2]
    BY DEF Init
  <1> QED
    BY <1>1, <1>2 DEF ElapsedInv, AfterFir

LEMMA NextElapsed == FirInv /\ ElapsedInv /\ [Next]_vars => ElapsedInv'
  <1> SUFFICES ASSUME FirInv, ElapsedInv, [Next]_vars PROVE ElapsedInv'
    OBVIOUS
  <1>0. SizesInv /\ LoopInv
    BY DEF FirInv
  <1>n. n \in Nat /\ m \in 1 .. n - 1 /\ Outputs \in Nat \ {0} /\ Y \in Nat /\ C = n
    BY <1>0 DEF SizesInv, Outputs, Y, C
  <1>a. UNCHANGED program
    BY DEF Next, Program, StatsOn, StatsOff, CallFir, CNextOutput, CProduct, AsmNextOutput,
           AsmProduct, FirReturns, PrintResult, Verify, PrintCounters, Exit,
           UartSend, Transmit, Halted, vars, program
  <1>c. Y' = Y /\ C' = C /\ Outputs' = Outputs /\ fir' = fir /\ m' = m /\ n' = n
    BY <1>a DEF program, Y, C, Outputs
  <1>e. PICK c \in Nat, d \in Nat : elapsed = <<c, d>>
    BY DEF ElapsedInv
  <1>f. elapsed[1] = c /\ elapsed[2] = d /\ d <= c
    BY <1>e DEF ElapsedInv
  <1>s. \E s \in Sizes : n' = s[1] /\ m' = s[2]
    BY <1>c DEF ElapsedInv
  <1> DEFINE per == 2 * m + 3
             q == OutputsDone
             k == ProductsDone
  <1>p. per \in Nat /\ per = 2 * m + 3
    BY <1>n
  <1>r. /\ READ_CTR(1, TRUE) => elapsed' = <<c + 1, d>>
        /\ READ_CTR(2, TRUE) => elapsed' = <<c + 1, d + 1>>
        /\ READ_CTR(1, FALSE) => elapsed' = <<c, d + 1>>
        /\ READ_CTR(2, FALSE) => elapsed' = <<c, d>>
    <2>1. ASSUME READ_CTR(1, TRUE) PROVE elapsed' = <<c + 1, d>>
      <3>1. elapsed' = [l \in 1 .. 2 |-> IF l <= 1 THEN elapsed[l] + 1 ELSE elapsed[l]]
        BY <2>1 DEF READ_CTR, ReadingTakes
      <3> QED
        BY <1>f, <3>1
    <2>2. ASSUME READ_CTR(2, TRUE) PROVE elapsed' = <<c + 1, d + 1>>
      <3>1. elapsed' = [l \in 1 .. 2 |-> IF l <= 2 THEN elapsed[l] + 1 ELSE elapsed[l]]
        BY <2>2 DEF READ_CTR, ReadingTakes
      <3> QED
        BY <1>f, <3>1
    <2>3. ASSUME READ_CTR(1, FALSE) PROVE elapsed' = <<c, d + 1>>
      <3>1. elapsed' = [l \in 1 .. 2 |-> IF l <= 1 THEN elapsed[l] ELSE elapsed[l] + 1]
        BY <2>3 DEF READ_CTR, ReadingTakes
      <3> QED
        BY <1>f, <3>1
    <2>4. ASSUME READ_CTR(2, FALSE) PROVE elapsed' = <<c, d>>
      <3>1. elapsed' = [l \in 1 .. 2 |-> IF l <= 2 THEN elapsed[l] ELSE elapsed[l] + 1]
        BY <2>4 DEF READ_CTR, ReadingTakes
      <3> QED
        BY <1>f, <3>1
    <2> QED
      BY <2>1, <2>2, <2>3, <2>4, Zenon
  <1>1. CASE CallFir
    <2>1. at = "minstret(1)" /\ at' = "forj" /\ READ_CTR(2, TRUE)
      BY <1>1 DEF CallFir
    <2>2. OutputsDone' = 0
      <3>1. CASE fir = "fir1.c"
        BY <1>1, <1>c, <3>1 DEF CallFir, OutputsDone, NoLoop
      <3>2. CASE fir # "fir1.c"
        <4>1. loop'.a2 = Y
          BY <1>1, <3>2 DEF CallFir
        <4> QED
          BY <1>c, <1>n, <3>2, <4>1 DEF OutputsDone
      <3> QED
        BY <3>1, <3>2
    <2>3. 0 * (2 * m + 3) = 0 /\ c = 1 /\ d = 0
      BY <1>f, <1>n, <2>1 DEF ElapsedInv
    <2>4. elapsed' = <<2, 1>>
      BY <1>r, <2>1, <2>3
    <2> QED
      BY <1>c, <1>s, <2>1, <2>2, <2>3, <2>4 DEF ElapsedInv, AfterFir
  <1>5. CASE StatsOn
    <2>1. at = "setStats(1)" /\ at' = "minstret(1)" /\ READ_CTR(1, TRUE)
      BY <1>5 DEF StatsOn
    <2>2. c = 0 /\ d = 0
      BY <1>f, <2>1 DEF ElapsedInv
    <2>3. elapsed' = <<1, 0>>
      BY <1>r, <2>1, <2>2
    <2> QED
      BY <1>c, <1>s, <2>1, <2>3 DEF ElapsedInv, AfterFir
  <1>6. CASE FirReturns
    <2>1. at = "setStats(0)" /\ at' = "minstret(0)" /\ READ_CTR(1, FALSE)
      BY <1>6 DEF FirReturns
    <2>2. /\ elapsed' = <<c, d + 1>> /\ d + 1 \in Nat /\ d + 1 >= 1
      BY <1>r, <2>1
    <2>3. d < c /\ c <= Outputs * (2 * m + 3) + 3
      BY <1>f, <2>1 DEF ElapsedInv, AfterFir
    <2>4. d + 1 <= c
      BY <2>3
    <2> QED
      BY <1>c, <1>s, <2>1, <2>2, <2>3, <2>4 DEF ElapsedInv, AfterFir
  <1>7. CASE StatsOff
    <2>1. at = "minstret(0)" /\ at' = "print" /\ READ_CTR(2, FALSE)
      BY <1>7 DEF StatsOff
    <2>2. elapsed' = <<c, d>>
      BY <1>r, <2>1
    <2>3. d >= 1 /\ c <= Outputs * (2 * m + 3) + 3
      BY <1>f, <2>1 DEF ElapsedInv, AfterFir
    <2> QED
      BY <1>c, <1>f, <1>s, <2>1, <2>2, <2>3 DEF ElapsedInv, AfterFir
  \* A step inside a filter: where it is before and after.
  <1>2. CASE CNextOutput \/ CProduct \/ AsmNextOutput \/ AsmProduct
    <2>1. /\ at \in {"forj", "fori"}
          /\ q \in 0 .. Outputs /\ (at = "fori" => k \in 0 .. m)
      <3>1. CASE fir = "fir1.c"
        <4>1. CNextOutput \/ CProduct
          BY <1>2, <3>1 DEF AsmNextOutput, AsmProduct
        <4>2. CLoop /\ at \in {"forj", "fori"}
          BY <1>0, <3>1, <4>1 DEF CNextOutput, CProduct, LoopInv
        <4> QED
          BY <3>1, <4>2 DEF CLoop, OutputsDone, ProductsDone
      <3>2. CASE fir # "fir1.c"
        <4>1. AsmNextOutput \/ AsmProduct
          BY <1>2, <3>2 DEF CNextOutput, CProduct
        <4>2. AsmLoop /\ at \in {"forj", "fori"}
          BY <1>0, <3>2, <4>1 DEF AsmNextOutput, AsmProduct, LoopInv
        <4> QED
          BY <1>n, <3>2, <4>2 DEF AsmLoop, OutputsDone, ProductsDone
      <3> QED
        BY <3>1, <3>2
    <2>2. \/ /\ at = "forj" /\ at' = "fori" /\ OutputsDone' = q /\ ProductsDone' = 0
             /\ Cycles(1)
          \/ at = "forj" /\ at' = "setStats(0)" /\ q = Outputs /\ Cycles(1)
          \/ /\ at = "fori" /\ at' = "fori" /\ OutputsDone' = q /\ ProductsDone' = k + 1
             /\ Cycles(2)
          \/ at = "fori" /\ at' = "forj" /\ OutputsDone' = q + 1 /\ Cycles(2)
      <3>1. CASE CNextOutput
        <4>1. fir = "fir1.c" /\ CLoop /\ at = "forj" /\ Cycles(1)
          BY <1>0, <3>1 DEF CNextOutput, LoopInv
        <4>2. CASE loop.j < Outputs
          <5>1. loop' = [loop EXCEPT !.i = 0] /\ at' = "fori"
            BY <3>1, <4>2 DEF CNextOutput
          <5> QED
            BY <1>c, <4>1, <5>1 DEF CLoop, OutputsDone, ProductsDone
        <4>3. CASE ~(loop.j < Outputs)
          <5>1. at' = "setStats(0)" /\ loop.j = Outputs
            BY <1>n, <3>1, <4>1, <4>3 DEF CNextOutput, CLoop
          <5> QED
            BY <4>1, <5>1 DEF OutputsDone
        <4> QED
          BY <4>2, <4>3
      <3>2. CASE CProduct
        <4>1. fir = "fir1.c" /\ CLoop /\ at = "fori" /\ Cycles(2)
          BY <1>0, <3>2 DEF CProduct, LoopInv
        <4>2. CASE loop.i < m
          <5>1. loop' = [loop EXCEPT !.i = @ + 1] /\ at' = "fori"
            BY <3>2, <4>1, <4>2 DEF CProduct
          <5> QED
            BY <1>c, <4>1, <5>1 DEF CLoop, OutputsDone, ProductsDone
        <4>3. CASE ~(loop.i < m)
          <5>1. loop' = [loop EXCEPT !.j = @ + 1] /\ at' = "forj"
            BY <3>2, <4>3 DEF CProduct
          <5> QED
            BY <1>c, <4>1, <5>1 DEF CLoop, OutputsDone
        <4> QED
          BY <4>2, <4>3
      <3>3. CASE AsmNextOutput
        <4>1. fir = "fir2.S" /\ AsmLoop /\ at = "forj" /\ Cycles(1)
          BY <1>0, <3>3 DEF AsmNextOutput, LoopInv
        <4>2. CASE loop.a2 >= loop.t0
          <5>1. at' = "setStats(0)" /\ loop.a2 - Y = Outputs
            BY <1>n, <3>3, <4>1, <4>2 DEF AsmNextOutput, AsmLoop
          <5> QED
            BY <4>1, <5>1 DEF OutputsDone
        <4>3. CASE ~(loop.a2 >= loop.t0)
          <5>1. loop' = [loop EXCEPT !.t3 = 0, !.t4 = loop.a1, !.t5 = loop.t2]
            BY <3>3, <4>1, <4>3 DEF AsmNextOutput
          <5>2. at' = "fori"
            BY <1>n, <3>3, <4>1, <4>3 DEF AsmNextOutput, AsmLoop
          <5>3. loop'.a2 = loop.a2 /\ loop'.t4 = C
            BY <4>1, <5>1 DEF AsmLoop
          <5> QED
            BY <1>c, <1>n, <4>1, <5>2, <5>3 DEF OutputsDone, ProductsDone
        <4> QED
          BY <4>2, <4>3
      <3>4. CASE AsmProduct
        <4>1. fir = "fir2.S" /\ AsmLoop /\ at = "fori" /\ Cycles(2)
          BY <1>0, <3>4 DEF AsmProduct, LoopInv
        <4>2. CASE loop.t4 + 1 < loop.t1
          <5>1. loop' = [loop EXCEPT !.t3 = Sum, !.t4 = @ + 1, !.t5 = @ - 1] /\ at' = "fori"
            BY <3>4, <4>1, <4>2 DEF AsmProduct
          <5>2. loop'.a2 = loop.a2 /\ loop'.t4 = loop.t4 + 1
            BY <4>1, <5>1 DEF AsmLoop
          <5> QED
            BY <1>c, <1>n, <4>1, <5>1, <5>2 DEF AsmLoop, OutputsDone, ProductsDone
        <4>3. CASE ~(loop.t4 + 1 < loop.t1)
          <5>1. /\ loop' = [loop EXCEPT !.t3 = Sum, !.t4 = @ + 1, !.t5 = @ - 1,
                                        !.a2 = @ + 1, !.t2 = @ + 1]
                /\ at' = "forj"
            BY <3>4, <4>3 DEF AsmProduct
          <5>2. loop'.a2 = loop.a2 + 1
            BY <4>1, <5>1 DEF AsmLoop
          <5> QED
            BY <1>c, <1>n, <4>1, <5>1, <5>2 DEF AsmLoop, OutputsDone
        <4> QED
          BY <4>2, <4>3
      <3> QED
        BY <1>2, <3>1, <3>2, <3>3, <3>4
    <2> HIDE DEF q, k, per
    <2>3. \A e : Cycles(e) => elapsed' = <<c + e, d + 1>>
      BY <1>f DEF Cycles
    <2>4. (q + 1) * per = (q * per) + per /\ q * per \in Nat
      BY <1>p, <2>1
    <2>5. /\ at = "forj" => c <= q * per + 2
          /\ at = "fori" => c <= q * per + 3 + 2 * k
          /\ d < c
      BY <1>f, <1>p, <2>1 DEF ElapsedInv, q, k
    <2>6. CASE at = "forj" /\ at' = "fori" /\ OutputsDone' = q /\ ProductsDone' = 0
               /\ Cycles(1)
      <3>1. elapsed' = <<c + 1, d + 1>> /\ c + 1 <= q * per + 3 + 2 * 0 /\ d + 1 < c + 1
            /\ c + 1 \in Nat /\ d + 1 \in Nat /\ d + 1 >= 1
        BY <1>f, <2>3, <2>4, <2>5, <2>6
      <3> QED
        BY <1>c, <1>p, <1>s, <2>6, <3>1 DEF ElapsedInv, AfterFir
    <2>7. CASE at = "forj" /\ at' = "setStats(0)" /\ q = Outputs /\ Cycles(1)
      <3>1. elapsed' = <<c + 1, d + 1>> /\ c + 1 <= Outputs * per + 3 /\ d + 1 < c + 1
            /\ c + 1 \in Nat /\ d + 1 \in Nat /\ d + 1 >= 1
        BY <1>f, <2>3, <2>4, <2>5, <2>7
      <3> QED
        BY <1>c, <1>p, <1>s, <2>7, <3>1 DEF ElapsedInv, AfterFir
    <2>8. CASE at = "fori" /\ at' = "fori" /\ OutputsDone' = q /\ ProductsDone' = k + 1
               /\ Cycles(2)
      <3>1. elapsed' = <<c + 2, d + 1>> /\ c + 2 <= q * per + 3 + 2 * (k + 1)
            /\ d + 1 < c + 2 /\ c + 2 \in Nat /\ d + 1 \in Nat /\ d + 1 >= 1
        BY <1>f, <2>1, <2>3, <2>4, <2>5, <2>8
      <3> QED
        BY <1>c, <1>p, <1>s, <2>8, <3>1 DEF ElapsedInv, AfterFir
    <2>9. CASE at = "fori" /\ at' = "forj" /\ OutputsDone' = q + 1 /\ Cycles(2)
      <3>1. elapsed' = <<c + 2, d + 1>> /\ c + 2 <= (q + 1) * per + 2
            /\ d + 1 < c + 2 /\ c + 2 \in Nat /\ d + 1 \in Nat /\ d + 1 >= 1
        BY <1>f, <1>n, <1>p, <2>1, <2>3, <2>4, <2>5, <2>9
      <3> QED
        BY <1>c, <1>p, <1>s, <2>9, <3>1 DEF ElapsedInv, AfterFir
    <2> QED
      BY <2>2, <2>6, <2>7, <2>8, <2>9
  <1>3. CASE PrintResult \/ Verify \/ PrintCounters \/ Exit
    <2>1. AfterFir /\ at' \notin Early /\ elapsed' = elapsed
      BY <1>3 DEF PrintResult, Verify, PrintCounters, Exit, AfterFir, clocks, Early
    <2> QED
      BY <1>c, <1>e, <1>s, <2>1 DEF ElapsedInv, Early
  <1>4. CASE UartSend \/ Transmit \/ Halted \/ UNCHANGED vars
    <2>1. UNCHANGED <<at, loop, elapsed>>
      BY <1>4 DEF UartSend, Transmit, Halted, vars, clocks
    <2> QED
      BY <1>c, <1>e, <1>s, <2>1 DEF ElapsedInv, AfterFir, OutputsDone, ProductsDone
  <1> QED
    BY <1>1, <1>2, <1>3, <1>4, <1>5, <1>6, <1>7 DEF Next, Program

-----------------------------------------------------------------------------
(* What is printed. *)

\* The counters, which are printed as ints, fit into one.
CountersFit ==
  \A s \in Sizes : (s[1] - s[2] + 1) * (2 * s[2] + 3) + 3 < HalfMod

Lines == [j \in 1 .. Outputs |-> ResultLine(j - 1)]
CounterLines == CounterLine("mcycle", elapsed[1]) \o CounterLine("minstret", elapsed[2])
Printed == IF at \in {"exit", "halt"} THEN FlattenSeq(Prefix(Lines, i)) \o CounterLines
           ELSE FlattenSeq(Prefix(Lines, i))

\* The counters get their names one after the other.
NamesInv == \E x, y : /\ counter_names = <<x, y>>
                      /\ at = "minstret(0)" => x = "mcycle"

PrintInv ==
  /\ sent \in Seq(Character) /\ thr \in Seq(Character) /\ out \in Seq(Character)
  /\ i \in 0 .. Outputs
  /\ at \in Early => i = 0 /\ sent = << >> /\ thr = << >> /\ out = << >>
  /\ NamesInv
  /\ at \notin Early => /\ counter_names = <<"mcycle", "minstret">>
                        /\ sent \o (thr \o out) = Printed
  /\ at \in {"verify", "_init", "exit", "halt"} => i = Outputs
  /\ at \in {"verify", "_init", "halt"} => out = << >>

LEMMA FilterBound ==
  ASSUME CountersFit, SizesInv, ElapsedInv, AfterFir
  PROVE  /\ Outputs <= HalfMod
         /\ \A r \in 1 .. 2 : elapsed[r] \in 1 .. HalfMod - 1
  <1>1. PICK s \in Sizes : n = s[1] /\ m = s[2]
    BY DEF ElapsedInv
  <1> DEFINE all == Outputs * (2 * m + 3)
  <1>2. all + 3 < HalfMod
    BY <1>1 DEF CountersFit, Outputs
  <1>3. all >= Outputs /\ all \in Nat /\ Outputs \in Nat
    <2>1. Outputs \in Nat /\ m \in Nat
      BY DEF SizesInv, Outputs
    <2>2. Outputs * (2 * m + 3) = Outputs * (2 * m + 2) + Outputs
          /\ Outputs * (2 * m + 2) \in Nat
      BY <2>1
    <2> QED
      BY <2>1, <2>2
  <1> HIDE DEF all
  <1>4. PICK c \in Nat, d \in Nat : elapsed = <<c, d>>
    BY DEF ElapsedInv
  <1>5. d <= c /\ d >= 1 /\ c <= all + 3
    BY <1>4 DEF ElapsedInv, all
  <1> QED
    BY <1>2, <1>3, <1>4, <1>5, WordsNat

LEMMA Tuples ==
  ASSUME NEW S, NEW x \in S, NEW y \in S
  PROVE  <<x>> \in Seq(S) /\ <<x, y>> \in Seq(S)
  OBVIOUS

LEMMA LineTypes ==
  ASSUME CountersFit, SizesInv, RamInv, ElapsedInv, AfterFir
  PROVE  /\ Lines \in [1 .. Outputs -> Seq(Character)]
         /\ \A j \in 0 .. Outputs - 1 :
              <<"y[">> \o FormatD(j) \o <<"] = ">> \o FormatX(ram[Y + j]) \o <<"\n">>
                = ResultLine(j)
         /\ \A r \in 1 .. 2 : FormatD(elapsed[r]) = Numeral(elapsed[r], 10)
         /\ CounterLine("mcycle", elapsed[1]) \in Seq(Character)
         /\ CounterLine("minstret", elapsed[2]) \in Seq(Character)
  <1>0. n \in Nat /\ m \in 1 .. n - 1 /\ Outputs \in Nat
    BY DEF SizesInv, Outputs
  <1>1. Outputs <= HalfMod /\ \A r \in 1 .. 2 : elapsed[r] \in 1 .. HalfMod - 1
    BY FilterBound
  <1>2. /\ <<"y[">> \in Seq(Character) /\ <<"] = ">> \in Seq(Character)
        /\ <<"\n">> \in Seq(Character)
        /\ <<"mcycle", " = ">> \in Seq(Character) /\ <<"minstret", " = ">> \in Seq(Character)
    <2>1. /\ "y[" \in Character /\ "] = " \in Character /\ "\n" \in Character
          /\ "mcycle" \in Character /\ "minstret" \in Character /\ " = " \in Character
      BY DEF Character
    <2> QED
      BY <2>1, Tuples
  <1>3. ASSUME NEW j \in 0 .. Outputs - 1
        PROVE  /\ ResultLine(j) \in Seq(Character)
               /\ <<"y[">> \o FormatD(j) \o <<"] = ">> \o FormatX(ram[Y + j]) \o <<"\n">>
                    = ResultLine(j)
    <2>1. j \in 0 .. HalfMod - 1
      BY <1>0, <1>1, WordsNat
    <2>2. ram[Y + j] \in Word
      <3>1. Y + j \in 0 .. n + m + Outputs - 1
        BY <1>0 DEF Y
      <3> QED
        BY <3>1 DEF RamInv
    <2>3. /\ FormatD(j) = Numeral(j, 10) /\ Numeral(j, 10) \in Seq(Character)
          /\ FormatX(ram[Y + j]) = Numeral(ram[Y + j], HexBase)
          /\ Numeral(ram[Y + j], HexBase) \in Seq(Character)
      BY <2>1, <2>2, FormatDigits
    <2> DEFINE d == Numeral(j, 10)
               x == Numeral(ram[Y + j], HexBase)
    <2>4. d \in Seq(Character) /\ x \in Seq(Character)
      BY <2>3
    <2>5. ResultLine(j) = <<"y[">> \o d \o <<"] = ">> \o x \o <<"\n">>
      BY DEF ResultLine
    <2> HIDE DEF d, x
    <2>6. <<"y[">> \o d \in Seq(Character)
      BY <1>2, <2>4, ConcatProperties
    <2>7. (<<"y[">> \o d) \o <<"] = ">> \in Seq(Character)
      BY <1>2, <2>6, ConcatProperties
    <2>8. ((<<"y[">> \o d) \o <<"] = ">>) \o x \in Seq(Character)
      BY <2>4, <2>7, ConcatProperties
    <2>9. (((<<"y[">> \o d) \o <<"] = ">>) \o x) \o <<"\n">> \in Seq(Character)
      BY <1>2, <2>8, ConcatProperties
    <2> QED
      BY <2>3, <2>5, <2>9 DEF d, x
  <1>4. \A r \in 1 .. 2 : /\ FormatD(elapsed[r]) = Numeral(elapsed[r], 10)
                          /\ Numeral(elapsed[r], 10) \in Seq(Character)
    <2>1. \A r \in 1 .. 2 : elapsed[r] \in 0 .. HalfMod - 1
      BY <1>1, WordsNat
    <2> QED
      BY <2>1, FormatDigits
  <1>5. ASSUME NEW name, <<name, " = ">> \in Seq(Character), NEW r \in 1 .. 2
        PROVE  CounterLine(name, elapsed[r]) \in Seq(Character)
    <2> DEFINE d == Numeral(elapsed[r], 10)
    <2>1. d \in Seq(Character)
      BY <1>4
    <2>2. CounterLine(name, elapsed[r]) = (<<name, " = ">> \o d) \o <<"\n">>
      BY DEF CounterLine
    <2> HIDE DEF d
    <2>3. <<name, " = ">> \o d \in Seq(Character)
      BY <1>5, <2>1, ConcatProperties
    <2>4. (<<name, " = ">> \o d) \o <<"\n">> \in Seq(Character)
      BY <1>2, <2>3, ConcatProperties
    <2> QED
      BY <2>2, <2>4
  <1>6. Lines \in [1 .. Outputs -> Seq(Character)]
    <2>1. \A j \in 1 .. Outputs : j - 1 \in 0 .. Outputs - 1
      BY <1>0
    <2>2. \A j \in 1 .. Outputs : ResultLine(j - 1) \in Seq(Character)
      BY <1>3, <2>1
    <2> QED
      BY <2>2 DEF Lines
  <1>7. /\ CounterLine("mcycle", elapsed[1]) \in Seq(Character)
        /\ CounterLine("minstret", elapsed[2]) \in Seq(Character)
    <2>1. 1 \in 1 .. 2 /\ 2 \in 1 .. 2
      OBVIOUS
    <2> QED
      BY <1>2, <1>5, <2>1
  <1> QED
    BY <1>3, <1>4, <1>6, <1>7

LEMMA InitPrint == Init => PrintInv
  <1> SUFFICES ASSUME Init PROVE PrintInv
    OBVIOUS
  <1>1. /\ at = "setStats(1)" /\ i = 0 /\ sent = << >> /\ thr = << >> /\ out = << >>
        /\ << >> \in Seq(Character) /\ counter_names = <<Nobody, Nobody>>
    BY DEF Init
  <1>2. 0 \in 0 .. Outputs
    BY InitInv DEF FirInv, SizesInv, Outputs
  <1>3. NamesInv
    BY <1>1 DEF NamesInv
  <1> QED
    BY <1>1, <1>2, <1>3 DEF PrintInv, Early

LEMMA NextPrint ==
  ASSUME CountersFit
  PROVE  FirInv /\ DataInv /\ ElapsedInv /\ PrintInv /\ [Next]_vars => PrintInv'
  <1> SUFFICES ASSUME FirInv, DataInv, ElapsedInv, PrintInv, [Next]_vars PROVE PrintInv'
    OBVIOUS
  <1>0. SizesInv /\ RamInv /\ CounterInv
    BY DEF FirInv, DataInv
  <1>n. Outputs \in Nat \ {0}
    BY <1>0 DEF SizesInv, Outputs
  <1>a. UNCHANGED program
    BY DEF Next, Program, StatsOn, StatsOff, CallFir, CNextOutput, CProduct, AsmNextOutput,
           AsmProduct, FirReturns, PrintResult, Verify, PrintCounters, Exit,
           UartSend, Transmit, Halted, vars, program
  <1>c. Outputs' = Outputs
    BY <1>a DEF program, Outputs
  <1>b. UNCHANGED ram => Lines' = Lines
    BY <1>a DEF program, Lines, Outputs, ResultLine, Y
  <1>d. UNCHANGED elapsed => CounterLines' = CounterLines
    BY DEF CounterLines
  <1>t. /\ sent \in Seq(Character) /\ thr \in Seq(Character) /\ out \in Seq(Character)
        /\ i \in 0 .. Outputs /\ << >> \in Seq(Character)
    BY DEF PrintInv
  <1>l. ASSUME AfterFir
        PROVE  /\ Lines \in [1 .. Outputs -> Seq(Character)]
               /\ FlattenSeq(Prefix(Lines, i)) \in Seq(Character)
               /\ CounterLines \in Seq(Character)
    <2>1. /\ Lines \in [1 .. Outputs -> Seq(Character)]
          /\ CounterLine("mcycle", elapsed[1]) \in Seq(Character)
          /\ CounterLine("minstret", elapsed[2]) \in Seq(Character)
      BY <1>0, <1>l, LineTypes
    <2>2. FlattenSeq(Prefix(Lines, i)) \in Seq(Character)
      BY <1>n, <1>t, <2>1, FlattenStep
    <2>3. CounterLines \in Seq(Character)
      BY <2>1, ConcatProperties DEF CounterLines
    <2> QED
      BY <2>1, <2>2, <2>3
  <1>v. PICK x, y : /\ counter_names = <<x, y>>
                    /\ at = "minstret(0)" => x = "mcycle"
    BY DEF PrintInv, NamesInv
  <1>w. ASSUME counter_names' = <<"mcycle", "minstret">> PROVE NamesInv'
    BY <1>w DEF NamesInv
  <1>x. ASSUME UNCHANGED counter_names, at' # "minstret(0)" PROVE NamesInv'
    BY <1>v, <1>x DEF NamesInv
  <1>1. CASE \/ StatsOn \/ CallFir \/ CNextOutput \/ CProduct \/ AsmNextOutput
             \/ AsmProduct \/ FirReturns
    <2>1. at \in Early /\ at' \in Early /\ UNCHANGED <<i, sent, thr, out>>
      BY <1>1 DEF StatsOn, CallFir, CNextOutput, CProduct, AsmNextOutput, AsmProduct,
                  FirReturns, Early, console
    <2>2. at' \notin {"verify", "_init", "exit", "halt"}
      BY <2>1 DEF Early
    <2>3. NamesInv'
      <3>1. CASE FirReturns
        <4>1. counter_names' = [counter_names EXCEPT ![1] = "mcycle"]
          BY <3>1 DEF FirReturns, READ_CTR, CounterName
        <4>2. counter_names' = <<"mcycle", y>>
          BY <1>v, <4>1
        <4> QED
          BY <4>2 DEF NamesInv
      <3>2. CASE ~FirReturns
        <4>1. counter_names' = counter_names /\ at' # "minstret(0)"
          BY <1>1, <3>2 DEF StatsOn, CallFir, CNextOutput, CProduct, AsmNextOutput,
                            AsmProduct, READ_CTR, stats
        <4> QED
          BY <1>v, <4>1 DEF NamesInv
      <3> QED
        BY <3>1, <3>2
    <2> QED
      BY <1>c, <2>1, <2>2, <2>3 DEF PrintInv
  <1>2. CASE StatsOff
    <2>0. counter_names' = <<"mcycle", "minstret">>
      <3>1. /\ counter_names = <<"mcycle", y>>
            /\ counter_names' = [counter_names EXCEPT ![2] = "minstret"]
        BY <1>2, <1>v DEF StatsOff, READ_CTR, CounterName
      <3> QED
        BY <3>1
    <2>1. /\ at \in Early /\ AfterFir /\ at' = "print" /\ at' \notin Early
          /\ UNCHANGED <<ram, i, sent, thr, out>>
          /\ counter_names' = <<"mcycle", "minstret">>
      BY <1>2, <2>0 DEF StatsOff, AfterFir, Early, console
    <2>2. i = 0 /\ sent = << >> /\ thr = << >> /\ out = << >>
      BY <2>1 DEF PrintInv
    <2>3. FlattenSeq(Prefix(Lines, 0)) = << >>
      <3>1. 0 \in 0 .. Outputs /\ Outputs \in Nat
        BY <1>n
      <3> QED
        BY <1>l, <2>1, <3>1, FlattenStep
    <2>4. Printed' = << >>
      BY <1>b, <2>1, <2>2, <2>3 DEF Printed
    <2>5. << >> \o (<< >> \o << >>) = << >>
      BY <1>t, ConcatEmptySeq
    <2> QED
      BY <1>c, <1>t, <2>1, <2>2, <2>4, <2>5, <1>w, <1>x DEF PrintInv
  <1>3. CASE PrintResult
    <2>1. /\ at = "print" /\ out = << >> /\ AfterFir /\ at \notin Early
          /\ UNCHANGED <<ram, elapsed, sent, thr, counter_names>>
      BY <1>3 DEF PrintResult, AfterFir, Early, clocks, stats
    <2>2. sent \o (thr \o << >>) = FlattenSeq(Prefix(Lines, i))
      BY <2>1 DEF PrintInv, Printed
    <2>3. sent \o thr = FlattenSeq(Prefix(Lines, i))
      BY <1>t, <2>2, ConcatEmptySeq
    <2>4. CASE i < Outputs
      <3>1. /\ out' = ResultLine(i) /\ i' = i + 1 /\ at' = "print"
        <4>1. i \in 0 .. Outputs - 1
          BY <1>n, <1>t, <2>4
        <4> QED
          BY <1>0, <1>3, <2>1, <2>4, <4>1, LineTypes DEF PrintResult
      <3>2. i + 1 \in 1 .. Outputs /\ (i + 1) - 1 = i /\ i \in 0 .. Outputs
            /\ Outputs \in Nat
        BY <1>n, <1>t, <2>4
      <3>3. ResultLine(i) = Lines[i + 1] /\ ResultLine(i) \in Seq(Character)
        <4>1. Lines[i + 1] = ResultLine((i + 1) - 1)
          BY <3>2 DEF Lines
        <4> QED
          BY <1>l, <2>1, <3>2, <4>1
      <3>4. FlattenSeq(Prefix(Lines, i + 1)) = FlattenSeq(Prefix(Lines, i)) \o Lines[i + 1]
        BY <1>l, <2>1, <2>4, <3>2, FlattenStep
      <3>5. sent \o (thr \o ResultLine(i)) = (sent \o thr) \o ResultLine(i)
        <4> DEFINE line == ResultLine(i)
        <4>1. line \in Seq(Character)
          BY <3>3
        <4> HIDE DEF line
        <4>2. sent \o (thr \o line) = (sent \o thr) \o line
          BY <1>t, <4>1, ConcatAssociative
        <4> QED
          BY <4>2 DEF line
      <3>6. Printed' = FlattenSeq(Prefix(Lines, i + 1))
        BY <1>b, <2>1, <3>1 DEF Printed
      <3>7. (sent \o (thr \o out) = Printed)'
        BY <2>1, <2>3, <3>1, <3>3, <3>4, <3>5, <3>6
      <3>8. i' \in 0 .. Outputs
        BY <3>1, <3>2
      <3>9. at' \notin Early /\ at' \notin {"verify", "_init", "exit", "halt"}
        BY <3>1 DEF Early
      <3>10. counter_names' = <<"mcycle", "minstret">>
        BY <2>1 DEF PrintInv
      <3> QED
        BY <1>c, <1>t, <2>1, <3>1, <3>3, <3>7, <3>8, <3>9, <3>10, <1>w, <1>x DEF PrintInv
    <2>5. CASE ~(i < Outputs)
      <3>1. at' = "verify" /\ UNCHANGED <<i, out>> /\ i = Outputs
        BY <1>3, <1>n, <1>t, <2>5 DEF PrintResult
      <3>2. Printed' = Printed
        BY <1>b, <2>1, <3>1 DEF Printed
      <3>3. at' \notin Early
        BY <3>1 DEF Early
      <3> QED
        BY <1>c, <2>1, <3>1, <3>2, <3>3, <1>w, <1>x DEF PrintInv
    <2> QED
      BY <2>4, <2>5
  <1>4. CASE Verify
    <2>1. /\ at = "verify" /\ at' = "_init" /\ at \notin Early /\ at' \notin Early
          /\ UNCHANGED <<ram, elapsed, i, out, sent, thr, counter_names>>
      BY <1>4 DEF Verify, Early, clocks, stats
    <2>2. Printed' = Printed
      BY <1>b, <2>1 DEF Printed
    <2> QED
      BY <1>c, <2>1, <2>2, <1>w, <1>x DEF PrintInv
  <1>5. CASE PrintCounters
    <2>1. /\ at = "_init" /\ at' = "exit" /\ at \notin Early /\ at' \notin Early /\ AfterFir
          /\ UNCHANGED <<ram, elapsed, i, sent, thr, counter_names>>
      BY <1>5 DEF PrintCounters, Early, AfterFir, clocks, stats
    <2>2. \A r \in 1 .. 2 : counters[r] = elapsed[r] /\ counters[r] # 0
      <3> SUFFICES ASSUME NEW r \in 1 .. 2 PROVE counters[r] = elapsed[r] /\ counters[r] # 0
        OBVIOUS
      <3>1. counters[r] = elapsed[r] % LongMod
        BY <1>0, <2>1 DEF CounterInv, Unread, Measuring
      <3>2. elapsed[r] \in 1 .. HalfMod - 1
        BY <1>0, <2>1, FilterBound
      <3>3. HalfMod <= LongMod
        BY WordsNat DEF LongMod, WordMod
      <3>4. elapsed[r] % LongMod = elapsed[r]
        BY <3>2, <3>3, WordsNat
      <3> QED
        BY <3>1, <3>2, <3>4
    <2>3. counter_names[1] = "mcycle" /\ counter_names[2] = "minstret"
      BY <2>1 DEF PrintInv
    <2>4. \A r \in 1 .. 2 : FormatD(elapsed[r]) = Numeral(elapsed[r], 10)
      BY <1>0, <2>1, LineTypes
    <2>5. out' = CounterLines
      <3>1. 1 \in 1 .. 2 /\ 2 \in 1 .. 2
        OBVIOUS
      <3> QED
        BY <1>5, <2>2, <2>3, <2>4, <3>1 DEF PrintCounters, CounterLines, CounterLine
    <2>6. sent \o (thr \o << >>) = FlattenSeq(Prefix(Lines, i))
      BY <2>1 DEF PrintInv, Printed
    <2>7. sent \o thr = FlattenSeq(Prefix(Lines, i))
      BY <1>t, <2>6, ConcatEmptySeq
    <2>8. Printed' = FlattenSeq(Prefix(Lines, i)) \o CounterLines
      BY <1>b, <1>d, <2>1 DEF Printed
    <2>9. sent \o (thr \o CounterLines) = (sent \o thr) \o CounterLines
      BY <1>l, <1>t, <2>1, ConcatAssociative
    <2>10. (sent \o (thr \o out) = Printed)'
      BY <2>1, <2>5, <2>7, <2>8, <2>9
    <2> QED
      BY <1>c, <1>l, <2>1, <2>5, <2>10, <1>w, <1>x DEF PrintInv
  <1>6. CASE Exit
    <2>1. /\ at = "exit" /\ at' = "halt" /\ at \notin Early /\ at' \notin Early
          /\ out = << >>
          /\ UNCHANGED <<ram, elapsed, i, out, sent, thr, counter_names>>
      BY <1>6 DEF Exit, Early, clocks, stats
    <2>2. Printed' = Printed
      BY <1>b, <1>d, <2>1 DEF Printed
    <2> QED
      BY <1>c, <2>1, <2>2, <1>w, <1>x DEF PrintInv
  <1>7. CASE UartSend
    <2>1. /\ out # << >> /\ thr = << >> /\ thr' = <<Head(out)>> /\ out' = Tail(out)
          /\ UNCHANGED <<ram, at, elapsed, i, sent, counter_names>>
      BY <1>7 DEF UartSend, clocks, stats
    <2>2. at \notin Early /\ at \notin {"verify", "_init", "halt"}
      BY <2>1 DEF PrintInv
    <2>3. /\ Head(out) \in Character /\ Tail(out) \in Seq(Character)
          /\ <<Head(out)>> \in Seq(Character)
      BY <1>t, <2>1, HeadTailProperties
    <2>4. <<Head(out)>> \o Tail(out) = << >> \o out
      <3>1. << >> \o out = out
        BY <1>t, ConcatEmptySeq
      <3>2. <<Head(out)>> \o Tail(out) = out
        BY <1>t, <2>1, <2>3
      <3> QED
        BY <3>1, <3>2
    <2>5. Printed' = Printed
      BY <1>b, <1>d, <2>1 DEF Printed
    <2> QED
      BY <1>c, <2>1, <2>2, <2>3, <2>4, <2>5, <1>w, <1>x DEF PrintInv
  <1>8. CASE Transmit
    <2>1. /\ thr # << >> /\ sent' = sent \o thr /\ thr' = << >>
          /\ UNCHANGED <<ram, at, elapsed, i, out, counter_names>>
      BY <1>8 DEF Transmit, clocks, stats
    <2>2. at \notin Early
      BY <2>1 DEF PrintInv
    <2>3. /\ sent' \in Seq(Character) /\ << >> \o out = out
          /\ (sent \o thr) \o out = sent \o (thr \o out)
      BY <1>t, <2>1, ConcatProperties, ConcatEmptySeq, ConcatAssociative
    <2>4. Printed' = Printed
      BY <1>b, <1>d, <2>1 DEF Printed
    <2> QED
      BY <1>c, <1>t, <2>1, <2>2, <2>3, <2>4, <1>w, <1>x DEF PrintInv
  <1>9. CASE Halted \/ UNCHANGED vars
    <2>1. UNCHANGED <<ram, at, elapsed, i, out, sent, thr, counter_names>>
      BY <1>9 DEF Halted, vars
    <2>2. Printed' = Printed
      BY <1>b, <1>d, <2>1 DEF Printed
    <2>3. NamesInv'
      BY <1>v, <2>1 DEF NamesInv
    <2> QED
      BY <1>c, <2>1, <2>2, <2>3 DEF PrintInv
  <1> QED
    BY <1>1, <1>2, <1>3, <1>4, <1>5, <1>6, <1>7, <1>8, <1>9 DEF Next, Program

-----------------------------------------------------------------------------
(* The theorems. *)

\* Memory holds ints, main never counts past the last output or answers with
\* more than their number, and the counters and the UART keep their widths.
THEOREM TypeCorrect == Spec => []TypeOK
  <1>1. FirInv /\ DataInv /\ ExitInv /\ TypeInv => TypeOK
    <2> SUFFICES ASSUME FirInv, DataInv, ExitInv, TypeInv PROVE TypeOK
      OBVIOUS
    <2>1. ret \in 0 .. Outputs - 1
      BY AnswerType DEF FirInv, SizesInv, ExitInv, Outputs
    <2>2. counters \in Seq(0 .. LongMod - 1)
      BY DEF TypeInv
    <2>3. Len(thr) \in 0 .. 1
      BY DEF TypeInv
    <2>4. DOMAIN ram = 0 .. n + m + Outputs - 1 /\ \A a \in DOMAIN ram : ram[a] \in Word
      BY DEF DataInv, RamInv
    <2> QED
      BY <2>1, <2>2, <2>3, <2>4 DEF TypeOK, TypeInv
  <1> QED
    BY <1>1, SpecInv, SpecData, SpecExit, PTL

\* For any number of outputs, even or odd, and any table of expected results:
\* the word that ends the program is the position of the first wrong output,
\* the last one left aside (util.h:12-26, syscalls.c:94-98).
THEOREM ExitCodeCorrect == Spec => []ExitCodeTells
  <1>1. ExitInv => ExitCodeTells
    BY DEF ExitInv, ExitCodeTells, Answer, First
  <1> QED
    BY <1>1, SpecExit, PTL

\* Whatever the lengths of x and c, as long as c is the shorter one and not
\* empty, both filters read x and c and write y only where they have elements
\* (fir1.c:26, fir2.S:67-104).
THEOREM FiltersStayInBounds == Spec => []StaysInBounds
  <1>1. FirInv => StaysInBounds
    BY DEF FirInv, SizesInv, LoopInv, CLoop, AsmLoop, StaysInBounds, X, C, Y, Outputs
  <1> QED
    BY <1>1, SpecInv, PTL

\* What setStats(0) notes of each counter is what passed between its two reads
\* modulo its width, for every width, wherever the counters started and whatever
\* passes between the read of the one and of the other (syscalls.c:78-92).
THEOREM CountersShowElapsed == Spec => []CountersElapsed
  <1>1. FirInv => CountersElapsed
    BY DEF FirInv, CounterInv, Unread, Measuring, CountersElapsed, AfterFir
  <1> QED
    BY <1>1, SpecInv, PTL

\* Whatever the samples, the coefficients, their numbers and the width of an
\* int, both filters leave the convolution in y: the assembly one, which shifts
\* logically and cuts off at the end, as the C one (fir1.c:5-29, fir2.S:65-115).
THEOREM FiltersConvolve == Spec => []FilterCorrect
  <1>1. DataInv => FilterCorrect
    BY DEF DataInv, RightBefore, FilterCorrect
  <1> QED
    BY <1>1, SpecData, PTL

\* Every result and every counter leaves the UART once and in order, whatever
\* it takes to transmit a character: printnum's digits are those of the number
\* in every base up to 16, and the counters are what passed between their reads.
\* The counters are printed as ints, so the filter has to end within 2^31
\* cycles (syscalls.c:30-36, 156-174, 212-231).
THEOREM PrintedOnce == ASSUME CountersFit PROVE Spec => []NothingLostInPrint
  <1>1. FirInv /\ DataInv /\ ElapsedInv /\ PrintInv => NothingLostInPrint
    <2> SUFFICES ASSUME FirInv, DataInv, ElapsedInv, PrintInv, at = "halt"
                 PROVE  sent \o thr = Transcript
      BY DEF NothingLostInPrint
    <2>1. /\ sent \in Seq(Character) /\ thr \in Seq(Character)
          /\ i = Outputs /\ out = << >> /\ AfterFir
          /\ sent \o (thr \o out) = FlattenSeq(Prefix(Lines, Outputs)) \o CounterLines
      BY DEF PrintInv, Printed, Early, AfterFir
    <2>2. sent \o thr = FlattenSeq(Prefix(Lines, Outputs)) \o CounterLines
      BY <2>1, ConcatEmptySeq
    <2> DEFINE one == CounterLine("mcycle", elapsed[1])
               two == CounterLine("minstret", elapsed[2])
               all == FlattenSeq(Prefix(Lines, Outputs))
    <2>3. /\ Lines \in [1 .. Outputs -> Seq(Character)]
          /\ one \in Seq(Character) /\ two \in Seq(Character)
      BY <2>1, LineTypes DEF FirInv, DataInv
    <2>4. all \in Seq(Character)
      <3>1. Outputs \in Nat /\ Outputs \in 0 .. Outputs
        BY DEF FirInv, SizesInv, Outputs
      <3> QED
        BY <2>3, <3>1, FlattenStep
    <2>5. Prefix(Lines, Outputs) = [j \in 1 .. Outputs |-> ResultLine(j - 1)]
      BY DEF Prefix, Lines
    <2>6. Transcript = (all \o one) \o two
      BY <2>5 DEF Transcript
    <2>7. CounterLines = one \o two
      BY DEF CounterLines
    <2> HIDE DEF one, two, all
    <2>8. (all \o one) \o two = all \o (one \o two)
      BY <2>3, <2>4, ConcatAssociative
    <2> QED
      BY <2>2, <2>6, <2>7, <2>8 DEF all
  <1>2. FirInv /\ DataInv /\ (ElapsedInv /\ PrintInv) /\ [Next]_vars
          => (FirInv /\ DataInv /\ (ElapsedInv /\ PrintInv))'
    BY NextInv, NextData, NextElapsed, NextPrint
  <1> QED
    BY InitInv, InitData, InitElapsed, InitPrint, <1>1, <1>2, PTL DEF Spec
=============================================================================
