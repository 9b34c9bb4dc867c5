-------------------------------- MODULE Barrier --------------------------------
(***************************************************************************)
(* barrier() of src/lab1/common/util.h: the sense-reversing barrier the    *)
(* run-time library of lab 1 offers to programs that run on several cores. *)
(* One step of a thread is one access to a variable the threads share, in  *)
(* program order: the two fences bracket the body, and the accesses to     *)
(* count and sense are taken to reach memory in the order of the code.     *)
(***************************************************************************)
EXTENDS Naturals, FiniteSets

CONSTANTS
  Threads,    \* the threads that call barrier(ncores), one per core
  ncores,     \* the argument of the call
  MaxRounds   \* bound: calls of barrier() per thread

ASSUME BarrierAssumption ==
  /\ IsFiniteSet(Threads)
  /\ Threads # {}
  /\ ncores = Cardinality(Threads)
  /\ MaxRounds \in Nat

VARIABLES
  count,        \* threads that arrived in this round
  sense,        \* flips when a round is complete
  threadsense,  \* per thread: the sense that will release it
  pc,           \* per thread: the next access
  entered,      \* history: calls made
  left,         \* history: calls returned from
  released      \* history: rounds completed (writes of sense)

shared == <<count, sense>>
vars == <<count, sense, threadsense, pc, entered, left, released>>

Labels == {"outside", "add", "clear", "publish", "spin"}

TypeOK ==
  /\ count \in 0..ncores
  /\ sense \in {0, 1}
  /\ threadsense \in [Threads -> {0, 1}]
  /\ pc \in [Threads -> Labels]
  /\ entered \in [Threads -> Nat]
  /\ left \in [Threads -> Nat]
  /\ released \in Nat

Init ==
  /\ count = 0
  /\ sense = 0
  /\ threadsense = [t \in Threads |-> 0]
  /\ pc = [t \in Threads |-> "outside"]
  /\ entered = [t \in Threads |-> 0]
  /\ left = [t \in Threads |-> 0]
  /\ released = 0

\* Mutant: the sense of a thread is set instead of flipped
EnterWithoutFlip(t) ==
  /\ pc[t] = "outside"
  /\ entered[t] < MaxRounds
  /\ threadsense' = [threadsense EXCEPT ![t] = 1]
  /\ pc' = [pc EXCEPT ![t] = "add"]
  /\ entered' = [entered EXCEPT ![t] = @ + 1]
  /\ UNCHANGED <<shared, left, released>>

\* The call: the thread flips its own sense.
Enter(t) ==
  /\ pc[t] = "outside"
  /\ entered[t] < MaxRounds
  /\ threadsense' = [threadsense EXCEPT ![t] = 1 - @]
  /\ pc' = [pc EXCEPT ![t] = "add"]
  /\ entered' = [entered EXCEPT ![t] = @ + 1]
  /\ UNCHANGED <<shared, left, released>>

\* Mutant: the counter is compared one too early
FetchAndAddOneEarly(t) ==
  /\ pc[t] = "add"
  /\ count' = count + 1
  /\ pc' = [pc EXCEPT ![t] = IF count + 1 = ncores - 1 THEN "clear" ELSE "spin"]
  /\ UNCHANGED <<sense, threadsense, entered, left, released>>

\* __sync_fetch_and_add: the thread that finds ncores - 1 is the last one.
FetchAndAdd(t) ==
  /\ pc[t] = "add"
  /\ count' = count + 1
  /\ pc' = [pc EXCEPT ![t] = IF count = ncores - 1 THEN "clear" ELSE "spin"]
  /\ UNCHANGED <<sense, threadsense, entered, left, released>>

\* Mutant: the counter is not made ready for the next round
ClearCountForgotten(t) ==
  /\ pc[t] = "clear"
  /\ pc' = [pc EXCEPT ![t] = "publish"]
  /\ UNCHANGED <<shared, threadsense, entered, left, released>>

\* Mutant: the counter is cleared to the last thread's own arrival
ClearCountToOne(t) ==
  /\ pc[t] = "clear"
  /\ count' = 1
  /\ pc' = [pc EXCEPT ![t] = "publish"]
  /\ UNCHANGED <<sense, threadsense, entered, left, released>>

\* The last thread makes the counter ready for the next round ...
ClearCount(t) ==
  /\ pc[t] = "clear"
  /\ count' = 0
  /\ pc' = [pc EXCEPT ![t] = "publish"]
  /\ UNCHANGED <<sense, threadsense, entered, left, released>>

\* ... and only then releases the others; it returns.
PublishSense(t) ==
  /\ pc[t] = "publish"
  /\ sense' = threadsense[t]
  /\ pc' = [pc EXCEPT ![t] = "outside"]
  /\ left' = [left EXCEPT ![t] = @ + 1]
  /\ released' = released + 1
  /\ UNCHANGED <<count, threadsense, entered>>

\* while (sense != threadsense): one reading of sense that ends the loop.
LeaveSpin(t) ==
  /\ pc[t] = "spin"
  /\ sense = threadsense[t]
  /\ pc' = [pc EXCEPT ![t] = "outside"]
  /\ left' = [left EXCEPT ![t] = @ + 1]
  /\ UNCHANGED <<shared, threadsense, entered, released>>

\* One reading of sense that does not end it.
SpinAgain(t) ==
  /\ pc[t] = "spin"
  /\ sense # threadsense[t]
  /\ UNCHANGED vars

\* What a thread does inside the call.
Inside(t) ==
  FetchAndAdd(t) \/ ClearCount(t) \/ PublishSense(t) \/ LeaveSpin(t) \/ SpinAgain(t)

\* Every thread has made all its calls: the program goes on without barriers.
Finished ==
  /\ \A t \in Threads : pc[t] = "outside" /\ entered[t] = MaxRounds
  /\ UNCHANGED vars

Next == (\E t \in Threads : Enter(t) \/ Inside(t)) \/ Finished

Spec == Init /\ [][Next]_vars

\* Every core keeps executing: a thread inside the call takes its next step.
FairSpec == Spec /\ \A t \in Threads : WF_vars(Inside(t))

---------------------------------------------------------------------------------
(* What makes it a barrier that can be used again. *)

\* barrier() keeps the promise of PhaseBarrier: nobody returns from a round
\* that somebody has not entered, in whatever order the threads run and
\* however early the fast ones call again (util.h:52-59).
Abstract == INSTANCE PhaseBarrier
Refines == Abstract!Spec

Arrived == {t \in Threads : pc[t] \in {"spin", "clear"} /\ entered[t] = released + 1}

\* The counter never loses or keeps an arrival: outside the window between
\* the last thread's two stores it is the number of threads that wait for
\* the round in progress, although threads still leave the previous one
\* (util.h:53, 55).
CountIsArrivals ==
  IF \E t \in Threads : pc[t] = "publish"
  THEN count = 0
  ELSE count = Cardinality(Arrived)

\* The inductive invariant.  A thread is at most one round ahead of the
\* rounds completed, and its sense says which of the two holds; the last
\* thread finds everybody else waiting for it.
LastArrivals == {"clear", "publish"}

InRound(t) ==
  /\ entered[t] = IF threadsense[t] = sense THEN released ELSE released + 1
  /\ left[t] = IF pc[t] = "outside" THEN entered[t] ELSE entered[t] - 1
  /\ pc[t] = "outside" => entered[t] = released
  /\ pc[t] \in LastArrivals \cup {"add"} => entered[t] = released + 1

OthersWait(t) ==
  pc[t] \in LastArrivals =>
    \A u \in Threads \ {t} : pc[u] = "spin" /\ entered[u] = released + 1

IInv ==
  /\ TypeOK
  /\ \A t \in Threads : InRound(t) /\ OthersWait(t)
  /\ CountIsArrivals
  /\ (\A t \in Threads : pc[t] \notin LastArrivals) => count < ncores

\* A thread that still spins on a completed round can always see that it is
\* complete: no thread runs so far ahead that sense flips back before the
\* slow ones have read it (util.h:56-59).
NobodyLeftBehind ==
  \A t \in Threads :
    (pc[t] = "spin" /\ entered[t] <= released) => sense = threadsense[t]

\* A round everybody has entered is eventually left by everybody
\* (util.h:53-59), whatever the threads outside do.
RoundsComplete ==
  \A t \in Threads : \A r \in 1..MaxRounds :
    (\A u \in Threads : entered[u] >= r) ~> (left[t] >= r)
=================================================================================
