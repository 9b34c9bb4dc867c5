------------------------------ MODULE PhaseBarrier ------------------------------
(***************************************************************************)
(* What barrier() of src/lab1/common/util.h promises the threads of a     *)
(* bare-metal program: a thread may return from its r-th call only when    *)
(* every thread has made its r-th call.                                    *)
(***************************************************************************)
EXTENDS Naturals

CONSTANTS
  Threads,    \* the threads that share the barrier
  MaxRounds   \* bound: calls of barrier() per thread

VARIABLES
  entered,    \* how many calls each thread has made
  left        \* how many calls each thread has returned from

Init ==
  /\ entered = [t \in Threads |-> 0]
  /\ left = [t \in Threads |-> 0]

\* A thread that is outside calls barrier().
Call(t) ==
  /\ entered[t] = left[t]
  /\ entered[t] < MaxRounds
  /\ entered' = [entered EXCEPT ![t] = @ + 1]
  /\ UNCHANGED left

\* A thread returns once nobody is behind it.
Return(t) ==
  /\ left[t] < entered[t]
  /\ \A u \in Threads : entered[u] >= entered[t]
  /\ left' = [left EXCEPT ![t] = @ + 1]
  /\ UNCHANGED entered

Next == \E t \in Threads : Call(t) \/ Return(t)

Spec == Init /\ [][Next]_<<entered, left>>
=================================================================================
