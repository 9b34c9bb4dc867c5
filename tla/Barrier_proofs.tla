----------------------------- MODULE Barrier_proofs -----------------------------
(***************************************************************************)
(* For any number of threads and of rounds: the barrier of util.h keeps    *)
(* its counter and its sense right, and implements PhaseBarrier.           *)
(***************************************************************************)
EXTENDS Barrier, FiniteSetTheorems, TLAPS

LEMMA NcoresType == ncores \in Nat \ {0}
  BY BarrierAssumption, FS_CardinalityType, FS_EmptySet

\* The threads that wait are finitely many.
LEMMA ArrivedFinite == IsFiniteSet(Arrived) /\ Cardinality(Arrived) \in Nat
  BY BarrierAssumption, FS_Subset, FS_CardinalityType DEF Arrived

LEMMA InitIInv == Init => IInv
<1> SUFFICES ASSUME Init PROVE IInv
  OBVIOUS
<1>1. Arrived = {}
  BY DEF Init, Arrived
<1>2. CountIsArrivals
  BY <1>1, FS_EmptySet DEF CountIsArrivals, Init
<1>3. TypeOK
  BY NcoresType DEF Init, TypeOK, Labels
<1>4. \A t \in Threads : InRound(t) /\ OthersWait(t)
  BY DEF Init, InRound, OthersWait, LastArrivals
<1> QED
  BY <1>2, <1>3, <1>4, NcoresType DEF IInv, Init

LEMMA EnterIInv ==
  ASSUME IInv, NEW t \in Threads, Enter(t)
  PROVE  IInv'
<1> USE DEF IInv, Enter, shared
<1>1. \A u \in Threads : pc[u] \notin LastArrivals
  BY DEF OthersWait, LastArrivals
<1>2. TypeOK'
  BY DEF TypeOK, Labels
<1>3. \A u \in Threads : InRound(u)'
  BY DEF TypeOK, InRound, LastArrivals
<1>4. \A u \in Threads : OthersWait(u)'
  BY <1>1 DEF OthersWait, LastArrivals, TypeOK
<1>5. Arrived' = Arrived
  BY DEF Arrived, TypeOK
<1>6. CountIsArrivals'
  BY <1>1, <1>5 DEF CountIsArrivals, LastArrivals, TypeOK
<1> QED
  BY <1>1, <1>2, <1>3, <1>4, <1>6

\* The last thread to arrive finds all the others waiting for this round.
LEMMA LastFindsAllWaiting ==
  ASSUME IInv, NEW t \in Threads, pc[t] = "add", count = ncores - 1
  PROVE  \A u \in Threads \ {t} : pc[u] = "spin" /\ entered[u] = released + 1
<1>1. \A u \in Threads : pc[u] \notin LastArrivals
  BY DEF IInv, OthersWait, LastArrivals
<1>2. count = Cardinality(Arrived)
  BY <1>1 DEF IInv, CountIsArrivals, LastArrivals
<1>3. t \notin Arrived
  BY DEF Arrived
<1>4. Cardinality(Arrived \cup {t}) = ncores
  <2>1. Cardinality(Arrived \cup {t}) = Cardinality(Arrived) + 1
    BY <1>3, ArrivedFinite, FS_AddElement
  <2> QED
    BY <1>2, <2>1, NcoresType
<1>5. Arrived \cup {t} \in SUBSET Threads
  BY DEF Arrived
<1>6. Arrived \cup {t} = Threads
  BY <1>4, <1>5, BarrierAssumption, FS_Subset
<1> QED
  BY <1>1, <1>6 DEF Arrived, LastArrivals

LEMMA FetchAndAddIInv ==
  ASSUME IInv, NEW t \in Threads, FetchAndAdd(t)
  PROVE  IInv'
<1> USE DEF FetchAndAdd
<1>1. \A u \in Threads : pc[u] \notin LastArrivals
  BY DEF IInv, OthersWait, LastArrivals
<1>2. count < ncores /\ count = Cardinality(Arrived)
  BY <1>1 DEF IInv, CountIsArrivals, LastArrivals
<1>3. TypeOK'
  BY <1>2, NcoresType DEF IInv, TypeOK, Labels
<1>4. \A u \in Threads : InRound(u)'
  BY DEF IInv, TypeOK, InRound, LastArrivals
<1>5. \A u \in Threads : OthersWait(u)'
  BY <1>1, LastFindsAllWaiting DEF IInv, TypeOK, OthersWait, LastArrivals
<1>6. CountIsArrivals'
  <2>1. t \notin Arrived
    BY DEF Arrived
  <2>2. Arrived' = Arrived \cup {t}
    BY DEF IInv, TypeOK, InRound, LastArrivals, Arrived
  <2>3. Cardinality(Arrived') = Cardinality(Arrived) + 1
    BY <2>1, <2>2, ArrivedFinite, FS_AddElement
  <2>4. \A u \in Threads : pc'[u] # "publish"
    BY <1>1 DEF IInv, TypeOK, LastArrivals
  <2> QED
    BY <1>2, <2>3, <2>4 DEF CountIsArrivals
<1>7. (\A u \in Threads : pc[u] \notin LastArrivals)' => count' < ncores
  BY <1>2, NcoresType DEF IInv, TypeOK, LastArrivals
<1> QED
  BY <1>3, <1>4, <1>5, <1>6, <1>7 DEF IInv

LEMMA ClearCountIInv ==
  ASSUME IInv, NEW t \in Threads, ClearCount(t)
  PROVE  IInv'
<1> USE DEF IInv, ClearCount
<1>1. TypeOK'
  BY NcoresType DEF TypeOK, Labels
<1>2. \A u \in Threads : InRound(u)' /\ OthersWait(u)'
  BY DEF TypeOK, InRound, OthersWait, LastArrivals
<1>3. CountIsArrivals'
  BY DEF CountIsArrivals, TypeOK
<1> QED
  BY <1>1, <1>2, <1>3, NcoresType

LEMMA PublishSenseIInv ==
  ASSUME IInv, NEW t \in Threads, PublishSense(t)
  PROVE  IInv'
<1> USE DEF IInv, PublishSense
<1>1. \A u \in Threads \ {t} : pc[u] = "spin" /\ entered[u] = released + 1
  BY DEF OthersWait, LastArrivals
<1>2. entered[t] = released + 1
  BY DEF InRound, LastArrivals
<1>3. TypeOK'
  BY DEF TypeOK, Labels
<1>4. \A u \in Threads : InRound(u)'
  BY <1>1, <1>2 DEF TypeOK, InRound, LastArrivals
<1>5. \A u \in Threads : OthersWait(u)'
  BY <1>1 DEF OthersWait, LastArrivals, TypeOK
<1>6. count = 0
  BY DEF CountIsArrivals
<1>7. Arrived' = {}
  BY <1>1, <1>2 DEF Arrived, TypeOK
<1>8. CountIsArrivals'
  BY <1>1, <1>6, <1>7, FS_EmptySet DEF CountIsArrivals, TypeOK
<1> QED
  BY <1>3, <1>4, <1>5, <1>6, <1>8, NcoresType

LEMMA LeaveSpinIInv ==
  ASSUME IInv, NEW t \in Threads, LeaveSpin(t)
  PROVE  IInv'
<1> USE DEF IInv, LeaveSpin, shared
<1>1. entered[t] = released
  BY DEF InRound
<1>2. \A u \in Threads : pc[u] \notin LastArrivals
  BY <1>1 DEF OthersWait, LastArrivals, TypeOK
<1>3. TypeOK'
  BY DEF TypeOK, Labels
<1>4. \A u \in Threads : InRound(u)'
  BY <1>1 DEF TypeOK, InRound, LastArrivals
<1>5. \A u \in Threads : OthersWait(u)'
  BY <1>2 DEF OthersWait, LastArrivals, TypeOK
<1>6. Arrived' = Arrived
  BY <1>1 DEF Arrived, TypeOK
<1>7. CountIsArrivals'
  BY <1>2, <1>6 DEF CountIsArrivals, LastArrivals, TypeOK
<1> QED
  BY <1>2, <1>3, <1>4, <1>5, <1>7

LEMMA StutterIInv == IInv /\ UNCHANGED vars => IInv'
  BY DEF IInv, TypeOK, InRound, OthersWait, CountIsArrivals, Arrived, vars

LEMMA NextIInv == IInv /\ [Next]_vars => IInv'
  BY EnterIInv, FetchAndAddIInv, ClearCountIInv, PublishSenseIInv, LeaveSpinIInv,
     StutterIInv DEF Next, Inside, SpinAgain, Finished

LEMMA IInvHolds == Spec => []IInv
  BY InitIInv, NextIInv, PTL DEF Spec

\* The variables of the barrier keep their types; the counter never passes
\* the number of cores (util.h:53).
THEOREM TypeCorrect == Spec => []TypeOK
<1>1. IInv => TypeOK
  BY DEF IInv
<1> QED
  BY <1>1, IInvHolds, PTL

\* Outside the window between the last thread's two stores the counter is
\* the number of threads that wait for this round (util.h:53-56).
THEOREM CountCorrect == Spec => []CountIsArrivals
<1>1. IInv => CountIsArrivals
  BY DEF IInv
<1> QED
  BY <1>1, IInvHolds, PTL

\* Whoever spins on a completed round sees it complete (util.h:56-59).
THEOREM NoThreadLeftBehind == Spec => []NobodyLeftBehind
<1>1. IInv => NobodyLeftBehind
  BY DEF IInv, InRound, NobodyLeftBehind, TypeOK
<1> QED
  BY <1>1, IInvHolds, PTL

\* Each step of the barrier is a call, a return or nothing to PhaseBarrier.
LEMMA StepRefines == IInv /\ [Next]_vars => [Abstract!Next]_<<entered, left>>
<1> SUFFICES ASSUME IInv, [Next]_vars
             PROVE  [Abstract!Next]_<<entered, left>>
  OBVIOUS
<1>1. ASSUME NEW t \in Threads, Enter(t) PROVE Abstract!Call(t)
  BY <1>1 DEF IInv, InRound, Enter, Abstract!Call
<1>2. ASSUME NEW t \in Threads, PublishSense(t) PROVE Abstract!Return(t)
  <2>1. \A u \in Threads : entered[u] >= entered[t]
    BY <1>2 DEF IInv, TypeOK, InRound, OthersWait, LastArrivals, PublishSense
  <2> QED
    BY <1>2, <2>1 DEF IInv, TypeOK, InRound, PublishSense, Abstract!Return
<1>3. ASSUME NEW t \in Threads, LeaveSpin(t) PROVE Abstract!Return(t)
  <2>1. \A u \in Threads : entered[u] >= entered[t]
    BY <1>3 DEF IInv, TypeOK, InRound, LeaveSpin
  <2> QED
    BY <1>3, <2>1 DEF IInv, TypeOK, InRound, LeaveSpin, Abstract!Return
<1> QED
  BY <1>1, <1>2, <1>3
  DEF Next, Inside, FetchAndAdd, ClearCount, SpinAgain, Finished, vars, Abstract!Next

\* barrier() implements PhaseBarrier: nobody returns from a round that
\* somebody has not entered (util.h:52-59).
THEOREM BarrierRefines == Spec => Refines
<1>1. Init => Abstract!Init
  BY DEF Init, Abstract!Init
<1> QED
  BY <1>1, StepRefines, IInvHolds, PTL DEF Spec, Refines, Abstract!Spec
=================================================================================
