---------------------------- MODULE Barrier_proofs ----------------------------
(***************************************************************************)
(* Proofs about Barrier for any finite set of threads, any number of       *)
(* phases and any width of the state counter: nobody passes early, and the *)
(* code implements the abstract barrier.                                   *)
(***************************************************************************)
EXTENDS Barrier, FiniteSetTheorems, TLAPS

\* Where a thread is tells which phase it belongs to.  A waiting thread either
\* waits in the current phase, with the current state saved, or has been
\* released from the phase before.
PhaseInv ==
  \A t \in Threads :
    /\ pc[t] \in {"work", "loaded", "reset", "advance"} => round[t] = phase
    /\ pc[t] = "loaded" => crt_state[t] = state /\ round[t] < Phases
    /\ pc[t] = "spin" => \/ round[t] = phase /\ crt_state[t] = state
                         \/ round[t] + 1 = phase

\* The types without the bound of count, which needs the rest of IInv.
Types ==
  /\ count \in Nat
  /\ state \in 0..(StateMod - 1)
  /\ pc \in [Threads -> {"work", "loaded", "spin", "reset", "advance"}]
  /\ crt_state \in [Threads -> 0..(StateMod - 1)]
  /\ round \in [Threads -> Nat]
  /\ phase \in Nat

\* NoEarlyPass is not inductive: that a thread leaves in time depends on the
\* state it saved, and that the last one is last on what count counts.
IInv == Types /\ PhaseInv /\ OneLast /\ CountAgrees

LEMMA InitIInv == Init => IInv
<1> SUFFICES ASSUME Init PROVE IInv
  OBVIOUS
<1>1. Waiting = {}
  BY DEF Init, Waiting, Arrived
<1>2. Types
  BY StateModAssumption DEF Init, Types
<1> QED
  BY <1>1, <1>2, FS_EmptySet DEF Init, IInv, PhaseInv, OneLast, CountAgrees

LEMMA Finite ==
  /\ IsFiniteSet(Waiting) /\ Cardinality(Waiting) \in Nat /\ Size \in Nat
  /\ Cardinality(Waiting) <= Size
  /\ Cardinality(Waiting) = Size => Waiting = Threads
<1>1. Waiting \in SUBSET Threads
  BY DEF Waiting, Arrived
<1>2. IsFiniteSet(Threads)
  BY ThreadsAssumption
<1> QED
  BY <1>1, <1>2, FS_Subset, FS_CardinalityType DEF Size

LEMMA TypeStep ==
  ASSUME Types, NEW t \in Threads, Step(t)
  PROVE  Types'
<1> USE DEF Types
<1>1. CASE LoadState(t)
  BY <1>1 DEF LoadState
<1>2. CASE Increment(t)
  BY <1>2 DEF Increment
<1>3. CASE ResetCount(t)
  BY <1>3 DEF ResetCount
<1>4. CASE AdvanceState(t)
  <2>1. (state + 1) % StateMod \in 0..(StateMod - 1)
    BY StateModAssumption
  <2> QED
    BY <1>4, <2>1 DEF AdvanceState
<1>5. CASE SeeNewState(t)
  BY <1>5 DEF SeeNewState
<1> QED
  BY <1>1, <1>2, <1>3, <1>4, <1>5 DEF Step

\* The heart of the argument, one action at a time.
LEMMA StepIInv ==
  ASSUME IInv, NEW t \in Threads, Step(t)
  PROVE  PhaseInv' /\ OneLast' /\ CountAgrees'
<1> USE DEF IInv, Types
<1>1. CASE LoadState(t)
  <2>1. Waiting' = Waiting
    BY <1>1 DEF LoadState, Waiting, Arrived
  <2>2. PhaseInv' /\ OneLast'
    BY <1>1 DEF LoadState, PhaseInv, OneLast
  <2> QED
    BY <1>1, <2>1, <2>2 DEF LoadState, CountAgrees
<1>2. CASE Increment(t)
  <2>1. pc[t] = "loaded" /\ round[t] = phase /\ t \notin Waiting
    BY <1>2 DEF Increment, PhaseInv, Waiting, Arrived
  <2>2. \A u \in Threads : pc[u] \notin {"reset", "advance"}
    BY <2>1 DEF OneLast
  <2>3. Waiting' = Waiting \cup {t}
    BY <1>2, <2>1 DEF Increment, Waiting, Arrived
  <2>4. count = Cardinality(Waiting) /\ Cardinality(Waiting') = Cardinality(Waiting) + 1
    BY <2>1, <2>2, <2>3, Finite, FS_AddElement DEF CountAgrees
  <2>5. PhaseInv'
    BY <1>2 DEF Increment, PhaseInv
  <2>6. CountAgrees'
    BY <1>2, <2>2, <2>4 DEF Increment, CountAgrees
  <2>7. OneLast'
    <3>1. CASE count = Size - 1
      <4>1. Waiting' \in SUBSET Threads /\ IsFiniteSet(Threads)
        BY ThreadsAssumption, <2>3 DEF Waiting, Arrived
      <4>2. Cardinality(Waiting') = Size
        BY <2>4, <3>1, Finite
      <4>3. Waiting \cup {t} = Threads
        BY <2>3, <4>1, <4>2, FS_Subset DEF Size
      <4>4. \A u \in Threads \ {t} : pc[u] = "spin" /\ round[u] = phase
        BY <2>2, <4>3 DEF Waiting, Arrived
      <4> QED
        BY <1>2, <2>1, <2>2, <4>4 DEF Increment, OneLast
    <3>2. CASE count # Size - 1
      BY <1>2, <2>2, <3>2 DEF Increment, OneLast
    <3> QED
      BY <3>1, <3>2
  <2> QED
    BY <2>5, <2>6, <2>7
<1>3. CASE ResetCount(t)
  BY <1>3 DEF ResetCount, PhaseInv, OneLast, CountAgrees
<1>4. CASE AdvanceState(t)
  <2>1. pc[t] = "advance" /\ round[t] = phase
    BY <1>4 DEF AdvanceState, PhaseInv
  <2>2. \A u \in Threads \ {t} : pc[u] = "spin" /\ round[u] = phase
    BY <2>1 DEF OneLast
  <2>3. count = 0
    BY <2>1 DEF CountAgrees
  <2>4. Waiting' = {}
    BY <1>4, <2>1, <2>2 DEF AdvanceState, Waiting, Arrived
  <2>5. PhaseInv' /\ OneLast'
    BY <1>4, <2>1, <2>2 DEF AdvanceState, PhaseInv, OneLast
  <2> QED
    BY <1>4, <2>2, <2>3, <2>4, <2>5, FS_EmptySet DEF AdvanceState, CountAgrees
<1>5. CASE SeeNewState(t)
  <2>1. pc[t] = "spin" /\ round[t] + 1 = phase
    BY <1>5 DEF SeeNewState, PhaseInv
  <2>2. Waiting' = Waiting
    BY <1>5, <2>1 DEF SeeNewState, Waiting, Arrived
  <2>3. \A u \in Threads : pc[u] \notin {"reset", "advance"}
    BY <2>1 DEF OneLast, PhaseInv
  <2> QED
    BY <1>5, <2>1, <2>2, <2>3 DEF SeeNewState, PhaseInv, OneLast, CountAgrees
<1> QED
  BY <1>1, <1>2, <1>3, <1>4, <1>5 DEF Step

LEMMA IInvStep == IInv /\ [Next]_vars => IInv'
<1> SUFFICES ASSUME IInv, [Next]_vars PROVE IInv'
  OBVIOUS
<1>1. ASSUME NEW t \in Threads, Step(t) PROVE IInv'
  BY <1>1, TypeStep, StepIInv DEF IInv
<1>2. CASE UNCHANGED vars
  BY <1>2 DEF vars, IInv, Types, PhaseInv, OneLast, CountAgrees, Waiting, Arrived
<1> QED
  BY <1>1, <1>2 DEF Next

LEMMA Invariance == Spec => []IInv
BY InitIInv, IInvStep, PTL DEF Spec

-------------------------------------------------------------------------------
\* barrier.h, 32, "safe for multiple reuse cycles": nobody runs ahead by more
\* than the phase everybody has already arrived for.
THEOREM Safety == Spec => []NoEarlyPass
<1>1. IInv => NoEarlyPass
  BY DEF IInv, Types, PhaseInv, NoEarlyPass, Arrived
<1> QED
  BY <1>1, Invariance, PTL

\* count means the same in every phase, and the reset erases no arrival.
THEOREM Counting == Spec => []TypeOK /\ []CountAgrees /\ []OneLast
<1>1. IInv => TypeOK /\ CountAgrees /\ OneLast
  BY Finite DEF IInv, Types, TypeOK, CountAgrees
<1> QED
  BY <1>1, Invariance, PTL

\* Every behaviour of the code is one of the abstract barrier.
THEOREM Implementation == Spec => ImplementsAbstract
<1>1. Init => Abstract!AInit
  BY DEF Init, Abstract!AInit, Arrived
<1>2. IInv /\ [Next]_vars => [Abstract!ANext]_(Abstract!avars)
  <2> SUFFICES ASSUME IInv, [Next]_vars PROVE [Abstract!ANext]_(Abstract!avars)
    OBVIOUS
  <2> USE DEF IInv, Types, Abstract!avars, Abstract!ANext
  <2>1. ASSUME NEW t \in Threads, Increment(t) PROVE Abstract!Arrive(t)
    BY <2>1 DEF Increment, PhaseInv, Arrived, Abstract!Arrive
  <2>2. ASSUME NEW t \in Threads, AdvanceState(t) PROVE Abstract!Leave(t)
    BY <2>2 DEF AdvanceState, OneLast, Arrived, Abstract!Leave
  <2>3. ASSUME NEW t \in Threads, SeeNewState(t) PROVE Abstract!Leave(t)
    <3>1. pc[t] = "spin" /\ round[t] + 1 = phase
      BY <2>3 DEF SeeNewState, PhaseInv
    <3>2. \A u \in Threads : round[u] = phase \/ (round[u] + 1 = phase /\ u \in Arrived)
      BY DEF PhaseInv, Arrived
    <3> QED
      BY <2>3, <3>1, <3>2 DEF SeeNewState, Arrived, Abstract!Leave
  <2>4. ASSUME NEW t \in Threads, LoadState(t) \/ ResetCount(t)
        PROVE  UNCHANGED <<round, Arrived>>
    BY <2>4 DEF LoadState, ResetCount, Arrived
  <2>5. CASE UNCHANGED vars
    BY <2>5 DEF vars, Arrived
  <2> QED
    BY <2>1, <2>2, <2>3, <2>4, <2>5 DEF Next, Step
<1> QED
  BY <1>1, <1>2, Invariance, PTL DEF Spec, ImplementsAbstract, Abstract!ASpec
===============================================================================
