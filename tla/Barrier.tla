------------------------------- MODULE Barrier -------------------------------
(***************************************************************************)
(* The reusable spinning barrier of synchronization/barrier.c.  As many    *)
(* threads as the barrier's size call barrier_wait once per phase, like    *)
(* the loop of test/barrier.c.  An action is one access to an atomic.      *)
(***************************************************************************)
EXTENDS Integers, FiniteSets

CONSTANTS Threads,   \* the participants; barrier_t.size is their number
          Phases,    \* how often each calls barrier_wait (NUM_PHASES)
          StateMod   \* barrier_t.state wraps at this value (2^32 in the code)

Size == Cardinality(Threads)

ASSUME ThreadsAssumption == IsFiniteSet(Threads) /\ Threads # {}
ASSUME PhasesAssumption == Phases \in Nat
ASSUME StateModAssumption == StateMod \in Nat /\ StateMod >= 2

VARIABLES count,      \* barrier_t.count: threads that have arrived
          state,      \* barrier_t.state: the phase number, wrapping
          pc,         \* where each thread is
          crt_state,  \* the local crt_state of barrier_wait
          round,      \* history: how many phases each thread has passed
          phase       \* history: how often state was advanced, not wrapping

vars == <<count, state, pc, crt_state, round, phase>>

\* The threads that have incremented count and have not yet returned.
Arrived == {t \in Threads : pc[t] \in {"spin", "reset", "advance"}}

-------------------------------------------------------------------------------
Init ==
  /\ count = 0
  /\ state = 0
  /\ pc = [t \in Threads |-> "work"]
  /\ crt_state = [t \in Threads |-> 0]
  /\ round = [t \in Threads |-> 0]
  /\ phase = 0

\* Entering barrier_wait: remember the state of this phase.
LoadState(t) ==
  /\ pc[t] = "work"
  /\ round[t] < Phases
  /\ pc' = [pc EXCEPT ![t] = "loaded"]
  /\ crt_state' = [crt_state EXCEPT ![t] = state]
  /\ UNCHANGED <<count, state, round, phase>>

\* Mutant: the last but one takes itself for the last.
IncrementEarly(t) ==
  /\ pc[t] = "loaded"
  /\ count' = count + 1
  /\ pc' = [pc EXCEPT ![t] = IF count = Size - 2 THEN "reset" ELSE "spin"]
  /\ UNCHANGED <<state, crt_state, round, phase>>

\* The fetch-and-add on count: its result decides who is last.
Increment(t) ==
  /\ pc[t] = "loaded"
  /\ count' = count + 1
  /\ pc' = [pc EXCEPT ![t] = IF count = Size - 1 THEN "reset" ELSE "spin"]
  /\ UNCHANGED <<state, crt_state, round, phase>>

\* Mutant: count is not cleared.
ResetForgotten(t) ==
  /\ pc[t] = "reset"
  /\ pc' = [pc EXCEPT ![t] = "advance"]
  /\ UNCHANGED <<count, state, crt_state, round, phase>>

\* The last thread clears count before it lets anybody go.
ResetCount(t) ==
  /\ pc[t] = "reset"
  /\ count' = 0
  /\ pc' = [pc EXCEPT ![t] = "advance"]
  /\ UNCHANGED <<state, crt_state, round, phase>>

\* Mutant: the last thread releases nobody.
AdvanceForgotten(t) ==
  /\ pc[t] = "advance"
  /\ phase' = phase + 1
  /\ pc' = [pc EXCEPT ![t] = "work"]
  /\ round' = [round EXCEPT ![t] = @ + 1]
  /\ UNCHANGED <<count, state, crt_state>>

\* It then advances state, which releases the others, and returns.
AdvanceState(t) ==
  /\ pc[t] = "advance"
  /\ state' = (state + 1) % StateMod
  /\ phase' = phase + 1
  /\ pc' = [pc EXCEPT ![t] = "work"]
  /\ round' = [round EXCEPT ![t] = @ + 1]
  /\ UNCHANGED <<count, crt_state>>

\* Mutant: a waiting thread does not look at state.
SeeAnyState(t) ==
  /\ pc[t] = "spin"
  /\ pc' = [pc EXCEPT ![t] = "work"]
  /\ round' = [round EXCEPT ![t] = @ + 1]
  /\ UNCHANGED <<count, state, crt_state, phase>>

\* A waiting thread returns once it reads a state other than the one it saved.
SeeNewState(t) ==
  /\ pc[t] = "spin"
  /\ state # crt_state[t]
  /\ pc' = [pc EXCEPT ![t] = "work"]
  /\ round' = [round EXCEPT ![t] = @ + 1]
  /\ UNCHANGED <<count, state, crt_state, phase>>

Step(t) ==
  LoadState(t) \/ Increment(t) \/ ResetCount(t) \/ AdvanceState(t) \/ SeeNewState(t)

Next == \E t \in Threads : Step(t)

Spec == Init /\ [][Next]_vars

\* The scheduler runs every thread again and again, and every thread calls
\* barrier_wait until it has done its phases.
FairSpec == Spec /\ \A t \in Threads : WF_vars(Step(t))

-------------------------------------------------------------------------------
TypeOK ==
  /\ count \in 0..Size
  /\ state \in 0..(StateMod - 1)
  /\ pc \in [Threads -> {"work", "loaded", "spin", "reset", "advance"}]
  /\ crt_state \in [Threads -> 0..(StateMod - 1)]
  /\ round \in [Threads -> Nat]
  /\ phase \in Nat

\* Nobody runs ahead: when one thread has passed more phases than another, it
\* is by one phase, and the slower one has arrived and is about to be let go
\* ("safe for multiple reuse cycles", barrier.h, 32).
NoEarlyPass ==
  \A t, u \in Threads : round[t] > round[u] =>
    round[t] = round[u] + 1 /\ u \in Arrived

\* count never counts an arrival of one phase in the next: it is the number of
\* threads waiting in the current phase, and 0 once the last one cleared it.
Waiting == {t \in Arrived : round[t] = phase}
CountAgrees ==
  count = IF \E t \in Threads : pc[t] = "advance" THEN 0 ELSE Cardinality(Waiting)

\* At most one thread takes the last arrival's path, and only when all the
\* others wait: the reset never erases an arrival.
OneLast ==
  \A t \in Threads : pc[t] \in {"reset", "advance"} =>
    \A u \in Threads \ {t} : pc[u] = "spin" /\ round[u] = round[t]

\* Every thread gets through all its phases: no release is missed, although a
\* released thread may come round again before a slow one has looked at state.
AllPass == <>(\A t \in Threads : round[t] = Phases)

\* The barrier implements the abstract barrier.
Abstract == INSTANCE AbstractBarrier WITH inside <- Arrived
ImplementsAbstract == Abstract!ASpec
===============================================================================
