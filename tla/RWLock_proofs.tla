----------------------------- MODULE RWLock_proofs -----------------------------
(***************************************************************************)
(* Proofs about RWLock for any finite set of threads: type correctness,    *)
(* mutual exclusion, the meaning of the two counters, and that no reader   *)
(* overtakes a writer that was waiting before it.                          *)
(***************************************************************************)
EXTENDS RWLock, FiniteSetTheorems, TLAPS

\* The types without the bounds of the counters, which need the rest of IInv.
Types ==
  /\ cnt \in Int /\ writers \in Int
  /\ pc \in [Threads -> Labels]
  /\ c \in [Threads -> Int]
  /\ ahead \in [Threads -> SUBSET Threads]

\* The types alone are inductive.
LEMMA TypeStep == Types /\ [Next]_vars => Types'
<1> SUFFICES ASSUME Types, [Next]_vars PROVE Types'
  OBVIOUS
<1> USE DEF Types, Labels, ReadEntry, TryRead, TryWrite, WriteEntry, Goto
<1>1. ASSUME NEW t \in Threads, Call(t) PROVE Types'
  BY <1>1 DEF Call, Pending
<1>2. ASSUME NEW t \in Threads, Step(t) PROVE Types'
  <2>1. CASE ReadCheck(t)
    BY <2>1 DEF ReadCheck
  <2>2. CASE ReadLoad(t)
    BY <2>2 DEF ReadLoad
  <2>3. CASE TryReadCheck(t)
    BY <2>3 DEF TryReadCheck
  <2>4. CASE TryReadLoad(t)
    BY <2>4 DEF TryReadLoad
  <2>5. CASE CasSucceeds(t)
    BY <2>5 DEF CasSucceeds
  <2>6. CASE CasFails(t)
    BY <2>6 DEF CasFails
  <2>7. CASE ReadUnlock(t)
    BY <2>7 DEF ReadUnlock
  <2>8. CASE WriteAdd(t)
    BY <2>8 DEF WriteAdd
  <2>9. CASE WriteCas(t)
    BY <2>9 DEF WriteCas
  <2>10. CASE WriteSub(t)
    BY <2>10 DEF WriteSub
  <2>11. CASE TryWriteAdd(t)
    BY <2>11 DEF TryWriteAdd
  <2>12. CASE TryWriteCheck(t)
    BY <2>12 DEF TryWriteCheck
  <2>13. CASE TryWriteUndo(t)
    BY <2>13 DEF TryWriteUndo
  <2>14. CASE WriteUnlock(t)
    BY <2>14 DEF WriteUnlock
  <2> QED
    BY <1>2, <2>1, <2>2, <2>3, <2>4, <2>5, <2>6, <2>7, <2>8, <2>9, <2>10,
       <2>11, <2>12, <2>13, <2>14 DEF Step
<1>3. CASE UNCHANGED vars
  BY <1>3 DEF vars
<1> QED
  BY <1>1, <1>2, <1>3 DEF Next

-------------------------------------------------------------------------------
\* A compare-and-swap of a reader never swaps a negative value.
CasInv == \A t \in Threads : pc[t] \in {"r_cas", "rt_cas"} => c[t] >= 0

\* The writers a call found waiting are waiting still, and a reader that has
\* passed the test of writers found none.
AheadInv ==
  \A t \in Threads :
    /\ ahead[t] \subseteq Pending
    /\ pc[t] \in {"r_load", "r_cas", "rt_load", "rt_cas"} => ahead[t] = {}

\* The inductive invariant.  Mutual exclusion alone is not inductive: a writer
\* enters because cnt = 0, so cnt must be known to count the readers, and a
\* reader enters because cnt = c, so c must be known not to be negative.
IInv ==
  /\ Types
  /\ MutualExclusion
  /\ CntAgrees
  /\ WritersAgree
  /\ CasInv
  /\ AheadInv

\* The sets of threads that the counters count are finite.
LEMMA Finite ==
  /\ IsFiniteSet(Readers) /\ Cardinality(Readers) \in Nat
  /\ IsFiniteSet(Counted) /\ Cardinality(Counted) \in Nat
<1>1. Readers \subseteq Threads /\ Counted \subseteq Threads
  BY DEF Readers, Counted
<1> QED
  BY <1>1, ThreadsAssumption, FS_Subset, FS_CardinalityType

\* Initially nobody holds the lock or waits for it.
LEMMA InitIInv == Init => IInv
<1> SUFFICES ASSUME Init PROVE IInv
  OBVIOUS
<1>1. Readers = {} /\ Writer = {} /\ Counted = {} /\ Pending = {}
  BY DEF Init, Readers, Writer, Counted, Pending
<1>2. Types
  BY DEF Init, Types, Labels
<1>3. CntAgrees /\ WritersAgree
  BY <1>1, FS_EmptySet DEF Init, CntAgrees, WritersAgree
<1> QED
  BY <1>1, <1>2, <1>3 DEF IInv, MutualExclusion, CasInv, AheadInv, Init

\* A step that moves no thread into or out of Readers, Writer and Counted and
\* touches neither counter keeps what the counters mean.
LEMMA SameSets ==
  ASSUME MutualExclusion, CntAgrees, WritersAgree,
         Readers' = Readers, Writer' = Writer, Counted' = Counted,
         cnt' = cnt, writers' = writers
  PROVE  MutualExclusion' /\ CntAgrees' /\ WritersAgree'
BY DEF MutualExclusion, CntAgrees, WritersAgree

\* The quiet steps of a thread: they only read the atomics, or fail.
Quiet(t) ==
  \/ ReadCheck(t) \/ ReadLoad(t) \/ TryReadCheck(t) \/ TryReadLoad(t)
  \/ CasFails(t) \/ TryWriteCheck(t)

\* The counters and the exclusion survive every step of every thread.
LEMMA CountStep ==
  ASSUME IInv, NEW t \in Threads, Call(t) \/ Step(t)
  PROVE  MutualExclusion' /\ CntAgrees' /\ WritersAgree'
<1> USE DEF IInv, Types
<1> DEFINE Kept == MutualExclusion' /\ CntAgrees' /\ WritersAgree'
<1>1. CASE Call(t) \/ Quiet(t)
  <2>1. Readers' = Readers /\ Writer' = Writer /\ Counted' = Counted
    BY <1>1 DEF Call, Quiet, ReadCheck, ReadLoad, TryReadCheck, TryReadLoad, CasFails,
                TryWriteCheck, Goto, Readers, Writer, Counted
  <2>2. cnt' = cnt /\ writers' = writers
    BY <1>1 DEF Call, Quiet, ReadCheck, ReadLoad, TryReadCheck, TryReadLoad, CasFails,
                TryWriteCheck
  <2> QED
    BY <2>1, <2>2, SameSets
<1>2. CASE CasSucceeds(t)
  <2>1. /\ Readers' = Readers \cup {t} /\ t \notin Readers
        /\ Writer' = Writer /\ Counted' = Counted
    BY <1>2 DEF CasSucceeds, Goto, Readers, Writer, Counted
  <2>2. cnt >= 0 /\ cnt' = cnt + 1 /\ writers' = writers
    BY <1>2 DEF CasSucceeds, CasInv, Goto
  <2>3. Writer = {} /\ cnt = Cardinality(Readers)
    BY <2>2 DEF CntAgrees
  <2>4. Cardinality(Readers') = Cardinality(Readers) + 1
    BY <2>1, Finite, FS_AddElement
  <2> QED
    BY <2>1, <2>2, <2>3, <2>4 DEF MutualExclusion, CntAgrees, WritersAgree
<1>3. CASE ReadUnlock(t)
  <2>1. /\ Readers' = Readers \ {t} /\ t \in Readers
        /\ Writer' = Writer /\ Counted' = Counted
    BY <1>3 DEF ReadUnlock, Goto, Readers, Writer, Counted
  <2>2. cnt' = cnt - 1 /\ writers' = writers
    BY <1>3 DEF ReadUnlock
  <2>3. Writer = {} /\ cnt = Cardinality(Readers)
    BY <2>1 DEF MutualExclusion, CntAgrees
  <2>4. Cardinality(Readers') = Cardinality(Readers) - 1
    BY <2>1, Finite, FS_RemoveElement
  <2> QED
    BY <2>1, <2>2, <2>3, <2>4 DEF MutualExclusion, CntAgrees, WritersAgree
<1>4. CASE WriteAdd(t) \/ TryWriteAdd(t)
  <2>1. /\ Counted' = Counted \cup {t} /\ t \notin Counted
        /\ Readers' = Readers /\ Writer' = Writer
    BY <1>4 DEF WriteAdd, TryWriteAdd, Goto, Readers, Writer, Counted
  <2>2. writers' = writers + 1 /\ cnt' = cnt
    BY <1>4 DEF WriteAdd, TryWriteAdd
  <2>3. Cardinality(Counted') = Cardinality(Counted) + 1
    BY <2>1, Finite, FS_AddElement
  <2> QED
    BY <2>1, <2>2, <2>3 DEF MutualExclusion, CntAgrees, WritersAgree
<1>5. CASE WriteCas(t)
  <2>1. Writer' = Writer \cup {t} /\ Readers' = Readers /\ Counted' = Counted
    BY <1>5 DEF WriteCas, Goto, Readers, Writer, Counted
  <2>2. cnt = 0 /\ cnt' = -1 /\ writers' = writers
    BY <1>5 DEF WriteCas
  <2>3. Writer = {} /\ Cardinality(Readers) = 0
    BY <2>2 DEF CntAgrees
  <2>4. Readers = {}
    BY <2>3, Finite, FS_EmptySet
  <2> QED
    BY <2>1, <2>2, <2>3, <2>4 DEF MutualExclusion, CntAgrees, WritersAgree
<1>6. CASE WriteSub(t) \/ TryWriteUndo(t)
  <2>1. /\ Counted' = Counted \ {t} /\ t \in Counted
        /\ Readers' = Readers /\ Writer' = Writer
    BY <1>6 DEF WriteSub, TryWriteUndo, Goto, Readers, Writer, Counted
  <2>2. writers' = writers - 1 /\ cnt' = cnt
    BY <1>6 DEF WriteSub, TryWriteUndo
  <2>3. Cardinality(Counted') = Cardinality(Counted) - 1
    BY <2>1, Finite, FS_RemoveElement
  <2> QED
    BY <2>1, <2>2, <2>3 DEF MutualExclusion, CntAgrees, WritersAgree
<1>7. CASE WriteUnlock(t)
  <2>1. /\ Writer' = Writer \ {t} /\ t \in Writer
        /\ Readers' = Readers /\ Counted' = Counted
    BY <1>7 DEF WriteUnlock, Goto, Readers, Writer, Counted
  <2>2. cnt' = 0 /\ writers' = writers
    BY <1>7 DEF WriteUnlock
  <2>3. Readers = {} /\ Writer' = {}
    BY <2>1 DEF MutualExclusion
  <2> QED
    BY <2>1, <2>2, <2>3, FS_EmptySet DEF MutualExclusion, CntAgrees, WritersAgree
<1> QED
  BY <1>1, <1>2, <1>3, <1>4, <1>5, <1>6, <1>7 DEF Step, Quiet

\* A local c that is about to be swapped was tested when it was loaded.
LEMMA CasInvStep ==
  ASSUME IInv, NEW t \in Threads, Call(t) \/ Step(t)
  PROVE  CasInv'
<1> USE DEF IInv, Types, CasInv, Goto
<1>1. CASE ReadLoad(t)
  BY <1>1 DEF ReadLoad
<1>2. CASE TryReadLoad(t)
  BY <1>2 DEF TryReadLoad
<1>3. CASE ~(ReadLoad(t) \/ TryReadLoad(t))
  BY <1>3 DEF Step, Call, ReadCheck, TryReadCheck, CasSucceeds, CasFails, ReadUnlock,
              WriteAdd, WriteCas, WriteSub, TryWriteAdd, TryWriteCheck,
              TryWriteUndo, WriteUnlock
<1> QED
  BY <1>1, <1>2, <1>3

\* When writers is 0 nobody is pending, so a reader passes its test only when
\* no writer it found is waiting.
LEMMA AheadInvStep ==
  ASSUME IInv, NEW t \in Threads, Call(t) \/ Step(t)
  PROVE  AheadInv'
<1> USE DEF IInv, Types, AheadInv, Goto
<1>1. CASE Call(t)
  <2>1. Pending' = Pending
    BY <1>1 DEF Call, Pending
  <2> QED
    BY <1>1, <2>1 DEF Call
<1>2. CASE ReadCheck(t) \/ TryReadCheck(t)
  <2>1. Pending' = Pending /\ ahead' = ahead
    BY <1>2 DEF ReadCheck, TryReadCheck, Pending
  <2>2. CASE writers = 0
    <3>1. Counted = {}
      BY <2>2, Finite, FS_EmptySet DEF WritersAgree
    <3>2. ahead[t] = {}
      BY <3>1 DEF Counted, Pending
    <3> QED
      BY <1>2, <2>1, <3>2 DEF ReadCheck, TryReadCheck
  <2>3. CASE writers # 0
    BY <1>2, <2>1, <2>3 DEF ReadCheck, TryReadCheck
  <2> QED
    BY <2>2, <2>3
<1>3. CASE WriteCas(t)
  <2>1. Pending' = Pending \ {t}
    BY <1>3 DEF WriteCas, Pending
  <2> QED
    BY <1>3, <2>1 DEF WriteCas
<1>4. CASE WriteAdd(t)
  <2>1. Pending' = Pending \cup {t} /\ ahead' = ahead
    BY <1>4 DEF WriteAdd, Pending
  <2> QED
    BY <1>4, <2>1 DEF WriteAdd
<1>5. CASE \/ ReadLoad(t) \/ TryReadLoad(t) \/ CasSucceeds(t) \/ CasFails(t)
           \/ ReadUnlock(t) \/ WriteSub(t) \/ TryWriteAdd(t) \/ TryWriteCheck(t)
           \/ TryWriteUndo(t) \/ WriteUnlock(t)
  <2> USE DEF ReadLoad, TryReadLoad, CasSucceeds, CasFails, ReadUnlock, WriteSub,
              TryWriteAdd, TryWriteCheck, TryWriteUndo, WriteUnlock
  <2>1. Pending' = Pending /\ ahead' = ahead
    BY <1>5 DEF Pending
  <2> QED
    BY <1>5, <2>1
<1> QED
  BY <1>1, <1>2, <1>3, <1>4, <1>5 DEF Step

\* The inductive invariant survives every step.
LEMMA IInvStep == IInv /\ [Next]_vars => IInv'
<1> SUFFICES ASSUME IInv, [Next]_vars PROVE IInv'
  OBVIOUS
<1>1. Types'
  BY TypeStep DEF IInv
<1>2. ASSUME NEW t \in Threads, Call(t) \/ Step(t) PROVE IInv'
  BY <1>1, <1>2, CountStep, CasInvStep, AheadInvStep DEF IInv
<1>3. CASE UNCHANGED vars
  BY <1>3 DEF vars, IInv, Types, MutualExclusion, CntAgrees, WritersAgree, CasInv,
              AheadInv, Readers, Writer, Counted, Pending
<1> QED
  BY <1>2, <1>3 DEF Next

LEMMA Invariance == Spec => []IInv
BY InitIInv, IInvStep, PTL DEF Spec

-------------------------------------------------------------------------------
\* Every variable keeps its type, pc never leaves the labels of the code, and
\* neither counter exceeds the number of threads (rwlock.c, all six functions).
THEOREM TypeCorrect == Spec => []TypeOK
<1>1. IInv => TypeOK
  <2> SUFFICES ASSUME IInv PROVE TypeOK
    OBVIOUS
  <2>1. Readers \subseteq Threads /\ Counted \subseteq Threads
    BY DEF Readers, Counted
  <2>2. /\ Cardinality(Readers) <= Cardinality(Threads)
        /\ Cardinality(Counted) <= Cardinality(Threads)
        /\ Cardinality(Threads) \in Nat
    BY <2>1, ThreadsAssumption, FS_Subset, FS_CardinalityType
  <2> QED
    BY <2>2, Finite DEF IInv, Types, TypeOK, CntAgrees, WritersAgree
<1> QED
  BY <1>1, Invariance, PTL

\* rwlock.h, 19 to 21: readers exclude writers, a writer excludes everybody.
THEOREM Exclusion == Spec => []MutualExclusion
<1>1. IInv => MutualExclusion
  BY DEF IInv
<1> QED
  BY <1>1, Invariance, PTL

\* rwlock.h, 20 to 22: cnt counts the readers or marks the writer, and writers
\* counts the threads that have announced themselves.
THEOREM Counters == Spec => []CountersAgree
<1>1. IInv => CountersAgree
  BY DEF IInv, CountersAgree
<1> QED
  BY <1>1, Invariance, PTL

\* rwlock.h, 23 to 25: a reader never gets the lock ahead of a writer that was
\* waiting when the reader called.
THEOREM Priority == Spec => NoOvertaking
<1>1. IInv /\ [Next]_vars => [\A t \in Threads : CasSucceeds(t) => ahead[t] = {}]_vars
  BY DEF IInv, AheadInv, CasSucceeds, Goto
<1> QED
  BY <1>1, Invariance, PTL DEF Spec, NoOvertaking

\* Every behaviour of the code is one of the abstract read-write lock.
THEOREM Implementation == Spec => ImplementsAbstract
<1>1. Init => Abstract!AInit
  BY DEF Init, Abstract!AInit, Readers, Writer
<1>2. IInv /\ [Next]_vars => [Abstract!ANext]_(Abstract!avars)
  <2> SUFFICES ASSUME IInv, [Next]_vars PROVE [Abstract!ANext]_(Abstract!avars)
    OBVIOUS
  <2> USE DEF IInv, Types, Goto, Abstract!avars, Abstract!ANext
  <2>1. ASSUME NEW t \in Threads, CasSucceeds(t) PROVE Abstract!BeginRead(t)
    <3>1. Readers' = Readers \cup {t} /\ t \notin Readers /\ Writer' = Writer
      BY <2>1 DEF CasSucceeds, Readers, Writer
    <3>2. cnt >= 0
      BY <2>1 DEF CasSucceeds, CasInv
    <3> QED
      BY <3>1, <3>2 DEF Abstract!BeginRead, CntAgrees
  <2>2. ASSUME NEW t \in Threads, ReadUnlock(t) PROVE Abstract!EndRead(t)
    BY <2>2 DEF ReadUnlock, Readers, Writer, Abstract!EndRead
  <2>3. ASSUME NEW t \in Threads, WriteCas(t) PROVE Abstract!BeginWrite(t)
    <3>1. Writer' = Writer \cup {t} /\ Readers' = Readers
      BY <2>3 DEF WriteCas, Readers, Writer
    <3>2. Writer = {} /\ Cardinality(Readers) = 0
      BY <2>3 DEF WriteCas, CntAgrees
    <3>3. Readers = {}
      BY <3>2, Finite, FS_EmptySet
    <3> QED
      BY <3>1, <3>2, <3>3 DEF Abstract!BeginWrite
  <2>4. ASSUME NEW t \in Threads, WriteUnlock(t) PROVE Abstract!EndWrite(t)
    <3>1. Writer' = Writer \ {t} /\ t \in Writer /\ Readers' = Readers
      BY <2>4 DEF WriteUnlock, Readers, Writer
    <3>2. Writer = {t}
      BY <3>1 DEF MutualExclusion
    <3> QED
      BY <3>1, <3>2 DEF Abstract!EndWrite
  <2>5. ASSUME NEW t \in Threads,
               \/ Call(t) \/ Quiet(t) \/ WriteAdd(t) \/ WriteSub(t)
               \/ TryWriteAdd(t) \/ TryWriteUndo(t)
        PROVE  UNCHANGED <<Readers, Writer>>
    BY <2>5 DEF Call, Quiet, ReadCheck, ReadLoad, TryReadCheck, TryReadLoad, CasFails,
                TryWriteCheck, WriteAdd, WriteSub, TryWriteAdd, TryWriteUndo,
                Readers, Writer
  <2>6. CASE UNCHANGED vars
    BY <2>6 DEF vars, Readers, Writer
  <2> QED
    BY <2>1, <2>2, <2>3, <2>4, <2>5, <2>6 DEF Next, Step, Quiet
<1> QED
  BY <1>1, <1>2, Invariance, PTL DEF Spec, ImplementsAbstract, Abstract!ASpec
===============================================================================
