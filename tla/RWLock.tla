-------------------------------- MODULE RWLock --------------------------------
(***************************************************************************)
(* The spinning read-write lock of synchronization/rwlock.c.  Each action  *)
(* is one access to an atomic of rwlock_t, so every interleaving of the    *)
(* atomics is a behaviour.  A spin (sched_yield and retry) changes nothing *)
(* and is a disabled guard here.                                           *)
(*                                                                         *)
(* Threads call the API forever, in any order, but a thread that holds the *)
(* lock releases it before its next call, which is what test/rwlock.c does.*)
(***************************************************************************)
EXTENDS Integers, FiniteSets

CONSTANTS Threads,
          WeakCasMayFail  \* does atomic_compare_exchange_weak fail spuriously?

ASSUME ThreadsAssumption == IsFiniteSet(Threads)
ASSUME WeakCasAssumption == WeakCasMayFail \in BOOLEAN

VARIABLES cnt,      \* rwlock_t.cnt: number of readers, or -1
          writers,  \* rwlock_t.writers: threads waiting to write
          pc,       \* where each thread is
          c,        \* the local c of the two read-lock functions
          ahead     \* history: writers waiting when the thread's call began

vars == <<cnt, writers, pc, c, ahead>>

ReadEntry  == {"r_check", "r_load", "r_cas"}           \* rwlock_read_lock
TryRead    == {"rt_check", "rt_load", "rt_cas"}        \* rwlock_read_trylock
TryWrite   == {"wt_add", "wt_check", "wt_undo"}        \* rwlock_write_trylock
WriteEntry == {"w_add", "w_cas", "w_sub"}              \* rwlock_write_lock
Labels     == ReadEntry \cup TryRead \cup TryWrite \cup WriteEntry
                \cup {"idle", "reading", "writing"}

\* The threads counted by each of the two atomics.
Readers == {t \in Threads : pc[t] = "reading"}
Writer  == {t \in Threads : pc[t] \in {"w_sub", "writing"}}
Counted == {t \in Threads : pc[t] \in {"w_cas", "w_sub", "wt_check", "wt_undo"}}

\* The threads that wait in rwlock_write_lock, counted and not yet serviced.
Pending == {t \in Threads : pc[t] = "w_cas"}

-------------------------------------------------------------------------------
Init ==
  /\ cnt = 0
  /\ writers = 0
  /\ pc = [t \in Threads |-> "idle"]
  /\ c = [t \in Threads |-> 0]
  /\ ahead = [t \in Threads |-> {}]

Goto(t, from, to) == pc[t] = from /\ pc' = [pc EXCEPT ![t] = to]

\* A thread enters one of the four lock functions.
Call(t) ==
  /\ \E first \in {"r_check", "rt_check", "w_add", "wt_add"} : Goto(t, "idle", first)
  /\ ahead' = [ahead EXCEPT ![t] = Pending]
  /\ UNCHANGED <<cnt, writers, c>>

\* Mutant: the reader does not test writers.
ReadCheckUntested(t) ==
  /\ Goto(t, "r_check", "r_load")
  /\ UNCHANGED <<cnt, writers, c, ahead>>

\* rwlock_read_lock: pass only while no writer waits.
ReadCheck(t) ==
  /\ writers = 0
  /\ Goto(t, "r_check", "r_load")
  /\ UNCHANGED <<cnt, writers, c, ahead>>

\* Mutant: the reader does not wait for cnt to be non-negative.
ReadLoadAnyway(t) ==
  /\ Goto(t, "r_load", "r_cas")
  /\ c' = [c EXCEPT ![t] = cnt]
  /\ UNCHANGED <<cnt, writers, ahead>>

\* rwlock_read_lock: wait for the writer that holds the lock.
ReadLoad(t) ==
  /\ cnt >= 0
  /\ Goto(t, "r_load", "r_cas")
  /\ c' = [c EXCEPT ![t] = cnt]
  /\ UNCHANGED <<cnt, writers, ahead>>

\* rwlock_read_trylock: the same two tests, giving up instead of waiting.
TryReadCheck(t) ==
  /\ Goto(t, "rt_check", IF writers # 0 THEN "idle" ELSE "rt_load")
  /\ UNCHANGED <<cnt, writers, c, ahead>>

TryReadLoad(t) ==
  /\ Goto(t, "rt_load", IF cnt < 0 THEN "idle" ELSE "rt_cas")
  /\ c' = [c EXCEPT ![t] = cnt]
  /\ UNCHANGED <<cnt, writers, ahead>>

\* Mutant: a store of c + 1 instead of a compare-and-swap.
StoreSucceeds(t) ==
  /\ \/ Goto(t, "r_cas", "reading")
     \/ Goto(t, "rt_cas", "reading")
  /\ cnt' = c[t] + 1
  /\ UNCHANGED <<writers, c, ahead>>

\* Both read-lock functions: the weak compare-and-swap from c to c + 1.
CasSucceeds(t) ==
  /\ \/ Goto(t, "r_cas", "reading")
     \/ Goto(t, "rt_cas", "reading")
  /\ cnt = c[t]
  /\ cnt' = c[t] + 1
  /\ UNCHANGED <<writers, c, ahead>>

CasFails(t) ==
  /\ \/ Goto(t, "r_cas", "r_load")
     \/ Goto(t, "rt_cas", "rt_load")
  /\ cnt # c[t] \/ WeakCasMayFail
  /\ UNCHANGED <<cnt, writers, c, ahead>>

ReadUnlock(t) ==
  /\ Goto(t, "reading", "idle")
  /\ cnt' = cnt - 1
  /\ UNCHANGED <<writers, c, ahead>>

-------------------------------------------------------------------------------
\* rwlock_write_lock: announce the writer, take the lock when cnt is 0,
\* withdraw the announcement.  A spurious failure just spins again.
WriteAdd(t) ==
  /\ Goto(t, "w_add", "w_cas")
  /\ writers' = writers + 1
  /\ UNCHANGED <<cnt, c, ahead>>

\* Mutant (WriteCasShared): the writer waits for a writer, not for readers.
WriteCasShared(t) ==
  /\ cnt >= 0
  /\ Goto(t, "w_cas", "w_sub")
  /\ cnt' = -1
  /\ ahead' = [u \in Threads |-> ahead[u] \ {t}]
  /\ UNCHANGED <<writers, c>>

WriteCas(t) ==
  /\ cnt = 0
  /\ Goto(t, "w_cas", "w_sub")
  /\ cnt' = -1
  /\ ahead' = [u \in Threads |-> ahead[u] \ {t}]
  /\ UNCHANGED <<writers, c>>

WriteSub(t) ==
  /\ Goto(t, "w_sub", "writing")
  /\ writers' = writers - 1
  /\ UNCHANGED <<cnt, c, ahead>>

\* rwlock_write_trylock announces the caller first.
TryWriteAdd(t) ==
  /\ Goto(t, "wt_add", "wt_check")
  /\ writers' = writers + 1
  /\ UNCHANGED <<cnt, c, ahead>>

\* It then gives up if any writer is announced.  The compare-and-swap behind
\* this test (lines 155 to 162) runs only when writers is 0, and writers counts
\* the caller, so no thread reaches it: WritersAgree implies writers > 0 here.
TryWriteCheck(t) ==
  /\ writers # 0
  /\ Goto(t, "wt_check", "wt_undo")
  /\ UNCHANGED <<cnt, writers, c, ahead>>

TryWriteUndo(t) ==
  /\ Goto(t, "wt_undo", "idle")
  /\ writers' = writers - 1
  /\ UNCHANGED <<cnt, c, ahead>>

\* Mutant: the unlock leaves cnt at -1.
WriteUnlockForgotten(t) ==
  /\ Goto(t, "writing", "idle")
  /\ UNCHANGED <<cnt, writers, c, ahead>>

WriteUnlock(t) ==
  /\ Goto(t, "writing", "idle")
  /\ cnt' = 0
  /\ UNCHANGED <<writers, c, ahead>>

-------------------------------------------------------------------------------
\* Everything a thread does once it has called, holding the lock included.
Step(t) ==
  \/ ReadCheck(t) \/ ReadLoad(t) \/ TryReadCheck(t) \/ TryReadLoad(t)
  \/ CasSucceeds(t) \/ CasFails(t) \/ ReadUnlock(t)
  \/ WriteAdd(t) \/ WriteCas(t) \/ WriteSub(t)
  \/ TryWriteAdd(t) \/ TryWriteCheck(t) \/ TryWriteUndo(t) \/ WriteUnlock(t)

Next == \E t \in Threads : Call(t) \/ Step(t)

Spec == Init /\ [][Next]_vars

\* A weak compare-and-swap that fails although it finds the value it expects.
Spurious(t) == CasFails(t) /\ cnt = c[t]

\* The scheduler runs every thread again and again, a critical section ends,
\* and a compare-and-swap does not fail spuriously for ever.  Nothing forces a
\* thread to make another call.
FairSpec ==
  Spec /\ \A t \in Threads : WF_vars(Step(t)) /\ <>[][~Spurious(t)]_vars

-------------------------------------------------------------------------------
TypeOK ==
  /\ cnt \in -1..Cardinality(Threads)
  /\ writers \in 0..Cardinality(Threads)
  /\ pc \in [Threads -> Labels]
  /\ c \in [Threads -> Int]
  /\ ahead \in [Threads -> SUBSET Threads]

\* Readers exclude writers and writers exclude each other, whatever the
\* interleaving of the loads and the compare-and-swaps (rwlock.h, 19 to 21).
MutualExclusion ==
  /\ Writer # {} => Readers = {}
  /\ \A t, u \in Writer : t = u

\* cnt says who holds the lock: -1 for a writer, else the number of readers.
CntAgrees == cnt = IF Writer # {} THEN -1 ELSE Cardinality(Readers)

\* writers counts exactly the announced writers, through every early return of
\* the trylock: a leaked increment would shut readers out for ever.
WritersAgree == writers = Cardinality(Counted)

\* Neither atomic drifts from what it counts (rwlock.h, 21 to 25): a
\* stale c in a compare-and-swap or a misplaced store would make it do so.
CountersAgree == CntAgrees /\ WritersAgree

\* "Blocking new readers when writers are pending" (rwlock.h, 24): a reader
\* whose call began while a writer was waiting does not get the lock before
\* that writer does, even though the retry loop never tests writers again.
NoOvertaking ==
  [][\A t \in Threads : CasSucceeds(t) => ahead[t] = {}]_vars

\* Pending writers drain the readers: some waiting writer always gets the lock,
\* so a lone writer is never starved by readers (rwlock.h, 23 to 25).
WriterProgress == (Pending # {}) ~> (Writer # {})

\* Once announcements stop, the readers they shut out get in.  The premise is
\* needed: a thread that retries write_trylock for ever keeps announcing itself,
\* and readers may then spin for ever although nobody holds the lock.
ReadersResume ==
  <>[](writers = 0) =>
    ((\E t \in Threads : pc[t] \in ReadEntry) ~> (Readers # {}))

\* The lock implements the abstract read-write lock.
Abstract == INSTANCE AbstractRWLock WITH readers <- Readers, writer <- Writer
ImplementsAbstract == Abstract!ASpec
===============================================================================
