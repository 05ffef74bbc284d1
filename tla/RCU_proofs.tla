------------------------------ MODULE RCU_proofs ------------------------------
(***************************************************************************)
(* Proofs about RCU for any readers, writers and objects.  However the     *)
(* writers publish and retire, with delayed stores and failed allocations: *)
(* type correctness, and that rcu_synchronize waits for a full grace       *)
(* period.  When stores and scans keep their order: every object is freed  *)
(* once and none is lost.  When moreover no writer cleans up while another *)
(* one has its grace period before it: no object is freed, or called back  *)
(* for, under a reader.                                                    *)
(***************************************************************************)
EXTENDS RCU, SequenceTheorems, FiniteSetTheorems, TLAPS

\* TypeOK without its bound on the number of slots, which needs SlotInv.
Types ==
  /\ slots \in Seq(Threads)
  /\ cnt \in [Readers -> 0..MaxNest]
  /\ cbs \in Seq(Objects)
  /\ ctx \in {"alive", "joined", "clean", "freed", "crashed"}
  /\ ptr \in Objects \cup {Null}
  /\ buf \in [Writers -> Objects \cup {Null}]
  /\ live \subseteq Objects
  /\ refs \in [Readers -> SUBSET Objects]
  /\ pc \in [Writers ->
       {"idle", "load", "publish", "retire", "sync", "reclaim", "invoke"}]
  /\ new \in [Writers -> Objects \cup {Null}]
  /\ old \in [Writers -> Objects \cup {Null}]
  /\ idx \in [Writers -> Nat \ {0}]
  /\ todo \in [Writers -> Seq(Objects)]
  /\ waitFor \in [Writers -> SUBSET Readers]

\* The types alone are inductive.
LEMMA TypeStep == Types /\ [Next]_vars => Types'
<1> SUFFICES ASSUME Types, [Next]_vars PROVE Types'
  OBVIOUS
<1> USE ObjectsAssumption DEF Types, Goto, rcuVars
<1>1. ASSUME NEW t \in Threads, Register(t) PROVE Types'
  BY <1>1 DEF Register
<1>2. ASSUME NEW r \in Readers, ReaderStep(r) PROVE Types'
  <2>1. CASE ReadLock(r)
    BY <2>1 DEF ReadLock
  <2>2. CASE Dereference(r)
    <3>1. Objs(refs[r] \cup {ptr}) \in SUBSET Objects
      BY DEF Objs
    <3> QED
      BY <2>2, <3>1 DEF Dereference
  <2>3. CASE ReadUnlock(r)
    BY <2>3 DEF ReadUnlock
  <2> QED
    BY <1>2, <2>1, <2>2, <2>3 DEF ReaderStep
<1>3. ASSUME NEW w \in Writers, WriterStep(w) PROVE Types'
  <2>1. CASE Allocate(w)
    BY <2>1 DEF Allocate
  <2>2. CASE LoadOld(w)
    BY <2>2 DEF LoadOld
  <2>3. CASE PublishByCas(w)
    BY <2>3 DEF PublishByCas
  <2>4. CASE PublishByAssign(w)
    BY <2>4 DEF PublishByAssign
  <2>5. CASE Drain(w)
    BY <2>5 DEF Drain
  <2>6. CASE RetireByCall(w)
    <3>1. <<old[w]>> \o cbs \in Seq(Objects)
      BY <2>6 DEF RetireByCall
    <3>2. cbs' \in Seq(Objects)
      BY <2>6, <3>1 DEF RetireByCall
    <3>3. /\ old' = [old EXCEPT ![w] = Null]
          /\ UNCHANGED <<slots, cnt, ctx, ptr, buf, live, refs, pc, new, idx, todo, waitFor>>
      BY <2>6 DEF RetireByCall
    <3> QED
      BY <3>2, <3>3
  <2>7. CASE Synchronize(w)
    BY <2>7 DEF Synchronize, BeginSync, InSection
  <2>8. CASE SyncScan(w)
    BY <2>8 DEF SyncScan
  <2>9. CASE SyncReturn(w)
    BY <2>9 DEF SyncReturn
  <2>10. CASE FreeDirect(w)
    BY <2>10 DEF FreeDirect
  <2>11. CASE CleanupTake(w)
    BY <2>11 DEF CleanupTake
  <2>12. CASE LeaveToMain(w)
    BY <2>12 DEF LeaveToMain
  <2>13. CASE Invoke(w)
    <3>1. Tail(todo[w]) \in Seq(Objects)
      BY <2>13 DEF Invoke
    <3> QED
      BY <2>13, <3>1 DEF Invoke
  <2>14. CASE CleanupReturn(w)
    BY <2>14 DEF CleanupReturn
  <2> QED
    BY <1>3, <2>1, <2>2, <2>3, <2>4, <2>5, <2>6, <2>7, <2>8, <2>9, <2>10, <2>11,
       <2>12, <2>13, <2>14 DEF WriterStep, Update
<1>4. CASE Join \/ MainCleanup \/ Destroy
  <2>1. CASE Join
    BY <2>1 DEF Join
  <2>2. CASE MainCleanup
    <3>1. <<>> \in Seq(Objects)
      OBVIOUS
    <3> QED
      BY <2>2, <3>1 DEF MainCleanup
  <2>3. CASE Destroy
    BY <2>3 DEF Destroy
  <2> QED
    BY <1>4, <2>1, <2>2, <2>3
<1>5. CASE UNCHANGED vars
  BY <1>5 DEF vars
<1> QED
  BY <1>1, <1>2, <1>3, <1>4, <1>5 DEF Next

-------------------------------------------------------------------------------
\* A reader inside a section has a slot.
SlotInv == \A r \in Readers : cnt[r] > 0 => r \in Elems(slots)

\* While w scans, a reader it must wait for is still in its section, so the
\* scan has not got past that reader's slot.
ScanInv ==
  \A w \in Writers : pc[w] = "sync" =>
    \A r \in waitFor[w] :
      cnt[r] > 0 /\ \A i \in 1..Len(slots) : i < idx[w] => slots[i] # r

IInv == Types /\ SlotInv /\ ScanInv

\* A step that leaves these five variables alone keeps the invariant.
LEMMA SameScan ==
  ASSUME SlotInv, ScanInv, UNCHANGED <<slots, cnt, idx, waitFor>>,
         \A w \in Writers : pc'[w] = "sync" => pc[w] = "sync"
  PROVE  SlotInv' /\ ScanInv'
BY DEF SlotInv, ScanInv, Elems

LEMMA IInvStep == IInv /\ [Next]_vars => IInv'
<1> SUFFICES ASSUME IInv, [Next]_vars PROVE IInv'
  OBVIOUS
<1>0. Types'
  BY TypeStep DEF IInv
<1> SUFFICES SlotInv' /\ ScanInv'
  BY <1>0 DEF IInv
<1> USE DEF IInv, Types, Goto, rcuVars
<1>1. ASSUME NEW t \in Threads, Register(t) PROVE SlotInv' /\ ScanInv'
  <2>1. /\ Len(slots') = Len(slots) + 1
        /\ \A i \in 1..Len(slots) : slots'[i] = slots[i]
        /\ slots'[Len(slots) + 1] = t
    BY <1>1 DEF Register
  <2>2. SlotInv'
    BY <1>1, <2>1 DEF Register, SlotInv, Elems
  <2>3. ScanInv'
    <3> SUFFICES ASSUME NEW w \in Writers, pc[w] = "sync", NEW r \in waitFor[w],
                        NEW i \in 1..(Len(slots) + 1), i < idx[w]
                 PROVE  slots'[i] # r
      <4>1. UNCHANGED <<cnt, idx, waitFor, pc>>
        BY <1>1 DEF Register
      <4> QED
        BY <2>1, <4>1 DEF ScanInv
    <3>1. r \in Elems(slots) /\ cnt[r] > 0
      BY DEF ScanInv, SlotInv
    <3>2. CASE i <= Len(slots)
      <4>1. i \in 1..Len(slots) /\ slots'[i] = slots[i]
        BY <2>1, <3>2
      <4>2. slots[i] # r
        BY <4>1 DEF ScanInv
      <4> QED
        BY <4>1, <4>2
    <3>3. CASE i = Len(slots) + 1
      BY <1>1, <2>1, <3>1, <3>3 DEF Register
    <3> QED
      BY <3>2, <3>3
  <2> QED
    BY <2>2, <2>3
<1>2. ASSUME NEW r \in Readers, ReadLock(r) PROVE SlotInv' /\ ScanInv'
  BY <1>2 DEF ReadLock, SlotInv, ScanInv, Elems
<1>3. ASSUME NEW r \in Readers, ReadUnlock(r) PROVE SlotInv' /\ ScanInv'
  BY <1>3 DEF ReadUnlock, SlotInv, ScanInv, Elems
<1>4. ASSUME NEW w \in Writers, BeginSync(w), UNCHANGED <<slots, cnt>>
      PROVE  SlotInv' /\ ScanInv'
  <2>1. SlotInv'
    BY <1>4 DEF SlotInv, Elems
  <2>2. ScanInv'
    BY <1>4 DEF BeginSync, ScanInv, InSection
  <2> QED
    BY <2>1, <2>2
<1>5. ASSUME NEW w \in Writers, SyncScan(w) PROVE SlotInv' /\ ScanInv'
  <2>1. SlotInv'
    BY <1>5 DEF SyncScan, SlotInv, Elems
  <2>2. ASSUME pc[w] = "sync", NEW r \in waitFor[w], NEW i \in 1..Len(slots), i < idx'[w]
        PROVE  slots[i] # r
    <3>1. cnt[r] > 0 /\ r \in Readers
      BY <2>2 DEF ScanInv
    <3>2. CASE slots[idx[w]] = r
      BY <1>5, <2>2, <3>1, <3>2 DEF SyncScan
    <3>3. CASE slots[idx[w]] # r
      <4>1. i < idx[w] \/ i = idx[w]
        BY <1>5, <2>2 DEF SyncScan
      <4> QED
        BY <2>2, <3>3, <4>1 DEF ScanInv
    <3> QED
      BY <3>2, <3>3
  <2>3. ScanInv'
    BY <1>5, <2>2 DEF SyncScan, ScanInv
  <2> QED
    BY <2>1, <2>3
<1>6. ASSUME NEW r \in Readers, Dereference(r) PROVE SlotInv' /\ ScanInv'
  BY <1>6, SameScan DEF Dereference
<1>7. ASSUME NEW w \in Writers, WriterStep(w), ~SyncScan(w), ~Synchronize(w)
      PROVE  SlotInv' /\ ScanInv'
  <2>1. /\ UNCHANGED <<slots, cnt, idx, waitFor>>
        /\ \A v \in Writers : pc'[v] = "sync" => pc[v] = "sync"
    BY <1>7 DEF WriterStep, Update, Allocate, LoadOld, PublishByCas, PublishByAssign,
                Drain, RetireByCall, SyncReturn, FreeDirect, CleanupTake, LeaveToMain,
                Invoke, CleanupReturn
  <2> QED
    BY <2>1, SameScan
<1>8. ASSUME NEW w \in Writers, Synchronize(w) PROVE SlotInv' /\ ScanInv'
  BY <1>4, <1>8 DEF Synchronize
<1>9. CASE Join \/ MainCleanup \/ Destroy \/ UNCHANGED vars
  BY <1>9, SameScan DEF Join, MainCleanup, Destroy, vars
<1> QED
  BY <1>1, <1>2, <1>3, <1>5, <1>6, <1>7, <1>8, <1>9 DEF Next, ReaderStep

-------------------------------------------------------------------------------
\* No thread has two slots.
OneSlot == \A i, j \in 1..Len(slots) : slots[i] = slots[j] => i = j

LEMMA OneSlotStep == Types /\ OneSlot /\ [Next]_vars => OneSlot'
<1> SUFFICES ASSUME Types, OneSlot, [Next]_vars PROVE OneSlot'
  OBVIOUS
<1> USE DEF Types, rcuVars
<1>1. ASSUME NEW t \in Threads, Register(t) PROVE OneSlot'
  <2>1. /\ Len(slots') = Len(slots) + 1
        /\ \A i \in 1..Len(slots) : slots'[i] = slots[i]
        /\ slots'[Len(slots) + 1] = t
    BY <1>1 DEF Register
  <2>2. \A i \in 1..Len(slots) : slots'[i] # t
    BY <1>1, <2>1 DEF Register, Elems
  <2> SUFFICES ASSUME NEW i \in 1..(Len(slots) + 1), NEW j \in 1..(Len(slots) + 1),
                      slots'[i] = slots'[j]
               PROVE  i = j
    BY <2>1 DEF OneSlot
  <2>3. CASE i <= Len(slots) /\ j <= Len(slots)
    <3>1. i \in 1..Len(slots) /\ j \in 1..Len(slots)
      BY <2>3
    <3> QED
      BY <2>1, <3>1 DEF OneSlot
  <2>4. CASE i = Len(slots) + 1 \/ j = Len(slots) + 1
    BY <2>1, <2>2, <2>4
  <2> QED
    BY <2>3, <2>4
<1>2. CASE UNCHANGED slots
  BY <1>2 DEF OneSlot
<1>3. (\E t \in Threads : Register(t)) \/ UNCHANGED slots
  BY DEF Next, ReaderStep, ReadLock, Dereference, ReadUnlock, WriterStep, Update,
         Allocate, LoadOld, PublishByCas, PublishByAssign, Drain, RetireByCall,
         Synchronize, SyncScan, SyncReturn, FreeDirect, CleanupTake, LeaveToMain,
         Invoke, CleanupReturn, Join, MainCleanup, Destroy, vars
<1> QED
  BY <1>1, <1>2, <1>3

\* Every variable of the context and of its clients keeps its type, and the
\* slots in use fit threads_idx, although registering never tests MAX_THREADS
\* (rcu.c, 82 to 108): at most MaxThreads threads ever register.
THEOREM TypeCorrect == Spec => []TypeOK
<1>1. Init => Types /\ OneSlot
  BY ObjectsAssumption DEF Init, Types, OneSlot
<1>2. Types /\ OneSlot /\ [Next]_vars => (Types /\ OneSlot)'
  BY TypeStep, OneSlotStep
<1>3. Types /\ OneSlot => TypeOK
  <2> SUFFICES ASSUME Types, OneSlot PROVE Len(slots) <= MaxThreads
    BY DEF Types, TypeOK
  <2>1. IsFiniteSet(Threads) /\ Cardinality(Threads) \in Nat
    BY ThreadsAssumption, FS_CardinalityType, FS_Union DEF Threads
  <2>2. Len(slots) \in Nat /\ slots \in [1..Len(slots) -> Threads]
    BY DEF Types
  <2>3. IsFiniteSet(1..Len(slots)) /\ Cardinality(1..Len(slots)) = Len(slots)
    BY <2>2, FS_Interval
  <2>4. ~ Cardinality(Threads) < Cardinality(1..Len(slots))
    BY <2>1, <2>2, <2>3, FS_PigeonHole DEF OneSlot
  <2> QED
    BY <2>1, <2>2, <2>3, <2>4, ThreadsAssumption
<1> QED
  BY <1>1, <1>2, <1>3, PTL DEF Spec

\* What a scan that is over has waited for.
LEMMA ScanOver ==
  ASSUME IInv, NEW w \in Writers, SyncReturn(w) PROVE waitFor[w] = {}
<1> SUFFICES ASSUME NEW r \in waitFor[w] PROVE FALSE
  OBVIOUS
<1>1. pc[w] = "sync" /\ idx[w] > Len(slots) /\ r \in Readers
  BY DEF SyncReturn, Goto, IInv, Types
<1>2. r \in Elems(slots)
  BY <1>1 DEF IInv, ScanInv, SlotInv
<1>3. PICK i \in 1..Len(slots) : slots[i] = r
  BY <1>2 DEF Elems
<1>4. i < idx[w]
  BY <1>1, <1>3 DEF IInv, Types
<1> QED
  BY <1>1, <1>3, <1>4 DEF IInv, ScanInv

\* rcu.h, 35: rcu_synchronize returns only when every read-side section that
\* was open at its call has ended, whatever registers, enters and leaves
\* while it reads the counters one by one.
THEOREM FullGracePeriod == Spec => GracePeriod
<1>1. Init => IInv
  BY ObjectsAssumption DEF Init, IInv, Types, SlotInv, ScanInv, Elems
<1>2. IInv /\ [Next]_vars => [\A w \in Writers : SyncReturn(w) => waitFor[w] = {}]_vars
  BY ScanOver DEF GracePeriod
<1> QED
  BY <1>1, <1>2, IInvStep, PTL DEF Spec, GracePeriod

-------------------------------------------------------------------------------
\* A writer's store is visible before its scan, and who publishes by
\* rcu_assign_pointer, instead of by compare-and-swap, is the only writer.
OrderedStores ==
  LoadsOvertake = FALSE /\ ("assign" \in Publish => \A v, w \in Writers : v = w)

\* Nobody cleans up while another writer has retired an object, or is about to,
\* and its grace period is not over.
CarefulClients == OrderedStores /\ Cleaning = "alone"

\* Is the object in old[w] one that w has unpublished and must retire?
Retires(w) ==
  pc[w] \in {"retire", "sync", "reclaim"} /\ buf[w] = Null /\ old[w] # Null

\* Every object is in one place, and allocated: the new ones, those on their
\* way to the pointer, the published one, the unpublished ones, and those whose
\* callbacks wait in the context or with a writer that runs them.
NewAlone ==
  \A w \in Writers : new[w] # Null =>
    /\ new[w] \in live /\ new[w] # ptr /\ new[w] \notin Elems(cbs)
    /\ \A v \in Writers : /\ new[w] # buf[v] /\ new[w] \notin Elems(todo[v])
                          /\ new[v] = new[w] => v = w
                          /\ Retires(v) => old[v] # new[w]
BufAlone ==
  \A w \in Writers : buf[w] # Null =>
    /\ buf[w] \in live /\ buf[w] # ptr /\ buf[w] \notin Elems(cbs)
    /\ \A v \in Writers : /\ buf[w] \notin Elems(todo[v])
                          /\ buf[v] = buf[w] => v = w
                          /\ Retires(v) => old[v] # buf[w]
OldAlone ==
  \A w \in Writers : Retires(w) =>
    /\ old[w] \in live /\ old[w] # ptr /\ old[w] \notin Elems(cbs)
    /\ \A v \in Writers : /\ old[w] \notin Elems(todo[v])
                          /\ Retires(v) /\ old[v] = old[w] => v = w
PtrAlone ==
  ptr # Null => /\ ptr \in live /\ ptr \notin Elems(cbs)
                /\ \A v \in Writers : ptr \notin Elems(todo[v])
QueuesAlone ==
  /\ Elems(cbs) \subseteq live
  /\ \A w \in Writers : /\ Elems(todo[w]) \subseteq live
                        /\ Elems(todo[w]) \cap Elems(cbs) = {}
                        /\ \A v \in Writers \ {w} : Elems(todo[v]) \cap Elems(todo[w]) = {}
Once(s) == \A i, j \in 1..Len(s) : s[i] = s[j] => i = j
QueuesOnce == Once(cbs) /\ \A w \in Writers : Once(todo[w])

PlaceInv == NewAlone /\ BufAlone /\ OldAlone /\ PtrAlone /\ QueuesAlone /\ QueuesOnce

\* Where a writer is tells what it has.
WriterInv ==
  \A w \in Writers :
    /\ new[w] # Null <=> pc[w] \in {"load", "publish"}
    /\ buf[w] # Null => /\ pc[w] = "retire" /\ "assign" \in Publish
                        /\ old[w] = ptr \/ (CallMayFail = TRUE /\ old[w] = Null)
    /\ pc[w] = "publish" /\ "assign" \in Publish => old[w] = ptr
    /\ pc[w] # "invoke" => todo[w] = <<>>
MainInv ==
  /\ ctx # "alive" => (\A r \in Readers : cnt[r] = 0) /\ \A w \in Writers : pc[w] = "idle"
  /\ ctx \in {"clean", "freed", "crashed"} => cbs = <<>>

\* A writer has to wait, or waits, for r.
Awaited(r) == \E v \in Writers : pc[v] = "retire" \/ (pc[v] = "sync" /\ r \in waitFor[v])

\* What a reader uses is allocated, and whoever is about to free it waits for
\* that reader, or will.
UseInv ==
  \A r \in Readers :
    /\ refs[r] # {} => cnt[r] > 0
    /\ \A o \in refs[r] :
         /\ o \in live
         /\ \A w \in Writers :
              /\ o # new[w] /\ o # buf[w] /\ o \notin Elems(todo[w])
              /\ old[w] = o => pc[w] # "reclaim" /\ (pc[w] = "sync" => r \in waitFor[w])
         /\ o \in Elems(cbs) => Awaited(r)

\* The inductive invariants: of every writer, and of careful ones.
MemInv == IInv /\ PlaceInv /\ WriterInv /\ MainInv
SafeInv == MemInv /\ UseInv

LEMMA ElemsOfTail ==
  ASSUME NEW s \in Seq(Objects), s # <<>>, Once(s)
  PROVE  /\ Head(s) \in Elems(s) /\ Head(s) \notin Elems(Tail(s))
         /\ Elems(Tail(s)) \subseteq Elems(s) /\ Once(Tail(s))
         /\ Elems(s) \subseteq Elems(Tail(s)) \cup {Head(s)}
<1>1. /\ Len(s) \in Nat \ {0} /\ Len(Tail(s)) = Len(s) - 1 /\ Head(s) = s[1]
      /\ \A i \in 1..(Len(s) - 1) : Tail(s)[i] = s[i + 1]
  BY EmptySeq, HeadTailProperties
<1>2. ASSUME NEW i \in 1..(Len(s) - 1) PROVE i + 1 \in 1..Len(s) /\ i + 1 # 1
  BY <1>1
<1>3. 1 \in 1..Len(s)
  BY <1>1
<1>4. ASSUME NEW i \in 1..Len(s) PROVE i = 1 \/ i - 1 \in 1..(Len(s) - 1)
  BY <1>1
<1>5. Head(s) \in Elems(s) /\ Head(s) \notin Elems(Tail(s)) /\ Elems(Tail(s)) \subseteq Elems(s)
  BY <1>1, <1>2, <1>3 DEF Elems, Once
<1>6. Once(Tail(s))
  BY <1>1, <1>2 DEF Once
<1>7. Elems(s) \subseteq Elems(Tail(s)) \cup {Head(s)}
  <2> SUFFICES ASSUME NEW i \in 1..Len(s), i # 1 PROVE s[i] \in Elems(Tail(s))
    BY <1>1 DEF Elems
  <2> QED
    BY <1>1, <1>4 DEF Elems
<1> QED
  BY <1>5, <1>6, <1>7

LEMMA ElemsOfPrepend ==
  ASSUME NEW s \in Seq(Objects), NEW o \in Objects
  PROVE  /\ Elems(<<o>> \o s) = Elems(s) \cup {o}
         /\ Once(s) /\ o \notin Elems(s) => Once(<<o>> \o s)
<1> DEFINE t == <<o>> \o s
<1>1. /\ Len(s) \in Nat /\ Len(t) = Len(s) + 1
      /\ t[1] = o /\ \A i \in 1..Len(s) : t[i + 1] = s[i]
  OBVIOUS
<1> HIDE DEF t
<1>2. ASSUME NEW i \in 1..Len(t) PROVE i = 1 \/ (i - 1 \in 1..Len(s) /\ t[i] = s[i - 1])
  <2>1. i = 1 \/ i - 1 \in 1..Len(s)
    BY <1>1
  <2> QED
    BY <1>1, <2>1
<1>3. ASSUME NEW i \in 1..Len(s) PROVE i + 1 \in 1..Len(t)
  BY <1>1
<1>4. 1 \in 1..Len(t)
  BY <1>1
<1>5. Elems(t) = Elems(s) \cup {o}
  BY <1>1, <1>2, <1>3, <1>4 DEF Elems
<1>6. Once(s) /\ o \notin Elems(s) => Once(t)
  <2> SUFFICES ASSUME Once(s), o \notin Elems(s),
                      NEW i \in 1..Len(t), NEW j \in 1..Len(t), t[i] = t[j]
               PROVE  i = j
    BY DEF Once
  <2>1. ASSUME NEW k \in 1..Len(s) PROVE s[k] # o
    BY DEF Elems
  <2>2. CASE i = 1 \/ j = 1
    BY <1>1, <1>2, <2>1, <2>2
  <2>3. CASE i # 1 /\ j # 1
    <3>1. i - 1 = j - 1
      BY <1>2, <2>3 DEF Once
    <3> QED
      BY <1>1, <3>1
  <2> QED
    BY <2>2, <2>3
<1> QED
  BY <1>5, <1>6 DEF t

LEMMA ElemsOfEmpty == Elems(<<>>) = {} /\ Once(<<>>)
BY DEF Elems, Once

LEMMA WriterStepInv ==
  ASSUME OrderedStores, Types, WriterInv, MainInv, [Next]_vars
  PROVE  WriterInv' /\ MainInv'
<1> USE ObjectsAssumption DEF Types, Goto, rcuVars, OrderedStores, WriterInv, MainInv, BeginSync
<1>1. ASSUME NEW t \in Threads, Register(t) PROVE WriterInv' /\ MainInv'
  BY <1>1 DEF Register
<1>2. ASSUME NEW r \in Readers, ReaderStep(r) PROVE WriterInv' /\ MainInv'
  BY <1>2 DEF ReaderStep, ReadLock, Dereference, ReadUnlock
<1>3. ASSUME NEW w \in Writers, WriterStep(w) PROVE WriterInv' /\ MainInv'
  <2>1. CASE Allocate(w)
    BY <2>1 DEF Allocate
  <2>2. CASE LoadOld(w)
    BY <2>2 DEF LoadOld
  <2>3. CASE PublishByCas(w)
    <3>1. CASE ptr = old[w]
      <4>1. "assign" \in Publish => \A v \in Writers : v = w
        OBVIOUS
      <4>2. MainInv'
        BY <2>3, <3>1 DEF PublishByCas
      <4>3. /\ UNCHANGED <<buf, old, todo>> /\ ptr' = new[w] /\ buf[w] = Null
            /\ pc' = [pc EXCEPT ![w] = "retire"] /\ new' = [new EXCEPT ![w] = Null]
            /\ pc[w] = "publish"
        BY <2>3, <3>1 DEF PublishByCas
      <4>4. WriterInv'
        BY <4>1, <4>3
      <4> QED
        BY <4>2, <4>4
    <3>2. CASE ptr # old[w]
      BY <2>3, <3>2 DEF PublishByCas
    <3> QED
      BY <3>1, <3>2
  <2>4. CASE PublishByAssign(w)
    BY <2>4 DEF PublishByAssign
  <2>5. CASE Drain(w)
    BY <2>5 DEF Drain
  <2>6. CASE RetireByCall(w)
    BY <2>6 DEF RetireByCall
  <2>7. CASE Synchronize(w)
    BY <2>7 DEF Synchronize
  <2>8. CASE SyncScan(w)
    BY <2>8 DEF SyncScan
  <2>9. CASE SyncReturn(w)
    BY <2>9 DEF SyncReturn
  <2>10. CASE FreeDirect(w)
    BY <2>10 DEF FreeDirect
  <2>11. CASE CleanupTake(w)
    BY <2>11 DEF CleanupTake
  <2>12. CASE LeaveToMain(w)
    BY <2>12 DEF LeaveToMain
  <2>13. CASE Invoke(w)
    BY <2>13 DEF Invoke
  <2>14. CASE CleanupReturn(w)
    BY <2>14 DEF CleanupReturn
  <2> QED
    BY <1>3, <2>1, <2>2, <2>3, <2>4, <2>5, <2>6, <2>7, <2>8, <2>9, <2>10, <2>11,
       <2>12, <2>13, <2>14 DEF WriterStep, Update
<1>4. CASE Join \/ MainCleanup \/ Destroy
  BY <1>4, ElemsOfEmpty DEF Join, MainCleanup, Destroy, InSection
<1>5. CASE UNCHANGED vars
  BY <1>5 DEF vars
<1> QED
  BY <1>1, <1>2, <1>3, <1>4, <1>5 DEF Next

\* A step that moves no object keeps the places apart.
LEMMA SamePlaces ==
  ASSUME PlaceInv, UNCHANGED <<cbs, ptr, buf, live, new, todo>>,
         \A w \in Writers : Retires(w)' => Retires(w) /\ old'[w] = old[w]
  PROVE  PlaceInv'
BY DEF PlaceInv, NewAlone, BufAlone, OldAlone, PtrAlone, QueuesAlone, QueuesOnce

LEMMA PlaceStep ==
  ASSUME OrderedStores, Types, PlaceInv, WriterInv, MainInv, [Next]_vars
  PROVE  PlaceInv'
<1> USE ObjectsAssumption DEF Types, Goto, rcuVars
<1>1. ASSUME NEW t \in Threads, Register(t) PROVE PlaceInv'
  BY <1>1, SamePlaces DEF Register, Retires
<1>2. ASSUME NEW r \in Readers, ReaderStep(r) PROVE PlaceInv'
  BY <1>2, SamePlaces DEF ReaderStep, ReadLock, Dereference, ReadUnlock, Retires
<1>3. ASSUME NEW w \in Writers, WriterStep(w) PROVE PlaceInv'
  <2>1. CASE Allocate(w)
    <3> USE <2>1 DEF Allocate, PlaceInv, WriterInv, Retires
    <3>1. NewAlone'
      BY DEF NewAlone, BufAlone, OldAlone, PtrAlone, QueuesAlone
    <3>2. BufAlone'
      BY DEF BufAlone
    <3>3. OldAlone'
      BY DEF OldAlone
    <3>4. PtrAlone'
      BY DEF PtrAlone
    <3>5. QueuesAlone'
      BY DEF QueuesAlone
    <3>6. QueuesOnce'
      BY DEF QueuesOnce
    <3> QED
      BY <3>1, <3>2, <3>3, <3>4, <3>5, <3>6
  <2>2. CASE LoadOld(w)
    BY <2>2, SamePlaces DEF LoadOld, BeginSync, Retires, WriterInv
  <2>3. CASE PublishByCas(w)
    <3>1. CASE ptr # old[w]
      BY <2>3, <3>1, SamePlaces DEF PublishByCas, Retires
    <3>2. CASE ptr = old[w]
      <4>1. /\ UNCHANGED <<cbs, buf, live, old, todo>> /\ ptr' = new[w] /\ ptr = old[w]
            /\ pc' = [pc EXCEPT ![w] = "retire"] /\ new' = [new EXCEPT ![w] = Null]
            /\ pc[w] = "publish" /\ buf[w] = Null /\ new[w] # Null
        BY <2>3, <3>2 DEF PublishByCas, WriterInv
      <4>2. /\ \A v \in Writers \ {w} : new'[v] = new[v] /\ (Retires(v)' <=> Retires(v))
            /\ new'[w] = Null /\ (Retires(w)' <=> ptr # Null)
        BY <4>1 DEF Retires
      <4>3. \A v \in Writers : buf[v] = Null
        BY <4>1 DEF WriterInv, OrderedStores
      <4> USE DEF PlaceInv
      <4>4. NewAlone'
        BY <4>1, <4>2, <4>3 DEF NewAlone, PtrAlone
      <4>5. BufAlone'
        BY <4>1, <4>3 DEF BufAlone
      <4>6. OldAlone'
        BY <4>1, <4>2, <4>3 DEF OldAlone, NewAlone, PtrAlone
      <4>7. PtrAlone'
        BY <4>1 DEF NewAlone, PtrAlone
      <4>8. QueuesAlone' /\ QueuesOnce'
        BY <4>1 DEF QueuesAlone, QueuesOnce
      <4> QED
        BY <4>4, <4>5, <4>6, <4>7, <4>8
    <3> QED
      BY <3>1, <3>2
  <2>4. CASE PublishByAssign(w)
    <3> USE <2>4 DEF PublishByAssign, PlaceInv, WriterInv, Retires
    <3>1. NewAlone'
      BY DEF NewAlone
    <3>2. BufAlone'
      BY DEF NewAlone, BufAlone
    <3>3. OldAlone'
      BY DEF NewAlone, OldAlone
    <3>4. PtrAlone'
      BY DEF PtrAlone
    <3>5. QueuesAlone'
      BY DEF QueuesAlone
    <3>6. QueuesOnce'
      BY DEF QueuesOnce
    <3> QED
      BY <3>1, <3>2, <3>3, <3>4, <3>5, <3>6
  <2>5. CASE Drain(w)
    <3> USE <2>5 DEF Drain, PlaceInv, WriterInv, Retires
    <3>1. NewAlone'
      BY DEF NewAlone
    <3>2. BufAlone'
      BY DEF BufAlone
    <3>3. OldAlone'
      BY DEF BufAlone, OldAlone, PtrAlone
    <3>4. PtrAlone'
      BY DEF BufAlone, PtrAlone
    <3>5. QueuesAlone'
      BY DEF QueuesAlone
    <3>6. QueuesOnce'
      BY DEF QueuesOnce
    <3> QED
      BY <3>1, <3>2, <3>3, <3>4, <3>5, <3>6
  <2>6. CASE RetireByCall(w)
    <3>1. /\ UNCHANGED <<ptr, buf, live, pc, new, todo>> /\ pc[w] = "retire"
          /\ old' = [old EXCEPT ![w] = Null] /\ old[w] # Null
          /\ (cbs' = <<old[w]>> \o cbs /\ Retires(w)) \/ cbs' = cbs
      BY <2>6 DEF RetireByCall, Retires
    <3>2. /\ \A v \in Writers \ {w} : old'[v] = old[v] /\ (Retires(v)' <=> Retires(v))
          /\ ~Retires(w)'
      BY <3>1 DEF Retires
    <3>3. CASE cbs' = cbs
      BY <3>1, <3>2, <3>3, SamePlaces
    <3>4. CASE cbs' = <<old[w]>> \o cbs /\ Retires(w)
      <4> DEFINE o == old[w]
      <4>1. /\ Elems(cbs') = Elems(cbs) \cup {o}
            /\ Once(cbs) /\ o \notin Elems(cbs) => Once(cbs')
        BY <3>1, <3>4, ElemsOfPrepend
      <4>2. /\ o # Null /\ o \in live /\ o # ptr /\ o \notin Elems(cbs)
            /\ \A v \in Writers : /\ o \notin Elems(todo[v])
                                  /\ v # w /\ Retires(v) => old[v] # o
        BY <3>1, <3>4 DEF PlaceInv, OldAlone
      <4>3. \A v \in Writers : (new[v] # Null => new[v] # o) /\ (buf[v] # Null => buf[v] # o)
        BY <3>1, <3>4 DEF PlaceInv, NewAlone, BufAlone
      <4> HIDE DEF o
      <4> USE DEF PlaceInv
      <4>4. NewAlone'
        BY <3>1, <3>2, <4>1, <4>3 DEF NewAlone
      <4>5. BufAlone'
        BY <3>1, <3>2, <4>1, <4>3 DEF BufAlone
      <4>6. OldAlone'
        BY <3>1, <3>2, <4>1, <4>2 DEF OldAlone
      <4>7. PtrAlone'
        BY <3>1, <4>1, <4>2 DEF PtrAlone
      <4>8. QueuesAlone'
        BY <3>1, <4>1, <4>2 DEF QueuesAlone
      <4>9. QueuesOnce'
        BY <3>1, <4>1, <4>2 DEF QueuesOnce
      <4> QED
        BY <4>4, <4>5, <4>6, <4>7, <4>8, <4>9
    <3> QED
      BY <3>1, <3>3, <3>4
  <2>7. CASE Synchronize(w)
    BY <2>7, SamePlaces DEF Synchronize, BeginSync, Retires, WriterInv
  <2>8. CASE SyncScan(w)
    BY <2>8, SamePlaces DEF SyncScan, BeginSync, Retires, WriterInv
  <2>9. CASE SyncReturn(w)
    BY <2>9, SamePlaces DEF SyncReturn, BeginSync, Retires, WriterInv
  <2>10. CASE FreeDirect(w)
    <3> USE <2>10 DEF FreeDirect, PlaceInv, WriterInv, Retires
    <3>1. NewAlone'
      BY DEF NewAlone, OldAlone
    <3>2. BufAlone'
      BY DEF BufAlone, OldAlone
    <3>3. OldAlone'
      BY DEF OldAlone
    <3>4. PtrAlone'
      BY DEF PtrAlone, OldAlone
    <3>5. QueuesAlone'
      BY DEF QueuesAlone, OldAlone
    <3>6. QueuesOnce'
      BY DEF QueuesOnce
    <3> QED
      BY <3>1, <3>2, <3>3, <3>4, <3>5, <3>6
  <2>11. CASE CleanupTake(w)
    <3> USE <2>11 DEF CleanupTake, PlaceInv, WriterInv, Retires
    <3>1. NewAlone'
      BY ElemsOfEmpty DEF NewAlone
    <3>2. BufAlone'
      BY ElemsOfEmpty DEF BufAlone
    <3>3. OldAlone'
      BY ElemsOfEmpty DEF OldAlone
    <3>4. PtrAlone'
      BY ElemsOfEmpty DEF PtrAlone
    <3>5. QueuesAlone'
      BY ElemsOfEmpty DEF QueuesAlone
    <3>6. QueuesOnce'
      BY ElemsOfEmpty DEF QueuesOnce
    <3> QED
      BY <3>1, <3>2, <3>3, <3>4, <3>5, <3>6
  <2>12. CASE LeaveToMain(w)
    BY <2>12, SamePlaces DEF LeaveToMain, BeginSync, Retires, WriterInv
  <2>13. CASE Invoke(w)
    <3> DEFINE o == Head(todo[w])
    <3>1. /\ UNCHANGED <<cbs, ptr, buf, new, old, pc>> /\ live' = live \ {o}
          /\ todo' = [todo EXCEPT ![w] = Tail(todo[w])]
          /\ todo[w] # <<>> /\ todo[w] \in Seq(Objects) /\ Once(todo[w])
      BY <2>13 DEF Invoke, PlaceInv, QueuesOnce
    <3>2. /\ o \in Elems(todo[w]) /\ o \notin Elems(todo'[w])
          /\ Elems(todo'[w]) \subseteq Elems(todo[w]) /\ Once(todo'[w])
          /\ \A v \in Writers \ {w} : todo'[v] = todo[v]
      BY <3>1, ElemsOfTail
    <3>3. \A v \in Writers : Elems(todo'[v]) \subseteq Elems(todo[v])
      BY <3>2
    <3>4. \A v \in Writers : Retires(v)' <=> Retires(v)
      BY <3>1 DEF Retires
    <3> HIDE DEF o
    <3> USE DEF PlaceInv
    <3>5. NewAlone'
      BY <3>1, <3>2, <3>3, <3>4 DEF NewAlone
    <3>6. BufAlone'
      BY <3>1, <3>2, <3>3, <3>4 DEF BufAlone
    <3>7. OldAlone'
      BY <3>1, <3>2, <3>3, <3>4 DEF OldAlone
    <3>8. PtrAlone'
      BY <3>1, <3>2, <3>3 DEF PtrAlone
    <3>9. QueuesAlone'
      BY <3>1, <3>2, <3>3 DEF QueuesAlone
    <3>10. QueuesOnce'
      BY <3>1, <3>2 DEF QueuesOnce
    <3> QED
      BY <3>5, <3>6, <3>7, <3>8, <3>9, <3>10
  <2>14. CASE CleanupReturn(w)
    BY <2>14, SamePlaces DEF CleanupReturn, BeginSync, Retires, WriterInv
  <2> QED
    BY <1>3, <2>1, <2>2, <2>3, <2>4, <2>5, <2>6, <2>7, <2>8, <2>9, <2>10, <2>11,
       <2>12, <2>13, <2>14 DEF WriterStep, Update
<1>4. CASE Join
  BY <1>4, SamePlaces DEF Join, Retires
<1>5. CASE MainCleanup \/ Destroy
  BY <1>5, ElemsOfEmpty
  DEF MainCleanup, Destroy, MainInv, WriterInv, PlaceInv, NewAlone, BufAlone, OldAlone,
      PtrAlone, QueuesAlone, QueuesOnce, Retires
<1>6. CASE UNCHANGED vars
  BY <1>6, SamePlaces DEF vars, Retires
<1> QED
  BY <1>1, <1>2, <1>3, <1>4, <1>5, <1>6 DEF Next

\* No reader uses what a retiring writer is about to free, nor what is queued
\* once no writer is before the end of its grace period.
LEMMA UseStep ==
  ASSUME CarefulClients, IInv, PlaceInv, WriterInv, MainInv, UseInv, [Next]_vars
  PROVE  UseInv'
<1> USE ObjectsAssumption DEF IInv, Types, Goto, rcuVars, UseInv
<1>0. ASSUME UNCHANGED <<pc, waitFor>> PROVE \A r \in Readers : Awaited(r)' <=> Awaited(r)
  BY <1>0 DEF Awaited
<1>1. ASSUME NEW t \in Threads, Register(t) PROVE UseInv'
  BY <1>0, <1>1 DEF Register
<1>2. ASSUME NEW r \in Readers, ReadLock(r) PROVE UseInv'
  BY <1>0, <1>2 DEF ReadLock
<1>3. ASSUME NEW r \in Readers, Dereference(r) PROVE UseInv'
  <2>1. /\ UNCHANGED <<cnt, cbs, ptr, buf, live, pc, new, old, todo, waitFor>> /\ cnt[r] > 0
        /\ refs' = [refs EXCEPT ![r] = (refs[r] \cup {ptr}) \ {Null}]
    BY <1>3 DEF Dereference, Objs
  <2>2. ASSUME ptr # Null
        PROVE  /\ ptr \in live /\ ptr \notin Elems(cbs)
               /\ \A w \in Writers :
                    /\ ptr # new[w] /\ ptr # buf[w] /\ ptr \notin Elems(todo[w])
                    /\ old[w] = ptr => pc[w] # "reclaim" /\ pc[w] # "sync"
    BY <2>2 DEF PlaceInv, PtrAlone, NewAlone, BufAlone, OldAlone, Retires, WriterInv
  <2>3. ASSUME NEW q \in Readers
        PROVE  refs'[q] = refs[q] \/ (q = r /\ refs'[q] \subseteq (refs[q] \cup {ptr}) \ {Null})
    BY <2>1
  <2> QED
    BY <1>0, <2>1, <2>2, <2>3
<1>4. ASSUME NEW r \in Readers, ReadUnlock(r) PROVE UseInv'
  <2>1. CASE cnt[r] = 1
    <3>1. /\ UNCHANGED <<cbs, buf, live, pc, new, old, todo>>
          /\ cnt' = [cnt EXCEPT ![r] = cnt[r] - 1] /\ refs' = [refs EXCEPT ![r] = {}]
          /\ \A w \in Writers : waitFor'[w] = waitFor[w] \ {r}
      BY <1>4, <2>1 DEF ReadUnlock
    <3>2. \A s \in Readers \ {r} : Awaited(s)' <=> Awaited(s)
      BY <3>1 DEF Awaited
    <3> QED
      BY <3>1, <3>2
  <2>2. CASE cnt[r] # 1
    BY <1>0, <1>4, <2>2 DEF ReadUnlock
  <2> QED
    BY <2>1, <2>2
<1>5. ASSUME NEW w \in Writers, WriterStep(w) PROVE UseInv'
  <2>0. ASSUME NEW r \in Readers, Awaited(r), pc[w] \notin {"retire", "sync"}
        PROVE  Awaited(r)'
    <3>1. PICK v \in Writers : pc[v] = "retire" \/ (pc[v] = "sync" /\ r \in waitFor[v])
      BY <2>0 DEF Awaited
    <3>2. v # w
      BY <2>0, <3>1
    <3>3. pc'[v] = pc[v] /\ waitFor'[v] = waitFor[v]
      BY <1>5, <3>2
      DEF WriterStep, Update, Allocate, LoadOld, PublishByCas, PublishByAssign, Drain,
          RetireByCall, Synchronize, BeginSync, SyncScan, SyncReturn, FreeDirect,
          CleanupTake, LeaveToMain, Invoke, CleanupReturn
    <3> QED
      BY <3>1, <3>3 DEF Awaited
  <2>1. CASE Allocate(w)
    BY <2>0, <2>1 DEF Allocate
  <2>2. CASE LoadOld(w)
    BY <2>0, <2>2 DEF LoadOld
  <2>3. CASE PublishByCas(w)
    <3>1. /\ UNCHANGED <<cnt, cbs, buf, live, refs, old, todo, waitFor>> /\ pc[w] = "publish"
          /\ \A v \in Writers : /\ pc'[v] = pc[v] \/ (v = w /\ pc'[v] \in {"retire", "load"})
                                /\ new'[v] = new[v] \/ new'[v] = Null
      BY <2>3 DEF PublishByCas
    <3>2. \A r \in Readers : Awaited(r) => Awaited(r)'
      BY <2>0, <3>1
    <3>3. ASSUME NEW r \in Readers, NEW o \in refs[r], NEW v \in Writers
          PROVE  /\ o # new'[v] /\ o # buf[v] /\ o \notin Elems(todo[v])
                 /\ old[v] = o => pc'[v] # "reclaim" /\ (pc'[v] = "sync" => r \in waitFor[v])
      <4>1. /\ o # new[v] /\ o # Null /\ o # buf[v] /\ o \notin Elems(todo[v])
            /\ old[v] = o => pc[v] # "reclaim" /\ (pc[v] = "sync" => r \in waitFor[v])
        BY <3>3
      <4>2. (pc'[v] = pc[v] \/ pc'[v] \in {"retire", "load"}) /\ (new'[v] = new[v] \/ new'[v] = Null)
        BY <3>1
      <4> QED
        BY <4>1, <4>2
    <3> QED
      BY <3>1, <3>2, <3>3
  <2>4. CASE PublishByAssign(w)
    BY <2>0, <2>4 DEF PublishByAssign
  <2>5. CASE Drain(w)
    BY <1>0, <2>5 DEF Drain
  <2>6. CASE RetireByCall(w)
    <3>1. /\ UNCHANGED <<cnt, buf, live, refs, pc, new, todo, waitFor>> /\ pc[w] = "retire"
          /\ old' = [old EXCEPT ![w] = Null]
      BY <2>6 DEF RetireByCall
    <3>2. \A r \in Readers : Awaited(r)'
      BY <3>1 DEF Awaited
    <3>3. \A v \in Writers : old'[v] = Null \/ old'[v] = old[v]
      BY <3>1
    <3> QED
      BY <3>1, <3>2, <3>3
  <2>7. CASE Synchronize(w)
    <3>1. /\ UNCHANGED <<cnt, cbs, buf, live, refs, new, old, todo>> /\ pc[w] = "retire"
          /\ pc' = [pc EXCEPT ![w] = "sync"] /\ waitFor' = [waitFor EXCEPT ![w] = InSection]
      BY <2>7 DEF Synchronize, BeginSync
    <3>2. ASSUME NEW r \in Readers, refs[r] # {} PROVE r \in InSection
      BY <3>2 DEF InSection
    <3>3. \A v \in Writers \ {w} : pc'[v] = pc[v] /\ waitFor'[v] = waitFor[v]
      BY <3>1
    <3>4. pc'[w] = "sync" /\ waitFor'[w] = InSection
      BY <3>1
    <3>5. ASSUME NEW r \in Readers, NEW o \in refs[r], NEW v \in Writers, old[v] = o
          PROVE  pc'[v] # "reclaim" /\ (pc'[v] = "sync" => r \in waitFor'[v])
      <4>1. CASE v = w
        BY <3>2, <3>4, <4>1
      <4>2. CASE v # w
        BY <3>3, <3>5, <4>2
      <4> QED
        BY <4>1, <4>2
    <3>6. ASSUME NEW r \in Readers, NEW o \in refs[r], o \in Elems(cbs)
          PROVE  Awaited(r)'
      BY <3>2, <3>4 DEF Awaited
    <3> QED
      BY <3>1, <3>5, <3>6
  <2>8. CASE SyncScan(w)
    BY <1>0, <2>8 DEF SyncScan
  <2>9. CASE SyncReturn(w)
    <3>1. /\ UNCHANGED <<cnt, cbs, buf, live, refs, new, old, todo, waitFor>>
          /\ pc' = [pc EXCEPT ![w] = "reclaim"]
      BY <2>9 DEF SyncReturn
    <3>2. waitFor[w] = {}
      BY <2>9, ScanOver
    <3>3. \A v \in Writers \ {w} : pc'[v] = pc[v]
      BY <3>1
    <3>4. ASSUME NEW r \in Readers, NEW o \in refs[r], NEW v \in Writers, old[v] = o
          PROVE  pc'[v] # "reclaim" /\ (pc'[v] = "sync" => r \in waitFor[v])
      <4>1. v # w
        BY <2>9, <3>2, <3>4 DEF SyncReturn
      <4> QED
        BY <3>3, <3>4, <4>1
    <3>5. ASSUME NEW r \in Readers, NEW o \in refs[r], o \in Elems(cbs)
          PROVE  Awaited(r)'
      <4>1. PICK v \in Writers : pc[v] = "retire" \/ (pc[v] = "sync" /\ r \in waitFor[v])
        BY <3>5 DEF Awaited
      <4>2. v # w
        BY <2>9, <3>2, <4>1 DEF SyncReturn
      <4> QED
        BY <3>1, <3>3, <4>1, <4>2 DEF Awaited
    <3> QED
      BY <3>1, <3>4, <3>5
  <2>10. CASE FreeDirect(w)
    BY <2>0, <2>10 DEF FreeDirect
  <2>11. CASE CleanupTake(w)
    <3>1. /\ UNCHANGED <<cnt, buf, live, refs, new, old, waitFor>> /\ cbs' = <<>>
          /\ pc' = [pc EXCEPT ![w] = "invoke"] /\ todo' = [todo EXCEPT ![w] = cbs]
          /\ \A v \in Writers : pc[v] \notin {"retire", "sync"}
      BY <2>11 DEF CleanupTake, MayClean, CarefulClients
    <3>2. ASSUME NEW r \in Readers, NEW o \in refs[r] PROVE o \notin Elems(cbs)
      BY <3>1, <3>2 DEF Awaited
    <3> QED
      BY <3>1, <3>2, ElemsOfEmpty
  <2>12. CASE LeaveToMain(w)
    BY <2>0, <2>12 DEF LeaveToMain
  <2>13. CASE Invoke(w)
    <3>1. Once(todo[w]) /\ todo[w] # <<>> /\ todo[w] \in Seq(Objects)
      BY <2>13 DEF Invoke, PlaceInv, QueuesOnce
    <3> QED
      BY <2>0, <2>13, <3>1, ElemsOfTail DEF Invoke
  <2>14. CASE CleanupReturn(w)
    BY <2>0, <2>14 DEF CleanupReturn
  <2> QED
    BY <1>5, <2>1, <2>2, <2>3, <2>4, <2>5, <2>6, <2>7, <2>8, <2>9, <2>10, <2>11,
       <2>12, <2>13, <2>14 DEF WriterStep, Update
<1>6. CASE Join
  BY <1>0, <1>6 DEF Join
<1>7. CASE MainCleanup \/ Destroy
  <2>1. \A r \in Readers : refs[r] = {}
    <3>1. \A r \in Readers : cnt[r] = 0
      BY <1>7 DEF MainCleanup, Destroy, MainInv
    <3>2. ASSUME NEW r \in Readers, refs[r] # {} PROVE FALSE
      <4>1. cnt[r] > 0
        BY <3>2
      <4> QED
        BY <3>1, <4>1
    <3> QED
      BY <3>2
  <2> QED
    BY <1>7, <2>1 DEF MainCleanup, Destroy
<1>8. CASE UNCHANGED vars
  BY <1>0, <1>8 DEF vars
<1> QED
  BY <1>1, <1>2, <1>3, <1>4, <1>5, <1>6, <1>7, <1>8 DEF Next, ReaderStep

LEMMA MemInit == Init => SafeInv
<1> SUFFICES ASSUME Init PROVE SafeInv
  OBVIOUS
<1> USE ObjectsAssumption, ElemsOfEmpty DEF Init
<1>1. IInv
  BY DEF IInv, Types, SlotInv, ScanInv, Elems
<1>2. PlaceInv
  BY DEF PlaceInv, NewAlone, BufAlone, OldAlone, Retires, PtrAlone, QueuesAlone, QueuesOnce
<1>3. WriterInv /\ MainInv /\ UseInv
  BY DEF WriterInv, MainInv, UseInv
<1> QED
  BY <1>1, <1>2, <1>3 DEF MemInv, SafeInv

LEMMA MemStep == OrderedStores /\ MemInv /\ [Next]_vars => MemInv'
BY IInvStep, PlaceStep, WriterStepInv DEF MemInv, IInv

LEMMA SafeStep == CarefulClients /\ SafeInv /\ [Next]_vars => SafeInv'
BY MemStep, UseStep DEF SafeInv, MemInv, IInv, CarefulClients

\* rcu.h, 27: an object is never freed while a reader uses it, whatever the
\* readers do and however the writers publish and retire, as long as nobody
\* cleans up while another writer has its grace period before it.
THEOREM ReadersAreSafe == ASSUME CarefulClients PROVE Spec => []ReaderSafe
<1>1. SafeInv => ReaderSafe
  BY DEF SafeInv, UseInv, ReaderSafe
<1> QED
  BY <1>1, MemInit, SafeStep, PTL DEF Spec

\* rcu.h, 34: rcu_cleanup calls back for no object that a reader still uses,
\* its own or another writer's, under the same condition.
THEOREM CallbacksAfterReaders == ASSUME CarefulClients PROVE Spec => CallbackAfterReaders
<1>1. SafeInv => [\A w \in Writers : Invoke(w) => \A r \in Readers : Head(todo[w]) \notin refs[r]]_vars
  <2> SUFFICES ASSUME SafeInv, NEW w \in Writers, Invoke(w) PROVE Head(todo[w]) \in Elems(todo[w])
    BY DEF SafeInv, UseInv
  <2> QED
    BY ElemsOfTail DEF Invoke, SafeInv, MemInv, IInv, Types, PlaceInv, QueuesOnce
<1> QED
  BY <1>1, MemInit, SafeStep, PTL DEF Spec, CallbackAfterReaders

\* rcu.c, 208 to 259, and the direct free after a grace period: no object is
\* freed twice and none that is published, even when writers clean up at any
\* time, each one running the part of the list it has taken.
THEOREM FreesOnce == ASSUME OrderedStores PROVE Spec => FreedOnce
<1>1. MemInv =>
        [ /\ \A w \in Writers :
               /\ FreeDirect(w) => old[w] \in live \ {ptr}
               /\ Invoke(w) => Head(todo[w]) \in live \ {ptr}
          /\ MainCleanup \/ Destroy => Elems(cbs) \subseteq live \ {ptr} ]_vars
  <2> SUFFICES ASSUME MemInv
               PROVE  /\ \A w \in Writers :
                           /\ FreeDirect(w) => old[w] \in live \ {ptr}
                           /\ Invoke(w) => Head(todo[w]) \in live \ {ptr}
                      /\ Elems(cbs) \subseteq live \ {ptr}
    OBVIOUS
  <2> USE DEF MemInv, IInv, Types, PlaceInv
  <2>1. ASSUME NEW w \in Writers, FreeDirect(w) PROVE old[w] \in live \ {ptr}
    BY <2>1 DEF FreeDirect, Goto, OldAlone, Retires, WriterInv
  <2>2. ASSUME NEW w \in Writers, Invoke(w) PROVE Head(todo[w]) \in live \ {ptr}
    <3>1. Head(todo[w]) \in Elems(todo[w])
      BY <2>2, ElemsOfTail DEF Invoke, QueuesOnce
    <3>2. Head(todo[w]) # Null
      BY <2>2, ObjectsAssumption DEF Invoke
    <3> QED
      BY <3>1, <3>2 DEF QueuesAlone, PtrAlone
  <2>3. Elems(cbs) \subseteq live \ {ptr}
    BY ObjectsAssumption DEF QueuesAlone, PtrAlone
  <2> QED
    BY <2>1, <2>2, <2>3
<1> QED
  BY <1>1, MemInit, MemStep, PTL DEF Spec, FreedOnce, SafeInv

-------------------------------------------------------------------------------
\* NothingLost with what it leaves open: an old object is the writer's to free
\* only from its publication on.
Keeps(w, o) ==
  o \in {new[w], buf[w]} \/ o \in Elems(todo[w]) \/ (Retires(w) /\ o = old[w])
KeptInv ==
  \A o \in live : o \in Elems(cbs) \/ o = ptr \/ \E w \in Writers : Keeps(w, o)

\* A writer's step disturbs what that writer keeps, the queue and the pointer.
LEMMA KeptByOthers ==
  ASSUME KeptInv, NEW w \in Writers,
         \A v \in Writers \ {w} : \A o \in Objects : Keeps(v, o) => Keeps(v, o)',
         live' \subseteq Objects,
         \A o \in live' : o \notin live \/ o \in Elems(cbs) \/ o = ptr \/ Keeps(w, o)
                            => o \in Elems(cbs') \/ o = ptr' \/ Keeps(w, o)'
  PROVE  KeptInv'
BY DEF KeptInv

LEMMA KeptStep ==
  ASSUME OrderedStores, CallMayFail = FALSE, MemInv, KeptInv, [Next]_vars
  PROVE  KeptInv'
<1> USE ObjectsAssumption DEF MemInv, IInv, Types, Goto, rcuVars
<1>0. live' \subseteq Objects
  BY TypeStep DEF IInv, MemInv
<1>1. CASE UNCHANGED <<cbs, ptr, buf, live, new, old, pc, todo>>
  BY <1>1 DEF KeptInv, Keeps, Retires
<1>2. ASSUME NEW w \in Writers, WriterStep(w) PROVE KeptInv'
  <2> SUFFICES /\ \A v \in Writers \ {w} : \A o \in Objects : Keeps(v, o) => Keeps(v, o)'
               /\ \A o \in live' : o \notin live \/ o \in Elems(cbs) \/ o = ptr \/ Keeps(w, o)
                                     => o \in Elems(cbs') \/ o = ptr' \/ Keeps(w, o)'
    BY <1>0, KeptByOthers
  <2> DEFINE Others == \A v \in Writers \ {w} : \A o \in Objects : Keeps(v, o) => Keeps(v, o)'
             Mine == \A o \in live' : o \notin live \/ o \in Elems(cbs) \/ o = ptr \/ Keeps(w, o)
                                        => o \in Elems(cbs') \/ o = ptr' \/ Keeps(w, o)'
  <2>1. CASE Allocate(w)
    <3>1. Others
      BY <2>1 DEF Allocate, Keeps, Retires
    <3>2. Mine
      BY <2>1 DEF Allocate, Keeps, Retires, WriterInv
    <3> QED
      BY <3>1, <3>2
  <2>2. CASE LoadOld(w)
    <3>1. Others
      BY <2>2 DEF LoadOld, Keeps, Retires
    <3>2. Mine
      BY <2>2 DEF LoadOld, Keeps, Retires
    <3> QED
      BY <3>1, <3>2
  <2>3. CASE PublishByCas(w)
    <3>1. Others
      BY <2>3 DEF PublishByCas, Keeps, Retires
    <3>2. Mine
      BY <2>3 DEF PublishByCas, Keeps, Retires
    <3> QED
      BY <3>1, <3>2
  <2>4. CASE PublishByAssign(w)
    <3>1. Others
      BY <2>4 DEF PublishByAssign, Keeps, Retires
    <3>2. Mine
      BY <2>4 DEF PublishByAssign, Keeps, Retires
    <3> QED
      BY <3>1, <3>2
  <2>5. CASE Drain(w)
    <3>1. Others
      BY <2>5 DEF Drain, Keeps, Retires
    <3>2. Mine
      BY <2>5 DEF Drain, Keeps, Retires, WriterInv
    <3> QED
      BY <3>1, <3>2
  <2>6. CASE RetireByCall(w)
    <3>1. Others
      BY <2>6 DEF RetireByCall, Keeps, Retires
    <3>2. Mine
      <4>1. /\ cbs' = <<old[w]>> \o cbs /\ old[w] \in Objects
            /\ UNCHANGED <<ptr, buf, live, new, todo>>
        BY <2>6 DEF RetireByCall
      <4>2. Elems(<<old[w]>> \o cbs) = Elems(cbs) \cup {old[w]}
        BY <4>1, ElemsOfPrepend
      <4>3. ASSUME NEW o, Keeps(w, o) PROVE o = old[w] \/ Keeps(w, o)'
        BY <4>1, <4>3 DEF Keeps
      <4> QED
        BY <4>1, <4>2, <4>3
    <3> QED
      BY <3>1, <3>2
  <2>7. CASE Synchronize(w)
    <3>1. Others
      BY <2>7 DEF Synchronize, Keeps, Retires, BeginSync
    <3>2. Mine
      BY <2>7 DEF Synchronize, Keeps, Retires, BeginSync
    <3> QED
      BY <3>1, <3>2
  <2>8. CASE SyncScan(w)
    <3>1. Others
      BY <2>8 DEF SyncScan, Keeps, Retires
    <3>2. Mine
      BY <2>8 DEF SyncScan, Keeps, Retires
    <3> QED
      BY <3>1, <3>2
  <2>9. CASE SyncReturn(w)
    <3>1. Others
      BY <2>9 DEF SyncReturn, Keeps, Retires
    <3>2. Mine
      BY <2>9 DEF SyncReturn, Keeps, Retires
    <3> QED
      BY <3>1, <3>2
  <2>10. CASE FreeDirect(w)
    <3>1. Others
      BY <2>10 DEF FreeDirect, Keeps, Retires
    <3>2. Mine
      BY <2>10 DEF FreeDirect, Keeps, Retires
    <3> QED
      BY <3>1, <3>2
  <2>11. CASE CleanupTake(w)
    <3>1. Others
      BY <2>11 DEF CleanupTake, Keeps, Retires
    <3>2. Mine
      BY <2>11, ElemsOfEmpty DEF CleanupTake, Keeps, Retires, WriterInv
    <3> QED
      BY <3>1, <3>2
  <2>12. CASE LeaveToMain(w)
    <3>1. Others
      BY <2>12 DEF LeaveToMain, Keeps, Retires
    <3>2. Mine
      BY <2>12 DEF LeaveToMain, Keeps, Retires
    <3> QED
      BY <3>1, <3>2
  <2>13. CASE Invoke(w)
    <3>1. Others
      BY <2>13 DEF Invoke, Keeps, Retires
    <3>2. Mine
      BY <2>13, ElemsOfTail DEF Invoke, Keeps, Retires, PlaceInv, QueuesOnce
    <3> QED
      BY <3>1, <3>2
  <2>14. CASE CleanupReturn(w)
    <3>1. Others
      BY <2>14 DEF CleanupReturn, Keeps, Retires
    <3>2. Mine
      BY <2>14 DEF CleanupReturn, Keeps, Retires
    <3> QED
      BY <3>1, <3>2
  <2> QED
    BY <1>2, <2>1, <2>2, <2>3, <2>4, <2>5, <2>6, <2>7, <2>8, <2>9, <2>10, <2>11,
       <2>12, <2>13, <2>14 DEF WriterStep, Update
<1>3. CASE Join \/ MainCleanup \/ Destroy
  <2>1. UNCHANGED <<ptr, buf, new, old, pc, todo>> /\ live' \subseteq live
    BY <1>3 DEF Join, MainCleanup, Destroy
  <2>2. ASSUME NEW o \in live' PROVE o \in Elems(cbs) => o \in Elems(cbs')
    BY <1>3, <2>2 DEF Join, MainCleanup, Destroy
  <2>3. ASSUME NEW w \in Writers, NEW o PROVE Keeps(w, o) => Keeps(w, o)'
    BY <2>1 DEF Keeps, Retires
  <2> QED
    BY <2>1, <2>2, <2>3 DEF KeptInv
<1> QED
  BY <1>1, <1>2, <1>3
  DEF Next, vars, Register, ReaderStep, ReadLock, Dereference, ReadUnlock

\* rcu.h, 34: a retired object stays where somebody will free it, so nothing
\* leaks as long as the malloc of rcu_call (rcu.c, 213) succeeds, whenever the
\* writers clean up.
THEOREM NothingIsLost ==
  ASSUME OrderedStores, CallMayFail = FALSE PROVE Spec => []NothingLost
<1>1. Init => KeptInv
  BY DEF Init, KeptInv
<1>2. KeptInv => NothingLost
  BY DEF KeptInv, Keeps, NothingLost
<1> QED
  BY <1>1, <1>2, MemInit, MemStep, KeptStep, PTL DEF Spec, SafeInv
===============================================================================
