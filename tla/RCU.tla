--------------------------------- MODULE RCU ---------------------------------
(***************************************************************************)
(* The userspace RCU of synchronization/rcu.c, with the clients test/rcu.c *)
(* shows: readers that dereference one shared pointer inside read-side     *)
(* sections, writers that replace the object it points to and retire the   *)
(* old one, and a main thread that joins them, cleans up and destroys.     *)
(*                                                                         *)
(* An action is one access to an atomic, or one critical section of        *)
(* rcu_ctx_t.lock (what such a section touches is touched nowhere else,    *)
(* but for the size that rcu_synchronize reads without the lock: here it   *)
(* sees every value it takes).  A thread passes its own slot to the        *)
(* read-side calls, so a counter is named by its thread.                   *)
(***************************************************************************)
EXTENDS Integers, Sequences, FiniteSets

CONSTANTS
  Readers, Writers,
  Objects,       \* what malloc can return to a writer, reused after free
  Null,
  MaxNest,       \* how deep a client nests read-side sections
  MaxThreads,    \* MAX_THREADS, which rcu_register_thread does not test
  Publish,       \* "cas" as in test/rcu.c, "assign" through rcu_assign_pointer
  Retire,        \* "call" through rcu_call, "direct": free after synchronize
  Cleaning,      \* when a writer may call rcu_cleanup: "any" time, or "alone",
                 \* while no other writer has an object queued whose grace
                 \* period is not over
  LoadsOvertake, \* may the loads of rcu_synchronize overtake the release
                 \* store of rcu_assign_pointer, as they do on x86?
  CallMayFail    \* may the malloc in rcu_call fail?

Threads == Readers \cup Writers

ASSUME ThreadsAssumption ==
  /\ IsFiniteSet(Threads) /\ Readers \cap Writers = {}
  /\ MaxThreads \in Nat /\ Cardinality(Threads) <= MaxThreads
ASSUME ObjectsAssumption == Null \notin Objects /\ MaxNest \in Nat \ {0}
ASSUME ClientAssumption ==
  /\ Publish \subseteq {"cas", "assign"} /\ Retire \subseteq {"call", "direct"}
  /\ Cleaning \in {"any", "alone"}
  /\ {LoadsOvertake, CallMayFail} \subseteq BOOLEAN

VARIABLES
  slots,   \* rcu_ctx_t.threads_idx[0 .. size-1]: the registered threads
  cnt,     \* rcu_ctx_t.threads_cnt: nesting depth of each thread
  cbs,     \* rcu_ctx_t.cbs: the objects with a pending callback, newest first
  ctx,     \* "alive", "joined", "clean" (main's progress), "freed", "crashed"
  ptr,     \* the shared pointer, as the other threads see it
  buf,     \* buf[w]: the store of w that is not yet visible, or Null
  live,    \* the objects allocated and not freed
  refs,    \* refs[r]: the objects r dereferenced in its current section
  pc,      \* where each writer is
  new, old,  \* new_obj and old_obj of each writer; old is Null once handed over
  idx,     \* the loop index i of rcu_synchronize
  todo,    \* the list rcu_cleanup has taken and still has to walk
  waitFor  \* history: readers inside a section since w's rcu_synchronize began

rcuVars == <<slots, cnt, cbs, ctx>>
vars == <<rcuVars, ptr, buf, live, refs, pc, new, old, idx, todo, waitFor>>

Elems(s) == {s[i] : i \in 1..Len(s)}
Objs(S) == S \ {Null}

Init ==
  /\ slots = <<>>
  /\ cnt = [r \in Readers |-> 0]
  /\ cbs = <<>>
  /\ ctx = "alive"
  /\ ptr = Null
  /\ buf = [w \in Writers |-> Null]
  /\ live = {}
  /\ refs = [r \in Readers |-> {}]
  /\ pc = [w \in Writers |-> "idle"]
  /\ new = [w \in Writers |-> Null]
  /\ old = [w \in Writers |-> Null]
  /\ idx = [w \in Writers |-> 1]
  /\ todo = [w \in Writers |-> <<>>]
  /\ waitFor = [w \in Writers |-> {}]

\* Mutant: registering does not look for the thread first.
RegisterAgain(t) ==
  /\ ctx = "alive"
  /\ slots' = Append(slots, t)
  /\ UNCHANGED <<cnt, cbs, ctx, ptr, buf, live, refs, pc, new, old, idx, todo, waitFor>>

\* rcu_register_thread; a second call of the same thread changes nothing.
Register(t) ==
  /\ ctx = "alive"
  /\ t \notin Elems(slots)
  /\ slots' = Append(slots, t)
  /\ UNCHANGED <<cnt, cbs, ctx, ptr, buf, live, refs, pc, new, old, idx, todo, waitFor>>

-------------------------------------------------------------------------------
\* rcu_read_lock.
ReadLock(r) ==
  /\ ctx = "alive" /\ r \in Elems(slots)
  /\ cnt[r] < MaxNest
  /\ cnt' = [cnt EXCEPT ![r] = @ + 1]
  /\ UNCHANGED <<slots, cbs, ctx, ptr, buf, live, refs, pc, new, old, idx, todo, waitFor>>

\* rcu_dereference inside a section; the reader uses the object from then on.
Dereference(r) ==
  /\ cnt[r] > 0
  /\ refs' = [refs EXCEPT ![r] = Objs(@ \cup {ptr})]
  /\ UNCHANGED <<rcuVars, ptr, buf, live, pc, new, old, idx, todo, waitFor>>

\* rcu_read_unlock; the outermost one ends the use of the objects.
ReadUnlock(r) ==
  /\ cnt[r] > 0
  /\ cnt' = [cnt EXCEPT ![r] = @ - 1]
  /\ refs' = IF cnt[r] = 1 THEN [refs EXCEPT ![r] = {}] ELSE refs
  /\ waitFor' = IF cnt[r] = 1 THEN [w \in Writers |-> waitFor[w] \ {r}] ELSE waitFor
  /\ UNCHANGED <<slots, cbs, ctx, ptr, buf, live, pc, new, old, idx, todo>>

-------------------------------------------------------------------------------
Goto(w, from, to) == pc[w] = from /\ pc' = [pc EXCEPT ![w] = to]

\* A writer allocates the next version.
Allocate(w) ==
  /\ ctx = "alive"
  /\ Goto(w, "idle", "load")
  /\ \E o \in Objects \ live : new' = [new EXCEPT ![w] = o] /\ live' = live \cup {o}
  /\ UNCHANGED <<rcuVars, ptr, buf, refs, old, idx, todo, waitFor>>

\* rcu_dereference by the writer, which sees its own delayed store.
LoadOld(w) ==
  /\ Goto(w, "load", "publish")
  /\ old' = [old EXCEPT ![w] = IF buf[w] # Null THEN buf[w] ELSE ptr]
  /\ UNCHANGED <<rcuVars, ptr, buf, live, refs, new, idx, todo, waitFor>>

\* Mutant: a plain store where the compare-and-swap should be.
PublishByStore(w) ==
  /\ "cas" \in Publish
  /\ buf[w] = Null
  /\ Goto(w, "publish", "retire") /\ ptr' = new[w] /\ new' = [new EXCEPT ![w] = Null]
  /\ UNCHANGED <<rcuVars, buf, live, refs, old, idx, todo, waitFor>>

\* The compare-and-swap of test/rcu.c; a failed one loads again.
PublishByCas(w) ==
  /\ "cas" \in Publish
  /\ buf[w] = Null
  /\ IF ptr = old[w]
     THEN Goto(w, "publish", "retire") /\ ptr' = new[w] /\ new' = [new EXCEPT ![w] = Null]
     ELSE Goto(w, "publish", "load") /\ UNCHANGED <<ptr, new>>
  /\ UNCHANGED <<rcuVars, buf, live, refs, old, idx, todo, waitFor>>

\* rcu_assign_pointer: a release store, which the others see later.  One
\* delayed store per writer is enough for the reorderings that matter.
PublishByAssign(w) ==
  /\ "assign" \in Publish
  /\ buf[w] = Null
  /\ Goto(w, "publish", "retire")
  /\ new' = [new EXCEPT ![w] = Null]
  /\ buf' = [buf EXCEPT ![w] = new[w]]
  /\ UNCHANGED <<rcuVars, ptr, live, refs, old, idx, todo, waitFor>>

\* The delayed store reaches memory.
Drain(w) ==
  /\ buf[w] # Null
  /\ ptr' = buf[w]
  /\ buf' = [buf EXCEPT ![w] = Null]
  /\ UNCHANGED <<rcuVars, live, refs, pc, new, old, idx, todo, waitFor>>

InSection == {r \in Readers : cnt[r] > 0}

\* Mutant: the scan begins with the second slot.
BeginSyncLate(w) ==
  /\ Goto(w, "retire", "sync")
  /\ idx' = [idx EXCEPT ![w] = 2]
  /\ waitFor' = [waitFor EXCEPT ![w] = InSection]

\* What every writer does on entering rcu_synchronize.
BeginSync(w) ==
  /\ Goto(w, "retire", "sync")
  /\ idx' = [idx EXCEPT ![w] = 1]
  /\ waitFor' = [waitFor EXCEPT ![w] = InSection]

\* rcu_call; its mutex also drains the caller's store.  When malloc fails it
\* returns before the lock, and nobody knows the object any more.
RetireByCall(w) ==
  /\ "call" \in Retire
  /\ pc[w] = "retire" /\ old[w] # Null
  /\ \/ buf[w] = Null /\ cbs' = <<old[w]>> \o cbs
     \/ CallMayFail /\ UNCHANGED cbs
  /\ old' = [old EXCEPT ![w] = Null]
  /\ UNCHANGED <<slots, cnt, ctx, ptr, buf, live, refs, pc, new, idx, todo, waitFor>>

\* The writer enters rcu_synchronize: it has handed over its old object, had
\* none, or keeps it to itself.
Synchronize(w) ==
  /\ "direct" \in Retire \/ old[w] = Null
  /\ buf[w] = Null \/ LoadsOvertake
  /\ BeginSync(w)
  /\ UNCHANGED <<rcuVars, ptr, buf, live, refs, new, old, todo>>

-------------------------------------------------------------------------------
\* Mutant: the scan goes on after it has found a reader.
SyncScanOn(w) ==
  /\ pc[w] = "sync"
  /\ idx[w] <= Len(slots)
  /\ idx' = [idx EXCEPT ![w] = @ + 1]
  /\ UNCHANGED <<rcuVars, ptr, buf, live, refs, pc, new, old, todo, waitFor>>

\* rcu_synchronize looks at the slots one after the other, and starts again
\* from the first one when it finds a reader.
SyncScan(w) ==
  /\ pc[w] = "sync"
  /\ idx[w] <= Len(slots)
  /\ LET t == slots[idx[w]] IN
     idx' = [idx EXCEPT ![w] = IF t \in Readers /\ cnt[t] > 0 THEN 1 ELSE @ + 1]
  /\ UNCHANGED <<rcuVars, ptr, buf, live, refs, pc, new, old, todo, waitFor>>

\* Mutant: the scan is never found to be over.
SyncReturnNever(w) ==
  /\ Goto(w, "sync", "reclaim")
  /\ idx[w] > Len(slots) + 1
  /\ UNCHANGED <<rcuVars, ptr, buf, live, refs, new, old, idx, todo, waitFor>>

SyncReturn(w) ==
  /\ Goto(w, "sync", "reclaim")
  /\ idx[w] > Len(slots)
  /\ UNCHANGED <<rcuVars, ptr, buf, live, refs, new, old, idx, todo, waitFor>>

\* After the grace period: free the writer's own old object, or take the whole
\* callback list under the lock (rcu_cleanup), or leave the list to main.
MayClean(w) ==
  Cleaning = "any" \/ \A v \in Writers \ {w} : pc[v] \notin {"retire", "sync"}

FreeDirect(w) ==
  /\ Goto(w, "reclaim", "idle")
  /\ old[w] # Null
  /\ live' = live \ {old[w]}
  /\ old' = [old EXCEPT ![w] = Null]
  /\ UNCHANGED <<rcuVars, ptr, buf, refs, new, idx, todo, waitFor>>

\* Mutant: the list head is reset before the list is taken.
CleanupTakeLate(w) ==
  /\ MayClean(w) /\ old[w] = Null
  /\ buf[w] = Null
  /\ Goto(w, "reclaim", "invoke")
  /\ cbs' = <<>>
  /\ UNCHANGED <<slots, cnt, ctx, ptr, buf, live, refs, new, old, idx, todo, waitFor>>

CleanupTake(w) ==
  /\ MayClean(w) /\ old[w] = Null
  /\ buf[w] = Null
  /\ Goto(w, "reclaim", "invoke")
  /\ todo' = [todo EXCEPT ![w] = cbs]
  /\ cbs' = <<>>
  /\ UNCHANGED <<slots, cnt, ctx, ptr, buf, live, refs, new, old, idx, waitFor>>

LeaveToMain(w) ==
  /\ old[w] = Null
  /\ Goto(w, "reclaim", "idle")
  /\ UNCHANGED <<rcuVars, ptr, buf, live, refs, new, old, idx, todo, waitFor>>

\* rcu_cleanup runs the callbacks it took, which free their objects.
Invoke(w) ==
  /\ pc[w] = "invoke" /\ todo[w] # <<>>
  /\ live' = live \ {Head(todo[w])}
  /\ todo' = [todo EXCEPT ![w] = Tail(@)]
  /\ UNCHANGED <<rcuVars, ptr, buf, refs, pc, new, old, idx, waitFor>>

CleanupReturn(w) ==
  /\ todo[w] = <<>>
  /\ Goto(w, "invoke", "idle")
  /\ UNCHANGED <<rcuVars, ptr, buf, live, refs, new, old, idx, todo, waitFor>>

-------------------------------------------------------------------------------
\* main: join all threads, then clean up, then destroy.
Join ==
  /\ ctx = "alive"
  /\ InSection = {}
  /\ \A w \in Writers : pc[w] = "idle" /\ buf[w] = Null
  /\ ctx' = "joined"
  /\ UNCHANGED <<slots, cnt, cbs, ptr, buf, live, refs, pc, new, old, idx, todo, waitFor>>

\* No thread is left, so this whole rcu_cleanup is one step.
MainCleanup ==
  /\ ctx = "joined"
  /\ ctx' = "clean"
  /\ live' = live \ Elems(cbs)
  /\ cbs' = <<>>
  /\ UNCHANGED <<slots, cnt, ptr, buf, refs, pc, new, old, idx, todo, waitFor>>

\* rcu_destroy runs what is still queued, then frees the context.  Its
\* kslist_for_each_safe evaluates n = pos->next once more after the last node,
\* with pos NULL, so a list that was not empty ends in a crash.  Main's own
\* rcu_cleanup has emptied it by then.
Destroy ==
  /\ ctx = "clean"
  /\ live' = live \ Elems(cbs)
  /\ ctx' = IF cbs = <<>> THEN "freed" ELSE "crashed"
  /\ UNCHANGED <<slots, cnt, cbs, ptr, buf, refs, pc, new, old, idx, todo, waitFor>>

-------------------------------------------------------------------------------
ReaderStep(r) == ReadLock(r) \/ Dereference(r) \/ ReadUnlock(r)

\* The steps a writer is bound to take once it has begun an update.
Update(w) ==
  \/ LoadOld(w) \/ PublishByCas(w) \/ PublishByAssign(w) \/ Drain(w)
  \/ RetireByCall(w) \/ Synchronize(w) \/ SyncScan(w) \/ SyncReturn(w)
  \/ FreeDirect(w) \/ CleanupTake(w) \/ LeaveToMain(w) \/ Invoke(w) \/ CleanupReturn(w)

WriterStep(w) == Allocate(w) \/ Update(w)

Next ==
  \/ \E t \in Threads : Register(t)
  \/ \E r \in Readers : ReaderStep(r)
  \/ \E w \in Writers : WriterStep(w)
  \/ Join \/ MainCleanup \/ Destroy

Spec == Init /\ [][Next]_vars

\* The scheduler runs every writer again and again.  Readers owe nothing: a
\* reader may sleep inside its section or come back for ever.
FairSpec == Spec /\ \A w \in Writers : WF_vars(Update(w))

-------------------------------------------------------------------------------
TypeOK ==
  /\ slots \in Seq(Threads) /\ Len(slots) <= MaxThreads
  /\ cnt \in [Readers -> 0..MaxNest]
  /\ cbs \in Seq(Objects)
  /\ ctx \in {"alive", "joined", "clean", "freed", "crashed"}
  /\ ptr \in Objects \cup {Null}
  /\ buf \in [Writers -> Objects \cup {Null}]
  /\ live \subseteq Objects
  /\ refs \in [Readers -> SUBSET Objects]
  /\ pc \in [Writers ->
       {"idle", "load", "publish", "retire", "sync", "reclaim", "invoke"}]
  /\ new \in [Writers -> Objects \cup {Null}]
  /\ old \in [Writers -> Objects \cup {Null}]
  /\ idx \in [Writers -> Nat \ {0}]
  /\ todo \in [Writers -> Seq(Objects)]
  /\ waitFor \in [Writers -> SUBSET Readers]

\* "Writers safely update or free memory after grace periods" (rcu.h, 27): an
\* object a reader uses in its section is never freed under it.
ReaderSafe == \A r \in Readers : refs[r] \subseteq live

\* "Waits for an RCU grace period to complete" (rcu.h, 35): when
\* rcu_synchronize returns, every section that was open when it began has
\* ended, though it reads the counters one at a time.
GracePeriod == [][\A w \in Writers : SyncReturn(w) => waitFor[w] = {}]_vars

\* "Schedules a callback to be called after all readers finish" (rcu.h, 34):
\* rcu_cleanup calls back for no object that a reader still uses, even when
\* another writer has scheduled its callback.
CallbackAfterReaders ==
  [][\A w \in Writers : Invoke(w) => \A r \in Readers : Head(todo[w]) \notin refs[r]]_vars

\* No double free, and no free of the published object: whoever frees an
\* object, it is allocated and readers cannot find it any more.
FreedOnce ==
  [][ /\ \A w \in Writers :
           /\ FreeDirect(w) => old[w] \in live \ {ptr}
           /\ Invoke(w) => Head(todo[w]) \in live \ {ptr}
      /\ MainCleanup \/ Destroy => Elems(cbs) \subseteq live \ {ptr} ]_vars

\* "Schedules a callback" (rcu.h, 34), always: a retired object stays known to
\* somebody who will free it, so nothing leaks.
NothingLost ==
  live \subseteq Elems(cbs) \cup {ptr} \cup
    UNION {{new[w], old[w], buf[w]} \cup Elems(todo[w]) : w \in Writers}

\* Once readers stop coming, rcu_synchronize returns.  Without the premise it
\* may not: one reader that comes and goes can restart the scan for ever.
SyncEnds ==
  <>[](InSection = {}) => \A w \in Writers : pc[w] = "sync" ~> pc[w] # "sync"
===============================================================================
