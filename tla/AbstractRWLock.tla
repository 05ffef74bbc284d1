---------------------------- MODULE AbstractRWLock ----------------------------
(***************************************************************************)
(* What a read-write lock promises: any number of readers, or one writer.  *)
(* RWLock, the model of synchronization/rwlock.c, implements it.           *)
(***************************************************************************)
CONSTANT Threads

VARIABLES readers,  \* the threads that hold the lock for reading
          writer    \* the threads that hold it for writing, at most one

avars == <<readers, writer>>

AInit == readers = {} /\ writer = {}

BeginRead(t) ==
  /\ writer = {}
  /\ t \notin readers
  /\ readers' = readers \cup {t}
  /\ UNCHANGED writer

EndRead(t) ==
  /\ t \in readers
  /\ readers' = readers \ {t}
  /\ UNCHANGED writer

BeginWrite(t) ==
  /\ readers = {} /\ writer = {}
  /\ writer' = {t}
  /\ UNCHANGED readers

EndWrite(t) ==
  /\ writer = {t}
  /\ writer' = {}
  /\ UNCHANGED readers

ANext ==
  \E t \in Threads : BeginRead(t) \/ EndRead(t) \/ BeginWrite(t) \/ EndWrite(t)

ASpec == AInit /\ [][ANext]_avars
===============================================================================
