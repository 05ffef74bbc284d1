---------------------------- MODULE AbstractBuddy ----------------------------
(***************************************************************************)
(* What the buddy allocator promises: blocks of Pages[order] pages,        *)
(* aligned to their size, disjoint, and no larger than the request needs;  *)
(* a request for some memory but not more than there is fails only when no *)
(* aligned room is left for it; only what was handed out can be freed.     *)
(***************************************************************************)
EXTENDS Integers

CONSTANTS Orders, PageSize, Sizes, FreeArgs, Null,
          Pages  \* how many pages a block of each order has

VARIABLES held,  \* the blocks handed out: records [addr, order]
          res,   \* what the last call returned
          asked  \* the bytes the last call asked for, Null if it was a free

avars == <<held, res, asked>>

PagesOf(b) == b.addr .. (b.addr + Pages[b.order] - 1)

\* The orders whose blocks hold that many bytes with less than half to spare.
Fit(bytes) ==
  {o \in 0..Orders : /\ 0 < bytes /\ bytes <= Pages[o] * PageSize
                     /\ o > 0 => Pages[o - 1] * PageSize < bytes}

\* The blocks of an order that overlap nothing that is handed out.
Room(o) ==
  {b \in [addr : {a \in 0..(Pages[Orders] - 1) : a % Pages[o] = 0}, order : {o}] :
     \A h \in held : PagesOf(b) \cap PagesOf(h) = {}}

AInit == held = {} /\ res = Null /\ asked = Null

AAlloc(bytes) ==
  /\ asked' = bytes
  /\ \/ \E o \in Fit(bytes) : \E b \in Room(o) : held' = held \cup {b} /\ res' = b.addr
     \/ /\ \A o \in Fit(bytes) : Room(o) = {}
        /\ held' = held /\ res' = Null

AFree(addr) ==
  /\ asked' = Null
  /\ IF \E h \in held : h.addr * PageSize = addr
     THEN held' = {h \in held : h.addr * PageSize # addr} /\ res' = 0
     ELSE held' = held /\ res' = -1

ANext == (\E bytes \in Sizes : AAlloc(bytes)) \/ (\E addr \in FreeArgs : AFree(addr))

ASpec == AInit /\ [][ANext]_avars
===============================================================================
