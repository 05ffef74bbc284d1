--------------------------------- MODULE SList ---------------------------------
(***************************************************************************)
(* The list with allocated entries of list/singly_linked_list.c.  An       *)
(* action is one call on the list, or the client bending the last link     *)
(* back into the list: the loop questions exist for lists of that kind,    *)
(* and the client asks nothing else of the list until it straightens it.   *)
(***************************************************************************)
EXTENDS Integers, Sequences, SequencesExt, FiniteSets, FiniteSetsExt

CONSTANTS Nodes,  \* integers, the memory for entries
          Data,   \* positive integers
          Null

VARIABLES head,
          mem,   \* the slist_t at every node, Null where none is allocated
          bent,  \* Null, or the entry whose next leads back into the list
          call   \* history: the last call, the data it named, the new data, its result

vars == <<head, mem, bent, call>>

Init ==
  /\ head = Null /\ bent = Null
  /\ mem = [n \in Nodes |-> Null]
  /\ call = <<"create", 0, 0, 0>>

Unused == {n \in Nodes : mem[n] = Null}
Fresh == Min(Unused)  \* what malloc returns, whichever free node that is
Entry(v, nx) == [data |-> v, next |-> nx]

\* The searches of the code, with the one or two entries it remembers.
RECURSIVE Find(_, _, _, _)
Find(pprev, prev, it, x) ==
  IF it = Null \/ mem[it].data = x THEN [pprev |-> pprev, prev |-> prev, it |-> it]
  ELSE Find(prev, it, mem[it].next, x)
Found(x) == Find(Null, Null, head, x)

RECURSIVE Last2(_, _)
Last2(prev, it) ==
  IF mem[it].next = Null THEN [prev |-> prev, it |-> it] ELSE Last2(it, mem[it].next)

\* The return code of a call that named x and did not find it.
Missing == IF head = Null THEN -1 ELSE -2

Return(op, x, v, rv) == call' = <<op, x, v, rv>> /\ UNCHANGED bent
Refuse(op, x, v, rv) == Return(op, x, v, rv) /\ UNCHANGED <<head, mem>>

-------------------------------------------------------------------------------
InsertFirst(v) ==
  \/ /\ Unused # {}
     /\ mem' = [mem EXCEPT ![Fresh] = Entry(v, head)] /\ head' = Fresh
     /\ Return("insert first", 0, v, 0)
  \/ Refuse("insert first", 0, v, -1)

InsertAfter(x, v) ==
  LET it == Found(x).it
  IN \/ /\ it # Null /\ Unused # {}
        /\ mem' = [mem EXCEPT ![Fresh] = Entry(v, mem[it].next), ![it].next = Fresh]
        /\ Return("insert after", x, v, 0) /\ UNCHANGED head
     \/ Refuse("insert after", x, v, IF it = Null THEN Missing ELSE -3)

InsertBefore(x, v) ==
  LET f == Found(x)
  IN \/ /\ f.it # Null /\ Unused # {}
        /\ IF f.prev = Null
           THEN mem' = [mem EXCEPT ![Fresh] = Entry(v, f.it)] /\ head' = Fresh
           ELSE /\ mem' = [mem EXCEPT ![Fresh] = Entry(v, f.it), ![f.prev].next = Fresh]
                /\ UNCHANGED head
        /\ Return("insert before", x, v, 0)
     \/ Refuse("insert before", x, v, IF f.it = Null THEN Missing ELSE -3)

InsertLast(v) ==
  \/ /\ Unused # {}
     /\ IF head = Null
        THEN mem' = [mem EXCEPT ![Fresh] = Entry(v, Null)] /\ head' = Fresh
        ELSE /\ mem' = [mem EXCEPT ![Fresh] = Entry(v, Null), ![Last2(Null, head).it].next = Fresh]
             /\ UNCHANGED head
     /\ Return("insert last", 0, v, 0)
  \/ Refuse("insert last", 0, v, -1)

DeleteFirst ==
  IF head = Null THEN Refuse("delete first", 0, 0, -1)
  ELSE /\ head' = mem[head].next /\ mem' = [mem EXCEPT ![head] = Null]
       /\ Return("delete first", 0, 0, 0)

DeleteAfter(x) ==
  LET it == Found(x).it
  IN IF it = Null \/ mem[it].next = Null
     THEN Refuse("delete after", x, 0, Missing)
     ELSE LET node == mem[it].next
          IN /\ mem' = [mem EXCEPT ![it].next = mem[node].next, ![node] = Null]
             /\ Return("delete after", x, 0, 0) /\ UNCHANGED head

DeleteBefore(x) ==
  LET f == Found(x)
  IN IF Null \in {f.it, f.prev} THEN Refuse("delete before", x, 0, Missing)
     ELSE /\ IF f.pprev = Null
             THEN head' = f.it /\ mem' = [mem EXCEPT ![f.prev] = Null]
             ELSE /\ mem' = [mem EXCEPT ![f.pprev].next = f.it, ![f.prev] = Null]
                  /\ UNCHANGED head
          /\ Return("delete before", x, 0, 0)

DeleteLast ==
  IF head = Null THEN Refuse("delete last", 0, 0, -1)
  ELSE LET l == Last2(Null, head)
       IN /\ IF l.prev = Null THEN head' = Null /\ mem' = [mem EXCEPT ![l.it] = Null]
             ELSE mem' = [mem EXCEPT ![l.prev].next = Null, ![l.it] = Null] /\ UNCHANGED head
          /\ Return("delete last", 0, 0, 0)

\* Mutant: prev moves on after a removal, too.
RECURSIVE DeduplicatedOnce(_, _, _)
DeduplicatedOnce(m, prev, it) ==
  IF it = Null THEN m
  ELSE IF m[it].data # m[prev].data THEN DeduplicatedOnce(m, it, m[it].next)
  ELSE LET nx == m[it].next
           rest == [m EXCEPT ![prev].next = nx, ![it] = Null]
       IN IF nx = Null THEN rest ELSE DeduplicatedOnce(rest, nx, m[nx].next)

\* The memory after the loop of slist_ordered_delete_duplicates.
RECURSIVE Deduplicated(_, _, _)
Deduplicated(m, prev, it) ==
  IF it = Null THEN m
  ELSE IF m[it].data # m[prev].data THEN Deduplicated(m, it, m[it].next)
  ELSE Deduplicated([m EXCEPT ![prev].next = m[it].next, ![it] = Null], prev, m[it].next)

\* The entries from x to the last one, which is bent if a link is.
RECURSIVE EntriesFrom(_)
EntriesFrom(x) ==
  IF x = Null THEN <<>>
  ELSE <<x>> \o (IF x = bent THEN <<>> ELSE EntriesFrom(mem[x].next))
DataOf(es) == [i \in DOMAIN es |-> mem[es[i]].data]
Items == DataOf(EntriesFrom(head))

\* The list has to be sorted.
OrderedDeleteDuplicates ==
  /\ IsSorted(Items, LAMBDA a, b : a <= b)
  /\ mem' = IF head = Null THEN mem ELSE Deduplicated(mem, head, mem[head].next)
  /\ Return("delete duplicates", 0, 0, 0) /\ UNCHANGED head

Destroy ==
  /\ head' = Null
  /\ mem' = [n \in Nodes |-> IF n \in ToSet(EntriesFrom(head)) THEN Null ELSE mem[n]]
  /\ Return("destroy", 0, 0, 0)

Calls ==
  \/ \E v \in Data : InsertFirst(v) \/ InsertLast(v)
  \/ \E x, v \in Data : InsertAfter(x, v) \/ InsertBefore(x, v)
  \/ \E x \in Data : DeleteAfter(x) \/ DeleteBefore(x)
  \/ DeleteFirst \/ DeleteLast \/ OrderedDeleteDuplicates \/ Destroy

Bend(n) ==
  /\ n \in ToSet(EntriesFrom(head)) /\ bent = Null
  /\ bent' = Last(EntriesFrom(head))
  /\ mem' = [mem EXCEPT ![bent'].next = n]
  /\ UNCHANGED <<head, call>>

Straighten ==
  /\ bent # Null
  /\ mem' = [mem EXCEPT ![bent].next = Null] /\ bent' = Null
  /\ UNCHANGED <<head, call>>

Next == (bent = Null /\ Calls) \/ (\E n \in Nodes : Bend(n)) \/ Straighten

Spec == Init /\ [][Next]_vars

-------------------------------------------------------------------------------
\* The questions.  Where the two pointers of Floyd's algorithm meet, if they do:
RECURSIVE Meet(_, _)
Meet(slow, fast) ==
  IF fast = Null \/ mem[fast].next = Null THEN Null
  ELSE LET s == mem[slow].next
           f == mem[mem[fast].next].next
       IN IF s = f THEN s ELSE Meet(s, f)

HasLoop == head # Null /\ Meet(head, head) # Null

RECURSIVE Together(_, _)
Together(slow, fast) ==
  IF slow = fast THEN slow ELSE Together(mem[slow].next, mem[fast].next)

\* Mutant: the place they meet is taken for the place where the loop starts.
MeetingPoint == IF head = Null THEN Null ELSE Meet(head, head)

LoopStart == IF ~HasLoop THEN Null ELSE Together(head, Meet(head, head))

RECURSIVE Nth(_, _)
Nth(x, n) == IF x = Null \/ n = 0 THEN x ELSE Nth(mem[x].next, n - 1)

RECURSIVE Middle(_, _)
Middle(slow, fast) ==
  IF fast = Null \/ mem[fast].next = Null THEN slow
  ELSE Middle(mem[slow].next, mem[mem[fast].next].next)

\* slist_is_palindrome: its answer, and where it leaves left.
RECURSIVE IsPalindrome(_, _)
IsPalindrome(left, right) ==
  IF right = Null THEN [res |-> TRUE, left |-> left]
  ELSE LET inner == IsPalindrome(left, mem[right].next)
       IN IF ~inner.res THEN inner
          ELSE [res |-> mem[inner.left].data = mem[right].data, left |-> mem[inner.left].next]

-------------------------------------------------------------------------------
\* The entries that are allocated are the ones the list leads to, each once.
NoneLost == ToSet(EntriesFrom(head)) = Nodes \ Unused /\ IsInjective(EntriesFrom(head))

\* Floyd's pointers find a loop exactly when the list has one, and the entry it
\* starts at, wherever the last entry leads; on a list that ends, the other
\* questions are answered as on the sequence of its data.
Answers ==
  /\ HasLoop <=> bent # Null
  /\ LoopStart = IF bent = Null THEN Null ELSE mem[bent].next
  /\ bent = Null =>
       LET es == EntriesFrom(head)
           n == Len(es)
       IN /\ IsPalindrome(head, head).res <=> Items = Reverse(Items)
          /\ head # Null => Middle(head, head) = es[n \div 2 + 1]
          /\ \A i \in 0..(n + 1) : Nth(head, i) = IF i < n THEN es[i + 1] ELSE Null

\* The list implements a sequence of data.
Abstract == INSTANCE AbstractSequence WITH items <- Items
ImplementsSequence == Abstract!ASpec
===============================================================================
