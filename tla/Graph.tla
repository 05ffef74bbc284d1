--------------------------------- MODULE Graph ---------------------------------
(***************************************************************************)
(* The graph of graph/graph.c: an adjacency matrix in which 0 is no edge.  *)
(* An action adds or replaces one edge; the algorithms are operators over  *)
(* the matrix, with the loops in the order of the code.  Every algorithm   *)
(* resets the array visited that the graph keeps for it.  Node numbers     *)
(* beyond the graph are refused before anything is read, but for           *)
(* graph_node_level, which does not find them.                             *)
(***************************************************************************)
EXTENDS Integers, Sequences, SequencesExt, FiniteSets, FiniteSetsExt

CONSTANTS N,         \* how many nodes, their numbers begin at 0
          MaxEdges   \* bound: edges of a graph, unless all weigh 1 and it is undirected

VARIABLES directed,  \* which of the two kinds of insertion the client uses
          mat

vars == <<directed, mat>>

Vertices == 0..(N - 1)
Weights == IF directed THEN {-1, 0, 2} ELSE {0, 1, 2}
Edge(u, v) == mat[u, v] # 0

Init ==
  /\ directed \in BOOLEAN
  /\ mat = [e \in Vertices \X Vertices |-> 0]

Bounded(m) ==
  LET edges == {e \in DOMAIN m : m[e] # 0 /\ (directed \/ e[1] <= e[2])}
  IN Cardinality(edges) <= MaxEdges \/ (~directed /\ \A e \in edges : m[e] = 1)

AddDirected(s, d, w) == directed /\ mat' = [mat EXCEPT ![s, d] = w]
AddUndirected(s, d, w) == ~directed /\ mat' = [mat EXCEPT ![s, d] = w, ![d, s] = w]

Next ==
  /\ \E s, d \in Vertices, w \in Weights : AddDirected(s, d, w) \/ AddUndirected(s, d, w)
  /\ Bounded(mat')
  /\ UNCHANGED directed

Spec == Init /\ [][Next]_vars

-------------------------------------------------------------------------------
InOrder == [i \in 1..N |-> i - 1]

\* Mutant: a node is marked as visited when it leaves the queue, not when it
\* enters.
RECURSIVE BfsMarkingLate(_, _)
BfsMarkingLate(q, h) ==
  IF h > Len(q) THEN q
  ELSE IF Len(q) > N THEN <<>>
  ELSE BfsMarkingLate(
         q \o SelectSeq(InOrder, LAMBDA i : Edge(q[h], i) /\ i \notin ToSet(SubSeq(q, 1, h))), h + 1)

\* graph_bfs: all that was ever in the queue, and the place of its head.  The
\* queue has room for N nodes and never uses a place again; beyond, the call fails.
RECURSIVE Bfs(_, _)
Bfs(q, h) ==
  IF h > Len(q) THEN q
  ELSE IF Len(q) > N THEN <<>>
  ELSE Bfs(q \o SelectSeq(InOrder, LAMBDA i : Edge(q[h], i) /\ i \notin ToSet(q)), h + 1)

\* graph_node_level: the queue at the start of a turn of the outer loop.
RECURSIVE Level(_, _, _, _)
Level(s, q, visited, level) ==
  IF q = {} THEN -1
  ELSE IF s \in q THEN level
  ELSE LET found == {i \in Vertices \ visited : \E c \in q : Edge(c, i)}
       IN Level(s, found, visited \cup found, level + 1)
NodeLevel(s) == Level(s, {0}, {0}, 0)

\* graph_dfs: the nodes in the order they are printed.
RECURSIVE Dfs(_, _)
Dfs(visited, s) ==
  FoldLeft(LAMBDA seen, i : IF Edge(s, i) /\ i \notin ToSet(seen) THEN Dfs(seen, i) ELSE seen,
           Append(visited, s), InOrder)

\* __graph_detect_cycle from s, which was reached from p: the answer and visited.
RECURSIVE CycleFrom(_, _, _)
CycleFrom(visited, s, p) ==
  FoldLeft(LAMBDA r, i :
             IF r.found \/ ~Edge(s, i) THEN r
             ELSE IF i \notin r.visited THEN CycleFrom(r.visited, i, s)
             ELSE [r EXCEPT !.found = (i # p)],
           [found |-> FALSE, visited |-> visited \cup {s}], InOrder)
DetectCycle ==
  FoldLeft(LAMBDA r, i : IF r.found \/ i \in r.visited THEN r ELSE CycleFrom(r.visited, i, -1),
           [found |-> FALSE, visited |-> {}], InOrder).found

\* __graph_max_length from s: the longest so far and visited.
RECURSIVE LengthFrom(_, _, _)
LengthFrom(r, s, len) ==
  FoldLeft(LAMBDA x, i :
             IF Edge(s, i) /\ i \notin x.visited THEN LengthFrom(x, i, len + mat[s, i]) ELSE x,
           [max |-> Max({r.max, len}), visited |-> r.visited \cup {s}], InOrder)
MaxLength == Max({LengthFrom([max |-> -1, visited |-> {}], i, 0).max : i \in Vertices})

\* __graph_nlength_cycles: the paths of len edges from curr that an edge leads
\* back to src from.
RECURSIVE PathsBack(_, _, _, _)
PathsBack(visited, src, curr, len) ==
  IF len = 0 THEN IF Edge(curr, src) THEN 1 ELSE 0
  ELSE FoldLeft(LAMBDA sum, i :
         IF i \notin visited \cup {curr} /\ Edge(curr, i)
         THEN sum + PathsBack(visited \cup {curr}, src, i, len - 1) ELSE sum, 0, InOrder)
NLengthCycles(n) ==
  FoldLeft(LAMBDA sum, i : sum + PathsBack(0..(i - 1), i, i, n - 1),
           0, SubSeq(InOrder, 1, N - (n - 1))) \div 2

-------------------------------------------------------------------------------
INT_MAX == 2147483647

Improves(dist, u, v) == dist[u] # INT_MAX /\ dist[v] > dist[u] + mat[u, v]

EdgesInOrder ==
  LET all == [i \in 1..(N * N) |-> <<(i - 1) \div N, (i - 1) % N>>]
  IN SelectSeq(all, LAMBDA e : mat[e] # 0)

\* One turn of the relaxation: every edge once, each with what those before left.
Relaxed(dist) ==
  FoldLeft(LAMBDA d, e : IF Improves(d, e[1], e[2]) THEN [d EXCEPT ![e[2]] = d[e[1]] + mat[e]] ELSE d,
           dist, EdgesInOrder)

RECURSIVE Relaxations(_, _)
Relaxations(dist, turns) ==
  IF turns = 0 \/ Relaxed(dist) = dist THEN dist ELSE Relaxations(Relaxed(dist), turns - 1)

\* Mutant: one turn of the relaxation too few.
ShortDistances(s) == Relaxations([v \in Vertices |-> IF v = s THEN 0 ELSE INT_MAX], N - 2)

\* graph_bellman_ford: the distances it prints and the flag it sets.
Distances(s) == Relaxations([v \in Vertices |-> IF v = s THEN 0 ELSE INT_MAX], N - 1)
HasNegCycle(s) ==
  LET dist == Distances(s)
  IN \E u, v \in Vertices : Edge(u, v) /\ Improves(dist, u, v)

-------------------------------------------------------------------------------
\* The reference: paths that meet no node twice, their weights, and cycles.
Arrangements == UNION {{p \in [1..n -> Vertices] : IsInjective(p)} : n \in 1..N}
Weight(p) == FoldFunction(+, 0, [i \in 1..(Len(p) - 1) |-> mat[p[i], p[i + 1]]])
SimplePaths == {p \in Arrangements : \A i \in 1..(Len(p) - 1) : Edge(p[i], p[i + 1])}
Closed(p) == Edge(Last(p), p[1])

\* Each traversal visits every node that can be reached once; breadth-first the
\* nearer ones first, depth-first never leaving a node that still leads on.  Levels
\* are least distances from node 0.  In undirected graphs cycles are found when
\* there are any and counted once each, and in a tree the length is the weight of
\* the heaviest path.
Answers ==
  LET paths == SimplePaths
      Between(s, v) == {p \in paths : p[1] = s /\ Last(p) = v}
      Reach(s) == {v \in Vertices : Between(s, v) # {}}
      Steps(s, v) == Min({Len(p) : p \in Between(s, v)}) - 1
      cycles(n) == {p \in paths : Len(p) = n /\ Closed(p)}
      connected == Reach(0) = Vertices
  IN /\ \A s \in Vertices :
          LET b == Bfs(<<s>>, 1)
              d == Dfs(<<>>, s)
          IN /\ IsInjective(b) /\ ToSet(b) = Reach(s)
             /\ \A i, j \in DOMAIN b : i < j => Steps(s, b[i]) <= Steps(s, b[j])
             /\ IsInjective(d) /\ ToSet(d) = Reach(s)
             /\ \A i \in 1..(Len(d) - 1) :
                  \E j \in 1..i : /\ Edge(d[j], d[i + 1])
                                  /\ \A k \in (j + 1)..i, v \in Vertices :
                                       Edge(d[k], v) => v \in ToSet(SubSeq(d, 1, i))
             /\ NodeLevel(s) = IF s \in Reach(0) THEN Steps(0, s) ELSE -1
     /\ NodeLevel(N) = -1
     /\ ~directed =>
          /\ DetectCycle <=> \E n \in (1..N) \ {2} : cycles(n) # {}
          /\ \A n \in 3..N : NLengthCycles(n) = Cardinality(cycles(n)) \div (2 * n)
          /\ connected /\ ~DetectCycle => MaxLength = Max({Weight(p) : p \in paths})

\* From every source, the flag is set exactly when a cycle of negative weight can
\* be reached, and otherwise the distances are the least weights of paths, in
\* whatever order the edges were added and are relaxed.
DistancesLeast ==
  directed =>
    LET paths == SimplePaths
        negative == {ToSet(p) : p \in {p \in paths : Closed(p) /\ Weight(p) + mat[Last(p), p[1]] < 0}}
    IN \A s \in Vertices :
         LET Between(v) == {p \in paths : p[1] = s /\ Last(p) = v}
             reach == {v \in Vertices : Between(v) # {}}
         IN /\ HasNegCycle(s) <=> \E c \in negative : c \cap reach # {}
            /\ HasNegCycle(s) \/ Distances(s) =
                 [v \in Vertices |-> IF v \in reach THEN Min({Weight(p) : p \in Between(v)}) ELSE INT_MAX]
===============================================================================
