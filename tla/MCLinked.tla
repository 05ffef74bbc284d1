-------------------------------- MODULE MCLinked --------------------------------
(***************************************************************************)
(* The linked structures, lists, trees and graphs, checked side by side: a *)
(* behaviour exercises one of them, so their states add up instead of      *)
(* multiplying.                                                            *)
(***************************************************************************)
EXTENDS KDList, Integers, FiniteSets

CONSTANTS Keys, TreeNodes, Values, QueueSize, Depth,
          Entries, Data, N, MaxEdges

VARIABLES kind,
          snext, slists,
          tree, usable, reliable, rv,
          root, left, right, data, q, h, t, res, pc, op, arg, crt, to_delete, parent,
          nodes,
          shead, mem, bent, call,
          directed, mat

singlyVars == <<snext, slists>>
avlVars == <<tree, usable, reliable, rv>>
levelVars == <<root, left, right, data, q, h, t, res, pc, op, arg, crt, to_delete, parent>>
slistVars == <<shead, mem, bent, call>>
graphVars == <<directed, mat>>

KS == INSTANCE KSList WITH next <- snext, lists <- slists
A == INSTANCE AVLTree
B == INSTANCE BinaryTree WITH Nodes <- TreeNodes
W == INSTANCE TreeProblems
SL == INSTANCE SList WITH Nodes <- Entries, head <- shead
G == INSTANCE Graph

MCInit ==
  /\ kind \in {"doubly", "singly", "entries", "avl", "level order", "walks", "graph"}
  /\ Init /\ KS!Init /\ SL!Init /\ A!Init /\ B!Init /\ W!Init /\ G!Init
  /\ kind # "avl" => reliable
  /\ kind # "graph" => ~directed

MCNext ==
  /\ UNCHANGED kind
  /\ \/ kind = "doubly" /\ Next
        /\ UNCHANGED <<singlyVars, slistVars, avlVars, levelVars, nodes, graphVars>>
     \/ kind = "singly" /\ KS!Next
        /\ UNCHANGED <<vars, slistVars, avlVars, levelVars, nodes, graphVars>>
     \/ kind = "entries" /\ SL!Next
        /\ UNCHANGED <<vars, singlyVars, avlVars, levelVars, nodes, graphVars>>
     \/ kind = "avl" /\ A!Next
        /\ UNCHANGED <<vars, singlyVars, slistVars, levelVars, nodes, graphVars>>
     \/ kind = "level order" /\ B!Next
        /\ UNCHANGED <<vars, singlyVars, slistVars, avlVars, nodes, graphVars>>
     \/ kind = "walks" /\ W!Next
        /\ UNCHANGED <<vars, singlyVars, slistVars, avlVars, levelVars, graphVars>>
     \/ kind = "graph" /\ G!Next
        /\ UNCHANGED <<vars, singlyVars, slistVars, avlVars, levelVars, nodes>>

MCSpec ==
  MCInit /\ [][MCNext]_<<kind, vars, singlyVars, slistVars, avlVars, levelVars, nodes, graphVars>>

\* The links of each kind of list lead through the right nodes, and lose none.
ListsRepresent ==
  /\ kind = "doubly" => Represents
  /\ kind = "singly" => KS!Represents
  /\ kind = "entries" => SL!NoneLost

\* The walks over trees agree with each other, and the problems are solved.
TreesAnswer == kind = "walks" => W!WalksAgree /\ W!ProblemsSolved

\* The properties of the instances, under names a configuration can give.
WellFormed == kind = "avl" => A!WellFormed
ImplementsSet == A!ImplementsSet
AbortsOnlyBeyondQueue == kind = "level order" => B!AbortsOnlyBeyondQueue
ImplementsLevelOrder == B!ImplementsLevelOrder
SListAnswers == kind = "entries" => SL!Answers
SListImplementsSequence == SL!ImplementsSequence
GraphAnswers == kind = "graph" => G!Answers
DistancesLeast == kind = "graph" => G!DistancesLeast
===============================================================================
