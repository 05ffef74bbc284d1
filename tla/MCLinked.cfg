SPECIFICATION MCSpec
CONSTANTS
  Heads = {h1, h2}
  Nodes = {n1, n2, n3}
  Keys = {1, 2, 3, 4, 5, 6, 7}
  TreeNodes = {1, 2, 3, 4, 5, 6, 7}
  Values = {u, v}
  QueueSize = 6
  Depth = 4
  Entries = {1, 2, 3, 4}
  Data = {1, 2}
  N = 4
  MaxEdges = 3
  Null = Null
INVARIANTS
  ListsRepresent WellFormed AbortsOnlyBeyondQueue TreesAnswer
  SListAnswers GraphAnswers DistancesLeast
PROPERTIES LoopSeesAll ImplementsSet ImplementsLevelOrder SListImplementsSequence
CHECK_DEADLOCK FALSE
