SPECIFICATION MCSpec
CONSTANTS
  Values = {1, 2, 3}
  MaxCapacity = 7
  Items = {a, b}
  Room = 4
  Entries = {e1, e2, e3}
  Keys = {k1, k2}
  Null = Null
INVARIANTS HeapOrder MemoryOwned TrieListsMatch
PROPERTIES
  ImplementsPriorityQueue LinearContainersImplement
   RadixImplementsMap TrieWithinBound
CHECK_DEADLOCK FALSE
