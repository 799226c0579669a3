CONSTANTS
  Groups = {g1, g2}
  Ids = {a, b}
  Types = {live, news}
  Workers = {w1, w2}
  MaxGroupConcern = 1
  NoId = NoId
SPECIFICATION Spec
SYMMETRY WorkerSymmetry
INVARIANTS TypeOK QueueFollowsTable
PROPERTIES OnlyAStaleRemovalForgets
CHECK_DEADLOCK FALSE
