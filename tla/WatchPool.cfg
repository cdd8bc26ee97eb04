\* Three nodes and six numbers: the pool is filled, emptied in every order
\* and refilled from a free list in every order.
SPECIFICATION FairSpec
CONSTANTS
  NR_WP = 3
  MaxSeq = 6
  NULL = NULL
  HEAD = HEAD
  FREE = FREE
  e1 = e1
  e2 = e2
  Exprs <- MCExprs
INVARIANTS
  TextOwned
  UnlinksWhatItFrees
PROPERTIES
  WatchListSpec
  FreeReturns
\* The process ends (q, a failed assertion).
CHECK_DEADLOCK FALSE
