\* Two live watchpoints on two expressions that one instruction may both
\* change; si 0, si 1 and c; one waiting event; batch mode and not.
SPECIFICATION FairSpec
CONSTANTS
  NR_WP = 2
  e1 = e1
  e2 = e2
  Exprs <- MCExprs
  Vals = {0, 1}
  UNDEF = UNDEF
  DEBUG = TRUE
  DIFF_TEST = TRUE
  Forever = Forever
  MaxSeq = 2
  MaxStep = 1
  MaxEvents = 1
INVARIANTS
  ChangeStops
  StopHasReason
  EndStays
  StatusTellsOutcome
PROPERTY CloseStops
\* The process ends.
CHECK_DEADLOCK FALSE
