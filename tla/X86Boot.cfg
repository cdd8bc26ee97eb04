\* A boot processor and two others: one may be started while another runs
\* the program, and two may halt at once.
SPECIFICATION FairSpec
CONSTANT N = 3
INVARIANTS
  BootStackExclusive
  SetUpInOrder
  WorldStopped
PROPERTIES
  AllEnter
  HaltEnds
\* The machine goes off, or two processors stop each other.
CHECK_DEADLOCK FALSE
