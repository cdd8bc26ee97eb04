\* Two processors and two user tasks, each in a space of its own; one of them
\* runs on either processor; a kernel task made on the second.
SPECIFICATION Spec
CONSTANTS
  a1 = a1
  a2 = a2
  u1 = u1
  u2 = u2
  b0 = b0
  b1 = b1
  k = k
  ncpu = 2
  Spaces = {a1, a2}
  UserTasks = {u1, u2}
  KernelTasks = {b0, b1, k}
  SpaceOf <- MCSpaceOf
  BootTask <- MCBootTask
  Runs <- MCRuns
  VA = {1}
  PA = {f}
  Async = {"timer"}
  Depth <- MCDepth
  NONE = NONE
INVARIANTS
  MmapsAreTheSpaces
  TrapOnOwnStack
  EventIsOwn
  EntryAfterIoe
