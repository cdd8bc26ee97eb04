\* Two user tasks in one space, each on a processor of its own.
SPECIFICATION Spec
CONSTANTS
  a1 = a1
  a2 = a2
  u1 = u1
  u2 = u2
  b0 = b0
  b1 = b1
  k = k
  ncpu = 2
  Spaces = {a1, a2}
  UserTasks = {u1, u2}
  KernelTasks = {b0, b1, k}
  SpaceOf <- MCOneSpace
  BootTask <- MCBootTask
  Runs <- MCRuns
  VA = {1}
  PA = {f}
  Async = {"timer"}
  Depth <- MCDepthOne
  NONE = NONE
INVARIANTS
  LeavesNothing
