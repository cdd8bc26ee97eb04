\* Two processors, two spaces with a user task each, one of which either
\* processor may run, and the boot tasks; two virtual pages, which share a table
\* in each space; three free pages, where two spaces take four.
SPECIFICATION VmSpec
CONSTANTS
  c1 = c1
  c2 = c2
  a1 = a1
  a2 = a2
  u1 = u1
  u2 = u2
  b1 = b1
  b2 = b2
  Processors = {c1, c2}
  Spaces = {a1, a2}
  UserTasks = {u1, u2}
  KernelTasks = {b1, b2}
  SpaceOf <- MCSpaceOf
  BootTask <- MCBootTask
  Runs <- MCRuns
  Pages = {1, 2, 3}
  kpt = 8
  kpd = 9
  LEVELS = 2
  VA <- MCVA
  PA = {f}
  NONE = NONE
INVARIANTS
  PagesOwned
  TranslatesAsAsked
  UserRunsOwn
  NoStaleTranslation
\* A panic ends the machine.
CHECK_DEADLOCK FALSE
