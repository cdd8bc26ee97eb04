\* Every program of six instructions.
CONSTANTS
  LEN = 6
SPECIFICATION Spec
\* The guest ends, aborts or has executed LEN instructions.
CHECK_DEADLOCK FALSE
INVARIANT InStep
INVARIANT NoPanicWhenRight
INVARIANT NoFalseAlarm
INVARIANT SkipConsumed
