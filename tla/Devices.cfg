\* The keyboard: a ring of three slots, two keys and a scancode that wraps, so
\* that the ring goes round, is empty, and overflows.
\* IO maps and clock: both sizes of the screen; seconds of two ticks, and a
\* word of 16 that the sum goes through; a start that straddles a second.
SPECIFICATION DSpec
CONSTANTS
  KEY_QUEUE_LEN = 3
  KEYDOWN_MASK = 4
  SCAN_MOD = 4
  ScanCodes = {1, 3, 6}
  keymap <- MCkeymap
  MaxEvents = 2
  SCREENS = {480000, 1920000}
  TICKS = 2
  WORD = 16
  Start = {7}
  MaxTime = 17
  NONE = NONE
INVARIANTS
  PromptKeysDropped
  AccessInside
  UptimeNear
PROPERTY KeyFifoSpec
\* The assertion of a full queue ends the process, the clock stops at MaxTime.
CHECK_DEADLOCK FALSE
