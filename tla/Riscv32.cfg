\* Three registers of four bits; the immediates are 1, the most positive, the
\* most negative and -1, the jumps forward and backward.
CONSTANTS
  W = 4
  GPR = {0, 1, 2}
  A0 = 1
  IMMS = {1, 7, 8, 15}
  TARGETS = {6, 12}
SPECIFICATION Spec
\* A guest that has ended, or an emulator that has died, stops for good.
CHECK_DEADLOCK FALSE
INVARIANT DecodeOK
PROPERTY StepPerISA
PROPERTY LegalCompletes
