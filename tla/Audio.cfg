\* A ring of three bytes, callbacks for two, seven bytes played: the ring
\* goes round twice and is full and empty in between.
SPECIFICATION FairSpec
CONSTANTS
  SBUF = 3
  LEN = 2
  MaxBytes = 7
INVARIANTS
  CountInRange
  InOrder
PROPERTY WriteReturns
\* Opening the device twice ends the process.
CHECK_DEADLOCK FALSE
