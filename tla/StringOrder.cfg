\* Strings of one character or none, char signed as on x86: the character 200
\* is -56 there.  The other algorithms of the module take few inputs.
SPECIFICATION FSpec
CONSTANTS
  Alphabets <- MCAlphabets
  MaxLength = 1
  MAX_TOKENS = 7
  WORD = 8
  Mem <- MCMem
  Operand <- MCOperand
  LOG = 1
  CharSigned = TRUE
  LAST = 5
  Memories <- MCMemories
  Calls <- MCCalls
  Formats = {"d"}
  FormatLength = 1
  Chars = {1, 200}
  StringLength = 1
  mtu = 3
  REG_BYTES = 2
  Data = {0}
  MaxBytes = 1
  MaxTokens = 1
  MaxTries = 1
INVARIANT LongerIsGreater
\* The inputs end at their greatest length.
CHECK_DEADLOCK FALSE
