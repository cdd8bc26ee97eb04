\* Expressions of 7 tokens: arithmetic with dereferences and parentheses;
\* quotients, comparisons, conjunctions and spaces; an unknown register.
\* All double words of 8 bits, all strings of 2 and formats of 5 characters,
\* replies of 3 pieces after up to two refusals and two damaged copies.
\* char is unsigned, as on riscv: StringOrder has the other case.
SPECIFICATION FSpec
CONSTANTS
  Alphabets <- MCAlphabets
  MaxLength = 7
  MAX_TOKENS = 7
  WORD = 8
  Mem <- MCMem
  Operand <- MCOperand
  LOG = 2
  CharSigned = FALSE
  LAST = 8
  Memories <- MCMemories
  Calls <- MCCalls
  Formats = {"x", "%", "d", "s", "0"}
  FormatLength = 5
  Chars = {1, 2, 200}
  StringLength = 2
  mtu = 3
  REG_BYTES = 2
  Data = {0, 9, 10, 255}
  MaxBytes = 5
  MaxTokens = 3
  MaxTries = 2
INVARIANTS
  EvalAgrees
  DivAgrees
  StringsAgree
  TextsAgree
\* The inputs end at their greatest length.
CHECK_DEADLOCK FALSE
