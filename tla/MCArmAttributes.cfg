\* Well-formed sections, and the same section truncated at every byte.
CONSTANTS
  None = None
  Files <- MCFiles
INIT Init
NEXT Next
INVARIANT MismatchLeavesEmpty
\* the parse stops after its last statement
CHECK_DEADLOCK FALSE
