\* An unwind-table entry (PREL31) for a function placed in RAM.
CONSTANTS
  Inputs <- MCInputsExidx
SPECIFICATION Spec
INVARIANT BankAssertRedundant
\* The tool stops after building .dynamic, or at an exception.
CHECK_DEADLOCK FALSE
