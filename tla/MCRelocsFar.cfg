\* A backward call 6 MiB away to an absolute firmware function.
CONSTANTS
  Inputs <- MCInputsFar
SPECIFICATION Spec
INVARIANT RelaReconstructs
\* The tool stops after building .dynamic, or at an exception.
CHECK_DEADLOCK FALSE
