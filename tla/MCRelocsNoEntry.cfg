\* A clean module converted without any --entry option.
CONSTANTS
  Inputs <- MCInputsNoEntry
SPECIFICATION FairSpec
PROPERTY DynamicCompletes
\* The tool stops after building .dynamic, or at an exception.
CHECK_DEADLOCK FALSE
