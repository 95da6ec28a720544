\* IndexNodes, WriteData and WriteHeaders over mkextmod's section list, read
\* back by Dereference.
CONSTANTS
  None = None
  Graphs <- MCGraphs
SPECIFICATION Spec
INVARIANTS
  RoundTrip
  SymtabSorted
  NamesRoundTrip
\* The writer stops after the last section header.
CHECK_DEADLOCK FALSE
