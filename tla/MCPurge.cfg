\* PurgeDeleted on the strip and unwind-table graphs, from every deletion
\* mkextmod or a caller of elfmodel can make before it.
CONSTANTS
  NoNode = NoNode
  Graphs <- MCGraphs
SPECIFICATION Spec
INVARIANTS
  TypeOK
  PurgeComplete
PROPERTIES
  Termination
  PurgeRefines
\* The purge returns; mkextmod then goes on.
CHECK_DEADLOCK FALSE
