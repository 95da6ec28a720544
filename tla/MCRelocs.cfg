\* mkextmod's relocation conversion and dynamic section contents over every
\* selection of the relocation pool, both CPUs' veneer offsets, and an
\* exported or hidden __dl_init.
CONSTANTS
  Inputs <- MCInputs
SPECIFICATION Spec
INVARIANTS
  TypeOK
  RelaReconstructs
  RelaComplete
  ExportsOnce
  VeneerMigration
  BankAssertRedundant
\* The tool stops after building .dynamic, or at an exception.
CHECK_DEADLOCK FALSE
