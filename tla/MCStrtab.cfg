\* The string-table packer over all orders of up to 3 ASCII strings of length
\* at most 3: groups stay well formed, every string is found, sharing is
\* optimal.
CONSTANTS
  MaxLen = 3
  MaxCount = 3
  Alphabet <- MCAscii
  Inputs <- MCInputs
SPECIFICATION Spec
INVARIANTS
  TypeOK
  GroupsWellFormed
  StringsFound
  OptimalSharing
\* build() returns once the closing assert has run.
CHECK_DEADLOCK FALSE
