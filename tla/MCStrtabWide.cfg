\* The packer given a string with a character str.encode writes as two
\* bytes: build() records offsets in characters over a table of bytes.
CONSTANTS
  MaxLen = 2
  MaxCount = 2
  Alphabet <- MCWide
  Inputs <- MCInputs
SPECIFICATION Spec
INVARIANT StringsFound
CHECK_DEADLOCK FALSE
