\* Layout of address-ordered inputs: every layout property holds.
CONSTANTS
  FlashStart = 16384
  RamStart = 32768
  FileAlign = 4096
  Width = 16
  Inputs <- MCInputsOrdered
  DynSizes <- MCDynSizes
SPECIFICATION Spec
INVARIANTS
  TypeOK
  LoadImagesDisjoint
  SegmentImagesMatch
  FileRegionsDisjoint
  FooterLocatesPhdrs
  NoLayoutFault
  DynamicLocatesTables
\* The tool is one sequential run that stops when the layout is done.
CHECK_DEADLOCK FALSE
