\* Layout of an input whose section headers list .data (loaded from flash
\* after .rodata) before .rodata: the flash cursor moves backwards.
CONSTANTS
  FlashStart = 16384
  RamStart = 32768
  FileAlign = 4096
  Width = 16
  Inputs <- MCInputsDataFirst
  DynSizes <- MCDynSizes
SPECIFICATION Spec
INVARIANT LoadImagesDisjoint
CHECK_DEADLOCK FALSE
