------------------------------ MODULE MCLayout ------------------------------
(***************************************************************************)
(* Model-checking instance of Layout.  Addresses are scaled down so that   *)
(* the footer's complement fits TLC's integers: flash starts at 0x4000 and *)
(* RAM at 0x8000 in a 16-bit address word (0x10000000, 0x20000000 and 32   *)
(* bits in the code); record sizes and the 4096-byte file alignment are    *)
(* the code's own.                                                         *)
(*                                                                         *)
(* The inputs are the shapes a linked, emit-relocs ARM image has after     *)
(* loading: a null section, code and read-only data in flash, initialised  *)
(* data in RAM loaded from flash, bss, and the non-allocated tables.       *)
(***************************************************************************)
EXTENDS Layout

\* a section as loaded from the input file
In(name, type, flags, align, size, addr) ==
  [name |-> name, type |-> type, flags |-> flags, align |-> align,
   size |-> size, fixed |-> TRUE, addr |-> addr]

\* a program header as loaded from the input file
InSeg(type, va, pa, memsz, filesz, flags, align) ==
  [type |-> type, fixed |-> TRUE, vaddr |-> va, paddr |-> pa,
   memsz |-> memsz, filesz |-> filesz, offset |-> 0, flags |-> flags,
   align |-> align, members |-> <<>>]

NullSec == In("", "NULL", {}, 0, 0, 0)
Tables ==
  << In(".symtab", "SYMTAB", {}, 4, 48, 0),
     In(".strtab", "STRTAB", {}, 1, 9, 0),
     In(".shstrtab", "STRTAB", {}, 1, 61, 0) >>

\* .text and .rodata in flash; .data in RAM loaded right after .rodata; .bss
Ordered ==
  [sections |->
     << NullSec,
        In(".text", "PROGBITS", {"ALLOC", "EXEC"}, 4, 6, 16384),
        In(".rodata", "PROGBITS", {"ALLOC"}, 8, 5, 16392),
        In(".data", "PROGBITS", {"ALLOC", "WRITE"}, 4, 8, 32768),
        In(".bss", "NOBITS", {"ALLOC", "WRITE"}, 4, 12, 32776) >> \o Tables,
   segments |->
     << InSeg("LOAD", 16384, 16384, 13, 13, {"R", "X"}, 8),
        InSeg("LOAD", 32768, 16400, 20, 8, {"R", "W"}, 4) >>]

\* code only, with an unwind table that a second program header also covers
CodeOnly ==
  [sections |->
     << NullSec,
        In(".text", "PROGBITS", {"ALLOC", "EXEC"}, 2, 10, 16384),
        In(".ARM.exidx", "PROGBITS", {"ALLOC"}, 4, 8, 16396) >> \o Tables,
   segments |->
     << InSeg("LOAD", 16384, 16384, 20, 20, {"R", "X"}, 4),
        InSeg("EXIDX", 16396, 16396, 8, 8, {"R"}, 4) >>]

\* .data listed before .rodata, but loaded after it (a linker script that
\* places .data's load image with AT(...) past the read-only data)
DataFirst ==
  [sections |->
     << NullSec,
        In(".text", "PROGBITS", {"ALLOC", "EXEC"}, 4, 6, 16384),
        In(".data", "PROGBITS", {"ALLOC", "WRITE"}, 4, 8, 32768),
        In(".rodata", "PROGBITS", {"ALLOC"}, 8, 5, 16392),
        In(".bss", "NOBITS", {"ALLOC", "WRITE"}, 4, 12, 32776) >> \o Tables,
   segments |->
     << InSeg("LOAD", 16384, 16384, 13, 13, {"R", "X"}, 8),
        InSeg("LOAD", 32768, 16400, 20, 8, {"R", "W"}, 4) >>]

\* .rela.dyn has no or two relocations; __dl_init is exported or not;
\* .dynstr holds "", the soname and the symbol names; .dynsym has the null
\* symbol and, when there are relocations, the symbols they use.
MCDynSizes ==
  { [rela |-> RelaSize * m, ptrs |-> e, dynstr |-> ds, dynsym |-> SymSize * n] :
      m \in {0, 2}, e \in {0, 1}, ds \in {9, 14}, n \in {1, 3} }

MCInputsOrdered == {Ordered, CodeOnly}
MCInputsDataFirst == {DataFirst}
=============================================================================
