------------------------------- MODULE Layout -------------------------------
(***************************************************************************)
(* The layout half of mkextmod's pipeline: the header counts set by        *)
(* IndexNodes, then ComputeAddresses, ComputeOffsets and ComputeSegments   *)
(* of elfmodel.py, then the footer signature mkextmod.py writes, run over  *)
(* the section and segment lists mkextmod.py builds: the sections loaded   *)
(* from the input (fixed, addresses from the file) followed by the nine    *)
(* sections it synthesizes, and the input segments between the PT_PHDR /  *)
(* PT_INTERP pair it prepends and the five segments it appends.           *)
(*                                                                         *)
(* Each visitor call on one node is one step.  Deleted nodes are skipped   *)
(* by Visitor.visit, so the lists hold live nodes only.  Section contents  *)
(* are abstracted to their sizes; a failed assert or a missing attribute   *)
(* ends the run in phase "failed".                                        *)
(***************************************************************************)
EXTENDS Integers, Sequences, FiniteSets
LOCAL INSTANCE Functions

CONSTANTS
  FlashStart,  \* initial ComputeAddresses.next_flash (0x10000000 in the code)
  RamStart,    \* initial ComputeAddresses.next_ram   (0x20000000 in the code)
  FileAlign,   \* ComputeOffsets sh_align, the alignment of the first section
  Width,       \* bits of an address word (32 in the code)
  Inputs,      \* loaded input files: [sections |-> Seq(Sec), segments |-> Seq(Seg)]
  DynSizes     \* per output: .rela.dyn bytes, constant-pointer entries
               \* (__dl_init, __dl_fini, --dyn-entry), .dynstr and .dynsym bytes

ASSUME FlashStart \in Nat /\ RamStart \in Nat /\ FileAlign \in Nat \ {0}
ASSUME Width \in Nat \ {0}

\* sizeof / alignment of the ELF32 records (elf.py)
EhdrSize == 52
PhdrSize == 32
ShdrSize == 40
PhdrAlign == 4
ShdrAlign == 4
SymSize == 16
RelaSize == 12
DynSize == 8
Mask == 2^Width - 1

NoAddr == -1   \* the section has no paddr attribute yet
Unset == -1    \* a .dynamic entry WriteData has not written yet

\* DF_BIND_NOW | DF_TEXTREL
DfFlags == 12

\* align(address, alignment); the code asserts alignment is a power of two
IsPow2(a) == a > 0 /\ \E k \in 0..Width : 2^k = a
AlignUp(x, a) == ((x + a - 1) \div a) * a

(***************************************************************************)
(* The section and segment lists mkextmod.py builds.                       *)
(***************************************************************************)
\* a DynEntry whose value is a lambda reading a section's sh_addr or size
\* when WriteData runs; one whose d_val (or d_ptr) is set when it is built;
\* DT_SONAME, whose string value WriteData looks up (modelled in Writer)
LateAddr(tag, sec) == [tag |-> tag, late |-> "addr", sec |-> sec, val |-> 0]
LateSize(tag, sec) == [tag |-> tag, late |-> "size", sec |-> sec, val |-> 0]
Const(tag, v) == [tag |-> tag, late |-> "none", sec |-> "", val |-> v]
Str(tag) == [tag |-> tag, late |-> "str", sec |-> "", val |-> 0]

\* dynamic.dyns as mkextmod.py builds it; .rel.dyn never gets a relocation,
\* so its three entries are never added
DynEntries(d) ==
  << LateAddr("HASH", "hash"), LateAddr("STRTAB", "dynstr"),
     LateAddr("SYMTAB", "dynsym") >>
  \o (IF d.rela > 0
      THEN << LateAddr("RELA", "rela.dyn"), Const("RELAENT", RelaSize),
              LateSize("RELASZ", "rela.dyn") >>
      ELSE << >>)
  \o << LateSize("STRSZ", "dynstr"), Const("SYMENT", SymSize),
        Str("SONAME"), Const("FLAGS", DfFlags) >>
  \o [k \in 1..d.ptrs |-> Const("PTR", 0)]
  \o << Const("NULL", 0) >>

NewSec(name, type, align, size) ==
  [name |-> name, type |-> type, flags |-> {"ALLOC"}, align |-> align,
   size |-> size, fixed |-> FALSE, addr |-> 0]

\* .phdrs, .dynamic, .hash, .dynstr, .dynsym, .interp, .rela.dyn, .rel.dyn,
\* .footer, appended in this order; .phdrs takes its size from e_phnum.
Synthesized(d) ==
  << NewSec("phdrs", "PHDRS", PhdrAlign, 0),
     NewSec("dynamic", "DYNAMIC", 4, DynSize * Len(DynEntries(d))),
     NewSec("hash", "HASH", 4, 8),
     NewSec("dynstr", "STRTAB", 1, d.dynstr),
     NewSec("dynsym", "DYNSYM", 4, d.dynsym),
     NewSec("interp", "PROGBITS", 1, 14),
     NewSec("rela.dyn", "RELA", 4, d.rela),
     NewSec("rel.dyn", "REL", 4, 0),
     NewSec("footer", "PROGBITS", 256, 8) >>

\* Segment.__contains__: the section lies inside the segment's memory range
Contains(g, s) ==
  g.vaddr <= s.addr /\ g.vaddr + g.memsz >= s.addr + s.size

\* Dereference.visit_Segment: members of a loaded segment, in section order
Dereference(g, ss) ==
  [g EXCEPT !.members = SelectSeq([i \in 1..Len(ss) |-> i],
                                  LAMBDA i : Contains(g, ss[i]))]

NewSeg(type, members) ==
  [type |-> type, fixed |-> FALSE, vaddr |-> 0, paddr |-> 0, memsz |-> 0,
   filesz |-> 0, offset |-> 0, flags |-> {}, align |-> 0, members |-> members]

\* Mutant of Segments: PT_LOOS lists .rel.dyn before .rela.dyn.
SegmentsLoosSwapped(P, loaded) ==
  << NewSeg("PHDR", <<P + 1>>), NewSeg("INTERP", <<P + 6>>) >>
  \o loaded \o
  << NewSeg("LOAD", <<P + 1>>), NewSeg("DYNAMIC", <<P + 2>>),
     NewSeg("LOAD", [k \in 1..7 |-> P + 1 + k]),
     NewSeg("LOOS", <<P + 8, P + 7>>), NewSeg("LOAD", <<P + 9>>) >>

\* P is the number of loaded sections; the synthesized ones follow them
Segments(P, loaded) ==
  << NewSeg("PHDR", <<P + 1>>), NewSeg("INTERP", <<P + 6>>) >>
  \o loaded \o
  << NewSeg("LOAD", <<P + 1>>), NewSeg("DYNAMIC", <<P + 2>>),
     NewSeg("LOAD", [k \in 1..7 |-> P + 1 + k]),
     NewSeg("LOOS", <<P + 7, P + 8>>), NewSeg("LOAD", <<P + 9>>) >>

-----------------------------------------------------------------------------
VARIABLES
  secs,       \* elffile.sections: the constant attributes of each section
  segs,       \* elffile.segments: Phdr fields and member section positions
  phase,      \* which pass runs
  cur,        \* position of the node the running pass visits next
  nextFlash,  \* ComputeAddresses.next_flash
  nextRam,    \* ComputeAddresses.next_ram
  fileOff,    \* ComputeOffsets.offset
  shAddr,     \* sh_addr of each section
  paddr,      \* paddr of each section, NoAddr while unset
  shSize,     \* sh_size of each section
  shOffset,   \* sh_offset of each section
  hdr,        \* Ehdr fields e_phnum, e_shnum, e_phoff, e_shoff
  footer,     \* the two words of .footer data
  dyns,       \* dynamic.dyns: the entries mkextmod.py built
  dval        \* d_val of each entry as WriteData writes it, Unset before

vars == <<secs, segs, phase, cur, nextFlash, nextRam, fileOff, shAddr,
          paddr, shSize, shOffset, hdr, footer, dyns, dval>>

N == Len(secs)
Positions == 1..N
PhdrsPos == CHOOSE i \in Positions : secs[i].type = "PHDRS"

IsAlloc(i) == "ALLOC" \in secs[i].flags
IsWrite(i) == "WRITE" \in secs[i].flags
\* Section.psize: no file bytes for SHT_NOBITS
PSize(i) == IF secs[i].type = "NOBITS" THEN 0 ELSE shSize[i]
\* ComputeAddresses: the section takes room in flash
InFlash(i) == ~IsWrite(i) \/ secs[i].type # "NOBITS"

Init ==
  \E in \in Inputs, d \in DynSizes :
    LET ss == in.sections \o Synthesized(d)
    IN /\ secs = ss
       /\ segs = Segments(Len(in.sections),
                          [j \in DOMAIN in.segments |->
                             Dereference(in.segments[j], in.sections)])
       /\ phase = "index"
       /\ cur = 1
       /\ nextFlash = FlashStart
       /\ nextRam = RamStart
       /\ fileOff = 0
       /\ shAddr = [i \in DOMAIN ss |-> ss[i].addr]
       /\ paddr = [i \in DOMAIN ss |-> NoAddr]
       /\ shSize = [i \in DOMAIN ss |-> ss[i].size]
       /\ shOffset = [i \in DOMAIN ss |-> 0]
       /\ hdr = [phnum |-> 0, shnum |-> 0, phoff |-> 0, shoff |-> 0]
       /\ footer = <<0, 0>>
       /\ dyns = DynEntries(d)
       /\ dval = [k \in DOMAIN DynEntries(d) |-> Unset]

\* the pass visits its next node, or hands over to the next pass
Step(n, nextPhase) ==
  IF cur < n THEN cur' = cur + 1 /\ phase' = phase
             ELSE cur' = 1 /\ phase' = nextPhase

Fail == phase' = "failed" /\ UNCHANGED <<secs, segs, cur, nextFlash, nextRam,
          fileOff, shAddr, paddr, shSize, shOffset, hdr, footer, dyns, dval>>

(***************************************************************************)
(* IndexNodes.visit_Elf: e_phnum and e_shnum from the live lists; .phdrs  *)
(* gets no index (Visitor.visit_PhdrsSection does nothing).  (The         *)
(* symbol and relocation sorting it also does is modelled in Indexing.)    *)
(***************************************************************************)
IndexNodes ==
  /\ phase = "index"
  /\ hdr' = [hdr EXCEPT !.phnum = Len(segs),
                        !.shnum = Cardinality({i \in Positions : secs[i].type # "PHDRS"})]
  /\ phase' = "segaddr"
  /\ UNCHANGED <<secs, segs, cur, nextFlash, nextRam, fileOff, shAddr, paddr,
                 shSize, shOffset, footer, dyns, dval>>

(***************************************************************************)
(* ComputeAddresses.visit_Segment: a loaded segment gives each member the  *)
(* load address paddr = sh_addr + (p_paddr - p_vaddr).                     *)
(***************************************************************************)
AddrSegment ==
  /\ phase = "segaddr"
  /\ LET g == segs[cur]
         ms == {g.members[k] : k \in DOMAIN g.members}
     IN paddr' = IF g.fixed
                 THEN [i \in Positions |->
                         IF i \in ms THEN shAddr[i] + (g.paddr - g.vaddr)
                                     ELSE paddr[i]]
                 ELSE paddr
  /\ Step(Len(segs), "addr")
  /\ UNCHANGED <<secs, segs, nextFlash, nextRam, fileOff, shAddr, shSize,
                 shOffset, hdr, footer, dyns, dval>>

\* Mutant of SizeForAddresses: the PhdrsSection override is missing.
SizeNoPhdrsOverride(s) == s.size

\* ComputeAddresses.visit_PhdrsSection: .phdrs is sized from e_phnum
SizeForAddresses(s) == IF s.type = "PHDRS" THEN hdr.phnum * PhdrSize ELSE s.size

\* Mutant of FlashCursorAfter: only computed addresses move the cursor.
FlashCursorOnlyComputed(i, flashP, ps) ==
  IF IsAlloc(i) /\ InFlash(i) /\ ~secs[i].fixed
  THEN flashP + AlignUp(ps, secs[i].align) ELSE nextFlash

\* ComputeAddresses.visit_Section: next_flash moves to the end of a section
\* that occupies flash, loaded or not
FlashCursorAfter(i, flashP, ps) ==
  IF IsAlloc(i) /\ InFlash(i)
  THEN flashP + AlignUp(ps, secs[i].align) ELSE nextFlash

(***************************************************************************)
(* ComputeAddresses.visit_Section (and the PhdrsSection override that      *)
(* sizes .phdrs from e_phnum): writable sections take RAM from next_ram,   *)
(* sections with file bytes or read-only take flash from next_flash; a     *)
(* loaded section keeps its addresses but still moves the cursors to its   *)
(* end.  A loaded flash section that no loaded segment gave a paddr, or an *)
(* alignment that is not a power of two, stops the tool.                   *)
(***************************************************************************)
AddrSection ==
  /\ phase = "addr"
  /\ LET i == cur
         s == secs[i]
         sz == SizeForAddresses(s)
         ps == IF s.type = "NOBITS" THEN 0 ELSE sz
         ramA == IF s.fixed THEN shAddr[i] ELSE AlignUp(nextRam, s.align)
         flashP == IF s.fixed THEN paddr[i] ELSE AlignUp(nextFlash, s.align)
     IN IF IsAlloc(i) /\ (~IsPow2(s.align)
                          \/ (InFlash(i) /\ s.fixed /\ paddr[i] = NoAddr))
        THEN Fail
        ELSE
        /\ shSize' = [shSize EXCEPT ![i] = sz]
        /\ nextRam' = IF IsAlloc(i) /\ IsWrite(i)
                      THEN ramA + AlignUp(sz, s.align) ELSE nextRam
        /\ nextFlash' = FlashCursorAfter(i, flashP, ps)
        /\ shAddr' = IF IsAlloc(i) /\ ~s.fixed
                     THEN [shAddr EXCEPT ![i] = IF IsWrite(i) THEN ramA
                                                ELSE flashP]
                     ELSE shAddr
        /\ paddr' = IF IsAlloc(i) /\ ~s.fixed
                    THEN [paddr EXCEPT ![i] = IF InFlash(i) THEN flashP
                                              ELSE ramA]
                    ELSE paddr
        /\ Step(N, "offbegin")
        /\ UNCHANGED <<secs, segs, fileOff, shOffset, hdr, footer, dyns, dval>>

(***************************************************************************)
(* ComputeOffsets.visit_Elf, up to the section loop: the Ehdr, then the    *)
(* program header table at e_phoff, then padding to sh_align.              *)
(***************************************************************************)
OffsetsBegin ==
  /\ phase = "offbegin"
  /\ LET phoff == AlignUp(EhdrSize, PhdrAlign)
     IN /\ hdr' = [hdr EXCEPT !.phoff = phoff]
        /\ fileOff' = AlignUp(phoff + hdr.phnum * PhdrSize, FileAlign)
  /\ phase' = "offsec"
  /\ UNCHANGED <<secs, segs, cur, nextFlash, nextRam, shAddr, paddr, shSize,
                 shOffset, footer, dyns, dval>>

\* Mutant of SectionOffset: the offset is not aligned.
OffsetUnaligned(s) == fileOff

\* ComputeOffsets.visit_Section: the next offset aligned to sh_addralign
SectionOffset(s) == AlignUp(fileOff, s.align)

\* Mutant of AtPhoff: the visit_PhdrsSection override is missing.
AtPhoffNever(s) == FALSE

\* ComputeOffsets.visit_PhdrsSection applies: .phdrs sits at e_phoff
AtPhoff(s) == s.type = "PHDRS"

(***************************************************************************)
(* ComputeOffsets.visit_Section / visit_PhdrsSection: every section but    *)
(* SHT_NULL gets the next aligned offset and advances it by its psize;     *)
(* .phdrs is placed at e_phoff and does not advance it.                    *)
(***************************************************************************)
OffsetSection ==
  /\ phase = "offsec"
  /\ LET i == cur
         s == secs[i]
     IN IF s.type # "NULL" /\ ~AtPhoff(s) /\ ~IsPow2(s.align)
        THEN Fail
        ELSE
        /\ CASE AtPhoff(s) ->
                  /\ shOffset' = [shOffset EXCEPT ![i] = hdr.phoff]
                  /\ UNCHANGED fileOff
             [] s.type = "NULL" ->
                  UNCHANGED <<shOffset, fileOff>>
             [] OTHER ->
                  /\ shOffset' = [shOffset EXCEPT ![i] = SectionOffset(s)]
                  /\ fileOff' = SectionOffset(s) + PSize(i)
        /\ Step(N, "offend")
        /\ UNCHANGED <<secs, segs, nextFlash, nextRam, shAddr, paddr, shSize,
                       hdr, footer, dyns, dval>>

\* ComputeOffsets.visit_Elf after the loop: the section header table
OffsetsEnd ==
  /\ phase = "offend"
  /\ hdr' = [hdr EXCEPT !.shoff = AlignUp(fileOff, ShdrAlign)]
  /\ fileOff' = AlignUp(fileOff, ShdrAlign) + hdr.shnum * ShdrSize
  /\ phase' = "segments"
  /\ UNCHANGED <<secs, segs, cur, nextFlash, nextRam, shAddr, paddr, shSize,
                 shOffset, footer, dyns, dval>>

(***************************************************************************)
(* ComputeSegments.visit_Segment.  p_offset always follows the first       *)
(* member; a synthesized segment is rebuilt from its members in order,     *)
(* asserting they do not go backwards in the file, in flash or in memory; *)
(* a loaded segment keeps its other fields and asserts its members are     *)
(* loaded sections too.  Failed is the outcome of a failed assert.         *)
(***************************************************************************)
Failed == [failed |-> TRUE]

RECURSIVE Extend(_, _)
Extend(g, ms) ==
  IF ms = <<>> THEN g
  ELSE LET i == Head(ms) IN
    IF g.fixed
    THEN IF secs[i].fixed THEN Extend(g, Tail(ms)) ELSE Failed
    ELSE IF /\ shOffset[i] >= g.offset + g.filesz
            /\ paddr[i] >= g.paddr + g.memsz
            /\ shAddr[i] >= g.vaddr + g.memsz
         THEN Extend([g EXCEPT
                        !.filesz = shOffset[i] + PSize(i) - g.offset,
                        !.memsz = shAddr[i] + shSize[i] - g.vaddr,
                        !.flags = @ \cup (IF IsWrite(i) THEN {"W"} ELSE {})
                                    \cup (IF "EXEC" \in secs[i].flags
                                          THEN {"X"} ELSE {}),
                        !.align = IF secs[i].align > @ THEN secs[i].align
                                  ELSE @],
                     Tail(ms))
         ELSE Failed

LaidOut(g) ==
  LET s0 == g.members[1]
      g0 == IF g.fixed THEN [g EXCEPT !.offset = shOffset[s0]]
            ELSE [g EXCEPT !.offset = shOffset[s0], !.vaddr = shAddr[s0],
                           !.paddr = paddr[s0], !.filesz = 0, !.memsz = 0,
                           !.flags = {"R"}, !.align = 1]
  IN Extend(g0, g.members)

SegmentLayout ==
  /\ phase = "segments"
  /\ LET g == LaidOut(segs[cur]) IN
       IF g = Failed THEN Fail
       ELSE /\ segs' = [segs EXCEPT ![cur] = g]
            /\ Step(Len(segs), "footer")
            /\ UNCHANGED <<secs, nextFlash, nextRam, fileOff, shAddr, paddr,
                           shSize, shOffset, hdr, footer, dyns, dval>>

\* Mutant of FooterWords: Python's ~ without the 32-bit mask.
FooterWordsUnmasked(a) == <<a, -1 - a>>

\* the two little-endian words of .footer: a and ~a & 0xFFFFFFFF
FooterWords(a) == <<a, Mask - a>>

(***************************************************************************)
(* mkextmod.py, after the layout passes: .footer holds the load address of *)
(* .phdrs and its 32-bit complement.                                       *)
(***************************************************************************)
WriteFooter ==
  /\ phase = "footer"
  /\ footer' = FooterWords(paddr[PhdrsPos])
  /\ phase' = "dynamic"
  /\ UNCHANGED <<secs, segs, cur, nextFlash, nextRam, fileOff, shAddr, paddr,
                 shSize, shOffset, hdr, dyns, dval>>

\* the position of the synthesized section named n
SecPos(n) == CHOOSE i \in Positions : secs[i].name = n

\* Mutant of DynValue: the value is read when the entry is built, as the
\* d_ptr= entries are, before ComputeAddresses has placed the section.
DynValueEager(e) ==
  IF e.late = "addr" THEN secs[SecPos(e.sec)].addr ELSE secs[SecPos(e.sec)].size

\* dyn.value(): the lambda reads the section's sh_addr, or its size
\* (len(data), or the entry count times the entry size), when called
DynValue(e) ==
  IF e.late = "addr" THEN shAddr[SecPos(e.sec)] ELSE secs[SecPos(e.sec)].size

(***************************************************************************)
(* WriteData.visit_EntrySection on .dynamic, one visit_DynEntry per step:  *)
(* a callable value is called now, after the layout passes; a string      *)
(* value is looked up in .dynstr (Writer checks that lookup); otherwise    *)
(* the value is None and d_val is the one the entry was built with.        *)
(***************************************************************************)
WriteDynEntry ==
  /\ phase = "dynamic"
  /\ LET e == dyns[cur]
     IN dval' = [dval EXCEPT ![cur] = IF e.late \in {"addr", "size"}
                                      THEN DynValue(e) ELSE e.val]
  /\ Step(Len(dyns), "done")
  /\ UNCHANGED <<secs, segs, nextFlash, nextRam, fileOff, shAddr, paddr,
                 shSize, shOffset, hdr, footer, dyns>>

Next ==
  \/ IndexNodes
  \/ AddrSegment
  \/ AddrSection
  \/ OffsetsBegin
  \/ OffsetSection
  \/ OffsetsEnd
  \/ SegmentLayout
  \/ WriteFooter
  \/ WriteDynEntry

\* The tool is a single sequential run: it stops in "done" or "failed".
Spec == Init /\ [][Next]_vars

-----------------------------------------------------------------------------
Phases == {"index", "segaddr", "addr", "offbegin", "offsec", "offend",
           "segments", "footer", "dynamic", "done", "failed"}

TypeOK ==
  /\ phase \in Phases
  /\ cur \in Positions \cup DOMAIN segs \cup DOMAIN dyns
  /\ nextFlash \in Nat /\ nextRam \in Nat /\ fileOff \in Nat
  /\ shAddr \in [Positions -> Nat]
  /\ paddr \in [Positions -> Nat \cup {NoAddr}]
  /\ shSize \in [Positions -> Nat]
  /\ shOffset \in [Positions -> Nat]
  /\ hdr \in [phnum : Nat, shnum : Nat, phoff : Nat, shoff : Nat]
  /\ footer \in (0..Mask) \X (0..Mask)
  /\ dval \in [DOMAIN dyns -> Nat \cup {Unset}]

Done == phase = "done"

\* Two half-open ranges [a, a+m) and [b, b+n) share no byte.
Disjoint(a, m, b, n) == a + m <= b \/ b + n <= a

(***************************************************************************)
(* No two sections share flash, and no two writable sections share RAM:    *)
(* ComputeAddresses places every synthesized section past every section    *)
(* placed before it, loaded ones included, so the dynamic-linking tables   *)
(* never overwrite the module's code or its initialised data image.        *)
(***************************************************************************)
LoadImagesDisjoint ==
  Done =>
    \A i, j \in Positions :
      i < j /\ IsAlloc(i) /\ IsAlloc(j) =>
        /\ InFlash(i) /\ InFlash(j) =>
             Disjoint(paddr[i], PSize(i), paddr[j], PSize(j))
        /\ IsWrite(i) /\ IsWrite(j) =>
             Disjoint(shAddr[i], shSize[i], shAddr[j], shSize[j])

(***************************************************************************)
(* Every program header describes its members truthfully: copying the      *)
(* segment's file range [p_offset, p_offset + p_filesz) to p_paddr puts    *)
(* each member's file bytes at the member's paddr, and each member's       *)
(* sh_addr sits at the same distance from p_vaddr.  This is what the       *)
(* loader relies on; ComputeOffsets and ComputeAddresses lay the file and  *)
(* the memory out by two different cursors.                                *)
(***************************************************************************)
SegmentImagesMatch ==
  Done =>
    \A k \in DOMAIN segs : \A m \in DOMAIN segs[k].members :
      LET g == segs[k]
          i == g.members[m]
      IN /\ shAddr[i] - g.vaddr = paddr[i] - g.paddr
         /\ shAddr[i] + shSize[i] <= g.vaddr + g.memsz
         /\ PSize(i) > 0 =>
              /\ shOffset[i] - g.offset = paddr[i] - g.paddr
              /\ shOffset[i] + PSize(i) <= g.offset + g.filesz

(***************************************************************************)
(* The output file's regions do not overlap: the ELF header, the program   *)
(* header table (sized by e_phnum from IndexNodes), every section's bytes  *)
(* and the section header table; and .phdrs, which stands for the program  *)
(* header table, covers exactly that table.                                *)
(***************************************************************************)
FileRegionsDisjoint ==
  Done =>
    LET Body == {i \in Positions : secs[i].type \notin {"NULL", "PHDRS"}}
        Regions == {<<0, EhdrSize>>,
                    <<hdr.phoff, hdr.phnum * PhdrSize>>,
                    <<hdr.shoff, hdr.shnum * ShdrSize>>}
    IN /\ shOffset[PhdrsPos] = hdr.phoff
       /\ shSize[PhdrsPos] = Len(segs) * PhdrSize
       /\ \A i \in Body : \A r \in Regions :
            Disjoint(shOffset[i], PSize(i), r[1], r[2])
       /\ \A i, j \in Body :
            i < j => Disjoint(shOffset[i], PSize(i), shOffset[j], PSize(j))
       /\ \A r, q \in Regions : r # q => Disjoint(r[1], r[2], q[1], q[2])

(***************************************************************************)
(* The footer lets the loader find the program headers: its two words are  *)
(* complements, and the first is the flash address at which some PT_LOAD   *)
(* segment puts the whole program header table.                            *)
(***************************************************************************)
FooterLocatesPhdrs ==
  Done =>
    /\ footer[1] + footer[2] = Mask
    /\ \E k \in DOMAIN segs :
         LET g == segs[k] IN
         /\ g.type = "LOAD"
         /\ g.offset <= hdr.phoff
         /\ hdr.phoff + Len(segs) * PhdrSize <= g.offset + g.filesz
         /\ footer[1] = g.paddr + (hdr.phoff - g.offset)

\* None of ComputeAddresses', ComputeOffsets' or ComputeSegments' asserts
\* fires and no loaded flash section lacks a load address.
NoLayoutFault == phase # "failed"
(***************************************************************************)
(* The .dynamic section locates the tables the dynamic loader reads: each  *)
(* address entry (DT_HASH, DT_STRTAB, DT_SYMTAB, DT_RELA) holds the final  *)
(* sh_addr of its table, inside a PT_LOAD segment that maps the whole      *)
(* table, and each size entry (DT_STRSZ, DT_RELASZ) the table's sh_size.   *)
(* mkextmod.py builds these entries before any address is known; only    *)
(* their lambdas, called by WriteData after the layout, make this hold.    *)
(***************************************************************************)
DynamicLocatesTables ==
  Done =>
    \A k \in DOMAIN dyns :
      LET i == SecPos(dyns[k].sec)
      IN /\ dyns[k].late = "addr" =>
              /\ dval[k] = shAddr[i]
              /\ \E g \in Range(segs) :
                   /\ g.type = "LOAD"
                   /\ g.vaddr <= dval[k]
                   /\ dval[k] + shSize[i] <= g.vaddr + g.memsz
         /\ dyns[k].late = "size" => dval[k] = shSize[i]
=============================================================================
