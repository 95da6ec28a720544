# TLA+ models of mkextmod (morelib/tools)

`src/morelib/tools/mkextmod.py` rewrites a linked 32-bit ARM ELF image into a
dynamically loadable extension module. It uses the ELF object model and
pipeline passes of `elfmodel.py`, and the ctypes record layouts of `elf.py`.
This directory holds TLA+ models of that program, the TLC configurations that
check them, and `PROJECT.json`, which maps every definition to the source
lines it models and lists the runs, mutants, findings and hazards.

## 1. Inventory

The tool is one sequential run: `bytes -> load -> object graph -> mkextmod
mutates -> passes -> write -> bytes`. There are no threads, callbacks or
messages. The hard part is the order of the passes: each pass reads state that
earlier passes computed. Inputs vary, and some arrive in an unexpected order.

| Component | Source | State | Operations |
|---|---|---|---|
| ELF32 records | `elf.py` | ctypes `Ehdr`, `Shdr`, `Phdr`, `Sym`, `Rel`, `Rela`, `Dyn`; enums | field packing (`r_info`, `st_info`) |
| Object model | `elfmodel.py` 24-341 | nodes with `fixed` and `deleted` flags, `link`/`info`/`section`/`symbol` references, `data`, entry lists | `delete` (entry sections cascade to their entries), `size`, `psize`, `Segment.__contains__` |
| Visitor | `elfmodel.py` 343-404 | none | dispatch up the class chain; lists skip deleted nodes |
| Loader | `elfmodel.py` 688-794 | the graph being built | `load`, `ReadData` (including the `.ARM.attributes` parser), `Dereference` (indices become references; segment members found by address containment) |
| PurgeDeleted | `elfmodel.py` 406-444 | `again` flag | propagates deletion across link/info, symbol.section, relocation.symbol and segment membership until a round deletes nothing; then compacts the lists |
| IndexNodes | `elfmodel.py` 447-477 | section and symbol indices, `e_phnum`, `e_shnum` | numbers sections; sorts symbols (locals first, stable by value) and sets `sh_info`; sorts relocations by offset |
| String tables | `elfmodel.py` 204-247, 480-496 | `strings` (ordered dict), `data` | `register` (clears `data`), `build` (suffix-sharing packer), `lookup` |
| Address/offset/segment layout | `elfmodel.py` 499-617 | `next_flash`, `next_ram`, file cursor; `sh_addr`, `paddr`, `sh_offset`, Phdr fields | `ComputeAddresses`, `ComputeOffsets`, `ComputeSegments` |
| Writer | `elfmodel.py` 620-685 | output file | `WriteData` (fills `st_name`, `st_shndx`, `r_sym`, late-bound `d_val`), `WriteHeaders` |
| mkextmod preprocess | `mkextmod.py` 26-48 | `cpu_name`, `cpu_config` | strip `.debug*`; force flags on `.data*` and `.uninitialized_data*`; read the CPU; purge; reject an unknown CPU |
| Dynamic symbols and veneers | `mkextmod.py` 50-129 | `.dynsym`, memo `sym.dyn`, `.rela.dyn` | `mk_dyn`; promotion of global default-visibility symbols; an `R_ARM_ABS32` for each veneer's literal |
| Relocation conversion | `mkextmod.py` 132-237 | `.rela.dyn` | `decode_addend`, `undo_relocation`; cross-bank Thumb calls retargeted to veneers; in-bank PC-relative relocations dropped; REL sections deleted |
| Dynamic entries and hash | `mkextmod.py` 240-285 | `.dynamic` entries, `.hash` data | tags in a fixed order, late-bound values, `DT_NULL` last; `.hash` = (0, nchain) |
| Section/segment plan and footer | `mkextmod.py` 287-314 | section and segment lists, `.footer` | appends 9 sections; prepends 2 and appends 5 segments; runs the passes; footer = paddr of `.phdrs` and its complement |
| CLI and file I/O | `mkextmod.py` 10-27, 317-321; `open_elffile` | files | argparse, open, write |

How they interact: mkextmod calls the loader, mutates the graph, then runs the
passes in a fixed order (lines 305-320). The passes share state through the
graph: IndexNodes' `e_phnum` sizes `.phdrs` in ComputeAddresses; strings
registered by RegisterStrings are the ones BuildStrtabs packs and WriteData
looks up; addresses computed in ComputeAddresses are read by ComputeSegments,
the footer, and the late-bound `.dynamic` values in WriteData.

What makes it hard: each pass assumes an order among sections. The flash and
RAM cursors are moved by loaded sections too, which keep the addresses they
had in the input. Fixed segments keep their input Phdr while every file
offset is recomputed. Deletion cascades to a fixpoint. The string packer
relies on a sorted list that its "extend" branch rewrites in place. Relocation
addends are decoded from patched instruction words.

What makes each component correct:
- Layout: no two sections share flash or RAM; each program header maps its
  members' file bytes to their addresses; file regions do not overlap; the
  footer locates the program header table. No assert fires. The
  `.dynamic` entries written after the layout hold each table's final
  address (inside a PT_LOAD) and size.
- String tables: every registered string is found at its offset, NUL
  terminated; sharing is as good as suffix sharing allows; the packer's list
  stays sorted with no key a prefix of another.
- PurgeDeleted: afterwards no live node refers to a deleted one, and exactly
  the nodes that depend on a deleted node are gone.
- IndexNodes: locals come first, `sh_info` counts them, the null symbol stays
  at index 0.
- Relocation conversion: each emitted RELA reconstructs the original target;
  cross-bank calls go through a veneer.
- Dynamic entries: `DT_NULL` last, size and count entries match the sections,
  `.hash` nchain equals the `.dynsym` count.
- Preprocess: a missing or unsupported CPU is reported as such.

## 2. Plan

Modules, in order of importance; what is done is marked:

1. `Layout` (done): IndexNodes' header counts, ComputeAddresses,
   ComputeOffsets, ComputeSegments and the footer, over mkextmod's section and
   segment plan. `MCLayout` supplies the loaded inputs.
2. `Strtab` (done): `StrtabSection.build` and `lookup`, UTF-8 encoding
   included, checked against a reference definition of optimal suffix
   sharing.
3. `Purge` and `PurgeSpec` (done): PurgeDeleted round by round, refining
   the abstract one-step removal of the dependency closure (`RECURSIVE`).
4. `Preprocess` (done): mkextmod's first section loop, the purge (taken
   from PurgeSpec) and the CPU check.
5. `Writer` (done): IndexNodes (section numbering past deleted nodes,
   the locals-first symbol sort, the relocation sort) followed by the index
   fields WriteData and WriteHeaders write, then RegisterStrings and
   BuildStrtabs (each table built by Strtab's own steps, through
   `INSTANCE Strtab`) and the name fields (`st_name`, `sh_name`,
   `e_shstrndx`, the `DT_SONAME` `d_val`). Checked by reading the written
   file back with Dereference's lookups and `StrtabSection.lookup`.
6. `Relocs` (done): `decode_addend`/`undo_relocation` as operators over the
   words a linker writes, then the conversion loop with veneers and
   `mk_dyn`, and the `.dynamic` entry list and `.hash` nchain.
7. `ArmAttributes` (done): the `.ARM.attributes` parser, checked on
   truncated sections against spec line 72.
8. `Pipeline` (partly, in Writer): the composition of string
   registration with the writer is done. Joining Preprocess and Layout
   to it in one state space is not done. Their interfaces are the graph
   that Writer and Layout take as input, and a product of the three
   exceeds what TLC explores in minutes.

Not modelled: the CLI, file I/O, ctypes packing, and `Dump` (printing only).

## 3. Modules

Each module has one variable per piece of program state the component
changes and one action per step of its loop or pass. A sequential loop is a
`phase` and a cursor (`cur`, `i`, `j`). An `assert` or exception leads to
phase `"failed"`. `Init` draws the input from a constant set that the MC
module defines. Every definition's source lines are listed in
`PROJECT.json` under "map".

- `Layout`: `secs` and `segs` are `elffile.sections` and `elffile.segments`
  after mkextmod appends its nine sections and seven segments (`Segments`,
  mkextmod.py 287-302). The fields computed by the passes are `shAddr`,
  `paddr`, `shOffset`, `shSize`, `hdr` (e_phnum, e_shnum, e_phoff, e_shoff),
  the cursors `nextFlash`/`nextRam`/`fileOff`, and `footer`. There is one
  action per visit of ComputeAddresses, ComputeOffsets and ComputeSegments
  (`AddrSegment`, `AddrSection`, `OffsetSection`, `SegmentLayout`), plus
  `IndexNodes` and `WriteFooter`. `e_shnum` does not count `.phdrs`,
  which IndexNodes passes to the base `Visitor.visit_PhdrsSection` (a
  no-op, elfmodel.py 383-384) and so never numbers. `dyns` is `dynamic.dyns` as mkextmod
  builds it (`DynEntries`, mkextmod.py 240-285; `.rel.dyn` never gets a
  relocation, so its entries are never added), and `.dynamic`'s size is
  taken from it. `WriteDynEntry` is one WriteData.visit_DynEntry. It calls
  an address or size lambda (`DynValue`) and stores the result in `dval`.
  Other entries keep the value they were built with. The soname lookup is
  in Writer. Addresses are scaled to a 16-bit word so
  that the footer complement fits TLC's integers (flash 0x4000, RAM 0x8000).
  Record sizes and the 4096-byte file alignment are the code's own.
- `Strtab`: `d` is build()'s sorted list of `(key, members)`. `data` is the
  byte table, and `offs` is `self.strings` after the build.
  `InsertString` is one iteration of the first loop: bisect, then join,
  extend or insert. `EmitGroup` is one iteration of the second loop, and
  `Verify` is the closing assert. Strings are sequences of code points.
  `Encode`/`Decode` are UTF-8 for code points below 2048, as `str.encode`
  and `bytes.decode` do.
- `PurgeSpec`: the object graph as a record (lists, link/info, entries, the
  entries' references, segment members). `Closure` is the least set closed
  under "depends on a removed node". `Purge` removes it in one step.
- `Purge`: `deleted` (the `.deleted` flags), the two lists, each section's
  `_entries`, each segment's `sections`, and `again`. `VisitSection`,
  `VisitEntry`, `EndEntries`, `VisitSegment` and `EndRound` are the
  visitor's steps, and `StartRound`/`Finish` are the `while self.again`
  test. `Abs` maps it onto PurgeSpec: nothing is removed until the loop
  returns, and then `deleted` is.
- `Preprocess`: each section has a name class (the prefixes the loop
  tests), its flags, and for `.ARM.attributes` the parsed `CPU_name` or
  none. `cpuName` starts `Unbound`, as in the code, where only `cpu` is
  assigned before the loop.

- `Relocs`: `in` is the loaded file, reduced to what the conversion reads:
  the symtab, the REL sections with their relocations, which sections are
  ALLOC, the words at relocation sites and veneer literals, the CPU's
  `veneer_symbol_offset`, and the `.dynamic` entries from the linker script.
  The variables are `dynsym` (the `.dynsym` list, the null entry first),
  `dynrela`, `relDel` (deleted REL sections), `dyns`, `nchain`, the cursors
  `k`, `r`, `q`, `phase` and `error`. `Promote` is the promotion loop,
  `Literal` the veneer loop, `ConvertReloc` one iteration of the conversion
  loop with every branch in code order (undefined skip, veneer retarget,
  type check, ABS emit, bank assert, in-bank skip, section-less assert,
  emit). `BuildDynamic` builds the entry list and `.hash`. It raises TypeError
  when `in.entriesGiven` is false, that is, when `--entry` was never given. A Thumb BL/B.W
  word is a pair of halfwords, since 32-bit words do not fit TLC's
  integers. `DecodeAddend` is the code's imm22 decoding; `ThumbBranchOffset`
  is the Thumb-2 reference with J1/J2. Names are `<<base, depth>>`, where
  depth counts `__..._veneer` wrappings.
- `Writer`: `g` is the graph as mkextmod leaves it (sections in list order
  with deleted ones still present, link/info, symtab and relocation entries
  with the `st_shndx` and `r_info` they were loaded with). `IndexSection` is
  one visit of IndexNodes. It numbers the section, re-sorts a symtab with
  two stable sorts (`SortBy`) and sets `sh_info`, or sorts relocations by
  offset. `WriteSection` is one visit of WriteData. It writes `st_shndx`
  from the symbol's section index (or leaves the loaded value) and `r_sym`
  by `R_INFO`. `WriteHeader` writes `sh_link`, `sh_info`, `sh_name` and
  `SHF_INFO_LINK`. Between them, `RegisterSection` is one visit of
  RegisterStrings. It registers the section name in `.shstrtab` and its
  symbol names (or `.dynamic`'s soname) in the linked table. `register`
  drops a table's loaded `data` (`tdata` becomes `None`). `BuildTable` and
  `SkipTable` are BuildStrtabs' test `if section.data is None`, and
  `BuildStep` runs `S!Next`, where `S` is Strtab instantiated on Writer's
  `b*` variables. `EndBuild` stores the table's bytes and offsets, or
  fails if `build`'s closing assert does. `WriteSection` then looks names
  up in `toffs` (KeyError leads to `"failed"`). An empty name keeps its
  loaded `st_name`. The late-bound `d_val`s are written in Layout. Byte offsets are left out.
- `ArmAttributes`: `data` is the local the parser slices. There is one
  action per statement group (`Format`, `VendorSize`, `Vendor`, `FileTag`,
  `SubSize`, `CpuTag`, `Name`), each ending in an early return, an
  exception, or the next group. `Slice` is Python slicing and `NulAt` is
  `bytes.index(0)`. `Ref` is the grammar of spec line 72, with the ABI's
  size conventions. A failure is allowed only where `Ref` finds a name that
  is not UTF-8.

## 4. Runs

| Run | Config | Expect | What it shows |
|---|---|---|---|
| layout | `MCLayout.cfg` | pass | For images whose sections are listed in load-address order, nothing overlaps in flash or RAM. Every segment maps its members' file bytes to their addresses. File regions are disjoint. The footer locates the program headers. No layout assert fires. The late-bound `.dynamic` entries (DT_HASH, DT_STRTAB, DT_SYMTAB, DT_RELA, DT_STRSZ, DT_RELASZ) hold their table's final `sh_addr`, inside a PT_LOAD segment, or its `sh_size` (`DynamicLocatesTables`). |
| layout_data_first | `MCLayoutDataFirst.cfg` | violation | With `.data` listed before `.rodata` but loaded after it, `next_flash` moves back (elfmodel.py:534). `.phdrs` lands on `.data`'s load image. |
| strtab | `MCStrtab.cfg` | pass | For every order of up to 3 distinct ASCII strings of length at most 3, the bisect list stays sorted and prefix-free and every string is found. The table is exactly as long as optimal suffix sharing gives. |
| strtab_wide | `MCStrtabWide.cfg` | violation | A non-ASCII character gets an offset counted in characters into a byte table (elfmodel.py:244), and the closing assert fails. |
| purge | `MCPurge.cfg` | pass | The purge terminates and leaves no dangling reference. It refines PurgeSpec, so it removes exactly the transitive dependents. |
| preprocess_no_attrs | `MCPreprocessNoAttrs.cfg` | violation | Without `.ARM.attributes`, `cpu_name` is unbound (mkextmod.py:28 assigns `cpu`), so the tool raises NameError instead of "CPU not found". |

| relocs | `MCRelocs.cfg` | pass | Every emitted RELA rebuilds the linker's target. Every relocation of an ALLOC section is emitted or skipped for a stated reason. Each exported symbol is in `.dynsym` once. Cross-bank calls go to the veneer, whose literal gets an ABS32 to the real function. The bank assert never fires on its own. |
| relocs_no_entry | `MCRelocsNoEntry.cfg` | violation | Without any `--entry` option, `args.dyn_entries` is None (argparse's append action has no default), and the loop at mkextmod.py:279 raises TypeError after every relocation is converted. Under weak fairness the tool never reaches `"done"` (`DynamicCompletes`), though the spec calls `--entry` repeatable and its first example uses none. |
| relocs_far_call | `MCRelocsFar.cfg` | violation | A call 6 MiB backwards to a firmware symbol is decoded without J1/J2 (mkextmod.py:145). The addend is 4194300 instead of -4. |
| relocs_exidx_ram | `MCRelocsExidx.cfg` | violation | An `.ARM.exidx` PREL31 entry for a RAM function reaches the same-bank assert (mkextmod.py:221), and the tool stops with AssertionError. |
| writer | `MCWriter.cfg` | pass | Reading the written file back with Dereference's lookups gives the same sections, links, infos, symbol sections and relocation symbols. The symtab is in gABI order: null first, locals first with `sh_info` their count, each group stably sorted by value. Every section, symbol and soname name reads back through the rebuilt or kept string table, including empty names written as the loaded `st_name` (`NamesRoundTrip`). |
| arm_attributes_truncated | `MCArmAttributes.cfg` | violation | A section cut short (here the one-byte section `A`) makes `data.index(0)` at elfmodel.py:738 raise ValueError, and a cut before a tag byte makes `data[0]` at 743 or 750 raise IndexError. Spec line 72 says any mismatch leaves tags empty (`MismatchLeavesEmpty`), so such a file should be rejected with "CPU not found". |

Every property of a passing run has a mutant in `PROJECT.json`: a plausible
bug in a mapped definition, which TLC must catch under the same config.

### Bounds

- Layout: the pass run has two input shapes whose sections are listed in
  address order. `Ordered` has code, read-only data, `.data` loaded from
  flash, and `.bss`. `CodeOnly` has an EXIDX segment overlapping a LOAD
  segment. The violation run uses `DataFirst`, which is `Ordered` with
  `.data` listed first. There are 16 size
  combinations of the synthesized sections (with and without relocations,
  which add the DT_RELA entries, and `__dl_init`), 2080 states. Every branch of ComputeAddresses is met: loaded and
  new sections, flash and RAM, NOBITS, `.phdrs`.
- Strtab: alphabet {a, b}, strings up to length 3, every order of up to
  3 of them (2381 inputs). Any two strings can meet in all of the packer's
  branches: join, extend, a new group before or after, and chains of
  suffixes such as `a`, `ba`, `aba`. The wide run uses {a, é} with length
  2.
- Purge: the `--strip` graph, and an unwind-table graph with every single
  section deleted first. Relocation sections come before `.symtab`, as GNU
  ld orders them, so a second round does real work.
- Preprocess: one image without `.ARM.attributes`, with and without
  `--strip`; the violation appears on both.

- Relocs: a module at 0x10000000 (flash) with data at 0x20000000 (RAM),
  and any subset of seven `.rel.text` relocations. Each is a different
  branch of the loop: ABS32 to data, TARGET1, an in-bank call, a jump to an
  absolute firmware symbol, a cross-bank call through a veneer, ABS32 to an
  undefined weak symbol, ABS32 to an absolute symbol. There are two veneer
  offsets (the 6S-M's 12 and the others' 4), and a hidden or default
  `__dl_init`. The set adds the five files the tool rejects: REL32, a veneer
  too short, a missing veneer, a literal naming no symbol, and a far call.
  Together that is 517 inputs. The three violation runs use one file
  each; `relocs_no_entry` converts two relocations, an ABS32 and an in-bank
  call, without `--entry`.
- Writer: eleven sections, one of each role (`.dynamic` included), with
  `.rel.text` deleted or kept. Section and symbol names share suffixes
  ("f", "af", "fw"; "x", "hx"), so the packer merges strings. `.strtab`
  and `.shstrtab` have loaded bytes, and `.dynstr` has none. Empty-named
  symbols carry `st_name` 0, as GNU ld writes them. There are four symtab symbols with every binding and two values,
  so ties and both orders occur, plus `.dynsym` entries that have a section
  but no loaded `st_shndx`. Relocations come in both offset orders:
  1024 graphs, 97792 states.
- ArmAttributes: 128 well-formed sections (format byte, vendor, file tag,
  first attribute tag, four names including the empty one and one that is
  not UTF-8, and with and without a trailing attribute), the empty
  section, and the section for CPU "cm" cut after each of its first 19
  bytes (148 inputs).

### Fairness

mkextmod is one sequential process, and nothing else runs. Its steps are
never blocked, so weak fairness of `Next` states only that the program does
not stop in the middle of a loop. Purge uses it to check `Termination`, and
Relocs (`FairSpec`) to check that the tool finishes (`DynamicCompletes`). The
other runs check only safety: their loops are bounded by the input's
length, and each run ends in `"done"` or `"failed"`. This is why the cfgs
turn off deadlock checking.

## 5. Not modelled

- The CLI and file I/O (argparse, open, write). The overwrite of the input
  by default is listed as a hazard.
- ctypes field packing and the `Dump` printer.
- The loader's record reads (`load`, `ReadData.visit_Section` and
  `visit_EntrySection`). They copy ctypes records and count entries as
  `sh_size // sh_entsize`. GNU ld writes these sizes consistently. Writer
  takes the loaded graph as its input and models Dereference's lookups.
- A single module composing Preprocess, Writer and Layout (see plan
  item 8).
- The parser's one-byte read past a sub-subsection (elfmodel.py:748). It
  matters only for a Tag_File size one short of its content. It is listed
  as a hazard with the reasoning.
- A run that passes over Preprocess. Its properties are the CPU check
  (`CpuChecked`), which the violation run exercises, and the type
  invariant. The strip loop and the purge it calls are checked in Purge.
- Components still to come are listed in the plan and in `PROJECT.json`
  "components". Each hazard without a property says why in its note.
