-------------------------------- MODULE Writer --------------------------------
(***************************************************************************)
(* The last passes over the object graph and the loader's reading of what *)
(* they write: IndexNodes (elfmodel.py 447-477), the entry and header      *)
(* records of WriteData and WriteHeaders (620-685) with the packing of     *)
(* r_info (elf.py 407-442), and Dereference (758-787); between them       *)
(* RegisterStrings and BuildStrtabs (480-496), each table built by the     *)
(* steps of Strtab, and the name lookups of the writer.  Bytes other than  *)
(* string tables are left out: a written symbol is the record [id, shndx,  *)
(* name], a relocation [id, info], a section header [id, name, link,       *)
(* info, flag], where id stands for the entry's fields (value, size, ...)  *)
(* that the passes copy unchanged; name is an offset into a string table.  *)
(* A name is a sequence of ASCII codes.  The graph is a record:            *)
(*   sections : elffile.sections; deleted : those marked deleted           *)
(*   kind     : section -> "null", "data", "symtab", "rel", "strtab" or    *)
(*              "dynamic"; name : section -> its name                      *)
(*   link, info : section -> section or None (Section.link, .info)         *)
(*   shLink, shInfo, infoFlag : the loaded sh_link, sh_info and            *)
(*              SHF_INFO_LINK, kept when link / info is None               *)
(*   symbols  : symtab -> its symbols; relocs : rel section -> its entries *)
(*   sym      : symbol -> [bind, value, section, shndx, name, stName],    *)
(*              shndx and stName the loaded st_shndx and st_name, section  *)
(*              None or a section                                          *)
(*   loaded   : string table -> the bytes loaded, None for a new table     *)
(*   soname   : the DT_SONAME string; shstrtab : elffile.shstrtab          *)
(*   rel      : relocation -> [offset, type, symbol]                       *)
(***************************************************************************)
EXTENDS Integers, Sequences, FiniteSets
LOCAL INSTANCE SequencesExt

CONSTANTS Graphs, None

VARIABLES
  g,         \* the object graph
  cur,       \* position in elffile.sections
  next,      \* the section index counter
  index,     \* section -> Section.index
  symIndex,  \* symbol -> Symbol.index
  symbols,   \* symtab -> its symbols list
  relocs,    \* rel section -> its relocs list
  shInfo,    \* symtab -> sh_info set by IndexNodes
  shnum,     \* e_shnum
  wsym,      \* symtab -> the symbols written, in order
  wrel,      \* rel section -> the relocations written, in order
  wsh,       \* the section headers written, in order
  phase,     \* "index", "register", "build", "building", "data",
             \* "headers", "done" or "failed"
  treg,      \* string table -> StrtabSection.strings keys, in order
  tdata,     \* string table -> its data, None once a string is registered
  toffs,     \* string table -> StrtabSection.strings: string -> offset
  wdyn,      \* the d_val written for DT_SONAME
  shstrndx,  \* e_shstrndx
  bt,        \* the string table being built
  bstrs, bcur, bd, bdata, boffs, bphase   \* build()'s state, as in Strtab

nvars == <<treg, tdata, toffs, wdyn, shstrndx>>
bvars == <<bt, bstrs, bcur, bd, bdata, boffs, bphase>>
vars == <<g, cur, next, index, symIndex, symbols, relocs, shInfo, shnum, wsym,
          wrel, wsh, phase, nvars, bvars>>

\* one StrtabSection.build() at a time, on the build variables
S == INSTANCE Strtab WITH Alphabet <- 1..127, Inputs <- {},
       strs <- bstrs, cur <- bcur, d <- bd, data <- bdata, offs <- boffs,
       phase <- bphase

SHN_LORESERVE == 65280

\* R_SYM, R_TYPE and R_INFO (elf.py 407-417); symbol indices stay below
\* 2^24, so the 32-bit Word r_info never truncates
R_SYM(i) == i \div 256
R_TYPE(i) == i % 256
R_INFO(s, t) == s * 256 + (t % 256)

\* the r_sym setter of Rel and Rela (elf.py 432-434, 460-462)
SetRSym(info, v) == R_INFO(v, R_TYPE(info))

\* list.sort(key=...): the stable sort of xs by the function key
RECURSIVE SortBy(_, _)
SortBy(xs, key) ==
  IF xs = <<>> THEN <<>>
  ELSE LET rest == SortBy(Tail(xs), key)
           n == Len(SelectSeq(rest, LAMBDA y : key[y] < key[Head(xs)]))
       IN SubSeq(rest, 1, n) \o <<Head(xs)>> \o SubSeq(rest, n + 1, Len(rest))

\* Mutant of SymtabOrder: one sort by st_value, locals not put first.
SymtabOrderOneSort(gr, ys) ==
  SortBy(ys, [y \in DOMAIN gr.sym |-> gr.sym[y].value])

\* the partition of visit_SymtabSection: local symbols, then the others,
\* each sorted by st_value
SymtabOrder(gr, ys) ==
  LET value == [y \in DOMAIN gr.sym |-> gr.sym[y].value]
  IN SortBy(SelectSeq(ys, LAMBDA y : gr.sym[y].bind = "LOCAL"), value)
     \o SortBy(SelectSeq(ys, LAMBDA y : gr.sym[y].bind # "LOCAL"), value)

\* the string tables of the graph
Tables == {s \in Range(g.sections) : g.kind[s] = "strtab"}

\* ReadData.visit_StrtabSection: a loaded table keeps its bytes and gets
\* an empty strings dict, which only a rebuild fills
NoStrings == [x \in {} |-> 0]

Init ==
  /\ g \in Graphs
  /\ cur = 1
  /\ next = 0
  /\ index = [s \in Range(g.sections) |-> None]
  /\ symIndex = [y \in DOMAIN g.sym |-> None]
  /\ symbols = g.symbols
  /\ relocs = g.relocs
  /\ shInfo = [s \in DOMAIN g.symbols |-> 0]
  /\ shnum = 0
  /\ wsym = [s \in DOMAIN g.symbols |-> <<>>]
  /\ wrel = [s \in DOMAIN g.relocs |-> <<>>]
  /\ wsh = <<>>
  /\ phase = "index"
  /\ treg = [t \in Tables |-> <<>>]
  /\ tdata = [t \in Tables |-> g.loaded[t]]
  /\ toffs = [t \in Tables |-> NoStrings]
  /\ wdyn = None
  /\ shstrndx = None
  /\ bt = None
  /\ bstrs = <<>>
  /\ bcur = 1
  /\ bd = <<>>
  /\ bdata = <<>>
  /\ boffs = [x \in {} |-> 0]
  /\ bphase = "idle"

\* IndexNodes.visit_Section and its SymtabSection / RelSection variants on
\* the next section; the Visitor skips a deleted one
IndexSection ==
  /\ phase = "index"
  /\ cur <= Len(g.sections)
  /\ LET s == g.sections[cur]
         ys == SymtabOrder(g, symbols[s])
     IN IF s \in g.deleted
        THEN UNCHANGED <<next, index, symIndex, symbols, relocs, shInfo>>
        ELSE /\ index' = [index EXCEPT ![s] = next]
             /\ next' = next + 1
             /\ IF g.kind[s] = "symtab"
                THEN /\ symbols' = [symbols EXCEPT ![s] = ys]
                     /\ shInfo' = [shInfo EXCEPT ![s] =
                          Len(SelectSeq(ys, LAMBDA y : g.sym[y].bind = "LOCAL"))]
                     /\ symIndex' = [y \in DOMAIN symIndex |->
                          IF y \in Range(ys)
                          THEN CHOOSE i \in 0..Len(ys) - 1 : ys[i + 1] = y
                          ELSE symIndex[y]]
                     /\ UNCHANGED relocs
                ELSE /\ relocs' = IF g.kind[s] = "rel"
                                  THEN [relocs EXCEPT ![s] =
                                          SortBy(@, [x \in DOMAIN g.rel |-> g.rel[x].offset])]
                                  ELSE relocs
                     /\ UNCHANGED <<symbols, shInfo, symIndex>>
  /\ cur' = cur + 1
  /\ UNCHANGED <<g, shnum, wsym, wrel, wsh, phase, nvars, bvars>>

\* IndexNodes.visit_Elf after the sections: e_shnum = next(index)
EndIndex ==
  /\ phase = "index"
  /\ cur > Len(g.sections)
  /\ shnum' = next
  /\ phase' = "register"
  /\ cur' = 1
  /\ UNCHANGED <<g, next, index, symIndex, symbols, relocs, shInfo, wsym,
                 wrel, wsh, nvars, bvars>>

\* StrtabSection.register over the strings xs: each non-empty one is added
\* once, an OrderedDict keeping the first position
Registered(keys, xs) ==
  FoldLeft(LAMBDA acc, x : IF x = <<>> \/ x \in Range(acc) THEN acc
                           ELSE Append(acc, x), keys, xs)

\* Mutant of Dropped: register leaves the loaded data in place.
DroppedNever(dt, xs) == dt

\* register sets self.data = None once a non-empty string is registered
Dropped(dt, xs) == IF \E i \in DOMAIN xs : xs[i] # <<>> THEN None ELSE dt

\* the names a section's entries register in, or the writer looks up in,
\* the section's link: symbol names, or the DT_SONAME string
EntryNames(s) ==
  CASE g.kind[s] = "symtab" ->
         [i \in DOMAIN symbols[s] |-> g.sym[symbols[s][i]].name]
    [] g.kind[s] = "dynamic" -> <<g.soname>>
    [] OTHER -> <<>>

\* RegisterStrings on the next section: its name in elffile.shstrtab, then
\* (visit_EntrySection) its entries' names in its link; a deleted section
\* is skipped
RegisterSection ==
  /\ phase = "register"
  /\ cur <= Len(g.sections)
  /\ LET s == g.sections[cur]
         h == g.shstrtab
         r1 == [treg EXCEPT ![h] = Registered(@, <<g.name[s]>>)]
         d1 == [tdata EXCEPT ![h] = Dropped(@, <<g.name[s]>>)]
         es == EntryNames(s)
     IN IF s \in g.deleted THEN UNCHANGED <<treg, tdata>>
        ELSE IF es = <<>> THEN treg' = r1 /\ tdata' = d1
        ELSE /\ treg' = [r1 EXCEPT ![g.link[s]] = Registered(@, es)]
             /\ tdata' = [d1 EXCEPT ![g.link[s]] = Dropped(@, es)]
  /\ cur' = cur + 1
  /\ UNCHANGED <<g, next, index, symIndex, symbols, relocs, shInfo, shnum,
                 wsym, wrel, wsh, phase, toffs, wdyn, shstrndx, bvars>>

RegisterDone ==
  /\ phase = "register"
  /\ cur > Len(g.sections)
  /\ phase' = "build"
  /\ cur' = 1
  /\ UNCHANGED <<g, next, index, symIndex, symbols, relocs, shInfo, shnum,
                 wsym, wrel, wsh, nvars, bvars>>

\* BuildStrtabs.visit_StrtabSection: a table whose data is None is built,
\* starting build() on the strings registered
BuildTable ==
  /\ phase = "build"
  /\ cur <= Len(g.sections)
  /\ LET s == g.sections[cur]
     IN /\ s \notin g.deleted /\ s \in Tables /\ tdata[s] = None
        /\ bt' = s
        /\ bstrs' = treg[s]
  /\ bcur' = 1
  /\ bd' = <<>>
  /\ bdata' = <<>>
  /\ boffs' = [x \in {} |-> 0]
  /\ bphase' = "insert"
  /\ phase' = "building"
  /\ UNCHANGED <<g, cur, next, index, symIndex, symbols, relocs, shInfo,
                 shnum, wsym, wrel, wsh, nvars>>

\* any other section, or a table that kept its data, is passed over
SkipTable ==
  /\ phase = "build"
  /\ cur <= Len(g.sections)
  /\ LET s == g.sections[cur]
     IN ~(s \notin g.deleted /\ s \in Tables /\ tdata[s] = None)
  /\ cur' = cur + 1
  /\ UNCHANGED <<g, next, index, symIndex, symbols, relocs, shInfo, shnum,
                 wsym, wrel, wsh, phase, nvars, bvars>>

\* one step of build()
BuildStep ==
  /\ phase = "building"
  /\ S!Next
  /\ UNCHANGED <<g, cur, next, index, symIndex, symbols, relocs, shInfo,
                 shnum, wsym, wrel, wsh, phase, nvars, bt>>

\* build() returned: data and strings are the table's; its closing assert
\* failing aborts the tool
EndBuild ==
  /\ phase = "building"
  /\ bphase \in {"done", "failed"}
  /\ IF bphase = "done"
     THEN /\ tdata' = [tdata EXCEPT ![bt] = bdata]
          /\ toffs' = [toffs EXCEPT ![bt] = boffs]
          /\ phase' = "build"
          /\ cur' = cur + 1
     ELSE /\ phase' = "failed"
          /\ UNCHANGED <<tdata, toffs, cur>>
  /\ UNCHANGED <<g, next, index, symIndex, symbols, relocs, shInfo, shnum,
                 wsym, wrel, wsh, treg, wdyn, shstrndx, bvars>>

BuildDone ==
  /\ phase = "build"
  /\ cur > Len(g.sections)
  /\ phase' = "data"
  /\ cur' = 1
  /\ UNCHANGED <<g, next, index, symIndex, symbols, relocs, shInfo, shnum,
                 wsym, wrel, wsh, nvars, bvars>>

\* StrtabSection.strings[x] fails with KeyError for a string of xs
Missing(t, xs) == \E i \in DOMAIN xs : xs[i] # <<>> /\ xs[i] \notin DOMAIN toffs[t]

\* Mutant of WrittenSym: st_shndx is written as loaded, not renumbered.
WrittenSymLoaded(t, y) ==
  [id |-> y, shndx |-> g.sym[y].shndx,
   name |-> IF g.sym[y].name # <<>> THEN toffs[t][g.sym[y].name]
            ELSE g.sym[y].stName]

\* WriteData.visit_Symbol of a symbol of the symtab linked to string table
\* t: st_name = symtab.link.strings[name] for a non-empty name (the loaded
\* st_name otherwise); st_shndx = sym.section.index for a symbol with a
\* section (the loaded st_shndx otherwise)
WrittenSym(t, y) ==
  [id |-> y,
   shndx |-> IF g.sym[y].section # None THEN index[g.sym[y].section]
             ELSE g.sym[y].shndx,
   name |-> IF g.sym[y].name # <<>> THEN toffs[t][g.sym[y].name]
            ELSE g.sym[y].stName]

\* WriteData.visit_Relocation(WithAddend): r_sym = rel.symbol.index, through
\* the r_sym setter, which keeps R_TYPE of the loaded r_info
WrittenRel(x) ==
  [id |-> x, info |-> SetRSym(g.rel[x].info, symIndex[g.rel[x].symbol])]

\* WriteData on the next live section (data bytes are not modelled); a
\* name missing from the link's strings raises KeyError
WriteSection ==
  /\ phase = "data"
  /\ cur <= Len(g.sections)
  /\ LET s == g.sections[cur]
         live == s \notin g.deleted
     IN IF live /\ EntryNames(s) # <<>> /\ Missing(g.link[s], EntryNames(s))
        THEN /\ phase' = "failed"
             /\ UNCHANGED <<cur, wsym, wrel, wdyn>>
        ELSE /\ wsym' = IF live /\ g.kind[s] = "symtab"
                        THEN [wsym EXCEPT ![s] = [i \in DOMAIN symbols[s] |->
                                WrittenSym(g.link[s], symbols[s][i])]]
                        ELSE wsym
             /\ wrel' = IF live /\ g.kind[s] = "rel"
                        THEN [wrel EXCEPT ![s] = [i \in DOMAIN relocs[s] |->
                                                    WrittenRel(relocs[s][i])]]
                        ELSE wrel
             \* visit_DynEntry: d_val = dynamic.link.strings[value]
             /\ wdyn' = IF live /\ g.kind[s] = "dynamic"
                        THEN toffs[g.link[s]][g.soname] ELSE wdyn
             /\ cur' = cur + 1
             /\ UNCHANGED phase
  /\ UNCHANGED <<g, next, index, symIndex, symbols, relocs, shInfo, shnum,
                 wsh, treg, tdata, toffs, shstrndx, bvars>>

\* WriteData is done; WriteHeaders.visit_Elf sets e_shstrndx first
DataDone ==
  /\ phase = "data"
  /\ cur > Len(g.sections)
  /\ shstrndx' = index[g.shstrtab]
  /\ phase' = "headers"
  /\ cur' = 1
  /\ UNCHANGED <<g, next, index, symIndex, symbols, relocs, shInfo, shnum,
                 wsym, wrel, wsh, treg, tdata, toffs, wdyn, bvars>>

\* WriteHeaders.visit_Section: sh_name from elffile.shstrtab.strings;
\* sh_link and sh_info from the indices of link and info, SHF_INFO_LINK
\* set with an info; a symtab's sh_info is the one IndexNodes set
WrittenHeader(s) ==
  [id |-> s,
   name |-> toffs[g.shstrtab][g.name[s]],
   link |-> IF g.link[s] # None THEN index[g.link[s]] ELSE g.shLink[s],
   info |-> CASE g.info[s] # None -> index[g.info[s]]
              [] g.kind[s] = "symtab" -> shInfo[s]
              [] OTHER -> g.shInfo[s],
   flag |-> g.infoFlag[s] \/ g.info[s] # None]

\* WriteHeaders on the next live section
WriteHeader ==
  /\ phase = "headers"
  /\ cur <= Len(g.sections)
  /\ LET s == g.sections[cur]
     IN CASE s \in g.deleted -> wsh' = wsh /\ phase' = phase
          [] g.name[s] \notin DOMAIN toffs[g.shstrtab] ->
               wsh' = wsh /\ phase' = "failed"
          [] OTHER -> wsh' = Append(wsh, WrittenHeader(s)) /\ phase' = phase
  /\ cur' = IF phase' = "failed" THEN cur ELSE cur + 1
  /\ UNCHANGED <<g, next, index, symIndex, symbols, relocs, shInfo, shnum,
                 wsym, wrel, nvars, bvars>>

HeadersDone ==
  /\ phase = "headers"
  /\ cur > Len(g.sections)
  /\ phase' = "done"
  /\ UNCHANGED <<g, cur, next, index, symIndex, symbols, relocs, shInfo,
                 shnum, wsym, wrel, wsh, nvars, bvars>>

Next ==
  \/ IndexSection \/ EndIndex
  \/ RegisterSection \/ RegisterDone
  \/ BuildTable \/ SkipTable \/ BuildStep \/ EndBuild \/ BuildDone
  \/ WriteSection \/ DataDone
  \/ WriteHeader \/ HeadersDone

Spec == Init /\ [][Next]_vars

-----------------------------------------------------------------------------
(* Properties *)

\* the sections the passes visit: elffile.sections without deleted ones
Live == SelectSeq(g.sections, LAMBDA s : s \notin g.deleted)

\* Dereference's elffile.sections[i] on the written headers, None past them
Sec(i) == IF i + 1 \in DOMAIN wsh THEN wsh[i + 1].id ELSE None

\* Dereference.visit_Symbol: the section of a written symbol
SymSection(w) == IF 0 < w.shndx /\ w.shndx < SHN_LORESERVE THEN Sec(w.shndx) ELSE None

\* Dereference.visit_Relocation: reltab.link.symbols[r_sym] on the written
\* relocation w of the section whose header is h
RelSymbol(h, w) ==
  LET t == Sec(h.link)
  IN IF t \in DOMAIN wsym /\ R_SYM(w.info) + 1 \in DOMAIN wsym[t]
     THEN wsym[t][R_SYM(w.info) + 1].id ELSE None

\* Round trip: the loader, reading back the written headers and entries,
\* finds every live section in list order, e_shnum of them, with the same
\* link and info, every symbol in the same section (or none), every
\* relocation against the same symbol with the same type, and no entry
\* lost; the index, the st_shndx and the r_sym written must all agree on
\* the order after deleted sections are skipped and symtabs re-sorted.
RoundTrip ==
  phase = "done" =>
    /\ Len(wsh) = shnum
    /\ \A k \in DOMAIN wsh :
         LET h == wsh[k]
             s == h.id
         IN /\ k <= Len(Live) /\ s = Live[k]
            /\ g.link[s] # None => Sec(h.link) = g.link[s]
            /\ g.info[s] # None => h.flag /\ Sec(h.info) = g.info[s]
            /\ g.kind[s] = "symtab" =>
                 /\ Len(wsym[s]) = Len(g.symbols[s])
                 /\ {w.id : w \in Range(wsym[s])} = Range(g.symbols[s])
                 /\ \A w \in Range(wsym[s]) : SymSection(w) = g.sym[w.id].section
            /\ g.kind[s] = "rel" =>
                 /\ Len(wrel[s]) = Len(g.relocs[s])
                 /\ {w.id : w \in Range(wrel[s])} = Range(g.relocs[s])
                 /\ \A w \in Range(wrel[s]) :
                      /\ RelSymbol(h, w) = g.rel[w.id].symbol
                      /\ R_TYPE(w.info) = R_TYPE(g.rel[w.id].info)

\* The order the ELF gABI requires of a written symbol table, as IndexNodes
\* promises it: the null symbol first, all STB_LOCAL symbols before the
\* others with sh_info their count, each group by st_value, and symbols of
\* equal group and value in their original order (the sort is stable).
SymtabSorted ==
  phase = "done" =>
    \A k \in DOMAIN wsh :
      LET s == wsh[k].id
          ids == [i \in DOMAIN wsym[s] |-> wsym[s][i].id]
          loc(y) == g.sym[y].bind = "LOCAL"
          pos(y) == CHOOSE i \in DOMAIN g.symbols[s] : g.symbols[s][i] = y
      IN g.kind[s] = "symtab" =>
           /\ ids[1] = g.symbols[s][1]
           /\ wsh[k].info = Len(SelectSeq(g.symbols[s], loc))
           /\ \A i \in DOMAIN ids : loc(ids[i]) <=> i <= wsh[k].info
           /\ \A i, j \in DOMAIN ids :
                (i < j /\ loc(ids[i]) = loc(ids[j])) =>
                  \/ g.sym[ids[i]].value < g.sym[ids[j]].value
                  \/ g.sym[ids[i]].value = g.sym[ids[j]].value
                     /\ pos(ids[i]) < pos(ids[j])

\* Names round trip, the composition of RegisterStrings, BuildStrtabs and
\* the writer's lookups: the tool never fails on a missing string, and the
\* loader's Dereference, looking each written sh_name up in the table at
\* e_shstrndx, each st_name in the table the symtab's sh_link names, and
\* DT_SONAME in .dynamic's linked table, reads back the name of every
\* section, every symbol (an empty name through the st_name it was loaded
\* with) and the soname.
NamesRoundTrip ==
  /\ phase # "failed"
  /\ phase = "done" =>
       LET names(h) == tdata[Sec(h.link)]
       IN /\ \A k \in DOMAIN wsh :
               S!Lookup(tdata[Sec(shstrndx)], wsh[k].name) = g.name[wsh[k].id]
          /\ \A k \in DOMAIN wsh :
               LET s == wsh[k].id
               IN /\ g.kind[s] = "symtab" =>
                       \A w \in Range(wsym[s]) :
                         S!Lookup(names(wsh[k]), w.name) = g.sym[w.id].name
                  /\ g.kind[s] = "dynamic" =>
                       S!Lookup(names(wsh[k]), wdyn) = g.soname

====
