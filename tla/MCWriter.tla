------------------------------ MODULE MCWriter ------------------------------
(***************************************************************************)
(* Model-checking instance of Writer: the section list mkextmod writes,    *)
(* shortened to one section of each role: the loaded NULL, .text,          *)
(* .rel.text (deleted by the relocation conversion, or kept), .data,       *)
(* .symtab, .strtab and .shstrtab, and the synthesized .dynsym, .dynstr    *)
(* and .rela.dyn.  The four .symtab symbols take every binding and value   *)
(* from small sets; the relocations come in either order of offset.        *)
(***************************************************************************)
EXTENDS Writer
LOCAL INSTANCE SequencesExt

Secs == <<"null", "text", "reltext", "data", "symtab", "strtab", "dynsym",
          "dynstr", "reladyn", "dynamic", "shstrtab">>

\* section names in ASCII codes, sharing suffixes as the real ones do:
\* "t" .text, "rt" .rel.text, "d" .data, "s" .symtab, "x" .strtab,
\* "ys" .dynsym, "yx" .dynstr, "ry" .rela.dyn, "y" .dynamic, "hx" .shstrtab
Name == [s \in Range(Secs) |->
           CASE s = "text" -> <<116>> [] s = "reltext" -> <<114, 116>>
             [] s = "data" -> <<100>> [] s = "symtab" -> <<115>>
             [] s = "strtab" -> <<120>> [] s = "dynsym" -> <<121, 115>>
             [] s = "dynstr" -> <<121, 120>> [] s = "reladyn" -> <<114, 121>>
             [] s = "dynamic" -> <<121>> [] s = "shstrtab" -> <<104, 120>>
             [] OTHER -> <<>>]

\* Dereference gave loaded sections link = sections[sh_link], so a loaded
\* section with sh_link 0 links to the NULL section; new sections set it
Link == [s \in Range(Secs) |->
           CASE s = "reltext" -> "symtab" [] s = "symtab" -> "strtab"
             [] s = "dynsym" -> "dynstr" [] s = "reladyn" -> "dynsym"
             [] s = "dynamic" -> "dynstr" [] s = "dynstr" -> None
             [] OTHER -> "null"]

Kind == [s \in Range(Secs) |->
           CASE s = "null" -> "null" [] s \in {"symtab", "dynsym"} -> "symtab"
             [] s \in {"reltext", "reladyn"} -> "rel"
             [] s \in {"strtab", "dynstr", "shstrtab"} -> "strtab"
             [] s = "dynamic" -> "dynamic" [] OTHER -> "data"]

\* a symbol; shndx and stName are the st_shndx and st_name it was loaded
\* with (0 for a new one)
Y(bind, value, sec, shndx, name, stName) ==
  [bind |-> bind, value |-> value, section |-> sec, shndx |-> shndx,
   name |-> name, stName |-> stName]

\* the linker's .strtab: "\0f\0b\0fw\0af\0"
LoadedStrtab == <<0, 102, 0, 98, 0, 102, 119, 0, 97, 102, 0>>

\* the linker's .shstrtab: "\0.t\0.rt\0" abstracted to "\0t\0rt\0"
LoadedShstrtab == <<0, 116, 0, 114, 116, 0>>

\* "f", "b" (buf), "fw" (an absolute firmware symbol), "af"; the null
\* symbols and the section symbol d2 have the empty name
Syms(b, v) ==
  [y \in {"y0", "y1", "y2", "y3", "y4", "d0", "d1", "d2"} |->
     CASE y \in {"y0", "d0"} -> Y("LOCAL", 0, None, 0, <<>>, 0)
       [] y = "y1" -> Y(b[1], v[1], "text", 1, <<102>>, 1)
       [] y = "y2" -> Y(b[2], v[2], "data", 3, <<98>>, 3)
       [] y = "y3" -> Y(b[3], v[3], None, 65521, <<102, 119>>, 5)
       [] y = "y4" -> Y(b[4], v[4], "text", 1, <<97, 102>>, 8)
       [] y = "d1" -> Y("GLOBAL", 32, "data", 0, <<98>>, 0)
       [] y = "d2" -> Y("LOCAL", 16, "text", 0, <<>>, 0)]

\* relocations; info is the r_info loaded (old symtab index) or set by the
\* r_type keyword of a new RelocationWithAddend (r_sym 0)
Rels(o) ==
  [x \in {"x1", "x2", "z1", "z2"} |->
     CASE x = "x1" -> [offset |-> o[1], symbol |-> "y2", info |-> 2 * 256 + 2]
       [] x = "x2" -> [offset |-> o[2], symbol |-> "y4", info |-> 4 * 256 + 10]
       [] x = "z1" -> [offset |-> o[2], symbol |-> "d1", info |-> 2]
       [] x = "z2" -> [offset |-> o[1], symbol |-> "d2", info |-> 38]]

Graph(b, v, o, del) ==
  [sections |-> Secs, deleted |-> del, kind |-> Kind, link |-> Link,
   info |-> [s \in Range(Secs) |-> IF s = "reltext" THEN "text" ELSE None],
   shLink |-> [s \in Range(Secs) |-> 0],
   shInfo |-> [s \in Range(Secs) |-> IF s = "symtab" THEN 2 ELSE 0],
   infoFlag |-> [s \in Range(Secs) |-> s = "reltext"],
   symbols |-> [s \in {"symtab", "dynsym"} |->
                  IF s = "symtab" THEN <<"y0", "y1", "y2", "y3", "y4">>
                  ELSE <<"d0", "d1", "d2">>],
   relocs |-> [s \in {"reltext", "reladyn"} |->
                 IF s = "reltext" THEN <<"x1", "x2">> ELSE <<"z1", "z2">>],
   sym |-> Syms(b, v), rel |-> Rels(o), name |-> Name,
   loaded |-> [t \in {"strtab", "dynstr", "shstrtab"} |->
                 CASE t = "strtab" -> LoadedStrtab
                   [] t = "shstrtab" -> LoadedShstrtab
                   [] OTHER -> None],
   soname |-> <<108, 98>>,   \* "lb", sharing "b" with the exported buf
   shstrtab |-> "shstrtab"]

MCGraphs ==
  {Graph(b, v, o, del) :
     b \in [1..4 -> {"LOCAL", "GLOBAL"}], v \in [1..4 -> {16, 32}],
     o \in {<<4, 8>>, <<8, 4>>}, del \in {{"reltext"}, {}}}

====
