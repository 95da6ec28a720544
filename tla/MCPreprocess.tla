----------------------------- MODULE MCPreprocess -----------------------------
(***************************************************************************)
(* Model-checking instance of Preprocess: a linked image with code, data,  *)
(* an .uninitialized_data section the linker left unallocated, two debug   *)
(* sections with a relocation section for one, and the symbol tables,     *)
(* but no .ARM.attributes section.                                         *)
(***************************************************************************)
EXTENDS Preprocess

Secs == {"text", "data", "udata", "dinfo", "reldinfo", "dline", "attrs",
         "symtab", "strtab"}

\* f with the given sections mapped to v, every other section to NoNode
Refs(f) == [s \in Secs |-> IF s \in DOMAIN f THEN f[s] ELSE NoNode]

\* the object graph; withAttrs says whether .ARM.attributes is in the list
Image(withAttrs) ==
  [sections |-> <<"text", "data", "udata", "dinfo", "reldinfo", "dline">>
                \o (IF withAttrs THEN <<"attrs">> ELSE <<>>)
                \o <<"symtab", "strtab">>,
   segments |-> <<"load">>,
   link |-> Refs([reldinfo |-> "symtab", symtab |-> "strtab"]),
   info |-> Refs([reldinfo |-> "dinfo"]),
   entries |-> [s \in Secs |->
                  CASE s = "symtab" -> <<"ynull", "ytext", "yinfo">>
                    [] s = "reldinfo" -> <<"r1">>
                    [] OTHER -> <<>>],
   ref |-> [e \in {"ynull", "ytext", "yinfo", "r1"} |->
              CASE e = "ytext" -> "text" [] e = "yinfo" -> "dinfo"
                [] e = "r1" -> "ytext" [] OTHER -> NoNode],
   members |-> [p \in {"load"} |-> <<"text", "data">>]]

Class ==
  [s \in Secs |->
     CASE s \in {"dinfo", "dline"} -> "debug" [] s = "data" -> "data"
       [] s = "udata" -> "uninit" [] s = "attrs" -> "attrs"
       [] OTHER -> "other"]

Flags ==
  [s \in Secs |->
     CASE s = "text" -> {"ALLOC", "EXEC"} [] s = "data" -> {"ALLOC"}
       [] OTHER -> {}]

MCCpuConfig == [c \in {"6S-M", "8-M.MAIN"} |-> IF c = "6S-M" THEN 12 ELSE 4]

\* no .ARM.attributes section at all
MCInputsNoAttrs ==
  {[graph |-> Image(FALSE), class |-> Class, flags |-> Flags,
    tag |-> [s \in {"attrs"} |-> NoTag]]}
=============================================================================
