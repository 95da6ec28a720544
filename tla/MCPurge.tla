------------------------------- MODULE MCPurge -------------------------------
(***************************************************************************)
(* Model-checking instance of Purge, on two object graphs of the shape a   *)
(* linked ARM image loads as, in GNU ld's section order (relocation        *)
(* sections before .symtab, so a symbol deleted while .symtab is visited   *)
(* is referred to by relocations visited earlier in the same round).       *)
(***************************************************************************)
EXTENDS Purge

\* f with the given sections mapped to v, every other section to NoNode
Refs(secs, f) == [s \in secs |-> IF s \in DOMAIN f THEN f[s] ELSE NoNode]

\* --strip: .debug_info and .debug_abbrev go; .rel.debug_info follows
\* through info, the debug section symbols through their section, and the
\* debug relocations with their section.  PT_GNU_STACK has no sections.
StripSecs == {"text", "dinfo", "dabbrev", "reltext", "reldinfo", "symtab",
              "strtab"}
Strip ==
  [sections |-> <<"text", "reltext", "dinfo", "reldinfo", "dabbrev",
                  "symtab", "strtab">>,
   segments |-> <<"load", "stack">>,
   link |-> Refs(StripSecs, [reltext |-> "symtab", reldinfo |-> "symtab",
                             symtab |-> "strtab"]),
   info |-> Refs(StripSecs, [reltext |-> "text", reldinfo |-> "dinfo"]),
   entries |-> [s \in StripSecs |->
                  CASE s = "symtab" -> <<"ynull", "ytext", "yinfo", "yabbrev">>
                    [] s = "reltext" -> <<"r1">>
                    [] s = "reldinfo" -> <<"r2", "r3">>
                    [] OTHER -> <<>>],
   ref |-> [e \in {"ynull", "ytext", "yinfo", "yabbrev", "r1", "r2", "r3"} |->
              CASE e = "ytext" -> "text" [] e = "yinfo" -> "dinfo"
                [] e = "yabbrev" -> "dabbrev" [] e = "r1" -> "ytext"
                [] e = "r2" -> "yabbrev" [] e = "r3" -> "ytext"
                [] OTHER -> NoNode],
   members |-> [p \in {"load", "stack"} |->
                  IF p = "load" THEN <<"text">> ELSE <<>>]]

\* code with an unwind table: .ARM.exidx links to .text, each has its
\* relocation section, and two program headers cover .ARM.exidx.  Any one
\* section may be the one deleted before the purge.
ExidxSecs == {"text", "reltext", "exidx", "relexidx", "symtab", "strtab"}
Exidx ==
  [sections |-> <<"text", "reltext", "exidx", "relexidx", "symtab",
                  "strtab">>,
   segments |-> <<"load", "exidxseg">>,
   link |-> Refs(ExidxSecs, [reltext |-> "symtab", exidx |-> "text",
                             relexidx |-> "symtab", symtab |-> "strtab"]),
   info |-> Refs(ExidxSecs, [reltext |-> "text", relexidx |-> "exidx"]),
   entries |-> [s \in ExidxSecs |->
                  CASE s = "symtab" -> <<"ynull", "ytext", "yexidx">>
                    [] s = "reltext" -> <<"r1">>
                    [] s = "relexidx" -> <<"r2">>
                    [] OTHER -> <<>>],
   ref |-> [e \in {"ynull", "ytext", "yexidx", "r1", "r2"} |->
              CASE e = "ytext" -> "text" [] e = "yexidx" -> "exidx"
                [] e = "r1" -> "yexidx" [] e = "r2" -> "ytext"
                [] OTHER -> NoNode],
   members |-> [p \in {"load", "exidxseg"} |->
                  IF p = "load" THEN <<"text", "exidx">> ELSE <<"exidx">>]]

MCGraphs ==
  { [graph |-> Strip,
     starts |-> {{}, Deleting(Strip, {"dinfo", "dabbrev"})}],
    [graph |-> Exidx,
     starts |-> {Deleting(Exidx, {s}) : s \in ExidxSecs}] }
=============================================================================
