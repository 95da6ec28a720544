------------------------------ MODULE MCRelocs ------------------------------
(***************************************************************************)
(* Model-checking instance of Relocs: a module linked at 0x10000000 (flash *)
(* bank 1) with data at 0x20000000 (RAM bank 2), calling a firmware        *)
(* function given as an absolute symbol and a RAM function through a      *)
(* veneer.  Its .rel.text holds any subset of seven relocations, one of    *)
(* each kind the conversion tells apart; .rel.ARM.exidx one PREL31 word,   *)
(* .rel.debug_info one ABS32 of a non-ALLOC section.  The words at the     *)
(* relocation sites are what a linker writes (LinkThumb below).            *)
(***************************************************************************)
EXTENDS Relocs, TLC

T0 == 268435456   \* 0x10000000
D0 == 536870912   \* 0x20000000

\* a symtab entry
Sym(b, v, sz, bind, vis, shndx) ==
  [name |-> <<b, 0>>, value |-> v, size |-> sz, bind |-> bind, vis |-> vis,
   shndx |-> shndx]

\* the symtab; initVis is the visibility of __dl_init, vsize the veneer's size
Symtab(initVis, vsize) ==
  [i \in 0..9 |->
     CASE i = 0 -> Sym("", 0, 0, "LOCAL", "DEFAULT", "UNDEF")
       [] i = 1 -> Sym(".data", D0, 0, "LOCAL", "DEFAULT", "data")
       [] i = 2 -> Sym("f", T0 + 513, 8, "LOCAL", "DEFAULT", "text")
       [] i = 3 -> Sym("buf", D0 + 16, 16, "GLOBAL", "DEFAULT", "data")
       [] i = 4 -> Sym("fw", T0 + 4097, 0, "GLOBAL", "DEFAULT", "ABS")
       [] i = 5 -> Sym("ramfn", D0 + 257, 32, "GLOBAL", "DEFAULT", "data")
       [] i = 6 -> [Sym("ramfn", T0 + 321, vsize, "LOCAL", "DEFAULT", "text")
                      EXCEPT !.name = <<"ramfn", 1>>]
       [] i = 7 -> Sym("weakfn", 0, 0, "WEAK", "DEFAULT", "UNDEF")
       [] i = 8 -> Sym("__dl_init", T0 + 1, 4, "GLOBAL", initVis, "text")
       [] i = 9 -> Sym("hid", T0 + 385, 4, "GLOBAL", "HIDDEN", "text")]

\* the BL (jump FALSE) or B.W (jump TRUE) a linker writes for branch offset
\* imm, J1/J2 included
LinkThumb(imm, jump) ==
  LET u == (imm \div 2) % 16777216
      sb == u \div 8388608
      j1 == IF (u \div 4194304) % 2 = sb THEN 1 ELSE 0
      j2 == IF (u \div 2097152) % 2 = sb THEN 1 ELSE 0
  IN <<61440 + sb * 1024 + ((u \div 2048) % 1024),
       (IF jump THEN 36864 ELSE 53248) + j1 * 8192 + j2 * 2048 + (u % 2048)>>

\* a Thumb call at p to the function at value s: target = p + 4 + imm
Call(p, s, jump) == LinkThumb(ClearBit0(s) - p - 4, jump)

\* the .rel.text pool: [offset, type, sym, word]
Pool ==
  <<[offset |-> T0 + 256, type |-> ABS32, sym |-> 3, word |-> D0 + 20],
    [offset |-> T0 + 260, type |-> TARGET1, sym |-> 1, word |-> D0 + 8],
    [offset |-> T0 + 264, type |-> THM_PC22, sym |-> 2,
     word |-> Call(T0 + 264, T0 + 513, FALSE)],
    [offset |-> T0 + 268, type |-> THM_JUMP24, sym |-> 4,
     word |-> Call(T0 + 268, T0 + 4097, TRUE)],
    [offset |-> T0 + 272, type |-> THM_PC22, sym |-> 5,
     word |-> Call(T0 + 272, T0 + 321, FALSE)],
    [offset |-> T0 + 276, type |-> ABS32, sym |-> 7, word |-> 0],
    [offset |-> T0 + 280, type |-> ABS32, sym |-> 4, word |-> T0 + 4097]>>

\* the PREL31 word of an .ARM.exidx entry at p for the function at s
Prel31Word(p, s) ==
  IF s - p < 0 THEN (s - p + 1073741824) + 1073741824 ELSE s - p

Exidx == [offset |-> T0 + 768, type |-> PREL31, sym |-> 2,
          word |-> Prel31Word(T0 + 768, T0 + 513)]

\* the relocations without their words
Rels(rs) == [i \in DOMAIN rs |-> [offset |-> rs[i].offset, type |-> rs[i].type,
                                  sym |-> rs[i].sym]]

\* the file for the .rel.text relocations `text`, extra .rel.ARM.exidx
\* relocations `ex`, the CPU's veneer offset, the symtab `st` and whether
\* --entry was given
FileOf(text, ex, off, st, given) ==
  LET all == text \o <<Exidx>> \o ex
  IN [syms |-> st,
      rels |-> <<[info |-> "text", relocs |-> Rels(text)],
                 [info |-> "exidx", relocs |-> Rels(<<Exidx>> \o ex)],
                 [info |-> "dinfo",
                  relocs |-> <<[offset |-> 0, type |-> ABS32, sym |-> 2]>>]>>,
      alloc |-> [s \in {"text", "data", "exidx", "dinfo"} |-> s # "dinfo"],
      mem |-> [a \in {all[i].offset : i \in DOMAIN all} \cup {T0 + 320 + off} |->
                 IF a = T0 + 320 + off THEN D0 + 257
                 ELSE all[CHOOSE i \in DOMAIN all : all[i].offset = a].word],
      veneerOffset |-> off,
      entriesGiven |-> given,
      dynEntries |-> <<[tag |-> "0x70000001", name |-> <<"buf", 0>>],
                       [tag |-> "0x70000002", name |-> <<"hid", 0>>]>>]

File(text, ex, off, st) == FileOf(text, ex, off, st, TRUE)

\* the .rel.text of a selection of the pool, in pool order
Select(sel) == SelectSeq(Pool, LAMBDA x : \E i \in sel : Pool[i] = x)

\* an absolute firmware function at value v, symtab index 10
WithFw(st, v) == st @@ (10 :> Sym("fwfar", v, 0, "GLOBAL", "DEFAULT", "ABS"))

\* a call at p to symbol 10 at value v
FarCall(p, v) == [offset |-> p, type |-> THM_PC22, sym |-> 10, word |-> Call(p, v, FALSE)]

\* the files the tool rejects: an R_ARM_REL32 (type 3); a veneer too short
\* for the 6S-M literal offset; a crossing call whose veneer is missing; a
\* veneer literal naming no symbol; a call 5 MiB ahead to the firmware
Broken ==
  LET st == Symtab("DEFAULT", 16)
      noVeneer == [st EXCEPT ![6].name = <<"ramfn_tramp", 0>>]
      badLit == File(Select(1..7), <<>>, 4, st)
  IN {File(Select({1}) \o <<[offset |-> T0 + 284, type |-> 3, sym |-> 3, word |-> 0]>>,
           <<>>, 4, st),
      File(Select({1, 3}), <<>>, 12, Symtab("DEFAULT", 8)),
      File(Select({4, 5}), <<>>, 4, noVeneer),
      [badLit EXCEPT !.mem[T0 + 324] = D0 + 999],
      File(Select({4}) \o <<FarCall(T0 + 284, T0 + 5242881)>>, <<>>, 4,
           WithFw(st, T0 + 5242881))}

MCInputs ==
  {File(Select(sel), <<>>, off, Symtab(vis, 16)) :
     sel \in SUBSET (1..7), off \in {4, 12}, vis \in {"DEFAULT", "HIDDEN"}}
  \cup Broken

\* a module placed 8 MiB into flash calling a firmware function at
\* 0x10200001, 6 MiB behind the call, in the same bank
MCInputsFar ==
  {File(<<FarCall(T0 + 8388864, T0 + 2097153)>>, <<>>, 4,
        WithFw(Symtab("DEFAULT", 16), T0 + 2097153))}

\* an .ARM.exidx entry for ramfn, a function the linker placed in RAM
MCInputsExidx ==
  {File(Select({1}), <<[offset |-> T0 + 776, type |-> PREL31, sym |-> 5,
                        word |-> Prel31Word(T0 + 776, D0 + 257)]>>,
        4, Symtab("DEFAULT", 16))}

\* a clean file, built without any --entry option
MCInputsNoEntry ==
  {FileOf(Select({1, 4}), <<>>, 4, Symtab("DEFAULT", 16), FALSE)}

====
