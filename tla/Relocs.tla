-------------------------------- MODULE Relocs --------------------------------
(***************************************************************************)
(* mkextmod.py 77-285: the symbol promotion and veneer loop, the           *)
(* conversion of the linked SHT_REL relocations into .rela.dyn entries     *)
(* (decode_addend, undo_relocation) and the .dynamic/.hash contents built  *)
(* from the result.  The input is one symbol table and its REL sections:   *)
(*   syms    : 0..N-1 -> [name, value, size, bind, vis, shndx], the        *)
(*             symtab in list order, 0 the null symbol.  shndx is "UNDEF", *)
(*             "ABS" or the name of the section the symbol is defined in;  *)
(*             a name is <<base, depth>>, depth d > 0 standing for the     *)
(*             name "__" ... "_veneer" wrapped d times around base;        *)
(*   rels    : the SHT_REL sections in list order, [info, relocs], each    *)
(*             relocation [offset, type, sym] with type its R_ARM number;  *)
(*   alloc   : section name -> its SHF_ALLOC flag;                         *)
(*   mem     : address -> the word the linker left there: an Int for a     *)
(*             data word, <<first, second>> halfwords for a Thumb branch;  *)
(*   veneerOffset : cpu_config["veneer_symbol_offset"];                    *)
(*   dynEntries   : args.dyn_entries, a sequence of [tag, name];          *)
(*   entriesGiven : args.dyn_entries is not None: --entry was passed at    *)
(*                  least once (action="append" has no default).          *)
(* A dynamic symbol is identified with the index of the symbol mk_dyn      *)
(* copied it from (-1 for the leading null symbol of .dynsym).             *)
(***************************************************************************)
EXTENDS Integers, Sequences, FiniteSets
LOCAL INSTANCE FiniteSetsExt
LOCAL INSTANCE SequencesExt

CONSTANTS Inputs

VARIABLES
  in,       \* the input file
  phase,    \* "promote", "rel", "relocs", "dynamic", "done" or "failed"
  k,        \* position in the symtab (promotion loop)
  r,        \* position in the SHT_REL sections
  q,        \* position in the current section's relocs
  dynsym,   \* .dynsym.symbols
  dynrela,  \* .rela.dyn relocs: [sym, offset, type, addend]
  relDel,   \* the REL sections deleted so far
  dyns,     \* .dynamic dyns: [tag, val]
  nchain,   \* the second word of .hash
  error     \* the exception that stopped the tool

vars == <<in, phase, k, r, q, dynsym, dynrela, relDel, dyns, nchain, error>>

ABS32 == 2
THM_PC22 == 10
THM_JUMP24 == 30
TARGET1 == 38
PREL31 == 42
Supported == {ABS32, TARGET1, THM_PC22, THM_JUMP24, PREL31}
ThumbCall == {THM_PC22, THM_JUMP24}

\* the bank of an address: `>> 28`
Bank(a) == a \div 268435456

\* `x & 0xFFFFFFFE`, `S &= -2`
ClearBit0(a) == a - (a % 2)

AbsVal(x) == IF x < 0 THEN -x ELSE x

\* Symbol.section is set: 0 < st_shndx < SHN_LORESERVE (elfmodel Dereference)
HasSection(s) == s.shndx \notin {"UNDEF", "ABS"}

\* sym.name.startswith("__") and sym.name.endswith("_veneer"), its
\* sym.name[2:-7], and f"__{name}_veneer"
IsVeneer(n) == n[2] > 0
RealName(n) == <<n[1], n[2] - 1>>
VeneerName(n) == <<n[1], n[2] + 1>>

Syms(f) == DOMAIN f.syms

\* the 4 bytes at an address, as the relocation type reads them; bytes at
\* an address the input does not model read as zero
Word(f, a, t) ==
  IF a \in DOMAIN f.mem THEN f.mem[a]
  ELSE IF t \in ThumbCall THEN <<0, 0>> ELSE 0

\* mk_dyn: one copy per symbol, memoised in sym.dyn
MkDyn(ds, x) == IF x \in Range(ds) THEN ds ELSE Append(ds, x)

\* decode_addend (lines 132-155); words are below 2^31, so PREL31's
\* `& 0x7FFFFFFF` keeps the word whole
DecodeAddend(t, insn) ==
  CASE t \in {ABS32, TARGET1} -> insn
    [] t = PREL31 ->
         IF insn >= 1073741824 THEN (insn - 1073741824) - 1073741824 ELSE insn
    [] t \in ThumbCall ->
         LET v == (insn[1] % 2048) * 2048 + (insn[2] % 2048)
         IN 2 * (IF v >= 2097152 THEN v - 4194304 ELSE v)

\* Mutant of UndoRelocation: the Thumb bit of S is not cleared.
UndoNoClear(t, S, P, A) ==
  CASE t \in {ABS32, TARGET1} -> A - S
    [] t \in ThumbCall \cup {PREL31} -> A - (S - P)

\* undo_relocation (lines 158-169)
UndoRelocation(t, S, P, A) ==
  CASE t \in {ABS32, TARGET1} -> A - S
    [] t \in ThumbCall \cup {PREL31} -> A - (ClearBit0(S) - P)

Init ==
  /\ in \in Inputs
  /\ phase = "promote"
  /\ k = 0
  /\ r = 1
  /\ q = 1
  /\ dynsym = <<-1>>
  /\ dynrela = <<>>
  /\ relDel = {}
  /\ dyns = <<>>
  /\ nchain = 0
  /\ error = "none"

\* Mutant of Fail: the exception is swallowed and the loop goes on.
FailContinues(e) == error' = e /\ UNCHANGED <<phase, dynsym, dynrela>>

\* an exception: the tool stops
Fail(e) ==
  /\ phase' = "failed"
  /\ error' = e
  /\ UNCHANGED <<dynsym, dynrela>>

\* Mutant of Promoted: the visibility is not tested.
PromotedAnyVis(s) == s.bind # "LOCAL"

\* Mutant of Literal: the Thumb bit of the veneer's address is kept.
LiteralNoClear(s, off) == s.value + off

\* the address of a veneer's literal (line 105)
Literal(s, off) == ClearBit0(s.value) + off

\* promotes sym when it is non-local and of default visibility (line 97)
Promoted(s) == s.bind # "LOCAL" /\ s.vis = "DEFAULT"

\* lines 93-129, on one symbol of the symtab
Promote ==
  /\ phase = "promote"
  /\ k \in Syms(in)
  /\ LET s == in.syms[k]
         ds == IF Promoted(s) THEN MkDyn(dynsym, k) ELSE dynsym
         off == in.veneerOffset
         lit == Literal(s, off)
         reals == {x \in Syms(in) : /\ in.syms[x].name = RealName(s.name)
                                    /\ in.syms[x].value = Word(in, lit, ABS32)}
     IN CASE ~HasSection(s) \/ ~IsVeneer(s.name) ->
               /\ dynsym' = IF HasSection(s) THEN ds ELSE dynsym
               /\ UNCHANGED <<phase, dynrela, error>>
          [] off + 4 > s.size -> Fail("AssertionError@104")
          [] reals = {} -> Fail("cannot find symbol")
          [] OTHER ->
               /\ dynsym' = MkDyn(ds, Min(reals))
               /\ dynrela' = Append(dynrela, [sym |-> Min(reals), offset |-> lit,
                                              type |-> ABS32, addend |-> 0])
               /\ UNCHANGED <<phase, error>>
  /\ k' = k + 1
  /\ UNCHANGED <<in, r, q, relDel, dyns, nchain>>

PromoteDone ==
  /\ phase = "promote"
  /\ k \notin Syms(in)
  /\ phase' = "rel"
  /\ UNCHANGED <<in, k, r, q, dynsym, dynrela, relDel, dyns, nchain, error>>

\* line 173: a REL section of a non-ALLOC section is deleted, the others
\* are converted
VisitRelSection ==
  /\ phase = "rel"
  /\ r <= Len(in.rels)
  /\ IF in.alloc[in.rels[r].info]
     THEN phase' = "relocs" /\ q' = 1 /\ UNCHANGED <<relDel, r>>
     ELSE relDel' = relDel \cup {r} /\ r' = r + 1 /\ UNCHANGED <<phase, q>>
  /\ UNCHANGED <<in, k, dynsym, dynrela, dyns, nchain, error>>

\* the symbols named `n`, in symtab order
Named(f, n) == {x \in Syms(f) : f.syms[x].name = n}

\* Mutant of Undefined: relocations against undefined symbols are kept.
UndefinedNever(s) == FALSE

\* `sym.struct.st_shndx == elf32.STN_UNDEF` (line 178)
Undefined(s) == s.shndx = "UNDEF"

\* Mutant of CrossBank: calls are never retargeted to a veneer.
CrossBankNever(rel, s) == FALSE

\* crosses a bank: a Thumb branch whose symbol is in another bank (line 180)
CrossBank(rel, s) == rel.type \in ThumbCall /\ Bank(s.value) # Bank(rel.offset)

\* lines 177-235, on one relocation
ConvertReloc ==
  /\ phase = "relocs"
  /\ q <= Len(in.rels[r].relocs)
  /\ LET rel == in.rels[r].relocs[q]
         s0 == in.syms[rel.sym]
         vs == Named(in, VeneerName(s0.name))
         x == IF CrossBank(rel, s0) THEN Min(vs) ELSE rel.sym
         S == in.syms[x].value
         P == rel.offset
         addend == UndoRelocation(rel.type, S, P,
                     DecodeAddend(rel.type, Word(in, P, rel.type)))
         emit == /\ dynsym' = MkDyn(dynsym, x)
                 /\ dynrela' = Append(dynrela, [sym |-> x, offset |-> P,
                                      type |-> rel.type, addend |-> addend])
                 /\ UNCHANGED <<phase, error>>
         skip == UNCHANGED <<phase, dynsym, dynrela, error>>
     IN CASE Undefined(s0) -> skip
          [] CrossBank(rel, s0) /\ vs = {} -> Fail("missing veneer")
          [] rel.type \notin Supported -> Fail("unsupported relocation type")
          [] HasSection(in.syms[x]) /\ rel.type \in {ABS32, TARGET1} -> emit
          [] HasSection(in.syms[x]) /\ Bank(S) # Bank(P) ->
               Fail("AssertionError@221")
          [] HasSection(in.syms[x]) -> skip
          [] rel.type \in ThumbCall /\ ~(AbsVal(addend) < 4194304) ->
               Fail("AssertionError@227")
          [] OTHER -> emit
  /\ q' = q + 1
  /\ UNCHANGED <<in, k, r, relDel, dyns, nchain>>

\* line 237: the converted REL section is deleted
EndRelocs ==
  /\ phase = "relocs"
  /\ q > Len(in.rels[r].relocs)
  /\ relDel' = relDel \cup {r}
  /\ r' = r + 1
  /\ phase' = "rel"
  /\ UNCHANGED <<in, k, q, dynsym, dynrela, dyns, nchain, error>>

RelDone ==
  /\ phase = "rel"
  /\ r > Len(in.rels)
  /\ phase' = "dynamic"
  /\ UNCHANGED <<in, k, r, q, dynsym, dynrela, relDel, dyns, nchain, error>>

\* dynsym.get_first_symbol(n): the first dynamic symbol named n, as the set
\* of it or the empty set
FirstDyn(f, ds, n) ==
  LET ix == {i \in 1..Len(ds) : ds[i] # -1 /\ f.syms[ds[i]].name = n}
  IN IF ix = {} THEN {} ELSE {ds[Min(ix)]}

\* an entry whose d_ptr is the st_value of the first dynamic symbol named n,
\* when there is one (lines 271-283)
SymEntry(f, ds, tag, n) ==
  IF FirstDyn(f, ds, n) = {} THEN <<>>
  ELSE <<[tag |-> tag, val |-> f.syms[CHOOSE x \in FirstDyn(f, ds, n) : TRUE].value]>>

\* the late-bound (lambda) and constant entries of lines 240-269; .rel.dyn
\* never receives a relocation, so its DT_REL trio (262-267) is not added
Fixed(nrela) ==
  <<[tag |-> "HASH", val |-> "late"], [tag |-> "STRTAB", val |-> "late"],
    [tag |-> "SYMTAB", val |-> "late"]>>
  \o (IF nrela > 0
      THEN <<[tag |-> "RELA", val |-> "late"], [tag |-> "RELAENT", val |-> 12],
             [tag |-> "RELASZ", val |-> "late"]>>
      ELSE <<>>)
  \o <<[tag |-> "STRSZ", val |-> "late"], [tag |-> "SYMENT", val |-> 16],
      [tag |-> "SONAME", val |-> "basename"],
      [tag |-> "FLAGS", val |-> 12]>>

\* the `.hash` chain count: len(dynsym.symbols), null symbol included
NChain(ds) == Len(ds)

\* lines 240-285: .hash data and the .dynamic entries, DT_NULL last.  The
\* loop over args.dyn_entries at 279 raises TypeError when it is None.
BuildDynamic ==
  /\ phase = "dynamic"
  /\ nchain' = NChain(dynsym)
  /\ LET head == Fixed(Len(dynrela))
                 \o SymEntry(in, dynsym, "INIT", <<"__dl_init", 0>>)
                 \o SymEntry(in, dynsym, "FINI", <<"__dl_fini", 0>>)
     IN IF in.entriesGiven
        THEN /\ dyns' = head
                       \o FoldLeft(LAMBDA acc, e : acc \o SymEntry(in, dynsym, e.tag, e.name),
                                   <<>>, in.dynEntries)
                       \o <<[tag |-> "NULL", val |-> 0]>>
             /\ phase' = "done"
             /\ UNCHANGED error
        ELSE dyns' = head /\ Fail("TypeError")
  /\ UNCHANGED <<in, k, r, q, dynsym, dynrela, relDel>>

Next ==
  \/ Promote \/ PromoteDone
  \/ VisitRelSection \/ ConvertReloc \/ EndRelocs \/ RelDone
  \/ BuildDynamic

Spec == Init /\ [][Next]_vars

\* mkextmod is one sequential process: it does not stop between two steps
FairSpec == Spec /\ WF_vars(Next)

-----------------------------------------------------------------------------
(* Properties *)

\* The branch offset a Thumb-2 BL / B.W (encodings T1 / T4, ARMv6-M and
\* ARMv7-M) holds: imm32 = SignExtend(S:I1:I2:imm10:imm11:'0') with
\* I1 = NOT(J1 XOR S), I2 = NOT(J2 XOR S).
ThumbBranchOffset(insn) ==
  LET sb == (insn[1] \div 1024) % 2
      i1 == IF (insn[2] \div 8192) % 2 = sb THEN 1 ELSE 0
      i2 == IF (insn[2] \div 2048) % 2 = sb THEN 1 ELSE 0
      v == ((i1 * 2 + i2) * 1024 + (insn[1] % 1024)) * 2048 + (insn[2] % 2048)
  IN 2 * (IF sb = 1 THEN v - 8388608 ELSE v)

\* the 31-bit place-relative value of an R_ARM_PREL31 word
Prel31Value(w) == IF w >= 1073741824 THEN w - 2147483647 - 1 ELSE w

\* the crossing Thumb calls of converted REL sections, as [sec, rel]
CrossCalls(f) ==
  {c \in [sec : DOMAIN f.rels, rel : UNION {Range(x.relocs) : x \in Range(f.rels)}] :
     /\ c.rel \in Range(f.rels[c.sec].relocs)
     /\ f.alloc[f.rels[c.sec].info]
     /\ f.syms[c.rel.sym].shndx # "UNDEF"
     /\ CrossBank(c.rel, f.syms[c.rel.sym])}

\* the veneers of the symtab whose literal names a symbol of the right name
Veneers(f) ==
  {v \in Syms(f) : /\ HasSection(f.syms[v]) /\ IsVeneer(f.syms[v].name)
                   /\ f.veneerOffset + 4 <= f.syms[v].size}

VeneerSite(f, v) == ClearBit0(f.syms[v].value) + f.veneerOffset

RealOf(f, v) ==
  {x \in Named(f, RealName(f.syms[v].name)) :
     f.syms[x].value = Word(f, VeneerSite(f, v), ABS32)}

\* Type invariant: the dynamic symbols are copies of symtab symbols, at most
\* one each, after the null symbol; RELA entries are of supported types.
TypeOK ==
  /\ phase \in {"promote", "rel", "relocs", "dynamic", "done", "failed"}
  /\ (phase = "failed") <=> (error # "none")
  /\ dynsym[1] = -1
  /\ \A i \in 2..Len(dynsym) : dynsym[i] \in Syms(in)
  /\ Len(dynsym) <= Cardinality(Syms(in)) + 1
  /\ \A e \in Range(dynrela) : e.sym \in Syms(in) /\ e.type \in Supported
  /\ relDel \subseteq DOMAIN in.rels

\* Relocation conservation (the addend half): every .rela.dyn entry, when
\* the loader applies it with the symbol's value, rebuilds what the linker
\* had written at its offset: the word for ABS32/TARGET1, the branch offset
\* of the Thumb instruction, the PREL31 value.  decode_addend and
\* undo_relocation must invert the linker's relocation exactly.
RelaReconstructs ==
  \A e \in Range(dynrela) :
    LET S == in.syms[e.sym].value
        w == Word(in, e.offset, e.type)
    IN CASE e.type \in {ABS32, TARGET1} -> S + e.addend = w
         [] e.type \in ThumbCall ->
              ClearBit0(S) + e.addend - e.offset = ThumbBranchOffset(w)
         [] e.type = PREL31 ->
              ClearBit0(S) + e.addend - e.offset = Prel31Value(w)

\* the .rela.dyn entries the conversion owes, as [sym, offset, type]: one
\* R_ARM_ABS32 per veneer literal, against its real symbol, and one per
\* relocation of an ALLOC section against a symbol that is not undefined,
\* except the Thumb calls and PREL31 words resolved in place because their
\* symbol (or the veneer a crossing call goes through) is in the module
Owed(f) ==
  {[sym |-> Min(RealOf(f, v)), offset |-> VeneerSite(f, v), type |-> ABS32] :
     v \in {u \in Veneers(f) : RealOf(f, u) # {}}}
  \cup
  {[sym |-> c.rel.sym, offset |-> c.rel.offset, type |-> c.rel.type] :
     c \in {c \in [sec : DOMAIN f.rels,
                   rel : UNION {Range(x.relocs) : x \in Range(f.rels)}] :
             /\ c.rel \in Range(f.rels[c.sec].relocs)
             /\ f.alloc[f.rels[c.sec].info]
             /\ f.syms[c.rel.sym].shndx # "UNDEF"
             /\ \/ c.rel.type \in {ABS32, TARGET1}
                \/ ~HasSection(f.syms[c.rel.sym])
                   /\ ~CrossBank(c.rel, f.syms[c.rel.sym])}}

\* Relocation conservation (the entry half): a run that completes emits
\* exactly the entries owed, each once: nothing for a relocation against an
\* undefined symbol or of a non-ALLOC section (.rel.debug_*), nothing twice
\* across the veneer loop and the REL loop.
RelaComplete ==
  phase = "done" =>
    /\ {[sym |-> e.sym, offset |-> e.offset, type |-> e.type] : e \in Range(dynrela)}
         = Owed(in)
    /\ Len(dynrela) = Cardinality(Owed(in))

\* .dynsym holds, after its null symbol and once each, exactly the defined
\* non-local symbols of default visibility and the symbols some .rela.dyn
\* entry refers to: mk_dyn's memo is shared by the promotion loop, the
\* veneer literals and the REL loop.
ExportsOnce ==
  phase = "done" =>
    /\ Len(dynsym) = Cardinality(Range(dynsym))
    /\ Range(dynsym) =
         {-1} \cup {x \in Syms(in) : /\ HasSection(in.syms[x])
                                    /\ in.syms[x].bind \in {"GLOBAL", "WEAK"}
                                    /\ in.syms[x].vis = "DEFAULT"}
         \cup {e.sym : e \in Range(dynrela)}

\* Veneer migration: every veneer whose literal names its real function
\* gets an R_ARM_ABS32 with addend 0 at the literal, against that function;
\* the run never reports such a veneer's symbol missing, and reports a
\* missing veneer only for a crossing call that has none.
VeneerMigration ==
  /\ \A v \in Veneers(in) :
       RealOf(in, v) # {} =>
         /\ error # "cannot find symbol"
         /\ phase = "done" =>
              \E e \in Range(dynrela) :
                /\ e.offset = VeneerSite(in, v) /\ e.type = ABS32
                /\ e.addend = 0 /\ e.sym \in RealOf(in, v)
  /\ error = "missing veneer" =>
       \E c \in CrossCalls(in) :
         Named(in, VeneerName(in.syms[c.rel.sym].name)) = {}

\* The same-bank assertion of the REL loop (line 221) is, as the design
\* notes put it, a defensive re-check of what the veneer retargeting has
\* already established: it never fires.
BankAssertRedundant == error # "AssertionError@221"

\* --entry is optional (spec: "repeatable", one DT_<tag> "per caller-supplied
\* pair"; its first worked example passes none): once the relocation loops
\* are over, the tool builds .dynamic and .hash and finishes.
DynamicCompletes == phase = "dynamic" ~> phase = "done"

====
