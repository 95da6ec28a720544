------------------------------ MODULE Preprocess ------------------------------
(***************************************************************************)
(* mkextmod.py 26-48: the first loop over the loaded sections (strip       *)
(* .debug*, force SHF_WRITE on .data*, SHF_ALLOC on .uninitialized_data*,  *)
(* read CPU_name from .ARM.attributes), the PurgeDeleted call, and the CPU *)
(* check.  The purge is taken as PurgeSpec's one-step closure, which the   *)
(* Purge module is checked to implement.  A section name is abstracted to  *)
(* the prefix class the loop tests: "debug", "data", "uninit", "attrs" or  *)
(* "other"; an .ARM.attributes section carries the CPU_name tag it parsed, *)
(* or NoTag when the parser left tags empty.                               *)
(***************************************************************************)
EXTENDS Sequences, FiniteSets
LOCAL INSTANCE Functions
LOCAL INSTANCE FiniteSetsExt

CONSTANTS
  Inputs,     \* loaded files: [graph, class, flags, tag]
  CpuConfig,  \* the supported CPUs -> veneer_symbol_offset
  NoNode,     \* None, in the graph
  NoTag,      \* tags.get("CPU_name") found nothing: None
  Unbound     \* cpu_name never assigned

VARIABLES
  in,       \* the loaded file
  strip,    \* args.strip
  cur,      \* position of the first loop
  flags,    \* section -> sh_flags
  deleted,  \* deleted nodes
  cpuName,  \* cpu_name
  config,   \* cpu_config (the veneer symbol offset)
  phase,    \* "loop", "purge", "check", "done" or "failed"
  error     \* the exception that stopped the tool

vars == <<in, strip, cur, flags, deleted, cpuName, config, phase, error>>

P == INSTANCE PurgeSpec
       WITH Graphs <- {[graph |-> x.graph, starts |-> {{}}] : x \in Inputs},
            g <- in.graph, removed <- deleted, purged <- phase # "purge"

\* args.strip and section.name.startswith(".debug")
StripsSection(st, c) == st /\ c = "debug"

\* the flag each name prefix forces on
Forced(c) ==
  CASE c = "data" -> {"WRITE"} [] c = "uninit" -> {"ALLOC"} [] OTHER -> {}

Init ==
  /\ in \in Inputs
  /\ strip \in BOOLEAN
  /\ cur = 1
  /\ flags = in.flags
  /\ deleted = {}
  /\ cpuName = Unbound
  /\ config = 0
  /\ phase = "loop"
  /\ error = "none"

\* one iteration of `for section in elffile.sections` (lines 30-38)
VisitSection ==
  /\ phase = "loop"
  /\ cur <= Len(in.graph.sections)
  /\ LET s == in.graph.sections[cur]
         c == in.class[s]
     IN /\ deleted' = IF StripsSection(strip, c)
                      THEN deleted \cup {s} \cup Range(in.graph.entries[s])
                      ELSE deleted
        /\ flags' = [flags EXCEPT ![s] = @ \cup Forced(c)]
        /\ cpuName' = IF c = "attrs" THEN in.tag[s] ELSE cpuName
  /\ cur' = cur + 1
  /\ UNCHANGED <<in, strip, config, phase, error>>

\* the loop is over
LoopDone ==
  /\ phase = "loop"
  /\ cur > Len(in.graph.sections)
  /\ phase' = "purge"
  /\ UNCHANGED <<in, strip, cur, flags, deleted, cpuName, config, error>>

\* PurgeDeleted().visit(elffile) (line 39)
Purge ==
  /\ phase = "purge"
  /\ deleted' = P!Closure(in.graph, deleted)
  /\ phase' = "check"
  /\ UNCHANGED <<in, strip, cur, flags, cpuName, config, error>>

\* `cpu_name is None`
CpuNotFound(c) == c = NoTag

\* lines 41-48: reading the unbound name raises NameError; None and an
\* unsupported CPU raise ValueError; otherwise cpu_config is looked up
CheckCpu ==
  /\ phase = "check"
  /\ CASE cpuName = Unbound ->
            phase' = "failed" /\ error' = "NameError" /\ config' = config
       [] CpuNotFound(cpuName) ->
            phase' = "failed" /\ error' = "CPU not found" /\ config' = config
       [] cpuName \notin DOMAIN CpuConfig ->
            phase' = "failed" /\ error' = "CPU not supported"
            /\ config' = config
       [] OTHER ->
            phase' = "done" /\ error' = error /\ config' = CpuConfig[cpuName]
  /\ UNCHANGED <<in, strip, cur, flags, deleted, cpuName>>

Next == VisitSection \/ LoopDone \/ Purge \/ CheckCpu

Spec == Init /\ [][Next]_vars

-----------------------------------------------------------------------------
(* Properties *)

Sections == Range(in.graph.sections)

\* the CPU_name of the file's .ARM.attributes section (the last one, as the
\* loop assigns in order), NoTag when it has none or no such section
FileCpu ==
  LET at == {k \in DOMAIN in.graph.sections :
               in.class[in.graph.sections[k]] = "attrs"}
  IN IF at = {} THEN NoTag ELSE in.tag[in.graph.sections[Max(at)]]

\* Type invariant: flags are ELF section flags, the outcome is one the code
\* can produce.
TypeOK ==
  /\ \A s \in Sections : flags[s] \subseteq {"ALLOC", "WRITE", "EXEC"}
  /\ deleted \subseteq P!Nodes(in.graph)
  /\ config \in {0} \cup Range(CpuConfig)
  /\ phase \in {"loop", "purge", "check", "done", "failed"}
  /\ error \in {"none", "NameError", "CPU not found", "CPU not supported"}

\* The CPU check does what the spec (and the CLI's error texts) say: a
\* file whose CPU name is missing, because .ARM.attributes is absent or
\* its parse found no CPU_name, is rejected with "CPU not found"; a CPU
\* outside the table with "not supported"; otherwise the tool goes on with
\* that CPU's veneer_symbol_offset.  cpu_name is only bound inside the loop.
CpuChecked ==
  phase \in {"done", "failed"} =>
    CASE FileCpu = NoTag -> error = "CPU not found"
      [] FileCpu \notin DOMAIN CpuConfig -> error = "CPU not supported"
      [] OTHER -> phase = "done" /\ config = CpuConfig[FileCpu]

=============================================================================
