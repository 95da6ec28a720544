------------------------------ MODULE PurgeSpec ------------------------------
(***************************************************************************)
(* What PurgeDeleted (elfmodel.py) promises, as one step: "Transitively    *)
(* removes all deleted nodes".  The ELF object graph is a record:          *)
(*   sections, segments : the lists elffile.sections and elffile.segments  *)
(*   link, info         : section -> section or NoNode                     *)
(*   entries            : section -> its symbols or relocations (<<>> for  *)
(*                        a section that is no EntrySection)               *)
(*   ref                : entry -> Symbol.section or Relocation.symbol     *)
(*   members            : segment -> Segment.sections                      *)
(* A node is removed when it is deleted, or depends on a removed node: a   *)
(* section through link or info, an entry through its owner section or its *)
(* reference, a segment when every one of its sections is removed.         *)
(***************************************************************************)
EXTENDS FiniteSets
LOCAL INSTANCE Functions

CONSTANTS
  Graphs,   \* the object graphs to start from
  NoNode    \* None

VARIABLES
  g,        \* the object graph
  removed,  \* the nodes that are gone
  purged    \* the purge has run

\* every entry of every section of g
Entries(gr) == UNION {Range(gr.entries[s]) : s \in Range(gr.sections)}

\* every node of g
Nodes(gr) == Range(gr.sections) \cup Range(gr.segments) \cup Entries(gr)

\* the nodes that depend directly on a node of D
DependsOn(gr, D) ==
  {s \in Range(gr.sections) : gr.link[s] \in D \/ gr.info[s] \in D}
  \cup UNION {Range(gr.entries[s]) : s \in D \cap Range(gr.sections)}
  \cup {e \in Entries(gr) : gr.ref[e] \in D}
  \cup {p \in Range(gr.segments) : Range(gr.members[p]) \subseteq D}

\* the least set containing D and closed under DependsOn
RECURSIVE Closure(_, _)
Closure(gr, D) ==
  LET D2 == D \cup DependsOn(gr, D)
  IN IF D2 = D THEN D ELSE Closure(gr, D2)

Init ==
  /\ g \in {x.graph : x \in Graphs}
  /\ \E x \in Graphs : x.graph = g /\ removed \in x.starts
  /\ purged = FALSE

\* the whole closure goes at once
Purge ==
  /\ ~purged
  /\ removed' = Closure(g, removed)
  /\ purged' = TRUE
  /\ UNCHANGED g

Spec == Init /\ [][Purge]_<<g, removed, purged>>
=============================================================================
