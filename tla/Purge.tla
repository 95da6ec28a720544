-------------------------------- MODULE Purge --------------------------------
(***************************************************************************)
(* PurgeDeleted (elfmodel.py 406-444) as the Visitor runs it: rounds over  *)
(* elffile.sections (each EntrySection then over its entries) and then     *)
(* elffile.segments, deleting what depends on a deleted node, until a      *)
(* round deletes nothing; each round ends by dropping deleted nodes from   *)
(* the two lists.  Visitor.visit skips list elements already deleted when  *)
(* it reaches them.  The graph is a record as described in PurgeSpec.      *)
(***************************************************************************)
EXTENDS Integers, Sequences, FiniteSets
LOCAL INSTANCE Functions
LOCAL INSTANCE SequencesExt

CONSTANTS Graphs, NoNode

VARIABLES
  g,         \* the object graph's references (never changed by the purge)
  start,     \* the nodes deleted before the purge (history, for Abs)
  deleted,   \* the nodes whose .deleted flag is set
  sections,  \* elffile.sections
  segments,  \* elffile.segments
  entries,   \* section -> section._entries
  members,   \* segment -> segment.sections
  again,     \* self.again
  phase,     \* "loop", "sections", "entries", "segments" or "done"
  i,         \* position in sections or segments
  j          \* position in the current section's entries

vars == <<g, start, deleted, sections, segments, entries, members, again,
          phase, i, j>>

\* Mutant of Cascade: deleting a section marks what it refers to instead.
CascadeRefs(gr, ents, s) == {gr.link[s], gr.info[s]}

\* EntrySection.delete: a deleted section's current entries are deleted too
Cascade(gr, ents, s) == Range(ents[s])

\* sections[...].delete() for each of D, as mkextmod does before the purge
Deleting(gr, D) == D \cup UNION {Cascade(gr, gr.entries, s) : s \in D}

\* Mutant of RefDeleted: a missing reference counts as deleted.
RefDeletedOrNone(r, D) == r = NoNode \/ r \in D

\* `x and x.deleted` for a link, info, section or symbol reference
RefDeleted(r, D) == r # NoNode /\ r \in D

\* Mutant of MarkAgain: delete() does not set self.again.
MarkAgainNever(a, hit) == a

\* Mutant of MarkAgain: every visit sets self.again.
MarkAgainAlways(a, hit) == TRUE

\* PurgeDeleted.delete: self.again = True after deleting a node
MarkAgain(a, hit) == a \/ hit

\* [x for x in xs if not x.deleted]
Live(xs, D) == SelectSeq(xs, LAMBDA x : x \notin D)

Init ==
  /\ \E x \in Graphs :
       /\ g = x.graph
       /\ start \in x.starts
  /\ deleted = start
  /\ sections = g.sections
  /\ segments = g.segments
  /\ entries = g.entries
  /\ members = g.members
  /\ again = TRUE
  /\ phase = "loop"
  /\ i = 1
  /\ j = 1

\* while self.again: self.again = False; then visit elffile.sections
StartRound ==
  /\ phase = "loop"
  /\ again
  /\ again' = FALSE
  /\ phase' = "sections"
  /\ i' = 1
  /\ UNCHANGED <<g, start, deleted, sections, segments, entries, members, j>>

\* the loop test fails: the purge returns
Finish ==
  /\ phase = "loop"
  /\ ~again
  /\ phase' = "done"
  /\ UNCHANGED <<g, start, deleted, sections, segments, entries, members,
                 again, i, j>>

\* visit_Section (through visit_EntrySection for an EntrySection), or the
\* skip of a section deleted earlier in this round
VisitSection ==
  /\ phase = "sections"
  /\ i <= Len(sections)
  /\ LET s == sections[i]
         hit == RefDeleted(g.link[s], deleted) \/ RefDeleted(g.info[s], deleted)
     IN IF s \in deleted
        THEN /\ i' = i + 1
             /\ UNCHANGED <<deleted, again, phase, j>>
        ELSE /\ deleted' = IF hit
                           THEN deleted \cup {s} \cup Cascade(g, entries, s)
                           ELSE deleted
             /\ again' = MarkAgain(again, hit)
             /\ IF g.entries[s] # <<>>
                THEN phase' = "entries" /\ j' = 1 /\ i' = i
                ELSE phase' = "sections" /\ j' = j /\ i' = i + 1
  /\ UNCHANGED <<g, start, sections, segments, entries, members>>

\* visit_Symbol / visit_Relocation / visit_RelocationWithAddend on the
\* next entry of the current section, or the skip of a deleted one
VisitEntry ==
  /\ phase = "entries"
  /\ j <= Len(entries[sections[i]])
  /\ LET e == entries[sections[i]][j]
         hit == e \notin deleted /\ RefDeleted(g.ref[e], deleted)
     IN /\ deleted' = IF hit THEN deleted \cup {e} ELSE deleted
        /\ again' = MarkAgain(again, hit)
  /\ j' = j + 1
  /\ UNCHANGED <<g, start, sections, segments, entries, members, phase, i>>

\* visit_EntrySection, after the entries: drop the deleted ones
EndEntries ==
  /\ phase = "entries"
  /\ j > Len(entries[sections[i]])
  /\ entries' = [entries EXCEPT ![sections[i]] = Live(@, deleted)]
  /\ phase' = "sections"
  /\ i' = i + 1
  /\ UNCHANGED <<g, start, deleted, sections, segments, members, again, j>>

\* Visitor.visit_Elf: the segments after the sections
SectionsDone ==
  /\ phase = "sections"
  /\ i > Len(sections)
  /\ phase' = "segments"
  /\ i' = 1
  /\ UNCHANGED <<g, start, deleted, sections, segments, entries, members,
                 again, j>>

\* visit_Segment: drop deleted sections; an empty segment is deleted.  Only
\* visit_Segment deletes a segment and the round ends by dropping it from
\* elffile.segments, so the list skip never meets a deleted segment.
VisitSegment ==
  /\ phase = "segments"
  /\ i <= Len(segments)
  /\ LET p == segments[i]
         ms == Live(members[p], deleted)
     IN /\ members' = [members EXCEPT ![p] = ms]
        /\ deleted' = IF ms = <<>> THEN deleted \cup {p} ELSE deleted
        /\ again' = MarkAgain(again, ms = <<>>)
  /\ i' = i + 1
  /\ UNCHANGED <<g, start, sections, segments, entries, phase, j>>

\* the end of the round: drop deleted segments and sections from elffile
EndRound ==
  /\ phase = "segments"
  /\ i > Len(segments)
  /\ segments' = Live(segments, deleted)
  /\ sections' = Live(sections, deleted)
  /\ phase' = "loop"
  /\ UNCHANGED <<g, start, deleted, entries, members, again, i, j>>

Next ==
  \/ StartRound \/ Finish
  \/ VisitSection \/ VisitEntry \/ EndEntries \/ SectionsDone
  \/ VisitSegment \/ EndRound

\* the program runs the purge to the end: weak fairness of its steps
Spec == Init /\ [][Next]_vars /\ WF_vars(Next)

-----------------------------------------------------------------------------
(* Properties *)

Abs == INSTANCE PurgeSpec
         WITH removed <- IF phase = "done" THEN deleted ELSE start,
              purged <- phase = "done"

\* Type invariant: cursors within their lists, deleted flags on nodes.
TypeOK ==
  /\ deleted \subseteq Abs!Nodes(g)
  /\ start \subseteq deleted
  /\ again \in BOOLEAN
  /\ phase \in {"loop", "sections", "entries", "segments", "done"}
  /\ i \in 1..(Max({Len(sections), Len(segments)}) + 1)
  /\ j \in 1..(Max({Len(g.entries[s]) : s \in Range(g.sections)}) + 1)

\* When the while-again loop stops, what mkextmod goes on to lay out and
\* write is clean: no section, symbol, relocation or segment left in the
\* lists is deleted, none refers through link, info, section or symbol to a
\* deleted node, and no segment is empty.  A deletion made late in a round,
\* after a node depending on it was visited, must still be propagated.
PurgeComplete ==
  phase = "done" =>
    /\ \A s \in Range(sections) :
         /\ s \notin deleted
         /\ ~RefDeleted(g.link[s], deleted)
         /\ ~RefDeleted(g.info[s], deleted)
         /\ \A e \in Range(entries[s]) :
              e \notin deleted /\ ~RefDeleted(g.ref[e], deleted)
    /\ \A p \in Range(segments) :
         /\ p \notin deleted
         /\ members[p] # <<>>
         /\ Range(members[p]) \cap deleted = {}

\* The while-again loop terminates: every round that deletes something is
\* followed by one more, and there are finitely many nodes to delete.
Termination == <>(phase = "done")

\* PurgeDeleted implements its docstring: the visitor rounds, seen from
\* outside, remove in one step exactly the nodes that transitively depend on
\* the ones deleted before the purge, no more and no fewer.
PurgeRefines == Abs!Spec

=============================================================================
