------------------------------- MODULE Strtab -------------------------------
(***************************************************************************)
(* StrtabSection.build (elfmodel.py): the suffix-sharing string table      *)
(* packer.  Each registered string is keyed by its reversal in a list d    *)
(* kept sorted by key; bisect finds where the key goes, and the string     *)
(* either joins the group whose key it prefixes (it is a suffix of that    *)
(* group's longest string), or extends the group just before it (that      *)
(* group's longest string is a suffix of it), or starts a new group.       *)
(* Each group is then emitted as its longest string and a NUL, and the     *)
(* build asserts that every string looks up to itself.                     *)
(*                                                                         *)
(* A string is a sequence of character codes from Alphabet; the table is a *)
(* sequence of bytes, each string written with str.encode (UTF-8, one or  *)
(* two bytes per character here) and read back with bytes.decode.         *)
(* Offsets are 0-based, as in the code.                                    *)
(***************************************************************************)
EXTENDS Integers, Sequences, FiniteSets
LOCAL INSTANCE SequencesExt
LOCAL INSTANCE FiniteSetsExt

CONSTANTS
  Alphabet,  \* character codes, ordered as Python orders str
  Inputs     \* registration orders of StrtabSection.strings: Seq of strings

NUL == 0
ASSUME Alphabet \subseteq 1..2047

\* str.encode(): UTF-8, for code points below 2048
Encode(s) ==
  LET Char(c) == IF c < 128 THEN <<c>> ELSE <<192 + (c \div 64), 128 + (c % 64)>>
  IN FoldLeft(LAMBDA acc, c : acc \o Char(c), <<>>, s)

BadDecode == <<-1>>   \* bytes.decode raised UnicodeDecodeError

\* bytes.decode(): UTF-8, for code points below 2048
RECURSIVE Decode(_)
Decode(b) ==
  IF b = <<>> THEN <<>>
  ELSE IF b[1] < 128 THEN
    LET rest == Decode(Tail(b))
    IN IF rest = BadDecode THEN BadDecode ELSE <<b[1]>> \o rest
  ELSE IF b[1] \in 192..223 /\ Len(b) >= 2 /\ b[2] \in 128..191 THEN
    LET rest == Decode(Tail(Tail(b)))
    IN IF rest = BadDecode THEN BadDecode
       ELSE <<(b[1] - 192) * 64 + (b[2] - 128)>> \o rest
  ELSE BadDecode

\* Python's < on str: lexicographic by character code
RECURSIVE LexLess(_, _)
LexLess(x, y) ==
  IF x = <<>> THEN y # <<>>
  ELSE IF y = <<>> THEN FALSE
  ELSE IF Head(x) # Head(y) THEN Head(x) < Head(y)
  ELSE LexLess(Tail(x), Tail(y))

\* bisect.bisect_left(d, x, key=lambda kv: kv[0]) over d[lo..hi), 0-based
RECURSIVE BisectLeft(_, _, _, _)
BisectLeft(d, x, lo, hi) ==
  IF lo >= hi THEN lo
  ELSE LET mid == (lo + hi) \div 2
       IN IF LexLess(d[mid + 1].key, x) THEN BisectLeft(d, x, mid + 1, hi)
          ELSE BisectLeft(d, x, lo, mid)

\* bisect.insort_right's search with key=len over v[lo..hi), 0-based
RECURSIVE BisectRightLen(_, _, _, _)
BisectRightLen(v, s, lo, hi) ==
  IF lo >= hi THEN lo
  ELSE LET mid == (lo + hi) \div 2
       IN IF Len(s) < Len(v[mid + 1]) THEN BisectRightLen(v, s, lo, mid)
          ELSE BisectRightLen(v, s, mid + 1, hi)

\* Mutant of Insort: the string is appended, not inserted by length.
InsortAppend(v, s) == Append(v, s)

\* Mutant of Insort: the reversed string rev_s is stored, not s.
InsortReversed(v, s) ==
  InsertAt(v, BisectRightLen(v, s, 0, Len(v)) + 1, Reverse(s))

\* bisect.insort_right(value, s, key=len)
Insort(v, s) == InsertAt(v, BisectRightLen(v, s, 0, Len(v)) + 1, s)

\* the entry at the insertion point has a key starting with rs
JoinsNext(d, i, rs) == i < Len(d) /\ IsPrefix(rs, d[i + 1].key)

\* Mutant of ExtendsPrev: the extend branch is missing.
ExtendsNever(d, i, rs) == FALSE

\* rs starts with the key of the entry before the insertion point
ExtendsPrev(d, i, rs) == i > 0 /\ IsPrefix(d[i].key, rs)

\* Mutant of NewGroup: the new entry is appended, not inserted at i.
NewGroupAppended(d, i, rs, s) == Append(d, [key |-> rs, members |-> <<s>>])

\* d.insert(i, (rev_s, [s]))
NewGroup(d, i, rs, s) == InsertAt(d, i + 1, [key |-> rs, members |-> <<s>>])

\* value[-1].encode(): the group's longest string, written to the table
Emitted(g) == Encode(Last(g.members))

\* StrtabSection.lookup: bytes from index up to the next NUL, or none
Lookup(data, index) ==
  LET ends == {j \in index..(Len(data) - 1) : data[j + 1] = NUL}
  IN IF ends = {} THEN <<NUL>>   \* data.index raises ValueError
     ELSE Decode(SubSeq(data, index + 1, Min(ends)))

-----------------------------------------------------------------------------
VARIABLES
  strs,   \* the registered strings, in registration order
  cur,    \* the loop position (strings, then groups)
  d,      \* the sorted list of (reversed key, members by length)
  data,   \* the table bytes
  offs,   \* self.strings after the build: string -> offset
  phase   \* "insert", "begin", "emit", "verify", "done" or "failed"

vars == <<strs, cur, d, data, offs, phase>>

Init ==
  /\ strs \in Inputs
  /\ cur = 1
  /\ d = <<>>
  /\ data = <<>>
  /\ offs = [x \in {} |-> 0]
  /\ phase = "insert"

\* elfmodel.py build(), the first loop: place one string in d
InsertString ==
  /\ phase = "insert"
  /\ cur <= Len(strs)
  /\ LET s == strs[cur]
         rs == Reverse(s)
         i == BisectLeft(d, rs, 0, Len(d))
     IN d' = CASE JoinsNext(d, i, rs) ->
                    [d EXCEPT ![i + 1].members = Insort(@, s)]
               [] ExtendsPrev(d, i, rs) ->
                    [d EXCEPT ![i] = [key |-> rs,
                                      members |-> Insort(d[i].members, s)]]
               [] OTHER -> NewGroup(d, i, rs, s)
  /\ cur' = cur + 1
  /\ UNCHANGED <<strs, data, offs, phase>>

\* the table starts with one NUL, and "" maps to offset 0
BeginEmit ==
  /\ phase = "insert"
  /\ cur > Len(strs)
  /\ data' = <<NUL>>
  /\ offs' = [x \in {<<>>} |-> 0]
  /\ cur' = 1
  /\ phase' = "emit"
  /\ UNCHANGED <<strs, d>>

\* the second loop: write one group's longest string, record every member's
\* offset as the end of what was written minus its length, then a NUL
EmitGroup ==
  /\ phase = "emit"
  /\ cur <= Len(d)
  /\ LET g == d[cur]
         written == data \o Emitted(g)
         ms == {g.members[k] : k \in DOMAIN g.members}
     IN /\ data' = Append(written, NUL)
        /\ offs' = [x \in DOMAIN offs \cup ms |->
                      IF x \in ms THEN Len(written) - Len(x) ELSE offs[x]]
  /\ cur' = cur + 1
  /\ UNCHANGED <<strs, d, phase>>

\* the closing assert: every string looks up to itself
Verify ==
  /\ phase = "emit"
  /\ cur > Len(d)
  /\ phase' = IF \A x \in DOMAIN offs : Lookup(data, offs[x]) = x
              THEN "done" ELSE "failed"
  /\ UNCHANGED <<strs, cur, d, data, offs>>

Next == InsertString \/ BeginEmit \/ EmitGroup \/ Verify

Spec == Init /\ [][Next]_vars

-----------------------------------------------------------------------------
(* Properties *)

\* the strings registered so far, and all of them
Inserted == {strs[k] : k \in 1..(cur - 1)}
Registered == {strs[k] : k \in DOMAIN strs}

\* the members of group k of d
Members(k) == {d[k].members[j] : j \in DOMAIN d[k].members}

\* a registered string that is no proper suffix of another registered string
Maximal(x) == \A y \in Registered : IsSuffix(x, y) => x = y

\* Type invariant: the table is bytes, offsets are numbers, d holds keyed
\* groups of strings.
TypeOK ==
  /\ strs \in Inputs
  /\ cur \in Nat
  /\ d \in Seq([key : Seq(Alphabet), members : Seq(Seq(Alphabet))])
  /\ data \in Seq(0..255)
  /\ DOMAIN offs \subseteq Registered \cup {<<>>}
  /\ \A x \in DOMAIN offs : offs[x] \in Nat
  /\ phase \in {"insert", "emit", "done", "failed"}

\* After every step of build()'s first loop, d is what the bisect searches
\* need: keys strictly increasing, no key a prefix of another, each key the
\* reversal of its group's longest string, every member a suffix of that
\* string and members ordered by length; and every string placed so far is
\* in exactly one group.  Both the join and the extend branch, and the
\* in-place key rewrite d[i - 1] = (rev_s, value), must keep this.
GroupsWellFormed ==
  /\ \A k \in 1..(Len(d) - 1) : LexLess(d[k].key, d[k + 1].key)
  /\ \A j, k \in DOMAIN d : j # k => ~IsPrefix(d[j].key, d[k].key)
  /\ \A k \in DOMAIN d :
       /\ d[k].key = Reverse(Last(d[k].members))
       /\ \A x \in Members(k) : IsSuffix(x, Last(d[k].members))
       /\ \A j \in 1..(Len(d[k].members) - 1) :
            Len(d[k].members[j]) < Len(d[k].members[j + 1])
  /\ \A j, k \in DOMAIN d : j # k => Members(j) \cap Members(k) = {}
  /\ UNION {Members(k) : k \in DOMAIN d} =
       IF phase = "insert" THEN Inserted ELSE Registered

\* The assert closing build() never fires, and afterwards self.strings maps
\* exactly the registered strings and "" to offsets (the writer looks up
\* every registered name there).
StringsFound ==
  /\ phase # "failed"
  /\ phase = "done" => DOMAIN offs = Registered \cup {<<>>}

\* The table is as short as suffix sharing allows: one leading NUL, then
\* each registered string that is no proper suffix of another, encoded and
\* NUL terminated; every other string is stored inside one of those.
OptimalSharing ==
  phase = "done" =>
    Len(data) = 1 + MapThenSumSet(LAMBDA x : Len(Encode(x)) + 1,
                                  {x \in Registered : Maximal(x)})

=============================================================================
