---------------------------- MODULE ArmAttributes ----------------------------
(***************************************************************************)
(* elfmodel.py 727-755: ReadData.visit_ArmAttributesSection, the parser    *)
(* that reads CPU_name (tag 5) out of an .ARM.attributes section.  Each    *)
(* statement group of the code is one action on the local `data`; an      *)
(* early `return` ends the parse with tags empty, and a Python exception   *)
(* (an index into empty bytes, bytes.index finding no NUL, a name that is  *)
(* not UTF-8) ends it in "failed", which aborts the load.  Bytes are       *)
(* integers; a slice is Python's, clamped to the data.                    *)
(***************************************************************************)
EXTENDS Integers, Sequences
LOCAL INSTANCE SequencesExt

CONSTANTS
  Files,    \* the section contents: byte sequences
  None      \* tags has no CPU_name

VARIABLES
  file,     \* bytes(section.data)
  data,     \* the local `data`, sliced as the parse goes on
  tags,     \* section.tags["CPU_name"], or None
  phase,    \* the statement group to run next, "done" or "failed"
  error     \* the exception raised

vars == <<file, data, tags, phase, error>>

\* Python's s[a:b] for 0 <= a, b
Slice(s, a, b) == SubSeq(s, a + 1, IF b < Len(s) THEN b ELSE Len(s))

\* int.from_bytes(s[:4], "little")
RECURSIVE LittleEndian(_)
LittleEndian(s) == IF s = <<>> THEN 0 ELSE Head(s) + 256 * LittleEndian(Tail(s))

U32(s) == LittleEndian(Slice(s, 0, 4))

\* s.index(0): the 0-based position of the first NUL, -1 for ValueError
NulAt(s) == SelectInSeq(s, LAMBDA b : b = 0) - 1

AEABI == <<97, 101, 97, 98, 105>>   \* b"aeabi"

\* bytes.decode(): the byte values modelled are ASCII or 0xFF, which no
\* UTF-8 sequence contains; an ASCII byte decodes to its code point
DecodesUtf8(s) == 255 \notin Range(s)

\* `if len(data) == 0 or data[0] != 0x41: return`
FormatCheck(s) == IF s = <<>> \/ s[1] # 65 THEN "return" ELSE "go"

\* `data[:size] != b"aeabi"`
VendorMatches(v) == v = AEABI

Init ==
  /\ file \in Files
  /\ data = file
  /\ tags = None
  /\ phase = "format"
  /\ error = "none"

Return == phase' = "done" /\ UNCHANGED <<file, data, tags, error>>

Raise(e) == phase' = "failed" /\ error' = e /\ UNCHANGED <<file, data, tags>>

Go(d, p) == data' = d /\ phase' = p /\ UNCHANGED <<file, tags, error>>

\* lines 730-733: the format byte 'A'
Format ==
  /\ phase = "format"
  /\ CASE FormatCheck(data) = "return" -> Return
       [] FormatCheck(data) = "go" -> Go(Slice(data, 1, Len(data)), "vendorSize")
       [] OTHER -> Raise(FormatCheck(data))

\* lines 735-736: the vendor subsection's length, which counts itself
VendorSize ==
  /\ phase = "vendorSize"
  /\ Go(Slice(data, 4, U32(data)), "vendor")

\* lines 738-741: the NUL-terminated vendor name
Vendor ==
  /\ phase = "vendor"
  /\ LET n == NulAt(data)
     IN CASE n < 0 -> Raise("ValueError")
          [] ~VendorMatches(Slice(data, 0, n)) -> Return
          [] OTHER -> Go(Slice(data, n + 1, Len(data)), "fileTag")

\* lines 743-745: the Tag_File byte
FileTag ==
  /\ phase = "fileTag"
  /\ CASE data = <<>> -> Raise("IndexError")
       [] data[1] # 1 -> Return
       [] OTHER -> Go(Slice(data, 1, Len(data)), "subSize")

\* lines 747-748: the sub-subsection's size, applied after the tag byte
SubSize ==
  /\ phase = "subSize"
  /\ Go(Slice(data, 4, U32(data)), "cpuTag")

\* lines 750-752: the first attribute must be Tag_CPU_name
CpuTag ==
  /\ phase = "cpuTag"
  /\ CASE data = <<>> -> Raise("IndexError")
       [] data[1] # 5 -> Return
       [] OTHER -> Go(Slice(data, 1, Len(data)), "name")

\* lines 754-755: the NUL-terminated name, decoded
Name ==
  /\ phase = "name"
  /\ LET n == NulAt(data)
     IN CASE n < 0 -> Raise("ValueError")
          [] ~DecodesUtf8(Slice(data, 0, n)) -> Raise("UnicodeDecodeError")
          [] OTHER -> /\ tags' = Slice(data, 0, n)
                      /\ phase' = "done"
                      /\ UNCHANGED <<file, data, error>>

Next == Format \/ VendorSize \/ Vendor \/ FileTag \/ SubSize \/ CpuTag \/ Name

Spec == Init /\ [][Next]_vars

-----------------------------------------------------------------------------
(* Properties *)

Invalid == "not UTF-8"

\* The reference: the grammar of spec line 72 with the sizes of the ARM
\* build-attributes format, where the vendor subsection's length counts its
\* own four bytes and a sub-subsection's size counts its tag byte and its
\* size field.  The CPU name, None on any mismatch, Invalid when the name
\* is not UTF-8.
Ref(f) ==
  LET len == U32(SubSeq(f, 2, Len(f)))
      v == SubSeq(f, 6, 1 + len)           \* the vendor subsection's body
      n == SelectInSeq(v, LAMBDA b : b = 0)
      s == SubSeq(v, n + 1, Len(v))        \* the Tag_File sub-subsection
      size == U32(SubSeq(s, 2, Len(s)))
      a == SubSeq(s, 6, size)              \* its attributes
      m == SelectInSeq(a, LAMBDA b : b = 0)
      name == SubSeq(a, 2, m - 1)
  IN IF /\ Len(f) >= 5 /\ f[1] = 65 /\ len >= 4 /\ 1 + len <= Len(f)
        /\ n > 0 /\ SubSeq(v, 1, n - 1) = AEABI
        /\ Len(s) >= 5 /\ s[1] = 1 /\ size >= 6 /\ size <= Len(s)
        /\ a[1] = 5 /\ m > 1
     THEN IF DecodesUtf8(name) THEN name ELSE Invalid
     ELSE None

\* Type invariant.
TypeOK ==
  /\ file \in Files
  /\ tags = None \/ tags \in Seq(Nat)
  /\ phase \in {"format", "vendorSize", "vendor", "fileTag", "subSize",
                "cpuTag", "name", "done", "failed"}
  /\ error \in {"none", "IndexError", "ValueError", "UnicodeDecodeError"}
  /\ (phase = "failed") <=> (error # "none")

\* Spec line 72: on any mismatch the parser leaves tags empty.  The load
\* may only abort on a name that is present but not UTF-8; a section cut
\* short anywhere (before the vendor's NUL at 738, the Tag_File byte at
\* 743, the attribute byte at 750 or the name's NUL at 754) is a mismatch
\* and must reach the CPU check as "CPU not found".
MismatchLeavesEmpty ==
  phase = "failed" => Ref(file) = Invalid /\ error = "UnicodeDecodeError"

====
