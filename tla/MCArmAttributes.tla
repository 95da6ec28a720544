--------------------------- MODULE MCArmAttributes ---------------------------
(***************************************************************************)
(* Model-checking instance of ArmAttributes.  WellFormed builds a section  *)
(* as an assembler writes it: 'A', the vendor subsection length, the       *)
(* vendor name, Tag_File with its size, then the first attribute, a name   *)
(* and optionally Tag_CPU_arch.  The set varies every byte the parser      *)
(* tests, and adds the empty section and every truncation of the section  *)
(* for CPU "cm": a file cut short, or a size field that claims more than   *)
(* the bytes that follow.                                                  *)
(***************************************************************************)
EXTENDS ArmAttributes
LOCAL INSTANCE SequencesExt

\* a little-endian u32 below 65536
LE4(n) == <<n % 256, n \div 256, 0, 0>>

GNU == <<103, 110, 117>>                           \* b"gnu"
Names == {<<>>, <<99>>, <<99, 109>>, <<255>>}      \* "", "c", "cm", 0xFF
CpuArch == <<6, 13>>                               \* Tag_CPU_arch v7E-M

WellFormed(format, vendor, fileTag, cpuTag, name, more) ==
  LET attrs == <<cpuTag>> \o name \o <<0>> \o more
      body == vendor \o <<0, fileTag>> \o LE4(5 + Len(attrs)) \o attrs
  IN <<format>> \o LE4(4 + Len(body)) \o body

MCFiles ==
  {<<>>} \cup
  {WellFormed(f, v, t, c, n, x) :
     f \in {65, 66}, v \in {AEABI, GNU}, t \in {1, 2}, c \in {5, 4},
     n \in Names, x \in {<<>>, CpuArch}}
  \cup {SubSeq(WellFormed(65, AEABI, 1, 5, <<99, 109>>, <<>>), 1, k) : k \in 1..19}

====
