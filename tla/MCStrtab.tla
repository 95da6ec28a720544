------------------------------ MODULE MCStrtab ------------------------------
(***************************************************************************)
(* Model-checking instance of Strtab: every registration order of up to    *)
(* MaxCount distinct non-empty strings of length at most MaxLen.  With two *)
(* letters and length 3 this covers chains of suffixes ("a", "ba", "aba"), *)
(* strings sharing a last letter but not a suffix ("ab", "bb"), and every  *)
(* order among them, so each branch of the packer meets every other.       *)
(***************************************************************************)
EXTENDS Strtab
LOCAL INSTANCE Functions

CONSTANTS MaxLen, MaxCount

\* the non-empty strings over Alphabet of length at most MaxLen
Strings == UNION {[1..k -> Alphabet] : k \in 1..MaxLen}

\* registration orders: OrderedDict keys are distinct
MCInputs ==
  {o \in UNION {[1..k -> Strings] : k \in 0..MaxCount} : IsInjective(o)}

\* ASCII letters 'a' and 'b'
MCAscii == {97, 98}

\* 'a' and U+00E9, which str.encode writes as two bytes
MCWide == {97, 233}
=============================================================================
