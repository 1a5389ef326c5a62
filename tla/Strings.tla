------------------------------- MODULE Strings -------------------------------
(***************************************************************************)
(* Strings that the conversions tell apart.  A string is one ordinary      *)
(* character, unless Spelled gives its characters: quotes, backslashes,    *)
(* spaces, dots, line ends and NUL, with ordinary ones between.            *)
(***************************************************************************)
EXTENDS Integers, Sequences

CONSTANT Spelled   \* the strings with special characters, each with its characters

Nul == "NUL"

Chars(s) == IF s \in DOMAIN Spelled THEN Spelled[s] ELSE IF s = "" THEN <<>> ELSE <<s>>

(* Characters that are no string of the model are one that equals no other. *)
Unnamed == "(unnamed)"
StringOf(cs) ==
  IF \E s \in DOMAIN Spelled : Spelled[s] = cs THEN CHOOSE s \in DOMAIN Spelled : Spelled[s] = cs
  ELSE IF cs = <<>> THEN "" ELSE IF Len(cs) = 1 THEN cs[1] ELSE Unnamed

(* The characters before the first one in the set `stops`. *)
UpTo(cs, stops) ==
  LET at == {i \in DOMAIN cs : cs[i] \in stops}
  IN IF at = {} THEN cs ELSE SubSeq(cs, 1, (CHOOSE i \in at : \A j \in at : i <= j) - 1)
After(cs, part) == SubSeq(cs, Len(part) + 1, Len(cs))

(* serialize(const Str &) goes through c_str() and strlen. *)
CStr(s) == StringOf(UpTo(Chars(s), {Nul}))
==============================================================================
