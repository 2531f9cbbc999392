-------------------------------- MODULE Names --------------------------------
(***************************************************************************)
(* Vendor and product names as the drivers see them: sequences of          *)
(* characters in which the library for names has put a backslash before    *)
(* each special character. The Redis driver joins a vendor and a product   *)
(* with a separator and splits the pair again (db/redis.go); the RDB       *)
(* driver passes the names it is asked for to LIKE (db/rdb.go).            *)
(***************************************************************************)
EXTENDS Naturals, Sequences

CONSTANTS
  Char,      \* the characters names are made of
  Escapes    \* is a backslash in a LIKE pattern an escape? (MySQL, PostgreSQL)

ASSUME EscapesAssumption == Escapes \in BOOLEAN

Name == Seq(Char)

Separator == <<"#", "#">>

\* As the library writes a name: no # without a backslash before it. (external)
Quoted(s) == \A i \in DOMAIN s : s[i] = "#" => i > 1 /\ s[i - 1] = "\\"

EndsInHash(s) == s # <<>> /\ s[Len(s)] = "#"

-----------------------------------------------------------------------------
(* vendorProductStr, and strings.Split of it at the separator *)

\* Mutant of VPKey: the separator is a single character.
VPKeyHash(v, p) == v \o <<"#">> \o p

VPKey(v, p) == v \o Separator \o p

\* Where a separator begins.
Cuts(s) == {i \in 1..Len(s) : i < Len(s) /\ s[i] = "#" /\ s[i + 1] = "#"}
FirstCut(s) == CHOOSE i \in Cuts(s) : \A j \in Cuts(s) : i <= j

Before(s) == SubSeq(s, 1, FirstCut(s) - 1)
After(s) == SubSeq(s, FirstCut(s) + 2, Len(s))

HasTwoParts(s) == Cuts(s) # {} /\ Cuts(After(s)) = {}

-----------------------------------------------------------------------------
(***************************************************************************)
(* s LIKE pattern (external): % stands for any characters, _ for one, and  *)
(* an escaped character for itself. rest[<<i, j>>] says that the pattern   *)
(* from its i-th character on matches s from its j-th on.                  *)
(***************************************************************************)
Escaped(pattern, i) == Escapes /\ pattern[i] = "\\" /\ i < Len(pattern)

Matches(s, pattern, rest, i, j) ==
  IF i > Len(pattern) THEN j > Len(s)
  ELSE IF pattern[i] = "%" THEN \E k \in j..(Len(s) + 1) : rest[<<i + 1, k>>]
  ELSE /\ j <= Len(s)
       /\ IF Escaped(pattern, i)
          THEN pattern[i + 1] = s[j] /\ rest[<<i + 2, j + 1>>]
          ELSE pattern[i] \in {"_", s[j]} /\ rest[<<i + 1, j + 1>>]

Like(s, pattern) ==
  LET rest[at \in (1..(Len(pattern) + 1)) \X (1..(Len(s) + 1))] ==
        Matches(s, pattern, rest, at[1], at[2])
  IN  rest[<<1, 1>>]
=============================================================================
