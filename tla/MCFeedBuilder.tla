---------------------------- MODULE MCFeedBuilder -----------------------------
(***************************************************************************)
(* An instance of FeedBuilder: five names, one of which cannot be parsed,  *)
(* of four products. Two names end in the character the separator of keys  *)
(* is made of; one has a character that is quoted, another is a wildcard.  *)
(***************************************************************************)
EXTENDS FeedBuilder

Characters == {"v", "p", "q", "c", "-", "#", "\\", "_", "1", "w", "A"}

NotGiven == <<"A">>
v == <<"v">>
p == <<"p">>
QuotedName == <<"p", "\\", "-", "\\", "#">>
HashName == <<"c", "\\", "#">>
WildName == <<"_">>

Products == {<<v, p>>, <<v, QuotedName>>, <<HashName, p>>, <<v, WildName>>}

\* "a" and "h" differ in the part of the name only, so their derived titles are one.
AttributesOf ==
  [c \in {"a", "h", "b", "d", "x"} |->
     CASE c \in {"a", "h"} -> << v, p, <<"1">>, NotGiven >>
       [] c = "b" -> << v, QuotedName, NotGiven, NotGiven >>
       [] c = "d" -> << HashName, p, NotGiven, <<"w">> >>
       [] c = "x" -> << v, WildName, NotGiven, NotGiven >>]

En(w) == [title |-> << <<w>> >>, lang |-> "en"]
Ja(w) == [title |-> << <<w>> >>, lang |-> "ja"]

File(n, ts, d) == [name |-> n, titles |-> ts, deprecated |-> d]

\* The dictionary has one name deprecated, and one both deprecated and in use.
Files ==
  { File("a", << Ja("t"), En("1"), Ja("u") >>, FALSE), File("a", << Ja("t") >>, TRUE),
    File("b", <<>>, TRUE), File("d", << Ja("t"), Ja("u") >>, FALSE),
    File("x", << En("1") >>, FALSE) }

VulsList ==
  << [title |-> << <<"t">> >>, cpes |-> <<"a", "d">>],
     [title |-> << <<"u">> >>, cpes |-> <<"b">>],
     [title |-> << <<"t">> >>, cpes |-> <<"d", "h">>] >>

TitlesUsed ==
  { <<>>, << <<"t">> >>, << <<"u">> >>, << <<"1">> >>, << v, p, <<"1">> >>, << v, p >>,
    << v, QuotedName >>, << HashName, p, <<"w">> >>, << v, WildName >> }

\* JVN titles a CPE with vendor and product, and has a URI for the fifth.
JvnCpe(c, product) ==
  [title |-> << v, product >>, cpeURI |-> c, vp |-> << v, product >>, deprecated |-> FALSE]
JvnFeeds == { {}, {JvnCpe("a", p), JvnCpe("x", WildName)} }
=============================================================================
