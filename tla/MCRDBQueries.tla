---------------------------- MODULE MCRDBQueries ------------------------------
(***************************************************************************)
(* Instances of RDBDriver and RDBQueries: two types, one with two feeds.   *)
(***************************************************************************)
EXTENDS RDBQueries, TLC

Product == << <<"v">>, <<"p">> >>

Cpe(t, c, d) == [title |-> t, cpeURI |-> c, vp |-> Product, deprecated |-> d]

\* JVN lists one of the CPEs of NVD; the other feed of NVD deprecates the other.
TwoFeeds ==
  [ nvd |-> { {Cpe("tA", "a", FALSE), Cpe("tB", "b", FALSE)},
              {Cpe("tA", "a", TRUE)} },
    jvn |-> { {Cpe("tB", "b", FALSE)} },
    vls |-> {} ]

\* SQLite shared by any fetches, and row locks where those of one type do not overlap.
ProperScenarios == {[lockDatabase |-> TRUE, overlapSameType |-> TRUE],
                    [lockDatabase |-> FALSE, overlapSameType |-> FALSE]}

Processes == Permutations(Fetcher)

OneProduct == {Product}
Characters == {"v", "p"}
=============================================================================
