----------------------------- MODULE MCJvnFetch ------------------------------
(***************************************************************************)
(* An instance of JvnFetch: three URLs. The feeds of the years and the one *)
(* of new entries overlap, and one CPE is listed under two names.          *)
(***************************************************************************)
EXTENDS JvnFetch

ThreeUrls == <<"2023", "2024", "new">>

Item(c, n) == [cpe |-> c, name |-> n]

OverlappingFeeds ==
  [u \in ToSet(ThreeUrls) |->
     IF u = "2023" THEN << Item("a", "v p"), Item("b", "v q"), Item("x", "v r") >>
     ELSE IF u = "2024" THEN << Item("c", "v s") >>
     ELSE << Item("c", "v s"), Item("a", "V P") >>]
=============================================================================
