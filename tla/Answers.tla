------------------------------- MODULE Answers --------------------------------
(***************************************************************************)
(* The answers of the two drivers (db/rdb.go, db/redis.go) when nothing    *)
(* else is under way: what each says of one set of categorized CPEs. The   *)
(* Redis driver has stored the members of its sets, the RDB driver a row   *)
(* per CPE. A vendor/product pair is the pair of its names.                *)
(***************************************************************************)
EXTENDS CpeModels, Names

ASSUME PairsAssumption ==
  /\ VendorProduct \subseteq Name \X Name
  /\ \A vp \in VendorProduct : Quoted(vp[1]) /\ Quoted(vp[2])

Key(vp) == VPKey(vp[1], vp[2])

-----------------------------------------------------------------------------
(* GetVendorProducts; d: deprecated products, or those in use? *)

RDBProducts(cs, d) == {c.vp : c \in {x \in cs : x.deprecated = d}}

\* SMEMBERS of a set of keys; a key that is not made of two parts is skipped.
RedisKeys(cs, d) ==
  LET members == Members(cs)
  IN  {Key(vp) : vp \in {x \in VendorProduct :
         (IF d THEN DeprecatedProduct(x) ELSE ProductMember(x)) \in members}}
RedisProducts(cs, d) ==
  {<<Before(k), After(k)>> : k \in {x \in RedisKeys(cs, d) : HasTwoParts(x)}}

-----------------------------------------------------------------------------
(* GetCpesByVendorProduct *)

\* Mutant of RDBCpes: product and vendor are swapped.
RDBCpesSwapped(cs, v, p, d) ==
  {c.cpeURI : c \in {x \in cs : x.deprecated = d /\ Like(x.vp[2], v) /\ Like(x.vp[1], p)}}

RDBCpes(cs, v, p, d) ==
  {c.cpeURI : c \in {x \in cs : x.deprecated = d /\ Like(x.vp[1], v) /\ Like(x.vp[2], p)}}

\* Of the members of the key, those that are in the set of deprecated CPEs, or not.
RedisCpes(cs, v, p, d) ==
  LET members == Members(cs)
  IN  {c \in CpeURI :
         /\ v # <<>> /\ p # <<>>
         /\ \E vp \in VendorProduct : Key(vp) = VPKey(v, p) /\ VPMember(vp, c) \in members
         /\ d <=> DeprecatedMember(c) \in members}

-----------------------------------------------------------------------------
(* GetSimilarCpesByTitle: the titles searched, and the CPEs of one *)

RDBTitles(cs) == {c.title : c \in cs}
RedisTitles(cs) == TitlesIn(Members(cs))

RDBTitleCpes(cs, t) == {c.cpeURI : c \in {x \in cs : x.title = t}}
RedisTitleCpes(cs, t) ==
  LET members == Members(cs) IN {c \in CpeURI : TitleMember(t, c) \in members}

-----------------------------------------------------------------------------
(***************************************************************************)
(* What the tests of the drivers (db/common_test.go), the same for both,   *)
(* say of the answers, and the conditions under which it holds             *)
(***************************************************************************)

\* Products are listed alike, if no vendor ends in the character the separator is made of.
SameProducts(cs) ==
  (\A c \in cs : ~EndsInHash(c.vp[1])) =>
    \A d \in BOOLEAN : RedisProducts(cs, d) = RDBProducts(cs, d)

\* LIKE with the names of vp finds the rows of vp and no others.
Exact(cs, vp) == \A c \in cs : Like(c.vp[1], vp[1]) /\ Like(c.vp[2], vp[2]) <=> c.vp = vp

\* CPEs are answered alike, except that one which is stored both in use and as
\* deprecated is only deprecated to Redis.
SameCpes(cs) ==
  \A vp \in VendorProduct : vp[1] # <<>> /\ vp[2] # <<>> /\ Exact(cs, vp) =>
    LET Redis(d) == RedisCpes(cs, vp[1], vp[2], d)
        RDB(d) == RDBCpes(cs, vp[1], vp[2], d)
        Dep == {c.cpeURI : c \in {x \in cs : x.deprecated}}
    IN  Redis(TRUE) = (RDB(TRUE) \cup RDB(FALSE)) \cap Dep /\ Redis(FALSE) = RDB(FALSE) \ Dep

\* Titles are answered alike.
SameTitles(cs) ==
  /\ RedisTitles(cs) = RDBTitles(cs)
  /\ \A t \in RDBTitles(cs) : RedisTitleCpes(cs, t) = RDBTitleCpes(cs, t)

\* A product that a driver lists leads to CPEs when the driver is asked for it.
ListedFound(cs) ==
  \A d \in BOOLEAN :
    /\ \A vp \in RDBProducts(cs, d) : RDBCpes(cs, vp[1], vp[2], d) # {}
    /\ \A vp \in RedisProducts(cs, d) : \E e \in BOOLEAN : RedisCpes(cs, vp[1], vp[2], e) # {}
=============================================================================
