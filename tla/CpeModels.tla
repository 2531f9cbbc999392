------------------------------ MODULE CpeModels ------------------------------
(***************************************************************************)
(* The vocabulary the storage drivers share (models/models.go): the kinds  *)
(* of fetch, the categorized CPE a driver stores, and the members of the   *)
(* Redis sets that one categorized CPE turns into (db/redis.go).           *)
(*                                                                         *)
(* A CPE name, a title and a vendor/product pair are opaque: no property   *)
(* looks inside them.                                                      *)
(***************************************************************************)
EXTENDS Naturals, Sequences

CONSTANTS
  Title,          \* titles a feed gives to CPEs
  CpeURI,         \* CPE names, bound to a URI
  VendorProduct   \* "vendor##product" pairs

FetchType == {"nvd", "jvn", "vls"}

\* What the drivers store of one CPE of a feed.
CategorizedCpe ==
  [title : Title, cpeURI : CpeURI, vp : VendorProduct, deprecated : BOOLEAN]

-----------------------------------------------------------------------------
(***************************************************************************)
(* Members of the Redis sets. A member is a tuple that starts with the     *)
(* name of the set (or family of sets) it belongs to, the names being the  *)
(* keys of the JSON kept in CPE#DEP.                                       *)
(***************************************************************************)

VPMember(v, c)         == <<"VP", v, c>>
ProductMember(v)       == <<"VendorProducts", v>>
DeprecatedProduct(v)   == <<"DeprecatedVendorProducts", v>>
DeprecatedMember(c)    == <<"DeprecatedCPEs", c>>
TitleMember(t, c)      == <<"Title", t, c>>

Member ==
  UNION { {VPMember(v, c) : v \in VendorProduct, c \in CpeURI},
          {ProductMember(v) : v \in VendorProduct},
          {DeprecatedProduct(v) : v \in VendorProduct},
          {DeprecatedMember(c) : c \in CpeURI},
          {TitleMember(t, c) : t \in Title, c \in CpeURI} }

\* Mutant of AddCommands: key and member of a title's set are swapped.
AddCommandsSwapped(c) ==
  << VPMember(c.vp, c.cpeURI), TitleMember(c.cpeURI, c.title) >>

\* Mutant of AddCommands: a CPE joins its product before it is marked deprecated.
AddCommandsMarkedLate(c) ==
  IF c.deprecated
  THEN << VPMember(c.vp, c.cpeURI), TitleMember(c.title, c.cpeURI),
          DeprecatedMember(c.cpeURI), DeprecatedProduct(c.vp) >>
  ELSE << ProductMember(c.vp),
          VPMember(c.vp, c.cpeURI), TitleMember(c.title, c.cpeURI) >>

\* The SADD commands InsertCpes queues for one categorized CPE, in order.
AddCommands(c) ==
  IF c.deprecated
  THEN << DeprecatedMember(c.cpeURI), DeprecatedProduct(c.vp),
          VPMember(c.vp, c.cpeURI), TitleMember(c.title, c.cpeURI) >>
  ELSE << ProductMember(c.vp),
          VPMember(c.vp, c.cpeURI), TitleMember(c.title, c.cpeURI) >>

Elements(s) == {s[i] : i \in DOMAIN s}

\* The members one categorized CPE, or a set of them, stands for.
MembersOf(c) == Elements(AddCommands(c))
Members(cs) == UNION {MembersOf(c) : c \in cs}

\* The titles that a set of members gives CPEs for.
TitlesIn(ms) == {t \in Title : \E c \in CpeURI : TitleMember(t, c) \in ms}

\* The pipeline that deletes outdated members goes through the sets in this order.
DeleteRank == [VP |-> 1, VendorProducts |-> 2, DeprecatedVendorProducts |-> 3,
               DeprecatedCPEs |-> 4, Title |-> 5]
NextToDelete(ms) ==
  {m \in ms : \A n \in ms : DeleteRank[m[1]] <= DeleteRank[n[1]]}
=============================================================================
