---------------------------- MODULE RedisQueries -----------------------------
(***************************************************************************)
(* The read side of RedisDriver (db/redis.go) next to its write side: the  *)
(* three queries the HTTP server answers while fetch processes insert.     *)
(* Each query is several Redis commands, so the sets may change between    *)
(* two reads of one query.                                                 *)
(***************************************************************************)
EXTENDS RedisDriver, FiniteSets

CONSTANTS
  Request,   \* requests the server handles at the same time
  Limit      \* n: how many titles a fuzzy search asks for

ASSUME LimitAssumption == Limit \in Nat \ {0}

VARIABLES
  kind,      \* the query a request makes, or "none"
  step,      \* how far it is
  product,   \* argument of GetCpesByVendorProduct
  pending,   \* CPEs, or titles, read by the first command and not yet looked up
  inUse,     \* answer: CPEs, or products, in use
  outdated,  \* answer: deprecated CPEs, or products
  ranks,     \* answer of a fuzzy search: titles with their CPEs
  recorded   \* history: what CPE#DEP recorded when the request began

queryVars == <<kind, step, product, pending, inUse, outdated, ranks, recorded>>
allVars == <<vars, queryVars>>

Kinds == {"products", "cpes", "titles"}

QueryTypeOK ==
  /\ kind \in [Request -> Kinds \cup {"none"}]
  /\ step \in [Request -> {"idle", "reading", "answered"}]
  /\ product \in [Request -> VendorProduct]
  /\ pending \in [Request -> SUBSET (CpeURI \cup Title)]
  /\ \A r \in Request : pending[r] # {} =>
       /\ step[r] = "reading"
       /\ \/ kind[r] = "cpes" /\ pending[r] \subseteq CpeURI
          \/ kind[r] = "titles" /\ pending[r] \subseteq Title
  /\ inUse \in [Request -> SUBSET (CpeURI \cup VendorProduct)]
  /\ outdated \in [Request -> SUBSET (CpeURI \cup VendorProduct)]
  /\ \A r \in Request :
       kind[r] = "cpes" => inUse[r] \subseteq CpeURI /\ outdated[r] \subseteq CpeURI
  /\ ranks \in [Request -> SUBSET [title : Title, cpes : SUBSET CpeURI]]
  /\ recorded \in [Request -> SUBSET Member]

QueryInit ==
  /\ Init
  /\ kind = [r \in Request |-> "none"]
  /\ step = [r \in Request |-> "idle"]
  /\ product \in [Request -> VendorProduct]
  /\ pending = [r \in Request |-> {}]
  /\ inUse = [r \in Request |-> {}]
  /\ outdated = [r \in Request |-> {}]
  /\ ranks = [r \in Request |-> {}]
  /\ recorded = [r \in Request |-> {}]

\* SMEMBERS of the sets the queries read.
Products == {v \in VendorProduct : ProductMember(v) \in store}
DeprecatedProducts == {v \in VendorProduct : DeprecatedProduct(v) \in store}
CpesOfProduct(v) == {c \in CpeURI : VPMember(v, c) \in store}
CpesOfTitle(t) == {c \in CpeURI : TitleMember(t, c) \in store}

-----------------------------------------------------------------------------
Begin(r, k) ==
  /\ step[r] = "idle"
  /\ kind' = [kind EXCEPT ![r] = k]
  /\ step' = [step EXCEPT ![r] = "reading"]
  /\ recorded' = [recorded EXCEPT ![r] = UNION {deps[ft] : ft \in FetchType}]

Answer(r) ==
  /\ step' = [step EXCEPT ![r] = "answered"]
  /\ UNCHANGED <<kind, recorded>>

(***************************************************************************)
(* GetVendorProducts: the products in use, then the deprecated ones.       *)
(***************************************************************************)
ReadProducts(r) ==
  /\ Begin(r, "products")
  /\ inUse' = [inUse EXCEPT ![r] = Products]
  /\ UNCHANGED <<vars, product, pending, outdated, ranks>>

ReadDeprecatedProducts(r) ==
  /\ kind[r] = "products" /\ step[r] = "reading"
  /\ outdated' = [outdated EXCEPT ![r] = DeprecatedProducts]
  /\ Answer(r)
  /\ UNCHANGED <<vars, product, pending, inUse, ranks>>

(***************************************************************************)
(* GetCpesByVendorProduct: the CPEs of the product, then for each of them  *)
(* whether it is deprecated.                                               *)
(***************************************************************************)
ReadCpes(r, v) ==
  /\ Begin(r, "cpes")
  /\ product' = [product EXCEPT ![r] = v]
  /\ pending' = [pending EXCEPT ![r] = CpesOfProduct(v)]
  /\ UNCHANGED <<vars, inUse, outdated, ranks>>

\* SISMEMBER CPE#DeprecatedCPEs.
IsDeprecated(c) == DeprecatedMember(c) \in store

\* Mutant of ClassifyCpe: deprecated CPEs are left out of the answer.
ClassifyCpeInUseOnly(r) ==
  /\ kind[r] = "cpes" /\ step[r] = "reading"
  /\ \E c \in pending[r] :
       /\ pending' = [pending EXCEPT ![r] = @ \ {c}]
       /\ inUse' = [inUse EXCEPT ![r] = IF IsDeprecated(c) THEN @ ELSE @ \cup {c}]
  /\ UNCHANGED <<vars, kind, step, product, outdated, ranks, recorded>>

ClassifyCpe(r) ==
  /\ kind[r] = "cpes" /\ step[r] = "reading"
  /\ \E c \in pending[r] :
       /\ pending' = [pending EXCEPT ![r] = @ \ {c}]
       /\ \/ /\ IsDeprecated(c)
             /\ outdated' = [outdated EXCEPT ![r] = @ \cup {c}]
             /\ UNCHANGED inUse
          \/ /\ ~IsDeprecated(c)
             /\ inUse' = [inUse EXCEPT ![r] = @ \cup {c}]
             /\ UNCHANGED outdated
  /\ UNCHANGED <<vars, kind, step, product, ranks, recorded>>

\* Mutant of AllLookedUp: the answer is returned before every CPE is looked up.
SomeLookedUp(r) ==
  /\ kind[r] \in {"cpes", "titles"} /\ step[r] = "reading"
  /\ Answer(r)
  /\ UNCHANGED <<vars, product, pending, inUse, outdated, ranks>>

AllLookedUp(r) ==
  /\ kind[r] \in {"cpes", "titles"} /\ step[r] = "reading" /\ pending[r] = {}
  /\ Answer(r)
  /\ UNCHANGED <<vars, product, pending, inUse, outdated, ranks>>

(***************************************************************************)
(* GetSimilarCpesByTitle: the list of titles, of which a fuzzy search      *)
(* (external) keeps the closest ones, then the CPEs of each.               *)
(***************************************************************************)
FuzzySearchSet(ts) ==
  {S \in SUBSET ts : Cardinality(S) = IF Cardinality(ts) < Limit THEN Cardinality(ts)
                                                                ELSE Limit}

\* Without a list of titles the query is an error and has no answer.
ReadTitles(r) ==
  /\ titleList # {}
  /\ Begin(r, "titles")
  /\ \E closest \in FuzzySearchSet(titleList) : pending' = [pending EXCEPT ![r] = closest]
  /\ UNCHANGED <<vars, product, inUse, outdated, ranks>>

ReadTitleCpes(r) ==
  /\ kind[r] = "titles" /\ step[r] = "reading"
  /\ \E t \in pending[r] :
       /\ pending' = [pending EXCEPT ![r] = @ \ {t}]
       /\ ranks' = [ranks EXCEPT ![r] = @ \cup {[title |-> t, cpes |-> CpesOfTitle(t)]}]
  /\ UNCHANGED <<vars, kind, step, product, inUse, outdated, recorded>>

\* The handler returns; the slot is free for another request.
Return(r) ==
  /\ step[r] = "answered"
  /\ kind' = [kind EXCEPT ![r] = "none"]
  /\ step' = [step EXCEPT ![r] = "idle"]
  /\ inUse' = [inUse EXCEPT ![r] = {}] /\ outdated' = [outdated EXCEPT ![r] = {}]
  /\ ranks' = [ranks EXCEPT ![r] = {}] /\ recorded' = [recorded EXCEPT ![r] = {}]
  /\ UNCHANGED <<vars, product, pending>>

QueryStep(r) ==
  \/ ReadProducts(r) \/ ReadDeprecatedProducts(r)
  \/ \E v \in VendorProduct : ReadCpes(r, v)
  \/ ClassifyCpe(r) \/ ReadTitles(r) \/ ReadTitleCpes(r)
  \/ AllLookedUp(r) \/ Return(r)

QueryNext ==
  \/ Next /\ UNCHANGED queryVars
  \/ \E r \in Request : QueryStep(r)

QuerySpec == QueryInit /\ [][QueryNext]_allVars

-----------------------------------------------------------------------------
(***************************************************************************)
(* Properties                                                              *)
(***************************************************************************)

AllFeeds == UNION {Feeds(ft) : ft \in FetchType}

\* What one type always lists and no other type ever does: no fetch of the others can
\* delete it.
AlwaysListed == UNION {Stable(ft) \ Foreign(ft) : ft \in FetchType}

\* Once a feed of ft lists m all the later ones do, and no other type ever does.
OnceListedKept(ft, m) ==
  /\ m \notin Foreign(ft)
  /\ \A i, j \in 1..Len(Upstream[ft]) :
       i <= j /\ m \in Members(Upstream[ft][i]) => m \in Members(Upstream[ft][j])

\* A CPE that every feed of its type lists for a product is in the answer for that
\* product, in use or deprecated, even when a fetch replaces the feed during the query.
StableCpeAnswered ==
  \A r \in Request : kind[r] = "cpes" /\ step[r] = "answered" =>
    \A c \in CpeURI :
      VPMember(product[r], c) \in recorded[r] \cap AlwaysListed =>
        c \in inUse[r] \cup outdated[r]

\* The sets that list a product, and the types all of whose feeds list it, in use or
\* deprecated, and do not take a deprecation back.
Listing(v) == {ProductMember(v), DeprecatedProduct(v)}
ListedThroughout(ft, v) ==
  /\ Listing(v) \cap Foreign(ft) = {}
  /\ \A cs \in Feeds(ft) : Listing(v) \cap Members(cs) # {}
  /\ OnceListedKept(ft, DeprecatedProduct(v))

\* A product that every feed of its type lists, in use or deprecated, is in the answer,
\* also when its last CPE in use is deprecated during the query: the deprecated products
\* are read last, and a product joins them before it leaves the others.
StableProductAnswered ==
  \A r \in Request : kind[r] = "products" /\ step[r] = "answered" =>
    \A ft \in FetchType : \A v \in VendorProduct :
      ListedThroughout(ft, v) /\ Listing(v) \cap recorded[r] # {} =>
        v \in inUse[r] \cup outdated[r]

\* The CPEs that every feed of a type gives a title to are in the answer of a search
\* that ranks it.
StableTitleAnswered ==
  \A r \in Request : kind[r] = "titles" /\ step[r] = "answered" =>
    \A s \in ranks[r] : \A c \in CpeURI :
      TitleMember(s.title, c) \in recorded[r] \cap AlwaysListed => c \in s.cpes

\* A CPE that its type lists as deprecated and does not drop again ("CPE#DeprecatedCPEs:
\* Get DeprecatedCPEs") is never answered as a CPE in use.
AlwaysDeprecated(ft, c) ==
  /\ OnceListedKept(ft, DeprecatedMember(c))
  /\ \A cs \in AllFeeds : \A d \in cs : d.cpeURI = c => d.deprecated
DeprecatedNeverInUse ==
  \A r \in Request : kind[r] = "cpes" =>
    \A ft \in FetchType : \A c \in inUse[r] : ~AlwaysDeprecated(ft, c)

-----------------------------------------------------------------------------
(***************************************************************************)
(* What makes them true, in a form every step preserves                    *)
(***************************************************************************)

\* What was recorded when a request began, and its type always lists, still is.
RecordedStays ==
  \A r \in Request : \A ft \in FetchType :
    (recorded[r] \cap Stable(ft)) \ Foreign(ft) \subseteq deps[ft]

\* A request for the CPEs of a product, or of titles, loses none on the way.
NoneLost ==
  \A r \in Request :
    /\ kind[r] = "cpes" => \A c \in CpeURI :
         VPMember(product[r], c) \in recorded[r] \cap AlwaysListed =>
           c \in pending[r] \cup inUse[r] \cup outdated[r]
    /\ \A s \in ranks[r] : \A c \in CpeURI :
         TitleMember(s.title, c) \in recorded[r] \cap AlwaysListed => c \in s.cpes

\* When fetches of one type do not overlap they insert its feeds in the order they are
\* published in, and a run deletes only what its type records.
FeedsInOrder ==
  /\ \A ft \in FetchType : deps[ft] # {} =>
       \E i \in 1..published[ft] : deps[ft] = Members(Upstream[ft][i])
  /\ \A f \in Fetcher : Running(f) =>
       \E j \in 1..published[fetchType[f]] :
         /\ cpes[f] = Upstream[fetchType[f]][j]
         /\ deps[fetchType[f]] # {} =>
              \E i \in 1..j : deps[fetchType[f]] = Members(Upstream[fetchType[f]][i])
  /\ \A f \in Fetcher : oldDeps[f] \subseteq deps[fetchType[f]]

\* A product listed throughout is in one of the two sets, and a request that has not
\* seen it in the first one will find it in the second.
ProductsShown ==
  /\ \A ft \in FetchType : \A v \in VendorProduct :
       ListedThroughout(ft, v) /\ Listing(v) \cap deps[ft] # {} =>
         Listing(v) \cap store # {}
  /\ \A r \in Request : kind[r] = "products" =>
       \A ft \in FetchType : \A v \in VendorProduct :
         ListedThroughout(ft, v) /\ Listing(v) \cap recorded[r] # {} =>
           \/ v \in inUse[r]
           \/ IF step[r] = "reading" THEN DeprecatedProduct(v) \in store
                                    ELSE v \in outdated[r]

\* A CPE that is deprecated for good is marked so before it joins a product.
MarkedFirst ==
  \A ft \in FetchType : \A c \in CpeURI : AlwaysDeprecated(ft, c) =>
    /\ \A v \in VendorProduct : VPMember(v, c) \in store => DeprecatedMember(c) \in store
    /\ \A f \in Fetcher : \A v \in VendorProduct :
         VPMember(v, c) \in Elements(pipe[f]) =>
           DeprecatedMember(c) = Head(pipe[f]) \/ DeprecatedMember(c) \in store
    /\ \A r \in Request : kind[r] = "cpes" =>
         /\ c \in pending[r] => DeprecatedMember(c) \in store
         /\ c \notin inUse[r]

\* Requests that are not under way keep nothing.
IdleRequestsEmpty ==
  \A r \in Request : step[r] = "idle" =>
    kind[r] = "none" /\ inUse[r] = {} /\ outdated[r] = {} /\ ranks[r] = {}
=============================================================================
