------------------------------ MODULE RDBQueries ------------------------------
(***************************************************************************)
(* The read side of RDBDriver (db/rdb.go) next to its write side: the      *)
(* queries the HTTP server (server/server.go) answers while fetch          *)
(* processes insert. A SELECT sees the rows that are committed; a search   *)
(* by title is one SELECT for the titles and one more for each it ranks.   *)
(***************************************************************************)
EXTENDS RDBDriver, Answers

CONSTANTS
  Request,   \* requests the server handles at the same time
  Limit      \* n: how many titles a search asks for

ASSUME LimitAssumption == Limit \in Nat \ {0}

VARIABLES
  kind,      \* the query a request makes, or "none"
  asked,     \* the product GetCpesByVendorProduct is asked for
  pending,   \* titles ranked and not looked up yet
  answer,    \* products or CPEs, in use and deprecated
  ranks,     \* answer of a search: titles with their CPEs
  recorded   \* history: what was stored under the titles a search ranks

queryVars == <<kind, asked, pending, answer, ranks, recorded>>
allVars == <<vars, queryVars>>

Nothing == [inUse |-> {}, deprecated |-> {}]

QueryTypeOK ==
  /\ RDBTypeOK
  /\ kind \in [Request -> {"none", "products", "cpes", "titles"}]
  /\ asked \in [Request -> VendorProduct]
  /\ pending \in [Request -> SUBSET Title]
  /\ \A r \in Request : kind[r] # "titles" => pending[r] = {} /\ ranks[r] = {}
  /\ DOMAIN answer = Request
  /\ \A r \in Request :
       LET S == IF kind[r] = "cpes" THEN CpeURI ELSE VendorProduct
       IN  answer[r] \in [inUse : SUBSET S, deprecated : SUBSET S]
  /\ ranks \in [Request -> SUBSET [title : Title, cpes : SUBSET CpeURI]]
  /\ recorded \in [Request -> SUBSET [fetchType : FetchType, cpe : CategorizedCpe]]

QueryInit ==
  /\ Init
  /\ kind = [r \in Request |-> "none"]
  /\ asked \in [Request -> VendorProduct]
  /\ pending = [r \in Request |-> {}]
  /\ answer = [r \in Request |-> Nothing]
  /\ ranks = [r \in Request |-> {}]
  /\ recorded = [r \in Request |-> {}]

CpesOf(rs) == {r.cpe : r \in rs}

-----------------------------------------------------------------------------
Ask(r, k) ==
  /\ kind[r] = "none"
  /\ kind' = [kind EXCEPT ![r] = k]

GetVendorProducts(r) ==
  /\ Ask(r, "products")
  /\ answer' = [answer EXCEPT ![r] = [inUse |-> RDBProducts(CpesOf(rows), FALSE),
                                      deprecated |-> RDBProducts(CpesOf(rows), TRUE)]]
  /\ UNCHANGED <<vars, asked, pending, ranks, recorded>>

GetCpesByVendorProduct(r, vp) ==
  /\ Ask(r, "cpes")
  /\ asked' = [asked EXCEPT ![r] = vp]
  /\ answer' = [answer EXCEPT ![r] =
       [inUse |-> RDBCpes(CpesOf(rows), vp[1], vp[2], FALSE),
        deprecated |-> RDBCpes(CpesOf(rows), vp[1], vp[2], TRUE)]]
  /\ UNCHANGED <<vars, pending, ranks, recorded>>

\* The closest titles, at most Limit. (external)
FuzzySearchSet(ts) ==
  {S \in SUBSET ts : Cardinality(S) = IF Cardinality(ts) < Limit THEN Cardinality(ts)
                                                                ELSE Limit}

\* The first SELECT of GetSimilarCpesByTitle.
SelectTitles(r) ==
  /\ Ask(r, "titles")
  /\ \E ss \in FuzzySearchSet(RDBTitles(CpesOf(rows))) :
       /\ pending' = [pending EXCEPT ![r] = ss]
       /\ recorded' = [recorded EXCEPT ![r] =
            {[fetchType |-> row.fetchType, cpe |-> row.cpe] :
               row \in {x \in rows : x.cpe.title \in ss}}]
  /\ UNCHANGED <<vars, asked, answer, ranks>>

\* One of the others.
SelectTitleCpes(r) ==
  /\ kind[r] = "titles"
  /\ \E t \in pending[r] :
       /\ pending' = [pending EXCEPT ![r] = @ \ {t}]
       /\ ranks' = [ranks EXCEPT ![r] =
            @ \cup {[title |-> t, cpes |-> RDBTitleCpes(CpesOf(rows), t)]}]
  /\ UNCHANGED <<vars, kind, asked, answer, recorded>>

\* Mutant of Return: what was found is kept for the next request.
ReturnKept(r) ==
  /\ kind[r] # "none"
  /\ kind' = [kind EXCEPT ![r] = "none"]
  /\ recorded' = [recorded EXCEPT ![r] = {}]
  /\ UNCHANGED <<vars, asked, pending, answer, ranks>>

\* The handler returns, with the answer or the error of a SELECT.
Return(r) ==
  /\ kind[r] # "none"
  /\ kind' = [kind EXCEPT ![r] = "none"]
  /\ pending' = [pending EXCEPT ![r] = {}] /\ answer' = [answer EXCEPT ![r] = Nothing]
  /\ ranks' = [ranks EXCEPT ![r] = {}] /\ recorded' = [recorded EXCEPT ![r] = {}]
  /\ UNCHANGED <<vars, asked>>

QueryStep(r) ==
  \/ GetVendorProducts(r) \/ SelectTitles(r) \/ SelectTitleCpes(r) \/ Return(r)
  \/ \E vp \in VendorProduct : GetCpesByVendorProduct(r, vp)

QueryNext ==
  \/ Next /\ UNCHANGED queryVars
  \/ \E r \in Request : QueryStep(r)

QuerySpec == QueryInit /\ [][QueryNext]_allVars

-----------------------------------------------------------------------------
(***************************************************************************)
(* Properties                                                              *)
(***************************************************************************)

\* The dictionaries made of one whole feed, or none, per type.
WholeDictionaries ==
  {n \cup j \cup v : n \in Upstream["nvd"] \cup {{}}, j \in Upstream["jvn"] \cup {{}},
                   v \in Upstream["vls"] \cup {{}}}

\* What a request answers is true of one dictionary of whole feeds, though feeds are
\* being replaced row by row; the ranks of a search, each of one.
AnswersFromWholeFeeds ==
  \A r \in Request :
    /\ kind[r] = "products" => \E cs \in WholeDictionaries :
         answer[r] = [inUse |-> RDBProducts(cs, FALSE), deprecated |-> RDBProducts(cs, TRUE)]
    /\ kind[r] = "cpes" => \E cs \in WholeDictionaries :
         LET v == asked[r][1]
             p == asked[r][2]
         IN  answer[r] = [inUse |-> RDBCpes(cs, v, p, FALSE),
                          deprecated |-> RDBCpes(cs, v, p, TRUE)]
    /\ \A s \in ranks[r] : \E cs \in WholeDictionaries : s.cpes = RDBTitleCpes(cs, s.title)

\* A search answers the CPEs to which all feeds of a type give the title, although feeds
\* may have been replaced since it read the titles.
StableTitleFound ==
  \A r \in Request : \A s \in ranks[r] : \A row \in recorded[r] :
    /\ row.cpe.title = s.title
    /\ \A feed \in Upstream[row.fetchType] :
         \E c \in feed : c.title = s.title /\ c.cpeURI = row.cpe.cpeURI
    => row.cpe.cpeURI \in s.cpes
=============================================================================
