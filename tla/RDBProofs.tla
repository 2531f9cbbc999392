------------------------------- MODULE RDBProofs -------------------------------
(***************************************************************************)
(* Theorems about RDBDriver and RDBQueries, for any processes, requests,   *)
(* feeds and ids of rows: the inductive invariant of inserts, that an      *)
(* insert is one step of Dictionary, and what a request answers while      *)
(* fetch processes replace feeds.                                          *)
(***************************************************************************)
EXTENDS RDBQueries, FiniteSetTheorems, TLAPS

-----------------------------------------------------------------------------
(***************************************************************************)
(* The inductive invariant                                                 *)
(***************************************************************************)

Inv == RDBTypeOK /\ TxInv

\* The invariant holds before the first insert.
LEMMA InitInv == Init => Inv
BY RDBAssumption DEF Init, Inv, RDBTypeOK, TxInv, OwnPart, Apart, InTx, FetchType

\* The feed an insert begins with is one of its type, and nothing of it is done.
LEMMA BeginKeepsInv ==
  ASSUME Inv, NEW f \in Fetcher, NEW ft \in FetchType, Begin(f, ft)
  PROVE  Inv'
<1>1. PICK feed \in Upstream[ft] : /\ cpes' = [cpes EXCEPT ![f] = feed]
                                   /\ todo' = [todo EXCEPT ![f] = feed]
  BY DEF Begin
<1>2. feed \in SUBSET CategorizedCpe
  BY RDBAssumption
<1>3. RDBTypeOK'
  BY <1>1, <1>2 DEF Inv, RDBTypeOK, Begin
<1>4. ASSUME NEW g \in Fetcher PROVE OwnPart(g)'
  BY <1>1 DEF Inv, RDBTypeOK, TxInv, OwnPart, Begin, InTx, IdsOf, RowsOf
<1>5. ASSUME NEW g \in Fetcher, NEW h \in Fetcher, g # h PROVE Apart(g, h)'
  BY <1>5 DEF Inv, RDBTypeOK, TxInv, OwnPart, Apart, Begin, InTx
<1> QED  BY <1>3, <1>4, <1>5 DEF Inv, TxInv

\* The ids selected are those of all rows of the type.
LEMMA SelectKeepsInv ==
  ASSUME Inv, NEW f \in Fetcher, SelectOld(f)
  PROVE  Inv'
<1>1. RDBTypeOK'
  BY DEF Inv, RDBTypeOK, SelectOld, IdsOf, RowsOf, CategorizedRow
<1>2. ASSUME NEW g \in Fetcher PROVE OwnPart(g)'
  BY DEF Inv, RDBTypeOK, TxInv, OwnPart, SelectOld, InTx, IdsOf, RowsOf
<1>3. ASSUME NEW g \in Fetcher, NEW h \in Fetcher, g # h PROVE Apart(g, h)'
  BY <1>3 DEF Inv, RDBTypeOK, TxInv, Apart, SelectOld, InTx
<1> QED  BY <1>1, <1>2, <1>3 DEF Inv, TxInv

\* An id that is deleted is of a row of the type still, for nobody else deletes such rows.
LEMMA DeleteKeepsInv ==
  ASSUME Inv, NEW f \in Fetcher, DeleteOld(f)
  PROVE  Inv'
<1>1. PICK id \in oldIDs[f] :
        /\ oldIDs' = [oldIDs EXCEPT ![f] = @ \ {id}]
        /\ deleted' = [deleted EXCEPT ![f] = @ \cup (IdsOf(rows) \cap {id})]
  BY DEF DeleteOld
<1>2. id \in Ids /\ id \in IdsOf(rows)
  BY DEF Inv, RDBTypeOK, TxInv, OwnPart, DeleteOld, IdsOf, RowsOf
<1>3. deleted' = [deleted EXCEPT ![f] = @ \cup {id}]
  BY <1>1, <1>2
<1>4. RDBTypeOK'
  BY <1>1, <1>2, <1>3 DEF Inv, RDBTypeOK, DeleteOld
<1>5. ASSUME NEW g \in Fetcher PROVE OwnPart(g)'
  BY <1>1, <1>3 DEF Inv, RDBTypeOK, TxInv, OwnPart, DeleteOld, InTx, IdsOf, RowsOf
<1>6. ASSUME NEW g \in Fetcher, NEW h \in Fetcher, g # h PROVE Apart(g, h)'
  BY <1>6 DEF Inv, RDBTypeOK, TxInv, Apart, DeleteOld, InTx
<1> QED  BY <1>4, <1>5, <1>6 DEF Inv, TxInv

\* The id of a row that is inserted is new to the table and to all transactions.
LEMMA InsertKeepsInv ==
  ASSUME Inv, NEW f \in Fetcher, InsertNew(f)
  PROVE  Inv'
<1>1. PICK c \in todo[f] :
        /\ todo' = [todo EXCEPT ![f] = @ \ {c}]
        /\ inserted' = [inserted EXCEPT ![f] =
             @ \cup {[id |-> NewId, fetchType |-> fetchType[f], cpe |-> c]}]
  BY DEF InsertNew
<1> DEFINE row == [id |-> NewId, fetchType |-> fetchType[f], cpe |-> c]
<1>2. /\ NewId \in Ids /\ \A s \in rows : s.id # NewId
      /\ \A g \in Fetcher : \A s \in inserted[g] : s.id # NewId
  <2>1. NewId \in FreeId
    BY DEF NewId, InsertNew
  <2> QED  BY <2>1 DEF FreeId, IdsOf
<1>3. /\ row.id = NewId /\ row.fetchType = fetchType[f] /\ row.cpe = c
      /\ row \in CategorizedRow
  BY <1>2 DEF Inv, RDBTypeOK, CategorizedRow
<1> HIDE DEF row
<1>4. inserted' = [inserted EXCEPT ![f] = @ \cup {row}]
  BY <1>1 DEF row
<1>5. RDBTypeOK'
  BY <1>1, <1>3, <1>4 DEF Inv, RDBTypeOK, InsertNew
<1>6. ASSUME NEW g \in Fetcher PROVE OwnPart(g)'
  <2>1. OwnPart(g)
    BY DEF Inv, TxInv
  <2>2. CASE g = f
    <3>1. /\ inserted[f]' = inserted[f] \cup {row} /\ todo[f]' = todo[f] \ {c}
          /\ pc' = pc /\ fetchType' = fetchType /\ rows' = rows /\ cpes' = cpes
          /\ oldIDs' = oldIDs /\ deleted' = deleted /\ pc[f] = "replace"
      BY <1>1, <1>4 DEF InsertNew, Inv, RDBTypeOK
    <3>2. \A r \in inserted[f] : r.cpe # c /\ r.id # NewId
      BY <1>1, <1>2, <2>1, <2>2 DEF OwnPart
    <3>3. {r.cpe : r \in inserted[f] \cup {row}} \cup (todo[f] \ {c})
            = {r.cpe : r \in inserted[f]} \cup todo[f]
      BY <1>1, <1>3
    <3> QED  BY <1>1, <1>2, <1>3, <2>1, <2>2, <3>1, <3>2, <3>3 DEF OwnPart, InTx, IdsOf, RowsOf
  <2>3. CASE g # f
    BY <1>1, <1>4, <2>1, <2>3 DEF InsertNew, Inv, RDBTypeOK, OwnPart, InTx, IdsOf, RowsOf
  <2> QED  BY <2>2, <2>3
<1>7. ASSUME NEW g \in Fetcher, NEW h \in Fetcher, g # h PROVE Apart(g, h)'
  <2>1. Apart(g, h)
    BY <1>7 DEF Inv, TxInv
  <2> QED  BY <1>2, <1>3, <1>4, <1>7, <2>1 DEF Inv, RDBTypeOK, Apart, InsertNew, InTx
<1> QED  BY <1>5, <1>6, <1>7 DEF Inv, TxInv
\* A transaction that ends without effect leaves the others what they are.
LEMMA UndoKeepsInv ==
  ASSUME Inv, NEW f \in Fetcher, NEW s \in {"idle", "done"}, EndTx(f, s), UNCHANGED rows
  PROVE  Inv'
<1>1. RDBTypeOK'
  BY DEF Inv, RDBTypeOK, EndTx
<1>2. ASSUME NEW g \in Fetcher PROVE OwnPart(g)'
  BY DEF Inv, RDBTypeOK, TxInv, OwnPart, EndTx, InTx, IdsOf, RowsOf
<1>3. ASSUME NEW g \in Fetcher, NEW h \in Fetcher, g # h PROVE Apart(g, h)'
  BY <1>3 DEF Inv, RDBTypeOK, TxInv, Apart, EndTx, InTx
<1> QED  BY <1>1, <1>2, <1>3 DEF Inv, TxInv

\* What a commit does to the rows of its type, and not to those of the others.
LEMMA CommitRows ==
  ASSUME Inv, NEW f \in Fetcher, Commit(f)
  PROVE  /\ rows' = {r \in rows : r.fetchType # fetchType[f]} \cup inserted[f]
         /\ \A r \in inserted[f] : r.fetchType = fetchType[f]
<1>1. deleted[f] = IdsOf(RowsOf(fetchType[f]))
  <2>1. oldIDs[f] \cup deleted[f] = IdsOf(RowsOf(fetchType[f])) /\ oldIDs[f] = {}
    BY DEF Inv, TxInv, OwnPart, Commit, Inserted
  <2> QED  BY <2>1
<1>2. ASSUME NEW r \in rows PROVE r.id \in deleted[f] <=> r.fetchType = fetchType[f]
  BY <1>1 DEF Inv, RDBTypeOK, IdsOf, RowsOf
<1> QED  BY <1>2 DEF Commit, Inv, TxInv, OwnPart

\* No other transaction goes by rows of the type: where any may overlap, the database is
\* locked, and COMMIT waits for those that have read.
LEMMA CommitKeepsInv ==
  ASSUME Inv, ProperUse, NEW f \in Fetcher, Commit(f)
  PROVE  Inv'
<1>1. EndTx(f, "done")
  BY DEF Commit
<1>2. /\ rows' = {r \in rows : r.fetchType # fetchType[f]} \cup inserted[f]
      /\ \A r \in inserted[f] : r.fetchType = fetchType[f]
  BY CommitRows
<1>3. RDBTypeOK'
  <2>1. \A r, s \in rows' : r.id = s.id => r = s
    BY <1>2 DEF Inv, RDBTypeOK, TxInv, OwnPart
  <2>2. rows' \subseteq CategorizedRow
    BY <1>2 DEF Inv, RDBTypeOK
  <2> QED  BY <1>1, <2>1, <2>2 DEF Inv, RDBTypeOK, EndTx
<1>4. ASSUME NEW g \in Fetcher, g # f, pc[g] = "replace" PROVE fetchType[g] # fetchType[f]
  <2>1. ~scenario.overlapSameType
    BY <1>4 DEF Commit, ProperUse, Inv, RDBTypeOK
  <2> QED  BY <1>4, <2>1 DEF Commit, Inserted, Inv, TxInv, Apart, InTx
<1>5. ASSUME NEW g \in Fetcher PROVE OwnPart(g)'
  <2>1. OwnPart(g)
    BY DEF Inv, TxInv
  <2>2. CASE g = f
    BY <1>1, <2>2 DEF Inv, RDBTypeOK, EndTx, OwnPart, InTx
  <2>3. CASE g # f
    <3>1. /\ pc[g]' = pc[g] /\ fetchType' = fetchType /\ cpes[g]' = cpes[g]
          /\ todo[g]' = todo[g] /\ oldIDs[g]' = oldIDs[g] /\ deleted[g]' = deleted[g]
          /\ inserted[g]' = inserted[g]
      BY <1>1, <2>3 DEF Inv, RDBTypeOK, EndTx
    <3>2. pc[g] = "replace" => RowsOf(fetchType[g])' = RowsOf(fetchType[g])
      BY <1>2, <1>4, <2>3, <3>1 DEF RowsOf
    <3>3. \A r \in inserted[g] : \A s \in rows' : s.id # r.id
      BY <1>2, <2>1, <2>3 DEF OwnPart, Inv, TxInv, Apart
    <3> QED  BY <2>1, <3>1, <3>2, <3>3 DEF OwnPart, InTx, IdsOf
  <2> QED  BY <2>2, <2>3
<1>6. ASSUME NEW g \in Fetcher, NEW h \in Fetcher, g # h PROVE Apart(g, h)'
  BY <1>1, <1>6 DEF Inv, RDBTypeOK, TxInv, Apart, EndTx, InTx
<1> QED  BY <1>3, <1>5, <1>6 DEF Inv, TxInv

\* Every step keeps the invariant.
LEMMA InvInductive ==
  ASSUME ProperUse
  PROVE  Inv /\ [Next]_vars => Inv'
<1> SUFFICES ASSUME Inv, [Next]_vars PROVE Inv'
  OBVIOUS
<1>1. ASSUME NEW f \in Fetcher, InsertStep(f) PROVE Inv'
  <2>1. ASSUME NEW ft \in FetchType, Begin(f, ft) PROVE Inv'
    BY <2>1, BeginKeepsInv
  <2>2. CASE SelectOld(f)
    BY <2>2, SelectKeepsInv
  <2>3. CASE DeleteOld(f)
    BY <2>3, DeleteKeepsInv
  <2>4. CASE InsertNew(f)
    BY <2>4, InsertKeepsInv
  <2>5. CASE Commit(f)
    BY <2>5, CommitKeepsInv
  <2>6. CASE CommitFails(f)
    BY <2>6, UndoKeepsInv DEF CommitFails
  <2>7. CASE Rollback(f)
    BY <2>7, UndoKeepsInv DEF Rollback
  <2> QED  BY <1>1, <2>1, <2>2, <2>3, <2>4, <2>5, <2>6, <2>7 DEF InsertStep
<1>2. CASE UNCHANGED vars
  <2>1. RDBTypeOK'
    BY <1>2 DEF vars, txVars, Inv, RDBTypeOK
  <2>2. TxInv'
    BY <1>2 DEF vars, txVars, Inv, TxInv, OwnPart, Apart, InTx, IdsOf, RowsOf
  <2> QED  BY <2>1, <2>2 DEF Inv
<1> QED  BY <1>1, <1>2 DEF Next

\* Where fetches of one type do not overlap, or the database is locked: rows have distinct
\* ids and every variable its type, whatever transactions interleave, fail or are lost.
THEOREM RDBTypeCorrect ==
  ASSUME ProperUse
  PROVE  Spec => []RDBTypeOK
<1>1. Inv => RDBTypeOK
  BY DEF Inv
<1> QED  BY InitInv, InvInductive, <1>1, PTL DEF Spec

\* A transaction goes by the ids of all rows of its type from SELECT to COMMIT.
THEOREM TxInvariant ==
  ASSUME ProperUse
  PROVE  Spec => []TxInv
<1>1. Inv => TxInv
  BY DEF Inv
<1> QED  BY InitInv, InvInductive, <1>1, PTL DEF Spec

-----------------------------------------------------------------------------
(***************************************************************************)
(* What InsertCpes promises                                                *)
(***************************************************************************)

\* A commit makes the part of its type the feed, and leaves the others.
LEMMA CommitReplaces ==
  ASSUME Inv, NEW f \in Fetcher, Commit(f), NEW ft \in FetchType
  PROVE  Stored(ft)' = IF ft = fetchType[f] THEN Once(cpes[f]) ELSE Stored(ft)
<1>1. /\ rows' = {r \in rows : r.fetchType # fetchType[f]} \cup inserted[f]
      /\ \A r \in inserted[f] : r.fetchType = fetchType[f]
  BY CommitRows
<1>2. CASE ft # fetchType[f]
  <2>1. RowsOf(ft)' = RowsOf(ft)
    BY <1>1, <1>2 DEF RowsOf
  <2> QED  BY <1>2, <2>1 DEF Stored
<1>3. CASE ft = fetchType[f]
  <2>1. RowsOf(ft)' = inserted[f]
    BY <1>1, <1>3 DEF RowsOf
  <2>2. {r.cpe : r \in inserted[f]} = cpes[f]
    BY DEF Commit, Inserted, Inv, TxInv, OwnPart, InTx
  <2>3. ASSUME NEW c \in cpes[f] PROVE Cardinality({r \in inserted[f] : r.cpe = c}) = 1
    <3>1. PICK r \in inserted[f] : r.cpe = c
      BY <2>2, <2>3
    <3>2. {s \in inserted[f] : s.cpe = c} = {r}
      BY <3>1 DEF Inv, TxInv, OwnPart
    <3> QED  BY <3>2, FS_Singleton
  <2>4. Stored(ft)'
          = [c \in {r.cpe : r \in inserted[f]} |-> Cardinality({r \in inserted[f] : r.cpe = c})]
    BY <2>1 DEF Stored
  <2>5. Stored(ft)' = Once(cpes[f])
    BY <2>2, <2>3, <2>4 DEF Once
  <2> QED  BY <1>3, <2>5
<1> QED  BY <1>2, <1>3

\* A COMMIT that succeeds leaves the feed in the database, every CPE once, and nothing else
\* of the type.
THEOREM CommitStores ==
  ASSUME ProperUse
  PROVE  Spec => CommitStoresFeed
<1>1. Inv /\ [Next]_vars =>
        [\A f \in Fetcher : Commit(f) => Stored(fetchType[f])' = Once(cpes[f])]_vars
  <2> SUFFICES ASSUME Inv, NEW f \in Fetcher, Commit(f)
               PROVE  Stored(fetchType[f])' = Once(cpes[f])
    OBVIOUS
  <2>1. fetchType' = fetchType /\ fetchType[f] \in FetchType
    BY DEF Commit, EndTx, Inv, RDBTypeOK
  <2>2. \A ft \in FetchType : ft = fetchType[f] => Stored(ft)' = Once(cpes[f])
    BY CommitReplaces
  <2>3. \A ft \in FetchType : ft = fetchType[f]' => Stored(ft)' = Stored(fetchType[f])'
    BY DEF Stored, RowsOf
  <2> QED  BY <2>1, <2>2, <2>3
<1> QED  BY InitInv, InvInductive, <1>1, PTL DEF Spec, CommitStoresFeed

\* Whatever transactions interleave, fail or are lost, readers see the dictionary change by
\* the replacement of the part of one type by a whole feed.
THEOREM InsertIsAtomic ==
  ASSUME ProperUse
  PROVE  Spec => ImplementsDictionary
<1> DEFINE Content == [ft \in FetchType |-> {Once(feed) : feed \in Upstream[ft] \cup {{}}}]
<1> DEFINE part == [ft \in FetchType |-> Stored(ft)]
<1>1. Init => Dict!DictionaryInit
  <2> SUFFICES ASSUME Init PROVE Dict!DictionaryInit
    OBVIOUS
  <2>1. ASSUME NEW ft \in FetchType PROVE Stored(ft) = Once({})
    BY DEF Init, Stored, Once, RowsOf
  <2>2. ASSUME NEW ft \in FetchType PROVE Once({}) = CHOOSE c \in Content[ft] : DOMAIN c = {}
    <3>1. Once({}) \in Content[ft] /\ DOMAIN Once({}) = {}
      BY DEF Once
    <3>2. ASSUME NEW c \in Content[ft], DOMAIN c = {} PROVE c = Once({})
      BY <3>2 DEF Once
    <3> QED  BY <3>1, <3>2
  <2> QED  BY <2>1, <2>2 DEF Dict!DictionaryInit
<1>2. Inv /\ [Next]_vars => [Dict!DictionaryNext]_part
  <2> SUFFICES ASSUME Inv, [Next]_vars PROVE Dict!DictionaryNext \/ part' = part
    OBVIOUS
  <2>1. ASSUME NEW f \in Fetcher, Commit(f) PROVE Dict!DictionaryNext
    <3>1. fetchType[f] \in FetchType /\ Once(cpes[f]) \in Content[fetchType[f]]
      BY <2>1 DEF Inv, RDBTypeOK, TxInv, OwnPart, Commit, Inserted, InTx
    <3>2. part' = [part EXCEPT ![fetchType[f]] = Once(cpes[f])]
      <4> DEFINE new == [part EXCEPT ![fetchType[f]] = Once(cpes[f])]
      <4>1. new = [ft \in FetchType |-> IF ft = fetchType[f] THEN Once(cpes[f]) ELSE Stored(ft)]
        BY <3>1
      <4>2. \A ft \in FetchType :
              Stored(ft)' = IF ft = fetchType[f] THEN Once(cpes[f]) ELSE Stored(ft)
        BY <2>1, CommitReplaces
      <4>3. part' = [ft \in FetchType |-> Stored(ft)']
        OBVIOUS
      <4> QED  BY <4>1, <4>2, <4>3
    <3> QED  BY <3>1, <3>2 DEF Dict!DictionaryNext, Dict!Replace
  <2>2. ASSUME UNCHANGED rows PROVE part' = part
    BY <2>2 DEF Stored, RowsOf
  <2>3. ASSUME NEW f \in Fetcher, InsertStep(f), ~Commit(f) PROVE UNCHANGED rows
    BY <2>3 DEF InsertStep, Begin, SelectOld, DeleteOld, InsertNew, CommitFails, Rollback
  <2>4. UNCHANGED vars => UNCHANGED rows
    BY DEF vars
  <2> QED  BY <2>1, <2>2, <2>3, <2>4 DEF Next
<1> QED
  BY InitInv, InvInductive, <1>1, <1>2, PTL DEF Spec, ImplementsDictionary, Dict!DictionarySpec

-----------------------------------------------------------------------------
(***************************************************************************)
(* Requests next to inserts                                                *)
(***************************************************************************)

\* The CPEs stored of a type.
Part(ft) == CpesOf(RowsOf(ft))

\* The table holds of each type one whole feed, or nothing.
WholeParts == \A ft \in FetchType : Part(ft) \in Upstream[ft] \cup {{}}

\* Of the types of what a search recorded, something is stored from then on.
SearchInv ==
  \A r \in Request : \A row \in recorded[r] :
    row.fetchType \in FetchType /\ Part(row.fetchType) \in Upstream[row.fetchType]

QueryInv ==
  Inv /\ QueryTypeOK /\ WholeParts /\ SearchInv /\ AnswersFromWholeFeeds /\ StableTitleFound

-----------------------------------------------------------------------------
(* The table *)

\* Of the parts of the table, a step of a fetch process changes one at most, into a feed.
LEMMA PartsReplaced ==
  ASSUME Inv, [Next]_vars, NEW ft \in FetchType
  PROVE  Part(ft)' = Part(ft) \/ Part(ft)' \in Upstream[ft]
<1>1. ASSUME NEW f \in Fetcher, Commit(f)
      PROVE  Part(ft)' = Part(ft) \/ Part(ft)' \in Upstream[ft]
  <2>1. /\ rows' = {r \in rows : r.fetchType # fetchType[f]} \cup inserted[f]
        /\ \A r \in inserted[f] : r.fetchType = fetchType[f]
    BY <1>1, CommitRows
  <2>2. CASE ft # fetchType[f]
    BY <2>1, <2>2 DEF Part, CpesOf, RowsOf
  <2>3. CASE ft = fetchType[f]
    <3>1. RowsOf(ft)' = inserted[f]
      BY <2>1, <2>3 DEF RowsOf
    <3>2. {r.cpe : r \in inserted[f]} = cpes[f] /\ cpes[f] \in Upstream[ft]
      BY <1>1, <2>3 DEF Commit, Inserted, Inv, TxInv, OwnPart, InTx
    <3> QED  BY <3>1, <3>2 DEF Part, CpesOf
  <2> QED  BY <2>2, <2>3
<1>2. ASSUME NEW f \in Fetcher, InsertStep(f), ~Commit(f) PROVE UNCHANGED rows
  BY <1>2 DEF InsertStep, Begin, SelectOld, DeleteOld, InsertNew, CommitFails, Rollback
<1>3. UNCHANGED rows => Part(ft)' = Part(ft)
  BY DEF Part, RowsOf, CpesOf
<1> QED  BY <1>1, <1>2, <1>3 DEF Next, vars

\* What a SELECT sees is a dictionary of whole feeds.
LEMMA RowsAreWhole ==
  ASSUME Inv, WholeParts
  PROVE  CpesOf(rows) \in WholeDictionaries
<1>1. CpesOf(rows) = Part("nvd") \cup Part("jvn") \cup Part("vls")
  BY DEF Inv, RDBTypeOK, CategorizedRow, FetchType, CpesOf, Part, RowsOf
<1>2. /\ Part("nvd") \in Upstream["nvd"] \cup {{}}
      /\ Part("jvn") \in Upstream["jvn"] \cup {{}}
      /\ Part("vls") \in Upstream["vls"] \cup {{}}
  BY DEF WholeParts, FetchType
<1> DEFINE n == Part("nvd")
<1> DEFINE j == Part("jvn")
<1> DEFINE v == Part("vls")
<1> HIDE DEF n, j, v
<1>3. /\ n \in Upstream["nvd"] \cup {{}}
      /\ j \in Upstream["jvn"] \cup {{}}
      /\ v \in Upstream["vls"] \cup {{}}
  BY <1>2 DEF n, j, v
<1>4. n \cup j \cup v \in WholeDictionaries
  <2>1. \E a \in Upstream["nvd"] \cup {{}}, b \in Upstream["jvn"] \cup {{}},
           c \in Upstream["vls"] \cup {{}} : n \cup j \cup v = a \cup b \cup c
    BY <1>3
  <2> QED  BY <2>1 DEF WholeDictionaries
<1> QED  BY <1>1, <1>4 DEF n, j, v

\* A fetch process changes what is stored, and nothing that was answered.
LEMMA FetchKeepsQueryInv ==
  ASSUME ProperUse, QueryInv, [Next]_vars, UNCHANGED queryVars
  PROVE  QueryInv'
<1>1. Inv'
  BY InvInductive DEF QueryInv
<1>2. WholeParts'
  BY PartsReplaced DEF QueryInv, WholeParts
<1>3. SearchInv'
  <2> SUFFICES ASSUME NEW r \in Request, NEW row \in recorded[r]
               PROVE  row.fetchType \in FetchType
                      /\ Part(row.fetchType)' \in Upstream[row.fetchType]
    BY DEF SearchInv, queryVars, Part, RowsOf, CpesOf
  <2> QED  BY PartsReplaced DEF QueryInv, SearchInv
<1>4. AnswersFromWholeFeeds'
  BY DEF queryVars, QueryInv, AnswersFromWholeFeeds
<1>5. StableTitleFound'
  BY DEF queryVars, QueryInv, StableTitleFound
<1>6. QueryTypeOK'
  BY <1>1 DEF queryVars, QueryInv, QueryTypeOK, Inv
<1> QED  BY <1>1, <1>2, <1>3, <1>4, <1>5, <1>6 DEF QueryInv
-----------------------------------------------------------------------------
(* The requests *)

\* A request starts with nothing found before.
LEMMA QueryInitInv == QueryInit => QueryInv
<1> SUFFICES ASSUME QueryInit PROVE QueryInv
  OBVIOUS
<1>1. Inv
  BY InitInv DEF QueryInit
<1>2. WholeParts
  BY DEF QueryInit, Init, WholeParts, Part, RowsOf, CpesOf
<1>3. SearchInv /\ AnswersFromWholeFeeds /\ StableTitleFound
  BY DEF QueryInit, SearchInv, AnswersFromWholeFeeds, StableTitleFound
<1>4. QueryTypeOK
  BY <1>1 DEF QueryInit, QueryTypeOK, Nothing, Inv
<1> QED  BY <1>1, <1>2, <1>3, <1>4 DEF QueryInv

\* A request does not touch the table, of which it sees whole feeds.
LEMMA RequestReads ==
  ASSUME ProperUse, QueryInv, UNCHANGED vars
  PROVE  /\ Inv' /\ WholeParts' /\ rows' = rows
         /\ \A ft : Part(ft)' = Part(ft)
         /\ CpesOf(rows) \in WholeDictionaries /\ CpesOf(rows) \subseteq CategorizedCpe
<1>1. Inv' /\ WholeParts'
  BY InvInductive, PartsReplaced DEF QueryInv, WholeParts
<1>2. rows' = rows /\ \A ft : Part(ft)' = Part(ft)
  BY DEF vars, Part, RowsOf, CpesOf
<1>3. CpesOf(rows) \in WholeDictionaries
  BY RowsAreWhole DEF QueryInv
<1>4. CpesOf(rows) \subseteq CategorizedCpe
  BY DEF QueryInv, Inv, RDBTypeOK, CategorizedRow, CpesOf
<1> QED  BY <1>1, <1>2, <1>3, <1>4

\* The products are those of the dictionary the SELECT saw.
LEMMA ProductsKeepQueryInv ==
  ASSUME ProperUse, QueryInv, NEW r \in Request, GetVendorProducts(r)
  PROVE  QueryInv'
<1>1. UNCHANGED vars
  BY DEF GetVendorProducts
<1> DEFINE cs == CpesOf(rows)
<1>2. /\ Inv' /\ WholeParts' /\ rows' = rows /\ \A ft : Part(ft)' = Part(ft)
      /\ cs \in WholeDictionaries /\ cs \subseteq CategorizedCpe
  BY <1>1, RequestReads
<1> DEFINE new == [inUse |-> RDBProducts(cs, FALSE), deprecated |-> RDBProducts(cs, TRUE)]
<1>3. new \in [inUse : SUBSET VendorProduct, deprecated : SUBSET VendorProduct]
  BY <1>2 DEF RDBProducts, CategorizedCpe
<1>4. /\ kind' = [kind EXCEPT ![r] = "products"] /\ answer' = [answer EXCEPT ![r] = new]
      /\ UNCHANGED <<asked, pending, ranks, recorded>> /\ kind[r] = "none"
  BY DEF GetVendorProducts, Ask
<1> HIDE DEF new, cs
<1>5. QueryTypeOK'
  BY <1>2, <1>3, <1>4 DEF QueryInv, QueryTypeOK, Inv
<1>6. SearchInv' /\ StableTitleFound'
  BY <1>2, <1>4 DEF QueryInv, SearchInv, StableTitleFound
<1>7. AnswersFromWholeFeeds'
  BY <1>2, <1>4 DEF QueryInv, QueryTypeOK, AnswersFromWholeFeeds, new
<1> QED  BY <1>2, <1>5, <1>6, <1>7 DEF QueryInv

\* So are the CPEs of a product.
LEMMA CpesKeepQueryInv ==
  ASSUME ProperUse, QueryInv, NEW r \in Request, NEW vp \in VendorProduct,
         GetCpesByVendorProduct(r, vp)
  PROVE  QueryInv'
<1>1. UNCHANGED vars
  BY DEF GetCpesByVendorProduct
<1> DEFINE cs == CpesOf(rows)
<1>2. /\ Inv' /\ WholeParts' /\ rows' = rows /\ \A ft : Part(ft)' = Part(ft)
      /\ cs \in WholeDictionaries /\ cs \subseteq CategorizedCpe
  BY <1>1, RequestReads
<1> DEFINE new == [inUse |-> RDBCpes(cs, vp[1], vp[2], FALSE),
                   deprecated |-> RDBCpes(cs, vp[1], vp[2], TRUE)]
<1>3. new \in [inUse : SUBSET CpeURI, deprecated : SUBSET CpeURI]
  BY <1>2 DEF RDBCpes, CategorizedCpe
<1>4. /\ kind' = [kind EXCEPT ![r] = "cpes"] /\ answer' = [answer EXCEPT ![r] = new]
      /\ asked' = [asked EXCEPT ![r] = vp]
      /\ UNCHANGED <<pending, ranks, recorded>> /\ kind[r] = "none"
  BY DEF GetCpesByVendorProduct, Ask
<1> HIDE DEF new, cs
<1>5. QueryTypeOK'
  BY <1>2, <1>3, <1>4 DEF QueryInv, QueryTypeOK, Inv
<1>6. SearchInv' /\ StableTitleFound'
  BY <1>2, <1>4 DEF QueryInv, SearchInv, StableTitleFound
<1>7. AnswersFromWholeFeeds'
  BY <1>2, <1>4 DEF QueryInv, QueryTypeOK, AnswersFromWholeFeeds, new
<1> QED  BY <1>2, <1>5, <1>6, <1>7 DEF QueryInv
\* A search records what is stored, of types of which a whole feed is stored.
LEMMA TitlesKeepQueryInv ==
  ASSUME ProperUse, QueryInv, NEW r \in Request, SelectTitles(r)
  PROVE  QueryInv'
<1>1. UNCHANGED vars
  BY DEF SelectTitles
<1>2. /\ Inv' /\ WholeParts' /\ rows' = rows /\ \A ft : Part(ft)' = Part(ft)
      /\ CpesOf(rows) \in WholeDictionaries /\ CpesOf(rows) \subseteq CategorizedCpe
  BY <1>1, RequestReads
<1>3. PICK ss \in FuzzySearchSet(RDBTitles(CpesOf(rows))) :
        /\ pending' = [pending EXCEPT ![r] = ss]
        /\ recorded' = [recorded EXCEPT ![r] =
             {[fetchType |-> row.fetchType, cpe |-> row.cpe] :
                row \in {x \in rows : x.cpe.title \in ss}}]
  BY DEF SelectTitles
<1> DEFINE new == {[fetchType |-> row.fetchType, cpe |-> row.cpe] :
                     row \in {x \in rows : x.cpe.title \in ss}}
<1>4. ss \subseteq Title
  BY <1>2 DEF FuzzySearchSet, RDBTitles, CategorizedCpe
<1>5. \A row \in new : /\ row.fetchType \in FetchType /\ row.cpe \in CategorizedCpe
                       /\ row \in [fetchType : FetchType, cpe : CategorizedCpe]
                       /\ \E x \in rows : x.fetchType = row.fetchType /\ x.cpe = row.cpe
  BY DEF QueryInv, Inv, RDBTypeOK, CategorizedRow
<1>6. recorded' = [recorded EXCEPT ![r] = new]
  BY <1>3
<1> HIDE DEF new
<1>7. ASSUME NEW row \in new PROVE Part(row.fetchType) \in Upstream[row.fetchType]
  <2>1. row.cpe \in Part(row.fetchType)
    BY <1>5 DEF Part, RowsOf, CpesOf
  <2> QED  BY <1>5, <2>1 DEF QueryInv, WholeParts
<1>8. /\ kind' = [kind EXCEPT ![r] = "titles"] /\ UNCHANGED <<asked, answer, ranks>>
      /\ kind[r] = "none" /\ ranks[r] = {}
  BY DEF SelectTitles, Ask, QueryInv, QueryTypeOK
<1>9. QueryTypeOK'
  BY <1>2, <1>3, <1>4, <1>5, <1>6, <1>8 DEF QueryInv, QueryTypeOK, Inv
<1>10. SearchInv'
  BY <1>2, <1>5, <1>6, <1>7 DEF QueryInv, QueryTypeOK, SearchInv
<1>11. AnswersFromWholeFeeds'
  BY <1>8 DEF QueryInv, QueryTypeOK, AnswersFromWholeFeeds
<1>12. StableTitleFound'
  <2>1. ASSUME NEW q \in Request PROVE ranks'[q] = {} \/ recorded'[q] = recorded[q]
    BY <1>6, <1>8 DEF QueryInv, QueryTypeOK
  <2> QED  BY <1>8, <2>1 DEF QueryInv, StableTitleFound
<1> QED  BY <1>2, <1>9, <1>10, <1>11, <1>12 DEF QueryInv

\* The feed that is stored when a title is looked up gives the title to what all feeds do.
LEMMA TitleCpesKeepQueryInv ==
  ASSUME ProperUse, QueryInv, NEW r \in Request, SelectTitleCpes(r)
  PROVE  QueryInv'
<1>1. UNCHANGED vars
  BY DEF SelectTitleCpes
<1> DEFINE cs == CpesOf(rows)
<1>2. /\ Inv' /\ WholeParts' /\ rows' = rows /\ \A ft : Part(ft)' = Part(ft)
      /\ cs \in WholeDictionaries /\ cs \subseteq CategorizedCpe
  BY <1>1, RequestReads
<1>3. PICK t \in pending[r] :
        /\ pending' = [pending EXCEPT ![r] = @ \ {t}]
        /\ ranks' = [ranks EXCEPT ![r] = @ \cup {[title |-> t, cpes |-> RDBTitleCpes(cs, t)]}]
  BY DEF SelectTitleCpes
<1> DEFINE rank == [title |-> t, cpes |-> RDBTitleCpes(cs, t)]
<1>4. /\ rank.title = t /\ rank.cpes = RDBTitleCpes(cs, t)
      /\ rank \in [title : Title, cpes : SUBSET CpeURI]
  BY <1>2 DEF RDBTitleCpes, CategorizedCpe, QueryInv, QueryTypeOK
<1>5. /\ ranks' = [ranks EXCEPT ![r] = @ \cup {rank}] /\ kind[r] = "titles"
      /\ UNCHANGED <<kind, asked, answer, recorded>>
  BY <1>3 DEF SelectTitleCpes
<1>6. \A ft : Part(ft) \subseteq cs
  BY DEF Part, RowsOf, CpesOf
<1> HIDE DEF rank, cs
<1>7. ASSUME NEW row \in recorded[r], row.cpe.title = t,
             \A feed \in Upstream[row.fetchType] :
               \E c \in feed : c.title = t /\ c.cpeURI = row.cpe.cpeURI
      PROVE  row.cpe.cpeURI \in rank.cpes
  <2>1. Part(row.fetchType) \in Upstream[row.fetchType]
    BY DEF QueryInv, SearchInv
  <2>2. PICK c \in Part(row.fetchType) : c.title = t /\ c.cpeURI = row.cpe.cpeURI
    BY <1>7, <2>1
  <2> QED  BY <1>4, <1>6, <2>2 DEF RDBTitleCpes
<1>8. QueryTypeOK'
  BY <1>2, <1>3, <1>4, <1>5 DEF QueryInv, QueryTypeOK, Inv
<1>9. SearchInv'
  BY <1>2, <1>5 DEF QueryInv, SearchInv
<1>10. AnswersFromWholeFeeds'
  <2>1. /\ ranks'[r] = ranks[r] \cup {rank} /\ UNCHANGED <<kind, asked, answer>>
        /\ \A q \in Request \ {r} : ranks'[q] = ranks[q]
    BY <1>5 DEF QueryInv, QueryTypeOK
  <2>2. WholeDictionaries' = WholeDictionaries /\ cs \in WholeDictionaries
    BY <1>2
  <2>3. ASSUME NEW q \in Request, NEW s \in ranks'[q]
        PROVE  \E ds \in WholeDictionaries : s.cpes = RDBTitleCpes(ds, s.title)
    <3>1. CASE s \in ranks[q]
      BY <3>1 DEF QueryInv, AnswersFromWholeFeeds
    <3>2. CASE s \notin ranks[q]
      BY <1>4, <2>1, <2>2, <2>3, <3>2
    <3> QED  BY <3>1, <3>2
  <2> QED  BY <2>1, <2>2, <2>3 DEF QueryInv, AnswersFromWholeFeeds
<1>11. StableTitleFound'
  <2>1. /\ ranks'[r] = ranks[r] \cup {rank} /\ recorded' = recorded
        /\ \A q \in Request \ {r} : ranks'[q] = ranks[q]
    BY <1>5 DEF QueryInv, QueryTypeOK
  <2>2. ASSUME NEW q \in Request, NEW s \in ranks'[q], NEW row \in recorded[q],
               row.cpe.title = s.title,
               \A feed \in Upstream[row.fetchType] :
                 \E c \in feed : c.title = s.title /\ c.cpeURI = row.cpe.cpeURI
        PROVE  row.cpe.cpeURI \in s.cpes
    <3>1. CASE s \in ranks[q]
      BY <2>2, <3>1 DEF QueryInv, StableTitleFound
    <3>2. CASE s \notin ranks[q]
      <4>1. q = r /\ s = rank
        BY <2>1, <2>2, <3>2
      <4> QED  BY <1>4, <1>7, <2>2, <4>1
    <3> QED  BY <3>1, <3>2
  <2> QED  BY <2>1, <2>2 DEF StableTitleFound
<1> QED  BY <1>2, <1>8, <1>9, <1>10, <1>11 DEF QueryInv

\* A request that is answered is forgotten.
LEMMA ReturnKeepsQueryInv ==
  ASSUME ProperUse, QueryInv, NEW r \in Request, Return(r)
  PROVE  QueryInv'
<1>1. UNCHANGED vars
  BY DEF Return
<1>2. Inv' /\ WholeParts' /\ rows' = rows /\ \A ft : Part(ft)' = Part(ft)
  BY <1>1, RequestReads
<1>3. QueryTypeOK'
  BY <1>2 DEF Return, Nothing, QueryInv, QueryTypeOK, Inv
<1>4. /\ kind'[r] = "none" /\ ranks'[r] = {} /\ recorded'[r] = {} /\ asked' = asked
      /\ \A q \in Request \ {r} :
           /\ kind'[q] = kind[q] /\ ranks'[q] = ranks[q]
           /\ recorded'[q] = recorded[q] /\ answer'[q] = answer[q]
  BY DEF Return, QueryInv, QueryTypeOK
<1>5. SearchInv'
  BY <1>2, <1>4 DEF QueryInv, SearchInv
<1>6. AnswersFromWholeFeeds'
  <2>1. AnswersFromWholeFeeds /\ WholeDictionaries' = WholeDictionaries
    BY DEF QueryInv, WholeDictionaries
  <2> HIDE DEF WholeDictionaries, RDBProducts, RDBCpes, RDBTitleCpes
  <2>2. ASSUME NEW q \in Request, q # r, NEW s \in ranks'[q]
        PROVE  \E cs \in WholeDictionaries : s.cpes = RDBTitleCpes(cs, s.title)
    BY <1>4, <2>1, <2>2 DEF AnswersFromWholeFeeds
  <2>3. ASSUME NEW q \in Request, q # r, kind'[q] = "products"
        PROVE  \E cs \in WholeDictionaries :
                 answer'[q] = [inUse |-> RDBProducts(cs, FALSE),
                               deprecated |-> RDBProducts(cs, TRUE)]
    BY <1>4, <2>1, <2>3 DEF AnswersFromWholeFeeds
  <2>4. ASSUME NEW q \in Request, q # r, kind'[q] = "cpes"
        PROVE  \E cs \in WholeDictionaries :
                 answer'[q] = [inUse |-> RDBCpes(cs, asked[q][1], asked[q][2], FALSE),
                               deprecated |-> RDBCpes(cs, asked[q][1], asked[q][2], TRUE)]
    BY <1>4, <2>1, <2>4 DEF AnswersFromWholeFeeds
  <2> QED  BY <1>4, <2>1, <2>2, <2>3, <2>4 DEF AnswersFromWholeFeeds
<1>7. StableTitleFound'
  BY <1>4 DEF QueryInv, StableTitleFound
<1> QED  BY <1>2, <1>3, <1>5, <1>6, <1>7 DEF QueryInv

\* Every step of a process or of a request keeps the invariant.
LEMMA QueryInvInductive ==
  ASSUME ProperUse
  PROVE  QueryInv /\ [QueryNext]_allVars => QueryInv'
<1> SUFFICES ASSUME QueryInv, [QueryNext]_allVars PROVE QueryInv'
  OBVIOUS
<1>1. CASE Next /\ UNCHANGED queryVars
  BY <1>1, FetchKeepsQueryInv
<1>2. ASSUME NEW r \in Request, QueryStep(r) PROVE QueryInv'
  BY <1>2, ProductsKeepQueryInv, CpesKeepQueryInv, TitlesKeepQueryInv, TitleCpesKeepQueryInv,
     ReturnKeepsQueryInv DEF QueryStep
<1>3. CASE UNCHANGED allVars
  BY <1>3, FetchKeepsQueryInv DEF allVars
<1> QED  BY <1>1, <1>2, <1>3 DEF QueryNext

-----------------------------------------------------------------------------
(* Theorems: fetches of one type do not overlap, or the database is locked *)

\* Every variable of a request, and of the processes next to it, keeps its type.
THEOREM QueryTypeCorrect ==
  ASSUME ProperUse
  PROVE  QuerySpec => []QueryTypeOK
<1>1. QueryInv => QueryTypeOK
  BY DEF QueryInv
<1> QED  BY QueryInitInv, QueryInvInductive, <1>1, PTL DEF QuerySpec

\* No answer mixes the old and the new rows of a feed, however the SELECTs of requests and
\* the transactions of fetch processes interleave.
THEOREM AnswersAreWhole ==
  ASSUME ProperUse
  PROVE  QuerySpec => []AnswersFromWholeFeeds
<1>1. QueryInv => AnswersFromWholeFeeds
  BY DEF QueryInv
<1> QED  BY QueryInitInv, QueryInvInductive, <1>1, PTL DEF QuerySpec

\* A search by title finds the CPEs to which all feeds of a type give the title, whatever is
\* committed between its SELECTs.
THEOREM StableTitlesAreFound ==
  ASSUME ProperUse
  PROVE  QuerySpec => []StableTitleFound
<1>1. QueryInv => StableTitleFound
  BY DEF QueryInv
<1> QED  BY QueryInitInv, QueryInvInductive, <1>1, PTL DEF QuerySpec
=============================================================================
