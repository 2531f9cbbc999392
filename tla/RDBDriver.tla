------------------------------ MODULE RDBDriver ------------------------------
(***************************************************************************)
(* RDBDriver.InsertCpes (db/rdb.go): how a `fetch` process replaces, in a  *)
(* SQL database it may share with others, the rows of one fetch type, in   *)
(* one transaction: select the ids of the old rows, delete them and insert *)
(* the new ones.                                                           *)
(*                                                                         *)
(* What the databases do is external. Where a transaction locks rows       *)
(* (MySQL, PostgreSQL) it sees what others commit while it runs, and a     *)
(* DELETE waits for a transaction that has deleted the same row; where it  *)
(* locks the database (SQLite) the second transaction to write fails.      *)
(***************************************************************************)
EXTENDS CpeModels, FiniteSets

CONSTANTS
  Fetcher,
  Upstream,         \* Upstream[ft]: the feeds of ft a fetch may download
  Scenarios,        \* the kind of database, and may fetches of one type overlap?
  Ids               \* bound on the ids of rows

ASSUME RDBAssumption ==
  /\ Upstream \in [FetchType -> SUBSET SUBSET CategorizedCpe]
  /\ Scenarios \subseteq [lockDatabase : BOOLEAN, overlapSameType : BOOLEAN]

VARIABLES
  scenario,    \* lockDatabase: SQLite, or MySQL and PostgreSQL?
  rows,        \* table categorized_cpes, as committed
  pc,
  fetchType, cpes,
  oldIDs,      \* ids selected and not deleted yet
  todo,        \* CPEs not inserted yet
  deleted,     \* of the transaction: ids
  inserted     \* of the transaction: rows

txVars == <<oldIDs, todo, deleted, inserted>>
vars == <<scenario, rows, pc, fetchType, cpes, txVars>>

CategorizedRow == [id : Ids, fetchType : FetchType, cpe : CategorizedCpe]

InTx(f) == pc[f] \in {"select", "replace"}

RDBTypeOK ==
  /\ scenario \in Scenarios
  /\ rows \subseteq CategorizedRow /\ \A r, s \in rows : r.id = s.id => r = s
  /\ pc \in [Fetcher -> {"idle", "select", "replace", "done"}]
  /\ fetchType \in [Fetcher -> FetchType]
  /\ cpes \in [Fetcher -> SUBSET CategorizedCpe]
  /\ oldIDs \in [Fetcher -> SUBSET Ids]
  /\ todo \in [Fetcher -> SUBSET CategorizedCpe]
  /\ deleted \in [Fetcher -> SUBSET Ids]
  /\ inserted \in [Fetcher -> SUBSET CategorizedRow]

Init ==
  /\ scenario \in Scenarios
  /\ rows = {}
  /\ pc = [f \in Fetcher |-> "idle"]
  /\ fetchType = [f \in Fetcher |-> "nvd"]
  /\ cpes = [f \in Fetcher |-> {}] /\ todo = [f \in Fetcher |-> {}]
  /\ oldIDs = [f \in Fetcher |-> {}] /\ deleted = [f \in Fetcher |-> {}]
  /\ inserted = [f \in Fetcher |-> {}]

IdsOf(rs) == {r.id : r \in rs}
RowsOf(ft) == {r \in rows : r.fetchType = ft}

-----------------------------------------------------------------------------
\* The command has downloaded a feed; InsertCpes begins a transaction.
Begin(f, ft) ==
  /\ ~InTx(f)
  /\ scenario.overlapSameType \/ \A g \in Fetcher : InTx(g) => fetchType[g] # ft
  /\ \E feed \in Upstream[ft] :
       /\ cpes' = [cpes EXCEPT ![f] = feed]
       /\ todo' = [todo EXCEPT ![f] = feed]
  /\ fetchType' = [fetchType EXCEPT ![f] = ft]
  /\ pc' = [pc EXCEPT ![f] = "select"]
  /\ UNCHANGED <<scenario, rows, oldIDs, deleted, inserted>>

\* Mutant of SelectOld: the old rows are not found.
SelectNone(f) ==
  /\ pc[f] = "select"
  /\ pc' = [pc EXCEPT ![f] = "replace"]
  /\ UNCHANGED <<scenario, rows, fetchType, cpes, oldIDs, todo, deleted, inserted>>

\* Mutant of SelectOld: the query has no condition on the type.
SelectAnyType(f) ==
  /\ pc[f] = "select"
  /\ oldIDs' = [oldIDs EXCEPT ![f] = IdsOf(rows)]
  /\ pc' = [pc EXCEPT ![f] = "replace"]
  /\ UNCHANGED <<scenario, rows, fetchType, cpes, todo, deleted, inserted>>

\* The ids of the rows of the type that are committed.
SelectOld(f) ==
  /\ pc[f] = "select"
  /\ oldIDs' = [oldIDs EXCEPT ![f] = IdsOf(RowsOf(fetchType[f]))]
  /\ pc' = [pc EXCEPT ![f] = "replace"]
  /\ UNCHANGED <<scenario, rows, fetchType, cpes, todo, deleted, inserted>>

\* May f write? (external)
Wrote(g) == deleted[g] # {} \/ inserted[g] # {}
MayWrite(f) == scenario.lockDatabase => \A g \in Fetcher \ {f} : ~Wrote(g)
MayDelete(f, id) == MayWrite(f) /\ \A g \in Fetcher \ {f} : id \notin deleted[g]

\* Mutant of DeleteOld: the statement is not part of the transaction.
DeleteOldAutocommit(f) ==
  /\ pc[f] = "replace"
  /\ \E id \in oldIDs[f] :
       /\ MayDelete(f, id)
       /\ oldIDs' = [oldIDs EXCEPT ![f] = @ \ {id}]
       /\ rows' = {r \in rows : r.id # id}
  /\ UNCHANGED <<scenario, pc, fetchType, cpes, todo, deleted, inserted>>

\* Delete an old row; one that is gone already is not an error.
DeleteOld(f) ==
  /\ pc[f] = "replace"
  /\ \E id \in oldIDs[f] :
       /\ MayDelete(f, id)
       /\ oldIDs' = [oldIDs EXCEPT ![f] = @ \ {id}]
       /\ deleted' = [deleted EXCEPT ![f] = @ \cup (IdsOf(rows) \cap {id})]
  /\ UNCHANGED <<scenario, rows, pc, fetchType, cpes, todo, inserted>>

\* An id no row has, nor any transaction knows. (external; any of them will do)
FreeId ==
  {i \in Ids : /\ i \notin IdsOf(rows)
               /\ \A f \in Fetcher : i \notin IdsOf(inserted[f]) \cup oldIDs[f]}
NewId == CHOOSE i \in FreeId : TRUE

\* When the old rows are deleted, insert the next new one. (Bound: as long as there are ids.)
InsertNew(f) ==
  /\ pc[f] = "replace" /\ oldIDs[f] = {}
  /\ MayWrite(f) /\ FreeId # {}
  /\ \E c \in todo[f] :
       /\ todo' = [todo EXCEPT ![f] = @ \ {c}]
       /\ inserted' = [inserted EXCEPT ![f] =
            @ \cup {[id |-> NewId, fetchType |-> fetchType[f], cpe |-> c]}]
  /\ UNCHANGED <<scenario, rows, pc, fetchType, cpes, oldIDs, deleted>>

EndTx(f, s) ==
  /\ pc' = [pc EXCEPT ![f] = s]
  /\ oldIDs' = [oldIDs EXCEPT ![f] = {}] /\ todo' = [todo EXCEPT ![f] = {}]
  /\ deleted' = [deleted EXCEPT ![f] = {}] /\ inserted' = [inserted EXCEPT ![f] = {}]
  /\ cpes' = [cpes EXCEPT ![f] = {}]
  /\ UNCHANGED <<scenario, fetchType>>

Inserted(f) == pc[f] = "replace" /\ oldIDs[f] = {} /\ todo[f] = {}

\* InsertCpes returns without error after COMMIT. (SQLite waits for other transactions.)
Commit(f) ==
  /\ Inserted(f)
  /\ scenario.lockDatabase => \A g \in Fetcher \ {f} : pc[g] # "replace"
  /\ rows' = {r \in rows : r.id \notin deleted[f]} \cup inserted[f]
  /\ EndTx(f, "done")

\* It does so too when COMMIT fails: the deferred function drops its error.
CommitFails(f) ==
  /\ Inserted(f)
  /\ EndTx(f, "done")
  /\ UNCHANGED rows

\* A statement fails (a lock, a lost connection) or the process dies: all is undone.
Rollback(f) ==
  /\ InTx(f)
  /\ EndTx(f, "idle")
  /\ UNCHANGED rows

InsertStep(f) ==
  \/ \E ft \in FetchType : Begin(f, ft)
  \/ SelectOld(f) \/ DeleteOld(f) \/ InsertNew(f)
  \/ Commit(f) \/ CommitFails(f) \/ Rollback(f)

Next == \E f \in Fetcher : InsertStep(f)

Spec == Init /\ [][Next]_vars

-----------------------------------------------------------------------------
(***************************************************************************)
(* Properties                                                              *)
(***************************************************************************)

\* How often a CPE is stored for a type.
Stored(ft) ==
  LET cs == {r.cpe : r \in RowsOf(ft)}
  IN  [c \in cs |-> Cardinality({r \in RowsOf(ft) : r.cpe = c})]

Once(feed) == [c \in feed |-> 1]

Dict == INSTANCE Dictionary WITH
          Type <- FetchType,
          Content <- [ft \in FetchType |-> {Once(feed) : feed \in Upstream[ft] \cup {{}}}],
          part <- [ft \in FetchType |-> Stored(ft)]

\* Databases that lock, or fetches of one type that do not overlap.
ProperUse == \A s \in Scenarios : s.lockDatabase \/ ~s.overlapSameType

\* What a transaction has done so far, and what tells two of them apart.
OwnPart(f) ==
  /\ InTx(f) => cpes[f] \in Upstream[fetchType[f]]
  /\ pc[f] = "select" => todo[f] = cpes[f]
  /\ pc[f] # "replace" => oldIDs[f] = {} /\ deleted[f] = {} /\ inserted[f] = {}
  /\ pc[f] = "replace" => oldIDs[f] \cup deleted[f] = IdsOf(RowsOf(fetchType[f]))
  /\ \A r \in inserted[f] : /\ r.fetchType = fetchType[f] /\ r.cpe \notin todo[f]
                           /\ \A s \in rows : s.id # r.id
  /\ \A r, s \in inserted[f] : r.id = s.id \/ r.cpe = s.cpe => r = s
  /\ InTx(f) => {r.cpe : r \in inserted[f]} \cup todo[f] = cpes[f]

Apart(f, g) ==
  /\ \A r \in inserted[f], s \in inserted[g] : r.id # s.id
  /\ ~scenario.overlapSameType /\ InTx(f) /\ InTx(g) => fetchType[f] # fetchType[g]

\* Under ProperUse, a transaction that replaces rows goes by the ids of all rows of its
\* type, whatever others have committed since it read them, and has inserted new rows, one
\* for each CPE that is not to do. (Inductive, with RDBTypeOK.)
TxInv ==
  /\ \A f \in Fetcher : OwnPart(f)
  /\ \A f, g \in Fetcher : f # g => Apart(f, g)

\* Readers see, of each type, one whole feed and every CPE of it once: an insert is
\* one step of Dictionary, whatever other inserts are in progress or fail.
ImplementsDictionary == Dict!DictionarySpec

\* "InsertCpes inserts Cpe Information into DB": a COMMIT that succeeds leaves the feed
\* InsertCpes was given, and nothing else of the type, in the database.
CommitStoresFeed ==
  [][\A f \in Fetcher : Commit(f) => Stored(fetchType[f])' = Once(cpes[f])]_vars
=============================================================================
