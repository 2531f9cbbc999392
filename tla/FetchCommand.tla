---------------------------- MODULE FetchCommand -----------------------------
(***************************************************************************)
(* The commands `fetch nvd|jvn|vuls` and `server` (commands/*.go) from     *)
(* opening the database (db.NewDB) to recording the time of the fetch, by  *)
(* processes that share the database and may be cut off anywhere: which    *)
(* databases they accept, and what the FetchMeta they leave says.          *)
(*                                                                         *)
(* Of a database, the model keeps what the commands decide on: whether     *)
(* each table exists, and has the columns and indexes of this version      *)
(* (RDB), whether there are keys of CPEs (Redis), the rows of FetchMeta,   *)
(* and the time of the latest InsertCpes that took effect. The hash        *)
(* CPE#FETCHMETA of Redis is a table of at most one row.                   *)
(***************************************************************************)
EXTENDS Naturals, FiniteSets

CONSTANTS
  Process,
  Scenarios,   \* which database the processes find, and may commands overlap?
  MaxTime      \* bound on the number of inserts

Backend == {"rdb", "redis"}
Origin == {"empty", "v1", "outdated", "current"}

ASSUME ScenarioAssumption ==
  /\ Scenarios \subseteq [backend : Backend, origin : Origin, overlap : BOOLEAN]
  /\ MaxTime \in Nat \ {0}

LatestSchemaVersion == 2

\* LastFetchedAt of a database nothing was fetched into (the year 1000).
Never == 0

VARIABLES
  (* the database *)
  scenario,    \* what it was before the first command, and who will share it
  metaTable,   \* does the table of FetchMeta exist?
  cpeData,     \* are there other tables, or keys, of the dictionary?
  migrated,    \* the tables that have the columns and indexes of this version
  rows,        \* FetchMeta, by id
  durable,     \* when the latest insert that took effect did
  (* time *)
  clock,
  (* per process *)
  pc,
  command,
  fetchMeta,   \* what GetFetchMeta returned; id 0: no row was found
  lookupFailed \* history: did the command's lookup of FetchMeta fail?

dbVars == <<metaTable, cpeData, migrated, rows, durable>>
vars == <<scenario, dbVars, clock, pc, command, fetchMeta, lookupFailed>>

Table == {"fetch_meta", "categorized_cpes"}

Meta == [id : Nat, schemaVersion : Nat, lastFetchedAt : Nat]
NoMeta == [id |-> 0, schemaVersion |-> LatestSchemaVersion, lastFetchedAt |-> Never]

\* A process is in NewDB, in the command itself, or has ended.
Opening == {"hasMeta", "probe", "migrateMeta", "migrateCpe"}
Commanding == {"getMeta", "upsertFirst", "fetch", "insert", "upsertLast", "serve"}
Ended == {"idle", "refused", "failed", "done"}
Alive(p) == pc[p] \notin Ended

FetchTypeOK ==
  /\ scenario \in Scenarios
  /\ metaTable \in BOOLEAN /\ cpeData \in BOOLEAN /\ migrated \subseteq Table
  /\ rows \subseteq Meta /\ \A a, b \in rows : a.id = b.id => a = b
  /\ rows # {} => metaTable
  /\ durable \in 0..clock /\ clock \in 0..MaxTime
  /\ pc \in [Process -> Opening \cup Commanding \cup Ended]
  /\ command \in [Process -> {"fetch", "server"}]
  /\ fetchMeta \in [Process -> Meta]
  /\ lookupFailed \in [Process -> BOOLEAN]

Row(id, v, t) == [id |-> id, schemaVersion |-> v, lastFetchedAt |-> t]

OnRDB == scenario.backend = "rdb"

\* Model v1 had no FetchMeta; an outdated database has one of an older schema, and
\* the tables of an older version of the program.
Init ==
  /\ scenario \in Scenarios
  /\ metaTable = (scenario.origin \in {"outdated", "current"})
  /\ cpeData = (scenario.origin # "empty")
  /\ migrated = IF OnRDB /\ scenario.origin = "current" THEN Table ELSE {}
  /\ rows = CASE scenario.origin = "outdated" -> {Row(1, LatestSchemaVersion - 1, 1)}
              [] scenario.origin = "current"  -> {Row(1, LatestSchemaVersion, 1)}
              [] OTHER                        -> {}
  /\ clock = 1
  /\ durable = IF metaTable THEN 1 ELSE 0
  /\ pc = [p \in Process |-> "idle"]
  /\ command = [p \in Process |-> "fetch"]
  /\ fetchMeta = [p \in Process |-> NoMeta]
  /\ lookupFailed = [p \in Process |-> FALSE]

GoTo(p, s) == pc' = [pc EXCEPT ![p] = s]

Invoke(p, c) ==
  /\ ~Alive(p)
  /\ scenario.overlap \/ \A q \in Process : ~Alive(q)
  /\ GoTo(p, "hasMeta")
  /\ command' = [command EXCEPT ![p] = c]
  /\ lookupFailed' = [lookupFailed EXCEPT ![p] = FALSE]
  /\ UNCHANGED <<scenario, dbVars, clock, fetchMeta>>

-----------------------------------------------------------------------------
(***************************************************************************)
(* NewDB: IsGoCPEDictModelV1 in two commands, then MigrateDB               *)
(***************************************************************************)

\* Has the database a FetchMeta? (HasTable, or EXISTS CPE#FETCHMETA.) HasTable
\* returns no error: if its query fails, the answer is no.
HasMeta(p) ==
  /\ pc[p] = "hasMeta"
  /\ \/ /\ GoTo(p, IF metaTable THEN "migrateMeta" ELSE "probe")
        /\ UNCHANGED lookupFailed
     \/ /\ OnRDB
        /\ GoTo(p, "probe")
        /\ lookupFailed' = [lookupFailed EXCEPT ![p] = TRUE]
  /\ UNCHANGED <<scenario, dbVars, clock, command, fetchMeta>>

\* Mutant of Probe: only a FetchMeta counts, as if a database were ours or empty.
ProbeLenient(p) ==
  /\ pc[p] = "probe"
  /\ GoTo(p, IF metaTable THEN "refused" ELSE "migrateMeta")
  /\ UNCHANGED <<scenario, dbVars, clock, command, fetchMeta, lookupFailed>>

\* If not, anything it holds is taken for a database of model v1. The count of
\* tables includes that of FetchMeta. So does the pattern CPE#* its key, but SCAN
\* with COUNT 1 looks at one slot of the key space and may find no key in it.
Probe(p) ==
  /\ pc[p] = "probe"
  /\ \/ /\ metaTable \/ cpeData
        /\ GoTo(p, "refused")
     \/ /\ ~OnRDB \/ ~(metaTable \/ cpeData)
        /\ GoTo(p, "migrateMeta")
  /\ UNCHANGED <<scenario, dbVars, clock, command, fetchMeta, lookupFailed>>

\* AutoMigrate creates a table that does not exist, and gives one that does the
\* columns, types and indexes it lacks; its rows stay. FetchMeta comes first.
MigrateMeta(p) ==
  /\ pc[p] = "migrateMeta"
  /\ metaTable' = (metaTable \/ OnRDB)
  /\ migrated' = migrated \cup IF OnRDB THEN {"fetch_meta"} ELSE {}
  /\ GoTo(p, "migrateCpe")
  /\ UNCHANGED <<scenario, cpeData, rows, durable, clock, command, fetchMeta, lookupFailed>>

MigrateCpe(p) ==
  /\ pc[p] = "migrateCpe"
  /\ cpeData' = (cpeData \/ OnRDB)
  /\ migrated' = migrated \cup IF OnRDB THEN {"categorized_cpes"} ELSE {}
  /\ GoTo(p, "getMeta")
  /\ UNCHANGED <<scenario, metaTable, rows, durable, clock, command, fetchMeta, lookupFailed>>

-----------------------------------------------------------------------------
(***************************************************************************)
(* The command                                                             *)
(***************************************************************************)

\* Mutant of OutDated: only newer databases are refused.
OutDatedNewer(meta) == meta.schemaVersion > LatestSchemaVersion

OutDated(meta) == meta.schemaVersion # LatestSchemaVersion

\* GetFetchMeta takes some row, or makes one up when there is none.
GetFetchMeta(p) ==
  /\ pc[p] = "getMeta"
  /\ \E meta \in IF rows = {} THEN {NoMeta} ELSE rows :
       /\ fetchMeta' = [fetchMeta EXCEPT ![p] = meta]
       /\ GoTo(p, IF OutDated(meta) THEN "failed"
                  ELSE IF command[p] = "server" THEN "serve" ELSE "upsertFirst")
  /\ UNCHANGED <<scenario, dbVars, clock, command, lookupFailed>>

\* UpsertFetchMeta: Save inserts a row without an id, and updates one that has it;
\* HSET writes the fields of the one hash.
NewId == IF OnRDB THEN Cardinality(rows) + 1 ELSE 1

\* Mutant of UpsertFetchMeta: a row is inserted every time.
UpsertInserts(p, t) ==
  /\ rows' = rows \cup {Row(Cardinality(rows) + 1, LatestSchemaVersion, t)}
  /\ metaTable' = TRUE
  /\ UNCHANGED <<scenario, cpeData, migrated, durable, clock, command, fetchMeta, lookupFailed>>

\* Mutant of UpsertFetchMeta: the row that was read is written next to the old one.
UpsertBeside(p, t) ==
  LET id  == IF fetchMeta[p].id = 0 THEN NewId ELSE fetchMeta[p].id
      row == Row(id, LatestSchemaVersion, t)
  IN  /\ rows' = rows \cup {row}
      /\ fetchMeta' = [fetchMeta EXCEPT ![p] = row]
      /\ metaTable' = TRUE
      /\ UNCHANGED <<scenario, cpeData, migrated, durable, clock, command, lookupFailed>>

UpsertFetchMeta(p, t) ==
  LET id  == IF fetchMeta[p].id = 0 THEN NewId ELSE fetchMeta[p].id
      row == Row(id, LatestSchemaVersion, t)
  IN  /\ rows' = {r \in rows : r.id # id} \cup {row}
      /\ fetchMeta' = [fetchMeta EXCEPT ![p] = row]
      /\ metaTable' = TRUE
      /\ UNCHANGED <<scenario, cpeData, migrated, durable, clock, command, lookupFailed>>

\* Mutant of UpsertFirst: nothing is recorded before the feed is in the database.
UpsertFirstSkipped(p) ==
  /\ pc[p] = "upsertFirst"
  /\ GoTo(p, "fetch")
  /\ UNCHANGED <<scenario, dbVars, clock, command, fetchMeta, lookupFailed>>

\* Mutant of UpsertFirst: the time of the fetch is recorded before it.
UpsertFirstNow(p) ==
  /\ pc[p] = "upsertFirst"
  /\ UpsertFetchMeta(p, clock)
  /\ GoTo(p, "fetch")

\* Mutant of UpsertFirst: the time of the last fetch is not carried over.
UpsertFirstReset(p) ==
  /\ pc[p] = "upsertFirst"
  /\ UpsertFetchMeta(p, Never)
  /\ GoTo(p, "fetch")

\* "If the fetch fails the first time (without SchemaVersion), the DB needs to be
\* cleaned every time, so insert SchemaVersion."
UpsertFirst(p) ==
  /\ pc[p] = "upsertFirst"
  /\ UpsertFetchMeta(p, fetchMeta[p].lastFetchedAt)
  /\ GoTo(p, "fetch")

\* The download of the feed.
Fetch(p) ==
  /\ pc[p] = "fetch"
  /\ GoTo(p, "insert")
  /\ UNCHANGED <<scenario, dbVars, clock, command, fetchMeta, lookupFailed>>

\* InsertCpes returns no error.
InsertCpes(p) ==
  /\ pc[p] = "insert" /\ clock < MaxTime
  /\ clock' = clock + 1
  /\ durable' = clock'
  /\ cpeData' = TRUE
  /\ GoTo(p, "upsertLast")
  /\ UNCHANGED <<scenario, metaTable, migrated, rows, command, fetchMeta, lookupFailed>>

\* The error of the deferred COMMIT is not looked at.
InsertNotCommitted(p) ==
  /\ OnRDB
  /\ pc[p] = "insert" /\ clock < MaxTime
  /\ clock' = clock + 1
  /\ GoTo(p, "upsertLast")
  /\ UNCHANGED <<scenario, dbVars, command, fetchMeta, lookupFailed>>

\* InsertCpes is cut off, or returns an error: on Redis, with some keys written.
InsertCutOff(p) ==
  /\ pc[p] = "insert"
  /\ cpeData' = (cpeData \/ ~OnRDB)
  /\ GoTo(p, "failed")
  /\ UNCHANGED <<scenario, metaTable, migrated, rows, durable, clock, command, fetchMeta,
                 lookupFailed>>

UpsertLast(p) ==
  /\ pc[p] = "upsertLast"
  /\ UpsertFetchMeta(p, clock)
  /\ GoTo(p, "done")

\* Any other step returns an error, or the process dies; a server is stopped.
Fail(p) ==
  /\ Alive(p)
  /\ GoTo(p, "failed")
  /\ UNCHANGED <<scenario, dbVars, clock, command, fetchMeta, lookupFailed>>

ProcessStep(p) ==
  \/ \E c \in {"fetch", "server"} : Invoke(p, c)
  \/ HasMeta(p) \/ Probe(p) \/ MigrateMeta(p) \/ MigrateCpe(p)
  \/ GetFetchMeta(p) \/ UpsertFirst(p) \/ Fetch(p)
  \/ InsertCpes(p) \/ InsertNotCommitted(p) \/ InsertCutOff(p)
  \/ UpsertLast(p) \/ Fail(p)

Next == \E p \in Process : ProcessStep(p)

Spec == Init /\ [][Next]_vars

-----------------------------------------------------------------------------
(***************************************************************************)
(* Properties                                                              *)
(***************************************************************************)

\* Two commands may create a database together.
CreatedTogether == scenario.origin = "empty" /\ scenario.overlap

\* A database these commands made, however often they were cut off, is taken for one
\* of model v1 ("IsGoCPEDictModelV1 determines if the DB was created at the time of
\* go-cpe-dictionary Model v1") only if the lookup of FetchMeta failed, or another
\* command created the database between the two questions; and not for good: it has
\* the FetchMeta that the next lookup finds.
OwnRefusalHasCause ==
  scenario.origin # "v1" =>
    \A p \in Process : pc[p] = "refused" =>
      metaTable /\ (lookupFailed[p] \/ CreatedTogether)

\* And one of model v1 always is: no command writes to it.
LegacyUntouched ==
  scenario.origin = "v1" =>
    rows = {} /\ durable = 0 /\ \A p \in Process : pc[p] \notin Commanding

\* A database of an older schema version has its tables migrated before a command
\* looks at the version. It keeps its FetchMeta and its dictionary all the same, so
\* that no command, now or later, serves it or fetches into it.
OutdatedStaysRefused ==
  scenario.origin = "outdated" =>
    /\ rows = {Row(1, LatestSchemaVersion - 1, 1)} /\ durable = 1
    /\ \A p \in Process :
         /\ pc[p] \notin Commanding \ {"getMeta"}
         /\ OnRDB /\ pc[p] = "getMeta" => migrated = Table

\* On Redis, LastFetchedAt is never later than the latest insert that is in the
\* database, so a time other than Never promises a dictionary, also when commands
\* overlap or are cut off. (On an RDB a COMMIT that failed breaks the promise.)
FetchTimeBacked ==
  ~OnRDB => \A r \in rows : r.lastFetchedAt <= durable

\* When commands do not overlap, the time of the last fetch never goes back.
FetchTimeMonotone ==
  [][~scenario.overlap =>
       \A r \in rows : \E s \in rows' :
         s.id = r.id /\ s.lastFetchedAt >= r.lastFetchedAt]_rows

\* There is one FetchMeta, so that GetFetchMeta has no choice; two commands that
\* create an RDB together may each insert one.
SingleFetchMeta == (OnRDB /\ CreatedTogether) \/ Cardinality(rows) <= 1
=============================================================================
