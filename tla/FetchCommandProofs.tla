-------------------------- MODULE FetchCommandProofs ---------------------------
(***************************************************************************)
(* Theorems about FetchCommand: which databases the commands accept, and   *)
(* what the FetchMeta they leave says, for any number of processes.        *)
(***************************************************************************)
EXTENDS FetchCommand, FiniteSetTheorems, TLAPS

\* The case left out: a database of model v1 on Redis.
ProperUse == \A s \in Scenarios : ~(s.origin = "v1" /\ s.backend = "redis")

-----------------------------------------------------------------------------
(***************************************************************************)
(* The inductive invariant                                                 *)
(***************************************************************************)

AloneInv ==
  ~scenario.overlap => \A p, q \in Process : Alive(p) /\ Alive(q) => p = q

Writing == {"fetch", "insert", "upsertLast"}

\* How far a command gets with the database it finds.
OriginInv ==
  /\ scenario.origin = "v1" =>
       OnRDB /\ ~metaTable /\ cpeData /\ rows = {} /\ durable = 0
  /\ scenario.origin = "outdated" =>
       metaTable /\ rows = {Row(1, LatestSchemaVersion - 1, 1)} /\ durable = 1
  /\ scenario.origin = "current" => metaTable /\ rows # {}
  /\ scenario.origin = "empty" /\ cpeData => metaTable
  /\ \A p \in Process :
       /\ scenario.origin = "v1" =>
            pc[p] \in {"idle", "hasMeta", "probe", "refused", "failed"}
       /\ scenario.origin = "outdated" =>
            pc[p] \in {"idle", "failed", "getMeta"} \cup Opening \cup {"refused"}
       /\ scenario.origin = "empty" =>
            /\ pc[p] \in Writing => metaTable
            /\ OnRDB /\ pc[p] \in Commanding \cup {"migrateCpe"} => metaTable

\* Before a command gets to FetchMeta it has migrated the tables.
MigratedInv ==
  OnRDB =>
    \A p \in Process : /\ pc[p] \in Commanding \cup {"migrateCpe"} => "fetch_meta" \in migrated
                       /\ pc[p] \in Commanding => migrated = Table

\* Why a command takes a database for one of model v1 that is none.
RefusalInv ==
  \A p \in Process :
    /\ scenario.origin \in {"outdated", "current"} /\ pc[p] \in {"probe", "refused"} =>
         lookupFailed[p]
    /\ scenario.origin = "empty" =>
         /\ pc[p] = "probe" /\ ~scenario.overlap => lookupFailed[p] \/ ~metaTable
         /\ pc[p] = "refused" => metaTable /\ (lookupFailed[p] \/ scenario.overlap)

\* Ids are given in turn.
IdInv == IsFiniteSet(rows) /\ {r.id : r \in rows} = 1..Cardinality(rows)

\* The only case of several rows of FetchMeta.
Race == OnRDB /\ CreatedTogether

\* A command that writes knows the row it writes, which but for a race is the only one.
MetaInv ==
  /\ \A r \in rows : r.lastFetchedAt <= clock /\ (~Race => r.id = 1)
  /\ \A p \in Process :
       /\ pc[p] = "upsertFirst" =>
            /\ fetchMeta[p].id \in 0..Cardinality(rows)
            /\ ~Race => fetchMeta[p].id = 1 \/ (fetchMeta[p].id = 0 /\ (rows = {} \/ ~OnRDB))
            /\ ~scenario.overlap => rows \subseteq {fetchMeta[p]}
            /\ fetchMeta[p].lastFetchedAt <= clock
       /\ pc[p] \in Writing =>
            fetchMeta[p].id \in 1..Cardinality(rows) /\ (~Race => fetchMeta[p].id = 1)

\* On Redis no time is written that is not backed by an insert.
TimeInv ==
  ~OnRDB =>
    /\ \A r \in rows : r.lastFetchedAt <= durable
    /\ \A p \in Process : /\ pc[p] = "upsertFirst" => fetchMeta[p].lastFetchedAt <= durable
                          /\ pc[p] = "upsertLast" => durable = clock

Inv ==
  /\ FetchTypeOK /\ AloneInv /\ OriginInv /\ MigratedInv /\ RefusalInv
  /\ IdInv /\ MetaInv /\ TimeInv

\* The databases there are before the first command.
LEMMA InitInv ==
  ASSUME ProperUse
  PROVE  Init => Inv
<1> SUFFICES ASSUME Init PROVE Inv
  OBVIOUS
<1>1. /\ scenario \in Scenarios /\ scenario.backend \in Backend /\ scenario.overlap \in BOOLEAN
      /\ scenario.origin \in {"empty", "v1", "outdated", "current"}
      /\ clock = 1 /\ MaxTime \in Nat \ {0}
  BY ScenarioAssumption DEF Init, Origin
<1>2. \/ scenario.origin \in {"empty", "v1"} /\ rows = {} /\ durable = 0
      \/ /\ scenario.origin = "outdated" /\ durable = 1
         /\ rows = {Row(1, LatestSchemaVersion - 1, 1)}
      \/ scenario.origin = "current" /\ rows = {Row(1, LatestSchemaVersion, 1)} /\ durable = 1
  BY <1>1 DEF Init
<1>3. /\ rows \subseteq Meta /\ \A r \in rows : r.id = 1 /\ r.lastFetchedAt = 1 /\ durable = 1
  BY <1>2 DEF Meta, Row, LatestSchemaVersion
<1>4. /\ metaTable = (scenario.origin \in {"outdated", "current"})
      /\ cpeData = (scenario.origin # "empty")
      /\ pc = [p \in Process |-> "idle"]
      /\ command = [p \in Process |-> "fetch"]
      /\ fetchMeta = [p \in Process |-> NoMeta]
      /\ lookupFailed = [p \in Process |-> FALSE]
      /\ migrated \subseteq Table
  BY DEF Init
<1>5. FetchTypeOK
  <2>1. NoMeta \in Meta /\ "idle" \in Ended
    BY DEF NoMeta, Meta, Never, LatestSchemaVersion, Ended
  <2>2. \A r, s \in rows : r.id = s.id => r = s
    BY <1>2
  <2>3. durable \in 0..clock /\ clock \in 0..MaxTime
    BY <1>1, <1>2
  <2>4. rows # {} => metaTable
    BY <1>2, <1>4
  <2> QED  BY <1>1, <1>3, <1>4, <2>1, <2>2, <2>3, <2>4 DEF FetchTypeOK
<1>6. AloneInv
  BY <1>4 DEF AloneInv, Alive, Ended
<1>7. OriginInv
  BY <1>1, <1>2, <1>4 DEF OriginInv, Commanding, Writing, ProperUse, OnRDB, Backend
<1>8. MigratedInv /\ RefusalInv
  BY <1>4 DEF MigratedInv, RefusalInv, Commanding
<1>9. IdInv
  <2>1. CASE rows = {}
    BY <2>1, FS_EmptySet DEF IdInv
  <2>2. CASE rows # {}
    <3>1. PICK r : rows = {r}
      BY <1>2, <2>2
    <3>2. r.id = 1
      BY <1>3, <3>1
    <3> QED  BY <3>1, <3>2, FS_Singleton DEF IdInv
  <2> QED  BY <2>1, <2>2
<1>10. MetaInv /\ TimeInv
  BY <1>1, <1>3, <1>4 DEF MetaInv, TimeInv, Writing
<1> QED  BY <1>5, <1>6, <1>7, <1>8, <1>9, <1>10 DEF Inv

\* A command starts, where commands overlap, or alone.
LEMMA InvokeKeepsInv ==
  ASSUME Inv, NEW p \in Process, NEW c \in {"fetch", "server"}, Invoke(p, c)
  PROVE  Inv'
<1>1. FetchTypeOK'
  BY DEF Inv, FetchTypeOK, Invoke, dbVars, GoTo, Opening
<1>2. AloneInv'
  BY DEF Inv, FetchTypeOK, AloneInv, Invoke, GoTo, Alive
<1>3. OriginInv'
  BY DEF Inv, FetchTypeOK, OriginInv, Invoke, dbVars, GoTo, OnRDB, Writing, Commanding, Opening
<1>4. MigratedInv' /\ RefusalInv'
  BY DEF Inv, FetchTypeOK, MigratedInv, RefusalInv, Invoke, dbVars, GoTo, OnRDB, Commanding
<1>5. IdInv' /\ MetaInv' /\ TimeInv'
  BY DEF Inv, FetchTypeOK, IdInv, MetaInv, Race, CreatedTogether, TimeInv, Invoke, dbVars, GoTo,
         OnRDB, Writing
<1> QED  BY <1>1, <1>2, <1>3, <1>4, <1>5 DEF Inv

\* A process that is alone stays so when it moves on.
LEMMA StaysAlone ==
  ASSUME Inv, NEW p \in Process, Alive(p), NEW s, GoTo(p, s), scenario' = scenario
  PROVE  AloneInv'
BY DEF Inv, FetchTypeOK, AloneInv, GoTo, Alive

\* Only a database without FetchMeta is probed, or one whose lookup failed.
LEMMA HasMetaKeepsInv ==
  ASSUME Inv, NEW p \in Process, HasMeta(p)
  PROVE  Inv'
<1>1. Alive(p) /\ AloneInv'
  BY StaysAlone DEF HasMeta, Alive, Ended
<1>2. FetchTypeOK'
  BY <1>1 DEF Inv, FetchTypeOK, HasMeta, dbVars, GoTo, Opening, Commanding, Ended
<1>3. OriginInv'
  BY <1>1 DEF Inv, FetchTypeOK, OriginInv, HasMeta, dbVars, GoTo, OnRDB, Writing,
              Commanding, Opening, Ended
<1>4. MigratedInv'
  BY DEF Inv, FetchTypeOK, MigratedInv, HasMeta, dbVars, GoTo, OnRDB, Commanding, Table
<1>5. RefusalInv'
  BY <1>1 DEF Inv, FetchTypeOK, AloneInv, OriginInv, RefusalInv, HasMeta, dbVars, GoTo, OnRDB,
              Writing, Commanding, Alive, Ended
<1>6. IdInv'
  BY DEF Inv, IdInv, HasMeta, dbVars
<1>7. MetaInv'
  BY <1>1 DEF Inv, FetchTypeOK, MetaInv, Race, CreatedTogether, HasMeta, dbVars, GoTo,
              OnRDB, Writing
<1>8. TimeInv'
  BY <1>1 DEF Inv, FetchTypeOK, TimeInv, HasMeta, dbVars, GoTo, OnRDB, Writing
<1> QED  BY <1>1, <1>2, <1>3, <1>4, <1>5, <1>6, <1>7, <1>8 DEF Inv

\* An own database that is refused has a FetchMeta that was not seen.
LEMMA ProbeKeepsInv ==
  ASSUME Inv, NEW p \in Process, Probe(p)
  PROVE  Inv'
<1>1. Alive(p) /\ AloneInv'
  BY StaysAlone DEF Probe, Alive, Ended
<1>2. FetchTypeOK'
  BY <1>1 DEF Inv, FetchTypeOK, Probe, dbVars, GoTo, Opening, Commanding, Ended
<1>3. OriginInv'
  BY <1>1 DEF Inv, FetchTypeOK, OriginInv, Probe, dbVars, GoTo, OnRDB, Writing,
              Commanding, Opening, Ended
<1>4. MigratedInv'
  BY DEF Inv, FetchTypeOK, MigratedInv, Probe, dbVars, GoTo, OnRDB, Commanding, Table
<1>5. RefusalInv'
  BY <1>1 DEF Inv, FetchTypeOK, AloneInv, OriginInv, RefusalInv, Probe, dbVars, GoTo, OnRDB,
              Writing, Commanding, Alive, Ended
<1>6. IdInv'
  BY DEF Inv, IdInv, Probe, dbVars
<1>7. MetaInv'
  BY <1>1 DEF Inv, FetchTypeOK, MetaInv, Race, CreatedTogether, Probe, dbVars, GoTo,
              OnRDB, Writing
<1>8. TimeInv'
  BY <1>1 DEF Inv, FetchTypeOK, TimeInv, Probe, dbVars, GoTo, OnRDB, Writing
<1> QED  BY <1>1, <1>2, <1>3, <1>4, <1>5, <1>6, <1>7, <1>8 DEF Inv

\* The table of FetchMeta is the first that is created.
LEMMA MigrateMetaKeepsInv ==
  ASSUME Inv, NEW p \in Process, MigrateMeta(p)
  PROVE  Inv'
<1>1. Alive(p) /\ AloneInv'
  BY StaysAlone DEF MigrateMeta, Alive, Ended
<1>2. FetchTypeOK'
  BY <1>1 DEF Inv, FetchTypeOK, MigrateMeta, GoTo, Table, Opening, Commanding, Ended
<1>3. OriginInv'
  BY <1>1 DEF Inv, FetchTypeOK, OriginInv, MigrateMeta, GoTo, OnRDB, Writing,
              Commanding, Opening, Ended
<1>4. MigratedInv'
  BY DEF Inv, FetchTypeOK, MigratedInv, MigrateMeta, GoTo, OnRDB, Commanding, Table
<1>5. RefusalInv'
  BY <1>1 DEF Inv, FetchTypeOK, AloneInv, OriginInv, RefusalInv, MigrateMeta, GoTo, OnRDB,
              Writing, Commanding, Alive, Ended
<1>6. IdInv'
  BY DEF Inv, IdInv, MigrateMeta
<1>7. MetaInv'
  BY <1>1 DEF Inv, FetchTypeOK, MetaInv, Race, CreatedTogether, MigrateMeta, GoTo,
              OnRDB, Writing
<1>8. TimeInv'
  BY <1>1 DEF Inv, FetchTypeOK, TimeInv, MigrateMeta, GoTo, OnRDB, Writing
<1> QED  BY <1>1, <1>2, <1>3, <1>4, <1>5, <1>6, <1>7, <1>8 DEF Inv

\* The others follow when it is there.
LEMMA MigrateCpeKeepsInv ==
  ASSUME Inv, NEW p \in Process, MigrateCpe(p)
  PROVE  Inv'
<1>1. Alive(p) /\ AloneInv'
  BY StaysAlone DEF MigrateCpe, Alive, Ended
<1>2. FetchTypeOK'
  BY <1>1 DEF Inv, FetchTypeOK, MigrateCpe, GoTo, Table, Opening, Commanding, Ended
<1>3. OriginInv'
  BY <1>1 DEF Inv, FetchTypeOK, OriginInv, MigrateCpe, GoTo, OnRDB, Writing,
              Commanding, Opening, Ended
<1>4. MigratedInv'
  BY DEF Inv, FetchTypeOK, MigratedInv, MigrateCpe, GoTo, OnRDB, Commanding, Table
<1>5. RefusalInv'
  BY <1>1 DEF Inv, FetchTypeOK, AloneInv, OriginInv, RefusalInv, MigrateCpe, GoTo, OnRDB,
              Writing, Commanding, Alive, Ended
<1>6. IdInv'
  BY DEF Inv, IdInv, MigrateCpe
<1>7. MetaInv'
  BY <1>1 DEF Inv, FetchTypeOK, MetaInv, Race, CreatedTogether, MigrateCpe, GoTo,
              OnRDB, Writing
<1>8. TimeInv'
  BY <1>1 DEF Inv, FetchTypeOK, TimeInv, MigrateCpe, GoTo, OnRDB, Writing
<1> QED  BY <1>1, <1>2, <1>3, <1>4, <1>5, <1>6, <1>7, <1>8 DEF Inv

\* A download changes nothing in the database.
LEMMA FetchKeepsInv ==
  ASSUME Inv, NEW p \in Process, Fetch(p)
  PROVE  Inv'
<1>1. Alive(p) /\ AloneInv'
  BY StaysAlone DEF Fetch, Alive, Ended
<1>2. FetchTypeOK'
  BY <1>1 DEF Inv, FetchTypeOK, Fetch, dbVars, GoTo, Opening, Commanding, Ended
<1>3. OriginInv'
  BY <1>1 DEF Inv, FetchTypeOK, OriginInv, Fetch, dbVars, GoTo, OnRDB, Writing,
              Commanding, Opening, Ended
<1>4. MigratedInv'
  BY DEF Inv, FetchTypeOK, MigratedInv, Fetch, dbVars, GoTo, OnRDB, Commanding, Table
<1>5. RefusalInv'
  BY <1>1 DEF Inv, FetchTypeOK, AloneInv, OriginInv, RefusalInv, Fetch, dbVars, GoTo, OnRDB,
              Writing, Commanding, Alive, Ended
<1>6. IdInv'
  BY DEF Inv, IdInv, Fetch, dbVars
<1>7. MetaInv'
  BY <1>1 DEF Inv, FetchTypeOK, MetaInv, Race, CreatedTogether, Fetch, dbVars, GoTo,
              OnRDB, Writing
<1>8. TimeInv'
  BY <1>1 DEF Inv, FetchTypeOK, TimeInv, Fetch, dbVars, GoTo, OnRDB, Writing
<1> QED  BY <1>1, <1>2, <1>3, <1>4, <1>5, <1>6, <1>7, <1>8 DEF Inv

\* Nor does a command that is cut off.
LEMMA FailKeepsInv ==
  ASSUME Inv, NEW p \in Process, Fail(p)
  PROVE  Inv'
<1>1. Alive(p) /\ AloneInv'
  BY StaysAlone DEF Fail, Alive, Ended
<1>2. FetchTypeOK'
  BY <1>1 DEF Inv, FetchTypeOK, Fail, dbVars, GoTo, Opening, Commanding, Ended
<1>3. OriginInv'
  BY <1>1 DEF Inv, FetchTypeOK, OriginInv, Fail, dbVars, GoTo, OnRDB, Writing,
              Commanding, Opening, Ended
<1>4. MigratedInv'
  BY DEF Inv, FetchTypeOK, MigratedInv, Fail, dbVars, GoTo, OnRDB, Commanding, Table
<1>5. RefusalInv'
  BY <1>1 DEF Inv, FetchTypeOK, AloneInv, OriginInv, RefusalInv, Fail, dbVars, GoTo, OnRDB,
              Writing, Commanding, Alive, Ended
<1>6. IdInv'
  BY DEF Inv, IdInv, Fail, dbVars
<1>7. MetaInv'
  BY <1>1 DEF Inv, FetchTypeOK, MetaInv, Race, CreatedTogether, Fail, dbVars, GoTo,
              OnRDB, Writing
<1>8. TimeInv'
  BY <1>1 DEF Inv, FetchTypeOK, TimeInv, Fail, dbVars, GoTo, OnRDB, Writing
<1> QED  BY <1>1, <1>2, <1>3, <1>4, <1>5, <1>6, <1>7, <1>8 DEF Inv

\* Times are numbers that do not exceed the clock.
LEMMA Times ==
  ASSUME Inv
  PROVE  /\ MaxTime \in Nat /\ clock \in Nat /\ clock <= MaxTime
         /\ durable \in Nat /\ durable <= clock
         /\ \A r \in rows : r.lastFetchedAt \in Nat /\ r.lastFetchedAt <= clock
         /\ \A p \in Process : fetchMeta[p].lastFetchedAt \in Nat
BY ScenarioAssumption DEF Inv, FetchTypeOK, Meta, MetaInv

\* A command that goes on knows the one FetchMeta, or that there is none.
LEMMA GetFetchMetaKeepsInv ==
  ASSUME Inv, NEW p \in Process, GetFetchMeta(p)
  PROVE  Inv'
<1> DEFINE next(meta) == IF OutDated(meta) THEN "failed"
                         ELSE IF command[p] = "server" THEN "serve" ELSE "upsertFirst"
<1>1. PICK meta \in IF rows = {} THEN {NoMeta} ELSE rows :
        /\ fetchMeta' = [fetchMeta EXCEPT ![p] = meta]
        /\ pc' = [pc EXCEPT ![p] = next(meta)]
  BY DEF GetFetchMeta, GoTo
<1>2. /\ next(meta) \in {"failed", "serve", "upsertFirst"}
      /\ next(meta) # "failed" => meta.schemaVersion = LatestSchemaVersion
  BY DEF OutDated
<1> HIDE DEF next
<1>3. /\ Alive(p) /\ AloneInv' /\ pc[p] = "getMeta"
      /\ UNCHANGED <<scenario, metaTable, cpeData, migrated, rows, durable, clock, command,
                     lookupFailed>>
  BY <1>1, StaysAlone DEF GetFetchMeta, GoTo, Alive, Ended, dbVars
<1>4. meta \in Meta
  BY <1>1 DEF NoMeta, Meta, Never, LatestSchemaVersion, Inv, FetchTypeOK
<1>5. FetchTypeOK'
  BY <1>1, <1>2, <1>3, <1>4 DEF Inv, FetchTypeOK, Commanding, Ended
<1>6. OriginInv'
  <2>1. scenario.origin = "outdated" => next(meta) = "failed"
    <3> SUFFICES ASSUME scenario.origin = "outdated" PROVE next(meta) = "failed"
      OBVIOUS
    <3>1. rows = {Row(1, LatestSchemaVersion - 1, 1)}
      BY DEF Inv, OriginInv
    <3>2. meta = Row(1, LatestSchemaVersion - 1, 1)
      BY <1>1, <3>1
    <3>3. meta.schemaVersion # LatestSchemaVersion
      BY <3>2 DEF LatestSchemaVersion, Row
    <3> QED  BY <1>2, <3>3
  <2> QED
    BY <1>1, <1>2, <1>3, <2>1 DEF Inv, FetchTypeOK, OriginInv, OnRDB, Writing, Commanding
<1>7. MigratedInv' /\ RefusalInv' /\ IdInv'
  <2>1. MigratedInv'
    BY <1>1, <1>2, <1>3 DEF Inv, FetchTypeOK, MigratedInv, OnRDB, Commanding
  <2>2. RefusalInv'
    BY <1>1, <1>2, <1>3 DEF Inv, FetchTypeOK, RefusalInv
  <2> QED  BY <1>3, <2>1, <2>2 DEF Inv, IdInv
<1>8. MetaInv'
  <2>1. CASE rows = {}
    <3>1. meta.id = 0 /\ meta.lastFetchedAt = 0
      BY <1>1, <2>1 DEF NoMeta, Never
    <3>2. Cardinality(rows) = 0
      BY <2>1, FS_EmptySet
    <3> QED
      BY <1>1, <1>2, <1>3, <2>1, <3>1, <3>2, Times
         DEF Inv, FetchTypeOK, MetaInv, Race, CreatedTogether, OnRDB, Writing
  <2>2. CASE rows # {}
    <3>1. meta \in rows /\ meta.id \in 1..Cardinality(rows) /\ meta.lastFetchedAt <= clock
      BY <1>1, <2>2 DEF Inv, IdInv, MetaInv
    <3>2. Cardinality(rows) \in Nat
      BY FS_CardinalityType DEF Inv, IdInv
    <3>3. ~Race => meta.id = 1 /\ rows \subseteq {meta}
      BY <3>1 DEF Inv, MetaInv, FetchTypeOK
    <3>4. ~scenario.overlap => ~Race
      BY DEF Race, CreatedTogether
    <3> QED
      BY <1>1, <1>2, <1>3, <3>1, <3>2, <3>3, <3>4
         DEF Inv, FetchTypeOK, MetaInv, Race, CreatedTogether, OnRDB, Writing
  <2> QED  BY <2>1, <2>2
<1>9. TimeInv'
  <2>1. ~OnRDB => meta.lastFetchedAt <= durable
    BY <1>1, Times DEF NoMeta, Never, Inv, TimeInv
  <2> QED  BY <1>1, <1>2, <1>3, <2>1 DEF Inv, FetchTypeOK, TimeInv, OnRDB
<1> QED  BY <1>3, <1>5, <1>6, <1>7, <1>8, <1>9 DEF Inv

\* On Redis the latest insert is that of the clock.
LEMMA InsertCpesKeepsInv ==
  ASSUME Inv, NEW p \in Process, InsertCpes(p)
  PROVE  Inv'
<1>1. Alive(p) /\ AloneInv'
  BY StaysAlone DEF InsertCpes, Alive, Ended
<1>2. FetchTypeOK'
  BY <1>1, Times DEF Inv, FetchTypeOK, InsertCpes, GoTo, Opening, Commanding, Ended
<1>3. OriginInv'
  BY <1>1 DEF Inv, FetchTypeOK, OriginInv, InsertCpes, GoTo, OnRDB, Writing,
              Commanding, Opening, Ended
<1>4. MigratedInv'
  BY DEF Inv, FetchTypeOK, MigratedInv, InsertCpes, GoTo, OnRDB, Commanding, Table
<1>5. RefusalInv'
  BY <1>1 DEF Inv, FetchTypeOK, AloneInv, OriginInv, RefusalInv, InsertCpes, GoTo, OnRDB,
              Writing, Commanding, Alive, Ended
<1>6. IdInv'
  BY DEF Inv, IdInv, InsertCpes
<1>7. MetaInv'
  BY <1>1, Times DEF Inv, FetchTypeOK, MetaInv, Race, CreatedTogether, InsertCpes, GoTo,
              OnRDB, Writing
<1>8. TimeInv'
  BY <1>1, Times DEF Inv, FetchTypeOK, TimeInv, InsertCpes, GoTo, OnRDB, Writing
<1> QED  BY <1>1, <1>2, <1>3, <1>4, <1>5, <1>6, <1>7, <1>8 DEF Inv

\* An RDB may have lost it.
LEMMA InsertNotCommittedKeepsInv ==
  ASSUME Inv, NEW p \in Process, InsertNotCommitted(p)
  PROVE  Inv'
<1>1. Alive(p) /\ AloneInv'
  BY StaysAlone DEF InsertNotCommitted, Alive, Ended
<1>2. FetchTypeOK'
  BY <1>1, Times DEF Inv, FetchTypeOK, InsertNotCommitted, dbVars, GoTo, Opening, Commanding,
              Ended
<1>3. OriginInv'
  BY <1>1 DEF Inv, FetchTypeOK, OriginInv, InsertNotCommitted, dbVars, GoTo, OnRDB, Writing,
              Commanding, Opening, Ended
<1>4. MigratedInv'
  BY DEF Inv, FetchTypeOK, MigratedInv, InsertNotCommitted, dbVars, GoTo, OnRDB, Commanding,
              Table
<1>5. RefusalInv'
  BY <1>1 DEF Inv, FetchTypeOK, AloneInv, OriginInv, RefusalInv, InsertNotCommitted, dbVars,
              GoTo, OnRDB, Writing, Commanding, Alive, Ended
<1>6. IdInv'
  BY DEF Inv, IdInv, InsertNotCommitted, dbVars
<1>7. MetaInv'
  BY <1>1, Times DEF Inv, FetchTypeOK, MetaInv, Race, CreatedTogether, InsertNotCommitted,
              dbVars, GoTo, OnRDB, Writing
<1>8. TimeInv'
  BY <1>1, Times DEF Inv, FetchTypeOK, TimeInv, InsertNotCommitted, dbVars, GoTo, OnRDB, Writing
<1> QED  BY <1>1, <1>2, <1>3, <1>4, <1>5, <1>6, <1>7, <1>8 DEF Inv

\* Keys are written only after FetchMeta.
LEMMA InsertCutOffKeepsInv ==
  ASSUME Inv, NEW p \in Process, InsertCutOff(p)
  PROVE  Inv'
<1>1. Alive(p) /\ AloneInv'
  BY StaysAlone DEF InsertCutOff, Alive, Ended
<1>2. FetchTypeOK'
  BY <1>1, Times DEF Inv, FetchTypeOK, InsertCutOff, GoTo, Opening, Commanding, Ended
<1>3. OriginInv'
  BY <1>1 DEF Inv, FetchTypeOK, OriginInv, InsertCutOff, GoTo, OnRDB, Writing,
              Commanding, Opening, Ended
<1>4. MigratedInv'
  BY DEF Inv, FetchTypeOK, MigratedInv, InsertCutOff, GoTo, OnRDB, Commanding, Table
<1>5. RefusalInv'
  BY <1>1 DEF Inv, FetchTypeOK, AloneInv, OriginInv, RefusalInv, InsertCutOff, GoTo, OnRDB,
              Writing, Commanding, Alive, Ended
<1>6. IdInv'
  BY DEF Inv, IdInv, InsertCutOff
<1>7. MetaInv'
  BY <1>1, Times DEF Inv, FetchTypeOK, MetaInv, Race, CreatedTogether, InsertCutOff, GoTo,
              OnRDB, Writing
<1>8. TimeInv'
  BY <1>1, Times DEF Inv, FetchTypeOK, TimeInv, InsertCutOff, GoTo, OnRDB, Writing
<1> QED  BY <1>1, <1>2, <1>3, <1>4, <1>5, <1>6, <1>7, <1>8 DEF Inv

\* A command that writes FetchMeta updates the row it knows, or inserts the next.
LEMMA UpsertedRow ==
  ASSUME Inv, NEW p \in Process, NEW t \in Nat, UpsertFetchMeta(p, t),
         pc[p] \in {"upsertFirst", "upsertLast"}
  PROVE  \E row \in Meta :
           /\ row \in rows' /\ row.lastFetchedAt = t /\ (~Race => row.id = 1)
           /\ row.id \in 1..(Cardinality(rows) + 1)
           /\ rows' = {r \in rows : r.id # row.id} \cup {row}
           /\ fetchMeta' = [fetchMeta EXCEPT ![p] = row]
<1> DEFINE id == IF fetchMeta[p].id = 0 THEN NewId ELSE fetchMeta[p].id
           row == Row(id, LatestSchemaVersion, t)
<1>1. Cardinality(rows) \in Nat /\ (rows = {} => Cardinality(rows) = 0)
  BY FS_CardinalityType, FS_EmptySet DEF Inv, IdInv
<1>2. /\ fetchMeta[p].id \in 0..Cardinality(rows)
      /\ ~Race => fetchMeta[p].id = 1 \/ (fetchMeta[p].id = 0 /\ (rows = {} \/ ~OnRDB))
  BY <1>1 DEF Inv, MetaInv, Writing
<1>3. id \in 1..(Cardinality(rows) + 1) /\ (~Race => id = 1)
  BY <1>1, <1>2 DEF NewId
<1>4. /\ rows' = {r \in rows : r.id # id} \cup {row}
      /\ fetchMeta' = [fetchMeta EXCEPT ![p] = row]
  BY DEF UpsertFetchMeta
<1> HIDE DEF id
<1>5. row \in Meta /\ row.id = id /\ row.lastFetchedAt = t
  BY <1>1, <1>3 DEF Row, Meta, LatestSchemaVersion
<1> HIDE DEF row
<1> QED  BY <1>3, <1>4, <1>5

\* Either way the ids are given in turn.
LEMMA UpsertKeepsIds ==
  ASSUME Inv, NEW row, row.id \in 1..(Cardinality(rows) + 1),
         rows' = {r \in rows : r.id # row.id} \cup {row}
  PROVE  /\ IdInv' /\ Cardinality(rows) \in Nat /\ Cardinality(rows') \in Nat
         /\ Cardinality(rows) <= Cardinality(rows') /\ row.id <= Cardinality(rows')
<1> DEFINE n == Cardinality(rows)
           others == {r \in rows : r.id # row.id}
<1>1. IsFiniteSet(rows) /\ n \in Nat /\ {r.id : r \in rows} = 1..n
  BY FS_CardinalityType DEF Inv, IdInv
<1>2. row \notin others /\ rows' = others \cup {row}
  OBVIOUS
<1>3. CASE row.id <= n
  <2>1. PICK old \in rows : old.id = row.id
    <3>1. row.id \in 1..n
      BY <1>1, <1>3
    <3> QED  BY <1>1, <3>1
  <2>2. others = rows \ {old}
    BY <2>1 DEF Inv, FetchTypeOK
  <2>3. IsFiniteSet(others) /\ Cardinality(others) = n - 1
    BY <1>1, <2>1, <2>2, FS_RemoveElement
  <2>4. IsFiniteSet(rows') /\ Cardinality(rows') = n
    <3>1. IsFiniteSet(rows') /\ Cardinality(rows') = Cardinality(others) + 1
      <4> HIDE DEF others
      <4>1. IsFiniteSet(others) /\ row \notin others
        BY <1>2, <2>3
      <4>2. /\ IsFiniteSet(others \cup {row})
            /\ Cardinality(others \cup {row}) = Cardinality(others) + 1
        BY ONLY <4>1, FS_AddElement
      <4> QED  BY <1>2, <4>2
    <3>2. n - 1 + 1 = n
      BY <1>1
    <3> QED  BY <2>3, <3>1, <3>2
  <2>5. {r.id : r \in rows'} = {r.id : r \in rows}
    <3>1. \A r \in rows' : \E o \in rows : o.id = r.id
      BY <1>2, <2>1
    <3>2. \A o \in rows : \E r \in rows' : r.id = o.id
      <4> SUFFICES ASSUME NEW o \in rows PROVE \E r \in rows' : r.id = o.id
        OBVIOUS
      <4>1. CASE o.id = row.id
        BY <1>2, <4>1
      <4>2. CASE o.id # row.id
        <5>1. o \in rows'
          BY <1>2, <4>2
        <5> QED  BY <5>1
      <4> QED  BY <4>1, <4>2
    <3> QED  BY ONLY <3>1, <3>2
  <2>6. IdInv'
    <3>1. {r.id : r \in rows'} = 1..Cardinality(rows')
      BY <1>1, <2>4, <2>5
    <3> QED  BY <2>4, <3>1 DEF IdInv
  <2> QED  BY <1>1, <1>3, <2>4, <2>6
<1>4. CASE row.id = n + 1
  <2>1. \A r \in rows : r.id # n + 1
    <3>1. n + 1 \notin 1..n
      BY <1>1
    <3> QED  BY <1>1, <3>1
  <2>2. others = rows
    BY <1>4, <2>1
  <2>3. IsFiniteSet(rows') /\ Cardinality(rows') = n + 1
    BY <1>1, <1>2, <2>2, FS_AddElement
  <2>4. {r.id : r \in rows'} = {r.id : r \in rows} \cup {n + 1}
    BY <1>2, <1>4, <2>2
  <2>5. 1..(n + 1) = (1..n) \cup {n + 1}
    BY <1>1
  <2>6. {r.id : r \in rows'} = 1..Cardinality(rows')
    BY <1>1, <2>3, <2>4, <2>5
  <2>7. IdInv'
    BY <2>3, <2>6 DEF IdInv
  <2> QED  BY <1>1, <1>4, <2>3, <2>7
<1> QED
  <2>1. row.id <= n \/ row.id = n + 1
    BY <1>1
  <2> QED  BY <1>3, <1>4, <2>1

\* A time may be written that is no later than the clock, and on Redis than the insert.
LEMMA UpsertKeepsInv ==
  ASSUME Inv, NEW p \in Process, NEW t \in Nat, UpsertFetchMeta(p, t),
         t <= clock, ~OnRDB => t <= durable,
         \/ pc[p] = "upsertFirst" /\ GoTo(p, "fetch")
         \/ pc[p] = "upsertLast" /\ GoTo(p, "done")
  PROVE  Inv'
<1>1. PICK s \in {"fetch", "done"} : pc' = [pc EXCEPT ![p] = s]
  BY DEF GoTo
<1>2. PICK row \in Meta :
        /\ row \in rows' /\ row.lastFetchedAt = t /\ (~Race => row.id = 1)
        /\ row.id \in 1..(Cardinality(rows) + 1)
        /\ rows' = {r \in rows : r.id # row.id} \cup {row}
        /\ fetchMeta' = [fetchMeta EXCEPT ![p] = row]
  BY UpsertedRow
<1>3. /\ metaTable' = TRUE
      /\ UNCHANGED <<scenario, cpeData, migrated, durable, clock, command, lookupFailed>>
  BY DEF UpsertFetchMeta
<1>4. Alive(p) /\ AloneInv'
  BY <1>3, StaysAlone DEF Alive, Ended
<1>5. scenario.origin \in {"empty", "current"}
  BY ScenarioAssumption DEF Inv, FetchTypeOK, OriginInv, Origin, Opening
<1>6. /\ IdInv' /\ Cardinality(rows) \in Nat /\ Cardinality(rows') \in Nat
      /\ Cardinality(rows) <= Cardinality(rows') /\ row.id <= Cardinality(rows')
  BY <1>2, UpsertKeepsIds
<1>7. FetchTypeOK'
  <2>1. rows' \subseteq Meta /\ \A a, b \in rows' : a.id = b.id => a = b
    BY <1>2 DEF Inv, FetchTypeOK
  <2>2. pc' \in [Process -> Opening \cup Commanding \cup Ended]
    BY <1>1 DEF Inv, FetchTypeOK, Commanding, Ended
  <2> QED  BY <1>2, <1>3, <2>1, <2>2 DEF Inv, FetchTypeOK
<1>8. OriginInv'
  BY <1>2, <1>3, <1>5 DEF OriginInv
<1>9. MigratedInv' /\ RefusalInv'
  <2>1. MigratedInv'
    BY <1>1, <1>3 DEF Inv, FetchTypeOK, MigratedInv, OnRDB, Commanding
  <2>2. RefusalInv'
    BY <1>1, <1>3, <1>4 DEF Inv, FetchTypeOK, AloneInv, RefusalInv, Alive, Ended
  <2> QED  BY <2>1, <2>2
<1>10. MetaInv'
  <2>1. \A r \in rows' : r \in rows \/ r = row
    BY <1>2
  <2>2. Race' = Race /\ OnRDB' = OnRDB /\ (~scenario.overlap => ~Race)
    BY <1>3 DEF Race, CreatedTogether, OnRDB
  <2>3. ASSUME NEW q \in Process, q # p, pc[q] = "upsertFirst"
        PROVE  /\ fetchMeta[q].id \in 0..Cardinality(rows')
               /\ ~Race => fetchMeta[q].id = 1 \/ (fetchMeta[q].id = 0 /\ ~OnRDB)
               /\ scenario.overlap
    <3>1. scenario.overlap
      BY <1>4, <2>3 DEF Inv, AloneInv, Alive, Ended
    <3>2. fetchMeta[q].id \in 0..Cardinality(rows')
      BY <1>6, <2>3 DEF Inv, MetaInv
    <3>3. ~Race /\ OnRDB => rows # {}
      BY <1>5, <3>1 DEF Inv, OriginInv, Race, CreatedTogether
    <3> QED  BY <2>3, <3>1, <3>2, <3>3 DEF Inv, MetaInv
  <2>4. ASSUME NEW q \in Process, q # p, pc[q] \in Writing
        PROVE  fetchMeta[q].id \in 1..Cardinality(rows') /\ (~Race => fetchMeta[q].id = 1)
    BY <1>6, <2>4 DEF Inv, MetaInv
  <2>5. row.id \in 1..Cardinality(rows')
    BY <1>2, <1>6
  <2>6. \A r \in rows' : r.lastFetchedAt <= clock /\ (~Race => r.id = 1)
    BY <1>2, <2>1 DEF Inv, MetaInv
  <2>7. /\ pc'[p] = s /\ fetchMeta'[p] = row
        /\ \A q \in Process : q # p => pc'[q] = pc[q] /\ fetchMeta'[q] = fetchMeta[q]
    BY <1>1, <1>2 DEF Inv, FetchTypeOK
  <2>8. ASSUME NEW q \in Process
        PROVE  /\ pc'[q] = "upsertFirst" =>
                    /\ fetchMeta'[q].id \in 0..Cardinality(rows')
                    /\ ~Race => \/ fetchMeta'[q].id = 1
                                \/ fetchMeta'[q].id = 0 /\ ~OnRDB
                    /\ scenario.overlap
                    /\ fetchMeta'[q].lastFetchedAt <= clock
               /\ pc'[q] \in Writing =>
                    fetchMeta'[q].id \in 1..Cardinality(rows') /\ (~Race => fetchMeta'[q].id = 1)
    <3>1. CASE q = p
      BY <1>2, <2>5, <2>7, <3>1
    <3>2. CASE q # p
      BY <2>3, <2>4, <2>7, <3>2 DEF Inv, MetaInv
    <3> QED  BY <3>1, <3>2
  <2> QED  BY <1>3, <2>2, <2>6, <2>8 DEF MetaInv
<1>11. TimeInv'
  <2>1. \A r \in rows' : r \in rows \/ r = row
    BY <1>2
  <2> QED  BY <1>1, <1>2, <1>3, <2>1 DEF Inv, FetchTypeOK, TimeInv, OnRDB
<1> QED  BY <1>4, <1>6, <1>7, <1>8, <1>9, <1>10, <1>11 DEF Inv

\* The first time FetchMeta is written, it keeps the time of the last fetch.
LEMMA UpsertFirstKeepsInv ==
  ASSUME Inv, NEW p \in Process, UpsertFirst(p)
  PROVE  Inv'
<1>1. /\ pc[p] = "upsertFirst" /\ GoTo(p, "fetch")
      /\ UpsertFetchMeta(p, fetchMeta[p].lastFetchedAt)
  BY DEF UpsertFirst
<1>2. fetchMeta[p].lastFetchedAt <= clock /\ (~OnRDB => fetchMeta[p].lastFetchedAt <= durable)
  BY <1>1 DEF Inv, MetaInv, TimeInv
<1> QED  BY <1>1, <1>2, Times, UpsertKeepsInv

\* The last time, it has the time of the insert that took effect.
LEMMA UpsertLastKeepsInv ==
  ASSUME Inv, NEW p \in Process, UpsertLast(p)
  PROVE  Inv'
<1>1. pc[p] = "upsertLast" /\ GoTo(p, "done") /\ UpsertFetchMeta(p, clock)
  BY DEF UpsertLast
<1>2. clock <= clock /\ (~OnRDB => clock <= durable)
  BY <1>1, Times DEF Inv, TimeInv
<1> QED  BY <1>1, <1>2, Times, UpsertKeepsInv

\* Every step of every process keeps it.
LEMMA InvInductive ==
  ASSUME Inv, [Next]_vars
  PROVE  Inv'
<1>1. ASSUME NEW p \in Process, ProcessStep(p)
      PROVE  Inv'
  <2>1. CASE \E c \in {"fetch", "server"} : Invoke(p, c)
    BY <2>1, InvokeKeepsInv
  <2>2. CASE HasMeta(p)             BY <2>2, HasMetaKeepsInv
  <2>3. CASE Probe(p)               BY <2>3, ProbeKeepsInv
  <2>4. CASE MigrateMeta(p)         BY <2>4, MigrateMetaKeepsInv
  <2>5. CASE MigrateCpe(p)          BY <2>5, MigrateCpeKeepsInv
  <2>6. CASE GetFetchMeta(p)        BY <2>6, GetFetchMetaKeepsInv
  <2>7. CASE UpsertFirst(p)         BY <2>7, UpsertFirstKeepsInv
  <2>8. CASE Fetch(p)               BY <2>8, FetchKeepsInv
  <2>9. CASE InsertCpes(p)          BY <2>9, InsertCpesKeepsInv
  <2>10. CASE InsertNotCommitted(p) BY <2>10, InsertNotCommittedKeepsInv
  <2>11. CASE InsertCutOff(p)       BY <2>11, InsertCutOffKeepsInv
  <2>12. CASE UpsertLast(p)         BY <2>12, UpsertLastKeepsInv
  <2>13. CASE Fail(p)               BY <2>13, FailKeepsInv
  <2> QED
    BY <1>1, <2>1, <2>2, <2>3, <2>4, <2>5, <2>6, <2>7, <2>8, <2>9, <2>10, <2>11, <2>12, <2>13
       DEF ProcessStep
<1>2. ASSUME UNCHANGED vars
      PROVE  Inv'
  BY <1>2 DEF vars, dbVars, Inv, FetchTypeOK, AloneInv, Alive, OriginInv, MigratedInv,
              RefusalInv,
               IdInv, MetaInv, Race, CreatedTogether, TimeInv, OnRDB
<1> QED  BY <1>1, <1>2 DEF Next

LEMMA AlwaysInv ==
  ASSUME ProperUse
  PROVE  Spec => []Inv
BY InitInv, InvInductive, PTL DEF Spec

-----------------------------------------------------------------------------
(***************************************************************************)
(* What it shows                                                           *)
(***************************************************************************)

\* The database, the times and the processes always have their types; of two rows of
\* FetchMeta none has the id of the other.
THEOREM FetchTypeCorrect ==
  ASSUME ProperUse
  PROVE  Spec => []FetchTypeOK
<1>1. Inv => FetchTypeOK
  BY DEF Inv
<1> QED  BY <1>1, AlwaysInv, PTL

\* IsGoCPEDictModelV1 mistakes a database that these commands made, whatever they were
\* cut off in, for one of model v1 only when HasTable hides a failed lookup or another
\* command creates the database meanwhile; the next lookup that works sets it right.
THEOREM OwnRefusalsHaveACause ==
  ASSUME ProperUse
  PROVE  Spec => []OwnRefusalHasCause
<1>1. Inv => OwnRefusalHasCause
  <2> SUFFICES ASSUME Inv, scenario.origin # "v1", NEW p \in Process, pc[p] = "refused"
               PROVE  metaTable /\ (lookupFailed[p] \/ CreatedTogether)
    BY DEF OwnRefusalHasCause
  <2>1. scenario.origin \in {"empty", "outdated", "current"}
    BY ScenarioAssumption DEF Inv, FetchTypeOK, Origin
  <2> QED  BY <2>1 DEF Inv, OriginInv, RefusalInv, CreatedTogether
<1> QED  BY <1>1, AlwaysInv, PTL

\* IsGoCPEDictModelV1 keeps every command from a database of model v1 in an RDB.
THEOREM LegacyIsUntouched ==
  ASSUME ProperUse
  PROVE  Spec => []LegacyUntouched
<1>1. Inv => LegacyUntouched
  BY DEF Inv, OriginInv, LegacyUntouched, Commanding
<1> QED  BY <1>1, AlwaysInv, PTL

\* MigrateDB changes the tables of a database of an older schema version before OutDated
\* sees its FetchMeta; the FetchMeta stays, and keeps every command from going on.
THEOREM OutdatedIsRefused ==
  ASSUME ProperUse
  PROVE  Spec => []OutdatedStaysRefused
<1>1. Inv => OutdatedStaysRefused
  <2> SUFFICES ASSUME Inv, scenario.origin = "outdated" PROVE OutdatedStaysRefused
    BY DEF OutdatedStaysRefused
  <2>1. \A p \in Process : pc[p] \notin Commanding \ {"getMeta"}
    BY DEF Inv, OriginInv, Opening, Commanding
  <2>2. \A p \in Process : OnRDB /\ pc[p] = "getMeta" => migrated = Table
    BY DEF Inv, MigratedInv, Commanding
  <2> QED  BY <2>1, <2>2 DEF Inv, OriginInv, OutdatedStaysRefused
<1> QED  BY <1>1, AlwaysInv, PTL

\* On Redis, the commands never record the time of a fetch that is not in the
\* database, however they overlap and wherever they are cut off.
THEOREM TimesAreBacked ==
  ASSUME ProperUse
  PROVE  Spec => []FetchTimeBacked
<1>1. Inv => FetchTimeBacked
  BY DEF Inv, TimeInv, FetchTimeBacked
<1> QED  BY <1>1, AlwaysInv, PTL

\* UpsertFetchMeta never leaves a second FetchMeta, but for two commands that create an
\* RDB together.
THEOREM FetchMetaIsSingle ==
  ASSUME ProperUse
  PROVE  Spec => []SingleFetchMeta
<1>1. ASSUME Inv PROVE SingleFetchMeta
  <2> SUFFICES ASSUME ~Race PROVE Cardinality(rows) <= 1
    BY DEF SingleFetchMeta, Race
  <2>1. \A r, s \in rows : r = s
    BY <1>1 DEF Inv, MetaInv, FetchTypeOK
  <2>2. rows = {} \/ \E r \in rows : rows = {r}
    BY <2>1
  <2>3. CASE rows = {}
    BY <2>3, FS_EmptySet
  <2>4. CASE \E r \in rows : rows = {r}
    <3>1. PICK r \in rows : rows = {r}
      BY <2>4
    <3>2. Cardinality({r}) = 1
      BY FS_Singleton
    <3> QED  BY <3>1, <3>2
  <2> QED  BY <2>2, <2>3, <2>4
<1> QED  BY <1>1, AlwaysInv, PTL

\* While commands do not overlap, neither UpsertFetchMeta of a command sets the time
\* of the last fetch back: the first carries it over, the last has a later one.
THEOREM TimesNeverGoBack ==
  ASSUME ProperUse
  PROVE  Spec => FetchTimeMonotone
<1> DEFINE Forward == ~scenario.overlap =>
             \A r \in rows : \E s \in rows' :
               s.id = r.id /\ s.lastFetchedAt >= r.lastFetchedAt
<1>1. ASSUME Inv, [Next]_vars PROVE [Forward]_rows
  <2> SUFFICES ASSUME ~scenario.overlap, NEW r \in rows, rows' # rows
               PROVE  \E s \in rows' : s.id = r.id /\ s.lastFetchedAt >= r.lastFetchedAt
    OBVIOUS
  <2>1. PICK p \in Process : ProcessStep(p)
    BY <1>1 DEF Next, vars, dbVars
  <2>2. UpsertFirst(p) \/ UpsertLast(p)
    BY <2>1 DEF ProcessStep, Invoke, HasMeta, Probe, MigrateMeta, MigrateCpe, GetFetchMeta,
                Fetch, InsertCpes, InsertNotCommitted, InsertCutOff, Fail, dbVars
  <2>3. /\ r.id = 1 /\ r.lastFetchedAt \in Nat /\ clock \in Nat /\ r.lastFetchedAt <= clock
        /\ ~Race
    BY <1>1, Times DEF Inv, MetaInv, Race, CreatedTogether
  <2>4. CASE UpsertFirst(p)
    <3>1. /\ UpsertFetchMeta(p, fetchMeta[p].lastFetchedAt)
          /\ pc[p] = "upsertFirst" /\ rows \subseteq {fetchMeta[p]}
      BY <1>1, <2>4 DEF UpsertFirst, Inv, MetaInv
    <3>2. PICK row \in rows' : row.id = 1 /\ row.lastFetchedAt = fetchMeta[p].lastFetchedAt
      BY <1>1, <2>3, <3>1, Times, UpsertedRow
    <3>3. r = fetchMeta[p]
      BY <3>1
    <3> QED  BY <2>3, <3>2, <3>3
  <2>5. CASE UpsertLast(p)
    <3>1. UpsertFetchMeta(p, clock) /\ pc[p] = "upsertLast"
      BY <2>5 DEF UpsertLast
    <3>2. PICK row \in rows' : row.id = 1 /\ row.lastFetchedAt = clock
      BY <1>1, <2>3, <3>1, UpsertedRow
    <3> QED  BY <2>3, <3>2
  <2> QED  BY <2>2, <2>4, <2>5
<1> QED  BY <1>1, AlwaysInv, PTL DEF Spec, FetchTimeMonotone
=============================================================================
