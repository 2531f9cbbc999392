# A TLA+ model of go-cpe-dictionary

go-cpe-dictionary keeps a copy of CPE dictionaries (NVD, JVN, Vuls) in Redis or an SQL
database (`fetch nvd|jvn|vuls`) and serves it over HTTP (`server`). Nothing but the
database connects the commands: any number of them may run at the same time, each may
die at any point, and the next one starts from whatever is there. That is where the code
is hard to test, and what these modules are about.

## Inventory

| Component | State | Operations | Talks to |
|---|---|---|---|
| Redis driver (`db/redis.go`) | sets of CPEs per product and title, sets of products, list of titles, `CPE#DEP`, `CPE#FETCHMETA` | `InsertCpes`, three queries, `IsDeprecated`, FetchMeta | Redis, by pipelines that are no transactions |
| RDB driver (`db/rdb.go`) | tables `categorized_cpes`, `fetch_meta` | the same, and `MigrateDB` | SQLite, MySQL, PostgreSQL, by one transaction per insert |
| Opening and FetchMeta (`db/db.go`, `commands/*`) | existence of tables or keys, FetchMeta | `NewDB`, `IsGoCPEDictModelV1`, `GetFetchMeta`, `UpsertFetchMeta`, the commands | both drivers |
| Conversion (`models/models.go`, `util/util.go`) | three channels, worker goroutines | `ConvertToModels`, `GenWorkers` | called by both drivers per chunk |
| NVD, JVN, Vuls fetchers (`fetcher/*`) | maps from CPE to title | `FetchNVD`, `FetchJVN`, `FetchVuls` | upstream, over the network |
| Download with retries (`fetcher/util`) | retry count | `FetchFeedFile` | upstream |
| HTTP server (`server/server.go`) | none | three handlers, each one query | a driver |
| Command line, configuration, logging | flags | | |

What makes each of them correct, and hard:

- *Redis insert.* Replacing a feed deletes exactly what the type no longer lists; other
  types' members stay; the record `CPE#DEP` and the sets agree at the end. Hard because
  the set of outdated members is a difference over five nested maps, several processes
  share the sets, no command is atomic with another, and a run can be cut off.
- *Redis queries.* An answer made of several reads contains what was there all along, and
  does not mix up CPEs in use and deprecated ones. Hard because inserts run between the reads.
- *RDB insert.* It is all or nothing, per type. Hard because old ids are read before they
  are deleted, and because the databases lock differently.
- *Opening and FetchMeta.* Databases of this schema are accepted, others neither fetched into
  nor served, and the recorded time is true. Hard because each check is several commands before
  a write, one of which swallows its error, and because tables are migrated before the schema
  version is looked at.
- *Conversion.* It returns, with every record, and leaves no goroutine behind that uses a
  closed channel. Hard because the caller counts results without knowing whose they are.
- *Fetchers.* A feed has every CPE the files list, titled by the dictionary, in use or
  deprecated as they say. Hard because files of several kinds, in no order, retitle and
  undeprecate each other's CPEs, and one CPE may come from many URLs.
- *Downloads.* A pool with a timeout, and a retry loop with two limits, end as intended: what
  lacks the RDF of a URL that could not be had is not returned as the feed. Hard because the
  caller counts messages of goroutines whose channels it closes when its time is up, and because
  whatever XML a URL answers with, an error page too, counts as its RDF.
- *Keys and answers.* Both drivers answer alike, and lead from a product they list to its
  CPEs. Hard because one splits keys at `##` and the other passes names to `LIKE` as patterns,
  and names may hold `#`, `\` and `_`.

## Modules

| Module | Models | Instances |
|---|---|---|
| `CpeModels` | fetch types, categorized CPEs, the members and `SADD` commands of a CPE | |
| `RedisDriver` | `RedisDriver.InsertCpes`, one command at a time | `MCRedisDriver` |
| `RedisQueries` | the queries next to `RedisDriver`, which it extends | `MCRedisQueries` |
| `ConvertPool` | `ConvertToModels`, `GenWorkers` | `MCConvertPool` |
| `FetchCommand` | `NewDB`, FetchMeta, the fetch and server commands | `MCFetchCommand` |
| `Dictionary` | abstract: what an insert promises the commands | |
| `RDBDriver` | `RDBDriver.InsertCpes`; implements `Dictionary` | `MCRDBQueries` |
| `RDBQueries` | the queries next to `RDBDriver`, which it extends | `MCRDBQueries` |
| `JvnFetch` | `FetchJVN`, its pool, and the retries of `FetchFeedFile` | `MCJvnFetch` |
| `Names` | keys, their split, `LIKE` | |
| `Answers` | what each driver answers of one set of CPEs, as operators | |
| `FeedBuilder` | `FetchNVD`, `FetchVuls`, and what is stored of their feeds; extends `Answers` | `MCFeedBuilder` |
| `RedisDriverProofs` | theorems about `RedisDriver` on any schedule | |
| `RedisSequentialProofs` | theorems about `RedisDriver` when no run is cut off | |
| `RedisQueriesProofs` | theorems about `RedisQueries`; extends `RedisDriverProofs` | |
| `ConvertPoolProofs` | theorems about `ConvertPool` | |
| `FetchCommandProofs` | theorems about `FetchCommand` | |
| `RDBProofs` | theorems about `RDBDriver` and `RDBQueries` | |
| `JvnFetchProofs` | theorems about `JvnFetch` | |
| `AnswersProofs` | theorems about `Names`, `Answers` and `FeedBuilder` | |

The parts meet in three places. `RedisQueries` and `RDBQueries` compose a driver's inserts with
its queries. `FeedBuilder` composes fetchers, conversion and the answers of both drivers, one
fetch after another. `Dictionary` stands between `RDBDriver` and the commands: what
`FetchCommand` calls an insert that took effect is one step of it.

### How state and actions correspond to the code

**RedisDriver.** `store` holds the members of all sets, each tagged with the family of
keys it belongs to; `deps` is `CPE#DEP`, `titleList` is `CPE#Titles`. An absent key or
field is the empty set: the code treats them alike. Per process, `oldDeps`, `newDeps`,
`titles` are the local variables of those names, `pipe` the commands of the pipeline that
have not been executed. `Start`, `ReadOwnDeps`, `ReadOtherDeps`, `QueueCpe`, `ExecAdd`,
`SetTitles`, `ExecRemove`, `Commit` follow the function from top to bottom. A pipeline is
a sequence of commands other clients can interleave with, so executing one command is one
step; where a pipeline ends is then not observable, and `batch-size` does not appear (below 1
the function returns before any change). `Abort` is an error or a dying process, at any
point. A feed is a set of categorized CPEs, one per title and name; `Upstream` gives the
feeds a type publishes one after the other, and `Publish` moves on to the next.

**RedisQueries.** A request reads once per step and collects its answer; `recorded`
remembers what `CPE#DEP` recorded when it began, for the properties only.

**ConvertPool.** `reqChan` and `resChan` are the buffered channels, `Submit` a rendezvous
on the unbuffered channel of tasks; the two deferred closes are one step, `Return`. A
worker that has taken a title sends the results of its CPEs one by one (`SendNil`,
`SendRecord`). A send to a closed channel is `SendOnClosed`, after which nothing else of
interest happens. Workers are never stopped: after `Return` they wait for tasks for
ever, as in the code (one pool of goroutines is left behind per chunk).

**FetchCommand.** Of the database it keeps which tables exist (or whether there are keys of
CPEs) and which of them `AutoMigrate` has brought to the columns and indexes of this version
(`migrated`), the rows of FetchMeta and the time of the latest insert that took effect
(`durable`). `HasMeta` on an RDB may also be a query that fails: gorm's `HasTable` swallows the
error and answers no (`db/rdb.go:177`), whatever there is; `lookupFailed` remembers it, for the
property only. `AutoMigrate` changes no rows, which is what the program relies on; that it may
rewrite a table on the way is external. Redis's hash is a table of at most one row; it is never
deleted and written by one `HSET`, so reading its fields one by one is the same as reading it
at once. A step per question or statement of `IsGoCPEDictModelV1` and `MigrateDB`; the
commands' own steps follow `commands/fetchnvd.go`, which the other two repeat. `InsertCutOff`
and `Fail` are errors and crashes; statements that fail because another process has created the
table first are among them. `clock` ticks with every insert. What of a database was there
before the first command, on which backend, and whether commands overlap, is the `scenario`.

**RDBDriver.** `rows` is the committed table; a transaction keeps what it `deleted` and
`inserted`. One id is deleted, one row inserted per step, as with a batch size of one:
statements on more rows are sequences of these steps, and a `batch-size` below 1 ends the
function before its transaction. The databases are external:
with `lockDatabase` (SQLite) the second writer fails and a commit waits for readers in
transactions, without it a transaction reads what is committed and a `DELETE` waits for a
transaction that has deleted the same row. Generated ids are unused ones; which
of them, nothing depends on.

**RDBQueries.** A query is one `SELECT` of each kind of row, and what it answers is
`Answers`' operators on the rows that are committed; in and out of use are one step, as the
code makes them of one result. A search is a `SELECT` for the titles, whose ranking is
external (any `Limit` of them), and one per title. `recorded` remembers what was stored
under the titles, for the property only.

**JvnFetch.** As in `ConvertPool` the channels are buffered, a task a rendezvous, the deferred
closes one step. A worker's download is a number of attempts: one may bring a body, or fail;
the HTTP status is not looked at (`fetcher/util/util.go:69`), so the body may be the RDF of the
URL, an XML document of another kind, which unmarshals into an RDF without items (`notRdf`
remembers these URLs), or no XML at all, which is an error; the failure that reaches the limit
of attempts, and the one after which the retry loop has no time left, end it with an error. The
timer of the caller may fire at any moment after the last task was handed out, never before:
that is where the code starts it. `failures` and `lost` remember why a URL was given up, for
the property only. The maps that `FetchJVN` fills feed by feed are stated by what is in them in
the end: the last listing of a CPE (`Overwritten` has the others). After `Close` goroutines may
send to a closed channel, which kills the process (`SendOnClosed`).

**Names, Answers.** A name is a sequence of characters, quoted as the library for names does.
`VPKey` joins, `Before` and `After` split as `strings.Split` does when there are two parts, and
`Like` is what the databases document, case aside: a recursive function that says from which
places on a pattern matches a string. `RDB...` and `Redis...` are the answers
of the drivers of one set of CPEs, for the three queries.

**FeedBuilder.** `files` are the files of the layer that is being read, in any order; `cpes` and
`deprecateds` are the maps of those names, `merged` is the map of `FetchVuls`, into which
`MergeAnnotation` puts the annotations in their order. A criterion titles a CPE by its
attributes. The
retrieval of layers and archives is a choice of files, or fails. The answer of the
conversion is as many records as there are titles, whichever these are (`ConvertPool` shows
that: it returns a result per title).

## Runs

| Run | Question | Bounds |
|---|---|---|
| `MCRedisShared` | Do inserts of different types, interleaved and cut off anywhere, keep what they must (`StableMembersKept`), and does one that returns have installed its feed (`CommitInstallsFeed`)? `InsertInv` is the inductive invariant behind both. | 2 processes, 3 feeds of 2 types; NVD deprecates one CPE and drops one that JVN lists |
| `MCRedisSequential` | Uninterrupted and one at a time: is the list of titles complete (`TitleListComplete`), does it never lead nowhere (`ListedTitleHasCpe`), is nothing orphaned (`NoOrphanMember`)? `OrphanInv` is the inductive invariant behind the last. | 1 process, 8 feeds of 3 types, in any order of publication and fetching |
| `MCRedisQueries` | Do queries answer what is there all along while feeds are replaced? | 1 process, 3 feeds, 1 request after another, of any kind, a search for 1 title |
| `MCConvertPool` | Does the pool return every record, without touching a closed channel? | 3 workers; a chunk of 4 titles with one CPE each, and one of 3 with up to 2 CPEs, one of them malformed |
| `MCFetchShared` | Is an own database refused only with a cause, and not for good (`OwnRefusalHasCause`), does an outdated one stay as it is and refused though it is migrated (`OutdatedStaysRefused`), one of model v1 untouched (`LegacyUntouched`), and is FetchMeta single and true (`SingleFetchMeta`, `FetchTimeBacked`, `FetchTimeMonotone`)? | 2 processes, 3 inserts, all scenarios, first fetches that overlap included, but a Redis of model v1 |
| `MCRDBQueries` | Is an insert one step of `Dictionary` (`ImplementsDictionary`), does a commit store the feed (`CommitStoresFeed`), and are answers of requests meanwhile those of whole feeds (`AnswersFromWholeFeeds`, `StableTitleFound`)? `TxInv` is the inductive invariant behind them. | 2 fetch processes, 3 feeds of 2 types, 8 ids, 1 request after another; SQLite with any overlap, row locks without overlap of one type |
| `MCJvnFetch` | Has a feed that is returned the CPEs of every URL that answered with its RDF (`FeedHasEveryRdf`), has an error a cause (`ErrorHasCause`), is nobody cut off but by the timeout (`PanicOnlyAfterTimeout`), does the call return (`Returns`)? | 2 workers, 3 URLs whose feeds overlap, 2 attempts, one malformed CPE |
| `MCFeedBuilder` | Are feeds complete and titled as they should (`FeedComplete`, `DictionaryTitleWins`), do the drivers answer alike (`DriversAgree`), does a listed product lead to CPEs (`ListedProductFound`)? | any part of 5 dictionary files and of the criteria for 5 CPEs, 3 annotations, JVN fetched before or not; names with `#`, a quoted character and `_` |
| `MCRedisNeeded` (violated) | Is what a type records in Redis? No: another type's insert deletes a shared member. | 1 process, nothing interrupted |
| `MCRedisTitles` (violated) | Is the list of titles complete with overlapping fetches? No: the last `SET` wins. | 2 processes, one CPE each |
| `MCConvertLost` (violated) | Is every CPE converted whatever the chunk? No: not with several CPEs under one title. | as `MCConvertPool` |
| `MCAnswersLike` (violated) | Does a listed product lead to CPEs where a backslash is an escape in patterns? No: a quoted name is looked for without its backslash. | as `MCFeedBuilder`, with `Escapes` |

The bounds are small because one conflict is enough: a member can only be lost between two
types or two runs, a title list between two processes, an id between two transactions. Two
processes and two feeds per type make each of these happen; a third type matters only for
`InsertCpes`' loop over the other types, which `MCRedisSequential` runs. Four titles and
three workers let one worker overtake another at every channel, and the buffers fill; with
two workers and three downloads one of them comes back for a second task while the other one
still retries. The names of `MCFeedBuilder` are one of each kind that the split and the
patterns treat differently. `MaxTime` and `Ids` bound what grows without limit in the code:
three inserts after the first let two commands overlap and one follow; 8 ids are enough for
every transaction that is under way next to the stored rows. `RetryMax` is 20 in the code; 2
has a first, a last and no other attempt. With symmetric processes (`Fetchers`,
`ProcessSymmetry`, `Processes`) only safety properties are checked. Each run's mutants,
operators whose name extends that of the definition they stand for, are plausible errors in
the code that the run does find.

No run checks for deadlock but that of the Redis queries: in the other systems processes
may stop for good (the feeds end, workers stay behind, commands have all been used up).

**Fairness.** Only `ConvertsAll` and `Returns` need it: `WF_vars(Next)`, the Go scheduler runs
some goroutine as long as one can run. Nothing is assumed about which one, nor that the timer
ever fires: `Returns` holds because attempts are limited and every message has room. The
other specifications have no fairness: a process may die at any step, so nothing must happen.

### What else TLC shows when constants are changed

These follow from the same modules and are the reason for the conditions in the properties:

- `OverlapSameType = TRUE` breaks `CommitInstallsFeed` (two runs of one type share the old
  record), not `StableMembersKept`.
- `Interruptible = TRUE` breaks `NoOrphanMember`: what an interrupted run added, and the next
  feed drops, no type has recorded, and it stays for ever.
- A feed that withdraws a deprecated CPE breaks `DeprecatedNeverInUse` (`MCRedisQueries`):
  the CPE leaves the deprecated set between the two reads.
- `OwnRefusalHasCause` without `CreatedTogether`: of two first fetches that overlap, one asks
  for FetchMeta before, and for tables or keys after the other has made them (`db/rdb.go:194`).
  Without `lookupFailed`: after a failed lookup (`db/rdb.go:177`) any own database is refused.
- `SingleFetchMeta` without its condition: two first fetches that overlap find no row, and
  `Save` inserts two.
- `FeedHasEveryRdf` with `Feed[u]` for `Rdf(u)` in `WellFormed`: the feed that is returned lacks
  the CPEs of a URL that answered with an error page in XML (`fetcher/util/util.go:69`,
  `fetcher/jvn/jvn.go:129`), without an error; storing it deletes them.
- `LegacyRedis`, a Redis database of model v1, breaks `LegacyUntouched`: one `SCAN` with
  `COUNT 1` may see no key (`db/redis.go:133`).
- `FetchTimeMonotone` without its condition: a fetch writes back the time it read before
  another one recorded its own (`commands/fetchnvd.go:41-51`).
- Row locks with overlapping fetches of one type break `CommitStoresFeed` and
  `ImplementsDictionary`: both old ids were selected before either committed, and both feeds stay.

## Proofs

No theorem rests on anything but the assumptions on the constants, which TLC evaluates, and
the conditions stated in it. None is about a bounded instance: processes, names, feeds,
requests, files and characters are any sets. Every invariant and action property that a passing
run checks is also a theorem; the inductive invariants behind them were checked by TLC first.

**RedisDriverProofs**, for every set of processes, names and histories of feeds:

- `TypeCorrect`: `Spec => []TypeOK`.
- `StableMembersAreKept`: `Spec => []StableMembersKept`, for any schedule, overlapping runs
  of one type included.
- `CommitInstalls`: `Spec => CommitInstallsFeed`, assuming `OverlapSameType = FALSE`.
- `InsertInvariant`: `Spec => []InsertInv`, on which the last two rest.

`StableMembersKept` is not inductive: that a commit keeps it depends on what the run has
added, and an `SREM` on what it may delete. `InsertInv` adds that a run has recorded exactly
what it has queued and that none of it is outdated (`RunsAccounted`), that old records come
from feeds of the same type (`DepsFromFeeds`), and that what it has queued is in Redis or in
its pipeline unless someone else may delete it (`QueuedStableAdded`,
`QueuedExclusiveAdded`). Each action has a lemma that it preserves the invariant;
`InsertInvInductive` collects them.

**RedisSequentialProofs**, where no run is cut off:

- `NothingOrphaned`: `Spec => []NoOrphanMember`, where runs of one type do not overlap. A
  commit replaces the record of a type, and what only the old one named must be gone by then.
  `OrphanInv` adds that a type records a member only as long as the run of that type, if it has
  read the record, still has it to delete or has queued it (`RecordedFor`), and that a type has
  one run at a time.
- `TitleListIsComplete`: `Spec => []TitleListComplete`, where one process fetches at a time (`OneAtATime`).
  `TitleListInv` says what a run has collected at each point: the titles of what it has read and
  queued, those of the records of the other types (`TitlesCollected`), and all of them once it
  has written the list; so between two runs the list has the recorded titles and no others.
- `ListedTitlesHaveCpes`: `Spec => []ListedTitleHasCpe`, where moreover no two types list a CPE
  under one title (`TitlesUnshared`): a type's members are deleted by its own runs only, and
  then only those that its feed dropped (`RecordedTitlesKept`).

**RedisQueriesProofs** builds on `InsertInv`, which the requests do not disturb:

- `QueryTypeCorrect`.
- `StableCpesAreAnswered` and `StableTitlesAreAnswered`, on any schedule. What was recorded when
  a request began, and its type always lists, stays recorded (`RecordedStays`), so it is in
  Redis at every read of the request, and the request has it to look up or has answered it
  (`NoneLost`).
- `StableProductsAreAnswered`, where fetches of one type do not overlap: feeds then arrive in
  the order in which they were published (`FeedsInOrder`), so what a feed lists no later one
  drops; a product is in one of the two sets before the fetch that deprecates it takes it from
  the other one, and the request reads them in that order (`ProductsShown`).
- `DeprecatedIsNeverInUse`, on the same condition: a run that deprecates a CPE marks it before it
  adds it to its product (`MarkedFirst`), and the request asks in the opposite order.

**RDBProofs** shows that `RDBDriver` implements `Dictionary` (`InsertIsAtomic`), and
`CommitStores`, under `ProperUse`: databases that lock, or fetches of one type that do not
overlap. Both follow from `TxInv`, which is inductive with the type invariant: a transaction
that replaces rows goes by the ids of *all* committed rows of its type, though they were
selected before, and what it has inserted and has to do make up its feed. That no other
commit falsifies it is the heart of the proof, and where `ProperUse` is needed
(`CommitKeepsInv`). The step of the refinement is `CommitReplaces`: a commit changes the
part of one type, to `Once(feed)`. About the queries, `PartsReplaced` says that a step changes
one part of the table at most, into a feed, so the table is always made of whole feeds
(`RowsAreWhole`), and so are the answers (`AnswersAreWhole`); `StableTitlesAreFound` adds that
what a search has seen of a type implies that there is a feed of it.

**FetchCommandProofs** proves every property that `MCFetchShared` checks, for any number of
processes and inserts, under its own `ProperUse`: no database of model v1 is on Redis. Its `Inv`
says how far a command gets with each kind of database (`OriginInv`), that it has migrated the
tables before it gets to FetchMeta (`MigratedInv`), why a command takes a database for one of
model v1 that is none (`RefusalInv`), that ids of FetchMeta are given in turn (`IdInv`), that,
but for a `Race` to create an RDB, the one FetchMeta has id 1 and a command about to write knows
it (`MetaInv`), and what backs the times on Redis (`TimeInv`): there every insert that returns
has taken effect, so the clock a command is to record is the time of one that has. The theorems
of most interest are `OwnRefusalsHaveACause`, `OutdatedIsRefused` and `TimesAreBacked`.

**ConvertPoolProofs**: `ConvertTypeCorrect`, `NoWorkerLeftBehind` (`[]NoPanic`), `NoneConvertedTwice`
(`[]NothingConvertedTwice`), and `WholeOnReturn`, the safety half of `ConvertsAll`. The argument
is a law of conservation (`Conserved`): of each well-formed CPE, what is in titles not yet
received, with workers, among the results and in the answer adds up to what the chunk lists.
With one CPE per title the same holds of the number of titles (`OneEach`), so when the caller
has counted as many results as titles no worker has anything left to send. Without that
condition it does not hold, which is the finding of `MCConvertLost`.

**JvnFetchProofs**: `JvnTypeCorrect`, `OnlyATimeoutPanics`, `ErrorsHaveCauses` and
`ReturnedFeedHasEveryRdf`. Each task that was handed out is with a worker or has become one message
(`TasksCounted`); until a timeout, so has each URL (`UrlsCounted`), which is what lets the caller
conclude from as many messages as URLs that nobody is left to send one. No two workers share a
URL (`Owned`), so its failures are those of one download, and every error goes back to one that
was given up (`ErrorsCaused`). `MergedHasEveryRdf` is about the data: what is merged
has each CPE once, with the name of one of the listings that has it.

**AnswersProofs**, on names, patterns and feeds:

- `KeySplits`, `KeyHasTwoParts`: a key splits into what it was joined from, and always in two,
  because the library leaves no `#` without a backslash.
- `AnswersAgree`: the drivers answer alike of any set of CPEs, in the three queries;
  `PlainNamesAreExact`: a name without `%`, `_` and `\` matches itself and nothing else
  (`LikeSelf`, `LikeOnlySelf`), so the condition under which the answers about CPEs are compared
  (`Exact`) holds of such names.
- `FeedTypeCorrect`, and from it `DriversAlwaysAgree` (`Spec => []DriversAgree`) and
  `ListedProductsAreFound` (`Spec => []ListedProductFound`), the latter for names that are not empty
  where a backslash is no escape, or no name has one: without that, `MCAnswersLike` finds it
  violated.
- `FeedsAreComplete` and `DictionaryTitlesWin`, from `FeedInv`: the maps of `FetchNVD` have the
  well-formed names of what has been read, each with the title of an item of the dictionary if
  it has one (`Titled`), whatever the order, and the map of `FetchVuls` what the first `count`
  annotations have.

Where a definition recurs over data there is no induction on it. Three ways around it are used:
the loop is a variable and the steps of the specification are the induction (`MergeAnnotation`);
the result is stated without recursion (the listings of `JvnFetch`, the places of
`ConvertPool`); or a proof goes by the first position at which the claim fails (`LeastNumber`, from
`WFMin` of the library), as for `Like`, whose recursive function exists because each value
depends on later positions only (`LikeIsMatches`).

Assumptions on constants worth knowing: `TitlesAssumption` (`FeedBuilder`) says no more than that
titles derived from attributes count as titles, and that no title does where an item has none.

Only model-checked: `ConvertsAll` and `Returns`, which are liveness; and the four runs that
find a disagreement, which are counterexamples.


## Not modelled

- Locks inside the SQL databases and their drivers, Redis, the fuzzy search and the unbinding
  of CPE names: external, modelled by what the code relies on.
- Downloading and unpacking (OCI layers, git, gzip, XML, JSON): pure input, which may fail.
- Log files, flags, progress bars, routing: no state the rest depends on.
- That `LIKE` ignores case on some databases, and the collation of names: a matter of how the
  database is set up.
- Time. The timers of the download pool and of the retries may fire at any moment; how long a
  download takes before the timer is started is not bounded in the code either.
- Inside the driver modules what `ConvertToModels` makes of a feed: the feed that a run of
  `RedisDriver` or `RDBDriver` inserts is the one the conversion returned. What it may lose on
  the way is shown by `ConvertPool`.
- Annotations of Vuls with a name that cannot be parsed, or a title without CPEs:
  `FeedAssumption` leaves them out, as the annotations in `src/annotation` have none.
- The rewriting of formatted names into URIs and back: a name is one value in both forms.
- The same feed's order: a feed is a set, where the code has slices or maps without order.

## Plan

1. *Core (done)*: `CpeModels`, `RedisDriver`, `RedisQueries`, `ConvertPool`, `FetchCommand`,
   `RDBDriver`, with the first theorems on `RedisDriver`.
2. *Fetchers and reading side (done)*: `JvnFetch`, `FeedBuilder`, `RDBQueries`; `Names` and
   `Answers`, which compare the two drivers; theorems about `RDBDriver`, `RDBQueries`,
   `FetchCommand` and `Answers`.
3. *Proofs of the rest (done)*: `RedisQueries` from `InsertInv`, the sequential properties of
   `RedisDriver`, `ConvertPool` and `JvnFetch` from counting what is under way, `FeedBuilder` from
   what has been read.
4. *Next*: a sharper converse of the conditions, that is, which of them are necessary as well
   as sufficient (what TLC shows without them is above); names with wildcards, of which `LIKE` finds
   more rows than those asked for.
