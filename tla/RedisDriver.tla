----------------------------- MODULE RedisDriver -----------------------------
(***************************************************************************)
(* RedisDriver.InsertCpes (db/redis.go): how one `fetch` process replaces, *)
(* in a Redis database it may share with other fetch processes, what an    *)
(* earlier fetch of the same type stored.                                  *)
(*                                                                         *)
(* The Redis sets are kept as one set of members, each tagged with the set *)
(* it belongs to. Nothing here is transactional: a pipeline is a sequence  *)
(* of commands the server executes one at a time, so an action sends at    *)
(* most one command, and the limits of the pipelines (batch-size) are not  *)
(* observable. A process may be cut off between any two commands.          *)
(***************************************************************************)
EXTENDS CpeModels

CONSTANTS
  Fetcher,          \* processes running `fetch <type>`
  Upstream,         \* Upstream[ft]: the successive feeds published for ft
  OverlapSameType,  \* may two fetches of one type run at the same time?
  Interruptible     \* may a run be cut off (crash, connection error)?

ASSUME UpstreamAssumption ==
  Upstream \in [FetchType -> Seq(SUBSET CategorizedCpe)]

ASSUME ScheduleAssumption ==
  OverlapSameType \in BOOLEAN /\ Interruptible \in BOOLEAN

VARIABLES
  (* upstream *)
  published,   \* published[ft]: how many feeds of ft are out
  (* Redis *)
  store,       \* members of all the sets of CPEs, products and titles
  titleList,   \* CPE#Titles, {} when the key is absent
  deps,        \* CPE#DEP: the members recorded for a type, {} when absent
  (* a run of InsertCpes, per process *)
  pc,
  fetchType,   \* argument fetchType
  cpes,        \* argument cpes, categorized
  todo,        \* the part of cpes not queued yet
  others,      \* the types whose field of CPE#DEP is still to be read
  pipe,        \* SADD commands queued and not executed yet
  newDeps, oldDeps, titles

upstreamVars == <<published>>
redisVars == <<store, titleList, deps>>
runVars == <<pc, fetchType, cpes, todo, others, pipe, newDeps, oldDeps, titles>>
vars == <<upstreamVars, redisVars, runVars>>

\* InsertCpes is in progress from "own" to "clean".
RunningStates == {"own", "others", "add", "clean"}
States == RunningStates \cup {"idle", "done"}
Running(f) == pc[f] \in RunningStates

TypeOK ==
  /\ published \in [FetchType -> Nat]
  /\ \A ft \in FetchType : published[ft] <= Len(Upstream[ft])
  /\ store \subseteq Member
  /\ titleList \subseteq Title
  /\ deps \in [FetchType -> SUBSET Member]
  /\ pc \in [Fetcher -> States]
  /\ fetchType \in [Fetcher -> FetchType]
  /\ cpes \in [Fetcher -> SUBSET CategorizedCpe]
  /\ todo \in [Fetcher -> SUBSET CategorizedCpe]
  /\ others \in [Fetcher -> Seq(FetchType)]
  /\ pipe \in [Fetcher -> Seq(Member)]
  /\ newDeps \in [Fetcher -> SUBSET Member]
  /\ oldDeps \in [Fetcher -> SUBSET Member]
  /\ titles \in [Fetcher -> SUBSET Title]

Init ==
  /\ published = [ft \in FetchType |-> 0]
  /\ store = {} /\ titleList = {}
  /\ deps = [ft \in FetchType |-> {}]
  /\ pc = [f \in Fetcher |-> "idle"]
  /\ fetchType = [f \in Fetcher |-> "nvd"]
  /\ cpes = [f \in Fetcher |-> {}] /\ todo = [f \in Fetcher |-> {}]
  /\ others = [f \in Fetcher |-> <<>>] /\ pipe = [f \in Fetcher |-> <<>>]
  /\ newDeps = [f \in Fetcher |-> {}] /\ oldDeps = [f \in Fetcher |-> {}]
  /\ titles = [f \in Fetcher |-> {}]

-----------------------------------------------------------------------------
\* Upstream replaces its feed of type ft.
Publish(ft) ==
  /\ published[ft] < Len(Upstream[ft])
  /\ published' = [published EXCEPT ![ft] = @ + 1]
  /\ UNCHANGED <<redisVars, runVars>>

\* The command downloads the feed and calls InsertCpes.
Start(f, ft) ==
  /\ ~Running(f)
  /\ published[ft] > 0
  /\ OverlapSameType \/ \A g \in Fetcher : Running(g) => fetchType[g] # ft
  /\ pc' = [pc EXCEPT ![f] = "own"]
  /\ fetchType' = [fetchType EXCEPT ![f] = ft]
  /\ cpes' = [cpes EXCEPT ![f] = Upstream[ft][published[ft]]]
  /\ todo' = [todo EXCEPT ![f] = Upstream[ft][published[ft]]]
  /\ UNCHANGED <<upstreamVars, redisVars, others, pipe, newDeps, oldDeps, titles>>

\* The types other than the fetched one, in the order InsertCpes goes through them.
OtherTypes(ft) ==
  IF ft = "nvd" THEN <<"jvn", "vls">>
  ELSE IF ft = "jvn" THEN <<"nvd", "vls">> ELSE <<"nvd", "jvn">>

\* Mutant of ReadOwnDeps: the fetched type is not skipped among the other types.
ReadOwnDepsTwice(f) ==
  /\ pc[f] = "own"
  /\ oldDeps' = [oldDeps EXCEPT ![f] = deps[fetchType[f]]]
  /\ others' = [others EXCEPT ![f] = <<"nvd", "jvn", "vls">>]
  /\ pc' = [pc EXCEPT ![f] = "others"]
  /\ UNCHANGED <<upstreamVars, redisVars, fetchType, cpes, todo, pipe, newDeps, titles>>

\* HGET CPE#DEP of the fetched type: what the previous fetch of it recorded.
ReadOwnDeps(f) ==
  /\ pc[f] = "own"
  /\ oldDeps' = [oldDeps EXCEPT ![f] = deps[fetchType[f]]]
  /\ others' = [others EXCEPT ![f] = OtherTypes(fetchType[f])]
  /\ pc' = [pc EXCEPT ![f] = "others"]
  /\ UNCHANGED <<upstreamVars, redisVars, fetchType, cpes, todo, pipe, newDeps, titles>>

\* Mutant of ReadOtherDeps: the titles of the other types are not collected.
ReadOtherDepsIgnored(f) ==
  /\ pc[f] = "others" /\ others[f] # <<>>
  /\ others' = [others EXCEPT ![f] = Tail(@)]
  /\ UNCHANGED <<upstreamVars, redisVars, pc, fetchType, cpes, todo, pipe, newDeps,
                 oldDeps, titles>>

\* HGET CPE#DEP of one other type: its titles go to CPE#Titles as well.
ReadOtherDeps(f) ==
  /\ pc[f] = "others" /\ others[f] # <<>>
  /\ titles' = [titles EXCEPT ![f] = @ \cup TitlesIn(deps[Head(others[f])])]
  /\ others' = [others EXCEPT ![f] = Tail(@)]
  /\ UNCHANGED <<upstreamVars, redisVars, pc, fetchType, cpes, todo, pipe, newDeps, oldDeps>>

BeginAdding(f) ==
  /\ pc[f] = "others" /\ others[f] = <<>>
  /\ pc' = [pc EXCEPT ![f] = "add"]
  /\ UNCHANGED <<upstreamVars, redisVars, fetchType, cpes, todo, others, pipe,
                 newDeps, oldDeps, titles>>

\* The CPEs in use are queued before the deprecated ones, otherwise in any order.
NextToQueue(cs) == {c \in cs : c.deprecated => \A d \in cs : d.deprecated}

\* Mutant of QueueCpe: what the new feed lists is not struck off the outdated members.
QueueCpeUnpruned(f) ==
  /\ pc[f] = "add" /\ pipe[f] = <<>>
  /\ \E c \in NextToQueue(todo[f]) :
       /\ todo' = [todo EXCEPT ![f] = @ \ {c}]
       /\ pipe' = [pipe EXCEPT ![f] = AddCommands(c)]
       /\ newDeps' = [newDeps EXCEPT ![f] = @ \cup MembersOf(c)]
       /\ titles' = [titles EXCEPT ![f] = @ \cup {c.title}]
  /\ UNCHANGED <<upstreamVars, redisVars, pc, fetchType, cpes, others, oldDeps>>

QueueCpe(f) ==
  /\ pc[f] = "add" /\ pipe[f] = <<>>
  /\ \E c \in NextToQueue(todo[f]) :
       /\ todo' = [todo EXCEPT ![f] = @ \ {c}]
       /\ pipe' = [pipe EXCEPT ![f] = AddCommands(c)]
       /\ newDeps' = [newDeps EXCEPT ![f] = @ \cup MembersOf(c)]
       /\ oldDeps' = [oldDeps EXCEPT ![f] = @ \ MembersOf(c)]
       /\ titles' = [titles EXCEPT ![f] = @ \cup {c.title}]
  /\ UNCHANGED <<upstreamVars, redisVars, pc, fetchType, cpes, others>>

\* Redis executes the next SADD of the pipeline.
ExecAdd(f) ==
  /\ pc[f] = "add" /\ pipe[f] # <<>>
  /\ store' = store \cup {Head(pipe[f])}
  /\ pipe' = [pipe EXCEPT ![f] = Tail(@)]
  /\ UNCHANGED <<upstreamVars, titleList, deps, pc, fetchType, cpes, todo, others,
                 newDeps, oldDeps, titles>>

\* Mutant of SetTitles: the last pipeline of additions is not executed first.
SetTitlesEarly(f) ==
  /\ pc[f] = "add" /\ todo[f] = {}
  /\ titleList' = titles[f]
  /\ pc' = [pc EXCEPT ![f] = "clean"]
  /\ UNCHANGED <<upstreamVars, store, deps, fetchType, cpes, todo, others, pipe,
                 newDeps, oldDeps, titles>>

\* SET CPE#Titles, when every CPE has been added.
SetTitles(f) ==
  /\ pc[f] = "add" /\ todo[f] = {} /\ pipe[f] = <<>>
  /\ titleList' = titles[f]
  /\ pc' = [pc EXCEPT ![f] = "clean"]
  /\ UNCHANGED <<upstreamVars, store, deps, fetchType, cpes, todo, others, pipe,
                 newDeps, oldDeps, titles>>

\* Mutant of ExecRemove: the outdated members go before the new feed is added.
ExecRemoveFirst(f) ==
  /\ pc[f] \in {"others", "clean"}
  /\ \E m \in NextToDelete(oldDeps[f]) :
       /\ store' = store \ {m}
       /\ oldDeps' = [oldDeps EXCEPT ![f] = @ \ {m}]
  /\ UNCHANGED <<upstreamVars, titleList, deps, pc, fetchType, cpes, todo, others,
                 pipe, newDeps, titles>>

\* Redis executes the next SREM of the last pipeline.
ExecRemove(f) ==
  /\ pc[f] = "clean"
  /\ \E m \in NextToDelete(oldDeps[f]) :
       /\ store' = store \ {m}
       /\ oldDeps' = [oldDeps EXCEPT ![f] = @ \ {m}]
  /\ UNCHANGED <<upstreamVars, titleList, deps, pc, fetchType, cpes, todo, others,
                 pipe, newDeps, titles>>

\* What a run keeps in memory goes away with it.
ForgetRun(f) ==
  /\ cpes' = [cpes EXCEPT ![f] = {}] /\ todo' = [todo EXCEPT ![f] = {}]
  /\ others' = [others EXCEPT ![f] = <<>>] /\ pipe' = [pipe EXCEPT ![f] = <<>>]
  /\ newDeps' = [newDeps EXCEPT ![f] = {}] /\ oldDeps' = [oldDeps EXCEPT ![f] = {}]
  /\ titles' = [titles EXCEPT ![f] = {}]
  /\ UNCHANGED fetchType

\* Mutant of Commit: the new record is written before the outdated members go.
CommitFirst(f) ==
  /\ pc[f] = "clean"
  /\ deps' = [deps EXCEPT ![fetchType[f]] = newDeps[f]]
  /\ pc' = [pc EXCEPT ![f] = "done"]
  /\ ForgetRun(f)
  /\ UNCHANGED <<upstreamVars, store, titleList>>

\* The last command of the last pipeline, HSET CPE#DEP, and a return without error.
Commit(f) ==
  /\ pc[f] = "clean" /\ oldDeps[f] = {}
  /\ deps' = [deps EXCEPT ![fetchType[f]] = newDeps[f]]
  /\ pc' = [pc EXCEPT ![f] = "done"]
  /\ ForgetRun(f)
  /\ UNCHANGED <<upstreamVars, store, titleList>>

\* A command fails and InsertCpes returns its error, or the process dies.
Abort(f) ==
  /\ Interruptible /\ Running(f)
  /\ pc' = [pc EXCEPT ![f] = "idle"]
  /\ ForgetRun(f)
  /\ UNCHANGED <<upstreamVars, redisVars>>

InsertStep(f) ==
  \/ \E ft \in FetchType : Start(f, ft)
  \/ ReadOwnDeps(f) \/ ReadOtherDeps(f) \/ BeginAdding(f)
  \/ QueueCpe(f) \/ ExecAdd(f) \/ SetTitles(f)
  \/ ExecRemove(f) \/ Commit(f) \/ Abort(f)

Next ==
  \/ \E ft \in FetchType : Publish(ft)
  \/ \E f \in Fetcher : InsertStep(f)

Spec == Init /\ [][Next]_vars

-----------------------------------------------------------------------------
(***************************************************************************)
(* Properties                                                              *)
(***************************************************************************)

Feeds(ft) == {Upstream[ft][i] : i \in 1..Len(Upstream[ft])}

\* What fetches of the other types may add to, and delete from, the sets.
Foreign(ft) == UNION {Members(cs) : cs \in UNION {Feeds(g) : g \in FetchType \ {ft}}}

\* What every feed of ft lists, the first one included.
Stable(ft) ==
  {m \in Member : Feeds(ft) # {} /\ \A cs \in Feeds(ft) : m \in Members(cs)}

\* What a type keeps in all its feeds, and no other type lists, is in Redis from
\* the end of its first fetch on, whatever runs are in progress, were cut off or
\* overlap: replacing a feed deletes only what the new feed dropped.
StableMembersKept ==
  \A ft \in FetchType : (deps[ft] \cap Stable(ft)) \ Foreign(ft) \subseteq store

\* When InsertCpes returns without error, CPE#DEP records exactly the feed it was
\* given, and each member of it that no other type can delete is in Redis.
CommitInstallsFeed ==
  [][\A f \in Fetcher :
       pc[f] # "done" /\ pc'[f] = "done" =>
         /\ deps'[fetchType[f]] = Members(cpes[f])
         /\ Members(cpes[f]) \ Foreign(fetchType[f]) \subseteq store']_vars

\* Without interruptions no member is orphaned: what is in Redis is recorded for
\* some type or being added by a run, so a later fetch knows it has to delete it.
NoOrphanMember ==
  store \subseteq (UNION {deps[ft] : ft \in FetchType})
                  \cup (UNION {newDeps[f] : f \in Fetcher})

\* "TO DELETE OUTDATED AND UNNEEDED FIELD AND MEMBER" (CPE#DEP): no other is deleted. When
\* no run is in progress, what a type records is in Redis.
NeededMembersKept ==
  (\A f \in Fetcher : ~Running(f)) => \A ft \in FetchType : deps[ft] \subseteq store

\* "CPE#Titles: Get ALL Titles": when no run is in progress, the list has exactly
\* the titles of what the types record.
TitleListComplete ==
  (\A f \in Fetcher : ~Running(f)) =>
    titleList = TitlesIn(UNION {deps[ft] : ft \in FetchType})

\* Where no two types list one CPE under the same title, a title is listed only while
\* its own set, CPE#Title#<title>, has a CPE: the list is written after the titles it
\* gains are added and before those it loses go.
ListedTitleHasCpe ==
  titleList \subseteq TitlesIn(store)

-----------------------------------------------------------------------------
(***************************************************************************)
(* What makes them true, in a form every step preserves                    *)
(***************************************************************************)

Own(ft) == UNION {Members(cs) : cs \in Feeds(ft)}

\* Between runs nothing is left over from the last one.
IdleRunsEmpty ==
  \A f \in Fetcher : ~Running(f) => newDeps[f] = {} /\ oldDeps[f] = {} /\ pipe[f] = <<>>

\* A run has recorded what it has queued, and nothing it has queued is outdated.
RunsAccounted ==
  \A f \in Fetcher : Running(f) =>
    /\ cpes[f] \in Feeds(fetchType[f]) /\ todo[f] \subseteq cpes[f]
    /\ newDeps[f] = Members(cpes[f] \ todo[f])
    /\ oldDeps[f] \subseteq Own(fetchType[f])
    /\ oldDeps[f] \cap newDeps[f] = {}
    /\ pc[f] \in {"own", "others"} => todo[f] = cpes[f] /\ pipe[f] = <<>>
    /\ pc[f] = "clean" => todo[f] = {} /\ pipe[f] = <<>>

\* What is recorded for a type was once in a feed of it.
DepsFromFeeds == \A ft \in FetchType : deps[ft] \subseteq Own(ft)

\* What a run has queued is in Redis, or in its pipeline, unless another run may
\* have deleted it.
QueuedStableAdded ==
  \A f \in Fetcher : Running(f) =>
    (newDeps[f] \cap Stable(fetchType[f])) \ Foreign(fetchType[f])
      \subseteq store \cup Elements(pipe[f])

QueuedExclusiveAdded ==
  ~OverlapSameType =>
    \A f \in Fetcher : Running(f) =>
      /\ \A g \in Fetcher \ {f} : Running(g) => fetchType[g] # fetchType[f]
      /\ newDeps[f] \ Foreign(fetchType[f]) \subseteq store \cup Elements(pipe[f])

\* The invariant by which an insert keeps what it must keep and records what it added.
InsertInv ==
  /\ IdleRunsEmpty /\ RunsAccounted /\ DepsFromFeeds
  /\ QueuedStableAdded /\ QueuedExclusiveAdded /\ StableMembersKept

(***************************************************************************)
(* Why no member is orphaned when runs are not cut off and those of one    *)
(* type do not overlap                                                     *)
(***************************************************************************)

\* A run works with what the last fetch of its type recorded.
KnowsOld(f) == pc[f] \in {"others", "add", "clean"}

\* A run has queued m, or a type records it and no run of that type has deleted it.
QueuedBy(f, m) == m \in newDeps[f]
RecordedFor(ft, m) ==
  /\ m \in deps[ft]
  /\ \A f \in Fetcher :
       KnowsOld(f) /\ fetchType[f] = ft => m \in oldDeps[f] \cup newDeps[f]
Accounted(m) ==
  \/ \E f \in Fetcher : QueuedBy(f, m)
  \/ \E ft \in FetchType : RecordedFor(ft, m)

\* What a pipeline adds the run has recorded; a type has one run; all that is in Redis
\* is accounted for.
OrphanInv ==
  /\ \A f \in Fetcher : Elements(pipe[f]) \subseteq newDeps[f]
  /\ \A f, g \in Fetcher :
       f # g /\ Running(f) /\ Running(g) => fetchType[f] # fetchType[g]
  /\ \A m \in store : Accounted(m)
(***************************************************************************)
(* Why the list of titles is right when fetches run one at a time          *)
(***************************************************************************)

OneAtATime == \A f, g \in Fetcher : f = g

\* No two types list a CPE under the same title.
TitlesUnshared ==
  \A ft \in FetchType : \A t \in Title : \A c \in CpeURI :
    TitleMember(t, c) \in Own(ft) => TitleMember(t, c) \notin Foreign(ft)

TitlesOf(cs) == {c.title : c \in cs}
RecordedTitles(fts) == TitlesIn(UNION {deps[g] : g \in fts})

\* The titles a run has collected: of the CPEs it has queued, and of those types whose
\* record it has read.
TitlesCollected(f) ==
  LET rest == FetchType \ {fetchType[f]} IN
  /\ titles[f] \subseteq RecordedTitles(rest) \cup TitlesOf(cpes[f] \ todo[f])
  /\ TitlesOf(cpes[f] \ todo[f]) \subseteq titles[f]
  /\ pc[f] # "own" =>
       /\ Elements(others[f]) \subseteq rest
       /\ \A g \in rest \ Elements(others[f]) : TitlesIn(deps[g]) \subseteq titles[f]
  /\ pc[f] \in {"add", "clean"} => others[f] = <<>>

\* The list is the one of the record, but between SET CPE#Titles and the end of a run.
TitleListInv ==
  /\ \A f \in Fetcher : IF Running(f) THEN TitlesCollected(f) ELSE titles[f] = {}
  /\ \A f \in Fetcher : pc[f] = "clean" => titleList = titles[f]
  /\ (\A f \in Fetcher : pc[f] # "clean") => titleList = RecordedTitles(FetchType)

\* Only a run that deletes what its feed dropped takes from Redis what its type records.
RecordedTitlesKept ==
  \A ft \in FetchType : \A t \in Title : \A c \in CpeURI :
    TitleMember(t, c) \in deps[ft] =>
      \/ TitleMember(t, c) \in store
      \/ \E f \in Fetcher : /\ pc[f] = "clean" /\ fetchType[f] = ft
                           /\ TitleMember(t, c) \notin newDeps[f]
=============================================================================
