-------------------------- MODULE RedisDriverProofs --------------------------
(***************************************************************************)
(* Theorems about RedisDriver, for every set of fetch processes and every  *)
(* history of feeds.                                                       *)
(***************************************************************************)
EXTENDS RedisDriver, TLAPS

(***************************************************************************)
(* The commands queued for a CPE.                                          *)
(***************************************************************************)

\* What a categorized CPE is turned into are members of the sets.
LEMMA AddCommandsType ==
  ASSUME NEW c \in CategorizedCpe
  PROVE  AddCommands(c) \in Seq(Member)
<1>1. /\ c.title \in Title /\ c.cpeURI \in CpeURI /\ c.vp \in VendorProduct
  BY DEF CategorizedCpe
<1>2. /\ DeprecatedMember(c.cpeURI) \in Member
      /\ DeprecatedProduct(c.vp) \in Member
      /\ ProductMember(c.vp) \in Member
      /\ VPMember(c.vp, c.cpeURI) \in Member
      /\ TitleMember(c.title, c.cpeURI) \in Member
  BY <1>1 DEF Member
<1> QED  BY <1>2 DEF AddCommands

\* The elements of a sequence, of its head and of its tail.
LEMMA ElementsHeadTail ==
  ASSUME NEW S, NEW s \in Seq(S), s # <<>>
  PROVE  /\ Head(s) \in S
         /\ Tail(s) \in Seq(S)
         /\ Elements(s) = {Head(s)} \cup Elements(Tail(s))
<1>1. /\ Len(s) \in Nat \ {0} /\ DOMAIN s = 1..Len(s) /\ Head(s) = s[1]
      /\ Tail(s) \in Seq(S) /\ Len(Tail(s)) = Len(s) - 1
      /\ DOMAIN Tail(s) = 1..(Len(s) - 1)
      /\ \A i \in 1..(Len(s) - 1) : Tail(s)[i] = s[i + 1]
  OBVIOUS
<1>2. ASSUME NEW i \in 1..Len(s), i # 1
      PROVE  s[i] \in Elements(Tail(s))
  <2>1. PICK j \in 1..(Len(s) - 1) : i = j + 1
    BY <1>1, <1>2
  <2>2. s[i] = Tail(s)[j]
    BY <1>1, <2>1
  <2> QED  BY <2>2, <1>1 DEF Elements
<1>3. Elements(Tail(s)) \subseteq Elements(s)
  BY <1>1 DEF Elements
<1>4. Elements(s) \subseteq {Head(s)} \cup Elements(Tail(s))
  <2> SUFFICES ASSUME NEW i \in 1..Len(s) PROVE s[i] \in {Head(s)} \cup Elements(Tail(s))
    BY <1>1 DEF Elements
  <2> QED  BY <1>1, <1>2
<1>5. Head(s) \in Elements(s)
  BY <1>1 DEF Elements
<1> QED  BY <1>1, <1>3, <1>4, <1>5

\* The members of a categorized CPE are members of the sets.
LEMMA MembersOfType ==
  ASSUME NEW c \in CategorizedCpe
  PROVE  MembersOf(c) \subseteq Member
BY AddCommandsType DEF MembersOf, Elements

(***************************************************************************)
(* Type correctness                                                        *)
(***************************************************************************)

\* What a step may change keeps its type: TypeOK holds initially and is inductive.
LEMMA TypeInductive == TypeOK /\ [Next]_vars => TypeOK'
<1> SUFFICES ASSUME TypeOK, [Next]_vars PROVE TypeOK'
  OBVIOUS
<1> USE UpstreamAssumption
<1>1. ASSUME NEW ft \in FetchType, Publish(ft) PROVE TypeOK'
  BY <1>1 DEF TypeOK, Publish, redisVars, runVars, States, RunningStates
<1>2. ASSUME NEW f \in Fetcher, InsertStep(f) PROVE TypeOK'
  <2>1. ASSUME NEW ft \in FetchType, Start(f, ft) PROVE TypeOK'
    <3>1. Upstream[ft][published[ft]] \in SUBSET CategorizedCpe
      BY <2>1 DEF TypeOK, Start
    <3> QED
      BY <2>1, <3>1 DEF TypeOK, Start, upstreamVars, redisVars, States, RunningStates
  <2>2. CASE ReadOwnDeps(f)
    <3>1. OtherTypes(fetchType[f]) \in Seq(FetchType)
      <4>1. /\ <<"jvn", "vls">> \in Seq(FetchType)
            /\ <<"nvd", "vls">> \in Seq(FetchType)
            /\ <<"nvd", "jvn">> \in Seq(FetchType)
        BY DEF FetchType
      <4> QED  BY <4>1 DEF OtherTypes
    <3> QED
      BY <2>2, <3>1 DEF TypeOK, ReadOwnDeps, upstreamVars, redisVars, States, RunningStates
  <2>3. CASE ReadOtherDeps(f)
    <3>1. Tail(others[f]) \in Seq(FetchType)
      BY <2>3, ElementsHeadTail DEF TypeOK, ReadOtherDeps
    <3>2. TitlesIn(deps[Head(others[f])]) \subseteq Title
      BY DEF TitlesIn
    <3> QED
      BY <2>3, <3>1, <3>2 DEF TypeOK, ReadOtherDeps, upstreamVars, redisVars
  <2>4. CASE BeginAdding(f)
    BY <2>4 DEF TypeOK, BeginAdding, upstreamVars, redisVars, States, RunningStates
  <2>5. CASE QueueCpe(f)
    <3>1. PICK c \in NextToQueue(todo[f]) :
            /\ todo' = [todo EXCEPT ![f] = @ \ {c}]
            /\ pipe' = [pipe EXCEPT ![f] = AddCommands(c)]
            /\ newDeps' = [newDeps EXCEPT ![f] = @ \cup MembersOf(c)]
            /\ oldDeps' = [oldDeps EXCEPT ![f] = @ \ MembersOf(c)]
            /\ titles' = [titles EXCEPT ![f] = @ \cup {c.title}]
      BY <2>5 DEF QueueCpe
    <3>2. c \in CategorizedCpe
      BY DEF TypeOK, NextToQueue
    <3>3. /\ AddCommands(c) \in Seq(Member)
          /\ MembersOf(c) \subseteq Member
          /\ c.title \in Title
      BY <3>2, AddCommandsType, MembersOfType DEF CategorizedCpe
    <3> QED
      BY <2>5, <3>1, <3>3 DEF TypeOK, QueueCpe, upstreamVars, redisVars
  <2>6. CASE ExecAdd(f)
    <3>1. Head(pipe[f]) \in Member /\ Tail(pipe[f]) \in Seq(Member)
      BY <2>6, ElementsHeadTail DEF TypeOK, ExecAdd
    <3> QED
      BY <2>6, <3>1 DEF TypeOK, ExecAdd, upstreamVars
  <2>7. CASE SetTitles(f)
    BY <2>7 DEF TypeOK, SetTitles, upstreamVars, States, RunningStates
  <2>8. CASE ExecRemove(f)
    BY <2>8 DEF TypeOK, ExecRemove, upstreamVars
  <2>9. CASE Commit(f)
    BY <2>9 DEF TypeOK, Commit, ForgetRun, upstreamVars, States, RunningStates
  <2>10. CASE Abort(f)
    BY <2>10 DEF TypeOK, Abort, ForgetRun, upstreamVars, redisVars, States, RunningStates
  <2> QED
    BY <1>2, <2>1, <2>2, <2>3, <2>4, <2>5, <2>6, <2>7, <2>8, <2>9, <2>10 DEF InsertStep
<1>3. CASE UNCHANGED vars
  BY <1>3 DEF TypeOK, vars, upstreamVars, redisVars, runVars
<1> QED
  BY <1>1, <1>2, <1>3 DEF Next

\* TypeOK holds of every reachable state, whatever is published.
THEOREM TypeCorrect == Spec => []TypeOK
<1>1. Init => TypeOK
  BY DEF Init, TypeOK, States, FetchType
<1> QED
  BY <1>1, TypeInductive, PTL DEF Spec

(***************************************************************************)
(* The members of feeds                                                    *)
(***************************************************************************)

\* Before anything of a feed is queued, nothing is recorded of it.
LEMMA NothingQueued ==
  ASSUME NEW A
  PROVE  Members(A \ A) = {}
BY DEF Members

\* What one type lists is foreign to every other type.
LEMMA OwnIsForeign ==
  ASSUME NEW ft \in FetchType, NEW g \in FetchType, g # ft
  PROVE  Own(g) \subseteq Foreign(ft)
BY DEF Own, Foreign

\* A feed lists what every feed of its type lists.
LEMMA StableInFeeds ==
  ASSUME NEW ft \in FetchType, NEW cs \in Feeds(ft)
  PROVE  Stable(ft) \subseteq Members(cs) /\ Members(cs) \subseteq Own(ft)
BY DEF Stable, Own

\* The feed a run starts with is one of its type.
LEMMA StartedFeed ==
  ASSUME TypeOK, NEW ft \in FetchType, published[ft] > 0
  PROVE  Upstream[ft][published[ft]] \in Feeds(ft)
BY UpstreamAssumption DEF TypeOK, Feeds

LEMMA EmptyElements == Elements(<<>>) = {}
BY DEF Elements

(***************************************************************************)
(* The invariant of inserts                                                *)
(***************************************************************************)

\* InsertInv holds when no run has started.
LEMMA InsertInvInit == Init => InsertInv
BY DEF Init, InsertInv, IdleRunsEmpty, RunsAccounted, DepsFromFeeds, QueuedStableAdded,
       QueuedExclusiveAdded, StableMembersKept, Running, RunningStates

\* No step that leaves the sets alone, and the record of what was stored, can make
\* them lose a member they must keep.
LEMMA StoreUntouched ==
  ASSUME StableMembersKept, UNCHANGED <<store, deps>>
  PROVE  StableMembersKept'
BY DEF StableMembersKept

\* A run that starts has queued nothing and has its feed before it.
LEMMA StartKeepsInv ==
  ASSUME TypeOK, InsertInv, NEW f \in Fetcher, NEW ft \in FetchType, Start(f, ft)
  PROVE  InsertInv'
<1> USE DEF InsertInv
<1>1. Upstream[ft][published[ft]] \in Feeds(ft)
  BY StartedFeed DEF Start
<1>2. newDeps[f] = {} /\ oldDeps[f] = {} /\ pipe[f] = <<>>
  BY DEF Start, IdleRunsEmpty
<1>3. IdleRunsEmpty'
  BY DEF Start, IdleRunsEmpty, TypeOK, Running, RunningStates
<1>4. RunsAccounted'
  BY <1>1, <1>2, NothingQueued DEF Start, RunsAccounted, TypeOK, Running, RunningStates
<1>5. DepsFromFeeds'
  BY DEF Start, DepsFromFeeds, redisVars
<1>6. QueuedStableAdded'
  BY <1>2 DEF Start, QueuedStableAdded, TypeOK, Running, RunningStates, redisVars
<1>7. QueuedExclusiveAdded'
  BY <1>2 DEF Start, QueuedExclusiveAdded, TypeOK, Running, RunningStates, redisVars
<1>8. StableMembersKept'
  BY StoreUntouched DEF Start, redisVars
<1> QED  BY <1>3, <1>4, <1>5, <1>6, <1>7, <1>8

\* Reading what the last fetch recorded finds members of earlier feeds of the type.
LEMMA ReadOwnDepsKeepsInv ==
  ASSUME TypeOK, InsertInv, NEW f \in Fetcher, ReadOwnDeps(f)
  PROVE  InsertInv'
<1> USE DEF InsertInv
<1>1. Running(f) /\ fetchType[f] \in FetchType
  BY DEF ReadOwnDeps, TypeOK, Running, RunningStates
<1>2. newDeps[f] = {} /\ deps[fetchType[f]] \subseteq Own(fetchType[f])
  BY <1>1, NothingQueued DEF ReadOwnDeps, RunsAccounted, DepsFromFeeds
<1>3. IdleRunsEmpty'
  BY <1>1 DEF ReadOwnDeps, IdleRunsEmpty, TypeOK, Running, RunningStates
<1>4. RunsAccounted'
  BY <1>1, <1>2 DEF ReadOwnDeps, RunsAccounted, TypeOK, Running, RunningStates
<1>5. DepsFromFeeds'
  BY DEF ReadOwnDeps, DepsFromFeeds, redisVars
<1>6. QueuedStableAdded'
  BY <1>1, <1>2 DEF ReadOwnDeps, QueuedStableAdded, TypeOK, Running, RunningStates, redisVars
<1>7. QueuedExclusiveAdded'
  BY <1>1, <1>2 DEF ReadOwnDeps, QueuedExclusiveAdded, TypeOK, Running, RunningStates, redisVars
<1>8. StableMembersKept'
  BY StoreUntouched DEF ReadOwnDeps, redisVars
<1> QED  BY <1>3, <1>4, <1>5, <1>6, <1>7, <1>8

\* Queueing a CPE moves its members from the outdated to the recorded ones.
LEMMA QueueCpeKeepsInv ==
  ASSUME TypeOK, InsertInv, NEW f \in Fetcher, QueueCpe(f)
  PROVE  InsertInv'
<1> USE DEF InsertInv
<1>1. PICK c \in NextToQueue(todo[f]) :
        /\ todo' = [todo EXCEPT ![f] = @ \ {c}]
        /\ pipe' = [pipe EXCEPT ![f] = AddCommands(c)]
        /\ newDeps' = [newDeps EXCEPT ![f] = @ \cup MembersOf(c)]
        /\ oldDeps' = [oldDeps EXCEPT ![f] = @ \ MembersOf(c)]
  BY DEF QueueCpe
<1>2. Running(f) /\ c \in todo[f] /\ pipe[f] = <<>> /\ pc[f] = "add"
  BY DEF QueueCpe, Running, RunningStates, NextToQueue
<1>3. MembersOf(c) = Elements(AddCommands(c)) /\ Elements(pipe[f]) = {}
  BY <1>2, EmptyElements DEF MembersOf
<1>4. Members(cpes[f] \ (todo[f] \ {c})) = Members(cpes[f] \ todo[f]) \cup MembersOf(c)
  <2>1. todo[f] \subseteq cpes[f]
    BY <1>2 DEF RunsAccounted
  <2> QED  BY <1>2, <2>1 DEF Members
<1>5. IdleRunsEmpty'
  BY <1>1, <1>2 DEF QueueCpe, IdleRunsEmpty, TypeOK, Running, RunningStates
<1>6. RunsAccounted'
  <2>1. /\ UNCHANGED <<pc, cpes, fetchType>>
        /\ \A g \in Fetcher \ {f} : UNCHANGED <<todo[g], pipe[g], newDeps[g], oldDeps[g]>>
    BY <1>1 DEF QueueCpe, TypeOK
  <2>2. /\ todo'[f] = todo[f] \ {c} /\ oldDeps'[f] = oldDeps[f] \ MembersOf(c)
        /\ newDeps'[f] = newDeps[f] \cup MembersOf(c)
    BY <1>1 DEF TypeOK
  <2>3. newDeps'[f] = Members(cpes[f] \ todo'[f])
    BY <1>2, <1>4, <2>2 DEF RunsAccounted
  <2>4. /\ cpes[f] \in Feeds(fetchType[f]) /\ todo'[f] \subseteq cpes[f]
        /\ oldDeps'[f] \subseteq Own(fetchType[f]) /\ oldDeps'[f] \cap newDeps'[f] = {}
    BY <1>2, <2>2 DEF RunsAccounted
  <2> QED  BY <1>2, <2>1, <2>3, <2>4 DEF RunsAccounted, Running
<1>7. DepsFromFeeds'
  BY DEF QueueCpe, DepsFromFeeds, redisVars
<1>8. QueuedStableAdded'
  BY <1>1, <1>2, <1>3 DEF QueueCpe, QueuedStableAdded, TypeOK, Running, redisVars
<1>9. QueuedExclusiveAdded'
  BY <1>1, <1>2, <1>3 DEF QueueCpe, QueuedExclusiveAdded, TypeOK, Running, redisVars
<1>10. StableMembersKept'
  BY StoreUntouched DEF QueueCpe, redisVars
<1> QED  BY <1>5, <1>6, <1>7, <1>8, <1>9, <1>10

\* A command of a pipeline of additions takes a member from the pipeline to its set.
LEMMA ExecAddKeepsInv ==
  ASSUME TypeOK, InsertInv, NEW f \in Fetcher, ExecAdd(f)
  PROVE  InsertInv'
<1> USE DEF InsertInv
<1>1. Running(f) /\ pc[f] = "add" /\ pipe[f] \in Seq(Member) /\ pipe[f] # <<>>
  BY DEF ExecAdd, TypeOK, Running, RunningStates
<1>2. /\ store' = store \cup {Head(pipe[f])}
      /\ pipe' = [pipe EXCEPT ![f] = Tail(pipe[f])]
      /\ Elements(pipe[f]) = {Head(pipe[f])} \cup Elements(Tail(pipe[f]))
  BY <1>1, ElementsHeadTail DEF ExecAdd
<1>3. IdleRunsEmpty'
  BY <1>1, <1>2 DEF ExecAdd, IdleRunsEmpty, TypeOK, Running
<1>4. RunsAccounted'
  BY <1>1, <1>2 DEF ExecAdd, RunsAccounted, TypeOK, Running
<1>5. DepsFromFeeds'
  BY DEF ExecAdd, DepsFromFeeds
<1>6. QueuedStableAdded'
  BY <1>1, <1>2 DEF ExecAdd, QueuedStableAdded, TypeOK, Running
<1>7. QueuedExclusiveAdded'
  BY <1>1, <1>2 DEF ExecAdd, QueuedExclusiveAdded, TypeOK, Running
<1>8. StableMembersKept'
  BY <1>2 DEF ExecAdd, StableMembersKept
<1> QED  BY <1>3, <1>4, <1>5, <1>6, <1>7, <1>8

\* Steps that change neither the sets, nor the record, nor what a run has queued:
\* only how far the run is, towards "add", or from "add" to "clean" with nothing left.
LEMMA AdvanceKeepsInv ==
  ASSUME TypeOK, InsertInv, NEW f \in Fetcher,
         ReadOtherDeps(f) \/ BeginAdding(f) \/ SetTitles(f)
  PROVE  InsertInv'
<1> USE DEF InsertInv
<1>1. /\ Running(f) /\ pc' \in {pc, [pc EXCEPT ![f] = "add"], [pc EXCEPT ![f] = "clean"]}
      /\ pc' = [pc EXCEPT ![f] = "clean"] => todo[f] = {} /\ pipe[f] = <<>>
      /\ UNCHANGED <<store, deps, fetchType, cpes, todo, pipe, newDeps, oldDeps>>
  BY DEF ReadOtherDeps, BeginAdding, SetTitles, redisVars, TypeOK, Running, RunningStates
<1>2. IdleRunsEmpty'
  BY <1>1 DEF IdleRunsEmpty, TypeOK, Running, RunningStates
<1>3. RunsAccounted'
  BY <1>1 DEF RunsAccounted, TypeOK, Running, RunningStates
<1>4. DepsFromFeeds'
  BY <1>1 DEF DepsFromFeeds
<1>5. QueuedStableAdded'
  BY <1>1 DEF QueuedStableAdded, TypeOK, Running, RunningStates
<1>6. QueuedExclusiveAdded'
  BY <1>1 DEF QueuedExclusiveAdded, TypeOK, Running, RunningStates
<1>7. StableMembersKept'
  BY <1>1, StoreUntouched
<1> QED  BY <1>2, <1>3, <1>4, <1>5, <1>6, <1>7

\* What a run deletes is in no feed it started from: another type finds it foreign,
\* and its own type does not list it in every feed.
LEMMA RemovedMember ==
  ASSUME TypeOK, InsertInv, NEW g \in Fetcher, pc[g] = "clean", NEW m \in oldDeps[g]
  PROVE  /\ m \notin Stable(fetchType[g])
         /\ m \notin newDeps[g]
         /\ \A ft \in FetchType : ft # fetchType[g] => m \in Foreign(ft)
<1>1. /\ cpes[g] \in Feeds(fetchType[g]) /\ fetchType[g] \in FetchType
      /\ newDeps[g] = Members(cpes[g] \ todo[g]) /\ todo[g] = {}
      /\ m \in Own(fetchType[g]) /\ oldDeps[g] \cap newDeps[g] = {}
  BY DEF InsertInv, RunsAccounted, TypeOK, Running, RunningStates
<1>2. newDeps[g] = Members(cpes[g])
  <2>1. cpes[g] \ todo[g] = cpes[g]
    BY <1>1
  <2> QED  BY <1>1, <2>1
<1> QED  BY <1>1, <1>2, StableInFeeds, OwnIsForeign

\* A run that deletes has queued and added its whole feed, all of which is in Redis that no
\* other type can delete.
LEMMA CleaningRun ==
  ASSUME OverlapSameType = FALSE, TypeOK, InsertInv, NEW f \in Fetcher, pc[f] = "clean"
  PROVE  /\ newDeps[f] = Members(cpes[f]) /\ cpes[f] \in Feeds(fetchType[f])
         /\ Members(cpes[f]) \ Foreign(fetchType[f]) \subseteq store
<1>1. /\ Running(f) /\ todo[f] = {} /\ pipe[f] = <<>>
      /\ newDeps[f] = Members(cpes[f] \ todo[f]) /\ cpes[f] \in Feeds(fetchType[f])
  BY DEF InsertInv, RunsAccounted, Running, RunningStates
<1>2. cpes[f] \ todo[f] = cpes[f]
  BY <1>1
<1>3. newDeps[f] \ Foreign(fetchType[f]) \subseteq store
  BY <1>1, EmptyElements DEF InsertInv, QueuedExclusiveAdded
<1> QED  BY <1>1, <1>2, <1>3

\* Deleting an outdated member takes nothing away that has to be kept.
LEMMA ExecRemoveKeepsInv ==
  ASSUME TypeOK, InsertInv, NEW f \in Fetcher, ExecRemove(f)
  PROVE  InsertInv'
<1> USE DEF InsertInv
<1>1. PICK m \in oldDeps[f] :
        /\ store' = store \ {m}
        /\ oldDeps' = [oldDeps EXCEPT ![f] = @ \ {m}]
  BY DEF ExecRemove, NextToDelete
<1>2. Running(f) /\ pc[f] = "clean"
  BY DEF ExecRemove, Running, RunningStates
<1>3. /\ m \notin Stable(fetchType[f])
      /\ m \notin newDeps[f]
      /\ \A ft \in FetchType : ft # fetchType[f] => m \in Foreign(ft)
  BY <1>2, RemovedMember
<1>4. IdleRunsEmpty'
  BY <1>1, <1>2 DEF ExecRemove, IdleRunsEmpty, TypeOK, Running
<1>5. RunsAccounted'
  BY <1>1, <1>2 DEF ExecRemove, RunsAccounted, TypeOK, Running
<1>6. DepsFromFeeds'
  BY DEF ExecRemove, DepsFromFeeds
<1>7. QueuedStableAdded'
  BY <1>1, <1>2, <1>3 DEF ExecRemove, QueuedStableAdded, TypeOK, Running
<1>8. QueuedExclusiveAdded'
  BY <1>1, <1>2, <1>3 DEF ExecRemove, QueuedExclusiveAdded, TypeOK, Running
<1>9. StableMembersKept'
  BY <1>1, <1>3 DEF ExecRemove, StableMembersKept
<1> QED  BY <1>4, <1>5, <1>6, <1>7, <1>8, <1>9

\* A run that ends has queued and added its whole feed, and records it.
LEMMA CommitRecords ==
  ASSUME TypeOK, InsertInv, NEW f \in Fetcher, Commit(f)
  PROVE  /\ newDeps[f] = Members(cpes[f])
         /\ deps' = [deps EXCEPT ![fetchType[f]] = newDeps[f]]
         /\ deps' \in [FetchType -> SUBSET Member]
         /\ Members(cpes[f]) \subseteq Own(fetchType[f])
         /\ (newDeps[f] \cap Stable(fetchType[f])) \ Foreign(fetchType[f]) \subseteq store
         /\ ~OverlapSameType => newDeps[f] \ Foreign(fetchType[f]) \subseteq store
<1>1. /\ Running(f) /\ pc[f] = "clean" /\ fetchType[f] \in FetchType
      /\ deps' = [deps EXCEPT ![fetchType[f]] = newDeps[f]]
      /\ deps' \in [FetchType -> SUBSET Member]
  BY DEF Commit, TypeOK, Running, RunningStates
<1>2. /\ cpes[f] \in Feeds(fetchType[f]) /\ todo[f] = {} /\ pipe[f] = <<>>
      /\ newDeps[f] = Members(cpes[f] \ todo[f])
  BY <1>1 DEF InsertInv, RunsAccounted
<1>3. newDeps[f] = Members(cpes[f])
  <2>1. cpes[f] \ todo[f] = cpes[f]
    BY <1>2
  <2> QED  BY <1>2, <2>1
<1>4. Elements(pipe[f]) = {}
  BY <1>2, EmptyElements
<1>5. (newDeps[f] \cap Stable(fetchType[f])) \ Foreign(fetchType[f]) \subseteq store
  BY <1>1, <1>4 DEF InsertInv, QueuedStableAdded
<1>6. ~OverlapSameType => newDeps[f] \ Foreign(fetchType[f]) \subseteq store
  BY <1>1, <1>4 DEF InsertInv, QueuedExclusiveAdded
<1> QED  BY <1>1, <1>2, <1>3, <1>5, <1>6, StableInFeeds

LEMMA CommitKeepsInv ==
  ASSUME TypeOK, InsertInv, NEW f \in Fetcher, Commit(f)
  PROVE  InsertInv'
<1> USE DEF InsertInv
<1>1. /\ newDeps[f] = Members(cpes[f])
      /\ deps' = [deps EXCEPT ![fetchType[f]] = newDeps[f]]
      /\ Members(cpes[f]) \subseteq Own(fetchType[f])
      /\ (newDeps[f] \cap Stable(fetchType[f])) \ Foreign(fetchType[f]) \subseteq store
  BY CommitRecords
<1>2. IdleRunsEmpty'
  BY DEF Commit, ForgetRun, IdleRunsEmpty, TypeOK, Running, RunningStates
<1>3. RunsAccounted'
  BY DEF Commit, ForgetRun, RunsAccounted, TypeOK, Running, RunningStates
<1>4. DepsFromFeeds'
  BY <1>1 DEF DepsFromFeeds, TypeOK
<1>5. QueuedStableAdded'
  BY DEF Commit, ForgetRun, QueuedStableAdded, TypeOK, Running, RunningStates
<1>6. QueuedExclusiveAdded'
  BY DEF Commit, ForgetRun, QueuedExclusiveAdded, TypeOK, Running, RunningStates
<1>7. StableMembersKept'
  BY <1>1 DEF Commit, StableMembersKept, TypeOK
<1> QED  BY <1>2, <1>3, <1>4, <1>5, <1>6, <1>7

\* A run that is cut off leaves what it has added, and its type's old record.
LEMMA AbortKeepsInv ==
  ASSUME TypeOK, InsertInv, NEW f \in Fetcher, Abort(f)
  PROVE  InsertInv'
<1> USE DEF InsertInv
<1>1. IdleRunsEmpty'
  BY DEF Abort, ForgetRun, IdleRunsEmpty, TypeOK, Running, RunningStates
<1>2. RunsAccounted'
  BY DEF Abort, ForgetRun, RunsAccounted, TypeOK, Running, RunningStates
<1>3. DepsFromFeeds'
  BY DEF Abort, DepsFromFeeds, redisVars
<1>4. QueuedStableAdded'
  BY DEF Abort, ForgetRun, QueuedStableAdded, TypeOK, Running, RunningStates, redisVars
<1>5. QueuedExclusiveAdded'
  BY DEF Abort, ForgetRun, QueuedExclusiveAdded, TypeOK, Running, RunningStates, redisVars
<1>6. StableMembersKept'
  BY StoreUntouched DEF Abort, redisVars
<1> QED  BY <1>1, <1>2, <1>3, <1>4, <1>5, <1>6

LEMMA InsertInvInductive == TypeOK /\ InsertInv /\ [Next]_vars => InsertInv'
<1> SUFFICES ASSUME TypeOK, InsertInv, [Next]_vars PROVE InsertInv'
  OBVIOUS
<1> DEFINE Inert == UNCHANGED <<redisVars, runVars>>
<1>1. CASE Inert
  BY <1>1 DEF InsertInv, IdleRunsEmpty, RunsAccounted, DepsFromFeeds, QueuedStableAdded,
              QueuedExclusiveAdded, StableMembersKept, Running, redisVars, runVars
<1>2. ASSUME NEW f \in Fetcher, InsertStep(f) PROVE InsertInv'
  BY <1>2, StartKeepsInv, ReadOwnDepsKeepsInv, AdvanceKeepsInv, QueueCpeKeepsInv,
     ExecAddKeepsInv, ExecRemoveKeepsInv, CommitKeepsInv, AbortKeepsInv DEF InsertStep
<1>3. CASE UNCHANGED vars
  BY <1>1, <1>3 DEF vars
<1>4. ASSUME NEW ft \in FetchType, Publish(ft) PROVE Inert
  BY <1>4 DEF Publish
<1> QED  BY <1>1, <1>2, <1>3, <1>4 DEF Next

\* In every state a run has recorded exactly what it has queued and deletes none of it, and
\* old records come from feeds of their type: nothing is struck off one of the maps only.
THEOREM InsertInvariant == Spec => []InsertInv
<1> QED  BY InsertInvInit, InsertInvInductive, TypeCorrect, PTL DEF Spec

\* Whatever runs overlap (of one type too) or are cut off, Redis keeps, from the end
\* of the first fetch of a type on, what all feeds of that type and no other list.
THEOREM StableMembersAreKept == Spec => []StableMembersKept
<1>1. InsertInv => StableMembersKept
  BY DEF InsertInv
<1> QED  BY <1>1, InsertInvariant, PTL

\* When no two fetches of one type overlap, an InsertCpes that returns without error
\* has recorded its feed, and what of it no other type can delete is in Redis.
THEOREM CommitInstalls ==
  ASSUME OverlapSameType = FALSE
  PROVE  Spec => CommitInstallsFeed
<1>1. TypeOK /\ InsertInv /\ [Next]_vars =>
        [\A f \in Fetcher :
           pc[f] # "done" /\ pc'[f] = "done" =>
             /\ deps'[fetchType[f]] = Members(cpes[f])
             /\ Members(cpes[f]) \ Foreign(fetchType[f]) \subseteq store']_vars
  <2> SUFFICES ASSUME TypeOK, InsertInv, Next, NEW f \in Fetcher,
                      pc[f] # "done", pc'[f] = "done"
               PROVE  /\ deps'[fetchType[f]] = Members(cpes[f])
                      /\ Members(cpes[f]) \ Foreign(fetchType[f]) \subseteq store'
    OBVIOUS
  <2>1. Commit(f)
    <3>1. PICK g \in Fetcher : InsertStep(g)
      BY DEF Next, Publish, runVars
    <3>2. f = g
      BY <3>1 DEF InsertStep, Start, ReadOwnDeps, ReadOtherDeps, BeginAdding, QueueCpe,
                  ExecAdd, SetTitles, ExecRemove, Commit, Abort, TypeOK
    <3> QED
      BY <3>1, <3>2 DEF InsertStep, Start, ReadOwnDeps, ReadOtherDeps, BeginAdding, QueueCpe,
                  ExecAdd, SetTitles, ExecRemove, Abort, TypeOK
  <2>2. store' = store /\ fetchType[f] \in FetchType
    BY <2>1 DEF Commit, TypeOK
  <2> QED  BY <2>1, <2>2, CommitRecords DEF TypeOK
<1> QED  BY <1>1, InsertInvariant, TypeCorrect, PTL DEF Spec, CommitInstallsFeed
=============================================================================
