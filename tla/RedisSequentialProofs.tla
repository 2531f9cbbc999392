------------------------ MODULE RedisSequentialProofs ------------------------
(***************************************************************************)
(* Theorems about RedisDriver when runs are not cut off, for every history *)
(* of feeds. Where runs of one type do not overlap, a later fetch can find *)
(* all that it has to delete; where no two runs do, the list of titles is  *)
(* the one of what is recorded.                                            *)
(***************************************************************************)
EXTENDS RedisDriverProofs

\* The cases of a step of a run that is not cut off.
LEMMA StepCases ==
  ASSUME Interruptible = FALSE, NEW f \in Fetcher, InsertStep(f)
  PROVE  \/ \E ft \in FetchType : Start(f, ft)
         \/ ReadOwnDeps(f) \/ ReadOtherDeps(f) \/ BeginAdding(f)
         \/ QueueCpe(f) \/ ExecAdd(f) \/ SetTitles(f)
         \/ ExecRemove(f) \/ Commit(f)
BY DEF InsertStep, Abort

\* A run that starts knows no old record yet, and is the only one of its type.
LEMMA StartKeepsOrphanInv ==
  ASSUME OverlapSameType = FALSE, TypeOK, OrphanInv,
         NEW f \in Fetcher, NEW ft \in FetchType, Start(f, ft)
  PROVE  OrphanInv'
<1>1. /\ pc' = [pc EXCEPT ![f] = "own"] /\ fetchType' = [fetchType EXCEPT ![f] = ft]
      /\ ~Running(f) /\ \A g \in Fetcher : Running(g) => fetchType[g] # ft
      /\ UNCHANGED <<store, deps, pipe, newDeps, oldDeps>>
  BY DEF Start, redisVars
<1>2. \A g \in Fetcher : Elements(pipe[g])' \subseteq newDeps'[g]
  BY <1>1 DEF OrphanInv, Elements
<1>3. \A g, h \in Fetcher : g # h /\ Running(g)' /\ Running(h)' => fetchType'[g] # fetchType'[h]
  BY <1>1 DEF OrphanInv, Running, TypeOK
<1>4. ASSUME NEW m \in store PROVE Accounted(m)'
  <2>1. \A g \in Fetcher : QueuedBy(g, m) => QueuedBy(g, m)'
    BY <1>1 DEF QueuedBy
  <2>2. ASSUME NEW g \in FetchType, RecordedFor(g, m) PROVE RecordedFor(g, m)'
    BY <1>1, <2>2 DEF RecordedFor, KnowsOld, TypeOK
  <2> QED  BY <2>1, <2>2 DEF OrphanInv, Accounted
<1> QED  BY <1>1, <1>2, <1>3, <1>4 DEF OrphanInv

\* Steps on the way, which change neither sets, record, type nor what is queued, and
\* by which a run that learns the old record learns all of it.
LEMMA AdvanceKeepsOrphanInv ==
  ASSUME TypeOK, OrphanInv, NEW f \in Fetcher,
         ReadOwnDeps(f) \/ ReadOtherDeps(f) \/ BeginAdding(f) \/ SetTitles(f)
  PROVE  OrphanInv'
<1>1. /\ UNCHANGED <<store, deps, pipe, newDeps, fetchType>>
      /\ \/ /\ pc' = [pc EXCEPT ![f] = "others"]
            /\ oldDeps' = [oldDeps EXCEPT ![f] = deps[fetchType[f]]]
         \/ /\ KnowsOld(f) /\ UNCHANGED oldDeps
            /\ pc' \in {pc, [pc EXCEPT ![f] = "add"], [pc EXCEPT ![f] = "clean"]}
      /\ Running(f)
  BY DEF ReadOwnDeps, ReadOtherDeps, BeginAdding, SetTitles, redisVars, KnowsOld, Running,
         RunningStates
<1>2. \A g \in Fetcher : Elements(pipe[g])' \subseteq newDeps'[g]
  BY <1>1 DEF OrphanInv, Elements
<1>3. \A g, h \in Fetcher : g # h /\ Running(g)' /\ Running(h)' => fetchType'[g] # fetchType'[h]
  BY <1>1 DEF OrphanInv, Running, TypeOK
<1>4. ASSUME NEW m \in store PROVE Accounted(m)'
  <2>1. \A g \in Fetcher : QueuedBy(g, m) => QueuedBy(g, m)'
    BY <1>1 DEF QueuedBy
  <2>2. ASSUME NEW ft \in FetchType, RecordedFor(ft, m) PROVE RecordedFor(ft, m)'
    <3>1. m \in deps'[ft]
      BY <1>1, <2>2 DEF RecordedFor
    <3>2. ASSUME NEW g \in Fetcher, KnowsOld(g)', fetchType'[g] = ft
          PROVE  m \in oldDeps'[g] \cup newDeps'[g]
      <4>1. CASE KnowsOld(g) /\ oldDeps'[g] = oldDeps[g]
        BY <1>1, <2>2, <3>2, <4>1 DEF RecordedFor
      <4>2. CASE ~(KnowsOld(g) /\ oldDeps'[g] = oldDeps[g])
        <5>1. oldDeps'[g] = deps[ft]
          BY <1>1, <3>2, <4>2 DEF KnowsOld, TypeOK
        <5> QED  BY <2>2, <5>1 DEF RecordedFor
      <4> QED  BY <4>1, <4>2
    <3> QED  BY <3>1, <3>2 DEF RecordedFor
  <2> QED  BY <2>1, <2>2 DEF OrphanInv, Accounted
<1> QED  BY <1>1, <1>2, <1>3, <1>4 DEF OrphanInv

\* What a run strikes off the outdated members it has queued.
LEMMA QueueCpeKeepsOrphanInv ==
  ASSUME TypeOK, OrphanInv, NEW f \in Fetcher, QueueCpe(f)
  PROVE  OrphanInv'
<1>1. PICK c \in NextToQueue(todo[f]) :
        /\ pipe' = [pipe EXCEPT ![f] = AddCommands(c)]
        /\ newDeps' = [newDeps EXCEPT ![f] = @ \cup MembersOf(c)]
        /\ oldDeps' = [oldDeps EXCEPT ![f] = @ \ MembersOf(c)]
  BY DEF QueueCpe
<1>2. UNCHANGED <<store, deps, pc, fetchType>>
  BY DEF QueueCpe, redisVars
<1>3. \A g \in Fetcher : Elements(pipe[g])' \subseteq newDeps'[g]
  BY <1>1 DEF OrphanInv, TypeOK, MembersOf, Elements
<1>4. \A g, h \in Fetcher : g # h /\ Running(g)' /\ Running(h)' => fetchType'[g] # fetchType'[h]
  BY <1>2 DEF OrphanInv, Running
<1>5. ASSUME NEW m \in store PROVE Accounted(m)'
  <2>1. \A g \in Fetcher : QueuedBy(g, m) => QueuedBy(g, m)'
    BY <1>1 DEF QueuedBy, TypeOK
  <2>2. ASSUME NEW ft \in FetchType, RecordedFor(ft, m) PROVE RecordedFor(ft, m)'
    BY <1>1, <1>2, <2>2 DEF RecordedFor, KnowsOld, TypeOK
  <2> QED  BY <2>1, <2>2 DEF OrphanInv, Accounted
<1> QED  BY <1>2, <1>3, <1>4, <1>5 DEF OrphanInv

\* A run adds what it has queued.
LEMMA ExecAddKeepsOrphanInv ==
  ASSUME TypeOK, OrphanInv, NEW f \in Fetcher, ExecAdd(f)
  PROVE  OrphanInv'
<1>1. /\ pipe[f] \in Seq(Member) /\ pipe[f] # <<>>
      /\ UNCHANGED <<deps, pc, fetchType, newDeps, oldDeps>>
  BY DEF ExecAdd, TypeOK
<1>2. /\ store' = store \cup {Head(pipe[f])}
      /\ pipe' = [pipe EXCEPT ![f] = Tail(pipe[f])]
      /\ Elements(pipe[f]) = {Head(pipe[f])} \cup Elements(Tail(pipe[f]))
  BY <1>1, ElementsHeadTail DEF ExecAdd
<1>3. \A g \in Fetcher : Elements(pipe'[g]) \subseteq newDeps'[g]
  BY <1>1, <1>2 DEF OrphanInv, TypeOK
<1>4. \A g, h \in Fetcher : g # h /\ Running(g)' /\ Running(h)' => fetchType'[g] # fetchType'[h]
  BY <1>1 DEF OrphanInv, Running
<1>5. ASSUME NEW m \in store PROVE Accounted(m)'
  BY <1>1 DEF OrphanInv, Accounted, QueuedBy, RecordedFor, KnowsOld
<1>6. PICK m : m = Head(pipe[f])
  OBVIOUS
<1>7. Accounted(m)'
  <2>1. m \in newDeps'[f]
    BY <1>1, <1>2, <1>6 DEF OrphanInv
  <2> QED  BY <2>1 DEF Accounted, QueuedBy
<1>8. \A n \in store' : Accounted(n)'
  BY <1>2, <1>5, <1>6, <1>7
<1> QED  BY <1>3, <1>4, <1>8 DEF OrphanInv, Elements

\* What a run deletes need not be accounted for any more.
LEMMA ExecRemoveKeepsOrphanInv ==
  ASSUME TypeOK, OrphanInv, NEW f \in Fetcher, ExecRemove(f)
  PROVE  OrphanInv'
<1>1. PICK m \in oldDeps[f] :
        store' = store \ {m} /\ oldDeps' = [oldDeps EXCEPT ![f] = @ \ {m}]
  BY DEF ExecRemove, NextToDelete
<1>2. UNCHANGED <<deps, pc, fetchType, pipe, newDeps>>
  BY DEF ExecRemove
<1>3. \A g \in Fetcher : Elements(pipe[g])' \subseteq newDeps'[g]
  BY <1>2 DEF OrphanInv, Elements
<1>4. \A g, h \in Fetcher : g # h /\ Running(g)' /\ Running(h)' => fetchType'[g] # fetchType'[h]
  BY <1>2 DEF OrphanInv, Running
<1>5. ASSUME NEW n \in store \ {m} PROVE Accounted(n)'
  <2>1. \A g \in Fetcher : QueuedBy(g, n) => QueuedBy(g, n)'
    BY <1>2 DEF QueuedBy
  <2>2. ASSUME NEW ft \in FetchType, RecordedFor(ft, n) PROVE RecordedFor(ft, n)'
    BY <1>1, <1>2, <1>5, <2>2 DEF RecordedFor, KnowsOld, TypeOK
  <2> QED  BY <2>1, <2>2 DEF OrphanInv, Accounted
<1> QED  BY <1>1, <1>3, <1>4, <1>5 DEF OrphanInv

\* The record a run replaces names nothing that is left but what the run has queued.
LEMMA CommitKeepsOrphanInv ==
  ASSUME TypeOK, OrphanInv, NEW f \in Fetcher, Commit(f)
  PROVE  OrphanInv'
<1>1. /\ KnowsOld(f) /\ Running(f) /\ oldDeps[f] = {} /\ fetchType[f] \in FetchType
      /\ deps' = [deps EXCEPT ![fetchType[f]] = newDeps[f]]
      /\ pc' = [pc EXCEPT ![f] = "done"]
      /\ pipe' = [pipe EXCEPT ![f] = <<>>]
      /\ newDeps' = [newDeps EXCEPT ![f] = {}] /\ oldDeps' = [oldDeps EXCEPT ![f] = {}]
      /\ UNCHANGED <<store, fetchType>>
  BY DEF Commit, ForgetRun, KnowsOld, Running, RunningStates, TypeOK
<1>2. \A g \in Fetcher : Elements(pipe'[g]) \subseteq newDeps'[g]
  BY <1>1, EmptyElements DEF OrphanInv, TypeOK
<1>3. \A g, h \in Fetcher : g # h /\ Running(g)' /\ Running(h)' => fetchType'[g] # fetchType'[h]
  BY <1>1 DEF OrphanInv, Running, RunningStates, TypeOK
<1>4. \A g \in Fetcher \ {f} : KnowsOld(g) => fetchType[g] # fetchType[f]
  BY <1>1 DEF OrphanInv, KnowsOld, Running, RunningStates
<1>5. ASSUME NEW m \in newDeps[f] PROVE RecordedFor(fetchType[f], m)'
  BY <1>1, <1>4 DEF RecordedFor, KnowsOld, TypeOK
<1>6. ASSUME NEW m \in store PROVE Accounted(m)'
  <2>1. ASSUME NEW g \in Fetcher, QueuedBy(g, m) PROVE Accounted(m)'
    <3>1. CASE g = f
      BY <1>1, <1>5, <2>1, <3>1 DEF QueuedBy, Accounted
    <3>2. CASE g # f
      BY <1>1, <2>1, <3>2 DEF QueuedBy, Accounted, TypeOK
    <3> QED  BY <3>1, <3>2
  <2>2. ASSUME NEW ft \in FetchType, RecordedFor(ft, m) PROVE Accounted(m)'
    <3>1. CASE ft = fetchType[f]
      <4>1. m \in newDeps[f]
        BY <1>1, <2>2, <3>1 DEF RecordedFor
      <4> QED  BY <1>1, <1>5, <4>1 DEF Accounted
    <3>2. CASE ft # fetchType[f]
      <4>1. RecordedFor(ft, m)'
        BY <1>1, <2>2, <3>2 DEF RecordedFor, KnowsOld, TypeOK
      <4> QED  BY <4>1 DEF Accounted
    <3> QED  BY <3>1, <3>2
  <2> QED  BY <2>1, <2>2 DEF OrphanInv, Accounted
<1> QED  BY <1>1, <1>2, <1>3, <1>6 DEF OrphanInv, Elements

LEMMA OrphanInvInductive ==
  ASSUME OverlapSameType = FALSE, Interruptible = FALSE
  PROVE  TypeOK /\ OrphanInv /\ [Next]_vars => OrphanInv'
<1> SUFFICES ASSUME TypeOK, OrphanInv, [Next]_vars PROVE OrphanInv'
  OBVIOUS
<1> DEFINE Inert == UNCHANGED <<redisVars, runVars>>
<1>1. CASE Inert
  BY <1>1 DEF OrphanInv, Elements, Running, Accounted, QueuedBy, RecordedFor, KnowsOld,
              redisVars, runVars
<1>2. ASSUME NEW f \in Fetcher, InsertStep(f) PROVE OrphanInv'
  BY <1>2, StepCases, StartKeepsOrphanInv, AdvanceKeepsOrphanInv, QueueCpeKeepsOrphanInv,
     ExecAddKeepsOrphanInv, ExecRemoveKeepsOrphanInv, CommitKeepsOrphanInv
<1>3. CASE UNCHANGED vars
  BY <1>1, <1>3 DEF vars
<1>4. ASSUME NEW ft \in FetchType, Publish(ft) PROVE Inert
  BY <1>4 DEF Publish
<1> QED  BY <1>1, <1>2, <1>3, <1>4 DEF Next

\* Under the same conditions as below, a type records a member only as long as its run, if
\* it has read the record, still has the member to delete or has queued it again.
THEOREM OrphanInvariant ==
  ASSUME OverlapSameType = FALSE, Interruptible = FALSE
  PROVE  Spec => []OrphanInv
<1>1. Init => OrphanInv
  BY EmptyElements DEF Init, OrphanInv, Running, RunningStates
<1> QED  BY <1>1, OrphanInvInductive, TypeCorrect, PTL DEF Spec

\* When runs are not cut off and those of one type do not overlap, each member in Redis
\* is recorded for a type or queued by a run, so that a later fetch can delete it.
THEOREM NothingOrphaned ==
  ASSUME OverlapSameType = FALSE, Interruptible = FALSE
  PROVE  Spec => []NoOrphanMember
<1>1. OrphanInv => NoOrphanMember
  <2> SUFFICES ASSUME OrphanInv, NEW m \in store
               PROVE  \/ \E ft \in FetchType : m \in deps[ft]
                      \/ \E f \in Fetcher : m \in newDeps[f]
    BY Zenon DEF NoOrphanMember
  <2> QED  BY DEF OrphanInv, Accounted, QueuedBy, RecordedFor
<1> QED  BY <1>1, OrphanInvariant, PTL

(***************************************************************************)
(* The list of titles                                                      *)
(***************************************************************************)

\* The titles of the members of CPEs, and of several records, are those of each.
LEMMA TitlesOfMembers ==
  ASSUME NEW cs \in SUBSET CategorizedCpe
  PROVE  TitlesIn(Members(cs)) = TitlesOf(cs)
<1>1. ASSUME NEW c \in cs PROVE TitleMember(c.title, c.cpeURI) \in Members(cs)
  <2>1. TitleMember(c.title, c.cpeURI) \in MembersOf(c)
    BY DEF MembersOf, AddCommands, Elements
  <2> QED  BY <2>1 DEF Members
<1>2. ASSUME NEW t \in Title, NEW u \in CpeURI, TitleMember(t, u) \in Members(cs)
      PROVE  t \in TitlesOf(cs)
  <2>1. PICK c \in cs : TitleMember(t, u) \in MembersOf(c)
    BY <1>2 DEF Members
  <2>2. c.title = t
    BY <2>1 DEF MembersOf, AddCommands, Elements, VPMember, ProductMember, DeprecatedProduct,
                DeprecatedMember, TitleMember
  <2> QED  BY <2>2 DEF TitlesOf
<1> QED  BY <1>1, <1>2 DEF TitlesIn, TitlesOf, CategorizedCpe

LEMMA RecordedTitlesOfEach ==
  ASSUME NEW fts, NEW t
  PROVE  t \in RecordedTitles(fts) <=> \E g \in fts : t \in TitlesIn(deps[g])
BY DEF RecordedTitles, TitlesIn

LEMMA TitleListInductive ==
  ASSUME OneAtATime, Interruptible = FALSE
  PROVE  TypeOK /\ InsertInv /\ TitleListInv /\ [Next]_vars => TitleListInv'
<1> SUFFICES ASSUME TypeOK, InsertInv, TitleListInv, [Next]_vars PROVE TitleListInv'
  OBVIOUS
<1>1. CASE UNCHANGED <<redisVars, runVars>>
  BY <1>1 DEF TitleListInv, TitlesCollected, RecordedTitles, Running, redisVars, runVars
<1>2. ASSUME NEW f \in Fetcher, InsertStep(f) PROVE TitleListInv'
  <2>0. fetchType[f] \in FetchType /\ \A g \in Fetcher : g = f
    BY DEF TypeOK, OneAtATime
  <2> DEFINE rest == FetchType \ {fetchType[f]}
  <2>1. ASSUME NEW ft \in FetchType, Start(f, ft) PROVE TitleListInv'
    <3>1. /\ ~Running(f) /\ titles[f] = {} /\ titleList = RecordedTitles(FetchType)
          /\ pc'[f] = "own" /\ cpes'[f] = todo'[f]
          /\ UNCHANGED <<titles, titleList, deps>>
      BY <2>0, <2>1 DEF Start, TitleListInv, TypeOK, redisVars, Running, RunningStates
    <3>2. TitlesOf(cpes'[f] \ todo'[f]) = {}
      BY <3>1 DEF TitlesOf
    <3>3. TitlesCollected(f)'
      BY <3>1, <3>2 DEF TitlesCollected
    <3> QED  BY <2>0, <3>1, <3>3 DEF TitleListInv, RecordedTitles
  <2>2. CASE ReadOwnDeps(f)
    <3>1. /\ pc[f] = "own" /\ Running(f) /\ pc'[f] = "others"
          /\ others'[f] = OtherTypes(fetchType[f])
          /\ UNCHANGED <<titles, titleList, deps, fetchType, cpes, todo>>
      BY <2>2 DEF ReadOwnDeps, TypeOK, redisVars, Running, RunningStates
    <3>2. Elements(OtherTypes(fetchType[f])) = rest
      BY <2>0 DEF OtherTypes, Elements, FetchType
    <3>3. TitlesCollected(f)'
      BY <2>0, <3>1, <3>2 DEF TitleListInv, TitlesCollected, RecordedTitles
    <3>4. Running(f)'
      BY <3>1 DEF Running, RunningStates
    <3> QED  BY <2>0, <3>1, <3>3, <3>4 DEF TitleListInv, RecordedTitles
  <2>3. CASE ReadOtherDeps(f)
    <3> DEFINE g == Head(others[f])
    <3>1. /\ pc[f] = "others" /\ Running(f) /\ Running(f)'
          /\ titles'[f] = titles[f] \cup TitlesIn(deps[g])
          /\ others'[f] = Tail(others[f])
          /\ UNCHANGED <<pc, titleList, deps, fetchType, cpes, todo>>
      BY <2>3 DEF ReadOtherDeps, TypeOK, redisVars, Running, RunningStates
    <3>2. Elements(others[f]) = {g} \cup Elements(Tail(others[f]))
      BY <2>3, ElementsHeadTail DEF ReadOtherDeps, TypeOK
    <3>3. TitlesCollected(f)
      BY <3>1 DEF TitleListInv
    <3>4. g \in rest /\ TitlesIn(deps[g]) \subseteq RecordedTitles(rest)
      <4>1. g \in rest
        BY <3>1, <3>2, <3>3 DEF TitlesCollected
      <4> QED  BY <4>1, RecordedTitlesOfEach
    <3>5. TitlesCollected(f)'
      BY <3>1, <3>2, <3>3, <3>4 DEF TitlesCollected, RecordedTitles
    <3> QED  BY <2>0, <3>1, <3>5 DEF TitleListInv, RecordedTitles
  <2>4. CASE BeginAdding(f)
    <3>1. /\ pc[f] = "others" /\ others[f] = <<>> /\ Running(f) /\ pc'[f] = "add"
          /\ UNCHANGED <<others, titles, titleList, deps, fetchType, cpes, todo>>
      BY <2>4 DEF BeginAdding, TypeOK, redisVars, Running, RunningStates
    <3>2. TitlesCollected(f)'
      BY <3>1 DEF TitleListInv, TitlesCollected, RecordedTitles
    <3>3. Running(f)'
      BY <3>1 DEF Running, RunningStates
    <3> QED  BY <2>0, <3>1, <3>2, <3>3 DEF TitleListInv, RecordedTitles
  <2>5. CASE QueueCpe(f)
    <3>1. PICK c \in todo[f] : /\ todo'[f] = todo[f] \ {c}
                              /\ titles'[f] = titles[f] \cup {c.title}
      BY <2>5 DEF QueueCpe, NextToQueue, TypeOK
    <3>2. /\ pc[f] = "add" /\ Running(f) /\ Running(f)' /\ todo[f] \subseteq cpes[f]
          /\ UNCHANGED <<pc, others, titleList, deps, fetchType, cpes>>
      BY <2>5 DEF QueueCpe, redisVars, Running, RunningStates, InsertInv, RunsAccounted
    <3>3. cpes[f] \ todo'[f] = (cpes[f] \ todo[f]) \cup {c}
      BY <3>1, <3>2
    <3>4. TitlesOf(cpes[f] \ todo'[f]) = TitlesOf(cpes[f] \ todo[f]) \cup {c.title}
      BY <3>3 DEF TitlesOf
    <3>5. TitlesCollected(f)
      BY <3>2 DEF TitleListInv
    <3>6. TitlesCollected(f)'
      <4> DEFINE queued == TitlesOf(cpes[f] \ todo[f])
      <4>1. queued' = queued \cup {c.title} /\ titles'[f] = titles[f] \cup {c.title}
        BY <3>1, <3>2, <3>4
      <4>2. UNCHANGED <<rest, RecordedTitles(rest), others[f]>>
        BY <3>2 DEF RecordedTitles
      <4>3. /\ titles'[f] \subseteq RecordedTitles(rest) \cup queued'
            /\ queued' \subseteq titles'[f]
        <5>1. titles[f] \subseteq RecordedTitles(rest) \cup queued /\ queued \subseteq titles[f]
          BY <3>5 DEF TitlesCollected
        <5> HIDE DEF queued
        <5> QED  BY <4>1, <5>1
      <4> QED  BY <3>1, <3>2, <3>5, <4>2, <4>3 DEF TitlesCollected
    <3> QED  BY <2>0, <3>2, <3>6 DEF TitleListInv, RecordedTitles
  <2>6. CASE ExecAdd(f) \/ ExecRemove(f)
    <3>1. UNCHANGED <<pc, others, titleList, titles, deps, fetchType, cpes, todo>>
      BY <2>6 DEF ExecAdd, ExecRemove
    <3>2. Running(f)' <=> Running(f)
      BY <3>1 DEF Running
    <3>3. ASSUME TitlesCollected(f) PROVE TitlesCollected(f)'
      BY <3>1, <3>3 DEF TitlesCollected, RecordedTitles
    <3>4. RecordedTitles(FetchType)' = RecordedTitles(FetchType)
      BY <3>1 DEF RecordedTitles
    <3> QED  BY <2>0, <3>1, <3>2, <3>3, <3>4 DEF TitleListInv
  <2>7. CASE SetTitles(f)
    <3>1. /\ pc[f] = "add" /\ Running(f) /\ pc'[f] = "clean" /\ titleList' = titles[f]
          /\ UNCHANGED <<others, titles, deps, fetchType, cpes, todo>>
      BY <2>7 DEF SetTitles, TypeOK, Running, RunningStates
    <3>2. TitlesCollected(f)'
      <4>1. TitlesCollected(f)
        BY <3>1 DEF TitleListInv
      <4> QED  BY <3>1, <4>1 DEF TitlesCollected, RecordedTitles
    <3>3. Running(f)'
      BY <3>1 DEF Running, RunningStates
    <3> QED  BY <2>0, <3>1, <3>2, <3>3 DEF TitleListInv
  <2>8. CASE Commit(f)
    <3>1. /\ pc[f] = "clean" /\ Running(f) /\ ~Running(f)' /\ pc'[f] # "clean"
          /\ titles'[f] = {} /\ titleList' = titleList
          /\ deps' = [deps EXCEPT ![fetchType[f]] = Members(cpes[f])]
          /\ todo[f] = {} /\ cpes[f] \in SUBSET CategorizedCpe
      <4>1. pc[f] = "clean" /\ Running(f) /\ cpes[f] \in SUBSET CategorizedCpe
        BY <2>8 DEF Commit, TypeOK, Running, RunningStates
      <4>2. ~Running(f)' /\ pc'[f] # "clean" /\ titles'[f] = {} /\ titleList' = titleList
        BY <2>8 DEF Commit, ForgetRun, TypeOK, Running, RunningStates
      <4>3. deps' = [deps EXCEPT ![fetchType[f]] = Members(cpes[f])]
        BY <2>8, CommitRecords
      <4>4. todo[f] = {}
        BY <4>1 DEF InsertInv, RunsAccounted
      <4> QED  BY <4>1, <4>2, <4>3, <4>4
    <3>2. TitlesCollected(f) /\ titleList = titles[f] /\ others[f] = <<>>
      BY <3>1 DEF TitleListInv, TitlesCollected
    <3>3. cpes[f] \ todo[f] = cpes[f]
      BY <3>1
    <3>4. Elements(others[f]) = {}
      BY <3>2, EmptyElements
    <3>5. titles[f] \subseteq RecordedTitles(rest) \cup TitlesOf(cpes[f])
      BY <3>2, <3>3 DEF TitlesCollected
    <3>6. TitlesOf(cpes[f]) \subseteq titles[f]
      BY <3>2, <3>3 DEF TitlesCollected
    <3>7. \A g \in rest : TitlesIn(deps[g]) \subseteq titles[f]
      BY <3>1, <3>2, <3>4 DEF TitlesCollected
    <3>8. /\ TitlesIn(deps'[fetchType[f]]) = TitlesOf(cpes[f])
          /\ \A g \in rest : deps'[g] = deps[g]
      BY <2>0, <3>1, TitlesOfMembers DEF TypeOK
    <3>9. \A t : t \in titles[f] <=> \E g \in FetchType : t \in TitlesIn(deps'[g])
      BY <2>0, <3>5, <3>6, <3>7, <3>8, RecordedTitlesOfEach
    <3>10. titleList' = RecordedTitles(FetchType)'
      BY <3>1, <3>2, <3>9 DEF RecordedTitles, TitlesIn
    <3> QED  BY <2>0, <3>1, <3>10 DEF TitleListInv
  <2> QED
    BY <1>2, <2>1, <2>2, <2>3, <2>4, <2>5, <2>6, <2>7, <2>8, StepCases
<1>3. CASE UNCHANGED vars
  BY <1>1, <1>3 DEF vars
<1>4. ASSUME NEW ft \in FetchType, Publish(ft) PROVE UNCHANGED <<redisVars, runVars>>
  BY <1>4 DEF Publish
<1> QED  BY <1>1, <1>2, <1>3, <1>4 DEF Next

LEMMA TitleListInvariant ==
  ASSUME OneAtATime, Interruptible = FALSE
  PROVE  Spec => []TitleListInv
<1>1. Init => TitleListInv
  BY DEF Init, TitleListInv, RecordedTitles, TitlesIn, Running, RunningStates
<1> QED  BY <1>1, TitleListInductive, InsertInvariant, TypeCorrect, PTL DEF Spec

\* When fetches run one at a time and are not cut off, CPE#Titles has, between two of them,
\* the titles of all that is recorded for the three types, and no others.
THEOREM TitleListIsComplete ==
  ASSUME OneAtATime, Interruptible = FALSE
  PROVE  Spec => []TitleListComplete
<1>1. TitleListInv => TitleListComplete
  BY DEF TitleListInv, TitleListComplete, RecordedTitles, Running, RunningStates
<1> QED  BY <1>1, TitleListInvariant, PTL

(***************************************************************************)
(* The CPEs of a listed title                                              *)
(***************************************************************************)

\* Where no two types list a CPE under the same title, a title that a type records keeps
\* its CPEs until a run of that type deletes those its feed dropped.
LEMMA RecordedTitlesKeptInductive ==
  ASSUME OneAtATime, OverlapSameType = FALSE, Interruptible = FALSE, TitlesUnshared
  PROVE  TypeOK /\ InsertInv /\ RecordedTitlesKept /\ [Next]_vars => RecordedTitlesKept'
<1> SUFFICES ASSUME TypeOK, InsertInv, RecordedTitlesKept, [Next]_vars,
                    NEW ft \in FetchType, NEW t \in Title, NEW c \in CpeURI,
                    TitleMember(t, c) \in deps'[ft], TitleMember(t, c) \notin store'
             PROVE  \E f \in Fetcher : /\ pc'[f] = "clean" /\ fetchType'[f] = ft
                                       /\ TitleMember(t, c) \notin newDeps'[f]
  BY DEF RecordedTitlesKept
<1> DEFINE m == TitleMember(t, c)
<1>1. CASE UNCHANGED <<redisVars, runVars>>
  BY <1>1 DEF RecordedTitlesKept, redisVars, runVars
<1>2. ASSUME NEW f \in Fetcher, InsertStep(f)
      PROVE  pc'[f] = "clean" /\ fetchType'[f] = ft /\ m \notin newDeps'[f]
  <2>0. fetchType[f] \in FetchType /\ \A g \in Fetcher : g = f
    BY DEF TypeOK, OneAtATime
  <2>1. CASE Commit(f)
    <3>1. /\ pc[f] = "clean" /\ UNCHANGED <<store, fetchType>>
          /\ deps' = [deps EXCEPT ![fetchType[f]] = Members(cpes[f])]
      BY <2>1, CommitRecords DEF Commit, ForgetRun
    <3>2. CASE fetchType[f] = ft
      <4>1. m \in Members(cpes[f]) /\ Members(cpes[f]) \subseteq Own(ft)
        BY <3>1, <3>2, CleaningRun, StableInFeeds DEF TypeOK
      <4>2. m \notin Foreign(ft)
        BY <4>1 DEF TitlesUnshared
      <4> QED  BY <3>1, <3>2, <4>1, <4>2, CleaningRun
    <3>3. CASE fetchType[f] # ft
      <4>1. m \in deps[ft] /\ m \notin store
        BY <2>0, <3>1, <3>3 DEF TypeOK
      <4> QED  BY <2>0, <3>3, <4>1 DEF RecordedTitlesKept
    <3> QED  BY <3>2, <3>3
  <2>2. CASE ExecRemove(f)
    <3>1. /\ pc[f] = "clean" /\ UNCHANGED <<pc, deps, fetchType, newDeps>>
          /\ \E n \in oldDeps[f] : store' = store \ {n}
      BY <2>2 DEF ExecRemove, NextToDelete
    <3>2. CASE m \in oldDeps[f]
      <4>1. m \notin newDeps[f] /\ (ft # fetchType[f] => m \in Foreign(ft))
        BY <3>1, <3>2, RemovedMember
      <4>2. m \in Own(ft)
        BY <3>1 DEF InsertInv, DepsFromFeeds
      <4> QED  BY <3>1, <4>1, <4>2 DEF TitlesUnshared
    <3>3. CASE m \notin oldDeps[f]
      BY <2>0, <3>1, <3>3 DEF RecordedTitlesKept
    <3> QED  BY <3>2, <3>3
  <2>3. ASSUME NEW g \in FetchType, Start(f, g) PROVE FALSE
    BY <2>0, <2>3 DEF Start, redisVars, RecordedTitlesKept, Running, RunningStates
  <2>4. ASSUME ReadOwnDeps(f) \/ BeginAdding(f) \/ ReadOtherDeps(f) \/ QueueCpe(f) \/ ExecAdd(f)
               \/ SetTitles(f)
        PROVE  FALSE
    <3>1. pc[f] # "clean" /\ deps' = deps /\ store \subseteq store'
      BY <2>4 DEF ReadOwnDeps, BeginAdding, ReadOtherDeps, QueueCpe, ExecAdd, SetTitles,
                  redisVars
    <3> QED  BY <2>0, <3>1 DEF RecordedTitlesKept
  <2> QED  BY <1>2, <2>1, <2>2, <2>3, <2>4, StepCases
<1>3. CASE UNCHANGED vars
  BY <1>1, <1>3 DEF vars
<1>4. ASSUME NEW g \in FetchType, Publish(g) PROVE UNCHANGED <<redisVars, runVars>>
  BY <1>4 DEF Publish
<1> QED  BY <1>1, <1>2, <1>3, <1>4 DEF Next

\* When fetches run one at a time, none is cut off, and no two types list a CPE under the
\* same title, each title that GetSimilarCpesByTitle finds in CPE#Titles has a CPE.
THEOREM ListedTitlesHaveCpes ==
  ASSUME OneAtATime, OverlapSameType = FALSE, Interruptible = FALSE, TitlesUnshared
  PROVE  Spec => []ListedTitleHasCpe
<1>1. Init => RecordedTitlesKept
  BY DEF Init, RecordedTitlesKept
<1>2. TypeOK /\ InsertInv /\ TitleListInv /\ RecordedTitlesKept => ListedTitleHasCpe
  <2> SUFFICES ASSUME TypeOK, InsertInv, TitleListInv, RecordedTitlesKept, NEW t \in titleList
               PROVE  t \in TitlesIn(store)
    BY DEF ListedTitleHasCpe
  <2>1. CASE \A f \in Fetcher : pc[f] # "clean"
    <3>1. t \in Title /\ \E g \in FetchType : t \in TitlesIn(deps[g])
      BY <2>1, RecordedTitlesOfEach DEF TitleListInv, TypeOK
    <3> QED  BY <2>1, <3>1 DEF TitlesIn, RecordedTitlesKept
  <2>2. ASSUME NEW f \in Fetcher, pc[f] = "clean" PROVE t \in TitlesIn(store)
    <3>1. /\ Running(f) /\ fetchType[f] \in FetchType /\ \A g \in Fetcher : g = f
          /\ t \in Title
      BY <2>2 DEF Running, RunningStates, TypeOK, OneAtATime
    <3>2. cpes[f] \ todo[f] = cpes[f] /\ cpes[f] \in SUBSET CategorizedCpe
      BY <2>2, <3>1 DEF InsertInv, RunsAccounted, TypeOK
    <3>3. TitlesCollected(f) /\ t \in titles[f]
      BY <2>2, <3>1 DEF TitleListInv
    <3>4. CASE t \in TitlesOf(cpes[f])
      <4>1. PICK c \in CpeURI : TitleMember(t, c) \in Members(cpes[f])
        BY <3>2, <3>4, TitlesOfMembers DEF TitlesIn
      <4>2. Members(cpes[f]) \subseteq Own(fetchType[f])
        BY <2>2, <3>1, CleaningRun, StableInFeeds
      <4>3. TitleMember(t, c) \notin Foreign(fetchType[f])
        BY <3>1, <4>1, <4>2 DEF TitlesUnshared
      <4> QED  BY <2>2, <3>1, <4>1, <4>3, CleaningRun DEF TitlesIn
    <3>5. CASE t \notin TitlesOf(cpes[f])
      <4>1. t \in RecordedTitles(FetchType \ {fetchType[f]})
        BY <3>2, <3>3, <3>5 DEF TitlesCollected
      <4>2. PICK g \in FetchType \ {fetchType[f]} : t \in TitlesIn(deps[g])
        BY <4>1, RecordedTitlesOfEach
      <4> QED  BY <3>1, <4>2 DEF TitlesIn, RecordedTitlesKept
    <3> QED  BY <3>4, <3>5
  <2> QED  BY <2>1, <2>2
<1> QED
  BY <1>1, <1>2, RecordedTitlesKeptInductive, TitleListInvariant, InsertInvariant, TypeCorrect,
     PTL DEF Spec
=============================================================================
