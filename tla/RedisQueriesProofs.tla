-------------------------- MODULE RedisQueriesProofs --------------------------
(***************************************************************************)
(* Theorems about RedisQueries, for every set of requests and of fetch     *)
(* processes, and every history of feeds.                                  *)
(***************************************************************************)
EXTENDS RedisQueries, RedisDriverProofs

\* A step is one of an insert or of upstream, or of one request, or changes nothing.
LEMMA QueryStepCases ==
  ASSUME [QueryNext]_allVars
  PROVE  \/ [Next]_vars /\ UNCHANGED queryVars
         \/ UNCHANGED vars /\ \E r \in Request : QueryStep(r)
BY DEF QueryNext, allVars, QueryStep, ReadProducts, ReadDeprecatedProducts, ReadCpes,
       ClassifyCpe, ReadTitles, ReadTitleCpes, AllLookedUp, Return

(***************************************************************************)
(* What a step of a request may change                                     *)
(***************************************************************************)

\* A request that begins notes what is recorded, and a request under way goes on with
\* that note; only the arrays of the request itself change.
LEMMA OneRequest ==
  ASSUME QueryTypeOK, NEW r \in Request, QueryStep(r), NEW q \in Request, q # r
  PROVE  UNCHANGED <<kind[q], step[q], product[q], pending[q], inUse[q], outdated[q],
                     ranks[q], recorded[q]>>
BY DEF QueryTypeOK, QueryStep, ReadProducts, ReadDeprecatedProducts, ReadCpes, ClassifyCpe,
       ReadTitles, ReadTitleCpes, AllLookedUp, Return, Begin, Answer

LEMMA IdleInductive ==
  QueryTypeOK /\ IdleRequestsEmpty /\ [QueryNext]_allVars => IdleRequestsEmpty'
<1> SUFFICES ASSUME QueryTypeOK, IdleRequestsEmpty, [QueryNext]_allVars
             PROVE  IdleRequestsEmpty'
  OBVIOUS
<1>1. CASE UNCHANGED queryVars
  BY <1>1 DEF IdleRequestsEmpty, queryVars
<1>2. ASSUME NEW r \in Request, QueryStep(r) PROVE IdleRequestsEmpty'
  <2>1. step'[r] = "idle" =>
          kind'[r] = "none" /\ inUse'[r] = {} /\ outdated'[r] = {} /\ ranks'[r] = {}
    BY <1>2 DEF QueryTypeOK, QueryStep, ReadProducts, ReadDeprecatedProducts, ReadCpes,
                ClassifyCpe, ReadTitles, ReadTitleCpes, AllLookedUp, Return, Begin, Answer
  <2> QED  BY <1>2, <2>1, OneRequest DEF IdleRequestsEmpty
<1> QED  BY <1>1, <1>2, QueryStepCases

(***************************************************************************)
(* Type correctness                                                        *)
(***************************************************************************)

LEMMA QueryTypeInductive ==
  TypeOK /\ QueryTypeOK /\ IdleRequestsEmpty /\ [QueryNext]_allVars => QueryTypeOK'
<1> SUFFICES ASSUME TypeOK, QueryTypeOK, IdleRequestsEmpty, [QueryNext]_allVars
             PROVE  QueryTypeOK'
  OBVIOUS
<1>1. CASE UNCHANGED queryVars
  BY <1>1 DEF QueryTypeOK, queryVars
<1>2. ASSUME NEW r \in Request, QueryStep(r) PROVE QueryTypeOK'
  <2>1. CASE ReadProducts(r)
    <3>1. Products \subseteq VendorProduct
      BY DEF Products
    <3>2. pending[r] = {}
      BY <2>1 DEF QueryTypeOK, ReadProducts, Begin
    <3> QED  BY <2>1, <3>1, <3>2 DEF QueryTypeOK, ReadProducts, Begin, Kinds, TypeOK
  <2>2. CASE ReadDeprecatedProducts(r)
    <3>1. DeprecatedProducts \subseteq VendorProduct
      BY DEF DeprecatedProducts
    <3>2. pending[r] = {}
      BY <2>2 DEF QueryTypeOK, ReadDeprecatedProducts
    <3> QED  BY <2>2, <3>1, <3>2 DEF QueryTypeOK, ReadDeprecatedProducts, Answer
  <2>3. ASSUME NEW v \in VendorProduct, ReadCpes(r, v) PROVE QueryTypeOK'
    <3>1. CpesOfProduct(v) \subseteq CpeURI
      BY DEF CpesOfProduct
    <3>2. inUse[r] = {} /\ outdated[r] = {}
      BY <2>3 DEF ReadCpes, Begin, IdleRequestsEmpty
    <3> QED  BY <2>3, <3>1, <3>2 DEF QueryTypeOK, ReadCpes, Begin, Kinds, TypeOK
  <2>4. CASE ClassifyCpe(r)
    <3>1. pending[r] \subseteq CpeURI
      BY <2>4 DEF QueryTypeOK, ClassifyCpe
    <3> QED  BY <2>4, <3>1 DEF QueryTypeOK, ClassifyCpe
  <2>5. CASE ReadTitles(r)
    <3>1. PICK closest \in FuzzySearchSet(titleList) :
            pending' = [pending EXCEPT ![r] = closest]
      BY <2>5 DEF ReadTitles
    <3>2. closest \subseteq Title
      BY DEF FuzzySearchSet, TypeOK
    <3> QED  BY <2>5, <3>1, <3>2 DEF QueryTypeOK, ReadTitles, Begin, Kinds, TypeOK
  <2>6. CASE ReadTitleCpes(r)
    <3>1. PICK t \in pending[r] :
            /\ pending' = [pending EXCEPT ![r] = @ \ {t}]
            /\ ranks' = [ranks EXCEPT ![r] =
                           @ \cup {[title |-> t, cpes |-> CpesOfTitle(t)]}]
      BY <2>6 DEF ReadTitleCpes
    <3>2. pending[r] \subseteq Title
      BY <2>6 DEF QueryTypeOK, ReadTitleCpes
    <3>3. [title |-> t, cpes |-> CpesOfTitle(t)] \in [title : Title, cpes : SUBSET CpeURI]
      BY <3>2 DEF CpesOfTitle
    <3> QED  BY <2>6, <3>1, <3>2, <3>3 DEF QueryTypeOK, ReadTitleCpes
  <2>7. CASE AllLookedUp(r)
    BY <2>7 DEF QueryTypeOK, AllLookedUp, Answer
  <2>8. CASE Return(r)
    BY <2>8 DEF QueryTypeOK, Return
  <2> QED
    BY <1>2, <2>1, <2>2, <2>3, <2>4, <2>5, <2>6, <2>7, <2>8 DEF QueryStep
<1> QED  BY <1>1, <1>2, QueryStepCases

\* The driver below the requests behaves as it does without them.
LEMMA QuerySpecHasInsertInv == QuerySpec => [](TypeOK /\ InsertInv)
<1>1. QueryInit => TypeOK /\ InsertInv
  BY InsertInvInit DEF QueryInit, Init, TypeOK, States, FetchType
<1>2. TypeOK /\ InsertInv /\ [QueryNext]_allVars => (TypeOK /\ InsertInv)'
  BY QueryStepCases, TypeInductive, InsertInvInductive
<1> QED  BY <1>1, <1>2, PTL DEF QuerySpec

\* QueryTypeOK: whatever requests and inserts interleave, each request looks up CPEs or
\* titles according to its query, and has none left when it answers.
THEOREM QueryTypeCorrect == QuerySpec => []QueryTypeOK
<1>1. QueryInit => QueryTypeOK /\ IdleRequestsEmpty
  BY DEF QueryInit, QueryTypeOK, IdleRequestsEmpty
<1> QED
  BY <1>1, QueryTypeInductive, IdleInductive, QuerySpecHasInsertInv, PTL DEF QuerySpec

(***************************************************************************)
(* Answers about what one type always lists                                *)
(***************************************************************************)

\* What is recorded and no other type lists is recorded for its type.
LEMMA RecordedForOwn ==
  ASSUME InsertInv, NEW ft \in FetchType
  PROVE  (UNION {deps[g] : g \in FetchType}) \ Foreign(ft) \subseteq deps[ft]
BY OwnIsForeign DEF InsertInv, DepsFromFeeds

\* The record of a type changes only at the end of an insert of it, to the feed inserted.
LEMMA RecordStep ==
  ASSUME TypeOK, InsertInv, [Next]_vars, NEW ft \in FetchType, deps'[ft] # deps[ft]
  PROVE  \E f \in Fetcher : /\ Commit(f) /\ fetchType[f] = ft
                            /\ cpes[f] \in Feeds(ft)
                            /\ deps'[ft] = Members(cpes[f])
<1>1. PICK f \in Fetcher : Commit(f)
  BY DEF Next, vars, redisVars, Publish, InsertStep, Start, ReadOwnDeps, ReadOtherDeps,
         BeginAdding, QueueCpe, ExecAdd, SetTitles, ExecRemove, Abort
<1>2. fetchType[f] = ft /\ deps'[ft] = newDeps[f] /\ newDeps[f] = Members(cpes[f])
  BY <1>1, CommitRecords DEF TypeOK
<1>3. cpes[f] \in Feeds(fetchType[f])
  BY <1>1 DEF Commit, InsertInv, RunsAccounted, Running, RunningStates
<1> QED  BY <1>1, <1>2, <1>3

\* A type goes on recording what all its feeds list.
LEMMA StableStaysRecorded ==
  ASSUME TypeOK, InsertInv, [Next]_vars, NEW ft \in FetchType
  PROVE  deps[ft] \cap Stable(ft) \subseteq deps'[ft]
BY RecordStep, StableInFeeds

LEMMA RecordedStaysInductive ==
  TypeOK /\ InsertInv /\ QueryTypeOK /\ RecordedStays /\ [QueryNext]_allVars
    => RecordedStays'
<1> SUFFICES ASSUME TypeOK, InsertInv, QueryTypeOK, RecordedStays, [QueryNext]_allVars
             PROVE  RecordedStays'
  OBVIOUS
<1>1. CASE [Next]_vars /\ UNCHANGED queryVars
  BY <1>1, StableStaysRecorded DEF RecordedStays, queryVars
<1>2. ASSUME NEW r \in Request, QueryStep(r), UNCHANGED vars PROVE RecordedStays'
  <2>1. recorded'[r] \in {recorded[r], {}, UNION {deps[ft] : ft \in FetchType}}
    BY <1>2 DEF QueryTypeOK, QueryStep, ReadProducts, ReadDeprecatedProducts, ReadCpes,
                ClassifyCpe, ReadTitles, ReadTitleCpes, AllLookedUp, Return, Begin, Answer
  <2>2. ASSUME NEW ft \in FetchType
        PROVE  (recorded'[r] \cap Stable(ft)) \ Foreign(ft) \subseteq deps[ft]
    BY <2>1, RecordedForOwn DEF RecordedStays
  <2>3. UNCHANGED deps
    BY <1>2 DEF vars, redisVars
  <2> QED  BY <1>2, <2>2, <2>3, OneRequest DEF RecordedStays
<1> QED  BY <1>1, <1>2, QueryStepCases

\* What was recorded when a request began, and one type alone always lists, is in Redis.
LEMMA AlwaysListedInStore ==
  ASSUME InsertInv, RecordedStays, NEW r \in Request
  PROVE  recorded[r] \cap AlwaysListed \subseteq store
BY DEF InsertInv, StableMembersKept, RecordedStays, AlwaysListed

\* As above when it begins.
LEMMA AlwaysListedInStoreAtBegin ==
  ASSUME InsertInv
  PROVE  (UNION {deps[ft] : ft \in FetchType}) \cap AlwaysListed \subseteq store
BY RecordedForOwn DEF InsertInv, StableMembersKept, AlwaysListed

\* Each read of a request finds, of what one type always lists, all that is asked for.
LEMMA NoneLostInductive ==
  /\ TypeOK /\ InsertInv /\ QueryTypeOK /\ IdleRequestsEmpty /\ RecordedStays /\ NoneLost
  /\ [QueryNext]_allVars
  => NoneLost'
<1> SUFFICES ASSUME TypeOK, InsertInv, QueryTypeOK, IdleRequestsEmpty, RecordedStays,
                    NoneLost, [QueryNext]_allVars
             PROVE  NoneLost'
  OBVIOUS
<1>1. CASE UNCHANGED queryVars
  BY <1>1 DEF NoneLost, queryVars
<1>2. ASSUME NEW r \in Request, QueryStep(r) PROVE NoneLost'
  <2> DEFINE CpesKept ==
               kind[r] = "cpes" => \A c \in CpeURI :
                 VPMember(product[r], c) \in recorded[r] \cap AlwaysListed =>
                   c \in pending[r] \cup inUse[r] \cup outdated[r]
             TitlesKept ==
               \A s \in ranks[r] : \A c \in CpeURI :
                 TitleMember(s.title, c) \in recorded[r] \cap AlwaysListed => c \in s.cpes
  <2>0. CpesKept /\ TitlesKept
    BY DEF NoneLost
  <2>1. ASSUME ReadProducts(r) \/ ReadTitles(r) PROVE CpesKept' /\ TitlesKept'
    <3>1. /\ kind'[r] # "cpes" /\ ranks'[r] = {}
      BY <2>1 DEF ReadProducts, ReadTitles, Begin, QueryTypeOK, IdleRequestsEmpty
    <3> QED  BY <3>1
  <2>2. ASSUME ReadDeprecatedProducts(r) \/ AllLookedUp(r) PROVE CpesKept' /\ TitlesKept'
    <3>1. /\ kind'[r] = kind[r] /\ product'[r] = product[r] /\ recorded'[r] = recorded[r]
          /\ pending'[r] = pending[r] /\ inUse'[r] = inUse[r] /\ ranks'[r] = ranks[r]
          /\ kind[r] = "cpes" => outdated'[r] = outdated[r]
      BY <2>2 DEF ReadDeprecatedProducts, AllLookedUp, Answer, QueryTypeOK
    <3> QED  BY <2>0, <3>1
  <2>3. ASSUME NEW v \in VendorProduct, ReadCpes(r, v) PROVE CpesKept' /\ TitlesKept'
    <3>1. /\ product'[r] = v /\ pending'[r] = CpesOfProduct(v) /\ ranks'[r] = {}
          /\ recorded'[r] = UNION {deps[ft] : ft \in FetchType}
      BY <2>3 DEF ReadCpes, Begin, QueryTypeOK, IdleRequestsEmpty
    <3>2. ASSUME NEW c \in CpeURI, VPMember(v, c) \in recorded'[r] \cap AlwaysListed
          PROVE  c \in pending'[r]
      BY <3>1, <3>2, AlwaysListedInStoreAtBegin DEF CpesOfProduct
    <3> QED  BY <3>1, <3>2
  <2>4. ASSUME ClassifyCpe(r) PROVE CpesKept' /\ TitlesKept'
    <3>1. /\ kind'[r] = kind[r] /\ product'[r] = product[r] /\ recorded'[r] = recorded[r]
          /\ ranks'[r] = ranks[r]
          /\ pending[r] \cup inUse[r] \cup outdated[r]
               \subseteq pending'[r] \cup inUse'[r] \cup outdated'[r]
      BY <2>4 DEF ClassifyCpe, QueryTypeOK
    <3> QED  BY <2>0, <3>1
  <2>5. ASSUME ReadTitleCpes(r) PROVE CpesKept' /\ TitlesKept'
    <3>1. PICK t \in pending[r] :
            ranks'[r] = ranks[r] \cup {[title |-> t, cpes |-> CpesOfTitle(t)]}
      BY <2>5 DEF ReadTitleCpes, QueryTypeOK
    <3>2. kind'[r] = "titles" /\ recorded'[r] = recorded[r]
      BY <2>5 DEF ReadTitleCpes
    <3>3. ASSUME NEW c \in CpeURI, TitleMember(t, c) \in recorded[r] \cap AlwaysListed
          PROVE  c \in CpesOfTitle(t)
      BY <3>3, AlwaysListedInStore DEF CpesOfTitle
    <3> QED  BY <2>0, <3>1, <3>2, <3>3
  <2>6. ASSUME Return(r) PROVE CpesKept' /\ TitlesKept'
    <3>1. kind'[r] # "cpes" /\ ranks'[r] = {}
      BY <2>6 DEF Return, QueryTypeOK
    <3> QED  BY <3>1
  <2>7. CpesKept' /\ TitlesKept'
    BY <1>2, <2>1, <2>2, <2>3, <2>4, <2>5, <2>6 DEF QueryStep
  <2> QED  BY <1>2, <2>7, OneRequest DEF NoneLost
<1> QED  BY <1>1, <1>2, QueryStepCases

LEMMA NoneLostInvariant ==
  QuerySpec => [](RecordedStays /\ NoneLost /\ QueryTypeOK)
<1>1. QueryInit => IdleRequestsEmpty /\ RecordedStays /\ NoneLost
  BY DEF QueryInit, IdleRequestsEmpty, RecordedStays, NoneLost
<1> QED
  BY <1>1, IdleInductive, RecordedStaysInductive, NoneLostInductive, QueryTypeCorrect,
     QuerySpecHasInsertInv, PTL DEF QuerySpec

\* StableCpeAnswered: however many fetches replace feeds, overlap or are cut off during a
\* GetCpesByVendorProduct, it answers every CPE that its type lists for the product in all
\* its feeds.
THEOREM StableCpesAreAnswered == QuerySpec => []StableCpeAnswered
<1>1. NoneLost /\ QueryTypeOK => StableCpeAnswered
  BY DEF NoneLost, QueryTypeOK, StableCpeAnswered
<1> QED  BY <1>1, NoneLostInvariant, PTL

\* StableTitleAnswered: in the same circumstances GetSimilarCpesByTitle answers, with each
\* title it ranks, every CPE to which all feeds of a type give that title.
THEOREM StableTitlesAreAnswered == QuerySpec => []StableTitleAnswered
<1>1. NoneLost => StableTitleAnswered
  BY DEF NoneLost, StableTitleAnswered
<1> QED  BY <1>1, NoneLostInvariant, PTL

(***************************************************************************)
(* When fetches of one type do not overlap, its feeds arrive in order      *)
(***************************************************************************)

LEMMA FeedsInOrderInductive ==
  ASSUME OverlapSameType = FALSE
  PROVE  TypeOK /\ InsertInv /\ FeedsInOrder /\ [Next]_vars => FeedsInOrder'
<1> SUFFICES ASSUME TypeOK, InsertInv, FeedsInOrder, [Next]_vars PROVE FeedsInOrder'
  OBVIOUS
<1> DEFINE Recorded(ft) == deps[ft] # {} =>
             \E i \in 1..published[ft] : deps[ft] = Members(Upstream[ft][i])
           InsertsFeed(f) == Running(f) =>
             \E j \in 1..published[fetchType[f]] :
               /\ cpes[f] = Upstream[fetchType[f]][j]
               /\ deps[fetchType[f]] # {} =>
                    \E i \in 1..j :
                      deps[fetchType[f]] = Members(Upstream[fetchType[f]][i])
           DeletesRecorded(f) == oldDeps[f] \subseteq deps[fetchType[f]]
<1>0. /\ \A ft \in FetchType : Recorded(ft)
      /\ \A f \in Fetcher : InsertsFeed(f) /\ DeletesRecorded(f)
  BY DEF FeedsInOrder
<1>1. ASSUME NEW ft \in FetchType, Publish(ft) PROVE FeedsInOrder'
  <2>1. \A g \in FetchType : /\ published[g] \in Nat
                              /\ published'[g] \in {published[g], published[g] + 1}
    BY <1>1 DEF Publish, TypeOK
  <2>2. UNCHANGED <<deps, pc, fetchType, cpes, oldDeps>>
    BY <1>1 DEF Publish, redisVars, runVars
  <2>3. \A g \in FetchType : 1..published[g] \subseteq 1..published'[g]
    BY <2>1
  <2>4. ASSUME NEW g \in FetchType PROVE Recorded(g)'
    BY <1>0, <2>2, <2>3
  <2>5. ASSUME NEW f \in Fetcher PROVE InsertsFeed(f)' /\ DeletesRecorded(f)'
    <3>1. fetchType[f] \in FetchType
      BY DEF TypeOK
    <3>2. DeletesRecorded(f)'
      BY <1>0, <2>2
    <3>3. InsertsFeed(f)'
      <4>1. SUFFICES ASSUME Running(f)'
                     PROVE \E j \in 1..published'[fetchType[f]] :
                             /\ cpes[f] = Upstream[fetchType[f]][j]
                             /\ deps[fetchType[f]] # {} =>
                                  \E i \in 1..j :
                                    deps[fetchType[f]] = Members(Upstream[fetchType[f]][i])
        BY <2>2
      <4>2. Running(f)
        BY <2>2, <4>1 DEF Running
      <4> QED  BY <1>0, <2>3, <3>1, <4>2
    <3> QED  BY <3>2, <3>3
  <2> QED  BY <2>4, <2>5 DEF FeedsInOrder
<1>2. ASSUME NEW f \in Fetcher, InsertStep(f) PROVE FeedsInOrder'
  <2>0. published' = published /\ fetchType[f] \in FetchType
    BY <1>2 DEF InsertStep, Start, ReadOwnDeps, ReadOtherDeps, BeginAdding, QueueCpe, ExecAdd,
                SetTitles, ExecRemove, Commit, Abort, upstreamVars, TypeOK
  <2>1. ASSUME NEW ft \in FetchType, Start(f, ft) PROVE FeedsInOrder'
    <3>1. /\ fetchType' = [fetchType EXCEPT ![f] = ft]
          /\ cpes' = [cpes EXCEPT ![f] = Upstream[ft][published[ft]]]
          /\ published[ft] \in Nat \ {0} /\ oldDeps[f] = {}
          /\ pc' = [pc EXCEPT ![f] = "own"]
          /\ UNCHANGED <<deps, oldDeps>>
      BY <2>1 DEF Start, redisVars, TypeOK, InsertInv, IdleRunsEmpty
    <3>2. \A g \in FetchType : Recorded(g)'
      BY <1>0, <2>0, <3>1
    <3>3. InsertsFeed(f)' /\ DeletesRecorded(f)'
      <4>1. fetchType'[f] = ft /\ cpes'[f] = Upstream[ft][published[ft]]
        BY <3>1 DEF TypeOK
      <4>2. DeletesRecorded(f)'
        BY <3>1
      <4>3. InsertsFeed(f)'
        <5>1. published[ft] \in 1..published[ft]
          BY <3>1
        <5>2. deps[ft] # {} => \E i \in 1..published[ft] : deps[ft] = Members(Upstream[ft][i])
          BY <1>0
        <5> QED  BY <2>0, <3>1, <4>1, <5>1, <5>2
      <4> QED  BY <4>2, <4>3
    <3>4. ASSUME NEW g \in Fetcher, g # f PROVE InsertsFeed(g)' /\ DeletesRecorded(g)'
      <4>1. UNCHANGED <<fetchType[g], cpes[g], pc[g], oldDeps[g], deps, published>>
        BY <2>0, <3>1, <3>4 DEF TypeOK
      <4> QED  BY <1>0, <4>1 DEF Running
    <3> QED  BY <3>2, <3>3, <3>4 DEF FeedsInOrder
  <2>2. CASE Commit(f)
    <3>1. /\ Running(f) /\ deps' = [deps EXCEPT ![fetchType[f]] = Members(cpes[f])]
          /\ ~Running(f)' /\ oldDeps'[f] = {}
          /\ UNCHANGED fetchType
          /\ \A g \in Fetcher \ {f} : UNCHANGED <<pc[g], cpes[g], oldDeps[g]>>
      <4>1. Running(f) /\ deps' = [deps EXCEPT ![fetchType[f]] = Members(cpes[f])]
        BY <2>2, CommitRecords DEF Commit, Running, RunningStates
      <4>2. ~Running(f)' /\ oldDeps'[f] = {} /\ UNCHANGED fetchType
        BY <2>2 DEF Commit, ForgetRun, Running, RunningStates, TypeOK
      <4>3. \A g \in Fetcher \ {f} : UNCHANGED <<pc[g], cpes[g], oldDeps[g]>>
        BY <2>2 DEF Commit, ForgetRun, TypeOK
      <4> QED  BY <4>1, <4>2, <4>3
    <3>2. ASSUME NEW ft \in FetchType PROVE Recorded(ft)'
      <4>1. CASE ft = fetchType[f]
        BY <1>0, <2>0, <3>1, <4>1 DEF TypeOK
      <4>2. CASE ft # fetchType[f]
        BY <1>0, <2>0, <3>1, <4>2 DEF TypeOK
      <4> QED  BY <4>1, <4>2
    <3>3. InsertsFeed(f)' /\ DeletesRecorded(f)'
      BY <3>1
    <3>4. ASSUME NEW g \in Fetcher, g # f PROVE InsertsFeed(g)' /\ DeletesRecorded(g)'
      <4>1. CASE Running(g)
        <5>1. fetchType[g] # fetchType[f]
          BY <3>1, <3>4, <4>1 DEF InsertInv, QueuedExclusiveAdded
        <5>2. UNCHANGED <<fetchType[g], cpes[g], pc[g], oldDeps[g], deps[fetchType[g]],
                          published>>
          BY <2>0, <3>1, <3>4, <5>1 DEF TypeOK
        <5> QED  BY <1>0, <5>2 DEF Running
      <4>2. CASE ~Running(g)
        <5>1. ~Running(g)' /\ oldDeps'[g] = {}
          BY <3>1, <3>4, <4>2 DEF Running, InsertInv, IdleRunsEmpty
        <5> QED  BY <5>1
      <4> QED  BY <4>1, <4>2
    <3> QED  BY <3>2, <3>3, <3>4 DEF FeedsInOrder
  <2>3. CASE Abort(f)
    <3>1. /\ ~Running(f)' /\ oldDeps'[f] = {} /\ UNCHANGED <<deps, published, fetchType>>
          /\ \A g \in Fetcher \ {f} : UNCHANGED <<pc[g], cpes[g], oldDeps[g]>>
      BY <2>3 DEF Abort, ForgetRun, Running, RunningStates, TypeOK, redisVars, upstreamVars
    <3>2. InsertsFeed(f)' /\ DeletesRecorded(f)'
      BY <3>1
    <3>3. ASSUME NEW g \in Fetcher, g # f PROVE InsertsFeed(g)' /\ DeletesRecorded(g)'
      BY <1>0, <3>1, <3>3 DEF Running
    <3> QED  BY <1>0, <3>1, <3>2, <3>3 DEF FeedsInOrder
  <2>4. ASSUME \/ ReadOwnDeps(f) \/ ReadOtherDeps(f) \/ BeginAdding(f) \/ QueueCpe(f)
               \/ ExecAdd(f) \/ SetTitles(f) \/ ExecRemove(f)
        PROVE  FeedsInOrder'
    <3>1. /\ Running(f) /\ UNCHANGED <<deps, published, fetchType, cpes>>
          /\ \A g \in Fetcher \ {f} : UNCHANGED <<pc[g], oldDeps[g]>>
          /\ oldDeps'[f] \subseteq oldDeps[f] \cup deps[fetchType[f]]
      BY <2>4 DEF ReadOwnDeps, ReadOtherDeps, BeginAdding, QueueCpe, ExecAdd, SetTitles,
                  ExecRemove, Running, RunningStates, TypeOK, redisVars, upstreamVars
    <3>2. ASSUME NEW g \in Fetcher PROVE InsertsFeed(g)' /\ DeletesRecorded(g)'
      <4>1. Running(g)' => Running(g)
        BY <3>1 DEF Running
      <4> QED  BY <1>0, <3>1, <4>1
    <3> QED  BY <1>0, <3>1, <3>2 DEF FeedsInOrder
  <2> QED  BY <1>2, <2>1, <2>2, <2>3, <2>4 DEF InsertStep
<1>3. CASE UNCHANGED vars
  BY <1>3 DEF FeedsInOrder, Running, vars, upstreamVars, redisVars, runVars
<1> QED  BY <1>1, <1>2, <1>3 DEF Next

\* What a type does not drop once a feed of it has listed it, no run deletes.
LEMMA OnceListedNotDeleted ==
  ASSUME OverlapSameType = FALSE, TypeOK, InsertInv, FeedsInOrder, [Next]_vars,
         NEW ft \in FetchType, NEW m \in store, OnceListedKept(ft, m)
  PROVE  m \in store'
<1> SUFFICES ASSUME m \notin store' PROVE FALSE
  OBVIOUS
<1>1. PICK f \in Fetcher : ExecRemove(f) /\ m \in oldDeps[f]
  BY DEF Next, vars, redisVars, Publish, InsertStep, Start, ReadOwnDeps, ReadOtherDeps,
         BeginAdding, QueueCpe, ExecAdd, SetTitles, ExecRemove, Commit, Abort, NextToDelete
<1>2. pc[f] = "clean" /\ Running(f) /\ fetchType[f] \in FetchType
  BY <1>1 DEF ExecRemove, Running, RunningStates, TypeOK
<1>3. fetchType[f] = ft /\ m \notin newDeps[f]
  BY <1>1, <1>2, RemovedMember DEF OnceListedKept
<1>4. newDeps[f] = Members(cpes[f])
  <2>1. todo[f] = {} /\ newDeps[f] = Members(cpes[f] \ todo[f])
    BY <1>2 DEF InsertInv, RunsAccounted
  <2>2. cpes[f] \ todo[f] = cpes[f]
    BY <2>1
  <2> QED  BY <2>1, <2>2
<1>5. m \in deps[ft]
  BY <1>1, <1>3 DEF FeedsInOrder
<1>6. PICK j \in 1..published[ft] :
        /\ cpes[f] = Upstream[ft][j]
        /\ \E i \in 1..j : deps[ft] = Members(Upstream[ft][i])
  BY <1>2, <1>3, <1>5 DEF FeedsInOrder
<1>7. PICK i \in 1..j : deps[ft] = Members(Upstream[ft][i])
  BY <1>6
<1>8. published[ft] \in Nat /\ published[ft] <= Len(Upstream[ft]) /\ Len(Upstream[ft]) \in Nat
  BY UpstreamAssumption DEF TypeOK
<1>9. i \in 1..Len(Upstream[ft]) /\ j \in 1..Len(Upstream[ft]) /\ i <= j
  BY <1>6, <1>7, <1>8
<1> QED  BY <1>3, <1>4, <1>5, <1>6, <1>7, <1>9 DEF OnceListedKept

(***************************************************************************)
(* Products                                                                *)
(***************************************************************************)

\* A product listed throughout stays in one of the two sets.
LEMMA ListingStays ==
  ASSUME OverlapSameType = FALSE, TypeOK, InsertInv, FeedsInOrder, [Next]_vars,
         NEW ft \in FetchType, NEW v \in VendorProduct, ListedThroughout(ft, v),
         Listing(v) \cap store # {}
  PROVE  Listing(v) \cap store' # {}
<1> SUFFICES ASSUME Listing(v) \cap store' = {} PROVE FALSE
  OBVIOUS
<1>1. DeprecatedProduct(v) \notin store
  BY OnceListedNotDeleted DEF ListedThroughout, Listing
<1>2. ProductMember(v) \in store /\ ProductMember(v) \notin store'
  BY <1>1 DEF Listing
<1>3. PICK f \in Fetcher : ExecRemove(f) /\ ProductMember(v) \in oldDeps[f]
  BY <1>2 DEF Next, vars, redisVars, Publish, InsertStep, Start, ReadOwnDeps, ReadOtherDeps,
         BeginAdding, QueueCpe, ExecAdd, SetTitles, ExecRemove, Commit, Abort, NextToDelete
<1>4. pc[f] = "clean" /\ fetchType[f] \in FetchType
  BY <1>3 DEF ExecRemove, TypeOK
<1>5. fetchType[f] = ft /\ ProductMember(v) \notin newDeps[f]
  BY <1>3, <1>4, RemovedMember DEF ListedThroughout, Listing
<1>6. DeprecatedProduct(v) \in Members(cpes[f])
  BY <1>4, <1>5, CleaningRun DEF ListedThroughout, Listing
<1>7. DeprecatedProduct(v) \in store
  BY <1>4, <1>5, <1>6, CleaningRun DEF ListedThroughout, Listing
<1> QED  BY <1>1, <1>7

LEMMA ProductsShownInductive ==
  ASSUME OverlapSameType = FALSE
  PROVE  /\ TypeOK /\ InsertInv /\ FeedsInOrder /\ QueryTypeOK /\ IdleRequestsEmpty
         /\ ProductsShown /\ [QueryNext]_allVars
         => ProductsShown'
<1> SUFFICES ASSUME TypeOK, InsertInv, FeedsInOrder, QueryTypeOK, IdleRequestsEmpty,
                    ProductsShown, [QueryNext]_allVars
             PROVE  ProductsShown'
  OBVIOUS
<1> DEFINE Stored(ft, v) ==
             ListedThroughout(ft, v) /\ Listing(v) \cap deps[ft] # {} =>
               Listing(v) \cap store # {}
           Seen(r) == kind[r] = "products" =>
             \A ft \in FetchType : \A v \in VendorProduct :
               ListedThroughout(ft, v) /\ Listing(v) \cap recorded[r] # {} =>
                 \/ v \in inUse[r]
                 \/ IF step[r] = "reading" THEN DeprecatedProduct(v) \in store
                                          ELSE v \in outdated[r]
<1>0. /\ \A ft \in FetchType : \A v \in VendorProduct : Stored(ft, v)
      /\ \A r \in Request : Seen(r)
  BY DEF ProductsShown
<1>1. ASSUME [Next]_vars, UNCHANGED queryVars PROVE ProductsShown'
  <2>1. ASSUME NEW ft \in FetchType, NEW v \in VendorProduct PROVE Stored(ft, v)'
    <3> SUFFICES ASSUME ListedThroughout(ft, v), Listing(v) \cap deps'[ft] # {}
                 PROVE  Listing(v) \cap store' # {}
      OBVIOUS
    <3>1. CASE deps'[ft] = deps[ft]
      BY <1>0, <1>1, <3>1, ListingStays
    <3>2. CASE deps'[ft] # deps[ft]
      <4>1. PICK f \in Fetcher : Commit(f) /\ fetchType[f] = ft /\ deps'[ft] = Members(cpes[f])
        BY <1>1, <3>2, RecordStep
      <4>2. pc[f] = "clean" /\ store' = store
        BY <4>1 DEF Commit
      <4>3. Members(cpes[f]) \ Foreign(ft) \subseteq store
        BY <4>1, <4>2, CleaningRun
      <4> QED  BY <4>1, <4>2, <4>3 DEF ListedThroughout
    <3> QED  BY <3>1, <3>2
  <2>2. ASSUME NEW r \in Request PROVE Seen(r)'
    <3>1. UNCHANGED <<kind, inUse, outdated, step, recorded>>
      BY <1>1 DEF queryVars
    <3>2. \A ft \in FetchType : \A v \in VendorProduct :
            ListedThroughout(ft, v) /\ DeprecatedProduct(v) \in store =>
              DeprecatedProduct(v) \in store'
      BY <1>1, OnceListedNotDeleted DEF ListedThroughout
    <3> QED  BY <1>0, <3>1, <3>2
  <2> QED  BY <2>1, <2>2 DEF ProductsShown
<1>2. ASSUME NEW r \in Request, QueryStep(r), UNCHANGED vars PROVE ProductsShown'
  <2>0. UNCHANGED <<store, deps>>
    BY <1>2 DEF vars, redisVars
  <2>1. CASE ReadProducts(r)
    <3>1. /\ recorded'[r] = UNION {deps[ft] : ft \in FetchType}
          /\ inUse'[r] = Products /\ step'[r] = "reading"
      BY <2>1 DEF ReadProducts, Begin, QueryTypeOK
    <3>2. ASSUME NEW ft \in FetchType, NEW v \in VendorProduct, ListedThroughout(ft, v),
                 Listing(v) \cap recorded'[r] # {}
          PROVE  v \in inUse'[r] \/ DeprecatedProduct(v) \in store
      <4>1. Listing(v) \cap deps[ft] # {}
        BY <3>1, <3>2, RecordedForOwn DEF ListedThroughout
      <4>2. ProductMember(v) \in store \/ DeprecatedProduct(v) \in store
        BY <1>0, <3>2, <4>1 DEF Listing
      <4> QED  BY <3>1, <4>2 DEF Products
    <3>3. Seen(r)'
      BY <2>0, <3>1, <3>2
    <3> QED  BY <1>0, <1>2, <2>0, <3>3, OneRequest DEF ProductsShown
  <2>2. CASE ReadDeprecatedProducts(r)
    <3>1. /\ outdated'[r] = DeprecatedProducts /\ inUse'[r] = inUse[r]
          /\ recorded'[r] = recorded[r] /\ kind'[r] = kind[r] /\ kind[r] = "products"
      BY <2>2 DEF ReadDeprecatedProducts, Answer, QueryTypeOK
    <3>2. step[r] = "reading" /\ step'[r] = "answered"
      BY <2>2 DEF ReadDeprecatedProducts, Answer, QueryTypeOK
    <3>3. Seen(r)'
      BY <1>0, <2>0, <3>1, <3>2 DEF DeprecatedProducts
    <3> QED  BY <1>0, <1>2, <2>0, <3>3, OneRequest DEF ProductsShown
  <2>3. CASE ~ReadProducts(r) /\ ~ReadDeprecatedProducts(r)
    <3>1. kind'[r] # "products"
      BY <1>2, <2>3 DEF QueryStep, ReadCpes, ClassifyCpe, ReadTitles, ReadTitleCpes,
                        AllLookedUp, Return, Begin, Answer, QueryTypeOK
    <3> QED  BY <1>0, <1>2, <2>0, <3>1, OneRequest DEF ProductsShown
  <2> QED  BY <2>1, <2>2, <2>3
<1> QED  BY <1>1, <1>2, QueryStepCases

(***************************************************************************)
(* Deprecated CPEs                                                         *)
(***************************************************************************)

\* A CPE that is deprecated for good joins a product only by commands that mark it first.
LEMMA MarkedFirstInPipe ==
  ASSUME NEW ft \in FetchType, NEW g \in FetchType, NEW cs \in Feeds(g), NEW d \in cs,
         NEW c, NEW v, AlwaysDeprecated(ft, c),
         VPMember(v, c) \in Elements(AddCommands(d))
  PROVE  DeprecatedMember(c) = Head(AddCommands(d))
<1>1. d.cpeURI = c
  BY DEF AddCommands, Elements, VPMember, ProductMember, DeprecatedProduct,
         DeprecatedMember, TitleMember
<1>2. cs \in AllFeeds
  BY DEF AllFeeds
<1>3. d.deprecated
  BY <1>1, <1>2 DEF AlwaysDeprecated
<1> QED  BY <1>1, <1>3 DEF AddCommands

LEMMA MarkedFirstInductive ==
  ASSUME OverlapSameType = FALSE
  PROVE  /\ TypeOK /\ InsertInv /\ FeedsInOrder /\ QueryTypeOK /\ IdleRequestsEmpty
         /\ MarkedFirst /\ [QueryNext]_allVars
         => MarkedFirst'
<1> SUFFICES ASSUME TypeOK, InsertInv, FeedsInOrder, QueryTypeOK, IdleRequestsEmpty,
                    MarkedFirst, [QueryNext]_allVars,
                    NEW ft \in FetchType, NEW c \in CpeURI, AlwaysDeprecated(ft, c)
             PROVE  /\ \A v \in VendorProduct :
                         VPMember(v, c) \in store' => DeprecatedMember(c) \in store'
                    /\ \A f \in Fetcher : \A v \in VendorProduct :
                         VPMember(v, c) \in Elements(pipe'[f]) =>
                           \/ DeprecatedMember(c) = Head(pipe'[f])
                           \/ DeprecatedMember(c) \in store'
                    /\ \A r \in Request : kind'[r] = "cpes" =>
                         /\ c \in pending'[r] => DeprecatedMember(c) \in store'
                         /\ c \notin inUse'[r]
  BY DEF MarkedFirst
<1> DEFINE Added == \A v \in VendorProduct :
                      VPMember(v, c) \in store => DeprecatedMember(c) \in store
           Queued(f) == \A v \in VendorProduct :
                          VPMember(v, c) \in Elements(pipe[f]) =>
                            \/ DeprecatedMember(c) = Head(pipe[f])
                            \/ DeprecatedMember(c) \in store
           Asked(r) == kind[r] = "cpes" =>
                         /\ c \in pending[r] => DeprecatedMember(c) \in store
                         /\ c \notin inUse[r]
<1>0. /\ Added /\ \A f \in Fetcher : Queued(f)
      /\ \A r \in Request : Asked(r)
  BY DEF MarkedFirst
<1>1. ASSUME [Next]_vars, UNCHANGED queryVars
      PROVE  Added' /\ (\A f \in Fetcher : Queued(f)') /\ (\A r \in Request : Asked(r)')
  <2>0. DeprecatedMember(c) \in store => DeprecatedMember(c) \in store'
    BY <1>1, OnceListedNotDeleted DEF AlwaysDeprecated
  <2>1. \A r \in Request : Asked(r)'
    BY <1>0, <1>1, <2>0 DEF queryVars
  <2>2. CASE \E f \in Fetcher : ExecAdd(f)
    <3>1. PICK f \in Fetcher : ExecAdd(f)
      BY <2>2
    <3>2. pipe[f] \in Seq(Member) /\ pipe[f] # <<>>
      BY <3>1 DEF ExecAdd, TypeOK
    <3>3. /\ store' = store \cup {Head(pipe[f])}
          /\ pipe' = [pipe EXCEPT ![f] = Tail(pipe[f])]
          /\ Elements(pipe[f]) = {Head(pipe[f])} \cup Elements(Tail(pipe[f]))
      BY <3>1, <3>2, ElementsHeadTail DEF ExecAdd
    <3>4. \A v : VPMember(v, c) # DeprecatedMember(c)
      BY DEF VPMember, DeprecatedMember
    <3>5. Added'
      BY <1>0, <3>3, <3>4
    <3>6. Queued(f)'
      BY <1>0, <3>3 DEF TypeOK
    <3>7. \A g \in Fetcher : g # f => Queued(g)'
      BY <1>0, <2>0, <3>3 DEF TypeOK
    <3> QED  BY <2>1, <3>5, <3>6, <3>7
  <2>3. CASE \E f \in Fetcher : QueueCpe(f)
    <3>1. PICK f \in Fetcher : QueueCpe(f)
      BY <2>3
    <3>2. PICK d \in todo[f] : pipe' = [pipe EXCEPT ![f] = AddCommands(d)]
      BY <3>1 DEF QueueCpe, NextToQueue
    <3>3. store' = store
      BY <3>1 DEF QueueCpe, redisVars
    <3>4. d \in cpes[f] /\ cpes[f] \in Feeds(fetchType[f]) /\ fetchType[f] \in FetchType
      BY <3>1 DEF QueueCpe, InsertInv, RunsAccounted, Running, RunningStates, TypeOK
    <3>5. pipe'[f] = AddCommands(d)
      BY <3>2 DEF TypeOK
    <3>6. Queued(f)'
      BY <3>4, <3>5, MarkedFirstInPipe
    <3>7. \A g \in Fetcher : g # f => Queued(g)'
      BY <1>0, <3>2, <3>3 DEF TypeOK
    <3> QED  BY <1>0, <2>1, <3>3, <3>6, <3>7
  <2>4. CASE ~(\E f \in Fetcher : ExecAdd(f) \/ QueueCpe(f))
    <3>1. /\ store' \subseteq store
          /\ \A f \in Fetcher : pipe'[f] \in {pipe[f], <<>>}
      BY <1>1, <2>4 DEF Next, vars, redisVars, runVars, Publish, InsertStep, Start, ReadOwnDeps,
         ReadOtherDeps, BeginAdding, SetTitles, ExecRemove, Commit, Abort, ForgetRun, TypeOK
    <3>2. Added'
      BY <1>0, <2>0, <3>1
    <3>3. \A f \in Fetcher : Queued(f)'
      BY <1>0, <2>0, <3>1, EmptyElements
    <3> QED  BY <2>1, <3>2, <3>3
  <2> QED  BY <2>2, <2>3, <2>4
<1>2. ASSUME NEW r \in Request, QueryStep(r), UNCHANGED vars
      PROVE  Added' /\ (\A f \in Fetcher : Queued(f)') /\ (\A q \in Request : Asked(q)')
  <2>0. UNCHANGED <<store, pipe>>
    BY <1>2 DEF vars, redisVars, runVars
  <2>1. ASSUME NEW v \in VendorProduct, ReadCpes(r, v) PROVE Asked(r)'
    <3>1. pending'[r] = CpesOfProduct(v) /\ inUse'[r] = {}
      BY <2>1 DEF ReadCpes, Begin, QueryTypeOK, IdleRequestsEmpty
    <3> QED  BY <1>0, <2>0, <3>1 DEF CpesOfProduct
  <2>2. ASSUME ClassifyCpe(r) PROVE Asked(r)'
    <3>1. PICK d \in pending[r] :
            /\ pending'[r] = pending[r] \ {d} /\ kind[r] = "cpes"
            /\ \/ IsDeprecated(d) /\ inUse'[r] = inUse[r]
               \/ ~IsDeprecated(d) /\ inUse'[r] = inUse[r] \cup {d}
      BY <2>2 DEF ClassifyCpe, QueryTypeOK
    <3> QED  BY <1>0, <2>0, <3>1 DEF IsDeprecated
  <2>3. ASSUME AllLookedUp(r) PROVE Asked(r)'
    BY <1>0, <2>0, <2>3 DEF AllLookedUp, Answer
  <2>4. ASSUME \/ ReadProducts(r) \/ ReadDeprecatedProducts(r) \/ ReadTitles(r)
               \/ ReadTitleCpes(r) \/ Return(r)
        PROVE  Asked(r)'
    <3>1. kind'[r] # "cpes"
      BY <2>4 DEF ReadProducts, ReadDeprecatedProducts, ReadTitles, ReadTitleCpes, Return,
                  Begin, Answer, QueryTypeOK
    <3> QED  BY <3>1
  <2>5. Asked(r)'
    BY <1>2, <2>1, <2>2, <2>3, <2>4 DEF QueryStep
  <2>6. \A q \in Request : q # r => Asked(q)'
    BY <1>0, <1>2, <2>0, OneRequest
  <2> QED  BY <1>0, <2>0, <2>5, <2>6
<1> QED  BY <1>1, <1>2, QueryStepCases

LEMMA ReadersInvariant ==
  ASSUME OverlapSameType = FALSE
  PROVE  QuerySpec => [](ProductsShown /\ MarkedFirst)
<1>1. QueryInit => FeedsInOrder /\ IdleRequestsEmpty /\ ProductsShown /\ MarkedFirst
  BY EmptyElements DEF QueryInit, Init, FeedsInOrder, Running, RunningStates,
     IdleRequestsEmpty, ProductsShown, MarkedFirst
<1>2. TypeOK /\ InsertInv /\ FeedsInOrder /\ [QueryNext]_allVars => FeedsInOrder'
  <2>1. ASSUME FeedsInOrder, UNCHANGED vars PROVE FeedsInOrder'
    BY <2>1 DEF FeedsInOrder, Running, vars, upstreamVars, redisVars, runVars
  <2> QED  BY <2>1, QueryStepCases, FeedsInOrderInductive
<1> QED
  BY <1>1, <1>2, IdleInductive, ProductsShownInductive, MarkedFirstInductive,
     QueryTypeCorrect, QuerySpecHasInsertInv, PTL DEF QuerySpec

\* StableProductAnswered: GetVendorProducts answers, in use or deprecated, each product that
\* all feeds of its type list, though a fetch moves it from one set to the other between
\* the two reads, and is cut off half-way.
THEOREM StableProductsAreAnswered ==
  ASSUME OverlapSameType = FALSE
  PROVE  QuerySpec => []StableProductAnswered
<1>1. ProductsShown => StableProductAnswered
  BY DEF ProductsShown, StableProductAnswered
<1> QED  BY <1>1, ReadersInvariant, PTL

\* DeprecatedNeverInUse: GetCpesByVendorProduct answers no CPE as in use that its type lists
\* as deprecated for good, wherever the lookups fall between the commands of a fetch.
THEOREM DeprecatedIsNeverInUse ==
  ASSUME OverlapSameType = FALSE
  PROVE  QuerySpec => []DeprecatedNeverInUse
<1>1. MarkedFirst /\ QueryTypeOK => DeprecatedNeverInUse
  <2> SUFFICES ASSUME MarkedFirst, QueryTypeOK, NEW r \in Request, kind[r] = "cpes",
                      NEW ft \in FetchType, NEW c \in inUse[r], AlwaysDeprecated(ft, c)
               PROVE  FALSE
    BY DEF DeprecatedNeverInUse
  <2> QED  BY DEF MarkedFirst, QueryTypeOK
<1> QED  BY <1>1, ReadersInvariant, QueryTypeCorrect, PTL
=============================================================================
