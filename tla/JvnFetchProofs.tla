---------------------------- MODULE JvnFetchProofs -----------------------------
(***************************************************************************)
(* Theorems about JvnFetch, for any number of workers, any URLs and any    *)
(* feeds: what the caller may conclude from counting messages.             *)
(***************************************************************************)
EXTENDS JvnFetch, FiniteSetTheorems, WellFoundedInduction, TLAPS

-----------------------------------------------------------------------------
(***************************************************************************)
(* The inductive invariant                                                 *)
(***************************************************************************)

Busy == {w \in Thread : state[w] # "idle"}
Working == {w \in Thread : state[w] \in {"download", "feed", "error"}}

Messages == Len(resChan) + Len(errChan) + Taken

\* The first URLs, those that workers have received.
Received == fed - Len(reqChan)

\* Every task that was handed out is with a worker or has ended in one message.
TasksCounted == IsFiniteSet(Busy) /\ submitted = Cardinality(Busy) + Messages

\* The URLs wait in their order, and those that wait have not been tried.
InOrder ==
  /\ Len(reqChan) <= fed
  /\ \A i \in 1..Len(reqChan) : reqChan[i] = Urls[Received + i]
  /\ \A i \in (Received + 1)..Count : failures[Urls[i]] = 0

\* No two workers have the same URL, so that its failures are those of one download.
Owned ==
  \A w \in Working : url[w] \in Url =>
    /\ \E i \in 1..Received : url[w] = Urls[i]
    /\ \A x \in Working : url[x] = url[w] => x = w
    /\ state[w] = "download" => failures[url[w]] = tries[w]

\* How a fetch ends, and what holds from then on.
Ending ==
  /\ open <=> outcome = "none"
  /\ outcome \in {"feed", "error"} => Taken = Count
  /\ outcome = "feed" => errs = 0 /\ fetched = Merged
  /\ outcome = "error" => errs > 0

\* Until a timeout, a URL that was fed waits, is with a worker, or has ended in one message.
UrlsCounted ==
  outcome # "timeout" =>
    /\ \A w \in Working : url[w] \in Url
    /\ IsFiniteSet(Working)
    /\ fed = Len(reqChan) + Cardinality(Working) + Messages
    /\ \A i \in 1..Received : \/ \E w \in Working : url[w] = Urls[i]
                              \/ Urls[i] \in ToSet(resChan) \cup ToSet(errChan) \cup ToSet(rdfs)
                              \/ errs > 0

Caused(u) == failures[u] = RetryMax \/ u \in lost

\* Every error is that of a URL that was given up.
ErrorsCaused ==
  /\ \A w \in Thread : state[w] = "error" /\ url[w] \in Url => Caused(url[w])
  /\ \A u \in ToSet(errChan) : Caused(u)
  /\ errs > 0 => \E u \in Url : Caused(u)

Inv ==
  /\ JvnTypeOK /\ TasksCounted /\ InOrder /\ Owned /\ Ending /\ UrlsCounted /\ ErrorsCaused
  /\ PanicOnlyAfterTimeout

-----------------------------------------------------------------------------
(***************************************************************************)
(* Lemmas on the data                                                      *)
(***************************************************************************)

LEMMA Appended ==
  ASSUME NEW S, NEW q \in Seq(S), NEW e \in S
  PROVE  /\ Append(q, e) \in Seq(S) /\ Len(q) \in Nat /\ Len(Append(q, e)) = Len(q) + 1
         /\ \A i \in 1..Len(q) : Append(q, e)[i] = q[i]
         /\ Append(q, e)[Len(q) + 1] = e
         /\ ToSet(Append(q, e)) = ToSet(q) \cup {e}
BY DEF ToSet

LEMMA Taking ==
  ASSUME NEW S, NEW q \in Seq(S), q # <<>>
  PROVE  /\ Tail(q) \in Seq(S) /\ Head(q) \in S /\ Head(q) = q[1]
         /\ Len(q) \in Nat /\ Len(q) > 0 /\ Len(Tail(q)) = Len(q) - 1
         /\ \A i \in 1..Len(Tail(q)) : Tail(q)[i] = q[i + 1]
         /\ ToSet(q) = ToSet(Tail(q)) \cup {Head(q)}
<1>1. /\ Tail(q) \in Seq(S) /\ Head(q) \in S /\ Head(q) = q[1]
      /\ Len(q) \in Nat /\ Len(q) > 0 /\ Len(Tail(q)) = Len(q) - 1
      /\ \A i \in 1..Len(Tail(q)) : Tail(q)[i] = q[i + 1]
  OBVIOUS
<1>2. ASSUME NEW i \in 1..Len(q), i # 1
      PROVE  i - 1 \in 1..Len(Tail(q)) /\ q[i] = Tail(q)[i - 1]
  BY <1>1, <1>2
<1>3. ToSet(q) = {q[i] : i \in 1..Len(q)}
      /\ ToSet(Tail(q)) = {Tail(q)[i] : i \in 1..Len(Tail(q))}
  <2>1. DOMAIN q = 1..Len(q) /\ DOMAIN Tail(q) = 1..Len(Tail(q))
    BY <1>1
  <2> QED
    BY ONLY <2>1 DEF ToSet
<1>4. \A e \in ToSet(q) : e \in ToSet(Tail(q)) \cup {Head(q)}
  <2> SUFFICES ASSUME NEW i \in 1..Len(q) PROVE q[i] \in ToSet(Tail(q)) \cup {Head(q)}
    BY <1>3
  <2>1. CASE i = 1
    BY <1>1, <2>1
  <2>2. CASE i # 1
    BY <1>2, <1>3, <2>2
  <2> QED
    BY <2>1, <2>2
<1>5. \A e \in ToSet(Tail(q)) \cup {Head(q)} : e \in ToSet(q)
  <2>1. \A i \in 1..Len(Tail(q)) : i + 1 \in 1..Len(q)
    BY <1>1
  <2> QED
    BY <1>1, <1>3, <2>1
<1> QED
  BY <1>1, <1>4, <1>5

LEMMA UrlOf ==
  /\ Count \in Nat /\ Urls \in Seq(Url) /\ RetryMax \in Nat \ {0} /\ NoUrl \notin Url
  /\ \A i \in 1..Count : Urls[i] \in Url
  /\ \A i, j \in 1..Count : Urls[i] = Urls[j] => i = j
  /\ \A u \in Url : \E i \in 1..Count : u = Urls[i]
BY JvnAssumption DEF Count, Url, ToSet, IsInjective

\* What the types say about the numbers.
LEMMA Sizes ==
  ASSUME JvnTypeOK
  PROVE  /\ Len(reqChan) \in Nat /\ Len(resChan) \in Nat /\ Len(errChan) \in Nat
         /\ Len(rdfs) \in Nat /\ errs \in Nat /\ fed \in Nat /\ submitted \in Nat
         /\ Taken \in Nat /\ Messages \in Nat /\ Count \in Nat
         /\ fed <= Count /\ submitted <= Count
BY UrlOf DEF JvnTypeOK, Taken, Messages

LEMMA OneMore ==
  ASSUME NEW S, IsFiniteSet(S), NEW x, x \notin S
  PROVE  /\ IsFiniteSet(S \cup {x}) /\ Cardinality(S) \in Nat
         /\ Cardinality(S \cup {x}) = Cardinality(S) + 1
BY FS_AddElement, FS_CardinalityType

LEMMA OneLess ==
  ASSUME NEW S, IsFiniteSet(S), NEW x \in S
  PROVE  /\ IsFiniteSet(S \ {x}) /\ Cardinality(S) \in Nat /\ Cardinality(S \ {x}) \in Nat
         /\ Cardinality(S \ {x}) = Cardinality(S) - 1
BY FS_RemoveElement, FS_CardinalityType

\* When every message is taken no worker is busy, nothing waits, and all URLs were fed.
LEMMA AllTaken ==
  ASSUME Inv, Taken = Count
  PROVE  /\ Busy = {}
         /\ outcome # "timeout" =>
              /\ fed = Count /\ Working = {}
              /\ Len(reqChan) = 0 /\ Len(resChan) = 0 /\ Len(errChan) = 0
<1>1. /\ Len(reqChan) \in Nat /\ Len(resChan) \in Nat /\ Len(errChan) \in Nat
      /\ submitted \in Nat /\ submitted <= Count /\ fed \in Nat /\ fed <= Count /\ Count \in Nat
      /\ Messages = Len(resChan) + Len(errChan) + Count
  BY Sizes DEF Inv, Messages
<1>2. IsFiniteSet(Busy) /\ Cardinality(Busy) \in Nat
      /\ submitted = Cardinality(Busy) + Messages
  BY FS_CardinalityType DEF Inv, TasksCounted
<1>3. Cardinality(Busy) = 0
  BY <1>1, <1>2
<1>4. Busy = {}
  BY <1>2, <1>3, FS_EmptySet
<1>5. ASSUME outcome # "timeout"
      PROVE  /\ fed = Count /\ Working = {}
             /\ Len(reqChan) = 0 /\ Len(resChan) = 0 /\ Len(errChan) = 0
  <2>1. IsFiniteSet(Working) /\ Cardinality(Working) \in Nat
        /\ fed = Len(reqChan) + Cardinality(Working) + Messages
    BY <1>5, FS_CardinalityType DEF Inv, UrlsCounted
  <2>2. /\ fed = Count /\ Cardinality(Working) = 0
        /\ Len(reqChan) = 0 /\ Len(resChan) = 0 /\ Len(errChan) = 0
    BY <1>1, <2>1
  <2> QED
    BY <2>1, <2>2, FS_EmptySet
<1> QED
  BY <1>4, <1>5

-----------------------------------------------------------------------------
(***************************************************************************)
(* Every step keeps the invariant                                          *)
(***************************************************************************)

LEMMA InitInv == Init => Inv
<1> SUFFICES ASSUME Init PROVE Inv
  OBVIOUS
<1>1. Busy = {} /\ Working = {}
  BY DEF Init, Busy, Working
<1>2. /\ \A S : <<>> \in Seq(S)
      /\ Len(reqChan) = 0 /\ Len(resChan) = 0 /\ Len(errChan) = 0 /\ Len(rdfs) = 0
      /\ Taken = 0 /\ Messages = 0 /\ Received = 0
  <2>1. \A S : <<>> \in Seq(S)
    OBVIOUS
  <2>2. Len(reqChan) = 0 /\ Len(resChan) = 0 /\ Len(errChan) = 0 /\ Len(rdfs) = 0
    BY DEF Init
  <2>3. fed = 0 /\ errs = 0
    BY DEF Init
  <2>4. Taken = 0
    BY ONLY <2>2, <2>3 DEF Taken
  <2>5. Messages = 0 /\ Received = 0
    BY ONLY <2>2, <2>3, <2>4 DEF Messages, Received
  <2> QED
    BY <2>1, <2>2, <2>4, <2>5
<1>3. JvnTypeOK
  <2>1. /\ fed \in 0..Count /\ submitted \in 0..Count /\ errs \in 0..Count
        /\ Len(reqChan) <= Count /\ Len(resChan) + Len(errChan) + Taken <= Count
    BY <1>2, UrlOf DEF Init
  <2>2. reqChan \in Seq(Url) /\ resChan \in Seq(Url) /\ rdfs \in Seq(Url) /\ errChan \in Seq(Url)
    BY <1>2 DEF Init
  <2>3. /\ open \in BOOLEAN /\ panicked \in BOOLEAN
        /\ outcome \in {"none", "feed", "error", "timeout"}
    BY DEF Init
  <2>4. 0 \in 0..RetryMax
    BY UrlOf
  <2>5. /\ state \in [Thread -> {"idle", "task", "download", "feed", "error"}]
        /\ url \in [Thread -> Url \cup {NoUrl}]
        /\ tries \in [Thread -> 0..RetryMax]
        /\ failures \in [Url -> 0..RetryMax] /\ lost \subseteq Url /\ notRdf \subseteq Url
    BY <2>4 DEF Init
  <2> QED
    BY <2>1, <2>2, <2>3, <2>5 DEF JvnTypeOK
<1>4. InOrder /\ PanicOnlyAfterTimeout
  BY <1>2, UrlOf DEF Init, InOrder, PanicOnlyAfterTimeout
<1>5. Owned /\ Ending /\ ErrorsCaused
  BY <1>1 DEF Init, Owned, Ending, ErrorsCaused, ToSet
<1>6. TasksCounted /\ UrlsCounted
  BY <1>1, <1>2, FS_EmptySet DEF Init, TasksCounted, UrlsCounted
<1> QED
  BY <1>3, <1>4, <1>5, <1>6 DEF Inv

LEMMA FeederKeepsInv ==
  ASSUME Inv, Feeder
  PROVE  Inv'
<1>1. /\ reqChan' \in Seq(Url) /\ Len(reqChan') = Len(reqChan) + 1 /\ Len(reqChan) \in Nat
      /\ \A i \in 1..Len(reqChan) : reqChan'[i] = reqChan[i]
      /\ reqChan'[Len(reqChan) + 1] = Urls[fed + 1]
  <2>1. fed + 1 \in 1..Count
    BY UrlOf DEF Inv, JvnTypeOK, Feeder
  <2>2. /\ reqChan \in Seq(Url) /\ Urls[fed + 1] \in Url
        /\ reqChan' = Append(reqChan, Urls[fed + 1])
    BY <2>1, UrlOf DEF Inv, JvnTypeOK, Feeder
  <2> QED
    BY <2>2, Appended
<1>2. Busy' = Busy /\ Working' = Working /\ Messages' = Messages /\ Taken' = Taken
  BY DEF Feeder, Busy, Working, Messages, Taken, workerVars, callerVars
<1>0. Received' = Received /\ fed \in Nat /\ fed' = fed + 1
  BY <1>1, Sizes DEF Feeder, Received, Inv
<1>3. JvnTypeOK'
  <2>1. fed' \in 0..Count /\ Len(reqChan') <= Count
    BY <1>1, <1>0, UrlOf DEF Inv, InOrder, Feeder
  <2> QED
    BY <1>1, <1>2, <2>1 DEF Inv, JvnTypeOK, Feeder, workerVars, callerVars
<1>4. InOrder'
  <2>1. Received + (Len(reqChan) + 1) = fed + 1
    BY <1>0, <1>1 DEF Received
  <2>2. \A i \in 1..Len(reqChan') : i \in 1..Len(reqChan) \/ i = Len(reqChan) + 1
    BY <1>1
  <2>3. \A i \in 1..Len(reqChan') : reqChan'[i] = Urls[Received + i]
    BY <1>1, <2>1, <2>2 DEF Inv, InOrder
  <2> QED
    BY <1>1, <1>0, <2>3 DEF Inv, InOrder, Feeder, workerVars
<1>5. Owned' /\ ErrorsCaused'
  BY <1>0, <1>2 DEF Inv, Owned, ErrorsCaused, Caused, Feeder, workerVars, callerVars
<1>6. Ending' /\ PanicOnlyAfterTimeout'
  BY DEF Inv, Ending, PanicOnlyAfterTimeout, Feeder, callerVars, workerVars, Taken, Merged,
     Listings, Overwritten, Listing, Rdf
<1>7. TasksCounted'
  BY <1>2 DEF Inv, TasksCounted, Feeder, callerVars
<1>8. UrlsCounted'
  <2>1. SUFFICES ASSUME outcome # "timeout" PROVE UrlsCounted'
    BY DEF UrlsCounted, Feeder, callerVars
  <2>2. IsFiniteSet(Working) /\ Cardinality(Working) \in Nat
    BY <2>1, FS_CardinalityType DEF Inv, UrlsCounted
  <2>3. fed' = Len(reqChan') + Cardinality(Working) + Messages
    <3>1. fed = Len(reqChan) + Cardinality(Working) + Messages /\ Messages \in Nat
      BY <2>1, Sizes DEF Inv, UrlsCounted
    <3> QED
      BY <1>1, <1>0, <2>2, <3>1
  <2> QED
    BY <1>0, <1>2, <2>1, <2>2, <2>3 DEF Inv, UrlsCounted, Feeder, callerVars, workerVars
<1> QED
  BY <1>3, <1>4, <1>5, <1>6, <1>7, <1>8 DEF Inv

LEMMA SubmitKeepsInv ==
  ASSUME Inv, NEW w \in Thread, Submit(w)
  PROVE  Inv'
<1>1. /\ state' = [state EXCEPT ![w] = "task"] /\ submitted' = submitted + 1
      /\ state \in [Thread -> {"idle", "task", "download", "feed", "error"}]
      /\ state[w] = "idle"
  BY DEF Inv, JvnTypeOK, Submit
<1>2. Busy' = Busy \cup {w} /\ w \notin Busy /\ Working' = Working
  BY <1>1 DEF Busy, Working
<1>3. Messages' = Messages /\ Received' = Received /\ Taken' = Taken
  BY DEF Submit, channelVars, Messages, Received, Taken
<1>4. JvnTypeOK'
  <2>1. submitted' \in 0..Count
    BY <1>1, UrlOf DEF Inv, JvnTypeOK, Submit
  <2> QED
    BY <1>1, <1>3, <2>1 DEF Inv, JvnTypeOK, Submit, channelVars
<1>5. TasksCounted'
  <2>1. IsFiniteSet(Busy') /\ Cardinality(Busy') = Cardinality(Busy) + 1
        /\ Cardinality(Busy) \in Nat
    BY <1>2, OneMore DEF Inv, TasksCounted
  <2> QED
    BY <1>1, <1>3, <2>1, Sizes DEF Inv, TasksCounted
<1>6. InOrder' /\ Ending' /\ PanicOnlyAfterTimeout'
  <2>1. Merged' = Merged
    BY DEF Submit, Merged, Listings, Overwritten, Listing, Rdf
  <2>2. UNCHANGED <<fed, reqChan, rdfs, errs, outcome, fetched, open, failures, panicked>>
    BY DEF Submit, channelVars
  <2> QED
    BY <1>1, <1>3, <2>1, <2>2 DEF Inv, InOrder, Ending, PanicOnlyAfterTimeout
<1>7. Owned' /\ ErrorsCaused'
  <2>1. \A x \in Thread : state'[x] \in {"download", "error"} => state'[x] = state[x]
    BY <1>1
  <2> QED
    BY <1>2, <1>3, <2>1 DEF Inv, Owned, ErrorsCaused, Caused, Submit, channelVars, Working
<1>8. UrlsCounted'
  BY <1>2, <1>3 DEF Inv, UrlsCounted, Submit, channelVars
<1> QED
  BY <1>4, <1>5, <1>6, <1>7, <1>8 DEF Inv

LEMMA TakeFeedKeepsInv ==
  ASSUME Inv, TakeFeed
  PROVE  Inv'
<1>1. resChan \in Seq(Url) /\ resChan # <<>> /\ rdfs \in Seq(Url)
  BY DEF Inv, JvnTypeOK, TakeFeed
<1>2. /\ resChan' \in Seq(Url) /\ Head(resChan) \in Url /\ Len(resChan') = Len(resChan) - 1
      /\ Len(resChan) \in Nat /\ Len(resChan) > 0
      /\ ToSet(resChan) = ToSet(resChan') \cup {Head(resChan)}
  BY <1>1, Taking DEF TakeFeed
<1>3. /\ rdfs' \in Seq(Url) /\ Len(rdfs') = Len(rdfs) + 1
      /\ ToSet(rdfs') = ToSet(rdfs) \cup {Head(resChan)}
  BY <1>1, <1>2, Appended DEF TakeFeed
<1>4. Busy' = Busy /\ Working' = Working /\ Received' = Received
  BY DEF TakeFeed, workerVars, Busy, Working, Received
<1>5. Messages' = Messages /\ Taken' = Taken + 1
  <2>1. Len(errChan) \in Nat /\ Len(rdfs) \in Nat /\ errs \in Nat /\ Taken \in Nat
    BY Sizes DEF Inv
  <2>2. errChan' = errChan /\ errs' = errs
    BY DEF TakeFeed
  <2>3. Taken' = Taken + 1
    BY <1>3, <2>1, <2>2 DEF Taken
  <2> QED
    BY <1>2, <2>1, <2>2, <2>3 DEF Messages
<1>6. JvnTypeOK'
  <2>1. Len(resChan') + Len(errChan') + Taken' <= Count
    BY <1>5 DEF Messages, Inv, JvnTypeOK
  <2> QED
    BY <1>2, <1>3, <2>1 DEF Inv, JvnTypeOK, TakeFeed, workerVars
<1>7. TasksCounted'
  BY <1>4, <1>5 DEF Inv, TasksCounted, TakeFeed
<1>8. InOrder' /\ Owned' /\ ErrorsCaused'
  BY <1>4 DEF Inv, InOrder, Owned, ErrorsCaused, Caused, TakeFeed, workerVars
<1>9. Ending' /\ PanicOnlyAfterTimeout'
  BY DEF Inv, Ending, PanicOnlyAfterTimeout, TakeFeed, Selecting
<1>10. UrlsCounted'
  BY <1>2, <1>3, <1>4, <1>5 DEF Inv, UrlsCounted, TakeFeed, workerVars
<1> QED
  BY <1>6, <1>7, <1>8, <1>9, <1>10 DEF Inv

\* The error that is counted is behind some URL that has its cause.
LEMMA TakeErrorKeepsInv ==
  ASSUME Inv, TakeError
  PROVE  Inv'
<1>1. errChan \in Seq(Url) /\ errChan # <<>>
  BY DEF Inv, JvnTypeOK, TakeError
<1>2. /\ errChan' \in Seq(Url) /\ Head(errChan) \in Url /\ Len(errChan') = Len(errChan) - 1
      /\ Len(errChan) \in Nat /\ Len(errChan) > 0
      /\ ToSet(errChan) = ToSet(errChan') \cup {Head(errChan)}
  BY <1>1, Taking DEF TakeError
<1>3. errs' = errs + 1 /\ errs \in Nat
  BY Sizes DEF TakeError, Inv
<1>4. Busy' = Busy /\ Working' = Working /\ Received' = Received
  BY DEF TakeError, workerVars, Busy, Working, Received
<1>5. Messages' = Messages /\ Taken' = Taken + 1
  BY <1>2, <1>3, Sizes DEF TakeError, Messages, Taken, Inv
<1>6. JvnTypeOK'
  <2>1. Len(resChan') + Len(errChan') + Taken' <= Count
    BY <1>5 DEF Messages, Inv, JvnTypeOK
  <2>2. errs' \in 0..Count
    BY <1>3, Sizes DEF Inv, Taken, TakeError, Selecting
  <2> QED
    BY <1>2, <2>1, <2>2 DEF Inv, JvnTypeOK, TakeError, workerVars
<1>7. TasksCounted'
  BY <1>4, <1>5 DEF Inv, TasksCounted, TakeError
<1>8. InOrder' /\ Owned'
  BY <1>4 DEF Inv, InOrder, Owned, TakeError, workerVars
<1>9. ErrorsCaused'
  BY <1>2 DEF Inv, ErrorsCaused, Caused, TakeError, workerVars
<1>10. Ending' /\ PanicOnlyAfterTimeout'
  BY DEF Inv, Ending, PanicOnlyAfterTimeout, TakeError, Selecting
<1>11. UrlsCounted'
  BY <1>3, <1>4, <1>5 DEF Inv, UrlsCounted, TakeError, workerVars
<1> QED
  BY <1>6, <1>7, <1>8, <1>9, <1>10, <1>11 DEF Inv

\* To close the channels is no message.
LEMMA CloseKeepsInv ==
  ASSUME Inv, open, NEW o \in {"feed", "error", "timeout"}, NEW cpes, Close(o, cpes),
         o # "timeout" => Taken = Count,
         o = "feed" => errs = 0 /\ cpes = Merged,
         o = "error" => errs > 0
  PROVE  Inv'
<1>1. /\ Busy' = Busy /\ Working' = Working /\ Messages' = Messages /\ Received' = Received
      /\ Taken' = Taken /\ Merged' = Merged
  BY DEF Close, channelVars, workerVars, Busy, Working, Messages, Received, Taken, Merged,
     Listings, Overwritten, Listing, Rdf
<1>2. JvnTypeOK'
  BY <1>1 DEF Inv, JvnTypeOK, Close, channelVars, workerVars
<1>3. TasksCounted' /\ InOrder' /\ Owned' /\ ErrorsCaused'
  BY <1>1 DEF Inv, TasksCounted, InOrder, Owned, ErrorsCaused, Caused, Close, channelVars,
     workerVars
<1>4. Ending'
  BY <1>1 DEF Inv, Ending, Close
<1>5. UrlsCounted'
  BY <1>1 DEF Inv, UrlsCounted, Ending, Close, channelVars, workerVars
<1>6. PanicOnlyAfterTimeout'
  BY DEF Inv, PanicOnlyAfterTimeout, Ending, Close
<1> QED
  BY <1>2, <1>3, <1>4, <1>5, <1>6 DEF Inv

\* When the caller returns every message is taken, so that no worker has anything to send
\* and the feeder is through.
LEMMA SendOnClosedKeepsInv ==
  ASSUME Inv, SendOnClosed
  PROVE  Inv'
<1>1. outcome = "timeout"
  <2> SUFFICES ASSUME outcome # "timeout" PROVE FALSE
    OBVIOUS
  <2>1. Taken = Count
    BY DEF Inv, Ending, JvnTypeOK, SendOnClosed
  <2>2. Busy = {} /\ fed = Count /\ Count \in Nat
    BY <2>1, AllTaken, UrlOf
  <2> QED
    BY <2>2 DEF SendOnClosed, Busy
<1>2. /\ Busy' = Busy /\ Working' = Working /\ Messages' = Messages /\ Received' = Received
      /\ Taken' = Taken /\ Merged' = Merged
  BY DEF SendOnClosed, channelVars, callerVars, workerVars, Busy, Working, Messages, Received,
     Taken, Merged, Listings, Overwritten, Listing, Rdf
<1>3. JvnTypeOK'
  BY <1>2 DEF Inv, JvnTypeOK, SendOnClosed, channelVars, callerVars, workerVars
<1>4. TasksCounted' /\ InOrder' /\ Owned' /\ ErrorsCaused' /\ UrlsCounted'
  BY <1>2 DEF Inv, TasksCounted, InOrder, Owned, ErrorsCaused, Caused, UrlsCounted,
     SendOnClosed, channelVars, callerVars, workerVars
<1>5. Ending' /\ PanicOnlyAfterTimeout'
  BY <1>1, <1>2 DEF Inv, Ending, PanicOnlyAfterTimeout, SendOnClosed, callerVars
<1> QED
  BY <1>3, <1>4, <1>5 DEF Inv

\* The URL a worker receives is the first that no worker has received before.
LEMMA ReceiveKeepsInv ==
  ASSUME Inv, NEW w \in Thread, Receive(w)
  PROVE  Inv'
<1> DEFINE u == Head(reqChan)
<1>1. reqChan \in Seq(Url) /\ reqChan # <<>> /\ reqChan' = Tail(reqChan)
  BY DEF Inv, JvnTypeOK, Receive
<1>2. /\ reqChan' \in Seq(Url) /\ u \in Url /\ u = reqChan[1]
      /\ Len(reqChan') = Len(reqChan) - 1 /\ Len(reqChan) \in Nat /\ Len(reqChan) > 0
      /\ \A i \in 1..Len(reqChan') : reqChan'[i] = reqChan[i + 1]
  BY <1>1, Taking
<1>3. /\ Received \in Nat /\ Received' = Received + 1 /\ Received + 1 \in 1..fed
      /\ fed \in Nat /\ fed <= Count /\ fed' = fed /\ Count \in Nat
  BY <1>2, Sizes, UrlOf DEF Inv, JvnTypeOK, InOrder, Received, Receive
<1>4. u = Urls[Received + 1]
  BY <1>2 DEF Inv, InOrder
<1>5. /\ state' = [state EXCEPT ![w] = "download"] /\ state[w] = "task"
      /\ url' = [url EXCEPT ![w] = u] /\ tries' = [tries EXCEPT ![w] = 0]
      /\ state \in [Thread -> {"idle", "task", "download", "feed", "error"}]
      /\ url \in [Thread -> Url \cup {NoUrl}] /\ tries \in [Thread -> 0..RetryMax]
  BY DEF Inv, JvnTypeOK, Receive, Download
<1>6. Busy' = Busy /\ Working' = Working \cup {w} /\ w \notin Working /\ Working \subseteq Thread
  BY <1>5 DEF Busy, Working
<1>7. Messages' = Messages /\ Taken' = Taken /\ Merged' = Merged
  BY DEF Receive, callerVars, Messages, Taken, Merged, Listings, Overwritten, Listing, Rdf
<1>8. JvnTypeOK'
  <2>1. /\ tries' \in [Thread -> 0..RetryMax] /\ url' \in [Thread -> Url \cup {NoUrl}]
        /\ state' \in [Thread -> {"idle", "task", "download", "feed", "error"}]
    BY <1>2, <1>5, UrlOf
  <2>2. Len(reqChan') <= Count
    BY <1>2, <1>3 DEF Inv, JvnTypeOK
  <2> QED
    BY <1>2, <1>7, <2>1, <2>2 DEF Inv, JvnTypeOK, Receive, callerVars
<1>9. TasksCounted'
  BY <1>6, <1>7 DEF Inv, TasksCounted, Receive, callerVars
<1>10. InOrder'
  <2>1. Len(reqChan') <= fed'
    BY <1>2, <1>3 DEF Inv, InOrder
  <2>2. ASSUME NEW i \in 1..Len(reqChan') PROVE reqChan'[i] = Urls[Received' + i]
    <3>1. i + 1 \in 1..Len(reqChan) /\ Received + (i + 1) = Received' + i
      BY <1>2, <1>3
    <3> QED
      BY <1>2, <3>1 DEF Inv, InOrder
  <2>3. \A i \in (Received' + 1)..Count : failures'[Urls[i]] = 0
    BY <1>3 DEF Inv, InOrder, Receive
  <2> QED
    BY <2>1, <2>2, <2>3 DEF InOrder
<1>11. Owned'
  <2>1. \A x \in Working : url[x] # u
    <3> SUFFICES ASSUME NEW x \in Working, url[x] = u PROVE FALSE
      OBVIOUS
    <3>1. PICK i \in 1..Received : u = Urls[i]
      BY <1>2 DEF Inv, Owned
    <3>2. i \in 1..Count /\ Received + 1 \in 1..Count /\ i # Received + 1
      BY <1>3
    <3> QED
      BY <1>4, <3>1, <3>2, UrlOf
  <2>2. /\ \A x \in Working : url'[x] = url[x] /\ tries'[x] = tries[x] /\ state'[x] = state[x]
        /\ url'[w] = u /\ tries'[w] = 0
    BY <1>5, <1>6
  <2>3. \A i \in 1..Received : i \in 1..Received'
    BY <1>3
  <2>4. Received + 1 \in 1..Received' /\ failures[u] = 0
    BY <1>3, <1>4 DEF Inv, InOrder
  <2>5. failures' = failures
    BY DEF Receive
  <2>6. ASSUME NEW x \in Working', url'[x] \in Url
        PROVE  /\ \E i \in 1..Received' : url'[x] = Urls[i]
               /\ \A y \in Working' : url'[y] = url'[x] => y = x
               /\ state'[x] = "download" => failures'[url'[x]] = tries'[x]
    <3>1. CASE x = w
      BY <1>4, <1>6, <2>1, <2>2, <2>4, <2>5, <3>1
    <3>2. CASE x # w
      <4>1. x \in Working /\ url'[x] = url[x]
        BY <1>6, <2>2, <3>2
      <4> QED
        BY <1>6, <2>1, <2>2, <2>3, <2>5, <2>6, <4>1 DEF Inv, Owned
    <3> QED
      BY <3>1, <3>2
  <2> QED
    BY <2>6 DEF Owned
<1>12. Ending' /\ PanicOnlyAfterTimeout'
  BY <1>7 DEF Inv, Ending, PanicOnlyAfterTimeout, Receive, callerVars
<1>13. ErrorsCaused'
  BY <1>5 DEF Inv, ErrorsCaused, Caused, Receive, callerVars
<1>14. UrlsCounted'
  <2>1. SUFFICES ASSUME outcome # "timeout" PROVE UrlsCounted'
    BY DEF UrlsCounted, Receive, callerVars
  <2>2. /\ IsFiniteSet(Working') /\ Cardinality(Working') = Cardinality(Working) + 1
        /\ Cardinality(Working) \in Nat
    BY <1>6, <2>1, OneMore DEF Inv, UrlsCounted
  <2>3. fed' = Len(reqChan') + Cardinality(Working') + Messages'
    BY <1>2, <1>3, <1>7, <2>1, <2>2, Sizes DEF Inv, UrlsCounted
  <2>4. \A x \in Working' : url'[x] \in Url
    BY <1>2, <1>5, <1>6, <2>1 DEF Inv, UrlsCounted
  <2>5. ASSUME NEW i \in 1..Received'
        PROVE  \/ \E x \in Working' : url'[x] = Urls[i]
               \/ Urls[i] \in ToSet(resChan') \cup ToSet(errChan') \cup ToSet(rdfs')
               \/ errs' > 0
    <3>1. CASE i = Received + 1
      BY <1>4, <1>5, <1>6, <3>1
    <3>2. CASE i # Received + 1
      <4>1. i \in 1..Received
        BY <1>3, <3>2
      <4>2. \A x \in Working : x \in Working' /\ url'[x] = url[x]
        BY <1>5, <1>6
      <4> QED
        BY <2>1, <4>1, <4>2 DEF Inv, UrlsCounted, Receive, callerVars
    <3> QED
      BY <3>1, <3>2
  <2> QED
    BY <2>2, <2>3, <2>4, <2>5 DEF UrlsCounted
<1> QED
  BY <1>8, <1>9, <1>10, <1>11, <1>12, <1>13, <1>14 DEF Inv

\* A worker that finds no URL is one of those that a timeout left behind.
LEMMA ReceiveClosedKeepsInv ==
  ASSUME Inv, NEW w \in Thread, ReceiveClosed(w)
  PROVE  Inv'
<1>1. /\ state' = [state EXCEPT ![w] = "download"] /\ state[w] = "task"
      /\ url' = [url EXCEPT ![w] = NoUrl] /\ tries' = [tries EXCEPT ![w] = 0]
      /\ state \in [Thread -> {"idle", "task", "download", "feed", "error"}]
      /\ url \in [Thread -> Url \cup {NoUrl}] /\ tries \in [Thread -> 0..RetryMax]
  BY DEF Inv, JvnTypeOK, ReceiveClosed, Download
<1>2. Busy' = Busy /\ Working' = Working \cup {w} /\ w \notin Working /\ Working \subseteq Thread
  BY <1>1 DEF Busy, Working
<1>3. outcome = "timeout"
  <2> SUFFICES ASSUME outcome # "timeout" PROVE FALSE
    OBVIOUS
  <2>1. Taken = Count
    BY DEF Inv, Ending, JvnTypeOK, ReceiveClosed
  <2> QED
    BY <1>1, <2>1, AllTaken DEF Busy
<1>4. /\ Messages' = Messages /\ Received' = Received /\ Taken' = Taken /\ Merged' = Merged
  BY DEF ReceiveClosed, channelVars, callerVars, Messages, Received, Taken, Merged,
     Listings, Overwritten, Listing, Rdf
<1>5. JvnTypeOK'
  <2>1. /\ tries' \in [Thread -> 0..RetryMax] /\ url' \in [Thread -> Url \cup {NoUrl}]
        /\ state' \in [Thread -> {"idle", "task", "download", "feed", "error"}]
    BY <1>1, UrlOf
  <2> QED
    BY <1>4, <2>1 DEF Inv, JvnTypeOK, ReceiveClosed, channelVars, callerVars
<1>6. TasksCounted' /\ InOrder' /\ Ending' /\ PanicOnlyAfterTimeout'
  BY <1>2, <1>4 DEF Inv, TasksCounted, InOrder, Ending, PanicOnlyAfterTimeout, ReceiveClosed,
     channelVars, callerVars
<1>7. Owned'
  <2>1. url'[w] = NoUrl /\ NoUrl \notin Url
    BY <1>1, UrlOf
  <2>2. \A x \in Working : url'[x] = url[x] /\ tries'[x] = tries[x] /\ state'[x] = state[x]
    BY <1>1, <1>2
  <2> QED
    BY <1>2, <1>4, <2>1, <2>2 DEF Inv, Owned, ReceiveClosed
<1>8. ErrorsCaused'
  BY <1>1 DEF Inv, ErrorsCaused, Caused, ReceiveClosed, channelVars, callerVars
<1>9. UrlsCounted'
  BY <1>3 DEF UrlsCounted, ReceiveClosed, callerVars
<1> QED
  BY <1>5, <1>6, <1>7, <1>8, <1>9 DEF Inv

\* When a feed is merged no download is under way that could tell what its body is.
LEMMA AttemptSucceedsKeepsInv ==
  ASSUME Inv, NEW w \in Thread, AttemptSucceeds(w)
  PROVE  Inv'
<1>1. /\ state[w] = "download" /\ url[w] \in Url
      /\ state \in [Thread -> {"idle", "task", "download", "feed", "error"}]
      /\ url \in [Thread -> Url \cup {NoUrl}]
  BY DEF Inv, JvnTypeOK, AttemptSucceeds
<1>2. /\ \/ state' = [state EXCEPT ![w] = "feed"] /\ lost' = lost
         \/ state' = [state EXCEPT ![w] = "error"] /\ lost' = lost \cup {url[w]}
      /\ url' = url /\ tries' = tries /\ failures' = failures
      /\ notRdf' \in {notRdf, notRdf \cup {url[w]}}
  BY DEF AttemptSucceeds, Unmarshal
<1>3. /\ Busy' = Busy /\ Working' = Working
      /\ \A x \in Thread : x # w => state'[x] = state[x]
  BY <1>1, <1>2 DEF Busy, Working
<1>4. Messages' = Messages /\ Received' = Received /\ Taken' = Taken
  BY DEF AttemptSucceeds, channelVars, callerVars, Messages, Received, Taken
<1>5. JvnTypeOK'
  <2>1. /\ state' \in [Thread -> {"idle", "task", "download", "feed", "error"}]
        /\ lost' \subseteq Url /\ notRdf' \subseteq Url
    BY <1>1, <1>2 DEF Inv, JvnTypeOK
  <2> QED
    BY <1>2, <1>4, <2>1 DEF Inv, JvnTypeOK, AttemptSucceeds, channelVars, callerVars
<1>6. TasksCounted' /\ InOrder' /\ PanicOnlyAfterTimeout' /\ UrlsCounted'
  BY <1>2, <1>3, <1>4 DEF Inv, TasksCounted, InOrder, PanicOnlyAfterTimeout, UrlsCounted,
     AttemptSucceeds, channelVars, callerVars
<1>7. Owned'
  <2>1. \A x \in Thread : state'[x] = "download" => state[x] = "download"
    BY <1>1, <1>2
  <2> QED
    BY <1>2, <1>3, <1>4, <2>1 DEF Inv, Owned, Working
<1>8. ErrorsCaused'
  <2>1. \A u \in Url : Caused(u) => Caused(u)'
    BY <1>2 DEF Caused
  <2>2. state'[w] = "error" => Caused(url[w])'
    BY <1>1, <1>2 DEF Caused
  <2>3. errChan' = errChan /\ errs' = errs /\ ToSet(errChan) \subseteq Url
    BY DEF AttemptSucceeds, channelVars, callerVars, Inv, JvnTypeOK, ToSet
  <2> QED
    BY <1>2, <1>3, <2>1, <2>2, <2>3 DEF Inv, ErrorsCaused, Caused
<1>9. Ending'
  <2>1. outcome # "feed"
    <3> SUFFICES ASSUME outcome = "feed" PROVE FALSE
      OBVIOUS
    <3>1. Taken = Count
      BY DEF Inv, Ending
    <3>2. Busy = {}
      BY <3>1, AllTaken
    <3> QED
      BY <1>1, <3>2 DEF Busy
  <2> QED
    BY <1>4, <2>1 DEF Inv, Ending, AttemptSucceeds, callerVars
<1> QED
  BY <1>5, <1>6, <1>7, <1>8, <1>9 DEF Inv

\* A failure is counted for the URL of the worker alone, and what has a cause keeps it.
LEMMA AttemptFailsKeepsInv ==
  ASSUME Inv, NEW w \in Thread, AttemptFails(w)
  PROVE  Inv'
<1>1. /\ state[w] = "download" /\ w \in Working /\ tries[w] \in Nat /\ tries[w] < RetryMax
      /\ state \in [Thread -> {"idle", "task", "download", "feed", "error"}]
      /\ url \in [Thread -> Url \cup {NoUrl}] /\ tries \in [Thread -> 0..RetryMax]
      /\ failures \in [Url -> 0..RetryMax] /\ RetryMax \in Nat /\ NoUrl \notin Url
  BY UrlOf DEF Inv, JvnTypeOK, AttemptFails, Working
<1>2. /\ tries' = [tries EXCEPT ![w] = @ + 1] /\ url' = url
      /\ failures' = [u \in Url |-> failures[u] + IF u = url[w] THEN 1 ELSE 0]
      /\ \/ state' = state /\ lost' = lost
         \/ /\ state' = [state EXCEPT ![w] = "error"]
            /\ lost' = IF tries'[w] = RetryMax THEN lost ELSE lost \cup ({url[w]} \ {NoUrl})
  BY DEF AttemptFails
<1>3. /\ Busy' = Busy /\ Working' = Working
      /\ \A x \in Thread : x # w => state'[x] = state[x] /\ tries'[x] = tries[x]
      /\ tries'[w] = tries[w] + 1
  BY <1>1, <1>2 DEF Busy, Working
<1>4. /\ Messages' = Messages /\ Received' = Received /\ Taken' = Taken /\ Merged' = Merged
  BY DEF AttemptFails, channelVars, callerVars, Messages, Received, Taken, Merged,
     Listings, Overwritten, Listing, Rdf
<1>5. url[w] \in Url => failures[url[w]] = tries[w] /\ failures'[url[w]] = tries[w] + 1
  <2>1. url[w] \in Url => failures[url[w]] = tries[w]
    BY <1>1 DEF Inv, Owned
  <2> QED
    BY <1>2, <2>1
<1>6. \A u \in Url : u # url[w] => failures'[u] = failures[u]
  BY <1>1, <1>2
<1>7. JvnTypeOK'
  <2>1. /\ state' \in [Thread -> {"idle", "task", "download", "feed", "error"}]
        /\ lost' \subseteq Url
    BY <1>1, <1>2 DEF Inv, JvnTypeOK
  <2>2. tries[w] + 1 \in 0..RetryMax
    BY <1>1
  <2>3. \A u \in Url : failures'[u] \in 0..RetryMax
    BY <1>1, <1>5, <1>6, <2>2
  <2>4. tries' \in [Thread -> 0..RetryMax] /\ failures' \in [Url -> 0..RetryMax]
    BY <1>1, <1>2, <2>2, <2>3
  <2> QED
    BY <1>2, <1>4, <2>1, <2>4 DEF Inv, JvnTypeOK, AttemptFails, channelVars, callerVars
<1>8. TasksCounted' /\ Ending' /\ PanicOnlyAfterTimeout' /\ UrlsCounted'
  BY <1>2, <1>3, <1>4 DEF Inv, TasksCounted, Ending, PanicOnlyAfterTimeout, UrlsCounted,
     AttemptFails, channelVars, callerVars
<1>9. InOrder'
  <2>1. fed' = fed /\ reqChan' = reqChan
    BY DEF AttemptFails, channelVars
  <2>2. ASSUME NEW i \in (Received + 1)..Count PROVE failures'[Urls[i]] = 0
    <3>1. Received \in Nat /\ Count \in Nat /\ Received <= Count
      <4>1. /\ fed \in Nat /\ fed <= Count /\ Count \in Nat
            /\ Len(reqChan) \in Nat /\ Len(reqChan) <= fed
        BY Sizes DEF Inv, InOrder
      <4> QED
        BY <4>1 DEF Received
    <3>2. i \in 1..Count /\ Urls[i] \in Url /\ \A j \in 1..Received : j \in 1..Count /\ j # i
      BY <3>1, UrlOf
    <3>3. Urls[i] # url[w]
      <4> SUFFICES ASSUME Urls[i] = url[w] PROVE FALSE
        OBVIOUS
      <4>1. PICK j \in 1..Received : url[w] = Urls[j]
        BY <1>1, <3>2 DEF Inv, Owned
      <4> QED
        BY <3>2, <4>1, UrlOf
    <3> QED
      BY <1>6, <3>2, <3>3 DEF Inv, InOrder
  <2> QED
    BY <1>4, <2>1, <2>2 DEF Inv, InOrder
<1>10. Owned'
  <2>1. ASSUME NEW x \in Working, url[x] \in Url, state'[x] = "download"
        PROVE  failures'[url[x]] = tries'[x]
    <3>1. CASE x = w
      BY <1>3, <1>5, <2>1, <3>1
    <3>2. CASE x # w
      <4>1. url[x] # url[w]
        BY <1>1, <2>1, <3>2 DEF Inv, Owned
      <4>2. state'[x] = state[x] /\ tries'[x] = tries[x]
        BY <1>3, <3>2 DEF Working
      <4> QED
        BY <1>6, <2>1, <4>1, <4>2 DEF Inv, Owned
    <3> QED
      BY <3>1, <3>2
  <2> QED
    BY <1>2, <1>3, <1>4, <2>1 DEF Inv, Owned
<1>11. ErrorsCaused'
  <2>1. \A u \in Url : Caused(u) => Caused(u)'
    BY <1>1, <1>2, <1>5, <1>6 DEF Caused
  <2>2. state'[w] = "error" /\ url[w] \in Url => Caused(url[w])'
    BY <1>1, <1>2, <1>3, <1>5 DEF Caused
  <2>3. errChan' = errChan /\ errs' = errs /\ ToSet(errChan) \subseteq Url
    BY DEF AttemptFails, channelVars, callerVars, Inv, JvnTypeOK, ToSet
  <2> QED
    BY <1>2, <1>3, <2>1, <2>2, <2>3 DEF Inv, ErrorsCaused, Caused
<1> QED
  BY <1>7, <1>8, <1>9, <1>10, <1>11 DEF Inv

\* A message leaves one busy worker less.
LEMMA SendKeepsInv ==
  ASSUME Inv, NEW w \in Thread, SendFeed(w) \/ SendError(w)
  PROVE  Inv'
<1>1. /\ state[w] \in {"feed", "error"} /\ open /\ outcome = "none"
      /\ state \in [Thread -> {"idle", "task", "download", "feed", "error"}]
      /\ state' = [state EXCEPT ![w] = "idle"]
      /\ url' = url /\ tries' = tries /\ failures' = failures /\ lost' = lost
      /\ notRdf' = notRdf
      /\ fed' = fed /\ reqChan' = reqChan /\ UNCHANGED callerVars /\ panicked' = panicked
  BY DEF Inv, JvnTypeOK, Ending, SendFeed, SendError
<1>2. w \in Working /\ w \in Busy /\ Working' = Working \ {w} /\ Busy' = Busy \ {w}
  BY <1>1 DEF Busy, Working
<1>3. url[w] \in Url
  BY <1>1, <1>2 DEF Inv, UrlsCounted
<1>4. /\ resChan' \in Seq(Url) /\ errChan' \in Seq(Url)
      /\ Len(resChan') + Len(errChan') = Len(resChan) + Len(errChan) + 1
      /\ ToSet(resChan') \cup ToSet(errChan') = ToSet(resChan) \cup ToSet(errChan) \cup {url[w]}
      /\ \/ ToSet(errChan') = ToSet(errChan)
         \/ ToSet(errChan') = ToSet(errChan) \cup {url[w]} /\ state[w] = "error"
  <2>1. resChan \in Seq(Url) /\ errChan \in Seq(Url)
    BY DEF Inv, JvnTypeOK
  <2>2. ASSUME SendFeed(w)
        PROVE  /\ resChan' \in Seq(Url) /\ Len(resChan') = Len(resChan) + 1
               /\ ToSet(resChan') = ToSet(resChan) \cup {url[w]} /\ errChan' = errChan
    BY <1>3, <2>1, <2>2, Appended DEF SendFeed
  <2>3. ASSUME SendError(w)
        PROVE  /\ errChan' \in Seq(Url) /\ Len(errChan') = Len(errChan) + 1
               /\ ToSet(errChan') = ToSet(errChan) \cup {url[w]} /\ resChan' = resChan
               /\ state[w] = "error"
    BY <1>3, <2>1, <2>3, Appended DEF SendError
  <2> QED
    <3>1. Len(resChan) \in Nat /\ Len(errChan) \in Nat
      BY Sizes DEF Inv
    <3> QED
      BY <2>1, <2>2, <2>3, <3>1
<1>5. Messages' = Messages + 1 /\ Received' = Received /\ Taken' = Taken /\ Merged' = Merged
  <2>1. Received' = Received /\ Taken' = Taken /\ Merged' = Merged
    BY <1>1 DEF callerVars, Received, Taken, Merged, Listings, Overwritten, Listing, Rdf
  <2>2. Len(resChan') \in Nat /\ Len(errChan') \in Nat
    BY <1>4
  <2> QED
    BY <1>4, <2>1, <2>2, Sizes DEF Messages, Inv
<1>6. /\ IsFiniteSet(Busy') /\ Cardinality(Busy') = Cardinality(Busy) - 1
      /\ Cardinality(Busy) \in Nat /\ Cardinality(Busy') \in Nat
  BY <1>2, OneLess DEF Inv, TasksCounted
<1>7. JvnTypeOK'
  <2>1. Messages' <= Count
    <3>1. submitted = Cardinality(Busy) + Messages /\ submitted <= Count
          /\ Messages \in Nat /\ Count \in Nat
      BY Sizes DEF Inv, TasksCounted
    <3> QED
      BY <1>5, <1>6, <3>1
  <2>2. state' \in [Thread -> {"idle", "task", "download", "feed", "error"}]
    BY <1>1
  <2> QED
    BY <1>1, <1>4, <1>5, <2>1, <2>2 DEF Inv, JvnTypeOK, callerVars, Messages
<1>8. TasksCounted'
  BY <1>1, <1>5, <1>6, Sizes DEF Inv, TasksCounted, callerVars
<1>9. InOrder' /\ Ending' /\ PanicOnlyAfterTimeout'
  BY <1>1, <1>5 DEF Inv, InOrder, Ending, PanicOnlyAfterTimeout, callerVars
<1>10. Owned'
  BY <1>1, <1>2, <1>5 DEF Inv, Owned, Working
<1>11. ErrorsCaused'
  BY <1>1, <1>3, <1>4 DEF Inv, ErrorsCaused, Caused, callerVars
<1>12. UrlsCounted'
  <2>1. /\ IsFiniteSet(Working') /\ Cardinality(Working') = Cardinality(Working) - 1
        /\ Cardinality(Working) \in Nat
    BY <1>1, <1>2, OneLess DEF Inv, UrlsCounted
  <2>2. fed' = Len(reqChan') + Cardinality(Working') + Messages'
    BY <1>1, <1>5, <2>1, Sizes DEF Inv, UrlsCounted
  <2>3. ASSUME NEW i \in 1..Received'
        PROVE  \/ \E x \in Working' : url'[x] = Urls[i]
               \/ Urls[i] \in ToSet(resChan') \cup ToSet(errChan') \cup ToSet(rdfs')
               \/ errs' > 0
    BY <1>1, <1>2, <1>4, <1>5 DEF Inv, UrlsCounted, callerVars
  <2> QED
    BY <1>1, <1>2, <2>1, <2>2, <2>3 DEF Inv, UrlsCounted
<1> QED
  BY <1>7, <1>8, <1>9, <1>10, <1>11, <1>12 DEF Inv

-----------------------------------------------------------------------------
(***************************************************************************)
(* The merged feed                                                         *)
(***************************************************************************)

LEMMA LeastNumber ==
  ASSUME NEW S \in SUBSET Nat, S # {}
  PROVE  \E n \in S : \A m \in S : n <= m
<1> DEFINE R == OpToRel(<, Nat)
<1>1. PICK n \in S : \A m \in S : <<m, n>> \notin R
  <2> HIDE DEF R
  <2>1. IsWellFoundedOn(R, Nat)
    BY NatLessThanWellFounded DEF R
  <2> QED
    BY <2>1, WFMin
<1>2. \A m \in S : ~(m < n)
  BY <1>1 DEF OpToRel
<1> QED
  BY <1>2

LEMMA GreatestNumber ==
  ASSUME NEW S \in SUBSET Nat, S # {}, NEW b \in Nat, \A n \in S : n <= b
  PROVE  \E n \in S : \A m \in S : m <= n
<1> DEFINE Gap == {b - n : n \in S}
<1>1. Gap \in SUBSET Nat /\ Gap # {}
  <2>1. ASSUME NEW n \in S PROVE b - n \in Nat
    <3>1. n \in Nat /\ n <= b
      OBVIOUS
    <3> QED
      BY ONLY <3>1, b \in Nat
  <2>2. PICK n : n \in S
    OBVIOUS
  <2>3. b - n \in Gap
    BY <2>2
  <2> QED
    BY <2>1, <2>3
<1>2. PICK g \in Gap : \A h \in Gap : g <= h
  BY <1>1, LeastNumber
<1>3. PICK n \in S : g = b - n
  OBVIOUS
<1>4. ASSUME NEW m \in S PROVE m <= n
  <2>1. b - m \in Gap /\ n \in Nat /\ m \in Nat
    OBVIOUS
  <2>2. g <= b - m
    BY <1>2, <2>1
  <2> QED
    BY ONLY <1>3, <2>1, <2>2, b \in Nat
<1> QED
  BY <1>4

\* A body lists what the feed of its URL does, or nothing.
LEMMA RdfOf ==
  ASSUME NEW u \in Url
  PROVE  /\ Rdf(u) \in Seq(AllListed) /\ DOMAIN Rdf(u) \subseteq DOMAIN Feed[u]
         /\ ToSet(Rdf(u)) \subseteq AllListed
<1>1. Feed[u] \in Seq(AllListed)
  BY JvnAssumption
<1>2. Rdf(u) = <<>> \/ Rdf(u) = Feed[u]
  BY DEF Rdf
<1>3. <<>> \in Seq(AllListed) /\ DOMAIN <<>> = {}
  <2>1. <<>> \in Seq(AllListed) /\ Len(<<>>) = 0
    OBVIOUS
  <2>2. DOMAIN <<>> = 1..0
    BY <2>1
  <2> QED
    BY <2>1, <2>2
<1>4. Rdf(u) \in Seq(AllListed)
  BY ONLY <1>1, <1>2, <1>3
<1>5. DOMAIN Rdf(u) \subseteq DOMAIN Feed[u]
  BY ONLY <1>2, <1>3
<1> QED
  BY <1>4, <1>5 DEF ToSet

\* Of the listings of one CPE there is one that no other overwrites.
LEMMA LastListing ==
  ASSUME rdfs \in Seq(Url), NEW p \in Listings
  PROVE  \E q \in Listings \ Overwritten : Listing(q).cpe = Listing(p).cpe
<1> DEFINE Same == {q \in Listings : Listing(q).cpe = Listing(p).cpe}
           I == {q[1] : q \in Same}
<1>1. ASSUME NEW q \in Same
      PROVE  /\ q[1] \in 1..Len(rdfs) /\ rdfs[q[1]] \in Url
             /\ q[2] \in 1..Len(Rdf(rdfs[q[1]])) /\ q[1] \in Nat /\ q[2] \in Nat
  <2>1. q[1] \in 1..Len(rdfs) /\ q[2] \in DOMAIN Rdf(rdfs[q[1]])
    BY DEF Listings
  <2>2. rdfs[q[1]] \in Url
    BY <2>1
  <2>3. Rdf(rdfs[q[1]]) \in Seq(AllListed)
    BY <2>2, RdfOf
  <2> QED
    BY <2>1, <2>2, <2>3
<1>2. PICK i \in I : \A j \in I : j <= i
  <2>1. I \in SUBSET Nat /\ p[1] \in I /\ Len(rdfs) \in Nat
    BY <1>1
  <2>2. \A j \in I : j <= Len(rdfs)
    BY <1>1
  <2> QED
    BY <2>1, <2>2, GreatestNumber
<1> DEFINE J == {q[2] : q \in {r \in Same : r[1] = i}}
<1>3. PICK j \in J : \A k \in J : k <= j
  <2>1. PICK r \in Same : r[1] = i
    OBVIOUS
  <2>2. rdfs[i] \in Url /\ Len(Rdf(rdfs[i])) \in Nat
    BY <1>1, <2>1, RdfOf
  <2>3. J \in SUBSET Nat /\ r[2] \in J
    BY <1>1, <2>1
  <2>4. \A k \in J : k <= Len(Rdf(rdfs[i]))
    BY <1>1, <2>2
  <2> QED
    BY <2>2, <2>3, <2>4, GreatestNumber
<1>4. PICK q \in Same : q[1] = i /\ q[2] = j
  OBVIOUS
<1>5. ASSUME NEW r \in Same, Before(q, r)
      PROVE  FALSE
  <2>1. r[1] <= i /\ r[1] \in Nat /\ r[2] \in Nat /\ i \in Nat /\ j \in Nat
    BY <1>1, <1>2, <1>4
  <2>2. r[1] = i => r[2] <= j
    BY <1>3
  <2> QED
    BY <1>4, <1>5, <2>1, <2>2 DEF Before
<1>6. q \notin Overwritten
  BY <1>5 DEF Overwritten
<1> QED
  BY <1>6

\* Two listings of one CPE are not both the last.
LEMMA OneLastListing ==
  ASSUME rdfs \in Seq(Url),
         NEW p \in Listings \ Overwritten, NEW q \in Listings \ Overwritten,
         Listing(p).cpe = Listing(q).cpe
  PROVE  p = q
<1>1. \A r \in Listings : /\ r = <<r[1], r[2]>> /\ r[1] \in Nat /\ r[2] \in Nat
  <2> SUFFICES ASSUME NEW r \in Listings
               PROVE  r = <<r[1], r[2]>> /\ r[1] \in Nat /\ r[2] \in Nat
    OBVIOUS
  <2>1. r = <<r[1], r[2]>> /\ r[1] \in 1..Len(rdfs) /\ r[2] \in DOMAIN Rdf(rdfs[r[1]])
    BY DEF Listings
  <2>2. Rdf(rdfs[r[1]]) \in Seq(AllListed)
    BY <2>1, RdfOf
  <2> QED
    BY <2>1, <2>2
<1>2. ~Before(p, q) /\ ~Before(q, p)
  BY DEF Overwritten
<1> QED
  BY <1>1, <1>2 DEF Before

\* From the bodies of all URLs the caller merges what they list.
LEMMA MergedHasEveryRdf ==
  ASSUME rdfs \in Seq(Url), Url \subseteq ToSet(rdfs)
  PROVE  /\ {f.cpe : f \in Merged} = {l.cpe : l \in WellFormed}
         /\ \A f \in Merged : [cpe |-> f.cpe, name |-> f.title] \in WellFormed
         /\ \A f, g \in Merged : f.cpe = g.cpe => f = g
<1>1. \A p \in Listings : Listing(p) \in WellFormed
  <2> SUFFICES ASSUME NEW p \in Listings PROVE Listing(p) \in WellFormed
    OBVIOUS
  <2>1. /\ p[1] \in 1..Len(rdfs) /\ p[2] \in DOMAIN Rdf(rdfs[p[1]])
        /\ Listing(p).cpe \notin Unparsable
    BY DEF Listings
  <2>2. rdfs[p[1]] \in Url /\ Listing(p) \in ToSet(Rdf(rdfs[p[1]]))
    BY <2>1 DEF Listing, ToSet
  <2> QED
    BY <2>1, <2>2 DEF WellFormed
<1>2. \A l \in WellFormed : \E p \in Listings : Listing(p) = l
  <2> SUFFICES ASSUME NEW l \in WellFormed PROVE \E p \in Listings : Listing(p) = l
    OBVIOUS
  <2>1. PICK u \in Url : l \in ToSet(Rdf(u))
    BY DEF WellFormed
  <2>2. PICK j \in DOMAIN Rdf(u) : l = Rdf(u)[j]
    BY <2>1 DEF ToSet
  <2>3. PICK i \in DOMAIN rdfs : rdfs[i] = u
    BY DEF ToSet
  <2>4. <<i, j>> \in Listings /\ Listing(<<i, j>>) = l
    BY <2>2, <2>3, RdfOf DEF Listings, Listing, WellFormed
  <2> QED
    BY <2>4
<1>3. \A f \in Merged : \E p \in Listings \ Overwritten :
        f = [title |-> Listing(p).name, cpe |-> Listing(p).cpe]
  BY DEF Merged
<1>4. \A l \in WellFormed : \E f \in Merged : f.cpe = l.cpe
  <2> SUFFICES ASSUME NEW l \in WellFormed PROVE \E f \in Merged : f.cpe = l.cpe
    OBVIOUS
  <2>1. PICK p \in Listings : Listing(p) = l
    BY <1>2
  <2>2. PICK q \in Listings \ Overwritten : Listing(q).cpe = l.cpe
    BY <2>1, LastListing
  <2>3. [title |-> Listing(q).name, cpe |-> Listing(q).cpe] \in Merged
    BY DEF Merged
  <2> QED
    BY <2>2, <2>3
<1>5. \A f \in Merged : [cpe |-> f.cpe, name |-> f.title] \in WellFormed
  <2> SUFFICES ASSUME NEW f \in Merged PROVE [cpe |-> f.cpe, name |-> f.title] \in WellFormed
    OBVIOUS
  <2>1. PICK p \in Listings : f = [title |-> Listing(p).name, cpe |-> Listing(p).cpe]
    BY <1>3
  <2>2. Listing(p) = [cpe |-> Listing(p).cpe, name |-> Listing(p).name]
    <3>1. Listing(p) \in AllListed
      BY <1>1, RdfOf DEF WellFormed
    <3>2. Listing(p) \in [cpe : {l.cpe : l \in AllListed}, name : {l.name : l \in AllListed}]
      BY <3>1, JvnAssumption
    <3> QED
      BY <3>2
  <2> QED
    BY <1>1, <2>1, <2>2
<1>6. \A f, g \in Merged : f.cpe = g.cpe => f = g
  <2> SUFFICES ASSUME NEW f \in Merged, NEW g \in Merged, f.cpe = g.cpe PROVE f = g
    OBVIOUS
  <2>1. PICK p \in Listings \ Overwritten :
          f = [title |-> Listing(p).name, cpe |-> Listing(p).cpe]
    BY <1>3
  <2>2. PICK q \in Listings \ Overwritten :
          g = [title |-> Listing(q).name, cpe |-> Listing(q).cpe]
    BY <1>3
  <2>3. p = q
    BY <2>1, <2>2, OneLastListing
  <2> QED
    BY <2>1, <2>2, <2>3
<1>7. \A f \in Merged : \E l \in WellFormed : l.cpe = f.cpe
  BY <1>1, <1>3
<1> QED
  BY <1>4, <1>5, <1>6, <1>7

-----------------------------------------------------------------------------
(***************************************************************************)
(* The theorems                                                            *)
(***************************************************************************)

LEMMA StepKeepsInv == Inv /\ [Next]_vars => Inv'
<1> SUFFICES ASSUME Inv, [Next]_vars PROVE Inv'
  OBVIOUS
<1>1. CASE Feeder
  BY <1>1, FeederKeepsInv
<1>2. CASE TakeFeed
  BY <1>2, TakeFeedKeepsInv
<1>3. CASE TakeError
  BY <1>3, TakeErrorKeepsInv
<1>4. CASE Timeout
  BY <1>4, CloseKeepsInv DEF Timeout, Selecting
<1>5. CASE Return
  <2>1. errs # 0 => errs > 0
    BY Sizes DEF Inv
  <2> QED
    BY <1>5, <2>1, CloseKeepsInv DEF Return
<1>6. CASE SendOnClosed
  BY <1>6, SendOnClosedKeepsInv
<1>7. ASSUME NEW w \in Thread, Submit(w) \/ WorkerStep(w)
      PROVE  Inv'
  BY <1>7, SubmitKeepsInv, ReceiveKeepsInv, ReceiveClosedKeepsInv, AttemptSucceedsKeepsInv,
     AttemptFailsKeepsInv, SendKeepsInv DEF WorkerStep
<1>8. CASE UNCHANGED vars
  <2>1. /\ Busy' = Busy /\ Working' = Working /\ Messages' = Messages /\ Received' = Received
        /\ Taken' = Taken /\ Merged' = Merged
    BY <1>8 DEF vars, channelVars, callerVars, workerVars, Busy, Working, Messages, Received,
       Taken, Merged, Listings, Overwritten, Listing, Rdf
  <2> QED
    BY <1>8, <2>1 DEF vars, channelVars, callerVars, workerVars, Inv, JvnTypeOK, TasksCounted,
       InOrder, Owned, Ending, UrlsCounted, ErrorsCaused, Caused, PanicOnlyAfterTimeout
<1> QED
  BY <1>1, <1>2, <1>3, <1>4, <1>5, <1>6, <1>7, <1>8 DEF Next

LEMMA AlwaysInv == Spec => []Inv
BY InitInv, StepKeepsInv, PTL DEF Spec

\* The types, for any number of workers and URLs: above all, no channel is asked to hold
\* more messages than it has room for, so that no worker ever waits to send one.
THEOREM JvnTypeCorrect == Spec => []JvnTypeOK
<1>1. Inv => JvnTypeOK
  BY DEF Inv
<1> QED
  BY <1>1, AlwaysInv, PTL

\* A fetch that is not cut off by its timeout is never killed by a send on a closed channel,
\* whatever the order in which feeder, workers and caller run.
THEOREM OnlyATimeoutPanics == Spec => []PanicOnlyAfterTimeout
<1>1. Inv => PanicOnlyAfterTimeout
  BY DEF Inv
<1> QED
  BY <1>1, AlwaysInv, PTL

\* Behind an error is a URL that was given up.
THEOREM ErrorsHaveCauses == Spec => []ErrorHasCause
<1>1. Inv => ErrorHasCause
  BY DEF Inv, Ending, ErrorsCaused, Caused, ErrorHasCause
<1> QED
  BY <1>1, AlwaysInv, PTL

\* The feed that FetchJVN returns has the RDFs of all URLs that answered with theirs: one
\* message each, and none of them an error, leave no such URL out.
THEOREM ReturnedFeedHasEveryRdf == Spec => []FeedHasEveryRdf
<1>1. Inv => FeedHasEveryRdf
  <2> SUFFICES ASSUME Inv, outcome = "feed" PROVE FeedHasEveryRdf
    BY DEF FeedHasEveryRdf
  <2>1. Taken = Count /\ errs = 0 /\ fetched = Merged /\ rdfs \in Seq(Url)
    BY DEF Inv, Ending, JvnTypeOK
  <2>2. /\ Working = {} /\ fed = Count /\ Count \in Nat
        /\ Len(reqChan) = 0 /\ Len(resChan) = 0 /\ Len(errChan) = 0
    BY <2>1, AllTaken, UrlOf
  <2>3. Received = Count
    BY <2>2 DEF Received
  <2>4. ToSet(resChan) = {} /\ ToSet(errChan) = {}
    <3>1. resChan = <<>> /\ errChan = <<>>
      BY <2>2 DEF Inv, JvnTypeOK
    <3> QED
      BY <3>1 DEF ToSet
  <2>5. ASSUME NEW u \in Url PROVE u \in ToSet(rdfs)
    <3>1. PICK i \in 1..Count : u = Urls[i]
      BY UrlOf
    <3>2. \/ \E w \in Working : url[w] = Urls[i]
          \/ Urls[i] \in ToSet(resChan) \cup ToSet(errChan) \cup ToSet(rdfs)
          \/ errs > 0
      BY <2>3, <3>1 DEF Inv, UrlsCounted
    <3> QED
      BY <2>1, <2>2, <2>4, <3>1, <3>2
  <2> QED
    BY <2>1, <2>5, MergedHasEveryRdf DEF FeedHasEveryRdf
<1> QED
  BY <1>1, AlwaysInv, PTL
=============================================================================
