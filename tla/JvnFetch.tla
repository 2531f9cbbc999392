------------------------------- MODULE JvnFetch -------------------------------
(***************************************************************************)
(* jvn.FetchJVN (fetcher/jvn/jvn.go) on util.GenWorkers, with the retry    *)
(* loop of util.FetchFeedFile: a pool of goroutines downloads the feeds of *)
(* JVN, one per URL, and the caller merges them into one feed of CPEs.     *)
(*                                                                         *)
(* A download sends its feed to resChan or its error to errChan. When all  *)
(* downloads have been handed out the caller starts a timer and takes one  *)
(* message per URL. When it has them, or the time is up, it closes all     *)
(* channels, whoever still uses them. Time itself is not modelled: the     *)
(* timer may fire, and the retry loop may run out of time, at any moment.  *)
(***************************************************************************)
EXTENDS Naturals, FiniteSets, SequencesExt

CONSTANTS
  Thread,       \* workers (option threads)
  Urls,         \* the sequence of URLs that makeJvnURLs returns
  NoUrl,        \* the empty string, received from a channel that is closed
  Feed,         \* Feed[u]: the sequence of CPEs that the feed at u lists, with their names
  Unparsable,   \* CPEs that UnbindURI rejects
  RetryMax      \* bound on the attempts of a download, 20 in the code

Url == ToSet(Urls)

\* The elements of all feeds: a CPE and the name it is listed under.
AllListed == UNION {ToSet(Feed[u]) : u \in Url}

ASSUME JvnAssumption ==
  /\ Urls \in Seq(Url) /\ IsInjective(Urls) /\ NoUrl \notin Url
  /\ Feed \in [Url -> Seq(AllListed)]
  /\ AllListed \subseteq [cpe : {l.cpe : l \in AllListed}, name : {l.name : l \in AllListed}]
  /\ RetryMax \in Nat \ {0}

VARIABLES
  fed,        \* URLs the feeder has sent
  reqChan, resChan, errChan,
  open,       \* are the channels open?
  submitted,  \* tasks handed to workers
  rdfs, errs, \* what the caller has taken: the URLs of feeds, and a number of errors
  outcome,    \* of FetchJVN
  fetched,    \* its answer: CPEs, each with a title
  state, url, \* per worker: what it does, and for which URL
  tries,      \* per worker: attempts of its download that failed
  failures,   \* history, per URL: attempts that failed
  lost,       \* history: URLs given up for another reason than their attempts
  notRdf,     \* URLs that answered with an XML document other than their RDF
  panicked    \* a goroutine has panicked, and the process died

channelVars == <<reqChan, resChan, errChan>>
callerVars == <<open, submitted, rdfs, errs, outcome, fetched>>
workerVars == <<state, url, tries, failures, lost, notRdf>>
vars == <<fed, channelVars, callerVars, workerVars, panicked>>

Count == Len(Urls)
Taken == Len(rdfs) + errs

\* Every channel has room for one message per URL.
JvnTypeOK ==
  /\ fed \in 0..Count /\ submitted \in 0..Count /\ errs \in 0..Count
  /\ reqChan \in Seq(Url) /\ Len(reqChan) <= Count
  /\ resChan \in Seq(Url) /\ rdfs \in Seq(Url)
  /\ errChan \in Seq(Url)
  /\ Len(resChan) + Len(errChan) + Taken <= Count
  /\ open \in BOOLEAN /\ panicked \in BOOLEAN
  /\ outcome \in {"none", "feed", "error", "timeout"}
  /\ state \in [Thread -> {"idle", "task", "download", "feed", "error"}]
  /\ url \in [Thread -> Url \cup {NoUrl}]
  /\ tries \in [Thread -> 0..RetryMax]
  /\ failures \in [Url -> 0..RetryMax] /\ lost \subseteq Url /\ notRdf \subseteq Url

Init ==
  /\ fed = 0 /\ reqChan = <<>> /\ resChan = <<>> /\ errChan = <<>>
  /\ open = TRUE /\ submitted = 0 /\ rdfs = <<>> /\ errs = 0
  /\ outcome = "none" /\ fetched = {}
  /\ state = [w \in Thread |-> "idle"] /\ url = [w \in Thread |-> NoUrl]
  /\ tries = [w \in Thread |-> 0] /\ failures = [u \in Url |-> 0]
  /\ lost = {} /\ notRdf = {}
  /\ panicked = FALSE

-----------------------------------------------------------------------------
(* The feeder *)

Feeder ==
  /\ fed < Count /\ open
  /\ fed' = fed + 1
  /\ reqChan' = Append(reqChan, Urls[fed + 1])
  /\ UNCHANGED <<resChan, errChan, callerVars, workerVars, panicked>>

-----------------------------------------------------------------------------
(* The caller *)

\* The next task goes to a worker that waits for one.
Submit(w) ==
  /\ submitted < Count /\ state[w] = "idle"
  /\ submitted' = submitted + 1
  /\ state' = [state EXCEPT ![w] = "task"]
  /\ UNCHANGED <<fed, channelVars, open, rdfs, errs, outcome, fetched, url, tries,
                 failures, lost, notRdf, panicked>>

\* In its select the caller takes any message there is, or finds that the time is up.
Selecting == submitted = Count /\ open /\ Taken < Count

TakeFeed ==
  /\ Selecting /\ resChan # <<>>
  /\ rdfs' = Append(rdfs, Head(resChan)) /\ resChan' = Tail(resChan)
  /\ UNCHANGED <<fed, reqChan, errChan, open, submitted, errs, outcome, fetched, workerVars,
                 panicked>>

TakeError ==
  /\ Selecting /\ errChan # <<>>
  /\ errs' = errs + 1 /\ errChan' = Tail(errChan)
  /\ UNCHANGED <<fed, reqChan, resChan, open, submitted, rdfs, outcome, fetched, workerVars,
                 panicked>>

Close(o, cpes) ==
  /\ open' = FALSE /\ outcome' = o /\ fetched' = cpes
  /\ UNCHANGED <<fed, channelVars, submitted, rdfs, errs, workerVars, panicked>>

Timeout == Selecting /\ Close("timeout", {})

\* What Unmarshal finds in the body of u: no items in a document that is no RDF.
Rdf(u) == IF u \in notRdf THEN <<>> ELSE Feed[u]

\* The CPEs of the feeds in the order in which the caller goes over them: feed by feed as
\* these arrived, and each from its first element to its last.
Listing(p) == Rdf(rdfs[p[1]])[p[2]]

Listings ==
  {p \in (DOMAIN rdfs) \X (UNION {DOMAIN Feed[u] : u \in Url}) :
     p[2] \in DOMAIN Rdf(rdfs[p[1]]) /\ Listing(p).cpe \notin Unparsable}

Before(p, q) == p[1] < q[1] \/ (p[1] = q[1] /\ p[2] < q[2])

\* A CPE that is listed again takes the name of the later listing.
Overwritten == {p \in Listings :
                  \E q \in Listings : Listing(q).cpe = Listing(p).cpe /\ Before(p, q)}

\* Each well-formed CPE once, under the name it was last listed with.
Merged == {[title |-> Listing(p).name, cpe |-> Listing(p).cpe] : p \in Listings \ Overwritten}

\* Mutant of Return: what was downloaded is merged though there were errors.
ReturnAnyway == open /\ submitted = Count /\ Taken = Count /\ Close("feed", Merged)

\* All feeds are there, or some could not be had and there is none.
Return ==
  /\ open /\ submitted = Count /\ Taken = Count
  /\ IF errs = 0 THEN Close("feed", Merged) ELSE Close("error", {})

-----------------------------------------------------------------------------
(* A worker *)

\* Mutant of Download: the failures of the worker's last download are counted on.
DownloadCountedOn(w, u) ==
  /\ url' = [url EXCEPT ![w] = u]
  /\ state' = [state EXCEPT ![w] = "download"]
  /\ UNCHANGED tries

Download(w, u) ==
  /\ url' = [url EXCEPT ![w] = u]
  /\ tries' = [tries EXCEPT ![w] = 0]
  /\ state' = [state EXCEPT ![w] = "download"]

Receive(w) ==
  /\ state[w] = "task" /\ reqChan # <<>>
  /\ reqChan' = Tail(reqChan)
  /\ Download(w, Head(reqChan))
  /\ UNCHANGED <<fed, resChan, errChan, callerVars, failures, lost, notRdf, panicked>>

\* A channel that is closed and empty yields no URL, from which nothing can be downloaded.
ReceiveClosed(w) ==
  /\ state[w] = "task" /\ reqChan = <<>> /\ ~open
  /\ Download(w, NoUrl)
  /\ UNCHANGED <<fed, channelVars, callerVars, failures, lost, notRdf, panicked>>

\* A body is the RDF of its URL, some other XML document, or no XML at all; only the last is
\* an error.
Unmarshal(w) ==
  \/ state' = [state EXCEPT ![w] = "feed"] /\ UNCHANGED <<lost, notRdf>>
  \/ /\ state' = [state EXCEPT ![w] = "feed"]
     /\ notRdf' = notRdf \cup {url[w]}
     /\ UNCHANGED lost
  \/ /\ state' = [state EXCEPT ![w] = "error"]
     /\ lost' = lost \cup {url[w]}
     /\ UNCHANGED notRdf

\* An attempt brings a body, whatever the HTTP status: that of an error page counts as well.
AttemptSucceeds(w) ==
  /\ state[w] = "download" /\ url[w] # NoUrl
  /\ Unmarshal(w)
  /\ UNCHANGED <<fed, channelVars, callerVars, url, tries, failures, panicked>>

\* One attempt more has failed; the loop retries, unless its time is up. The last failure
\* ends the loop as a success would, and is told apart by the count.
AttemptFails(w) ==
  /\ state[w] = "download" /\ tries[w] < RetryMax
  /\ tries' = [tries EXCEPT ![w] = @ + 1]
  /\ failures' = [u \in Url |-> failures[u] + IF u = url[w] THEN 1 ELSE 0]
  /\ \/ /\ tries'[w] < RetryMax
        /\ UNCHANGED <<state, lost>>
     \/ /\ state' = [state EXCEPT ![w] = "error"]
        /\ lost' = IF tries'[w] = RetryMax THEN lost ELSE lost \cup ({url[w]} \ {NoUrl})
  /\ UNCHANGED <<fed, channelVars, callerVars, url, notRdf, panicked>>

SendFeed(w) ==
  /\ state[w] = "feed" /\ open /\ Len(resChan) < Count
  /\ resChan' = Append(resChan, url[w])
  /\ state' = [state EXCEPT ![w] = "idle"]
  /\ UNCHANGED <<fed, reqChan, errChan, callerVars, url, tries, failures, lost, notRdf,
                 panicked>>

\* Mutant of SendError: errChan has no room, so that only a caller in its select takes errors.
SendErrorUnbuffered(w) ==
  /\ state[w] = "error" /\ Selecting /\ errChan = <<>>
  /\ errChan' = Append(errChan, url[w])
  /\ state' = [state EXCEPT ![w] = "idle"]
  /\ UNCHANGED <<fed, reqChan, resChan, callerVars, url, tries, failures, lost, notRdf,
                 panicked>>

\* Mutant of SendError: after the error the worker goes on to send a feed as well.
SendErrorNoReturn(w) ==
  /\ state[w] = "error" /\ open /\ Len(errChan) < Count
  /\ errChan' = Append(errChan, url[w])
  /\ state' = [state EXCEPT ![w] = "feed"]
  /\ UNCHANGED <<fed, reqChan, resChan, callerVars, url, tries, failures, lost, notRdf,
                 panicked>>

SendError(w) ==
  /\ state[w] = "error" /\ open /\ Len(errChan) < Count
  /\ errChan' = Append(errChan, url[w])
  /\ state' = [state EXCEPT ![w] = "idle"]
  /\ UNCHANGED <<fed, reqChan, resChan, callerVars, url, tries, failures, lost, notRdf,
                 panicked>>

\* A send to a closed channel, by the feeder or by a worker, kills the process.
SendOnClosed ==
  /\ ~open
  /\ fed < Count \/ \E w \in Thread : state[w] \in {"feed", "error"}
  /\ panicked' = TRUE
  /\ UNCHANGED <<fed, channelVars, callerVars, workerVars>>

WorkerStep(w) ==
  \/ Receive(w) \/ ReceiveClosed(w) \/ AttemptSucceeds(w) \/ AttemptFails(w)
  \/ SendFeed(w) \/ SendError(w)

Next ==
  /\ ~panicked
  /\ \/ Feeder \/ TakeFeed \/ TakeError \/ Timeout \/ Return \/ SendOnClosed
     \/ \E w \in Thread : Submit(w) \/ WorkerStep(w)

Spec == Init /\ [][Next]_vars

\* The Go scheduler runs some goroutine as long as one can run.
FairSpec == Spec /\ WF_vars(Next)

-----------------------------------------------------------------------------
(***************************************************************************)
(* Properties                                                              *)
(***************************************************************************)

WellFormed == {l \in UNION {ToSet(Rdf(u)) : u \in Url} : l.cpe \notin Unparsable}

\* What FetchJVN returns as the feed lacks no RDF that was there to be had: it has the
\* well-formed CPEs of every URL but those that answered with another XML document (as an
\* error page may be), each once, under a name that some such URL lists for it; though the
\* caller counts messages without knowing whose they are.
FeedHasEveryRdf ==
  outcome = "feed" =>
    /\ {f.cpe : f \in fetched} = {l.cpe : l \in WellFormed}
    /\ \A f \in fetched : [cpe |-> f.cpe, name |-> f.title] \in WellFormed
    /\ \A f, g \in fetched : f.cpe = g.cpe => f = g

\* A few failures that a retry makes good do not fail the whole fetch: behind an error is
\* a URL whose attempts have all failed, whose time was up, or whose body is no XML.
ErrorHasCause ==
  outcome = "error" => \E u \in Url : failures[u] = RetryMax \/ u \in lost

\* Only a timeout closes channels that a goroutine still sends to: a fetch that goes on
\* to store its feed is not killed by its own downloads.
PanicOnlyAfterTimeout == panicked => outcome = "timeout"

\* The call returns, whatever fails: no goroutine waits for room in a channel, or for a
\* task, in a way that keeps the caller from handing out the next one.
Returns == <>(outcome # "none")
=============================================================================
