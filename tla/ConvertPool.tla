----------------------------- MODULE ConvertPool -----------------------------
(***************************************************************************)
(* models.ConvertToModels and util.GenWorkers: the pool of goroutines that *)
(* turns a chunk of fetched titles into categorized CPEs.                  *)
(*                                                                         *)
(* Four kinds of goroutine meet over three channels: the caller hands out  *)
(* tasks (unbuffered), a feeder fills reqChan, workers take a title from   *)
(* reqChan and send the records of its CPEs to resChan, from which the     *)
(* caller takes as many results as the chunk has titles. On return the     *)
(* caller closes reqChan and resChan, whoever still uses them.             *)
(***************************************************************************)
EXTENDS Naturals, SequencesExt

CONSTANTS
  Thread,       \* workers (option threads)
  CpeName,
  Chunks,       \* chunks: the CPEs of each title, in the order of the slice
  Unparsable,   \* CPE names that unbindFn rejects
  Blank,        \* what is converted from the empty name unbindFn returns with an error
  Nil

ASSUME ChunkAssumption ==
  /\ Chunks \subseteq Seq(Seq(CpeName))
  /\ Unparsable \subseteq CpeName
  /\ {Nil, Blank} \cap CpeName = {} /\ Nil # Blank

VARIABLES
  chunk,      \* argument fetchedCPEs
  fed,        \* titles the feeder has sent
  reqChan,    \* titles waiting for a worker
  resChan,    \* results waiting for the caller
  open,       \* are reqChan and resChan open?
  submitted,  \* tasks handed to workers
  collected,  \* results the caller has taken
  converted,  \* the answer: a bag of records
  state,      \* per worker: waits for a task, for a title, or converts
  work,       \* per worker: CPEs of its title not converted yet
  nilSent,    \* per worker: has the error of the first of them been reported?
  panicked    \* a goroutine has panicked, and the process died

vars == <<chunk, fed, reqChan, resChan, open, submitted, collected, converted, state, work,
          nilSent, panicked>>
callerVars == <<submitted, collected, converted, open>>

Titles == Len(chunk)
Record == CpeName \cup {Blank}

\* Both channels have room for one entry per title.
ConvertTypeOK ==
  /\ chunk \in Chunks
  /\ fed \in 0..Titles /\ submitted \in 0..Titles /\ collected \in 0..Titles
  /\ reqChan \in Seq(Seq(CpeName)) /\ Len(reqChan) <= Titles
  /\ resChan \in Seq(Record \cup {Nil}) /\ Len(resChan) <= Titles
  /\ IsABag(converted) /\ BagToSet(converted) \subseteq Record
  /\ open \in BOOLEAN /\ panicked \in BOOLEAN
  /\ state \in [Thread -> {"idle", "task", "title"}]
  /\ work \in [Thread -> Seq(CpeName)]
  /\ nilSent \in [Thread -> BOOLEAN]

Init ==
  /\ chunk \in Chunks
  /\ fed = 0 /\ reqChan = <<>> /\ resChan = <<>> /\ open = TRUE
  /\ submitted = 0 /\ collected = 0 /\ converted = EmptyBag
  /\ state = [w \in Thread |-> "idle"]
  /\ work = [w \in Thread |-> <<>>]
  /\ nilSent = [w \in Thread |-> FALSE]
  /\ panicked = FALSE

-----------------------------------------------------------------------------
(* The feeder *)

Feed ==
  /\ fed < Titles /\ open
  /\ reqChan' = Append(reqChan, chunk[fed + 1])
  /\ fed' = fed + 1
  /\ UNCHANGED <<chunk, resChan, callerVars, state, work, nilSent, panicked>>

-----------------------------------------------------------------------------
(* The caller *)

\* The next task goes to a worker that waits for one.
Submit(w) ==
  /\ submitted < Titles
  /\ state[w] = "idle"
  /\ submitted' = submitted + 1
  /\ state' = [state EXCEPT ![w] = "task"]
  /\ UNCHANGED <<chunk, fed, reqChan, resChan, open, collected, converted, work, nilSent,
                 panicked>>

\* The caller takes one result per title, and drops those of rejected names.
Collect ==
  /\ submitted = Titles /\ collected < Titles
  /\ resChan # <<>>
  /\ collected' = collected + 1
  /\ resChan' = Tail(resChan)
  /\ converted' = IF Head(resChan) = Nil THEN converted
                                         ELSE converted (+) SetToBag({Head(resChan)})
  /\ UNCHANGED <<chunk, fed, reqChan, open, submitted, state, work, nilSent, panicked>>

\* Mutant of Return: the caller does not wait for the last result.
ReturnEarly ==
  /\ submitted = Titles /\ collected + 1 >= Titles /\ open
  /\ open' = FALSE
  /\ UNCHANGED <<chunk, fed, reqChan, resChan, submitted, collected, converted, state, work,
                 nilSent, panicked>>

\* The deferred calls close both channels; the channel of tasks stays open.
Return ==
  /\ submitted = Titles /\ collected = Titles /\ open
  /\ open' = FALSE
  /\ UNCHANGED <<chunk, fed, reqChan, resChan, submitted, collected, converted, state, work,
                 nilSent, panicked>>

-----------------------------------------------------------------------------
(* A worker *)

\* Mutant of Continue: a worker runs one task, not all that come.
ContinueOnce(w, cs) ==
  /\ work' = [work EXCEPT ![w] = cs]
  /\ state' = [state EXCEPT ![w] = IF cs = <<>> THEN "stopped" ELSE "title"]

\* After the last CPE of its title a worker waits for another task.
Continue(w, cs) ==
  /\ work' = [work EXCEPT ![w] = cs]
  /\ state' = [state EXCEPT ![w] = IF cs = <<>> THEN "idle" ELSE "title"]

\* Mutant of Receive: the title stays in the channel.
ReceivePeek(w) ==
  /\ state[w] = "task" /\ reqChan # <<>> /\ ~panicked
  /\ Continue(w, Head(reqChan))
  /\ UNCHANGED <<chunk, fed, reqChan, resChan, callerVars, nilSent, panicked>>

Receive(w) ==
  /\ state[w] = "task" /\ reqChan # <<>> /\ ~panicked
  /\ Continue(w, Head(reqChan))
  /\ reqChan' = Tail(reqChan)
  /\ UNCHANGED <<chunk, fed, resChan, callerVars, nilSent, panicked>>

\* A channel that is closed and empty yields a title without CPEs.
ReceiveClosed(w) ==
  /\ state[w] = "task" /\ reqChan = <<>> /\ ~open /\ ~panicked
  /\ Continue(w, <<>>)
  /\ UNCHANGED <<chunk, fed, reqChan, resChan, callerVars, nilSent, panicked>>

Rejected(w) == Head(work[w]) \in Unparsable

\* Mutant of SendResult: resChan takes any number of results.
SendResultUnbounded(v) ==
  /\ open
  /\ resChan' = Append(resChan, v)

\* A send waits while the channel is full.
SendResult(v) ==
  /\ open /\ Len(resChan) < Titles
  /\ resChan' = Append(resChan, v)

SendNil(w) ==
  /\ state[w] = "title" /\ Rejected(w) /\ ~nilSent[w]
  /\ SendResult(Nil)
  /\ nilSent' = [nilSent EXCEPT ![w] = TRUE]
  /\ UNCHANGED <<chunk, fed, reqChan, callerVars, state, work, panicked>>

\* The error of unbindFn does not end the iteration: a record follows in any case.
SendRecord(w) ==
  /\ state[w] = "title" /\ (Rejected(w) => nilSent[w])
  /\ SendResult(IF Rejected(w) THEN Blank ELSE Head(work[w]))
  /\ Continue(w, Tail(work[w]))
  /\ nilSent' = [nilSent EXCEPT ![w] = FALSE]
  /\ UNCHANGED <<chunk, fed, reqChan, callerVars, panicked>>

\* A send to a closed channel, by the feeder or by a worker, kills the process. (Of the
\* steps of the others, only receiving does not need the channels to be open.)
SendOnClosed ==
  /\ ~open /\ ~panicked
  /\ fed < Titles \/ \E w \in Thread : state[w] = "title"
  /\ panicked' = TRUE
  /\ UNCHANGED <<chunk, fed, reqChan, resChan, callerVars, state, work, nilSent>>

Next ==
  \/ Feed \/ Collect \/ Return \/ SendOnClosed
  \/ \E w \in Thread : \/ Submit(w) \/ Receive(w) \/ ReceiveClosed(w)
                       \/ SendNil(w) \/ SendRecord(w)

Spec == Init /\ [][Next]_vars

\* The Go scheduler runs some goroutine as long as one can run.
FairSpec == Spec /\ WF_vars(Next)

-----------------------------------------------------------------------------
(***************************************************************************)
(* Properties                                                              *)
(***************************************************************************)

CpeAt(p) == chunk[p[1]][p[2]]

\* The places of the chunk, a title and a CPE of it, that have a well-formed name.
Places ==
  {p \in (DOMAIN chunk) \X (UNION {DOMAIN chunk[i] : i \in DOMAIN chunk}) :
     p[2] \in DOMAIN chunk[p[1]] /\ CpeAt(p) \notin Unparsable}

Occurrences(c) == {p \in Places : CpeAt(p) = c}

\* One record for each of these places.
Expected == [c \in {CpeAt(p) : p \in Places} |-> Cardinality(Occurrences(c))]

\* Each title has one CPE, with a well-formed name, as in the NVD and JVN feeds.
OneCpeEach ==
  \A i \in DOMAIN chunk : Len(chunk[i]) = 1 /\ chunk[i][1] \notin Unparsable

\* Then the call returns with one record for each CPE, whatever the schedule, though
\* the caller counts results without knowing whose they are.
ConvertsAll == OneCpeEach ~> (~open /\ converted = Expected)

\* And no goroutine is left behind to use a channel that is closed.
NoPanic == OneCpeEach => ~panicked

\* The records of a CPE in the answer.
Copies(c) == IF c \in BagToSet(converted) THEN converted[c] ELSE 0

\* Whatever the chunk, no CPE is converted more often than it occurs in it, and none whose
\* name is malformed.
NothingConvertedTwice == \A c \in CpeName : Copies(c) <= Cardinality(Occurrences(c))

\* "InsertCpes inserts Cpe Information into DB": of what it was given, nothing is lost.
EveryCpeConverted == ~open => Expected \sqsubseteq converted
=============================================================================
