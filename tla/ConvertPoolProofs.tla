--------------------------- MODULE ConvertPoolProofs ---------------------------
(***************************************************************************)
(* Theorems about ConvertPool, for any number of workers and any chunks:   *)
(* what becomes of each CPE on its way through the channels.               *)
(***************************************************************************)
EXTENDS ConvertPool, FiniteSetTheorems, TLAPS

-----------------------------------------------------------------------------
(***************************************************************************)
(* The inductive invariant                                                 *)
(***************************************************************************)

Converting == {w \in Thread : state[w] = "title"}

\* The first titles, those that workers have received.
Received == fed - Len(reqChan)

\* The titles wait in their order, and a worker that converts has something left to convert.
InOrder ==
  /\ Len(reqChan) <= fed
  /\ \A i \in 1..Len(reqChan) : reqChan[i] = chunk[Received + i]
  /\ \A w \in Converting : work[w] # <<>>
  /\ IsFiniteSet(Converting)

\* What is made of a malformed name is no record of that name.
OnlyWellFormed ==
  /\ \A i \in DOMAIN resChan : resChan[i] \notin Unparsable
  /\ BagToSet(converted) \cap Unparsable = {}

\* Where a CPE may be: in a title that no worker has received, with a worker, among the
\* results, or in the answer.
At(q, c) == {i \in DOMAIN q : q[i] = c}
Held(workers, works, c) ==
  {p \in workers \X (UNION {DOMAIN works[w] : w \in workers}) : p[2] \in At(works[p[1]], c)}

Unreceived(c) == {p \in Occurrences(c) : p[1] > Received}
InWork(c) == Held(Converting, work, c)

\* No step loses a CPE with a well-formed name, and none doubles it.
Conserved ==
  \A c \in CpeName \ Unparsable :
    /\ IsFiniteSet(Unreceived(c)) /\ IsFiniteSet(InWork(c))
    /\ Cardinality(Occurrences(c)) = Cardinality(Unreceived(c)) + Cardinality(InWork(c))
                                     + Cardinality(At(resChan, c)) + Copies(c)

\* With one well-formed CPE per title every title that was fed is in one place, so that
\* results in the number of titles are those of all titles.
OneEach ==
  OneCpeEach =>
    /\ fed = Len(reqChan) + Cardinality(Converting) + Len(resChan) + collected
    /\ \A w \in Converting : Len(work[w]) = 1 /\ Head(work[w]) \notin Unparsable
    /\ resChan \in Seq(CpeName) /\ BagToSet(converted) \subseteq CpeName
    /\ ~panicked

Closing == ~open => collected = Titles

Inv ==
  ConvertTypeOK /\ InOrder /\ OnlyWellFormed /\ Conserved /\ OneEach /\ Closing

-----------------------------------------------------------------------------
(***************************************************************************)
(* Lemmas: counting places                                                 *)
(***************************************************************************)

LEMMA Disjoint ==
  ASSUME NEW S, NEW T, IsFiniteSet(S), IsFiniteSet(T), S \cap T = {}
  PROVE  /\ IsFiniteSet(S \cup T) /\ Cardinality(S) \in Nat /\ Cardinality(T) \in Nat
         /\ Cardinality(S \cup T) = Cardinality(S) + Cardinality(T)
<1>1. Cardinality(S) \in Nat /\ Cardinality(T) \in Nat
  BY FS_CardinalityType
<1>2. /\ IsFiniteSet(S \cup T)
      /\ Cardinality(S \cup T) = Cardinality(S) + Cardinality(T) - Cardinality(S \cap T)
  BY FS_Union
<1>3. Cardinality(S \cap T) = 0
  BY FS_EmptySet
<1> QED
  BY <1>1, <1>2, <1>3

LEMMA Row ==
  ASSUME NEW x, NEW S, IsFiniteSet(S)
  PROVE  /\ IsFiniteSet({x} \X S) /\ Cardinality(S) \in Nat
         /\ Cardinality({x} \X S) = Cardinality(S)
<1>1. Cardinality(S) \in Nat
  BY FS_CardinalityType
<1>2. IsFiniteSet({x}) /\ Cardinality({x}) = 1
  BY FS_Singleton
<1>3. IsFiniteSet({x} \X S) /\ Cardinality({x} \X S) = Cardinality({x}) * Cardinality(S)
  BY <1>2, FS_Product
<1> QED
  BY <1>1, <1>2, <1>3

LEMMA AtFinite ==
  ASSUME NEW S, NEW q \in Seq(S), NEW c
  PROVE  IsFiniteSet(At(q, c)) /\ Cardinality(At(q, c)) \in Nat
<1>1. At(q, c) \subseteq 1..Len(q) /\ Len(q) \in Nat
  BY DEF At
<1>2. IsFiniteSet(1..Len(q))
  BY <1>1, FS_Interval
<1> QED
  BY <1>1, <1>2, FS_Subset, FS_CardinalityType

LEMMA AtNone ==
  ASSUME NEW c
  PROVE  At(<<>>, c) = {} /\ IsFiniteSet(At(<<>>, c)) /\ Cardinality(At(<<>>, c)) = 0
<1>1. At(<<>>, c) = {}
  BY DEF At
<1> QED
  BY <1>1, FS_EmptySet

LEMMA AtAppend ==
  ASSUME NEW S, NEW q \in Seq(S), NEW e \in S, NEW c
  PROVE  Cardinality(At(Append(q, e), c)) = Cardinality(At(q, c)) + IF e = c THEN 1 ELSE 0
<1>1. /\ DOMAIN q = 1..Len(q) /\ Len(q) \in Nat
      /\ DOMAIN Append(q, e) = 1..(Len(q) + 1)
      /\ \A i \in 1..Len(q) : Append(q, e)[i] = q[i]
      /\ Append(q, e)[Len(q) + 1] = e
  OBVIOUS
<1>2. IsFiniteSet(At(q, c)) /\ Cardinality(At(q, c)) \in Nat
  BY AtFinite
<1>3. Len(q) + 1 \notin At(q, c)
  BY <1>1 DEF At
<1>4. \A i : i \in 1..(Len(q) + 1) <=> i \in 1..Len(q) \/ i = Len(q) + 1
  BY <1>1
<1>5. CASE e = c
  <2>1. At(Append(q, e), c) = At(q, c) \cup {Len(q) + 1}
    BY <1>1, <1>4, <1>5 DEF At
  <2> QED
    BY <1>2, <1>3, <1>5, <2>1, FS_AddElement
<1>6. CASE e # c
  <2>1. At(Append(q, e), c) = At(q, c)
    BY <1>1, <1>4, <1>6 DEF At
  <2> QED
    BY <1>2, <1>6, <2>1
<1> QED
  BY <1>5, <1>6

LEMMA AtTail ==
  ASSUME NEW S, NEW q \in Seq(S), q # <<>>, NEW c
  PROVE  Cardinality(At(q, c)) = Cardinality(At(Tail(q), c)) + IF Head(q) = c THEN 1 ELSE 0
<1>1. /\ DOMAIN q = 1..Len(q) /\ Len(q) \in Nat /\ Len(q) > 0 /\ Head(q) = q[1]
      /\ Tail(q) \in Seq(S) /\ DOMAIN Tail(q) = 1..(Len(q) - 1)
      /\ \A i \in 1..(Len(q) - 1) : Tail(q)[i] = q[i + 1]
  OBVIOUS
<1>2. /\ IsFiniteSet(At(q, c)) /\ Cardinality(At(q, c)) \in Nat
      /\ IsFiniteSet(At(Tail(q), c)) /\ Cardinality(At(Tail(q), c)) \in Nat
  BY <1>1, AtFinite
<1> DEFINE f == [i \in At(Tail(q), c) |-> i + 1]
<1>3. \A i \in At(Tail(q), c) : i \in 1..(Len(q) - 1) /\ i + 1 \in At(q, c) \ {1}
  BY <1>1 DEF At
<1>4. ASSUME NEW i \in At(q, c) \ {1}
      PROVE  i - 1 \in At(Tail(q), c) /\ (i - 1) + 1 = i
  <2>1. i \in 1..Len(q) /\ i # 1 /\ q[i] = c
    BY <1>1 DEF At
  <2>2. i - 1 \in 1..(Len(q) - 1) /\ (i - 1) + 1 = i
    BY <1>1, <2>1
  <2>3. Tail(q)[i - 1] = c
    BY <1>1, <2>1, <2>2
  <2> QED
    BY <1>1, <2>2, <2>3 DEF At
<1>5. f \in Bijection(At(Tail(q), c), At(q, c) \ {1})
  <2>1. f \in [At(Tail(q), c) -> At(q, c) \ {1}]
    BY <1>3
  <2>2. \A i, j \in At(Tail(q), c) : f[i] = f[j] => i = j
    <3>1. \A i \in At(Tail(q), c) : i \in Int
      BY <1>3
    <3> QED
      BY <3>1
  <2>3. \A k \in At(q, c) \ {1} : \E i \in At(Tail(q), c) : f[i] = k
    BY <1>4
  <2> QED
    BY <2>1, <2>2, <2>3 DEF Bijection, Injection, Surjection, IsInjective
<1>6. Cardinality(At(q, c) \ {1}) = Cardinality(At(Tail(q), c))
  BY <1>2, <1>5, FS_Bijection DEF ExistsBijection
<1>7. 1 \in At(q, c) <=> Head(q) = c
  BY <1>1 DEF At
<1>8. Cardinality(At(q, c) \ {1}) = IF 1 \in At(q, c) THEN Cardinality(At(q, c)) - 1
                                                      ELSE Cardinality(At(q, c))
  BY <1>2, FS_RemoveElement
<1> QED
  BY ONLY <1>2, <1>6, <1>7, <1>8

LEMMA PlacesFinite ==
  ASSUME chunk \in Seq(Seq(CpeName))
  PROVE  IsFiniteSet(Places)
<1> DEFINE D == {DOMAIN chunk[i] : i \in DOMAIN chunk}
           f == [i \in DOMAIN chunk |-> DOMAIN chunk[i]]
<1>1. IsFiniteSet(DOMAIN chunk)
  BY FS_Interval
<1>2. f \in Surjection(DOMAIN chunk, D)
  BY DEF Surjection
<1>3. IsFiniteSet(D)
  BY <1>1, <1>2, FS_Surjection
<1>4. \A T \in D : IsFiniteSet(T)
  <2> SUFFICES ASSUME NEW i \in DOMAIN chunk PROVE IsFiniteSet(DOMAIN chunk[i])
    OBVIOUS
  <2>1. DOMAIN chunk[i] = 1..Len(chunk[i]) /\ Len(chunk[i]) \in Nat
    OBVIOUS
  <2>2. IsFiniteSet(1..Len(chunk[i]))
    BY <2>1, FS_Interval
  <2> QED
    BY <2>1, <2>2
<1>5. IsFiniteSet(UNION D)
  BY <1>3, <1>4, FS_UNION
<1>6. IsFiniteSet((DOMAIN chunk) \X UNION D)
  BY <1>1, <1>5, FS_Product
<1> QED
  BY <1>6, FS_Subset DEF Places

\* What one worker holds is counted apart from what the others hold.
LEMMA HeldSplit ==
  ASSUME NEW workers, NEW works, NEW c, NEW w \in workers,
         IsFiniteSet(Held(workers \ {w}, works, c)), IsFiniteSet(At(works[w], c))
  PROVE  /\ IsFiniteSet(Held(workers, works, c))
         /\ Cardinality(Held(workers, works, c)) =
              Cardinality(Held(workers \ {w}, works, c)) + Cardinality(At(works[w], c))
<1> DEFINE rest == Held(workers \ {w}, works, c)
           own == {w} \X At(works[w], c)
<1>1. Held(workers, works, c) = rest \cup own /\ rest \cap own = {}
  BY DEF Held, At
<1>2. IsFiniteSet(own) /\ Cardinality(own) = Cardinality(At(works[w], c))
  BY Row
<1>3. IsFiniteSet(rest)
  OBVIOUS
<1> HIDE DEF rest, own
<1>4. IsFiniteSet(rest \cup own)
      /\ Cardinality(rest \cup own) = Cardinality(rest) + Cardinality(own)
  BY <1>1, <1>2, <1>3, Disjoint
<1> QED
  BY <1>1, <1>2, <1>4 DEF rest

LEMMA HeldLess ==
  ASSUME NEW workers, NEW works, NEW c, NEW w, IsFiniteSet(Held(workers, works, c))
  PROVE  IsFiniteSet(Held(workers \ {w}, works, c))
<1>1. Held(workers \ {w}, works, c) \subseteq Held(workers, works, c)
  BY DEF Held
<1> QED
  BY <1>1, FS_Subset

LEMMA HeldSame ==
  ASSUME NEW workers, NEW works, NEW others, NEW c, \A w \in workers : works[w] = others[w]
  PROVE  Held(workers, works, c) = Held(workers, others, c)
BY DEF Held

\* A worker that continues with some CPEs holds them and nothing else.
LEMMA Continued ==
  ASSUME ConvertTypeOK, NEW w \in Thread, NEW cs \in Seq(CpeName), Continue(w, cs), NEW c,
         IsFiniteSet(InWork(c))
  PROVE  /\ IsFiniteSet(InWork(c)')
         /\ Cardinality(Held(Converting \ {w}, work, c)) \in Nat
         /\ Cardinality(InWork(c)') =
              Cardinality(Held(Converting \ {w}, work, c)) + Cardinality(At(cs, c))
<1> DEFINE Rest == Held(Converting \ {w}, work, c)
<1>1. /\ state \in [Thread -> {"idle", "task", "title"}] /\ work \in [Thread -> Seq(CpeName)]
      /\ state' = [state EXCEPT ![w] = IF cs = <<>> THEN "idle" ELSE "title"]
      /\ work' = [work EXCEPT ![w] = cs]
  BY DEF ConvertTypeOK, Continue
<1>2. Converting' \ {w} = Converting \ {w} /\ (w \in Converting' <=> cs # <<>>) /\ work'[w] = cs
  BY <1>1 DEF Converting
<1>3. Held(Converting \ {w}, work', c) = Rest
  <2>1. \A x \in Converting \ {w} : work'[x] = work[x]
    BY <1>1 DEF Converting
  <2> QED
    BY <2>1, HeldSame
<1>4. IsFiniteSet(Rest) /\ Cardinality(Rest) \in Nat
  BY HeldLess, FS_CardinalityType DEF InWork
<1>5. InWork(c)' = Held(Converting', work', c)
  BY DEF InWork, Held, At
<1>6. CASE cs = <<>>
  <2>1. Converting' = Converting \ {w}
    BY <1>2, <1>6
  <2> QED
    BY <1>3, <1>4, <1>5, <1>6, <2>1, AtNone
<1>7. CASE cs # <<>>
  <2>1. IsFiniteSet(At(work'[w], c))
    BY <1>2, AtFinite
  <2> DEFINE workers == Converting'
             works == work'
  <2> HIDE DEF Rest, workers, works
  <2>2. /\ w \in workers /\ Held(workers \ {w}, works, c) = Rest
        /\ IsFiniteSet(Held(workers \ {w}, works, c)) /\ IsFiniteSet(At(works[w], c))
    BY <1>2, <1>3, <1>4, <1>7, <2>1 DEF workers, works
  <2>3. /\ IsFiniteSet(Held(workers, works, c))
        /\ Cardinality(Held(workers, works, c)) =
             Cardinality(Held(workers \ {w}, works, c)) + Cardinality(At(works[w], c))
    BY ONLY <2>2, HeldSplit
  <2> QED
    BY <1>2, <1>4, <1>5, <2>2, <2>3 DEF Rest, workers, works
<1> QED
  BY <1>6, <1>7

\* A receiver had nothing before.
LEMMA HeldNothing ==
  ASSUME NEW w, w \notin Converting, NEW c
  PROVE  Held(Converting \ {w}, work, c) = InWork(c)
<1>1. Converting \ {w} = Converting
  OBVIOUS
<1> QED
  BY <1>1 DEF InWork

LEMMA TypeFacts ==
  ASSUME ConvertTypeOK
  PROVE  /\ chunk \in Seq(Seq(CpeName)) /\ Titles \in Nat /\ DOMAIN chunk = 1..Titles
         /\ fed \in Nat /\ fed <= Titles /\ collected \in Nat /\ collected <= Titles
         /\ submitted \in Nat
         /\ Len(reqChan) \in Nat /\ Len(resChan) \in Nat
BY ChunkAssumption DEF ConvertTypeOK, Titles

LEMMA NamesApart == /\ Nil \notin CpeName /\ Blank \notin CpeName /\ Nil # Blank
                    /\ Unparsable \subseteq CpeName
BY ChunkAssumption

LEMMA SameChunk ==
  ASSUME chunk' = chunk
  PROVE  /\ Titles' = Titles /\ Places' = Places /\ OneCpeEach' = OneCpeEach
         /\ \A c : Occurrences(c)' = Occurrences(c)
BY DEF Titles, Places, CpeAt, OneCpeEach, Occurrences

\* The numbers are what is left to compare when sets are counted.
LEMMA Counts ==
  ASSUME Inv, NEW c \in CpeName \ Unparsable
  PROVE  /\ IsFiniteSet(Unreceived(c)) /\ Cardinality(Unreceived(c)) \in Nat
         /\ IsFiniteSet(InWork(c)) /\ Cardinality(InWork(c)) \in Nat
         /\ IsFiniteSet(At(resChan, c)) /\ Cardinality(At(resChan, c)) \in Nat
         /\ Copies(c) \in Nat
         /\ Cardinality(Occurrences(c)) = Cardinality(Unreceived(c)) + Cardinality(InWork(c))
                                          + Cardinality(At(resChan, c)) + Copies(c)
<1>1. IsFiniteSet(At(resChan, c)) /\ Cardinality(At(resChan, c)) \in Nat
  BY AtFinite DEF Inv, ConvertTypeOK
<1>2. Copies(c) \in Nat
  BY DEF Inv, ConvertTypeOK, Copies, IsABag, BagToSet
<1>3. /\ IsFiniteSet(Unreceived(c)) /\ IsFiniteSet(InWork(c))
      /\ Cardinality(Occurrences(c)) = Cardinality(Unreceived(c)) + Cardinality(InWork(c))
                                       + Cardinality(At(resChan, c)) + Copies(c)
  BY DEF Inv, Conserved
<1> QED
  BY <1>1, <1>2, <1>3, FS_CardinalityType

-----------------------------------------------------------------------------
(***************************************************************************)
(* Every step keeps the invariant                                          *)
(***************************************************************************)

LEMMA InitInv == Init => Inv
<1> SUFFICES ASSUME Init PROVE Inv
  OBVIOUS
<1>1. /\ Converting = {} /\ reqChan = <<>> /\ resChan = <<>> /\ fed = 0 /\ collected = 0
      /\ submitted = 0 /\ converted = EmptyBag /\ chunk \in Seq(Seq(CpeName))
  BY ChunkAssumption DEF Init, Converting
<1>2. Len(reqChan) = 0 /\ Len(resChan) = 0 /\ Received = 0 /\ Titles \in Nat
  <2>1. Len(reqChan) = 0 /\ Len(resChan) = 0 /\ fed = 0
    BY <1>1
  <2>2. Received = 0
    BY ONLY <2>1 DEF Received
  <2>3. Titles \in Nat
    BY ONLY <1>1 DEF Titles
  <2> QED
    BY <2>1, <2>2, <2>3
<1>3. ConvertTypeOK
  <2>1. fed \in 0..Titles /\ submitted \in 0..Titles /\ collected \in 0..Titles
    BY <1>1, <1>2
  <2>2. /\ reqChan \in Seq(Seq(CpeName)) /\ resChan \in Seq(Record \cup {Nil})
        /\ Len(reqChan) <= Titles /\ Len(resChan) <= Titles
    BY <1>1, <1>2
  <2>3. IsABag(converted) /\ BagToSet(converted) \subseteq Record
    BY <1>1 DEF IsABag, BagToSet, EmptyBag, SetToBag
  <2>4. chunk \in Chunks /\ open \in BOOLEAN /\ panicked \in BOOLEAN
    BY DEF Init
  <2>5. <<>> \in Seq(CpeName) /\ FALSE \in BOOLEAN
    OBVIOUS
  <2>6. /\ state \in [Thread -> {"idle", "task", "title"}]
        /\ work \in [Thread -> Seq(CpeName)] /\ nilSent \in [Thread -> BOOLEAN]
    BY <2>5 DEF Init
  <2> QED
    BY <2>1, <2>2, <2>3, <2>4, <2>6 DEF ConvertTypeOK
<1>4. InOrder /\ Closing
  BY <1>1, <1>2, FS_EmptySet DEF InOrder, Closing, Init
<1>5. OnlyWellFormed
  BY <1>1 DEF OnlyWellFormed, BagToSet, EmptyBag, SetToBag
<1>6. Conserved
  <2> SUFFICES ASSUME NEW c \in CpeName \ Unparsable
               PROVE  /\ IsFiniteSet(Unreceived(c)) /\ IsFiniteSet(InWork(c))
                      /\ Cardinality(Occurrences(c)) =
                           Cardinality(Unreceived(c)) + Cardinality(InWork(c))
                           + Cardinality(At(resChan, c)) + Copies(c)
    BY DEF Conserved
  <2>1. IsFiniteSet(Occurrences(c))
    BY <1>1, PlacesFinite, FS_Subset DEF Occurrences
  <2>2. Unreceived(c) = Occurrences(c)
    BY <1>1, <1>2 DEF Unreceived, Occurrences, Places
  <2>3. InWork(c) = {}
    BY <1>1 DEF InWork, Held
  <2>4. Copies(c) = 0
    BY <1>1 DEF Copies, BagToSet, EmptyBag, SetToBag
  <2> QED
    BY <1>1, <2>1, <2>2, <2>3, <2>4, AtNone, FS_EmptySet, FS_CardinalityType
<1>7. OneEach
  BY <1>1, <1>2, FS_EmptySet DEF OneEach, Init, BagToSet, EmptyBag, SetToBag
<1> QED
  BY <1>3, <1>4, <1>5, <1>6, <1>7 DEF Inv

LEMMA FeedKeepsInv ==
  ASSUME Inv, Feed
  PROVE  Inv'
<1>1. /\ reqChan \in Seq(Seq(CpeName)) /\ chunk[fed + 1] \in Seq(CpeName)
      /\ fed \in Nat /\ fed + 1 \in 1..Titles /\ Titles \in Nat
  BY TypeFacts DEF Inv, ConvertTypeOK, Feed
<1>2. /\ reqChan' \in Seq(Seq(CpeName)) /\ Len(reqChan') = Len(reqChan) + 1
      /\ Len(reqChan) \in Nat
      /\ \A i \in 1..Len(reqChan) : reqChan'[i] = reqChan[i]
      /\ reqChan'[Len(reqChan) + 1] = chunk[fed + 1]
  BY <1>1 DEF Feed
<1>3. chunk' = chunk /\ fed' = fed + 1 /\ resChan' = resChan /\ UNCHANGED callerVars
      /\ state' = state /\ work' = work /\ nilSent' = nilSent /\ panicked' = panicked
  BY DEF Feed
<1>4. Received' = Received
  BY <1>1, <1>2, <1>3 DEF Received
<1>5. ConvertTypeOK'
  <2>1. fed' \in 0..Titles /\ Len(reqChan') <= Titles
    BY <1>1, <1>2, <1>3 DEF Inv, InOrder
  <2> QED
    BY <1>2, <1>3, <2>1, SameChunk DEF Inv, ConvertTypeOK, callerVars
<1>6. InOrder'
  <2>1. Received + (Len(reqChan) + 1) = fed + 1
    BY <1>1, <1>2 DEF Received
  <2>2. \A i \in 1..Len(reqChan') : i \in 1..Len(reqChan) \/ i = Len(reqChan) + 1
    BY <1>2
  <2>3. Len(reqChan') <= fed'
    BY <1>1, <1>2, <1>3 DEF Inv, InOrder
  <2>4. Converting' = Converting
    BY <1>3 DEF Converting
  <2> QED
    BY <1>2, <1>3, <1>4, <2>1, <2>2, <2>3, <2>4 DEF Inv, InOrder
<1>7. OnlyWellFormed' /\ Closing'
  BY <1>3, SameChunk DEF Inv, OnlyWellFormed, Closing, callerVars
<1>8. Conserved'
  BY <1>3, <1>4, SameChunk DEF Inv, Conserved, Unreceived, InWork, Converting, Copies, callerVars
<1>9. OneEach'
  <2>1. Converting' = Converting /\ Cardinality(Converting) \in Nat
    BY <1>3, FS_CardinalityType DEF Converting, Inv, InOrder
  <2>2. collected' = collected /\ collected \in Nat /\ Len(resChan) \in Nat
    BY <1>3, TypeFacts DEF callerVars, Inv
  <2>3. fed = Len(reqChan) + Cardinality(Converting) + Len(resChan) + collected =>
          fed' = Len(reqChan') + Cardinality(Converting) + Len(resChan) + collected
    BY <1>1, <1>2, <1>3, <2>1, <2>2
  <2> QED
    BY <1>3, <2>1, <2>2, <2>3, SameChunk DEF Inv, OneEach, callerVars
<1> QED
  BY <1>5, <1>6, <1>7, <1>8, <1>9 DEF Inv

LEMMA SubmitKeepsInv ==
  ASSUME Inv, NEW w \in Thread, Submit(w)
  PROVE  Inv'
<1>1. /\ state \in [Thread -> {"idle", "task", "title"}] /\ state[w] = "idle"
      /\ state' = [state EXCEPT ![w] = "task"] /\ submitted' = submitted + 1
      /\ submitted \in 0..Titles /\ submitted < Titles /\ Titles \in Nat
  BY TypeFacts DEF Inv, ConvertTypeOK, Submit
<1>2. Converting' = Converting
  BY <1>1 DEF Converting
<1>3. /\ chunk' = chunk /\ fed' = fed /\ reqChan' = reqChan /\ resChan' = resChan
      /\ open' = open /\ collected' = collected /\ converted' = converted /\ work' = work
      /\ nilSent' = nilSent /\ panicked' = panicked
  BY DEF Submit
<1>4. Received' = Received /\ submitted' \in 0..Titles
  BY <1>1, <1>3 DEF Received
<1>5. ConvertTypeOK'
  BY <1>1, <1>3, <1>4, SameChunk DEF Inv, ConvertTypeOK
<1>6. InOrder' /\ OnlyWellFormed' /\ Closing' /\ OneEach'
  BY <1>2, <1>3, <1>4, SameChunk DEF Inv, InOrder, OnlyWellFormed, Closing, OneEach
<1>7. Conserved'
  BY <1>2, <1>3, <1>4, SameChunk DEF Inv, Conserved, Unreceived, InWork, Copies
<1> QED
  BY <1>5, <1>6, <1>7 DEF Inv

\* The record that the caller takes is one result less and one more in the answer.
LEMMA CollectKeepsInv ==
  ASSUME Inv, Collect
  PROVE  Inv'
<1> DEFINE h == Head(resChan)
<1>1. resChan \in Seq(Record \cup {Nil}) /\ resChan # <<>> /\ resChan' = Tail(resChan)
  BY DEF Inv, ConvertTypeOK, Collect
<1>2. /\ resChan' \in Seq(Record \cup {Nil}) /\ h \in Record \cup {Nil} /\ h = resChan[1]
      /\ Len(resChan) \in Nat /\ Len(resChan) > 0 /\ Len(resChan') = Len(resChan) - 1
      /\ DOMAIN resChan = 1..Len(resChan) /\ DOMAIN resChan' = 1..Len(resChan')
      /\ \A i \in 1..Len(resChan') : i + 1 \in 1..Len(resChan) /\ resChan'[i] = resChan[i + 1]
  BY <1>1
<1>3. /\ chunk' = chunk /\ fed' = fed /\ reqChan' = reqChan /\ open' = open
      /\ submitted' = submitted /\ state' = state /\ work' = work /\ nilSent' = nilSent
      /\ panicked' = panicked /\ collected' = collected + 1 /\ collected \in Nat
      /\ collected < Titles /\ Titles \in Nat
  BY TypeFacts DEF Inv, Collect
<1>4. Received' = Received /\ Converting' = Converting
  BY <1>3 DEF Received, Converting
<1>5. h \notin Unparsable
  BY <1>2 DEF Inv, OnlyWellFormed
<1>6. /\ IsABag(converted')
      /\ BagToSet(converted') = BagToSet(converted) \cup ({h} \ {Nil})
      /\ \A c \in CpeName : Copies(c)' = Copies(c) + IF h = c THEN 1 ELSE 0
  <2>1. IsABag(converted)
    BY DEF Inv, ConvertTypeOK
  <2>2. CASE h = Nil
    <3>1. converted' = converted
      BY <2>2 DEF Collect
    <3>2. ASSUME NEW c \in CpeName PROVE h # c /\ Copies(c) \in Nat
      BY <2>1, <2>2, NamesApart DEF Copies, IsABag, BagToSet
    <3> QED
      BY <2>1, <2>2, <3>1, <3>2 DEF Copies
  <2>3. CASE h # Nil
    <3>1. converted' = converted (+) SetToBag({h})
      BY <2>3 DEF Collect
    <3>2. converted' = [e \in (DOMAIN converted) \cup {h} |->
                          (IF e \in DOMAIN converted THEN converted[e] ELSE 0)
                          + (IF e = h THEN 1 ELSE 0)]
      BY <3>1 DEF (+), SetToBag
    <3>3. \A e \in DOMAIN converted : converted[e] \in Nat /\ converted[e] > 0
      BY <2>1 DEF IsABag
    <3>4. IsABag(converted')
      <4>1. \A e \in (DOMAIN converted) \cup {h} : converted'[e] \in {n \in Nat : n > 0}
        BY <3>2, <3>3
      <4>2. DOMAIN converted' = (DOMAIN converted) \cup {h}
        BY <3>2
      <4> QED
        BY <3>2, <4>1, <4>2 DEF IsABag
    <3>5. BagToSet(converted') = BagToSet(converted) \cup ({h} \ {Nil})
      BY <2>3, <3>2 DEF BagToSet
    <3>6. ASSUME NEW c \in CpeName PROVE Copies(c)' = Copies(c) + IF h = c THEN 1 ELSE 0
      BY <3>2, <3>3 DEF Copies, BagToSet
    <3> QED
      BY <3>4, <3>5, <3>6
  <2> QED
    BY <2>2, <2>3
<1>7. ConvertTypeOK'
  <2>1. collected' \in 0..Titles
    BY <1>3
  <2>2. Len(resChan') <= Titles
    BY <1>2, <1>3 DEF Inv, ConvertTypeOK
  <2>3. BagToSet(converted') \subseteq Record
    BY <1>2, <1>6 DEF Inv, ConvertTypeOK
  <2> QED
    BY <1>2, <1>3, <1>6, <2>1, <2>2, <2>3, SameChunk DEF Inv, ConvertTypeOK
<1>8. InOrder'
  BY <1>3, <1>4 DEF Inv, InOrder
<1>9. OnlyWellFormed'
  BY <1>2, <1>5, <1>6 DEF Inv, OnlyWellFormed
<1>10. Conserved'
  <2> SUFFICES ASSUME NEW c \in CpeName \ Unparsable
               PROVE  /\ IsFiniteSet(Unreceived(c)') /\ IsFiniteSet(InWork(c)')
                      /\ Cardinality(Occurrences(c)') =
                           Cardinality(Unreceived(c)') + Cardinality(InWork(c)')
                           + Cardinality(At(resChan', c)) + Copies(c)'
    BY DEF Conserved, At
  <2>1. Unreceived(c)' = Unreceived(c) /\ InWork(c)' = InWork(c)
        /\ Occurrences(c)' = Occurrences(c)
    BY <1>3, <1>4, SameChunk DEF Unreceived, InWork, Held, At
  <2>2. Cardinality(At(resChan, c)) = Cardinality(At(resChan', c)) + IF h = c THEN 1 ELSE 0
    BY <1>1, AtTail
  <2>3. Cardinality(At(resChan', c)) \in Nat
    BY <1>2, AtFinite
  <2>4. Copies(c)' = Copies(c) + IF h = c THEN 1 ELSE 0
    BY <1>6
  <2> HIDE DEF h
  <2>5. Cardinality(At(resChan, c)) + Copies(c) = Cardinality(At(resChan', c)) + Copies(c)'
    BY <2>2, <2>3, <2>4, Counts
  <2> QED
    BY <2>1, <2>3, <2>4, <2>5, Counts
<1>11. OneEach'
  <2> SUFFICES ASSUME OneCpeEach PROVE OneEach'
    BY <1>3, SameChunk DEF OneEach
  <2>1. Cardinality(Converting) \in Nat /\ Len(reqChan) \in Nat
    BY FS_CardinalityType, TypeFacts DEF Inv, InOrder
  <2>0. fed = Len(reqChan) + Cardinality(Converting) + Len(resChan) + collected
    BY DEF Inv, OneEach
  <2>2. fed' = Len(reqChan') + Cardinality(Converting') + Len(resChan') + collected'
    <3>1. Len(resChan') = Len(resChan) - 1 /\ Len(resChan) \in Nat
      BY <1>2
    <3>2. fed' = fed /\ reqChan' = reqChan /\ collected' = collected + 1 /\ collected \in Nat
      BY <1>3
    <3>3. Cardinality(Converting') = Cardinality(Converting) /\ Len(reqChan') = Len(reqChan)
      BY <1>4, <3>2
    <3>4. \A i, j, k, l \in Nat : i + j + (k - 1) + (l + 1) = i + j + k + l
      OBVIOUS
    <3>5. Len(reqChan') + Cardinality(Converting') + Len(resChan') + collected' =
            Len(reqChan) + Cardinality(Converting) + (Len(resChan) - 1) + (collected + 1)
      BY ONLY <3>1, <3>2, <3>3
    <3>6. @ = Len(reqChan) + Cardinality(Converting) + Len(resChan) + collected
      BY ONLY <2>1, <3>1, <3>2, <3>4
    <3> QED
      BY ONLY <2>0, <3>2, <3>5, <3>6
  <2>3. resChan \in Seq(CpeName)
    BY DEF Inv, OneEach
  <2>4. resChan' \in Seq(CpeName) /\ h \in CpeName
    BY <1>1, <2>3
  <2>5. BagToSet(converted') \subseteq CpeName
    BY <1>6, <2>4 DEF Inv, OneEach
  <2> QED
    BY <1>3, <1>4, <2>2, <2>4, <2>5 DEF Inv, OneEach
<1>12. Closing'
  BY <1>3, SameChunk DEF Inv, Closing
<1> QED
  BY <1>7, <1>8, <1>9, <1>10, <1>11, <1>12 DEF Inv

LEMMA ReturnKeepsInv ==
  ASSUME Inv, Return
  PROVE  Inv'
<1>1. /\ chunk' = chunk /\ fed' = fed /\ reqChan' = reqChan /\ resChan' = resChan
      /\ open' = FALSE /\ submitted' = submitted /\ collected' = collected
      /\ converted' = converted /\ state' = state /\ work' = work /\ nilSent' = nilSent
      /\ panicked' = panicked /\ collected = Titles
  BY DEF Return
<1>2. Received' = Received /\ Converting' = Converting
  BY <1>1 DEF Received, Converting
<1>3. ConvertTypeOK'
  BY <1>1, SameChunk DEF Inv, ConvertTypeOK
<1>4. InOrder' /\ OnlyWellFormed' /\ Closing' /\ OneEach'
  BY <1>1, <1>2, SameChunk DEF Inv, InOrder, OnlyWellFormed, Closing, OneEach
<1>5. Conserved'
  BY <1>1, <1>2, SameChunk DEF Inv, Conserved, Unreceived, InWork, Copies
<1> QED
  BY <1>3, <1>4, <1>5 DEF Inv

\* A worker that continues is one of those that convert, unless nothing is left.
LEMMA ContinuedTypes ==
  ASSUME ConvertTypeOK, NEW w \in Thread, NEW cs \in Seq(CpeName), Continue(w, cs),
         IsFiniteSet(Converting), \A x \in Converting : work[x] # <<>>
  PROVE  /\ state' \in [Thread -> {"idle", "task", "title"}]
         /\ work' \in [Thread -> Seq(CpeName)]
         /\ Converting' = IF cs = <<>> THEN Converting \ {w} ELSE Converting \cup {w}
         /\ IsFiniteSet(Converting')
         /\ \A x \in Converting' : work'[x] = IF x = w THEN cs ELSE work[x]
         /\ \A x \in Converting' : work'[x] # <<>>
<1>1. /\ state \in [Thread -> {"idle", "task", "title"}] /\ work \in [Thread -> Seq(CpeName)]
      /\ state' = [state EXCEPT ![w] = IF cs = <<>> THEN "idle" ELSE "title"]
      /\ work' = [work EXCEPT ![w] = cs]
  BY DEF ConvertTypeOK, Continue
<1>2. Converting' = IF cs = <<>> THEN Converting \ {w} ELSE Converting \cup {w}
  BY <1>1 DEF Converting
<1>3. IsFiniteSet(Converting')
  BY <1>2, FS_AddElement, FS_RemoveElement
<1>4. \A x \in Converting' : x \in Thread /\ work'[x] = IF x = w THEN cs ELSE work[x]
  BY <1>1 DEF Converting
<1>5. \A x \in Converting' : work'[x] # <<>>
  BY <1>2, <1>4
<1> QED
  BY <1>1, <1>2, <1>3, <1>4, <1>5

\* The CPEs of the title that is received are those of its row in the chunk.
LEMMA ReceiveKeepsInv ==
  ASSUME Inv, NEW w \in Thread, Receive(w)
  PROVE  Inv'
<1> DEFINE u == Head(reqChan)
<1>1. reqChan \in Seq(Seq(CpeName)) /\ reqChan # <<>> /\ reqChan' = Tail(reqChan)
  BY DEF Inv, ConvertTypeOK, Receive
<1>2. /\ reqChan' \in Seq(Seq(CpeName)) /\ u \in Seq(CpeName) /\ u = reqChan[1]
      /\ Len(reqChan') = Len(reqChan) - 1 /\ Len(reqChan) \in Nat /\ Len(reqChan) > 0
      /\ \A i \in 1..Len(reqChan') : reqChan'[i] = reqChan[i + 1]
  BY <1>1
<1>3. /\ chunk' = chunk /\ fed' = fed /\ resChan' = resChan /\ open' = open
      /\ submitted' = submitted /\ collected' = collected /\ converted' = converted
      /\ nilSent' = nilSent /\ panicked' = panicked /\ Continue(w, u) /\ state[w] = "task"
  BY DEF Receive, callerVars
<1>4. /\ Received \in Nat /\ Received' = Received + 1 /\ Received + 1 \in 1..fed
      /\ fed \in Nat /\ fed <= Titles /\ Titles \in Nat
  <2>1. fed \in Nat /\ fed <= Titles /\ Titles \in Nat /\ Len(reqChan) <= fed
    BY TypeFacts DEF Inv, InOrder
  <2>2. Len(reqChan') = Len(reqChan) - 1 /\ Len(reqChan) \in Nat /\ Len(reqChan) > 0
    BY <1>2
  <2> QED
    BY <1>3, <2>1, <2>2 DEF Received
<1>5. u = chunk[Received + 1]
  BY <1>2 DEF Inv, InOrder
<1> HIDE DEF u
<1>6. w \notin Converting /\ IsFiniteSet(Converting) /\ \A x \in Converting : work[x] # <<>>
  BY <1>3 DEF Converting, Inv, InOrder
<1>7. /\ state' \in [Thread -> {"idle", "task", "title"}] /\ work' \in [Thread -> Seq(CpeName)]
      /\ Converting' = IF u = <<>> THEN Converting \ {w} ELSE Converting \cup {w}
      /\ IsFiniteSet(Converting')
      /\ \A x \in Converting' : work'[x] = IF x = w THEN u ELSE work[x]
      /\ \A x \in Converting' : work'[x] # <<>>
  BY <1>2, <1>3, <1>6, ContinuedTypes DEF Inv
<1>8. ConvertTypeOK'
  <2>1. Len(reqChan') <= Titles
    BY <1>2, <1>4 DEF Inv, ConvertTypeOK
  <2> QED
    BY <1>2, <1>3, <1>7, <2>1, SameChunk DEF Inv, ConvertTypeOK
<1>9. InOrder'
  <2>1. Len(reqChan') <= fed'
    BY <1>2, <1>3, <1>4 DEF Inv, InOrder
  <2>2. ASSUME NEW i \in 1..Len(reqChan') PROVE reqChan'[i] = chunk'[Received' + i]
    <3>1. i + 1 \in 1..Len(reqChan) /\ Received + (i + 1) = Received' + i
      BY <1>2, <1>4
    <3> QED
      BY <1>2, <1>3, <3>1 DEF Inv, InOrder
  <2> QED
    BY <1>7, <2>1, <2>2 DEF InOrder
<1>10. OnlyWellFormed' /\ Closing'
  BY <1>3, SameChunk DEF Inv, OnlyWellFormed, Closing
<1>11. Conserved'
  <2> SUFFICES ASSUME NEW c \in CpeName \ Unparsable
               PROVE  /\ IsFiniteSet(Unreceived(c)') /\ IsFiniteSet(InWork(c)')
                      /\ Cardinality(Occurrences(c)') =
                           Cardinality(Unreceived(c)') + Cardinality(InWork(c)')
                           + Cardinality(At(resChan', c)) + Copies(c)'
    BY DEF Conserved, At
  <2> DEFINE row == {Received + 1} \X At(u, c)
  <2>1. IsFiniteSet(At(u, c)) /\ Cardinality(At(u, c)) \in Nat
    BY <1>2, AtFinite
  <2>2. IsFiniteSet(row) /\ Cardinality(row) = Cardinality(At(u, c))
    BY <2>1, Row
  <2>3. Occurrences(c)' = Occurrences(c) /\ Copies(c)' = Copies(c)
    BY <1>3, SameChunk DEF Copies
  <2>4. Unreceived(c) = Unreceived(c)' \cup row /\ Unreceived(c)' \cap row = {}
    <3>1. row \subseteq Unreceived(c)
      <4>1. Received + 1 \in DOMAIN chunk
        BY <1>4, TypeFacts DEF Inv
      <4> QED
        BY <1>4, <1>5, <4>1 DEF Unreceived, Occurrences, Places, CpeAt, At
    <3>2. \A p \in Occurrences(c) : p[1] \in Nat /\ (p[1] = Received + 1 => p \in row)
      BY <1>5, TypeFacts DEF Inv, Occurrences, Places, CpeAt, At
    <3>3. Unreceived(c)' = {p \in Occurrences(c) : p[1] > Received + 1}
      BY <1>4, <2>3 DEF Unreceived
    <3>4. \A p \in row : p[1] = Received + 1
      OBVIOUS
    <3>5. \A p \in Occurrences(c) : p[1] > Received
                                    <=> p[1] > Received + 1 \/ p[1] = Received + 1
      BY <1>4, <3>2
    <3> HIDE DEF row
    <3>6. Unreceived(c) = Unreceived(c)' \cup row
      BY <3>1, <3>2, <3>3, <3>5 DEF Unreceived
    <3>7. Unreceived(c)' \cap row = {}
      BY <1>4, <3>3, <3>4
    <3> QED
      BY <3>6, <3>7
  <2>5. IsFiniteSet(Unreceived(c)')
    BY <2>4, FS_Subset, Counts
  <2> HIDE DEF row
  <2>6. /\ Cardinality(Unreceived(c)) = Cardinality(Unreceived(c)') + Cardinality(row)
        /\ Cardinality(Unreceived(c)') \in Nat
    BY <2>2, <2>4, <2>5, Disjoint
  <2>7. Held(Converting \ {w}, work, c) = InWork(c)
    BY <1>6, HeldNothing
  <2>8. /\ IsFiniteSet(InWork(c)') /\ Cardinality(InWork(c)) \in Nat
        /\ Cardinality(InWork(c)') = Cardinality(InWork(c)) + Cardinality(At(u, c))
    BY <1>2, <1>3, <2>7, Continued, Counts DEF Inv
  <2>9. Cardinality(Unreceived(c)) + Cardinality(InWork(c)) =
          Cardinality(Unreceived(c)') + Cardinality(InWork(c)')
    BY ONLY <2>1, <2>2, <2>6, <2>8
  <2> QED
    BY <1>3, <2>3, <2>5, <2>8, <2>9, Counts
<1>12. OneEach'
  <2> SUFFICES ASSUME OneCpeEach PROVE OneEach'
    BY <1>3, SameChunk DEF OneEach
  <2>1. Len(u) = 1 /\ Head(u) \notin Unparsable /\ u # <<>>
    <3>1. Received + 1 \in DOMAIN chunk
      BY <1>4, TypeFacts DEF Inv
    <3> QED
      BY <1>2, <1>5, <3>1 DEF OneCpeEach
  <2>2. /\ Cardinality(Converting') = Cardinality(Converting) + 1
        /\ Cardinality(Converting) \in Nat /\ Converting' = Converting \cup {w}
    BY <1>6, <1>7, <2>1, FS_AddElement, FS_CardinalityType
  <2>3. fed = Len(reqChan) + Cardinality(Converting) + Len(resChan) + collected
    BY DEF Inv, OneEach
  <2>4. fed' = Len(reqChan') + Cardinality(Converting') + Len(resChan') + collected'
    <3>1. Len(resChan) \in Nat /\ collected \in Nat
      BY TypeFacts DEF Inv
    <3>2. \A i, j, k, l \in Nat : (i - 1) + (j + 1) + k + l = i + j + k + l
      OBVIOUS
    <3>3. Len(reqChan') + Cardinality(Converting') + Len(resChan') + collected' =
            (Len(reqChan) - 1) + (Cardinality(Converting) + 1) + Len(resChan) + collected
      BY <1>2, <1>3, <2>2
    <3>4. @ = Len(reqChan) + Cardinality(Converting) + Len(resChan) + collected
      BY <1>2, <2>2, <3>1, <3>2
    <3> QED
      BY <1>3, <2>3, <3>3, <3>4
  <2>5. \A x \in Converting' : Len(work'[x]) = 1 /\ Head(work'[x]) \notin Unparsable
    BY <1>7, <2>1, <2>2 DEF Inv, OneEach
  <2> QED
    BY <1>3, <2>4, <2>5 DEF Inv, OneEach
<1> QED
  BY <1>8, <1>9, <1>10, <1>11, <1>12 DEF Inv

LEMMA ReceiveClosedKeepsInv ==
  ASSUME Inv, NEW w \in Thread, ReceiveClosed(w)
  PROVE  Inv'
<1>1. /\ chunk' = chunk /\ fed' = fed /\ reqChan' = reqChan /\ resChan' = resChan
      /\ open' = open /\ submitted' = submitted /\ collected' = collected
      /\ converted' = converted /\ nilSent' = nilSent /\ panicked' = panicked
      /\ Continue(w, <<>>) /\ state[w] = "task" /\ <<>> \in Seq(CpeName)
  BY DEF ReceiveClosed, callerVars
<1>2. w \notin Converting /\ IsFiniteSet(Converting) /\ \A x \in Converting : work[x] # <<>>
  BY <1>1 DEF Converting, Inv, InOrder
<1>3. /\ state' \in [Thread -> {"idle", "task", "title"}] /\ work' \in [Thread -> Seq(CpeName)]
      /\ Converting' = Converting /\ \A x \in Converting : work'[x] = work[x]
  BY <1>1, <1>2, ContinuedTypes DEF Inv
<1>4. Received' = Received
  BY <1>1 DEF Received
<1>5. ConvertTypeOK'
  BY <1>1, <1>3, SameChunk DEF Inv, ConvertTypeOK
<1>6. InOrder' /\ OnlyWellFormed' /\ Closing'
  BY <1>1, <1>3, <1>4, SameChunk DEF Inv, InOrder, OnlyWellFormed, Closing
<1>8. OneEach'
  BY <1>1, <1>3, SameChunk DEF Inv, OneEach
<1>7. Conserved'
  <2>1. \A c : InWork(c)' = InWork(c) /\ Unreceived(c)' = Unreceived(c) /\ Copies(c)' = Copies(c)
    BY <1>1, <1>3, <1>4, SameChunk, HeldSame DEF InWork, Unreceived, Copies, Held, At
  <2> QED
    BY <1>1, <2>1, SameChunk DEF Inv, Conserved, At
<1> QED
  BY <1>5, <1>6, <1>7, <1>8 DEF Inv

\* The report of a malformed name is no record.
LEMMA SendNilKeepsInv ==
  ASSUME Inv, NEW w \in Thread, SendNil(w)
  PROVE  Inv'
<1>1. /\ chunk' = chunk /\ fed' = fed /\ reqChan' = reqChan /\ UNCHANGED callerVars
      /\ state' = state /\ work' = work /\ panicked' = panicked
      /\ resChan' = Append(resChan, Nil) /\ Len(resChan) < Titles
      /\ nilSent' = [nilSent EXCEPT ![w] = TRUE] /\ w \in Converting /\ Rejected(w)
  BY DEF SendNil, SendResult, Converting
<1>2. resChan \in Seq(Record \cup {Nil}) /\ Len(resChan) \in Nat /\ Titles \in Nat
  BY TypeFacts DEF Inv, ConvertTypeOK
<1>3. /\ resChan' \in Seq(Record \cup {Nil}) /\ Len(resChan') <= Titles
      /\ \A i \in DOMAIN resChan' : resChan'[i] = Nil
                                    \/ (i \in DOMAIN resChan /\ resChan'[i] = resChan[i])
  BY <1>1, <1>2
<1>4. Received' = Received /\ Converting' = Converting
  BY <1>1 DEF Received, Converting
<1>5. ConvertTypeOK'
  <2>1. nilSent' \in [Thread -> BOOLEAN]
    BY <1>1 DEF Inv, ConvertTypeOK
  <2> QED
    BY <1>1, <1>3, <2>1, SameChunk DEF Inv, ConvertTypeOK, callerVars
<1>6. InOrder' /\ Closing'
  BY <1>1, <1>4, SameChunk DEF Inv, InOrder, Closing, callerVars
<1>7. OnlyWellFormed'
  BY <1>1, <1>3, NamesApart DEF Inv, OnlyWellFormed, callerVars
<1>8. Conserved'
  <2>1. ASSUME NEW c \in CpeName PROVE Cardinality(At(resChan', c)) = Cardinality(At(resChan, c))
    <3>1. /\ Cardinality(At(resChan, c)) \in Nat
          /\ Cardinality(At(Append(resChan, Nil), c)) =
               Cardinality(At(resChan, c)) + IF Nil = c THEN 1 ELSE 0
      BY <1>2, AtFinite, AtAppend
    <3> QED
      BY <1>1, <3>1, NamesApart
  <2>2. \A c : InWork(c)' = InWork(c) /\ Unreceived(c)' = Unreceived(c) /\ Copies(c)' = Copies(c)
    BY <1>1, <1>4, SameChunk DEF InWork, Unreceived, Copies, Held, At, callerVars
  <2>3. \A c : At(resChan, c)' = At(resChan', c)
    BY DEF At
  <2> QED
    BY <2>1, <2>2, <2>3, <1>1, SameChunk DEF Inv, Conserved
<1>9. OneEach'
  <2>1. ~OneCpeEach
    BY <1>1 DEF Inv, OneEach, Rejected
  <2> QED
    BY <1>1, <2>1, SameChunk DEF OneEach
<1> QED
  BY <1>5, <1>6, <1>7, <1>8, <1>9 DEF Inv

\* A record that is sent is one CPE less with its worker and one result more.
LEMMA SendRecordKeepsInv ==
  ASSUME Inv, NEW w \in Thread, SendRecord(w)
  PROVE  Inv'
<1> DEFINE r == IF Rejected(w) THEN Blank ELSE Head(work[w])
           cs == Tail(work[w])
<1>1. /\ chunk' = chunk /\ fed' = fed /\ reqChan' = reqChan /\ open' = open
      /\ submitted' = submitted /\ collected' = collected /\ converted' = converted
      /\ panicked' = panicked /\ w \in Converting
      /\ resChan' = Append(resChan, r) /\ Len(resChan) < Titles
      /\ nilSent' = [nilSent EXCEPT ![w] = FALSE] /\ Continue(w, cs)
  BY DEF SendRecord, SendResult, Converting, callerVars
<1>2. /\ work[w] \in Seq(CpeName) /\ work[w] # <<>> /\ cs \in Seq(CpeName)
      /\ Head(work[w]) \in CpeName
      /\ IsFiniteSet(Converting) /\ \A x \in Converting : work[x] # <<>>
  <2>1. work[w] \in Seq(CpeName) /\ work[w] # <<>>
    BY <1>1 DEF Inv, ConvertTypeOK, InOrder
  <2> QED
    BY <2>1 DEF Inv, InOrder
<1>3. r \in Record /\ r \notin Unparsable /\ (~Rejected(w) => r = Head(work[w]))
  BY <1>2, NamesApart DEF Record, Rejected
<1>4. \A c \in CpeName \ Unparsable : r = c <=> Head(work[w]) = c
  BY NamesApart DEF Rejected
<1> HIDE DEF r, cs
<1>5. resChan \in Seq(Record \cup {Nil}) /\ Len(resChan) \in Nat /\ Titles \in Nat
  BY TypeFacts DEF Inv, ConvertTypeOK
<1>6. /\ resChan' \in Seq(Record \cup {Nil}) /\ Len(resChan') = Len(resChan) + 1
      /\ Len(resChan') <= Titles
      /\ \A i \in DOMAIN resChan' : resChan'[i] = r
                                    \/ (i \in DOMAIN resChan /\ resChan'[i] = resChan[i])
  BY <1>1, <1>3, <1>5
<1>7. /\ state' \in [Thread -> {"idle", "task", "title"}] /\ work' \in [Thread -> Seq(CpeName)]
      /\ Converting' = IF cs = <<>> THEN Converting \ {w} ELSE Converting \cup {w}
      /\ IsFiniteSet(Converting')
      /\ \A x \in Converting' : work'[x] = IF x = w THEN cs ELSE work[x]
      /\ \A x \in Converting' : work'[x] # <<>>
  BY <1>1, <1>2, ContinuedTypes DEF Inv, Converting
<1>8. Received' = Received
  BY <1>1 DEF Received
<1>9. ConvertTypeOK'
  <2>1. nilSent' \in [Thread -> BOOLEAN]
    BY <1>1 DEF Inv, ConvertTypeOK
  <2> QED
    BY <1>1, <1>6, <1>7, <2>1, SameChunk DEF Inv, ConvertTypeOK
<1>10. InOrder' /\ Closing'
  BY <1>1, <1>7, <1>8, SameChunk DEF Inv, InOrder, Closing
<1>11. OnlyWellFormed'
  BY <1>1, <1>3, <1>6 DEF Inv, OnlyWellFormed
<1>12. Conserved'
  <2> SUFFICES ASSUME NEW c \in CpeName \ Unparsable
               PROVE  /\ IsFiniteSet(Unreceived(c)') /\ IsFiniteSet(InWork(c)')
                      /\ Cardinality(Occurrences(c)') =
                           Cardinality(Unreceived(c)') + Cardinality(InWork(c)')
                           + Cardinality(At(resChan', c)) + Copies(c)'
    BY DEF Conserved, At
  <2> DEFINE rest == Held(Converting \ {w}, work, c)
             one == IF r = c THEN 1 ELSE 0
  <2>1. /\ Occurrences(c)' = Occurrences(c) /\ Copies(c)' = Copies(c)
        /\ Unreceived(c)' = Unreceived(c)
    BY <1>1, <1>8, SameChunk DEF Copies, Unreceived
  <2>2. /\ IsFiniteSet(InWork(c)') /\ Cardinality(rest) \in Nat
        /\ Cardinality(InWork(c)') = Cardinality(rest) + Cardinality(At(cs, c))
    BY <1>1, <1>2, Continued, Counts DEF Inv
  <2>3. /\ Cardinality(At(work[w], c)) = Cardinality(At(cs, c)) + one
        /\ Cardinality(At(cs, c)) \in Nat /\ IsFiniteSet(At(work[w], c))
    BY <1>2, <1>4, AtTail, AtFinite DEF cs
  <2>4. Cardinality(InWork(c)) = Cardinality(rest) + Cardinality(At(work[w], c))
    <3> DEFINE workers == Converting
               works == work
    <3>1. IsFiniteSet(Held(Converting, work, c))
      BY Counts DEF InWork
    <3>2. IsFiniteSet(Held(Converting \ {w}, work, c))
      BY <3>1, HeldLess
    <3> HIDE DEF workers, works
    <3>3. /\ w \in workers /\ IsFiniteSet(Held(workers \ {w}, works, c))
          /\ IsFiniteSet(At(works[w], c))
      BY <1>1, <2>3, <3>2 DEF workers, works
    <3>4. Cardinality(Held(workers, works, c)) =
            Cardinality(Held(workers \ {w}, works, c)) + Cardinality(At(works[w], c))
      BY ONLY <3>3, HeldSplit
    <3> QED
      BY <3>4 DEF InWork, rest, workers, works
  <2>5. /\ Cardinality(At(resChan', c)) = Cardinality(At(resChan, c)) + one
        /\ Cardinality(At(resChan, c)) \in Nat
    BY <1>1, <1>3, <1>5, AtAppend, AtFinite
  <2>6. one \in Nat
    OBVIOUS
  <2> HIDE DEF rest, one
  <2>7. Cardinality(InWork(c)) + Cardinality(At(resChan, c)) =
          Cardinality(InWork(c)') + Cardinality(At(resChan', c))
    BY ONLY <2>2, <2>3, <2>4, <2>5, <2>6
  <2>8. Cardinality(InWork(c)') \in Nat /\ Cardinality(At(resChan', c)) \in Nat
    BY <2>2, <2>3, <2>5, <2>6
  <2>9. Cardinality(Unreceived(c)) + Cardinality(InWork(c)) + Cardinality(At(resChan, c))
          + Copies(c)
          = Cardinality(Unreceived(c)) + Cardinality(InWork(c)') + Cardinality(At(resChan', c))
            + Copies(c)
    BY <2>7, <2>8, Counts
  <2> QED
    BY <2>1, <2>2, <2>9, Counts
<1>13. OneEach'
  <2> SUFFICES ASSUME OneCpeEach PROVE OneEach'
    BY <1>1, SameChunk DEF OneEach
  <2>1. Len(work[w]) = 1 /\ ~Rejected(w)
    BY <1>1 DEF Inv, OneEach, Rejected
  <2>2. cs = <<>>
    <3>1. cs \in Seq(CpeName) /\ Len(cs) = 0
      BY <1>2, <2>1 DEF cs
    <3> QED
      BY <3>1
  <2>3. /\ Converting' = Converting \ {w} /\ Cardinality(Converting) \in Nat
        /\ Cardinality(Converting') = Cardinality(Converting) - 1
    BY <1>1, <1>2, <1>7, <2>2, FS_RemoveElement, FS_CardinalityType
  <2>4. fed = Len(reqChan) + Cardinality(Converting) + Len(resChan) + collected
    BY DEF Inv, OneEach
  <2>5. fed' = Len(reqChan') + Cardinality(Converting') + Len(resChan') + collected'
    <3>1. PICK i, j, k, l \in Nat : /\ i = Len(reqChan) /\ j = Cardinality(Converting)
                                    /\ k = Len(resChan) /\ l = collected
      BY <2>3, TypeFacts DEF Inv
    <3>2. fed = i + j + k + l
      BY <2>4, <3>1
    <3>3. /\ fed' = fed /\ Len(reqChan') = i /\ Cardinality(Converting') = j - 1
          /\ Len(resChan') = k + 1 /\ collected' = l
      BY <1>1, <1>6, <2>3, <3>1
    <3>4. i + j + k + l = i + (j - 1) + (k + 1) + l
      OBVIOUS
    <3> QED
      BY <3>2, <3>3, <3>4
  <2>6. \A x \in Converting' : Len(work'[x]) = 1 /\ Head(work'[x]) \notin Unparsable
    BY <1>7, <2>3 DEF Inv, OneEach
  <2>7. resChan' \in Seq(CpeName)
    BY <1>1, <1>2, <1>3, <2>1 DEF Inv, OneEach
  <2> QED
    BY <1>1, <2>5, <2>6, <2>7 DEF Inv, OneEach
<1> QED
  BY <1>9, <1>10, <1>11, <1>12, <1>13 DEF Inv

\* When the caller returns nothing is left to send, if each title has one CPE.
LEMMA NothingLeft ==
  ASSUME Inv, OneCpeEach, ~open
  PROVE  /\ fed = Titles /\ Converting = {} /\ resChan = <<>> /\ Received = Titles
<1>1. collected = Titles
  BY DEF Inv, Closing
<1>2. /\ IsFiniteSet(Converting) /\ Cardinality(Converting) \in Nat
      /\ fed = Len(reqChan) + Cardinality(Converting) + Len(resChan) + collected
  BY FS_CardinalityType DEF Inv, InOrder, OneEach
<1>3. /\ fed = Titles /\ Cardinality(Converting) = 0 /\ Len(resChan) = 0 /\ Len(reqChan) = 0
  BY <1>1, <1>2, TypeFacts DEF Inv
<1>4. Received = Titles /\ Converting = {} /\ resChan = <<>>
  BY <1>2, <1>3, FS_EmptySet, TypeFacts DEF Received, Inv, ConvertTypeOK
<1> QED
  BY <1>3, <1>4

LEMMA SendOnClosedKeepsInv ==
  ASSUME Inv, SendOnClosed
  PROVE  Inv'
<1>1. /\ chunk' = chunk /\ fed' = fed /\ reqChan' = reqChan /\ resChan' = resChan
      /\ open' = open /\ submitted' = submitted /\ collected' = collected
      /\ converted' = converted /\ state' = state /\ work' = work /\ nilSent' = nilSent
      /\ panicked' = TRUE
  BY DEF SendOnClosed, callerVars
<1>2. ~OneCpeEach
  BY NothingLeft, TypeFacts DEF SendOnClosed, Converting, Inv
<1>3. Received' = Received /\ Converting' = Converting
  BY <1>1 DEF Received, Converting
<1>4. ConvertTypeOK' /\ InOrder' /\ OnlyWellFormed' /\ Closing' /\ OneEach'
  BY <1>1, <1>2, <1>3, SameChunk DEF Inv, ConvertTypeOK, InOrder, OnlyWellFormed, Closing,
       OneEach
<1>5. Conserved'
  BY <1>1, <1>3, SameChunk DEF Inv, Conserved, Unreceived, InWork, Copies
<1> QED
  BY <1>4, <1>5 DEF Inv

-----------------------------------------------------------------------------
(***************************************************************************)
(* The theorems                                                            *)
(***************************************************************************)

LEMMA StepKeepsInv == Inv /\ [Next]_vars => Inv'
<1> SUFFICES ASSUME Inv, [Next]_vars PROVE Inv'
  OBVIOUS
<1>1. CASE Feed
  BY <1>1, FeedKeepsInv
<1>2. CASE Collect
  BY <1>2, CollectKeepsInv
<1>3. CASE Return
  BY <1>3, ReturnKeepsInv
<1>4. CASE SendOnClosed
  BY <1>4, SendOnClosedKeepsInv
<1>5. ASSUME NEW w \in Thread,
             Submit(w) \/ Receive(w) \/ ReceiveClosed(w) \/ SendNil(w) \/ SendRecord(w)
      PROVE  Inv'
  BY <1>5, SubmitKeepsInv, ReceiveKeepsInv, ReceiveClosedKeepsInv, SendNilKeepsInv,
     SendRecordKeepsInv
<1>6. CASE UNCHANGED vars
  <2>1. Received' = Received /\ Converting' = Converting
    BY <1>6 DEF vars, Received, Converting
  <2>2. ConvertTypeOK' /\ InOrder' /\ OnlyWellFormed' /\ Closing' /\ OneEach'
    BY <1>6, <2>1, SameChunk DEF vars, Inv, ConvertTypeOK, InOrder, OnlyWellFormed, Closing,
       OneEach
  <2>3. Conserved'
    BY <1>6, <2>1, SameChunk DEF vars, Inv, Conserved, Unreceived, InWork, Copies
  <2> QED
    BY <2>2, <2>3 DEF Inv
<1> QED
  BY <1>1, <1>2, <1>3, <1>4, <1>5, <1>6 DEF Next

LEMMA AlwaysInv == Spec => []Inv
BY InitInv, StepKeepsInv, PTL DEF Spec

\* The types, for any number of workers and any chunks: no channel holds more than it has
\* room for, and the answer is a bag of records.
THEOREM ConvertTypeCorrect == Spec => []ConvertTypeOK
<1>1. Inv => ConvertTypeOK
  BY DEF Inv
<1> QED
  BY <1>1, AlwaysInv, PTL

\* With one well-formed CPE per title no goroutine is left behind to use a closed channel.
THEOREM NoWorkerLeftBehind == Spec => []NoPanic
<1>1. Inv => NoPanic
  BY DEF Inv, OneEach, NoPanic
<1> QED
  BY <1>1, AlwaysInv, PTL

\* Whatever the chunk, no CPE is in the answer more often than in the chunk, and a malformed
\* one is not in it.
THEOREM NoneConvertedTwice == Spec => []NothingConvertedTwice
<1>1. Inv => NothingConvertedTwice
  <2> SUFFICES ASSUME Inv, NEW c \in CpeName PROVE Copies(c) <= Cardinality(Occurrences(c))
    BY DEF NothingConvertedTwice
  <2>1. CASE c \in Unparsable
    <3>1. Copies(c) = 0
      BY <2>1 DEF Inv, OnlyWellFormed, Copies
    <3>2. Occurrences(c) = {}
      BY <2>1 DEF Occurrences, Places
    <3> QED
      BY <3>1, <3>2, FS_EmptySet
  <2>2. CASE c \notin Unparsable
    BY <2>2, Counts
  <2> QED
    BY <2>1, <2>2
<1> QED
  BY <1>1, AlwaysInv, PTL

\* What ConvertsAll says of the answer, apart from that there is one in the end.
ReturnIsWhole == OneCpeEach /\ ~open => converted = Expected

\* With one well-formed CPE per title the caller never returns before it has the record of
\* every CPE, though it counts results without knowing whose they are.
THEOREM WholeOnReturn == Spec => []ReturnIsWhole
<1>1. Inv => ReturnIsWhole
  <2> SUFFICES ASSUME Inv, OneCpeEach, ~open PROVE converted = Expected
    BY DEF ReturnIsWhole
  <2>1. Converting = {} /\ resChan = <<>> /\ Received = Titles
    BY NothingLeft
  <2>2. ASSUME NEW c \in CpeName \ Unparsable PROVE Copies(c) = Cardinality(Occurrences(c))
    <3>1. Unreceived(c) = {}
      BY <2>1, TypeFacts DEF Inv, Unreceived, Occurrences, Places
    <3>2. InWork(c) = {} /\ At(resChan, c) = {}
      BY <2>1, AtNone DEF InWork, Held
    <3> QED
      BY <3>1, <3>2, FS_EmptySet, Counts
  <2>3. DOMAIN converted \subseteq CpeName \ Unparsable
    BY DEF Inv, OneEach, OnlyWellFormed, BagToSet
  <2>4. \A c \in DOMAIN converted : converted[c] \in Nat /\ converted[c] > 0
    BY DEF Inv, ConvertTypeOK, IsABag
  <2>5. converted = [c \in DOMAIN converted |-> converted[c]]
    BY DEF Inv, ConvertTypeOK, IsABag
  <2>6. {CpeAt(p) : p \in Places} \subseteq CpeName \ Unparsable
    BY TypeFacts DEF Inv, CpeAt, Places
  <2>7. ASSUME NEW c \in CpeName \ Unparsable
        PROVE  c \in DOMAIN converted <=> c \in {CpeAt(p) : p \in Places}
    <3>1. IsFiniteSet(Occurrences(c)) /\ Cardinality(Occurrences(c)) \in Nat
      BY TypeFacts, PlacesFinite, FS_Subset, FS_CardinalityType DEF Inv, Occurrences
    <3>2. Cardinality(Occurrences(c)) = 0 <=> Occurrences(c) = {}
      BY <3>1, FS_EmptySet
    <3>3. Occurrences(c) = {} <=> c \notin {CpeAt(p) : p \in Places}
      BY DEF Occurrences
    <3>4. Copies(c) = 0 <=> c \notin DOMAIN converted
      BY <2>4 DEF Copies, BagToSet
    <3> QED
      BY <2>2, <3>2, <3>3, <3>4
  <2>8. DOMAIN converted = {CpeAt(p) : p \in Places}
    BY <2>3, <2>6, <2>7
  <2>9. \A c \in DOMAIN converted : converted[c] = Cardinality(Occurrences(c))
    BY <2>2, <2>3 DEF Copies, BagToSet
  <2> QED
    BY <2>5, <2>8, <2>9 DEF Expected
<1> QED
  BY <1>1, AlwaysInv, PTL
=============================================================================
