---------------------------- MODULE AnswersProofs -----------------------------
(***************************************************************************)
(* Theorems about Names, Answers and FeedBuilder: keys of vendor and       *)
(* product split as they were joined, and both drivers give the same       *)
(* answers, for every set of CPEs.                                         *)
(***************************************************************************)
EXTENDS FeedBuilder, SequenceTheorems, WellFoundedInduction, TLAPS

-----------------------------------------------------------------------------
(* Keys *)

\* The characters of a key: the vendor's, the separator, the product's.
LEMMA KeyElements ==
  ASSUME NEW v \in Name, NEW p \in Name
  PROVE  /\ VPKey(v, p) \in Seq(Char \cup {"#"})
         /\ Len(VPKey(v, p)) = Len(v) + 2 + Len(p)
         /\ \A i \in 1..Len(v) : VPKey(v, p)[i] = v[i]
         /\ VPKey(v, p)[Len(v) + 1] = "#" /\ VPKey(v, p)[Len(v) + 2] = "#"
         /\ \A i \in 1..Len(p) : VPKey(v, p)[Len(v) + 2 + i] = p[i]
<1> DEFINE C == Char \cup {"#"}
<1> DEFINE w == v \o Separator
<1>1. v \in Seq(C) /\ p \in Seq(C) /\ Separator \in Seq(C)
  BY DEF Name, Separator
<1>2. Len(Separator) = 2 /\ Separator[1] = "#" /\ Separator[2] = "#"
  BY DEF Separator
<1> HIDE DEF C
<1>3. /\ w \in Seq(C) /\ Len(w) = Len(v) + 2
      /\ \A i \in 1..(Len(v) + 2) : w[i] = IF i <= Len(v) THEN v[i] ELSE Separator[i - Len(v)]
  <2>1. /\ w \in Seq(C) /\ Len(w) = Len(v) + Len(Separator)
        /\ \A i \in 1..(Len(v) + Len(Separator)) :
              w[i] = IF i <= Len(v) THEN v[i] ELSE Separator[i - Len(v)]
    BY <1>1, ConcatProperties
  <2> HIDE DEF w
  <2> QED  BY <1>2, <2>1
<1>4. Len(v) \in Nat /\ Len(p) \in Nat
  BY DEF Name
<1> DEFINE k == VPKey(v, p)
<1>5. /\ k \in Seq(C) /\ Len(k) = Len(w) + Len(p)
      /\ \A i \in 1..(Len(w) + Len(p)) : k[i] = IF i <= Len(w) THEN w[i] ELSE p[i - Len(w)]
  <2>1. k = w \o p
    BY DEF VPKey
  <2> HIDE DEF w, k
  <2>2. w \in Seq(C) /\ p \in Seq(C)
    BY <1>1, <1>3
  <2>3. /\ w \o p \in Seq(C) /\ Len(w \o p) = Len(w) + Len(p)
        /\ \A i \in 1..(Len(w) + Len(p)) :
              (w \o p)[i] = IF i <= Len(w) THEN w[i] ELSE p[i - Len(w)]
    BY <2>2, ConcatProperties
  <2> QED  BY <2>1, <2>3
<1> HIDE DEF w, k
<1>6. /\ \A i \in 1..Len(v) : k[i] = v[i]
      /\ k[Len(v) + 1] = "#" /\ k[Len(v) + 2] = "#"
  BY <1>2, <1>3, <1>4, <1>5
<1>7. \A i \in 1..Len(p) : k[Len(v) + 2 + i] = p[i]
  BY <1>3, <1>4, <1>5
<1>8. Len(k) = Len(v) + 2 + Len(p)
  BY <1>3, <1>5
<1> QED  BY <1>5, <1>6, <1>7, <1>8 DEF k, C

\* No separator begins in a quoted name, nor at the character before one.
LEMMA QuotedHasNoCut ==
  ASSUME NEW s \in Name, Quoted(s)
  PROVE  Cuts(s) = {} /\ (s # <<>> => s[1] # "#")
<1>1. Len(s) \in Nat /\ DOMAIN s = 1..Len(s)
  BY DEF Name
<1>2. ASSUME NEW i \in 1..Len(s), i < Len(s), s[i] = "#", s[i + 1] = "#" PROVE FALSE
  <2>1. i + 1 \in DOMAIN s /\ i + 1 > 1 /\ (i + 1) - 1 = i
    BY <1>1, <1>2
  <2>2. s[(i + 1) - 1] = "\\"
    BY <1>2, <2>1 DEF Quoted
  <2> QED  BY <1>2, <2>1, <2>2
<1>3. ASSUME s # <<>>, s[1] = "#" PROVE FALSE
  <2>1. 1 \in DOMAIN s
    BY <1>1, <1>3, EmptySeq DEF Name
  <2> QED  BY <1>3, <2>1 DEF Quoted
<1> QED  BY <1>2, <1>3 DEF Cuts

\* A separator begins in a key where the product's name is split off, or one before.
LEMMA KeyCuts ==
  ASSUME NEW v \in Name, NEW p \in Name, Quoted(v), Quoted(p)
  PROVE  /\ EndsInHash(v) => Cuts(VPKey(v, p)) = {Len(v), Len(v) + 1}
         /\ ~EndsInHash(v) => Cuts(VPKey(v, p)) = {Len(v) + 1}
<1> DEFINE k == VPKey(v, p)
<1> DEFINE n == Len(v)
<1> DEFINE m == Len(p)
<1>1. /\ n \in Nat /\ m \in Nat /\ Len(k) = n + 2 + m
      /\ \A i \in 1..n : k[i] = v[i]
      /\ k[n + 1] = "#" /\ k[n + 2] = "#"
      /\ \A i \in 1..m : k[n + 2 + i] = p[i]
  BY KeyElements DEF Name
<1>2. /\ \A i \in 1..n : i < n => ~(v[i] = "#" /\ v[i + 1] = "#")
      /\ \A i \in 1..m : i < m => ~(p[i] = "#" /\ p[i + 1] = "#")
      /\ p # <<>> => p[1] # "#"
  BY QuotedHasNoCut DEF Cuts
<1>3. (n > 0 /\ v[n] = "#") <=> EndsInHash(v)
  BY EmptySeq DEF EndsInHash, Name
<1>4. m > 0 => p # <<>>
  OBVIOUS
<1>5. \A i \in Cuts(k) : i \in 1..(n + 2 + m) /\ i < n + 2 + m /\ k[i] = "#" /\ k[i + 1] = "#"
  BY <1>1 DEF Cuts
<1>6. \A i \in 1..(n + 2 + m) : i < n + 2 + m /\ k[i] = "#" /\ k[i + 1] = "#" => i \in Cuts(k)
  BY <1>1 DEF Cuts
<1> HIDE DEF k, n, m
<1>7. n + 1 \in Cuts(k)
  BY <1>1, <1>6
<1>8. n > 0 /\ v[n] = "#" => n \in Cuts(k)
  BY <1>1, <1>6
<1>9. ASSUME NEW i \in Cuts(k), i # n + 1 PROVE i = n /\ n > 0 /\ v[n] = "#"
  <2>1. i \in 1..(n + 2 + m) /\ i < n + 2 + m /\ k[i] = "#" /\ k[i + 1] = "#"
    BY <1>5
  <2>2. CASE i < n
    <3>1. i \in 1..n /\ i + 1 \in 1..n
      BY <1>1, <2>1, <2>2
    <3> QED  BY <1>1, <1>2, <2>1, <2>2, <3>1
  <2>3. CASE i = n
    BY <1>1, <2>1, <2>3
  <2>4. CASE i = n + 2
    <3>1. k[n + 2 + 1] = p[1] /\ m > 0
      BY <1>1, <2>1, <2>4
    <3>2. n + 2 + 1 = i + 1
      BY <1>1, <2>4
    <3> QED  BY <1>2, <1>4, <2>1, <3>1, <3>2
  <2>5. CASE i > n + 2
    <3> DEFINE j == i - (n + 2)
    <3>1. j \in 1..m /\ j + 1 \in 1..m /\ j < m /\ i = n + 2 + j /\ i + 1 = n + 2 + (j + 1)
      BY <1>1, <2>1, <2>5
    <3> HIDE DEF j
    <3> QED  BY <1>1, <1>2, <2>1, <3>1
  <2> QED  BY <1>1, <1>9, <2>1, <2>2, <2>3, <2>4, <2>5
<1>10. n > 0 /\ v[n] = "#" => Cuts(k) = {n, n + 1}
  BY <1>7, <1>8, <1>9
<1>11. ~(n > 0 /\ v[n] = "#") => Cuts(k) = {n + 1}
  BY <1>7, <1>9
<1> QED  BY <1>3, <1>10, <1>11 DEF k, n

\* The pair is determined by its key.
LEMMA KeyInjective ==
  ASSUME NEW v \in Name, NEW p \in Name, Quoted(v), Quoted(p),
         NEW w \in Name, NEW q \in Name, Quoted(w), Quoted(q),
         VPKey(v, p) = VPKey(w, q)
  PROVE  v = w /\ p = q
<1> DEFINE k == VPKey(v, p)
<1>1. /\ Len(v) \in Nat /\ Len(p) \in Nat /\ Len(w) \in Nat /\ Len(q) \in Nat
  BY DEF Name
<1>2. Len(v) = Len(w)
  <2>1. /\ Cuts(k) = {Len(v), Len(v) + 1} \/ Cuts(k) = {Len(v) + 1}
        /\ Cuts(k) = {Len(w), Len(w) + 1} \/ Cuts(k) = {Len(w) + 1}
    BY KeyCuts
  <2> HIDE DEF k
  <2> QED  BY <1>1, <2>1
<1>3. /\ Len(k) = Len(v) + 2 + Len(p)
      /\ \A i \in 1..Len(v) : k[i] = v[i]
      /\ \A i \in 1..Len(p) : k[Len(v) + 2 + i] = p[i]
  BY KeyElements
<1>4. /\ Len(k) = Len(v) + 2 + Len(q)
      /\ \A i \in 1..Len(v) : k[i] = w[i]
      /\ \A i \in 1..Len(q) : k[Len(v) + 2 + i] = q[i]
  <2>1. k = VPKey(w, q)
    OBVIOUS
  <2>2. /\ Len(VPKey(w, q)) = Len(w) + 2 + Len(q)
        /\ \A i \in 1..Len(w) : VPKey(w, q)[i] = w[i]
        /\ \A i \in 1..Len(q) : VPKey(w, q)[Len(w) + 2 + i] = q[i]
    BY KeyElements
  <2> HIDE DEF k
  <2> QED  BY <1>2, <2>1, <2>2
<1> HIDE DEF k
<1>5. Len(p) = Len(q)
  BY <1>1, <1>3, <1>4
<1>6. /\ \A i \in 1..Len(v) : v[i] = w[i]
      /\ \A i \in 1..Len(p) : p[i] = q[i]
  BY <1>3, <1>4, <1>5
<1>7. v = w
  BY <1>2, <1>6, SeqEqual DEF Name
<1>8. p = q
  BY <1>5, <1>6, SeqEqual DEF Name
<1> QED  BY <1>7, <1>8

\* vendorProductStr and the split at ##: a key of a vendor that does not end in # is
\* split into the vendor and the product it was joined from.
THEOREM KeySplits ==
  ASSUME NEW v \in Name, NEW p \in Name, Quoted(v), Quoted(p), ~EndsInHash(v)
  PROVE  /\ HasTwoParts(VPKey(v, p))
         /\ Before(VPKey(v, p)) = v
         /\ After(VPKey(v, p)) = p
<1> DEFINE k == VPKey(v, p)
<1> DEFINE n == Len(v)
<1> DEFINE m == Len(p)
<1>1. /\ n \in Nat /\ m \in Nat /\ Len(k) = n + 2 + m
      /\ \A i \in 1..n : k[i] = v[i]
      /\ \A i \in 1..m : k[n + 2 + i] = p[i]
      /\ k \in Seq(Char \cup {"#"}) /\ v \in Seq(Char \cup {"#"}) /\ p \in Seq(Char \cup {"#"})
  BY KeyElements DEF Name
<1>2. Cuts(k) = {n + 1}
  BY KeyCuts
<1>3. Cuts(p) = {}
  BY QuotedHasNoCut
<1>4. Before(k) = SubSeq(k, 1, FirstCut(k) - 1) /\ After(k) = SubSeq(k, FirstCut(k) + 2, Len(k))
  BY DEF Before, After
<1>5. HasTwoParts(k) <=> Cuts(k) # {} /\ Cuts(After(k)) = {}
  BY DEF HasTwoParts
<1> HIDE DEF k, n, m
<1>6. FirstCut(k) = n + 1
  BY <1>1, <1>2 DEF FirstCut
<1>7. Before(k) = v
  <2>1. \A i \in 1..n : k[i] \in Char \cup {"#"}
    BY <1>1
  <2>2. /\ SubSeq(k, 1, n) \in Seq(Char \cup {"#"})
        /\ Len(SubSeq(k, 1, n)) = n
        /\ \A i \in 1..n : SubSeq(k, 1, n)[i] = k[i]
    BY <1>1, <2>1, SubSeqProperties
  <2>3. SubSeq(k, 1, n) = v
    BY <1>1, <2>2, SeqEqual DEF n
  <2> QED  BY <1>1, <1>4, <1>6, <2>3
<1>8. After(k) = p
  <2>1. \A i \in (n + 3)..(n + 2 + m) : k[i] \in Char \cup {"#"}
    BY <1>1
  <2>2. /\ SubSeq(k, n + 3, n + 2 + m) \in Seq(Char \cup {"#"})
        /\ Len(SubSeq(k, n + 3, n + 2 + m)) = m
        /\ \A i \in 1..m : SubSeq(k, n + 3, n + 2 + m)[i] = k[n + 2 + i]
    BY <1>1, <2>1, SubSeqProperties
  <2>3. SubSeq(k, n + 3, n + 2 + m) = p
    BY <1>1, <2>2, SeqEqual DEF m
  <2> QED  BY <1>1, <1>4, <1>6, <2>3
<1>9. HasTwoParts(k)
  BY <1>2, <1>3, <1>5, <1>8
<1> QED  BY <1>7, <1>8, <1>9 DEF k

\* GetVendorProducts skips no key that InsertCpes stored, and the two parts it answers have
\* the key they were split from, by which GetCpesByVendorProduct finds their CPEs.
THEOREM KeyHasTwoParts ==
  ASSUME NEW v \in Name, NEW p \in Name, Quoted(v), Quoted(p)
  PROVE  /\ HasTwoParts(VPKey(v, p))
         /\ VPKey(Before(VPKey(v, p)), After(VPKey(v, p))) = VPKey(v, p)
<1>1. CASE ~EndsInHash(v)
  BY <1>1, KeySplits
<1>2. CASE EndsInHash(v)
  <2> DEFINE C == Char \cup {"#"}
  <2> DEFINE k == VPKey(v, p)
  <2> DEFINE n == Len(v)
  <2> DEFINE m == Len(p)
  <2>1. /\ n \in Nat /\ n > 0 /\ m \in Nat /\ Len(k) = n + 2 + m
        /\ k[n + 1] = "#" /\ k[n + 2] = "#"
        /\ \A i \in 1..m : k[n + 2 + i] = p[i]
        /\ k \in Seq(C)
    <3>1. n \in Nat /\ n > 0 /\ m \in Nat
      BY <1>2, EmptySeq DEF Name, EndsInHash
    <3> QED  BY ONLY <3>1, KeyElements, v \in Name, p \in Name
  <2>2. Cuts(k) = {n, n + 1}
    BY <1>2, KeyCuts
  <2>3. /\ \A i \in 1..m : i < m => ~(p[i] = "#" /\ p[i + 1] = "#")
        /\ m > 0 => p[1] # "#"
    BY QuotedHasNoCut DEF Cuts
  <2>4. /\ Before(k) = SubSeq(k, 1, FirstCut(k) - 1)
        /\ After(k) = SubSeq(k, FirstCut(k) + 2, Len(k))
    BY DEF Before, After
  <2>5. HasTwoParts(k) <=> Cuts(k) # {} /\ Cuts(After(k)) = {}
    BY DEF HasTwoParts
  <2>6. k[n] = "#"
    <3>1. v[n] = "#" /\ n \in 1..Len(v)
      BY <1>2, <2>1 DEF EndsInHash
    <3> QED  BY <3>1, KeyElements
  <2> HIDE DEF C, k, n, m
  <2>7. FirstCut(k) = n
    BY <2>1, <2>2 DEF FirstCut
  <2> DEFINE b == SubSeq(k, 1, n - 1)
  <2> DEFINE a == SubSeq(k, n + 2, n + 2 + m)
  <2>8. Before(k) = b /\ After(k) = a
    BY <2>1, <2>4, <2>7
  <2>9. b \in Seq(C) /\ Len(b) = n - 1 /\ \A i \in 1..(n - 1) : b[i] = k[i]
    <3>1. \A i \in 1..(n - 1) : k[i] \in C
      BY <2>1
    <3> QED  BY <2>1, <3>1, SubSeqProperties
  <2>10. a \in Seq(C) /\ Len(a) = m + 1 /\ \A i \in 1..(m + 1) : a[i] = k[n + 1 + i]
    <3>1. \A i \in (n + 2)..(n + 2 + m) : k[i] \in C
      BY <2>1
    <3> QED  BY <2>1, <3>1, SubSeqProperties
  <2> HIDE DEF b, a
  <2>11. Cuts(a) = {}
    <3> SUFFICES ASSUME NEW i \in 1..(m + 1), i < m + 1, a[i] = "#", a[i + 1] = "#" PROVE FALSE
      BY <2>1, <2>10 DEF Cuts
    <3>1. a[i + 1] = p[i] /\ i \in 1..m
      <4>1. i + 1 \in 1..(m + 1) /\ n + 1 + (i + 1) = n + 2 + i /\ i \in 1..m
        BY <2>1
      <4> QED  BY <2>1, <2>10, <4>1
    <3>2. i # 1
      BY <2>1, <2>3, <3>1
    <3>3. i - 1 \in 1..m /\ i - 1 < m /\ (i - 1) + 1 = i /\ n + 1 + i = n + 2 + (i - 1)
      BY <2>1, <3>1, <3>2
    <3>4. a[i] = p[i - 1]
      BY <2>1, <2>10, <3>3
    <3> QED  BY <2>3, <3>1, <3>3, <3>4
  <2>12. HasTwoParts(k)
    BY <2>2, <2>5, <2>8, <2>11
  <2>13. VPKey(b, a) = k
    <3> DEFINE w == b \o Separator
    <3>1. Separator \in Seq(C) /\ Len(Separator) = 2 /\ Separator[1] = "#" /\ Separator[2] = "#"
      BY DEF Separator, C
    <3>2. /\ w \in Seq(C) /\ Len(w) = Len(b) + Len(Separator)
          /\ \A i \in 1..(Len(b) + Len(Separator)) :
                w[i] = IF i <= Len(b) THEN b[i] ELSE Separator[i - Len(b)]
      BY <2>9, <3>1, ConcatProperties
    <3>3. VPKey(b, a) = w \o a
      BY DEF VPKey
    <3> HIDE DEF w
    <3>4. w \in Seq(C) /\ a \in Seq(C)
      BY <2>10, <3>2
    <3>5. /\ w \o a \in Seq(C) /\ Len(w \o a) = Len(w) + Len(a)
          /\ \A i \in 1..(Len(w) + Len(a)) :
                (w \o a)[i] = IF i <= Len(w) THEN w[i] ELSE a[i - Len(w)]
      BY <3>4, ConcatProperties
    <3>6. Len(w) = n + 1 /\ Len(w \o a) = Len(k)
      BY <2>1, <2>9, <2>10, <3>1, <3>2, <3>5
    <3>7. ASSUME NEW i \in 1..(n + 1) PROVE w[i] = k[i]
      <4>1. i \in 1..(n - 1) => w[i] = b[i] /\ b[i] = k[i]
        BY <2>1, <2>9, <3>1, <3>2
      <4>2. i \notin 1..(n - 1) => w[i] = Separator[i - (n - 1)]
        BY <2>1, <2>9, <3>1, <3>2
      <4>3. i \notin 1..(n - 1) =>
              (i = n /\ i - (n - 1) = 1) \/ (i = n + 1 /\ i - (n - 1) = 2)
        BY <2>1
      <4> QED  BY <2>1, <2>6, <3>1, <4>1, <4>2, <4>3
    <3>8. \A i \in 1..Len(k) : (w \o a)[i] = k[i]
      BY <2>1, <2>10, <3>5, <3>6, <3>7
    <3>9. w \o a = k
      BY <2>1, <3>5, <3>6, <3>8, SeqEqual
    <3> QED  BY <3>3, <3>9
  <2> QED  BY <2>8, <2>12, <2>13 DEF k
<1> QED  BY <1>1, <1>2

-----------------------------------------------------------------------------
(***************************************************************************)
(* LIKE. It is defined by recursion over the rest of the pattern; that     *)
(* there is such a function is shown row by row from the last one, with a  *)
(* least row where the others exist taking the place of an induction.      *)
(***************************************************************************)

LEMMA LeastNumber ==
  ASSUME NEW S \in SUBSET Nat, S # {}
  PROVE  \E n \in S : \A m \in S : n <= m
<1> DEFINE R == OpToRel(<, Nat)
<1>1. PICK n \in S : \A m \in S : <<m, n>> \notin R
  <2> HIDE DEF R
  <2>1. IsWellFoundedOn(R, Nat)
    BY NatLessThanWellFounded DEF R
  <2> QED  BY <2>1, WFMin
<1>2. \A m \in S : ~(m < n)
  BY <1>1 DEF OpToRel
<1> QED  BY <1>2

\* Where the pattern from a place on matches depends on later places only.
SameAfter(s, pattern, f, g, i) ==
  \A a \in 1..(Len(pattern) + 1) : \A b \in 1..(Len(s) + 1) :
    a > i => f[<<a, b>>] = g[<<a, b>>]

LEMMA MatchesLooksAhead ==
  ASSUME NEW s \in Name, NEW pattern \in Name, NEW f, NEW g,
         NEW i \in 1..(Len(pattern) + 1), NEW j \in 1..(Len(s) + 1),
         SameAfter(s, pattern, f, g, i)
  PROVE  Matches(s, pattern, f, i, j) = Matches(s, pattern, g, i, j)
<1> USE DEF SameAfter
<1>1. Len(pattern) \in Nat /\ Len(s) \in Nat
  BY DEF Name
<1>2. CASE i > Len(pattern)
  BY <1>2 DEF Matches
<1>3. CASE i <= Len(pattern) /\ pattern[i] = "%"
  <2>1. \A k \in j..(Len(s) + 1) : f[<<i + 1, k>>] = g[<<i + 1, k>>]
    BY <1>1, <1>3
  <2> QED  BY <1>1, <1>3, <2>1 DEF Matches
<1>4. CASE i <= Len(pattern) /\ pattern[i] # "%"
  <2>1. CASE j <= Len(s)
    <3>1. f[<<i + 1, j + 1>>] = g[<<i + 1, j + 1>>]
      BY <1>1, <1>4, <2>1
    <3>2. Escaped(pattern, i) => f[<<i + 2, j + 1>>] = g[<<i + 2, j + 1>>]
      BY <1>1, <1>4, <2>1 DEF Escaped
    <3> QED  BY <1>1, <1>4, <2>1, <3>1, <3>2 DEF Matches
  <2>2. CASE ~(j <= Len(s))
    BY <1>1, <1>4, <2>2 DEF Matches
  <2> QED  BY <2>1, <2>2
<1> QED  BY <1>1, <1>2, <1>3, <1>4

\* Like follows a function that says of each place of the pattern where it matches.
LEMMA LikeIsMatches ==
  ASSUME NEW s \in Name, NEW pattern \in Name
  PROVE  \E rest :
           /\ Like(s, pattern) = rest[<<1, 1>>]
           /\ \A i \in 1..(Len(pattern) + 1) : \A j \in 1..(Len(s) + 1) :
                rest[<<i, j>>] = Matches(s, pattern, rest, i, j)
<1> DEFINE L == Len(pattern)
<1> DEFINE M == Len(s)
<1> DEFINE D == (1..(L + 1)) \X (1..(M + 1))
<1> DEFINE Row(f, n) == \A i \in n..(L + 1) : \A j \in 1..(M + 1) :
                          f[<<i, j>>] = Matches(s, pattern, f, i, j)
<1> DEFINE Good == {n \in 1..(L + 1) : \E f : Row(f, n)}
<1>1. L \in Nat /\ M \in Nat
  BY DEF Name
<1> HIDE DEF Row
<1>2. L + 1 \in Good
  <2> DEFINE f == [at \in D |-> at[2] > M]
  <2>1. ASSUME NEW i \in (L + 1)..(L + 1), NEW j \in 1..(M + 1)
        PROVE  f[<<i, j>>] = Matches(s, pattern, f, i, j)
    <3>1. i > L /\ <<i, j>> \in D
      BY <1>1
    <3>2. f[<<i, j>>] = (j > M)
      BY <3>1
    <3> HIDE DEF f
    <3> QED  BY <3>1, <3>2 DEF Matches
  <2> HIDE DEF f
  <2>2. Row(f, L + 1)
    BY <2>1 DEF Row
  <2> QED  BY <1>1, <2>2
<1>3. PICK n \in Good : \A m \in Good : n <= m
  <2>1. Good \in SUBSET Nat
    BY <1>1
  <2>2. Good # {}
    BY <1>2
  <2> HIDE DEF Good
  <2> QED  BY <2>1, <2>2, LeastNumber
<1>4. n = 1
  <2> SUFFICES ASSUME n # 1 PROVE FALSE
    OBVIOUS
  <2>1. PICK f : Row(f, n)
    BY <1>3
  <2>2. n \in 1..(L + 1) /\ n - 1 \in 1..(L + 1) /\ n - 1 < n
    BY <1>1, <1>3
  <2> DEFINE g == [at \in D |-> IF at[1] = n - 1
                                THEN Matches(s, pattern, f, at[1], at[2]) ELSE f[at]]
  <2>3. ASSUME NEW i \in (n - 1)..(L + 1), NEW j \in 1..(M + 1)
        PROVE  g[<<i, j>>] = Matches(s, pattern, g, i, j)
    <3>1. i \in 1..(L + 1) /\ i >= n - 1
      BY <1>1, <2>2
    <3>2. g[<<i, j>>] = Matches(s, pattern, f, i, j)
      <4>1. <<i, j>> \in D
        BY <3>1
      <4>2. CASE i = n - 1
        BY <4>1, <4>2
      <4>3. CASE i # n - 1
        <5>1. i \in n..(L + 1)
          BY <1>1, <2>2, <3>1, <4>3
        <5>2. f[<<i, j>>] = Matches(s, pattern, f, i, j)
          BY <2>1, <5>1 DEF Row
        <5> QED  BY <4>1, <4>3, <5>2
      <4> QED  BY <4>2, <4>3
    <3>3. SameAfter(s, pattern, f, g, i)
      <4> SUFFICES ASSUME NEW a \in 1..(L + 1), NEW b \in 1..(M + 1), a > i
                   PROVE  f[<<a, b>>] = g[<<a, b>>]
        BY DEF SameAfter
      <4>1. <<a, b>> \in D /\ a # n - 1
        BY <1>1, <2>2, <3>1
      <4> QED  BY <4>1
    <3> HIDE DEF g
    <3>4. i \in 1..(Len(pattern) + 1) /\ j \in 1..(Len(s) + 1)
      BY <3>1
    <3>5. Matches(s, pattern, f, i, j) = Matches(s, pattern, g, i, j)
      BY <3>3, <3>4, MatchesLooksAhead
    <3> QED  BY <3>2, <3>5
  <2> HIDE DEF g
  <2>4. Row(g, n - 1)
    BY <2>3 DEF Row
  <2>5. n - 1 \in Good
    BY <2>2, <2>4
  <2> QED  BY <1>1, <1>3, <2>2, <2>5
<1> DEFINE Eq(h) == h = [at \in D |-> Matches(s, pattern, h, at[1], at[2])]
<1>5. \E h : Eq(h)
  <2>1. PICK f : Row(f, 1)
    BY <1>3, <1>4
  <2> DEFINE h == [at \in D |-> f[at]]
  <2>2. ASSUME NEW i \in 1..(L + 1), NEW j \in 1..(M + 1)
        PROVE  h[<<i, j>>] = Matches(s, pattern, h, i, j)
    <3>1. SameAfter(s, pattern, f, h, i)
      BY DEF SameAfter
    <3>2. f[<<i, j>>] = Matches(s, pattern, f, i, j) /\ f[<<i, j>>] = h[<<i, j>>]
      BY <2>1 DEF Row
    <3> HIDE DEF h
    <3>3. i \in 1..(Len(pattern) + 1) /\ j \in 1..(Len(s) + 1)
      OBVIOUS
    <3>4. Matches(s, pattern, f, i, j) = Matches(s, pattern, h, i, j)
      BY <3>1, <3>3, MatchesLooksAhead
    <3> QED  BY <3>2, <3>4
  <2>3. h = [at \in D |-> h[at]]
    OBVIOUS
  <2> HIDE DEF h
  <2>4. ASSUME NEW at \in D PROVE h[at] = Matches(s, pattern, h, at[1], at[2])
    <3>1. at = <<at[1], at[2]>> /\ at[1] \in 1..(L + 1) /\ at[2] \in 1..(M + 1)
      OBVIOUS
    <3> QED  BY <2>2, <3>1
  <2> QED  BY <2>3, <2>4
<1> DEFINE r == CHOOSE h : Eq(h)
<1>6. Like(s, pattern) = r[<<1, 1>>]
  BY DEF Like
<1>7. Eq(r)
  BY <1>5
<1> HIDE DEF r
<1>8. ASSUME NEW i \in 1..(L + 1), NEW j \in 1..(M + 1)
      PROVE  r[<<i, j>>] = Matches(s, pattern, r, i, j)
  <2>1. <<i, j>> \in D
    OBVIOUS
  <2> QED  BY <1>7, <2>1
<1> QED  BY <1>6, <1>8

\* Does a name stand for itself as a pattern, and for nothing else?
Literal(s) == ~Escapes \/ \A i \in 1..Len(s) : s[i] # "\\"
Plain(s) == Literal(s) /\ \A i \in 1..Len(s) : s[i] \notin {"%", "_"}

\* A name matches itself as a pattern, unless a backslash in it is taken for an escape.
LEMMA LikeSelf ==
  ASSUME NEW s \in Name, Literal(s)
  PROVE  Like(s, s)
<1>1. PICK rest :
        /\ Like(s, s) = rest[<<1, 1>>]
        /\ \A i \in 1..(Len(s) + 1) : \A j \in 1..(Len(s) + 1) :
             rest[<<i, j>>] = Matches(s, s, rest, i, j)
  BY LikeIsMatches
<1> DEFINE L == Len(s)
<1> DEFINE Bad == {k \in 0..L : ~rest[<<L + 1 - k, L + 1 - k>>]}
<1>2. L \in Nat
  BY DEF Name
<1>3. Bad = {}
  <2> SUFFICES ASSUME Bad # {} PROVE FALSE
    OBVIOUS
  <2>1. PICK k \in Bad : \A m \in Bad : k <= m
    <3>1. Bad \in SUBSET Nat
      BY <1>2
    <3> HIDE DEF Bad
    <3> QED  BY <3>1, LeastNumber
  <2> DEFINE i == L + 1 - k
  <2>2. k \in 0..L /\ i \in 1..(L + 1) /\ ~rest[<<i, i>>]
    BY <1>2, <2>1
  <2>3. rest[<<i, i>>] = Matches(s, s, rest, i, i)
    BY <1>1, <2>2
  <2>4. CASE k = 0
    <3>1. i > Len(s)
      BY <1>2, <2>4
    <3> HIDE DEF i
    <3> QED  BY <2>2, <2>3, <3>1 DEF Matches
  <2>5. CASE k # 0
    <3>1. k - 1 \in 0..L /\ k - 1 < k /\ L + 1 - (k - 1) = i + 1 /\ i <= Len(s)
      BY <1>2, <2>2, <2>5
    <3>2. k - 1 \notin Bad
      BY <1>2, <2>1, <2>2, <3>1
    <3>3. rest[<<i + 1, i + 1>>]
      BY <3>1, <3>2
    <3>4. ~Escaped(s, i)
      BY <1>2, <2>2, <3>1 DEF Escaped, Literal
    <3>5. i + 1 \in i..(Len(s) + 1) /\ ~(i > Len(s))
      BY <1>2, <2>2, <3>1
    <3> HIDE DEF i
    <3> QED  BY <2>2, <2>3, <3>1, <3>3, <3>4, <3>5 DEF Matches
  <2> QED  BY <2>4, <2>5
<1>4. L \in 0..L /\ L + 1 - L = 1
  BY <1>2
<1>5. rest[<<1, 1>>]
  BY <1>3, <1>4
<1> QED  BY <1>1, <1>5

\* A pattern without wildcards or escapes matches one name only.
LEMMA LikeOnlySelf ==
  ASSUME NEW s \in Name, NEW pattern \in Name, Plain(pattern), Like(s, pattern)
  PROVE  s = pattern
<1>1. PICK rest :
        /\ Like(s, pattern) = rest[<<1, 1>>]
        /\ \A i \in 1..(Len(pattern) + 1) : \A j \in 1..(Len(s) + 1) :
             rest[<<i, j>>] = Matches(s, pattern, rest, i, j)
  BY LikeIsMatches
<1> DEFINE L == Len(pattern)
<1> DEFINE M == Len(s)
<1> DEFINE Bad == {k \in 1..(L + 1) : k <= M + 1 /\ ~rest[<<k, k>>]}
<1>2. /\ L \in Nat /\ DOMAIN pattern = 1..L
      /\ M \in Nat /\ DOMAIN s = 1..M
  BY DEF Name
<1>3. ASSUME NEW i \in 1..(L + 1), i <= M + 1, rest[<<i, i>>]
      PROVE  \/ i = L + 1 /\ i = M + 1
             \/ i <= L /\ i <= M /\ pattern[i] = s[i] /\ rest[<<i + 1, i + 1>>]
  <2>1. i \in 1..(M + 1)
    BY <1>2, <1>3
  <2>2. Matches(s, pattern, rest, i, i)
    BY <1>1, <1>3, <2>1
  <2>3. CASE i > Len(pattern)
    <3>1. i > Len(s)
      BY <2>2, <2>3 DEF Matches
    <3> QED  BY <1>2, <1>3, <2>3, <3>1
  <2>4. CASE ~(i > Len(pattern))
    <3>1. ~Escaped(pattern, i) /\ pattern[i] # "%" /\ pattern[i] # "_"
      <4>1. i \in 1..Len(pattern)
        BY <1>2, <2>4
      <4> QED  BY <4>1 DEF Plain, Literal, Escaped
    <3>2. i <= Len(s) /\ pattern[i] = s[i] /\ rest[<<i + 1, i + 1>>]
      BY <2>2, <2>4, <3>1 DEF Matches
    <3> QED  BY <1>2, <2>4, <3>2
  <2> QED  BY <2>3, <2>4
<1>4. Bad = {}
  <2> SUFFICES ASSUME Bad # {} PROVE FALSE
    OBVIOUS
  <2>1. PICK k \in Bad : \A m \in Bad : k <= m
    <3>1. Bad \in SUBSET Nat
      BY <1>2
    <3> HIDE DEF Bad
    <3> QED  BY <3>1, LeastNumber
  <2>2. k # 1
    BY <1>1, <2>1
  <2>3. k - 1 \in 1..(L + 1) /\ k - 1 <= M + 1 /\ k - 1 < k /\ (k - 1) + 1 = k
    BY <1>2, <2>1, <2>2
  <2>4. rest[<<k - 1, k - 1>>]
    BY <1>2, <2>1, <2>3
  <2>5. rest[<<k, k>>] \/ (k - 1 = L + 1 /\ k - 1 = M + 1)
    BY <1>3, <2>3, <2>4
  <2> QED  BY <1>2, <2>1, <2>5
<1>5. ASSUME NEW i \in 1..(L + 1), i <= M + 1
      PROVE  \/ i = L + 1 /\ i = M + 1
             \/ i <= L /\ i <= M /\ pattern[i] = s[i]
  BY <1>3, <1>4, <1>5
<1>6. L \in Nat /\ M \in Nat
  BY <1>2
<1> HIDE DEF Bad, L, M
<1>7. L = M
  <2>1. CASE L <= M
    <3>1. L + 1 \in 1..(L + 1) /\ L + 1 <= M + 1
      BY <1>6, <2>1
    <3> QED  BY <1>5, <1>6, <3>1
  <2>2. CASE M <= L
    <3>1. M + 1 \in 1..(L + 1) /\ M + 1 <= M + 1
      BY <1>6, <2>2
    <3> QED  BY <1>5, <1>6, <3>1
  <2> QED  BY <1>6, <2>1, <2>2
<1>8. \A i \in 1..L : s[i] = pattern[i]
  BY <1>5, <1>6, <1>7
<1> QED  BY <1>7, <1>8, SeqEqual DEF Name, L, M

-----------------------------------------------------------------------------
(* The answers *)

\* The members that a set of CPEs stands for, family by family.
LEMMA MembersSay ==
  ASSUME NEW cs
  PROVE  /\ \A v : ProductMember(v) \in Members(cs) <=> \E c \in cs : ~c.deprecated /\ c.vp = v
         /\ \A v : DeprecatedProduct(v) \in Members(cs)
                <=> \E c \in cs : c.deprecated /\ c.vp = v
         /\ \A u : DeprecatedMember(u) \in Members(cs)
                <=> \E c \in cs : c.deprecated /\ c.cpeURI = u
         /\ \A v, u : VPMember(v, u) \in Members(cs) <=> \E c \in cs : c.vp = v /\ c.cpeURI = u
         /\ \A t, u : TitleMember(t, u) \in Members(cs)
                <=> \E c \in cs : c.title = t /\ c.cpeURI = u
<1>1. \A c : MembersOf(c) = IF c.deprecated
        THEN {DeprecatedMember(c.cpeURI), DeprecatedProduct(c.vp),
              VPMember(c.vp, c.cpeURI), TitleMember(c.title, c.cpeURI)}
        ELSE {ProductMember(c.vp), VPMember(c.vp, c.cpeURI), TitleMember(c.title, c.cpeURI)}
  BY DEF MembersOf, Elements, AddCommands
<1>2. \A m : m \in Members(cs) <=> \E c \in cs : m \in MembersOf(c)
  BY DEF Members
<1>3. \A v : ProductMember(v) \in Members(cs) <=> \E c \in cs : ~c.deprecated /\ c.vp = v
  BY <1>1, <1>2 DEF VPMember, ProductMember, DeprecatedProduct, DeprecatedMember, TitleMember
<1>4. \A v : DeprecatedProduct(v) \in Members(cs) <=> \E c \in cs : c.deprecated /\ c.vp = v
  BY <1>1, <1>2 DEF VPMember, ProductMember, DeprecatedProduct, DeprecatedMember, TitleMember
<1>5. \A u : DeprecatedMember(u) \in Members(cs) <=> \E c \in cs : c.deprecated /\ c.cpeURI = u
  BY <1>1, <1>2 DEF VPMember, ProductMember, DeprecatedProduct, DeprecatedMember, TitleMember
<1>6. \A v, u : VPMember(v, u) \in Members(cs) <=> \E c \in cs : c.vp = v /\ c.cpeURI = u
  BY <1>1, <1>2 DEF VPMember, ProductMember, DeprecatedProduct, DeprecatedMember, TitleMember
<1>7. \A t, u : TitleMember(t, u) \in Members(cs) <=> \E c \in cs : c.title = t /\ c.cpeURI = u
  BY <1>1, <1>2 DEF VPMember, ProductMember, DeprecatedProduct, DeprecatedMember, TitleMember
<1> QED  BY <1>3, <1>4, <1>5, <1>6, <1>7

\* The names of a pair.
LEMMA PairNames ==
  ASSUME NEW vp \in VendorProduct
  PROVE  /\ vp[1] \in Name /\ Quoted(vp[1])
         /\ vp[2] \in Name /\ Quoted(vp[2])
         /\ vp = <<vp[1], vp[2]>>
BY PairsAssumption

\* GetVendorProducts: the drivers list the same products of any set of CPEs.
LEMMA ProductsAgree ==
  ASSUME NEW cs, cs \subseteq CategorizedCpe
  PROVE  SameProducts(cs)
<1> SUFFICES ASSUME \A c \in cs : ~EndsInHash(c.vp[1]), NEW d \in BOOLEAN
             PROVE  RedisProducts(cs, d) = RDBProducts(cs, d)
  BY DEF SameProducts
<1> DEFINE P == {vp \in VendorProduct : \E c \in cs : c.deprecated = d /\ c.vp = vp}
<1>1. \A c \in cs : c.vp \in VendorProduct /\ c.deprecated \in BOOLEAN
  BY DEF CategorizedCpe
<1>2. RDBProducts(cs, d) = P
  BY <1>1 DEF RDBProducts
<1>3. RedisKeys(cs, d) = {Key(vp) : vp \in P}
  <2>1. CASE d
    <3>1. \A c \in cs : c.deprecated = d <=> c.deprecated
      BY <1>1, <2>1
    <3>2. \A vp : DeprecatedProduct(vp) \in Members(cs)
              <=> \E c \in cs : c.deprecated = d /\ c.vp = vp
      BY <3>1, MembersSay
    <3> QED  BY <2>1, <3>2 DEF RedisKeys
  <2>2. CASE ~d
    <3>1. \A vp : ProductMember(vp) \in Members(cs)
              <=> \E c \in cs : c.deprecated = d /\ c.vp = vp
      BY <1>1, <2>2, MembersSay
    <3> QED  BY <2>2, <3>1 DEF RedisKeys
  <2> QED  BY <2>1, <2>2
<1>4. ASSUME NEW vp \in P
      PROVE  HasTwoParts(Key(vp)) /\ <<Before(Key(vp)), After(Key(vp))>> = vp
  <2>1. ~EndsInHash(vp[1])
    BY <1>4
  <2> QED  BY <2>1, PairNames, KeySplits DEF Key
<1> HIDE DEF P
<1>5. RedisProducts(cs, d) = {<<Before(k), After(k)>> : k \in {Key(vp) : vp \in P}}
  BY <1>3, <1>4 DEF RedisProducts
<1>6. {<<Before(k), After(k)>> : k \in {Key(vp) : vp \in P}} = P
  BY <1>4
<1> QED  BY <1>2, <1>5, <1>6

\* GetCpesByVendorProduct: the members of a key are the CPEs of its pair alone, and so the
\* drivers answer alike wherever LIKE finds what it is asked for.
LEMMA CpesAgree ==
  ASSUME NEW cs, cs \subseteq CategorizedCpe
  PROVE  SameCpes(cs)
<1> SUFFICES ASSUME NEW vp \in VendorProduct, vp[1] # <<>>, vp[2] # <<>>, Exact(cs, vp)
             PROVE  LET Redis(d) == RedisCpes(cs, vp[1], vp[2], d)
                        RDB(d) == RDBCpes(cs, vp[1], vp[2], d)
                        Dep == {c.cpeURI : c \in {x \in cs : x.deprecated}}
                    IN  /\ Redis(TRUE) = (RDB(TRUE) \cup RDB(FALSE)) \cap Dep
                        /\ Redis(FALSE) = RDB(FALSE) \ Dep
  BY DEF SameCpes
<1> DEFINE Dep == {c.cpeURI : c \in {x \in cs : x.deprecated}}
<1>1. \A c \in cs : c.vp \in VendorProduct /\ c.deprecated \in BOOLEAN /\ c.cpeURI \in CpeURI
  BY DEF CategorizedCpe
<1>2. ASSUME NEW d \in BOOLEAN
      PROVE  RDBCpes(cs, vp[1], vp[2], d)
               = {c.cpeURI : c \in {x \in cs : x.deprecated = d /\ x.vp = vp}}
  BY DEF RDBCpes, Exact
<1>3. ASSUME NEW w \in VendorProduct, Key(w) = VPKey(vp[1], vp[2]) PROVE w = vp
  BY <1>3, PairNames, KeyInjective DEF Key
<1>4. Key(vp) = VPKey(vp[1], vp[2])
  BY DEF Key
<1>5. \A c \in CpeURI : DeprecatedMember(c) \in Members(cs) <=> c \in Dep
  BY MembersSay
<1>6. \A c \in CpeURI : VPMember(vp, c) \in Members(cs)
          <=> \E x \in cs : x.vp = vp /\ x.cpeURI = c
  BY MembersSay
<1>7. ASSUME NEW d \in BOOLEAN
      PROVE  RedisCpes(cs, vp[1], vp[2], d)
               = {c \in CpeURI : (\E x \in cs : x.vp = vp /\ x.cpeURI = c) /\ (d <=> c \in Dep)}
  <2> HIDE DEF Dep
  <2>1. \A c \in CpeURI : (\E w \in VendorProduct : Key(w) = VPKey(vp[1], vp[2])
                                                     /\ VPMember(w, c) \in Members(cs))
          <=> \E x \in cs : x.vp = vp /\ x.cpeURI = c
    BY <1>3, <1>4, <1>6
  <2> QED  BY <1>5, <2>1 DEF RedisCpes
<1>8. RedisCpes(cs, vp[1], vp[2], TRUE)
        = (RDBCpes(cs, vp[1], vp[2], TRUE) \cup RDBCpes(cs, vp[1], vp[2], FALSE)) \cap Dep
  <2>1. \A c : c \in RDBCpes(cs, vp[1], vp[2], TRUE) \cup RDBCpes(cs, vp[1], vp[2], FALSE)
          <=> \E x \in cs : x.vp = vp /\ x.cpeURI = c
    <3>1. \A d \in BOOLEAN : \A c : c \in RDBCpes(cs, vp[1], vp[2], d)
            <=> \E x \in cs : x.deprecated = d /\ x.vp = vp /\ x.cpeURI = c
      BY <1>2
    <3> QED  BY <1>1, <3>1
  <2> HIDE DEF Dep
  <2>2. \A c : c \in RedisCpes(cs, vp[1], vp[2], TRUE)
          <=> c \in Dep /\ \E x \in cs : x.vp = vp /\ x.cpeURI = c
    BY <1>1, <1>7
  <2> QED  BY <2>1, <2>2
<1>9. RedisCpes(cs, vp[1], vp[2], FALSE) = RDBCpes(cs, vp[1], vp[2], FALSE) \ Dep
  <2> DEFINE R == {c.cpeURI : c \in {x \in cs : x.deprecated = FALSE /\ x.vp = vp}} \ Dep
  <2>1. \A x \in cs : x.cpeURI \notin Dep => x.deprecated = FALSE
    BY <1>1
  <2> DEFINE S == {c \in CpeURI : (\E x \in cs : x.vp = vp /\ x.cpeURI = c) /\ c \notin Dep}
  <2>2. RedisCpes(cs, vp[1], vp[2], FALSE) = S
    BY <1>7
  <2>3. RDBCpes(cs, vp[1], vp[2], FALSE) \ Dep = R
    BY <1>2
  <2> HIDE DEF Dep
  <2>4. ASSUME NEW c \in S PROVE c \in R
    <3>1. PICK x \in cs : x.vp = vp /\ x.cpeURI = c
      OBVIOUS
    <3>2. c \notin Dep
      OBVIOUS
    <3> QED  BY <2>1, <3>1, <3>2
  <2>5. ASSUME NEW c \in R PROVE c \in S
    <3>1. PICK x \in cs : x.vp = vp /\ x.cpeURI = c
      OBVIOUS
    <3> QED  BY <1>1, <3>1
  <2> QED  BY <2>2, <2>3, <2>4, <2>5
<1> QED  BY <1>8, <1>9

\* GetSimilarCpesByTitle: the drivers search the same titles, and find the same CPEs.
LEMMA TitlesAgree ==
  ASSUME NEW cs, cs \subseteq CategorizedCpe
  PROVE  SameTitles(cs)
<1>1. \A c \in cs : c.title \in Title /\ c.cpeURI \in CpeURI
  BY DEF CategorizedCpe
<1>2. \A t, u : TitleMember(t, u) \in Members(cs) <=> \E c \in cs : c.title = t /\ c.cpeURI = u
  BY MembersSay
<1>3. RedisTitles(cs) = RDBTitles(cs)
  BY <1>1, <1>2 DEF RedisTitles, RDBTitles, TitlesIn
<1>4. \A t : RedisTitleCpes(cs, t) = RDBTitleCpes(cs, t)
  BY <1>1, <1>2 DEF RedisTitleCpes, RDBTitleCpes
<1> QED  BY <1>3, <1>4 DEF SameTitles

\* Both drivers give the same answers of every set of CPEs, in the three queries.
THEOREM AnswersAgree ==
  ASSUME NEW cs, cs \subseteq CategorizedCpe
  PROVE  SameProducts(cs) /\ SameCpes(cs) /\ SameTitles(cs)
BY ProductsAgree, CpesAgree, TitlesAgree

\* Names without wildcards and escapes: LIKE finds the rows of the product that was asked
\* for, so that the condition under which SameCpes compares the answers is met.
THEOREM PlainNamesAreExact ==
  ASSUME NEW cs, cs \subseteq CategorizedCpe,
         NEW vp \in VendorProduct, Plain(vp[1]), Plain(vp[2])
  PROVE  Exact(cs, vp)
<1> SUFFICES ASSUME NEW c \in cs
             PROVE  Like(c.vp[1], vp[1]) /\ Like(c.vp[2], vp[2]) <=> c.vp = vp
  BY DEF Exact
<1>1. c.vp \in VendorProduct
  BY DEF CategorizedCpe
<1>2. /\ vp = <<vp[1], vp[2]>> /\ vp[1] \in Name /\ vp[2] \in Name
      /\ c.vp = <<c.vp[1], c.vp[2]>> /\ c.vp[1] \in Name /\ c.vp[2] \in Name
  BY <1>1, PairNames
<1>3. ASSUME Like(c.vp[1], vp[1]), Like(c.vp[2], vp[2]) PROVE c.vp = vp
  <2>1. c.vp[1] = vp[1] /\ c.vp[2] = vp[2]
    BY <1>2, <1>3, LikeOnlySelf
  <2> QED  BY <1>2, <2>1
<1>4. Like(vp[1], vp[1]) /\ Like(vp[2], vp[2])
  BY <1>2, LikeSelf DEF Plain
<1> QED  BY <1>3, <1>4

\* The first part that a key splits into is not empty, nor is the second one.
LEMMA PartsNotEmpty ==
  ASSUME NEW vp \in VendorProduct, vp[1] # <<>>, vp[2] # <<>>
  PROVE  Before(Key(vp)) # <<>> /\ After(Key(vp)) # <<>>
<1> DEFINE v == vp[1]
<1> DEFINE p == vp[2]
<1> DEFINE k == VPKey(v, p)
<1>1. v \in Name /\ p \in Name /\ Quoted(v) /\ Quoted(p) /\ v # <<>> /\ p # <<>>
  BY PairNames
<1> HIDE DEF v, p
<1>2. /\ Len(v) \in Nat /\ Len(v) > 0 /\ Len(p) \in Nat /\ Len(p) > 0
      /\ k \in Seq(Char \cup {"#"}) /\ Len(k) = Len(v) + 2 + Len(p)
      /\ k[1] = v[1] /\ k[Len(v) + 1] = "#" /\ k[Len(v) + 2] = "#"
  <2>1. Len(v) \in Nat /\ Len(v) > 0 /\ Len(p) \in Nat /\ Len(p) > 0
    BY <1>1, EmptySeq DEF Name
  <2> QED  BY <1>1, <2>1, KeyElements
<1>3. v[1] # "#"
  BY <1>1, QuotedHasNoCut
<1> HIDE DEF k
<1>4. Len(v) + 1 \in Cuts(k)
  BY <1>2 DEF Cuts
<1>5. FirstCut(k) \in Cuts(k) /\ FirstCut(k) <= Len(v) + 1
  <2>1. Cuts(k) \in SUBSET Nat
    BY <1>2 DEF Cuts
  <2>2. PICK n \in Cuts(k) : \A m \in Cuts(k) : n <= m
    BY <1>4, <2>1, LeastNumber
  <2> QED  BY <1>4, <2>2 DEF FirstCut
<1>6. FirstCut(k) \in Nat /\ FirstCut(k) > 1
  BY <1>2, <1>3, <1>5 DEF Cuts
<1>7. Len(Before(k)) = FirstCut(k) - 1
  <2>1. \A i \in 1..(FirstCut(k) - 1) : k[i] \in Char \cup {"#"}
    BY <1>2, <1>5, <1>6
  <2> QED  BY <1>2, <1>5, <1>6, <2>1, SubSeqProperties DEF Before
<1>8. Len(After(k)) = Len(k) - FirstCut(k) - 1
  <2>1. \A i \in (FirstCut(k) + 2)..Len(k) : k[i] \in Char \cup {"#"}
    BY <1>2, <1>5, <1>6
  <2> QED  BY <1>2, <1>5, <1>6, <2>1, SubSeqProperties DEF After
<1>9. Len(Before(k)) > 0 /\ Len(After(k)) > 0
  BY <1>2, <1>5, <1>6, <1>7, <1>8
<1>10. Len(<<>>) = 0
  OBVIOUS
<1>11. Before(k) # <<>> /\ After(k) # <<>>
  BY <1>9, <1>10
<1> QED  BY <1>11 DEF Key, k, v, p

\* What GetVendorProducts answers leads to CPEs, in any set of CPEs.
THEOREM ListedIsFound ==
  ASSUME NEW cs, cs \subseteq CategorizedCpe,
         \A vp \in VendorProduct : vp[1] # <<>> /\ vp[2] # <<>>,
         \A vp \in VendorProduct : Literal(vp[1]) /\ Literal(vp[2])
  PROVE  ListedFound(cs)
<1>1. \A c \in cs : c.vp \in VendorProduct /\ c.cpeURI \in CpeURI /\ c.deprecated \in BOOLEAN
  BY DEF CategorizedCpe
<1>2. ASSUME NEW d \in BOOLEAN, NEW vp \in RDBProducts(cs, d)
      PROVE  RDBCpes(cs, vp[1], vp[2], d) # {}
  <2>1. PICK c \in cs : c.deprecated = d /\ c.vp = vp
    BY <1>2 DEF RDBProducts
  <2>2. Like(vp[1], vp[1]) /\ Like(vp[2], vp[2])
    BY <1>1, <2>1, PairNames, LikeSelf
  <2>3. c.cpeURI \in RDBCpes(cs, vp[1], vp[2], d)
    BY <2>1, <2>2 DEF RDBCpes
  <2> QED  BY <2>3
<1>3. ASSUME NEW d \in BOOLEAN, NEW vp \in RedisProducts(cs, d)
      PROVE  \E e \in BOOLEAN : RedisCpes(cs, vp[1], vp[2], e) # {}
  <2>1. PICK w \in VendorProduct :
          /\ (IF d THEN DeprecatedProduct(w) ELSE ProductMember(w)) \in Members(cs)
          /\ vp = <<Before(Key(w)), After(Key(w))>>
    BY <1>3 DEF RedisProducts, RedisKeys
  <2>2. PICK c \in cs : c.vp = w
    BY <2>1, MembersSay
  <2>3. VPMember(w, c.cpeURI) \in Members(cs)
    BY <2>2, MembersSay
  <2>4. vp[1] # <<>> /\ vp[2] # <<>>
    BY <2>1, PartsNotEmpty
  <2>5. Key(w) = VPKey(vp[1], vp[2])
    BY <2>1, PairNames, KeyHasTwoParts DEF Key
  <2> DEFINE e == DeprecatedMember(c.cpeURI) \in Members(cs)
  <2>6. e \in BOOLEAN
    OBVIOUS
  <2>7. c.cpeURI \in RedisCpes(cs, vp[1], vp[2], e)
    BY <1>1, <2>2, <2>3, <2>4, <2>5 DEF RedisCpes
  <2> QED  BY <2>6, <2>7
<1> QED  BY <1>2, <1>3 DEF ListedFound

-----------------------------------------------------------------------------
(***************************************************************************)
(* The feeds. What has been read of the files determines which names are   *)
(* in the maps, and where their titles are from, whatever the order of     *)
(* the files.                                                              *)
(***************************************************************************)

\* What FetchNVD has read so far of the files that were downloaded.
ReadItems == IF phase = "dictionary" THEN dictionary \ files ELSE dictionary
ReadCriteria == IF phase = "dictionary" THEN {}
                ELSE IF phase = "match" THEN {c \in criteria : [criteria |-> c] \notin files}
                ELSE criteria

FilesLeft ==
  /\ phase = "dictionary" => files \subseteq dictionary
  /\ phase = "match" => files \subseteq {[criteria |-> c] : c \in criteria}

\* A map has the well-formed names of items and of criteria; of an item's name it has the
\* title of an item.
Titled(map, items, names) ==
  /\ \A c : c \in DOMAIN map
            <=> c \notin Unparsable /\ (c \in {i.name : i \in items} \/ c \in names)
  /\ \A i \in items :
       i.name \notin Unparsable => \E j \in items : j.name = i.name /\ map[i.name] = TitleOf(j)

\* So have the maps of FetchNVD of what has been read.
DictionaryRead ==
  phase \in {"dictionary", "match", "nvd"} =>
    /\ Titled(deprecateds, {i \in ReadItems : i.deprecated}, {})
    /\ Titled(cpes, {i \in ReadItems : ~i.deprecated}, ReadCriteria)

\* The map of FetchVuls has under each title what the annotations so far have.
AnnotationsMerged ==
  phase \in {"annotations", "vls"} =>
    /\ \A t : t \in DOMAIN merged <=> \E k \in 1..count : Annotations[k].title = t
    /\ \A t \in DOMAIN merged : \A c :
         c \in ToSet(merged[t])
           <=> \E k \in 1..count : Annotations[k].title = t /\ c \in ToSet(Annotations[k].cpes)

\* What was returned is what the maps had in the end.
Returned ==
  /\ phase = "nvd" => fetched = Entries(cpes, FALSE) \cup Entries(deprecateds, TRUE)
  /\ phase = "vls" =>
       /\ count = Len(Annotations)
       /\ fetched = {[title |-> t, cpes |-> Unique(merged[t]), deprecated |-> FALSE] :
                       t \in DOMAIN merged}

FeedInv == FilesLeft /\ DictionaryRead /\ AnnotationsMerged /\ Returned

\* TitleOf: an item that has titles is given one of them, an English one if there is any.
LEMMA TitleOfItem ==
  ASSUME NEW i \in Item, i.titles # <<>>
  PROVE  \E k \in 1..Len(i.titles) :
           /\ TitleOf(i) = i.titles[k].title
           /\ (\E t \in ToSet(i.titles) : t.lang = "en") => i.titles[k].lang = "en"
<1> DEFINE ts == i.titles
<1> DEFINE En == {k \in 1..Len(ts) : ts[k].lang = "en"}
<1>1. ts \in Seq([title : Title, lang : {"en", "ja"}]) /\ ts # <<>>
  BY FeedAssumption
<1> DEFINE first == IF En # {} THEN Min(En) ELSE 0
<1>2. TitleOf(i) = IF first > 0 THEN ts[first].title ELSE ts[Len(ts)].title
  BY <1>1 DEF TitleOf, SelectInSeq, Last
<1>3. ToSet(ts) = {ts[k] : k \in 1..Len(ts)}
  BY <1>1 DEF ToSet
<1> HIDE DEF ts
<1>4. Len(ts) \in Nat /\ Len(ts) > 0
  BY <1>1, EmptySeq
<1>5. CASE En = {}
  <2>1. first = 0
    BY <1>5
  <2>2. ~\E t \in ToSet(ts) : t.lang = "en"
    BY <1>3, <1>5
  <2>3. TitleOf(i) = ts[Len(ts)].title /\ Len(ts) \in 1..Len(ts)
    BY <1>2, <1>4, <2>1
  <2> QED  BY <2>2, <2>3 DEF ts
<1>6. CASE En # {}
  <2>1. first \in En
    <3>1. En \in SUBSET Nat
      BY <1>4
    <3> HIDE DEF En
    <3>2. \E k \in En : \A m \in En : k <= m
      BY <1>6, <3>1, LeastNumber
    <3> QED  BY <1>6, <3>2 DEF Min
  <2> HIDE DEF first
  <2>2. first \in 1..Len(ts) /\ ts[first].lang = "en" /\ first > 0
    BY <1>4, <2>1
  <2>3. TitleOf(i) = ts[first].title
    BY <1>2, <2>2
  <2> QED  BY <2>2, <2>3 DEF ts
<1> QED  BY <1>5, <1>6

LEMMA TitleOfType ==
  ASSUME NEW i \in Item
  PROVE  TitleOf(i) \in Title
<1>1. CASE i.titles = <<>>
  BY <1>1, TitlesAssumption DEF TitleOf
<1>2. CASE i.titles # <<>>
  <2>1. PICK k \in 1..Len(i.titles) : TitleOf(i) = i.titles[k].title
    BY <1>2, TitleOfItem
  <2>2. i.titles \in Seq([title : Title, lang : {"en", "ja"}])
    BY FeedAssumption
  <2>3. i.titles[k] \in [title : Title, lang : {"en", "ja"}]
    BY <2>2, ElementOfSeq
  <2> QED  BY <2>1, <2>3
<1> QED  BY <1>1, <1>2

\* Put: a map with one more name, or a new value for it.
LEMMA PutMaps ==
  ASSUME NEW From, NEW To, NEW map, IsMap(map, From, To), NEW c \in From, NEW t \in To
  PROVE  /\ IsMap(Put(map, c, t), From, To)
         /\ DOMAIN Put(map, c, t) = DOMAIN map \cup {c}
         /\ Put(map, c, t)[c] = t
         /\ \A x \in DOMAIN map \ {c} : Put(map, c, t)[x] = map[x]
BY DEF IsMap, Put

\* The CPEs of an annotation are well-formed names.
LEMMA AnnotationType ==
  ASSUME NEW k \in 1..Len(Annotations)
  PROVE  /\ Annotations[k].title \in Title
         /\ Annotations[k].cpes \in Seq(CpeURI)
<1>1. Annotations \in Seq([title : Title, cpes : Seq(CpeURI \ Unparsable) \ {<<>>}])
  BY FeedAssumption
<1>2. Annotations[k] \in [title : Title, cpes : Seq(CpeURI \ Unparsable) \ {<<>>}]
  BY <1>1, ElementOfSeq
<1>3. Annotations[k].title \in Title /\ Annotations[k].cpes \in Seq(CpeURI \ Unparsable)
  BY <1>2
<1> HIDE DEF FeedAssumption
<1>4. \A s : s \in Seq(CpeURI \ Unparsable) => s \in Seq(CpeURI)
  OBVIOUS
<1> QED  BY <1>3, <1>4

LEMMA ConcatSet ==
  ASSUME NEW S, NEW s \in Seq(S), NEW t \in Seq(S)
  PROVE  s \o t \in Seq(S) /\ ToSet(s \o t) = ToSet(s) \cup ToSet(t)
<1>1. /\ s \o t \in Seq(S) /\ Len(s \o t) = Len(s) + Len(t)
      /\ \A i \in 1..(Len(s) + Len(t)) :
           (s \o t)[i] = IF i <= Len(s) THEN s[i] ELSE t[i - Len(s)]
  BY ConcatProperties
<1> DEFINE u == s \o t
<1>2. /\ Len(s) \in Nat /\ DOMAIN s = 1..Len(s)
      /\ Len(t) \in Nat /\ DOMAIN t = 1..Len(t) /\ DOMAIN u = 1..(Len(s) + Len(t))
  BY <1>1
<1> HIDE DEF u
<1>3. ASSUME NEW i \in 1..Len(s) PROVE s[i] = u[i] /\ i \in DOMAIN u
  BY <1>1, <1>2 DEF u
<1>4. ASSUME NEW i \in 1..Len(t) PROVE t[i] = u[Len(s) + i] /\ Len(s) + i \in DOMAIN u
  <2>1. Len(s) + i \in 1..(Len(s) + Len(t)) /\ ~(Len(s) + i <= Len(s))
        /\ (Len(s) + i) - Len(s) = i
    BY <1>2
  <2> QED  BY <1>1, <1>2, <2>1 DEF u
<1>5. ASSUME NEW i \in 1..(Len(s) + Len(t)) PROVE u[i] \in ToSet(s) \cup ToSet(t)
  <2>1. CASE i <= Len(s)
    <3>1. i \in DOMAIN s /\ u[i] = s[i]
      BY <1>1, <1>2, <2>1 DEF u
    <3> QED  BY <3>1 DEF ToSet
  <2>2. CASE ~(i <= Len(s))
    <3>1. i - Len(s) \in DOMAIN t /\ u[i] = t[i - Len(s)]
      BY <1>1, <1>2, <2>2 DEF u
    <3> QED  BY <3>1 DEF ToSet
  <2> QED  BY <2>1, <2>2
<1>6. ToSet(u) = ToSet(s) \cup ToSet(t)
  <2>1. ToSet(u) \subseteq ToSet(s) \cup ToSet(t)
    BY <1>2, <1>5 DEF ToSet
  <2>2. ToSet(s) \subseteq ToSet(u)
    BY <1>2, <1>3 DEF ToSet
  <2>3. ToSet(t) \subseteq ToSet(u)
    BY <1>2, <1>4 DEF ToSet
  <2> QED  BY <2>1, <2>2, <2>3
<1> QED  BY <1>1, <1>6 DEF u

\* Merge: the names of an annotation join those of its title.
LEMMA MergeMaps ==
  ASSUME NEW map, IsMap(map, Title, Seq(CpeURI)), NEW k \in 1..Len(Annotations)
  PROVE  LET a == Annotations[k]
             m == Merge(map, a)
         IN  /\ IsMap(m, Title, Seq(CpeURI))
             /\ DOMAIN m = DOMAIN map \cup {a.title}
             /\ \A t \in DOMAIN map \ {a.title} : m[t] = map[t]
             /\ ToSet(m[a.title]) = ToSet(a.cpes) \cup
                  (IF a.title \in DOMAIN map THEN ToSet(map[a.title]) ELSE {})
<1> DEFINE a == Annotations[k]
<1> DEFINE m == Merge(map, a)
<1> DEFINE names == IF a.title \in DOMAIN map THEN map[a.title] \o a.cpes ELSE a.cpes
<1>1. a.title \in Title /\ a.cpes \in Seq(CpeURI)
  BY AnnotationType
<1>2. m = Put(map, a.title, names)
  BY DEF Merge
<1> HIDE DEF a
<1>3. /\ names \in Seq(CpeURI)
      /\ ToSet(names) = ToSet(a.cpes) \cup
           (IF a.title \in DOMAIN map THEN ToSet(map[a.title]) ELSE {})
  <2>1. CASE a.title \in DOMAIN map
    <3>1. map[a.title] \in Seq(CpeURI)
      BY <2>1 DEF IsMap
    <3> QED  BY <1>1, <2>1, <3>1, ConcatSet
  <2>2. CASE a.title \notin DOMAIN map
    BY <1>1, <2>2
  <2> QED  BY <2>1, <2>2
<1> HIDE DEF names, m
<1> DEFINE Names == Seq(CpeURI)
<1> DEFINE t == a.title
<1>4. IsMap(map, Title, Names) /\ t \in Title /\ names \in Names /\ m = Put(map, t, names)
  BY <1>1, <1>2, <1>3
<1> HIDE DEF Names, t
<1>5. /\ IsMap(m, Title, Names)
      /\ DOMAIN m = DOMAIN map \cup {t}
      /\ m[t] = names
      /\ \A x \in DOMAIN map \ {t} : m[x] = map[x]
  <2>1. /\ IsMap(Put(map, t, names), Title, Names)
        /\ DOMAIN Put(map, t, names) = DOMAIN map \cup {t}
        /\ Put(map, t, names)[t] = names
        /\ \A x \in DOMAIN map \ {t} : Put(map, t, names)[x] = map[x]
    BY ONLY <1>4 DEF IsMap, Put
  <2> QED  BY ONLY <1>4, <2>1
<1> QED  BY <1>3, <1>5 DEF m, a, t, Names

\* What the conversion makes of a feed are categorized CPEs.
LEMMA ConvertedType ==
  ASSUME NEW feed \in SUBSET [title : Title, cpes : SUBSET CpeURI, deprecated : BOOLEAN],
         NEW cs \in Converted(feed)
  PROVE  cs \subseteq CategorizedCpe
<1>1. cs \subseteq UNION {{Record(f.title, c, f.deprecated) : c \in f.cpes} : f \in feed}
  BY DEF Converted, kSubset
<1>2. ASSUME NEW f \in feed, NEW c \in f.cpes
      PROVE  Record(f.title, c, f.deprecated) \in CategorizedCpe
  <2>1. f.title \in Title /\ f.deprecated \in BOOLEAN /\ c \in CpeURI
    BY <1>2
  <2>2. <<Attributes[c][1], Attributes[c][2]>> \in VendorProduct
    BY <2>1, FeedAssumption
  <2> QED  BY <2>1, <2>2 DEF Record, CategorizedCpe
<1> QED  BY <1>1, <1>2

LEMMA EntriesType ==
  ASSUME NEW map, IsMap(map, CpeURI, Title), NEW d \in BOOLEAN
  PROVE  Entries(map, d) \subseteq [title : Title, cpes : SUBSET CpeURI, deprecated : BOOLEAN]
BY DEF Entries, IsMap

LEMMA FeedTypeInductive == FeedTypeOK /\ [Next]_vars => FeedTypeOK'
<1> SUFFICES ASSUME FeedTypeOK, [Next]_vars PROVE FeedTypeOK'
  OBVIOUS
<1> USE DEF nvdVars, vulsVars
<1>e. IsMap(EmptyMap, CpeURI, Title) /\ IsMap(EmptyMap, Title, Seq(CpeURI))
  BY DEF IsMap, EmptyMap
<1>1. CASE DownloadDictionary
  BY <1>1, <1>e DEF DownloadDictionary, Unpack, FeedTypeOK, Phases
<1>2. CASE DownloadMatch
  <2>1. \A m \in MatchFile : m.criteria \in CpeURI
    BY DEF MatchFile
  <2> QED  BY <1>2, <2>1 DEF DownloadMatch, Unpack, FeedTypeOK, Phases
<1>3. CASE ReturnNVD
  <2>1. IsMap(cpes, CpeURI, Title) /\ IsMap(deprecateds, CpeURI, Title)
    BY DEF FeedTypeOK
  <2>2. fetched' \subseteq [title : Title, cpes : SUBSET CpeURI, deprecated : BOOLEAN]
    BY <1>3, <2>1, EntriesType DEF ReturnNVD
  <2> QED  BY <1>3, <2>2 DEF ReturnNVD, FeedTypeOK, Phases
<1>4. CASE DownloadAnnotations
  <2>1. 0 \in 0..Len(Annotations)
    BY FeedAssumption
  <2> QED  BY <1>4, <1>e, <2>1 DEF DownloadAnnotations, FeedTypeOK, Phases
<1>5. CASE MergeAnnotation
  <2>1. count + 1 \in 1..Len(Annotations) /\ count' \in 0..Len(Annotations)
    BY <1>5, FeedAssumption DEF MergeAnnotation, FeedTypeOK
  <2>2. IsMap(merged', Title, Seq(CpeURI))
    <3> DEFINE k == count + 1
    <3>1. k \in 1..Len(Annotations) /\ IsMap(merged, Title, Seq(CpeURI))
      BY <2>1 DEF FeedTypeOK
    <3>2. merged' = Merge(merged, Annotations[k])
      BY <1>5 DEF MergeAnnotation
    <3> HIDE DEF k
    <3>3. IsMap(Merge(merged, Annotations[k]), Title, Seq(CpeURI))
      BY <3>1, MergeMaps
    <3> QED  BY <3>2, <3>3
  <2> QED  BY <1>5, <2>1, <2>2 DEF MergeAnnotation, FeedTypeOK
<1>6. CASE ReturnVuls
  <2>1. ASSUME NEW t \in DOMAIN merged PROVE t \in Title /\ Unique(merged[t]) \subseteq CpeURI
    <3>1. merged[t] \in Seq(CpeURI)
      BY <2>1 DEF FeedTypeOK, IsMap
    <3> QED  BY <2>1, <3>1, ElementOfSeq DEF FeedTypeOK, IsMap, Unique, ToSet
  <2>2. fetched' \subseteq [title : Title, cpes : SUBSET CpeURI, deprecated : BOOLEAN]
    <3> DEFINE Feed == [title : Title, cpes : SUBSET CpeURI, deprecated : BOOLEAN]
    <3> DEFINE TitleFeed(t) == [title |-> t, cpes |-> Unique(merged[t]), deprecated |-> FALSE]
    <3>1. \A t \in DOMAIN merged : TitleFeed(t) \in Feed
      BY <2>1
    <3>2. fetched' = {TitleFeed(t) : t \in DOMAIN merged}
      BY <1>6 DEF ReturnVuls
    <3> HIDE DEF Feed, TitleFeed
    <3>3. fetched' \subseteq Feed
      BY <3>1, <3>2
    <3> QED  BY <3>3 DEF Feed
  <2> QED  BY <1>6, <2>2 DEF ReturnVuls, FeedTypeOK, Phases
<1>7. CASE Fail
  BY <1>7 DEF Fail, FeedTypeOK, Phases
<1>8. ASSUME NEW i \in Item, ReadItem(i) PROVE FeedTypeOK'
  <2>1. i.name \in CpeURI /\ TitleOf(i) \in Title
    BY TitleOfType, FeedAssumption
  <2>2. IsMap(cpes, CpeURI, Title) /\ IsMap(deprecateds, CpeURI, Title)
    BY DEF FeedTypeOK
  <2>3. IsMap(Put(cpes, i.name, TitleOf(i)), CpeURI, Title)
    BY <2>1, <2>2, PutMaps
  <2>4. IsMap(Put(deprecateds, i.name, TitleOf(i)), CpeURI, Title)
    BY <2>1, <2>2, PutMaps
  <2>5. IsMap(cpes', CpeURI, Title) /\ IsMap(deprecateds', CpeURI, Title)
    BY <1>8, <2>2, <2>3, <2>4 DEF ReadItem
  <2> QED  BY <1>8, <2>5 DEF ReadItem, FeedTypeOK
<1>9. ASSUME NEW c \in CpeURI, ReadCriterion(c) PROVE FeedTypeOK'
  <2>1. IsMap(cpes, CpeURI, Title)
    BY DEF FeedTypeOK
  <2>2. c \notin Unparsable => IsMap(Put(cpes, c, DerivedTitle(c)), CpeURI, Title)
    BY <2>1, TitlesAssumption, PutMaps
  <2>3. IsMap(cpes', CpeURI, Title)
    BY <1>9, <2>1, <2>2 DEF ReadCriterion
  <2> QED  BY <1>9, <2>3 DEF ReadCriterion, FeedTypeOK
<1>10. ASSUME NEW ft \in FetchType, InsertCpes(ft) PROVE FeedTypeOK'
  <2>1. PICK cs \in Converted(fetched) : stored' = [stored EXCEPT ![ft] = cs]
    BY <1>10 DEF InsertCpes
  <2>2. cs \subseteq CategorizedCpe
    BY ConvertedType DEF FeedTypeOK
  <2>3. stored' \in [FetchType -> SUBSET CategorizedCpe]
    BY <2>1, <2>2 DEF FeedTypeOK
  <2> QED  BY <1>10, <2>3 DEF InsertCpes, FeedTypeOK, Phases
<1>11. CASE UNCHANGED vars
  BY <1>11 DEF vars, FeedTypeOK
<1> QED
  BY <1>1, <1>2, <1>3, <1>4, <1>5, <1>6, <1>7, <1>8, <1>9, <1>10, <1>11 DEF Next

\* Every variable keeps its type, for any dictionary, criteria and annotations; what is
\* stored of a type are categorized CPEs.
THEOREM FeedTypeCorrect == Spec => []FeedTypeOK
<1>1. Init => FeedTypeOK
  <2> SUFFICES ASSUME Init PROVE FeedTypeOK
    OBVIOUS
  <2>1. IsMap(EmptyMap, CpeURI, Title) /\ IsMap(EmptyMap, Title, Seq(CpeURI))
    BY DEF IsMap, EmptyMap
  <2>2. 0 \in 0..Len(Annotations)
    BY FeedAssumption
  <2>3. stored \in [FetchType -> SUBSET CategorizedCpe]
    BY FeedAssumption DEF Init
  <2> QED  BY <2>1, <2>2, <2>3 DEF Init, FeedTypeOK, Phases
<1> QED  BY <1>1, FeedTypeInductive, PTL DEF Spec

-----------------------------------------------------------------------------
(* A step of FetchNVD *)

LEMMA EmptyIsTitled == Titled(EmptyMap, {}, {})
BY DEF Titled, EmptyMap

LEMMA ItemIsTitled ==
  ASSUME NEW map, IsMap(map, CpeURI, Title), NEW items, NEW names, Titled(map, items, names),
         NEW i \in Item
  PROVE  IF i.name \in Unparsable THEN Titled(map, items \cup {i}, names)
         ELSE Titled(Put(map, i.name, TitleOf(i)), items \cup {i}, names)
<1> DEFINE more == items \cup {i}
<1>1. PICK n \in CpeURI : n = i.name
  BY FeedAssumption
<1>2. PICK t \in Title : t = TitleOf(i)
  BY TitleOfType
<1>3. {j.name : j \in more} = {j.name : j \in items} \cup {n}
  BY <1>1
<1>4. CASE n \in Unparsable
  BY <1>1, <1>3, <1>4 DEF Titled
<1>5. CASE n \notin Unparsable
  <2> DEFINE m == Put(map, n, t)
  <2>1. DOMAIN m = DOMAIN map \cup {n} /\ m[n] = t /\ \A x \in DOMAIN map \ {n} : m[x] = map[x]
    BY DEF IsMap, Put
  <2> HIDE DEF m, more
  <2>2. \A c : c \in DOMAIN m
               <=> c \notin Unparsable /\ (c \in {j.name : j \in more} \/ c \in names)
    BY <1>3, <1>5, <2>1 DEF Titled
  <2>3. ASSUME NEW j \in more, j.name \notin Unparsable
        PROVE  \E k \in more : k.name = j.name /\ m[j.name] = TitleOf(k)
    <3>1. CASE j.name = n
      BY <1>1, <1>2, <2>1, <3>1 DEF more
    <3>2. CASE j.name # n
      <4>1. j \in items
        BY <1>1, <3>2 DEF more
      <4>2. PICK k \in items : k.name = j.name /\ map[j.name] = TitleOf(k)
        BY <2>3, <4>1 DEF Titled
      <4>3. j.name \in DOMAIN map
        BY <2>3, <4>1 DEF Titled
      <4>4. m[j.name] = map[j.name] /\ k \in more
        BY <2>1, <3>2, <4>2, <4>3 DEF more
      <4> QED  BY <4>2, <4>4
    <3> QED  BY <3>1, <3>2
  <2>4. Titled(m, more, names)
    BY <2>2, <2>3 DEF Titled
  <2> QED  BY <1>1, <1>2, <1>5, <2>4 DEF m, more
<1> QED  BY <1>4, <1>5

LEMMA CriterionIsTitled ==
  ASSUME NEW map, IsMap(map, CpeURI, Title), NEW items, NEW names, Titled(map, items, names),
         NEW c \in CpeURI, NEW t \in Title
  PROVE  IF c \in Unparsable \cup DOMAIN map THEN Titled(map, items, names \cup {c})
         ELSE Titled(Put(map, c, t), items, names \cup {c})
<1>1. CASE c \in Unparsable \cup DOMAIN map
  BY <1>1 DEF Titled
<1>2. CASE c \notin Unparsable \cup DOMAIN map
  <2> DEFINE m == Put(map, c, t)
  <2>1. DOMAIN m = DOMAIN map \cup {c} /\ m[c] = t /\ \A x \in DOMAIN map \ {c} : m[x] = map[x]
    BY PutMaps
  <2> HIDE DEF m
  <2>2. \A x : x \in DOMAIN m
            <=> x \notin Unparsable /\ (x \in {j.name : j \in items} \/ x \in names \cup {c})
    BY <1>2, <2>1 DEF Titled
  <2>3. ASSUME NEW j \in items, j.name \notin Unparsable
        PROVE  \E k \in items : k.name = j.name /\ m[j.name] = TitleOf(k)
    <3>1. j.name \in DOMAIN map
      BY <2>3 DEF Titled
    <3>2. m[j.name] = map[j.name]
      BY <1>2, <2>1, <3>1
    <3> QED  BY <2>3, <3>2 DEF Titled
  <2>4. Titled(m, items, names \cup {c})
    BY <2>2, <2>3 DEF Titled
  <2> QED  BY <1>2, <2>4 DEF m
<1> QED  BY <1>1, <1>2

LEMMA DownloadDictionaryKeeps ==
  ASSUME DownloadDictionary
  PROVE  FeedInv'
<1>1. phase' = "dictionary" /\ dictionary' = files'
      /\ cpes' = EmptyMap /\ deprecateds' = EmptyMap
  BY DEF DownloadDictionary
<1>2. ReadItems' = {} /\ ReadCriteria' = {}
  BY <1>1 DEF ReadItems, ReadCriteria
<1>3. Titled(deprecateds', {i \in ReadItems' : i.deprecated}, {})
  BY <1>1, <1>2, EmptyIsTitled
<1>4. Titled(cpes', {i \in ReadItems' : ~i.deprecated}, ReadCriteria')
  BY <1>1, <1>2, EmptyIsTitled
<1>5. DictionaryRead'
  BY <1>3, <1>4 DEF DictionaryRead, Titled
<1>6. FilesLeft' /\ AnnotationsMerged' /\ Returned'
  BY <1>1 DEF FilesLeft, AnnotationsMerged, Returned
<1> QED  BY <1>5, <1>6 DEF FeedInv

LEMMA ReadItemKeeps ==
  ASSUME FeedTypeOK, FeedInv, NEW i \in Item, ReadItem(i)
  PROVE  FeedInv'
<1>1. /\ phase = "dictionary" /\ phase' = "dictionary" /\ i \in files /\ files' = files \ {i}
      /\ dictionary' = dictionary /\ i \in dictionary
  BY DEF ReadItem, FeedInv, FilesLeft
<1>2. ReadItems' = ReadItems \cup {i} /\ ReadCriteria' = {} /\ ReadCriteria = {}
  BY <1>1 DEF ReadItems, ReadCriteria
<1>3. /\ IsMap(cpes, CpeURI, Title) /\ IsMap(deprecateds, CpeURI, Title)
      /\ Titled(deprecateds, {j \in ReadItems : j.deprecated}, {})
      /\ Titled(cpes, {j \in ReadItems : ~j.deprecated}, {})
  BY <1>1, <1>2 DEF FeedTypeOK, FeedInv, DictionaryRead
<1>4. ASSUME i.deprecated PROVE DictionaryRead'
  <2>1. /\ {j \in ReadItems' : j.deprecated} = {j \in ReadItems : j.deprecated} \cup {i}
        /\ {j \in ReadItems' : ~j.deprecated} = {j \in ReadItems : ~j.deprecated}
    BY <1>2, <1>4
  <2>2. Titled(deprecateds', {j \in ReadItems' : j.deprecated}, {})
    <3>1. IF i.name \in Unparsable
          THEN Titled(deprecateds, {j \in ReadItems : j.deprecated} \cup {i}, {})
          ELSE Titled(Put(deprecateds, i.name, TitleOf(i)),
                      {j \in ReadItems : j.deprecated} \cup {i}, {})
      BY <1>3, ItemIsTitled
    <3>2. deprecateds' = IF i.name \in Unparsable THEN deprecateds
                         ELSE Put(deprecateds, i.name, TitleOf(i))
      BY <1>4 DEF ReadItem
    <3> QED  BY <2>1, <3>1, <3>2
  <2>3. cpes' = cpes
    BY <1>4 DEF ReadItem
  <2>4. Titled(cpes', {j \in ReadItems' : ~j.deprecated}, ReadCriteria')
    BY <1>2, <1>3, <2>1, <2>3
  <2> QED  BY <2>2, <2>4 DEF DictionaryRead, Titled
<1>5. ASSUME ~i.deprecated PROVE DictionaryRead'
  <2>1. /\ {j \in ReadItems' : ~j.deprecated} = {j \in ReadItems : ~j.deprecated} \cup {i}
        /\ {j \in ReadItems' : j.deprecated} = {j \in ReadItems : j.deprecated}
    BY <1>2, <1>5
  <2>2. Titled(cpes', {j \in ReadItems' : ~j.deprecated}, ReadCriteria')
    <3>1. IF i.name \in Unparsable
          THEN Titled(cpes, {j \in ReadItems : ~j.deprecated} \cup {i}, {})
          ELSE Titled(Put(cpes, i.name, TitleOf(i)),
                      {j \in ReadItems : ~j.deprecated} \cup {i}, {})
      BY <1>3, ItemIsTitled
    <3>2. cpes' = IF i.name \in Unparsable THEN cpes ELSE Put(cpes, i.name, TitleOf(i))
      BY <1>5 DEF ReadItem
    <3> QED  BY <1>2, <2>1, <3>1, <3>2
  <2>3. deprecateds' = deprecateds
    BY <1>5 DEF ReadItem
  <2>4. Titled(deprecateds', {j \in ReadItems' : j.deprecated}, {})
    BY <1>3, <2>1, <2>3
  <2> QED  BY <2>2, <2>4 DEF DictionaryRead, Titled
<1>6. DictionaryRead'
  BY <1>4, <1>5
<1>7. FilesLeft' /\ AnnotationsMerged' /\ Returned'
  BY <1>1 DEF FilesLeft, AnnotationsMerged, Returned, FeedInv
<1> QED  BY <1>6, <1>7 DEF FeedInv

LEMMA DownloadMatchKeeps ==
  ASSUME FeedInv, DownloadMatch
  PROVE  FeedInv'
<1>1. /\ phase = "dictionary" /\ phase' = "match" /\ files = {}
      /\ files' \subseteq MatchFile /\ criteria' = {m.criteria : m \in files'}
      /\ UNCHANGED <<cpes, deprecateds, dictionary>>
  BY DEF DownloadMatch, Unpack
<1>2. \A m \in files' : m = [criteria |-> m.criteria]
  BY <1>1 DEF MatchFile
<1>3. FilesLeft'
  BY <1>1, <1>2 DEF FilesLeft
<1>4. ReadItems' = ReadItems
  BY <1>1 DEF ReadItems
<1>5. ReadCriteria = {} /\ ReadCriteria' = {}
  <2>1. \A c \in criteria' : [criteria |-> c] \in files'
    BY <1>1, <1>2
  <2> QED  BY <1>1, <2>1 DEF ReadCriteria
<1>6. DictionaryRead'
  BY <1>1, <1>4, <1>5 DEF FeedInv, DictionaryRead, Titled
<1>7. AnnotationsMerged' /\ Returned'
  BY <1>1 DEF AnnotationsMerged, Returned
<1> QED  BY <1>3, <1>6, <1>7 DEF FeedInv

LEMMA ReadCriterionKeeps ==
  ASSUME FeedTypeOK, FeedInv, NEW c \in CpeURI, ReadCriterion(c)
  PROVE  FeedInv'
<1>1. /\ phase = "match" /\ phase' = "match"
      /\ [criteria |-> c] \in files /\ files' = files \ {[criteria |-> c]}
      /\ UNCHANGED <<dictionary, criteria, deprecateds>>
  BY DEF ReadCriterion
<1>2. c \in criteria
  <2>1. PICK b \in criteria : [criteria |-> c] = [criteria |-> b]
    BY <1>1 DEF FeedInv, FilesLeft
  <2>2. [criteria |-> c].criteria = c /\ [criteria |-> b].criteria = b
    OBVIOUS
  <2>3. c = b
    BY <2>1, <2>2
  <2> QED  BY <2>3
<1>3. ReadItems' = ReadItems
  BY <1>1 DEF ReadItems
<1>4. ReadCriteria' = ReadCriteria \cup {c}
  <2>1. \A b : [criteria |-> b] = [criteria |-> c] => b = c
    <3> SUFFICES ASSUME NEW b, [criteria |-> b] = [criteria |-> c] PROVE b = c
      OBVIOUS
    <3>1. [criteria |-> c].criteria = c /\ [criteria |-> b].criteria = b
      OBVIOUS
    <3> QED  BY <3>1
  <2>2. \A b \in criteria : [criteria |-> b] \notin files'
                              <=> [criteria |-> b] \notin files \/ b = c
    BY <1>1, <2>1
  <2>3. /\ ReadCriteria = {b \in criteria : [criteria |-> b] \notin files}
        /\ ReadCriteria' = {b \in criteria : [criteria |-> b] \notin files'}
    BY <1>1 DEF ReadCriteria
  <2> QED  BY <1>2, <2>2, <2>3
<1>5. /\ IsMap(cpes, CpeURI, Title)
      /\ Titled(deprecateds, {j \in ReadItems : j.deprecated}, {})
      /\ Titled(cpes, {j \in ReadItems : ~j.deprecated}, ReadCriteria)
  BY <1>1 DEF FeedTypeOK, FeedInv, DictionaryRead
<1>6. Titled(cpes', {j \in ReadItems : ~j.deprecated}, ReadCriteria \cup {c})
  <2>1. CASE c \in Unparsable \cup DOMAIN cpes
    <3>1. Titled(cpes, {j \in ReadItems : ~j.deprecated}, ReadCriteria \cup {c})
      BY <2>1, <1>5 DEF Titled
    <3>2. cpes' = cpes
      BY <2>1 DEF ReadCriterion
    <3> QED  BY <3>1, <3>2
  <2>2. CASE c \notin Unparsable \cup DOMAIN cpes
    <3>1. PICK t \in Title : t = DerivedTitle(c)
      BY <2>2, TitlesAssumption
    <3>2. Titled(Put(cpes, c, t), {j \in ReadItems : ~j.deprecated}, ReadCriteria \cup {c})
      BY <1>5, <2>2, CriterionIsTitled
    <3>3. cpes' = Put(cpes, c, t)
      BY <2>2, <3>1 DEF ReadCriterion
    <3> QED  BY <3>2, <3>3
  <2> QED  BY <2>1, <2>2
<1>7. Titled(cpes', {j \in ReadItems' : ~j.deprecated}, ReadCriteria')
  BY <1>3, <1>4, <1>6
<1>8. Titled(deprecateds', {j \in ReadItems' : j.deprecated}, {})
  BY <1>1, <1>3, <1>5
<1>9. DictionaryRead'
  BY <1>7, <1>8 DEF DictionaryRead, Titled
<1>10. FilesLeft' /\ AnnotationsMerged' /\ Returned'
  BY <1>1 DEF FilesLeft, AnnotationsMerged, Returned, FeedInv
<1> QED  BY <1>9, <1>10 DEF FeedInv

LEMMA ReturnNVDKeeps ==
  ASSUME FeedInv, ReturnNVD
  PROVE  FeedInv'
<1>1. /\ phase = "match" /\ phase' = "nvd" /\ files = {}
      /\ UNCHANGED <<files, cpes, deprecateds, dictionary, criteria>>
      /\ fetched' = Entries(cpes, FALSE) \cup Entries(deprecateds, TRUE)
  BY DEF ReturnNVD, nvdVars
<1>2. ReadItems' = ReadItems /\ ReadCriteria' = ReadCriteria
  BY <1>1 DEF ReadItems, ReadCriteria
<1>3. DictionaryRead'
  BY <1>1, <1>2 DEF FeedInv, DictionaryRead, Titled
<1>4. Returned'
  BY <1>1 DEF Returned, Entries
<1>5. FilesLeft' /\ AnnotationsMerged'
  BY <1>1 DEF FilesLeft, AnnotationsMerged
<1> QED  BY <1>3, <1>4, <1>5 DEF FeedInv

-----------------------------------------------------------------------------
(* A step of FetchVuls *)

LEMMA DownloadAnnotationsKeeps ==
  ASSUME DownloadAnnotations
  PROVE  FeedInv'
<1>1. phase' = "annotations" /\ merged' = EmptyMap /\ count' = 0
  BY DEF DownloadAnnotations
<1>2. DOMAIN merged' = {} /\ 1..count' = {}
  BY <1>1 DEF EmptyMap
<1>3. AnnotationsMerged'
  BY <1>2 DEF AnnotationsMerged
<1>4. FilesLeft' /\ DictionaryRead' /\ Returned'
  BY <1>1 DEF FilesLeft, DictionaryRead, Returned
<1> QED  BY <1>3, <1>4 DEF FeedInv

LEMMA MergeAnnotationKeeps ==
  ASSUME FeedTypeOK, FeedInv, MergeAnnotation
  PROVE  FeedInv'
<1>1. /\ phase = "annotations" /\ phase' = "annotations" /\ count < Len(Annotations)
      /\ merged' = Merge(merged, Annotations[count + 1]) /\ count' = count + 1
  BY DEF MergeAnnotation
<1>2. PICK k \in 1..Len(Annotations) : k = count + 1
  BY <1>1, FeedAssumption DEF FeedTypeOK
<1>3. count \in Nat /\ 1..count' = (1..count) \cup {k} /\ k \notin 1..count
  BY <1>1, <1>2 DEF FeedTypeOK
<1> DEFINE a == Annotations[k]
<1>4. IsMap(merged, Title, Seq(CpeURI)) /\ merged' = Merge(merged, Annotations[k])
  BY <1>1, <1>2 DEF FeedTypeOK
<1>5. /\ DOMAIN merged' = DOMAIN merged \cup {a.title}
      /\ \A t \in DOMAIN merged \ {a.title} : merged'[t] = merged[t]
      /\ ToSet(merged'[a.title]) = ToSet(a.cpes) \cup
           (IF a.title \in DOMAIN merged THEN ToSet(merged[a.title]) ELSE {})
  BY <1>4, MergeMaps
<1>6. /\ \A t : t \in DOMAIN merged <=> \E j \in 1..count : Annotations[j].title = t
      /\ \A t \in DOMAIN merged : \A c :
           c \in ToSet(merged[t])
             <=> \E j \in 1..count : Annotations[j].title = t /\ c \in ToSet(Annotations[j].cpes)
  BY <1>1 DEF FeedInv, AnnotationsMerged
<1>7. \A t : t \in DOMAIN merged' <=> \E j \in 1..count' : Annotations[j].title = t
  BY <1>3, <1>5, <1>6
<1>8. ASSUME NEW t \in DOMAIN merged', NEW c
      PROVE  c \in ToSet(merged'[t])
               <=> \E j \in 1..count' : Annotations[j].title = t
                                        /\ c \in ToSet(Annotations[j].cpes)
  <2>1. CASE t # a.title
    <3>1. t \in DOMAIN merged /\ merged'[t] = merged[t]
      BY <1>5, <1>8, <2>1
    <3> QED  BY <1>3, <1>6, <2>1, <3>1
  <2>2. CASE t = a.title
    <3>1. c \in ToSet(merged'[t])
            <=> c \in ToSet(a.cpes) \/ (t \in DOMAIN merged /\ c \in ToSet(merged[t]))
      BY <1>5, <2>2
    <3>2. t \in DOMAIN merged /\ c \in ToSet(merged[t])
            <=> \E j \in 1..count : Annotations[j].title = t /\ c \in ToSet(Annotations[j].cpes)
      BY <1>6
    <3> QED  BY <1>3, <2>2, <3>1, <3>2
  <2> QED  BY <2>1, <2>2
<1>9. AnnotationsMerged'
  BY <1>7, <1>8 DEF AnnotationsMerged, ToSet
<1>10. FilesLeft' /\ DictionaryRead' /\ Returned'
  BY <1>1 DEF FilesLeft, DictionaryRead, Returned
<1> QED  BY <1>9, <1>10 DEF FeedInv

LEMMA ReturnVulsKeeps ==
  ASSUME FeedInv, ReturnVuls
  PROVE  FeedInv'
<1>1. /\ phase = "annotations" /\ phase' = "vls" /\ count = Len(Annotations)
      /\ UNCHANGED <<merged, count>>
      /\ fetched' = {[title |-> t, cpes |-> Unique(merged[t]), deprecated |-> FALSE] :
                       t \in DOMAIN merged}
  BY DEF ReturnVuls, vulsVars
<1>2. AnnotationsMerged'
  BY <1>1 DEF FeedInv, AnnotationsMerged, ToSet
<1>3. Returned'
  BY <1>1 DEF Returned, Unique, ToSet
<1>4. FilesLeft' /\ DictionaryRead'
  BY <1>1 DEF FilesLeft, DictionaryRead
<1> QED  BY <1>2, <1>3, <1>4 DEF FeedInv

-----------------------------------------------------------------------------
(* The feeds: theorems *)

LEMMA FeedInvInductive == FeedTypeOK /\ FeedInv /\ [Next]_vars => FeedInv'
<1> SUFFICES ASSUME FeedTypeOK, FeedInv, [Next]_vars PROVE FeedInv'
  OBVIOUS
<1>1. CASE DownloadDictionary
  BY <1>1, DownloadDictionaryKeeps
<1>2. CASE DownloadMatch
  BY <1>2, DownloadMatchKeeps
<1>3. CASE ReturnNVD
  BY <1>3, ReturnNVDKeeps
<1>4. CASE DownloadAnnotations
  BY <1>4, DownloadAnnotationsKeeps
<1>5. CASE MergeAnnotation
  BY <1>5, MergeAnnotationKeeps
<1>6. CASE ReturnVuls
  BY <1>6, ReturnVulsKeeps
<1>7. ASSUME phase' \in {"idle", "failed"} PROVE FeedInv'
  BY <1>7 DEF FeedInv, FilesLeft, DictionaryRead, AnnotationsMerged, Returned
<1>8. CASE Fail
  BY <1>7, <1>8 DEF Fail
<1>9. ASSUME NEW i \in Item, ReadItem(i) PROVE FeedInv'
  BY <1>9, ReadItemKeeps
<1>10. ASSUME NEW c \in CpeURI, ReadCriterion(c) PROVE FeedInv'
  BY <1>10, ReadCriterionKeeps
<1>11. ASSUME NEW ft \in FetchType, InsertCpes(ft) PROVE FeedInv'
  BY <1>7, <1>11 DEF InsertCpes
<1>12. CASE UNCHANGED vars
  BY <1>12 DEF vars, nvdVars, vulsVars, FeedInv, FilesLeft, DictionaryRead, Titled,
       AnnotationsMerged, Returned, Entries, Unique, ToSet, ReadItems, ReadCriteria
<1> QED
  BY <1>1, <1>2, <1>3, <1>4, <1>5, <1>6, <1>8, <1>9, <1>10, <1>11, <1>12 DEF Next

LEMMA FeedInvariant == Spec => []FeedInv
<1>1. Init => FeedInv
  BY DEF Init, FeedInv, FilesLeft, DictionaryRead, AnnotationsMerged, Returned
<1> QED  BY <1>1, FeedInvInductive, FeedTypeCorrect, PTL DEF Spec

\* The names of a feed of NVD, in use and deprecated.
LEMMA NvdNames ==
  ASSUME FeedInv, phase = "nvd"
  PROVE  /\ InUse(fetched) = DOMAIN cpes /\ Deprecated(fetched) = DOMAIN deprecateds
         /\ ReadItems = dictionary /\ ReadCriteria = criteria
<1>1. fetched = Entries(cpes, FALSE) \cup Entries(deprecateds, TRUE)
  BY DEF FeedInv, Returned
<1>2. \A f : f \in fetched /\ ~f.deprecated <=> f \in Entries(cpes, FALSE)
  BY <1>1 DEF Entries
<1>3. \A f : f \in fetched /\ f.deprecated <=> f \in Entries(deprecateds, TRUE)
  BY <1>1 DEF Entries
<1>4. InUse(fetched) = UNION {f.cpes : f \in Entries(cpes, FALSE)}
  BY <1>2 DEF InUse
<1>5. Deprecated(fetched) = UNION {f.cpes : f \in Entries(deprecateds, TRUE)}
  BY <1>3 DEF Deprecated
<1>6. ASSUME NEW map, NEW d PROVE UNION {f.cpes : f \in Entries(map, d)} = DOMAIN map
  <2>1. ASSUME NEW x \in DOMAIN map PROVE \E f \in Entries(map, d) : x \in f.cpes
    <3>1. [title |-> map[x], cpes |-> {x}, deprecated |-> d] \in Entries(map, d)
      BY DEF Entries
    <3>2. x \in [title |-> map[x], cpes |-> {x}, deprecated |-> d].cpes
      OBVIOUS
    <3> QED  BY <3>1, <3>2
  <2>2. ASSUME NEW f \in Entries(map, d), NEW x \in f.cpes PROVE x \in DOMAIN map
    <3>1. PICK c \in DOMAIN map : f = [title |-> map[c], cpes |-> {c}, deprecated |-> d]
      BY DEF Entries
    <3> QED  BY <3>1
  <2> QED  BY <2>1, <2>2
<1>7. InUse(fetched) = DOMAIN cpes /\ Deprecated(fetched) = DOMAIN deprecateds
  BY <1>4, <1>5, <1>6
<1>8. ReadItems = dictionary /\ ReadCriteria = criteria
  BY DEF ReadItems, ReadCriteria
<1> QED  BY <1>7, <1>8

\* What FetchVuls returns for a title.
TitleFeed(t) == [title |-> t, cpes |-> ToSet(merged[t]), deprecated |-> FALSE]

\* A feed is complete, whatever files there are and in whatever order they are read.
THEOREM FeedsAreComplete == Spec => []FeedComplete
<1>1. FeedTypeOK /\ FeedInv => FeedComplete
  <2> SUFFICES ASSUME FeedTypeOK, FeedInv PROVE FeedComplete
    OBVIOUS
  <2>1. ASSUME phase = "nvd"
        PROVE  /\ Deprecated(fetched)
                    = {i.name : i \in {x \in dictionary : x.deprecated}} \ Unparsable
               /\ InUse(fetched) = ({i.name : i \in {x \in dictionary : ~x.deprecated}}
                                      \cup criteria) \ Unparsable
    <3>1. /\ Titled(deprecateds, {i \in dictionary : i.deprecated}, {})
          /\ Titled(cpes, {i \in dictionary : ~i.deprecated}, criteria)
      BY <2>1, NvdNames DEF FeedInv, DictionaryRead
    <3>2. DOMAIN deprecateds = {i.name : i \in {x \in dictionary : x.deprecated}} \ Unparsable
      BY <3>1 DEF Titled
    <3>3. DOMAIN cpes = ({i.name : i \in {x \in dictionary : ~x.deprecated}} \cup criteria)
                          \ Unparsable
      BY <3>1 DEF Titled
    <3> QED  BY <2>1, <3>2, <3>3, NvdNames
  <2>2. ASSUME phase = "vls"
        PROVE  /\ UNION {{<<f.title, c>> : c \in f.cpes} : f \in fetched}
                    = UNION {{<<a.title, c>> : c \in ToSet(a.cpes)} : a \in ToSet(Annotations)}
               /\ \A f, g \in fetched : f.title = g.title => f = g
    <3>1. /\ fetched = {[title |-> t, cpes |-> ToSet(merged[t]), deprecated |-> FALSE] :
                          t \in DOMAIN merged}
          /\ \A t : t \in DOMAIN merged
                    <=> \E k \in 1..Len(Annotations) : Annotations[k].title = t
          /\ \A t \in DOMAIN merged : \A c :
               c \in ToSet(merged[t]) <=> \E k \in 1..Len(Annotations) :
                 Annotations[k].title = t /\ c \in ToSet(Annotations[k].cpes)
      BY <2>2 DEF FeedInv, Returned, AnnotationsMerged, Unique
    <3>0. ASSUME NEW f \in fetched
          PROVE  /\ f.title \in DOMAIN merged /\ f.cpes = ToSet(merged[f.title])
                 /\ f = TitleFeed(f.title)
      <4>1. PICK t \in DOMAIN merged :
              f = [title |-> t, cpes |-> ToSet(merged[t]), deprecated |-> FALSE]
        BY <3>1
      <4> QED  BY <4>1 DEF TitleFeed
    <3>2. ToSet(Annotations) = {Annotations[k] : k \in 1..Len(Annotations)}
      BY FeedAssumption DEF ToSet
    <3>3. ASSUME NEW t, NEW c
          PROVE  (\E f \in fetched : f.title = t /\ c \in f.cpes)
                   <=> \E a \in ToSet(Annotations) : a.title = t /\ c \in ToSet(a.cpes)
      <4>1. ASSUME NEW f \in fetched, f.title = t, c \in f.cpes
            PROVE  t \in DOMAIN merged /\ c \in ToSet(merged[t])
        BY <3>0, <4>1
      <4>2. ASSUME t \in DOMAIN merged, c \in ToSet(merged[t])
            PROVE  \E f \in fetched : f.title = t /\ c \in f.cpes
        <5>1. TitleFeed(t) \in fetched
          BY <3>1, <4>2 DEF TitleFeed
        <5>2. TitleFeed(t).title = t /\ TitleFeed(t).cpes = ToSet(merged[t])
          BY DEF TitleFeed
        <5> QED  BY <4>2, <5>1, <5>2
      <4>3. (\E f \in fetched : f.title = t /\ c \in f.cpes)
              <=> t \in DOMAIN merged /\ c \in ToSet(merged[t])
        BY <4>1, <4>2
      <4>4. t \in DOMAIN merged /\ c \in ToSet(merged[t])
              <=> \E k \in 1..Len(Annotations) :
                    Annotations[k].title = t /\ c \in ToSet(Annotations[k].cpes)
        BY <3>1
      <4> QED  BY <3>2, <4>3, <4>4
    <3>4. UNION {{<<f.title, c>> : c \in f.cpes} : f \in fetched}
            = UNION {{<<a.title, c>> : c \in ToSet(a.cpes)} : a \in ToSet(Annotations)}
      BY <3>3
    <3>5. \A f, g \in fetched : f.title = g.title => f = g
      BY <3>0
    <3> QED  BY <3>4, <3>5
  <2> QED  BY <2>1, <2>2 DEF FeedComplete
<1> QED  BY <1>1, FeedTypeCorrect, FeedInvariant, PTL

\* A CPE of the dictionary has one of its titles, in English if there is one in each of its
\* files; the match criteria never retitle it.
THEOREM DictionaryTitlesWin == Spec => []DictionaryTitleWins
<1>1. FeedTypeOK /\ FeedInv => DictionaryTitleWins
  <2> SUFFICES ASSUME FeedTypeOK, FeedInv, phase = "nvd", NEW f \in fetched, NEW c \in f.cpes
               PROVE  LET its == {i \in dictionary : i.name = c /\ i.deprecated = f.deprecated}
                          titles == {t \in UNION {ToSet(i.titles) : i \in its}
                                       : t.title = f.title}
                      IN  /\ its # {} /\ (\A i \in its : i.titles # <<>>) => titles # {}
                          /\ its # {} /\ (\A i \in its :
                                             \E t \in ToSet(i.titles) : t.lang = "en")
                               => \E t \in titles : t.lang = "en"
    BY DEF DictionaryTitleWins
  <2> DEFINE its == {i \in dictionary : i.name = c /\ i.deprecated = f.deprecated}
  <2> DEFINE titles == {t \in UNION {ToSet(i.titles) : i \in its} : t.title = f.title}
  <2>1. /\ Titled(deprecateds, {i \in dictionary : i.deprecated}, {})
        /\ Titled(cpes, {i \in dictionary : ~i.deprecated}, criteria)
    BY NvdNames DEF FeedInv, DictionaryRead
  <2>2. \A i \in dictionary : i \in Item /\ i.deprecated \in BOOLEAN
    BY FeedAssumption DEF FeedTypeOK
  <2>3. ASSUME its # {} PROVE \E i \in its : f.title = TitleOf(i)
    <3>1. PICK i \in its : TRUE
      BY <2>3
    <3>2. fetched = Entries(cpes, FALSE) \cup Entries(deprecateds, TRUE)
      BY DEF FeedInv, Returned
    <3>3. CASE f \in Entries(cpes, FALSE)
      <4>1. f.deprecated = FALSE /\ c \in DOMAIN cpes /\ f.title = cpes[c]
        BY <3>3 DEF Entries
      <4>2. c \notin Unparsable
        BY <2>1, <4>1 DEF Titled
      <4>3. i \in dictionary /\ ~i.deprecated /\ i.name = c
        BY <2>2, <3>1, <4>1
      <4>4. PICK j \in dictionary : ~j.deprecated /\ j.name = c /\ cpes[c] = TitleOf(j)
        BY <2>1, <4>2, <4>3 DEF Titled
      <4>5. j \in its
        BY <2>2, <4>1, <4>4
      <4> QED  BY <4>1, <4>4, <4>5
    <3>4. CASE f \in Entries(deprecateds, TRUE)
      <4>1. f.deprecated = TRUE /\ c \in DOMAIN deprecateds /\ f.title = deprecateds[c]
        BY <3>4 DEF Entries
      <4>2. c \notin Unparsable
        BY <2>1, <4>1 DEF Titled
      <4>3. i \in dictionary /\ i.deprecated /\ i.name = c
        BY <2>2, <3>1, <4>1
      <4>4. PICK j \in dictionary : j.deprecated /\ j.name = c /\ deprecateds[c] = TitleOf(j)
        BY <2>1, <4>2, <4>3 DEF Titled
      <4>5. j \in its
        BY <2>2, <4>1, <4>4
      <4> QED  BY <4>1, <4>4, <4>5
    <3> QED  BY <3>2, <3>3, <3>4
  <2>4. ASSUME NEW i \in its, f.title = TitleOf(i), i.titles # <<>>
        PROVE  \E t \in titles :
                 (\E u \in ToSet(i.titles) : u.lang = "en") => t.lang = "en"
    <3>1. i \in Item
      BY <2>2
    <3>2. PICK k \in 1..Len(i.titles) :
            /\ TitleOf(i) = i.titles[k].title
            /\ (\E u \in ToSet(i.titles) : u.lang = "en") => i.titles[k].lang = "en"
      BY <2>4, <3>1, TitleOfItem
    <3>3. i.titles[k] \in ToSet(i.titles)
      <4>1. i.titles \in Seq([title : Title, lang : {"en", "ja"}])
        BY <3>1, FeedAssumption
      <4> QED  BY <4>1 DEF ToSet
    <3>4. i.titles[k] \in titles
      BY <2>4, <3>2, <3>3
    <3> QED  BY <3>2, <3>4
  <2>5. ASSUME NEW i \in its, \E u \in ToSet(i.titles) : u.lang = "en" PROVE i.titles # <<>>
    BY <2>5 DEF ToSet
  <2> HIDE DEF its, titles
  <2>6. its # {} /\ (\A i \in its : i.titles # <<>>) => titles # {}
    BY <2>3, <2>4
  <2>7. its # {} /\ (\A i \in its : \E t \in ToSet(i.titles) : t.lang = "en")
          => \E t \in titles : t.lang = "en"
    BY <2>3, <2>4, <2>5
  <2> QED  BY <2>6, <2>7 DEF its, titles
<1> QED  BY <1>1, FeedTypeCorrect, FeedInvariant, PTL

\* What is stored are categorized CPEs, of which both drivers always give the same answers.
THEOREM DriversAlwaysAgree == Spec => []DriversAgree
<1>1. FeedTypeOK => DriversAgree
  <2> SUFFICES ASSUME FeedTypeOK PROVE DriversAgree
    OBVIOUS
  <2>1. Dictionaries \subseteq CategorizedCpe
    BY DEF FeedTypeOK, Dictionaries
  <2> QED  BY <2>1, AnswersAgree DEF DriversAgree
<1> QED  BY <1>1, FeedTypeCorrect, PTL

\* Products that are listed lead to CPEs, for any names of one character or more, unless
\* the database takes a backslash in a name for an escape.
THEOREM ListedProductsAreFound ==
  ASSUME \A vp \in VendorProduct : vp[1] # <<>> /\ vp[2] # <<>>,
         \A vp \in VendorProduct : Literal(vp[1]) /\ Literal(vp[2])
  PROVE  Spec => []ListedProductFound
<1>1. FeedTypeOK => ListedProductFound
  <2> SUFFICES ASSUME FeedTypeOK PROVE ListedProductFound
    OBVIOUS
  <2>1. Dictionaries \subseteq CategorizedCpe
    BY DEF FeedTypeOK, Dictionaries
  <2> QED  BY <2>1, ListedIsFound DEF ListedProductFound
<1> QED  BY <1>1, FeedTypeCorrect, PTL
=============================================================================
