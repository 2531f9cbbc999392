----------------------------- MODULE FeedBuilder ------------------------------
(***************************************************************************)
(* How the files of an upstream become a feed, the feed the categorized    *)
(* CPEs of its type, and these the answers of the drivers: nvd.FetchNVD    *)
(* (fetcher/nvd/nvd.go), vuls.FetchVuls (fetcher/vuls/vuls.go) and what    *)
(* ConvertToModels makes of their feeds. (JvnFetch has the third one.)     *)
(*                                                                         *)
(* A title is the sequence of its words. A name of a CPE, or the URI it is *)
(* bound to, stands for its attributes.                                    *)
(***************************************************************************)
EXTENDS Answers, SequencesExt, FiniteSetsExt

CONSTANTS
  Item,         \* files the CPE dictionary may have
  Annotations,  \* the annotations of Vuls, in a sequence
  JvnStored,    \* what an earlier fetch may have stored of JVN
  Unparsable,   \* names that UnbindFS rejects
  Attributes,   \* Attributes[c]: vendor, product, version, ..., other of the name c
  ANY           \* the value of an attribute that is not given

ASSUME FeedAssumption ==
  /\ \A i \in Item : i.name \in CpeURI /\ i.deprecated \in BOOLEAN
  /\ \A i \in Item : i.titles \in Seq([title : Title, lang : {"en", "ja"}])
  /\ Annotations \in Seq([title : Title, cpes : Seq(CpeURI \ Unparsable) \ {<<>>}])
  /\ JvnStored \subseteq SUBSET CategorizedCpe
  /\ \A c \in CpeURI : <<Attributes[c][1], Attributes[c][2]>> \in VendorProduct

VARIABLES
  phase,                 \* of the command that is running
  files,                 \* unpacked and not read yet
  cpes, deprecateds,     \* the maps of FetchNVD, from a name to a title
  dictionary, criteria,  \* history: what was downloaded
  merged, count,         \* the map of FetchVuls, and how many annotations are in it
  fetched,               \* the feed: its titles, the names under each, deprecated or not
  stored                 \* the categorized CPEs of each type

nvdVars == <<files, cpes, deprecateds, dictionary, criteria>>
vulsVars == <<merged, count>>
vars == <<phase, nvdVars, vulsVars, fetched, stored>>

\* A file of the match criteria, as far as FetchNVD reads it.
MatchFile == [criteria : CpeURI]

Phases == {"idle", "dictionary", "match", "nvd", "annotations", "vls", "failed"}
IsMap(m, from, to) == DOMAIN m \subseteq from /\ m \in [DOMAIN m -> to]
EmptyMap == [c \in {} |-> <<>>]

FeedTypeOK ==
  /\ phase \in Phases
  /\ files \subseteq Item \cup MatchFile
  /\ IsMap(cpes, CpeURI, Title) /\ IsMap(deprecateds, CpeURI, Title)
  /\ dictionary \subseteq Item /\ criteria \subseteq CpeURI
  /\ IsMap(merged, Title, Seq(CpeURI)) /\ count \in 0..Len(Annotations)
  /\ fetched \subseteq [title : Title, cpes : SUBSET CpeURI, deprecated : BOOLEAN]
  /\ stored \in [FetchType -> SUBSET CategorizedCpe]

Init ==
  /\ phase = "idle" /\ files = {} /\ dictionary = {} /\ criteria = {}
  /\ cpes = EmptyMap /\ deprecateds = EmptyMap /\ fetched = {}
  /\ merged = EmptyMap /\ count = 0
  /\ \E cs \in JvnStored : stored = [ft \in FetchType |-> IF ft = "jvn" THEN cs ELSE {}]

Put(map, c, t) == [x \in DOMAIN map \cup {c} |-> IF x = c THEN t ELSE map[x]]

-----------------------------------------------------------------------------
(***************************************************************************)
(* FetchNVD: the dictionary, then the match criteria. The order of files   *)
(* is that of their paths, which say nothing of their contents.            *)
(***************************************************************************)

\* Download a layer and unpack its files.
Unpack(all) == files' \in SUBSET all

\* (Bound: a type is fetched until something is stored of it.)
DownloadDictionary ==
  /\ phase = "idle" /\ stored["nvd"] = {}
  /\ Unpack(Item) /\ dictionary' = files'
  /\ cpes' = EmptyMap /\ deprecateds' = EmptyMap
  /\ phase' = "dictionary"
  /\ UNCHANGED <<criteria, vulsVars, fetched, stored>>

\* Mutant of TitleOf: the search does not stop at the English title.
TitleOfLast(i) == IF i.titles = <<>> THEN <<>> ELSE Last(i.titles).title

\* The first English title, or else the last one, if there is any.
TitleOf(i) ==
  LET english == SelectInSeq(i.titles, LAMBDA t : t.lang = "en")
  IN  IF i.titles = <<>> THEN <<>>
      ELSE IF english > 0 THEN i.titles[english].title ELSE Last(i.titles).title

ReadItem(i) ==
  /\ phase = "dictionary" /\ i \in files
  /\ files' = files \ {i}
  /\ \/ i.name \in Unparsable /\ UNCHANGED <<cpes, deprecateds>>
     \/ /\ i.name \notin Unparsable /\ i.deprecated
        /\ deprecateds' = Put(deprecateds, i.name, TitleOf(i))
        /\ UNCHANGED cpes
     \/ /\ i.name \notin Unparsable /\ ~i.deprecated
        /\ cpes' = Put(cpes, i.name, TitleOf(i))
        /\ UNCHANGED deprecateds
  /\ UNCHANGED <<phase, dictionary, criteria, vulsVars, fetched, stored>>

DownloadMatch ==
  /\ phase = "dictionary" /\ files = {}
  /\ Unpack(MatchFile) /\ criteria' = {m.criteria : m \in files'}
  /\ phase' = "match"
  /\ UNCHANGED <<cpes, deprecateds, dictionary, vulsVars, fetched, stored>>

\* Vendor, product, and the attributes that are given.
DerivedTitle(c) ==
  LET a == Attributes[c]
  IN  SubSeq(a, 1, 2) \o SelectSeq(SubSeq(a, 3, Len(a)), LAMBDA x : x # ANY)

\* Titles are what TitleOf and DerivedTitle make, too.
ASSUME TitlesAssumption ==
  /\ \A i \in Item : i.titles = <<>> => <<>> \in Title
  /\ \A c \in CpeURI \ Unparsable : DerivedTitle(c) \in Title

\* A CPE that is not in use by the dictionary is in use from now on.
ReadCriterion(c) ==
  /\ phase = "match" /\ [criteria |-> c] \in files
  /\ files' = files \ {[criteria |-> c]}
  /\ \/ c \in Unparsable \cup DOMAIN cpes /\ UNCHANGED cpes
     \/ c \notin Unparsable \cup DOMAIN cpes /\ cpes' = Put(cpes, c, DerivedTitle(c))
  /\ UNCHANGED <<phase, deprecateds, dictionary, criteria, vulsVars, fetched, stored>>

Entries(map, d) == {[title |-> map[c], cpes |-> {c}, deprecated |-> d] : c \in DOMAIN map}

ReturnNVD ==
  /\ phase = "match" /\ files = {}
  /\ fetched' = Entries(cpes, FALSE) \cup Entries(deprecateds, TRUE)
  /\ phase' = "nvd"
  /\ UNCHANGED <<nvdVars, vulsVars, stored>>

-----------------------------------------------------------------------------
(* FetchVuls: the names under each title, in the order of the annotations *)

DownloadAnnotations ==
  /\ phase = "idle" /\ stored["vls"] = {}
  /\ merged' = EmptyMap /\ count' = 0
  /\ phase' = "annotations"
  /\ UNCHANGED <<nvdVars, fetched, stored>>

\* Mutant of Merge: an annotation replaces earlier ones of its title.
MergeLast(map, a) == Put(map, a.title, a.cpes)

Merge(map, a) ==
  Put(map, a.title, IF a.title \in DOMAIN map THEN map[a.title] \o a.cpes ELSE a.cpes)

MergeAnnotation ==
  /\ phase = "annotations" /\ count < Len(Annotations)
  /\ merged' = Merge(merged, Annotations[count + 1])
  /\ count' = count + 1
  /\ UNCHANGED <<phase, nvdVars, fetched, stored>>

Unique(s) == ToSet(s)

ReturnVuls ==
  /\ phase = "annotations" /\ count = Len(Annotations)
  /\ fetched' = {[title |-> t, cpes |-> Unique(merged[t]), deprecated |-> FALSE] :
                   t \in DOMAIN merged}
  /\ phase' = "vls"
  /\ UNCHANGED <<nvdVars, vulsVars, stored>>

-----------------------------------------------------------------------------
\* A download fails, or a file is not well-formed: there is no feed, and the command ends.
Fail ==
  /\ phase \in {"idle", "dictionary", "match"}
  /\ phase' = "failed"
  /\ UNCHANGED <<nvdVars, vulsVars, fetched, stored>>

\* Mutant of Record: product and vendor are swapped.
RecordSwapped(t, c, d) ==
  [title |-> t, cpeURI |-> c, vp |-> <<Attributes[c][2], Attributes[c][1]>>, deprecated |-> d]

Record(t, c, d) ==
  [title |-> t, cpeURI |-> c, vp |-> <<Attributes[c][1], Attributes[c][2]>>, deprecated |-> d]

\* ConvertToModels takes as many records as there are titles (see ConvertPool).
Converted(feed) ==
  LET records == UNION {{Record(f.title, c, f.deprecated) : c \in f.cpes} : f \in feed}
  IN  kSubset(Cardinality(feed), records)

\* The feed becomes what is stored of its type.
InsertCpes(ft) ==
  /\ phase = ft
  /\ \E cs \in Converted(fetched) : stored' = [stored EXCEPT ![ft] = cs]
  /\ phase' = "idle" /\ fetched' = {}
  /\ UNCHANGED <<nvdVars, vulsVars>>

Next ==
  \/ DownloadDictionary \/ DownloadMatch \/ ReturnNVD
  \/ DownloadAnnotations \/ MergeAnnotation \/ ReturnVuls \/ Fail
  \/ \E i \in Item : ReadItem(i)
  \/ \E c \in CpeURI : ReadCriterion(c)
  \/ \E ft \in FetchType : InsertCpes(ft)

Spec == Init /\ [][Next]_vars

-----------------------------------------------------------------------------
(***************************************************************************)
(* Properties                                                              *)
(***************************************************************************)

InUse(feed) == UNION {f.cpes : f \in {x \in feed : ~x.deprecated}}
Deprecated(feed) == UNION {f.cpes : f \in {x \in feed : x.deprecated}}

\* A feed of NVD has every well-formed name of the dictionary, deprecated or in use as the
\* dictionary says, and those of the match criteria in use: a deprecated CPE is in use
\* only because a criterion, or another file of the dictionary, says so. The feed of Vuls
\* has each title once, and under it the names that any annotation of the title has.
FeedComplete ==
  /\ phase = "nvd" =>
       /\ Deprecated(fetched) = {i.name : i \in {x \in dictionary : x.deprecated}} \ Unparsable
       /\ InUse(fetched) =
            ({i.name : i \in {x \in dictionary : ~x.deprecated}} \cup criteria) \ Unparsable
  /\ phase = "vls" =>
       /\ UNION {{<<f.title, c>> : c \in f.cpes} : f \in fetched}
            = UNION {{<<a.title, c>> : c \in ToSet(a.cpes)} : a \in ToSet(Annotations)}
       /\ \A f, g \in fetched : f.title = g.title => f = g

\* A CPE that the dictionary has in use is in the feed under a title of the dictionary, an
\* English one if all its files have one; the match criteria read later do not retitle it.
DictionaryTitleWins ==
  phase = "nvd" =>
    \A f \in fetched : \A c \in f.cpes :
      LET its == {i \in dictionary : i.name = c /\ i.deprecated = f.deprecated}
          titles == {t \in UNION {ToSet(i.titles) : i \in its} : t.title = f.title}
      IN  /\ its # {} /\ (\A i \in its : i.titles # <<>>) => titles # {}
          /\ its # {} /\ (\A i \in its : \E t \in ToSet(i.titles) : t.lang = "en")
               => \E t \in titles : t.lang = "en"

Dictionaries == UNION {stored[ft] : ft \in FetchType}

\* Both drivers answer alike of what the commands store, as one test for both expects
\* (db/common_test.go): see the parts of it in Answers.
DriversAgree == SameProducts(Dictionaries) /\ SameCpes(Dictionaries) /\ SameTitles(Dictionaries)

\* A product in the answer of GetVendorProducts has CPEs when GetCpesByVendorProduct is
\* asked for it, as in the tests, whatever characters its names have.
ListedProductFound == ListedFound(Dictionaries)
=============================================================================
