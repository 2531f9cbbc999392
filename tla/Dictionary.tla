----------------------------- MODULE Dictionary ------------------------------
(***************************************************************************)
(* What DB.InsertCpes promises the commands (db/db.go): the dictionary has *)
(* a part per fetch type, and an insert replaces the part of its type by a *)
(* feed, at once and without touching the others.                          *)
(***************************************************************************)
CONSTANTS Type, Content   \* Content[ft]: the feeds of ft, and the empty one

VARIABLE part             \* part[ft]: what is stored of ft

DictionaryInit == part = [ft \in Type |-> CHOOSE c \in Content[ft] : DOMAIN c = {}]

Replace(ft, c) == part' = [part EXCEPT ![ft] = c]

DictionaryNext == \E ft \in Type : \E c \in Content[ft] : Replace(ft, c)

DictionarySpec == DictionaryInit /\ [][DictionaryNext]_part
=============================================================================
