--------------------------- MODULE MCFetchCommand ----------------------------
(***************************************************************************)
(* Instances of FetchCommand: which databases the processes, which are     *)
(* interchangeable, may find and share.                                    *)
(***************************************************************************)
EXTENDS FetchCommand, TLC

Scenario(b, o, s) == [backend |-> b, origin |-> o, overlap |-> s]

(***************************************************************************)
(* Every database, shared by commands that overlap or not, but for the one *)
(* case that goes wrong: a database of model v1 on Redis.                  *)
(***************************************************************************)
LegacyRedis == {Scenario("redis", "v1", s) : s \in BOOLEAN}
OtherScenarios ==
  {Scenario(b, o, s) : b \in Backend, o \in Origin, s \in BOOLEAN} \ LegacyRedis

ProcessSymmetry == Permutations(Process)
=============================================================================
