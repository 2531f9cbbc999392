--------------------------- MODULE MCRedisQueries ----------------------------
(***************************************************************************)
(* Instances of RedisQueries: one type of fetch and its feeds.             *)
(***************************************************************************)
EXTENDS RedisQueries

Cpe(t, c, v, d) == [title |-> t, cpeURI |-> c, vp |-> v, deprecated |-> d]

(***************************************************************************)
(* As the NVD dictionary evolves: a CPE gets deprecated (and retitled), a  *)
(* new one of the product appears, and a deprecated one stays.             *)
(***************************************************************************)
DeprecationHistory ==
  [ nvd |-> << {Cpe("tA", "a", "p", FALSE), Cpe("tD", "d", "q", TRUE)},
               {Cpe("tA", "a", "p", TRUE), Cpe("tD", "d", "q", TRUE),
                Cpe("tB", "b", "q", FALSE)},
               {Cpe("tB", "a", "p", TRUE), Cpe("tD", "d", "q", TRUE)} >>,
    jvn |-> <<>>,
    vls |-> <<>> ]
=============================================================================
