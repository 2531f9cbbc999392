---------------------------- MODULE MCRedisDriver ----------------------------
(***************************************************************************)
(* Instances of RedisDriver: upstream histories of one to three feeds.     *)
(***************************************************************************)
EXTENDS RedisDriver, TLC

Cpe(t, c, v, d) == [title |-> t, cpeURI |-> c, vp |-> v, deprecated |-> d]

\* NVD deprecates a CPE and drops another one, which JVN lists under its own title.
SharedHistory ==
  [ nvd |-> << {Cpe("tA", "a", "p", FALSE), Cpe("tS", "s", "p", FALSE)},
               {Cpe("tA", "a", "p", TRUE)} >>,
    jvn |-> << {Cpe("jS", "s", "p", FALSE)} >>,
    vls |-> <<>> ]

\* Each type renames, adds or drops CPEs of one product; no title is shared.
LongHistory ==
  [ nvd |-> << {Cpe("tA", "a", "p", FALSE), Cpe("tS", "s", "p", FALSE)},
               {Cpe("tA", "a", "p", TRUE), Cpe("tA", "b", "p", FALSE)},
               {Cpe("tS", "b", "p", FALSE)} >>,
    jvn |-> << {Cpe("jS", "s", "p", FALSE)},
               {Cpe("jA", "a", "p", FALSE), Cpe("jS", "s", "p", FALSE)},
               {Cpe("jA", "s", "p", FALSE)} >>,
    vls |-> << {Cpe("vA", "b", "q", FALSE)},
               {Cpe("vB", "b", "q", FALSE)} >> ]

\* Two types with one CPE and one title each.
SmallHistory ==
  [ nvd |-> << {Cpe("tA", "a", "p", FALSE)} >>,
    jvn |-> << {Cpe("jS", "s", "p", FALSE)} >>,
    vls |-> <<>> ]

\* Nothing tells processes apart.
Fetchers == Permutations(Fetcher)
=============================================================================
