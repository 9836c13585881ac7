--------------------------- MODULE MCCwdObserver ---------------------------
(***************************************************************************)
(* Two terminals, each with a session of its own; one of the sessions      *)
(* moves, and its terminal may be closed.                                  *)
(***************************************************************************)
EXTENDS CwdObserver, TLC
CONSTANTS s1, s2, c1, c2
MCSessions == {s1, s2}
MCConsumers == {c1, c2}
MCShows == c1 :> s1 @@ c2 :> s2
MCMaxCwd == s1 :> 2 @@ s2 :> 1
=============================================================================
