--------------------------- MODULE MCSessionIds ---------------------------
(***************************************************************************)
(* SessionIds on small sets of processes.  Host processes are symmetric    *)
(* in the safety runs, and so are embedded ones.                           *)
(***************************************************************************)
EXTENDS SessionIds, TLC

Symmetric == Permutations(Hosts) \cup Permutations(Embedded)
=============================================================================
