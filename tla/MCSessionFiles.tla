--------------------------- MODULE MCSessionFiles ---------------------------
(***************************************************************************)
(* SessionFiles with a few windows and tabs, which are symmetric.          *)
(***************************************************************************)
EXTENDS SessionFiles, TLC

Symmetric == Permutations(Windows) \cup Permutations(Tabs)
=============================================================================
