--------------------------- MODULE MCSessionHost ---------------------------
(***************************************************************************)
(* SessionHost with few clients and request ids; both are symmetric in the *)
(* safety runs.                                                            *)
(***************************************************************************)
EXTENDS SessionHost, TLC

Symmetric == Permutations(Clients) \cup Permutations(Requests)
=============================================================================
