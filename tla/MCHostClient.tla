---------------------------- MODULE MCHostClient ----------------------------
(***************************************************************************)
(* Two applications of different builds; one of the host instances does    *)
(* not tell who it is.                                                     *)
(***************************************************************************)
EXTENDS HostClient, TLC
CONSTANTS c1, c2
MCClients == {c1, c2}
MCVersion == c1 :> 1 @@ c2 :> 2
=============================================================================
