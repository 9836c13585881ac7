----------------------------- MODULE FreshIds -----------------------------
(***************************************************************************)
(* What the session host promises about numeric session ids, whatever the  *)
(* number of host processes, crashes and restarts: every id handed to a    *)
(* session is larger than every id handed out before it, by any process.   *)
(* CHANGELOG.md:300: "Keep numeric session IDs across host restarts        *)
(* without reuse."                                                         *)
(***************************************************************************)
EXTENDS Naturals

VARIABLE issued    \* every id ever given to a session

Init == issued = {}

Issue == \E id \in issued' \ issued :
            /\ issued' = issued \cup {id}
            /\ \A old \in issued : old < id

Spec == Init /\ [][Issue]_issued
=============================================================================
