--------------------------- MODULE HostedSessions ---------------------------
(***************************************************************************)
(* What an application may rely on when it starts sessions on a host that  *)
(* may die, and whose answers may be lost: what it is told of a session is *)
(* so, and stays so.  To try again after "failed" never makes a second     *)
(* session of one that was asked for; only after "ambiguous" one may still *)
(* appear.                                                                 *)
(***************************************************************************)
CONSTANT Sessions  \* by the request they are asked for with

VARIABLES presence,  \* none yet, there, or gone
          told,      \* what the application was told of each session it asked for
          absent     \* sessions that it was told are absent

sessionVars == <<presence, told, absent>>

Init == /\ presence = [s \in Sessions |-> "none"] /\ told = [s \in Sessions |-> "none"]
        /\ absent = {}

Ask(s) == /\ told[s] = "none" /\ told' = [told EXCEPT ![s] = "asked"]
          /\ UNCHANGED <<presence, absent>>
Start(s) == /\ presence[s] = "none" /\ told[s] \in {"asked", "ambiguous"}
            /\ presence' = [presence EXCEPT ![s] = "there"]
            /\ UNCHANGED <<told, absent>>
\* Sessions end, all that a host has at once when it dies.
End(S) == /\ \A s \in S : presence[s] = "there"
          /\ presence' = [s \in Sessions |-> IF s \in S THEN "gone" ELSE presence[s]]
          /\ UNCHANGED <<told, absent>>

TrueOf(s, what) == CASE what = "failed"    -> presence[s] # "there"
                     [] what = "ambiguous" -> TRUE
                     [] OTHER              -> presence[s] # "none"
Tell(s, what) == /\ told[s] = "asked" /\ TrueOf(s, what)
                 /\ told' = [told EXCEPT ![s] = what]
                 /\ UNCHANGED <<presence, absent>>
CallAbsent(s) == /\ told[s] = "attached" /\ presence[s] = "gone"
                 /\ absent' = absent \cup {s}
                 /\ UNCHANGED <<presence, told>>

Next == \/ \E s \in Sessions : Ask(s) \/ Start(s) \/ CallAbsent(s)
        \/ \E s \in Sessions, what \in {"failed", "ambiguous", "attached", "unidentified", "orphaned"} :
             Tell(s, what)
        \/ \E S \in SUBSET Sessions : End(S)

Spec == Init /\ [][Next]_sessionVars
=============================================================================
