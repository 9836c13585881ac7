--------------------------- MODULE SessionTable ---------------------------
(***************************************************************************)
(* What one session host promises about its sessions, without connections, *)
(* threads or locks: an id names one session for ever, a spawn request     *)
(* makes at most one live session however often it is retried, and the     *)
(* host only starts to stop once it has no session, after which it never   *)
(* makes another one.                                                      *)
(***************************************************************************)
EXTENDS Naturals

CONSTANTS Ids, Requests, NoRequest

VARIABLES live,   \* ids of the sessions the host has
          owner,  \* the spawn request each session was made for
          used,   \* ids given to a session so far
          down    \* the host is stopping or gone

Init == /\ live = {} /\ used = {} /\ down = FALSE
        /\ owner = [id \in Ids |-> NoRequest]

Open(id, r) ==
  /\ ~down /\ id \notin used
  /\ r # NoRequest => \A other \in live : owner[other] # r
  /\ live' = live \cup {id} /\ used' = used \cup {id}
  /\ owner' = [owner EXCEPT ![id] = r]
  /\ UNCHANGED down

End(id) == /\ id \in live /\ live' = live \ {id}
           /\ UNCHANGED <<owner, used, down>>

Stop == /\ live = {} /\ down' = TRUE
        /\ UNCHANGED <<live, owner, used>>

Next == \/ \E id \in Ids : End(id) \/ \E r \in Requests \cup {NoRequest} : Open(id, r)
        \/ Stop

Spec == Init /\ [][Next]_<<live, owner, used, down>>
=============================================================================
