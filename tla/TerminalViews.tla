--------------------------- MODULE TerminalViews ---------------------------
(***************************************************************************)
(* What attaching to a terminal promises: a viewer is sent what the        *)
(* terminal has put out up to some point, each chunk once and in order,    *)
(* until it is told that it lost some or that the session ended.  Chunks   *)
(* of output are numbered; a view is the sequence of chunks a viewer was   *)
(* sent, those in its snapshot first.                                      *)
(***************************************************************************)
EXTENDS Naturals, Sequences

CONSTANT Viewers

VARIABLES output,  \* chunks put out so far
          live,    \* the session is registered
          view,    \* what each viewer was sent
          status   \* what it knows

viewVars == <<output, live, view, status>>

\* The first n chunks, as they come.
FirstChunks(n) == [k \in 1..n |-> k]

Init == /\ output = 0 /\ live = TRUE
        /\ view = [v \in Viewers |-> <<>>]
        /\ status = [v \in Viewers |-> "none"]

Produce == output' = output + 1 /\ UNCHANGED <<live, view, status>>
End == live /\ live' = FALSE /\ UNCHANGED <<output, view, status>>

Join(v) == /\ status[v] = "none" /\ live
           /\ status' = [status EXCEPT ![v] = "following"]
           /\ view' = [view EXCEPT ![v] = FirstChunks(output)]
           /\ UNCHANGED <<output, live>>
Follow(v) == /\ status[v] = "following"
             /\ \E n \in Len(view[v])..output : view' = [view EXCEPT ![v] = FirstChunks(n)]
             /\ UNCHANGED <<output, live, status>>
\* It is told the truth: something is missing, or there is no session.
Lose(v) == /\ status[v] = "following" /\ view[v] # FirstChunks(output)
           /\ status' = [status EXCEPT ![v] = "lost"]
           /\ UNCHANGED <<output, live, view>>
Finish(v) == /\ status[v] = "following" /\ ~live
             /\ status' = [status EXCEPT ![v] = "ended"]
             /\ UNCHANGED <<output, live, view>>

Next == \/ Produce \/ End
        \/ \E v \in Viewers : Join(v) \/ Follow(v) \/ Lose(v) \/ Finish(v)

Spec == Init /\ [][Next]_viewVars
=============================================================================
