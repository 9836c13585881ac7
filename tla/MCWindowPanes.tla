--------------------------- MODULE MCWindowPanes ---------------------------
(***************************************************************************)
(* Two panes: in one tab, in two, or the second to come by a split.        *)
(***************************************************************************)
EXTENDS WindowPanes, TLC
CONSTANTS p1, p2, t1, t2
MCPanes == {p1, p2}
MCTabs == {t1, t2}
MCLayouts == {p1 :> t1 @@ p2 :> t : t \in {t1, t2, "unborn"}}
=============================================================================
