--------------------------- MODULE MCEventJournal ---------------------------
(***************************************************************************)
(* EventJournal with few sessions and subscribers, for TLC.                *)
(***************************************************************************)
EXTENDS EventJournal, TLC
=============================================================================
