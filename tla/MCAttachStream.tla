--------------------------- MODULE MCAttachStream ---------------------------
(***************************************************************************)
(* AttachStream with two connections; they are not made symmetric, because *)
(* the run also checks liveness.                                           *)
(***************************************************************************)
EXTENDS AttachStream
=============================================================================
