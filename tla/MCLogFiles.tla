----------------------------- MODULE MCLogFiles -----------------------------
(* LogFiles for TLC; all of its constants are numbers that the .cfg gives. *)
EXTENDS LogFiles
=============================================================================
