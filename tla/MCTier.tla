------------------------------- MODULE MCTier -------------------------------
(* Two keys, the second of them an index record. *)
EXTENDS Tier
=============================================================================
