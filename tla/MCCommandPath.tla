--------------------------- MODULE MCCommandPath ----------------------------
(* CommandPath for TLC. *)
EXTENDS CommandPath, TLC
=============================================================================
