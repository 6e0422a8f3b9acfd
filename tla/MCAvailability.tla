--------------------------- MODULE MCAvailability ---------------------------
(* Availability for TLC. *)
EXTENDS Availability, TLC
=============================================================================
