---------------------------- MODULE MCRegisters -----------------------------
(* Registers and Entities for TLC: every content of a 16-bit register. *)
EXTENDS Entities, TLC
=============================================================================
