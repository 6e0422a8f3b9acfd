--------------------------- MODULE MCModbusClient ---------------------------
(* ModbusClient for TLC: a few operations, interchangeable. *)
EXTENDS ModbusClient, TLC

OpsSymmetry == Permutations(Ops)
=============================================================================
