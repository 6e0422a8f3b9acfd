---------------------------- MODULE MCModbusLink ----------------------------
(* ModbusLink for TLC, with an int64 so short that the last product of the   *)
(* backoff overflows, converted as on amd64.                                 *)
EXTENDS ModbusLink, TLC

SmallestDuration == -MaxDuration - 1
=============================================================================
