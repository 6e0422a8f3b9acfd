---------------------------- MODULE AtomicModbus ----------------------------
(***************************************************************************)
(* What port.ModbusClient promises its callers about ModifyHolding         *)
(* (application/port/modbus_client.go): each call takes effect at one      *)
(* instant between its invocation and its return.  The register is the     *)
(* function from each operation's own bit field to that field's value;     *)
(* a modification flips its own field and preserves all the others.  A     *)
(* call that returns nil has been applied exactly once; a call that        *)
(* returns an error is applied at most once, perhaps after it returned (a   *)
(* timeout hides whether the write arrived).                               *)
(***************************************************************************)
EXTENDS Naturals

CONSTANT Ops                  \* the goroutines that call the client

VARIABLES reg,                \* the register's bit fields
          phase,              \* where each call is
          zombies             \* failed calls that may still take effect

avars == <<reg, phase, zombies>>

AInit == /\ reg = [o \in Ops |-> 0]
         /\ phase = [o \in Ops |-> "idle"]
         /\ zombies = {}

Invoke(o) == /\ phase[o] = "idle"
             /\ phase' = [phase EXCEPT ![o] = "pending"]
             /\ UNCHANGED <<reg, zombies>>

\* The one instant at which the modification takes effect.
Take(o) == /\ phase[o] = "pending"
           /\ reg' = [reg EXCEPT ![o] = 1 - @]
           /\ phase' = [phase EXCEPT ![o] = "applied"]
           /\ UNCHANGED zombies

\* The write took effect but the caller learns only of an error.
TakeUnseen(o) == /\ phase[o] = "pending"
                 /\ reg' = [reg EXCEPT ![o] = 1 - @]
                 /\ phase' = [phase EXCEPT ![o] = "failed"]
                 /\ UNCHANGED zombies

\* An error, after which the effect never comes, or may still come.
Fail(o) == /\ phase[o] = "pending"
           /\ phase' = [phase EXCEPT ![o] = "failed"]
           /\ zombies' \in {zombies, zombies \cup {o}}
           /\ UNCHANGED reg

TakeLate(o) == /\ o \in zombies
               /\ zombies' = zombies \ {o}
               /\ reg' = [reg EXCEPT ![o] = 1 - @]
               /\ UNCHANGED phase

Forget(o) == /\ o \in zombies
             /\ zombies' = zombies \ {o}
             /\ UNCHANGED <<reg, phase>>

Return(o) == /\ phase[o] \in {"applied", "failed"}
             /\ phase' = [phase EXCEPT ![o] = "idle"]
             /\ UNCHANGED <<reg, zombies>>

ANext == \E o \in Ops : \/ Invoke(o) \/ Take(o) \/ TakeUnseen(o) \/ Fail(o)
                        \/ Return(o) \/ TakeLate(o) \/ Forget(o)

ASpec == AInit /\ [][ANext]_avars
=============================================================================
