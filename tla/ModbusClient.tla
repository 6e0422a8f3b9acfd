---------------------------- MODULE ModbusClient ----------------------------
(***************************************************************************)
(* infrastructure/modbus/client.go: the one Modbus TCP client.  Every      *)
(* operation runs under Client.mu; Connect and ForceClose, called by the   *)
(* connection supervisor, take the same mutex.  The operations are the     *)
(* single-transaction ones (ReadInput, ReadHolding, WriteHolding through   *)
(* doOp) and ModifyHolding, two transactions under one hold of the mutex.  *)
(*                                                                         *)
(* The register ModifyHolding works on is seen as one bit field per        *)
(* operation; the `modify' function flips the caller's own field and keeps *)
(* the other ones.  The other registers are not told apart.                *)
(***************************************************************************)
EXTENDS Integers

CONSTANTS Ops,             \* goroutines that issue operations: poll tiers, command handlers
          Sup,             \* the goroutine that calls Connect: the connection supervisor
          NoOne            \* the value of mu when the mutex is free

ASSUME CallersAssumption == Sup \notin Ops /\ NoOne \notin Ops /\ Sup # NoOne

VARIABLES
  mu,          \* holder of Client.mu, or NoOne
  connected,   \* Client.connected
  lastOpZero,  \* Client.lastOpAt.IsZero(): no operation yet on this connection
  handlerOpen, \* Client.handler holds a dialled transport that was not Closed
  pc,          \* where each operation is
  kind,        \* "single" or "modify"
  current,     \* ModifyHolding's local variable `current'
  reg,         \* external: the controller's register
  up,          \* external: the controller answers
  held,        \* external: the controller's only client slot is taken by a socket of ours
  late         \* external: whose timed-out write is still in flight on that socket, or NoOne

cvars == <<mu, connected, lastOpZero, handlerOpen, pc, kind, current, reg, up, held, late>>

OpPC == {"idle", "lock", "guard", "single", "read", "guard2", "write", "ok", "err"}

\* The control points at which an operation holds the mutex.
Locked == {"guard", "single", "read", "guard2", "write"}

\* The control points at which a request is on the wire.
OnWire == {"single", "read", "write"}

Kinds == {"single", "modify"}

Registers == [Ops -> {0, 1}]

CTypeOK == /\ mu \in Ops \cup {Sup, NoOne}
           /\ connected \in BOOLEAN
           /\ lastOpZero \in BOOLEAN
           /\ handlerOpen \in BOOLEAN
           /\ pc \in [Ops -> OpPC]
           /\ kind \in [Ops -> Kinds]
           /\ current \in [Ops -> Registers]
           /\ reg \in Registers
           /\ up \in BOOLEAN
           /\ held \in BOOLEAN
           /\ late \in Ops \cup {NoOne}

(* NewClient performs no I/O. *)
CInit == /\ mu = NoOne
         /\ connected = FALSE
         /\ lastOpZero = TRUE
         /\ handlerOpen = FALSE
         /\ pc = [o \in Ops |-> "idle"]
         /\ kind = [o \in Ops |-> "single"]
         /\ reg = [o \in Ops |-> 0]
         /\ current = [o \in Ops |-> reg]
         /\ up \in BOOLEAN
         /\ held = FALSE
         /\ late = NoOne

Goto(o, l) == pc' = [pc EXCEPT ![o] = l]

-----------------------------------------------------------------------------
(* Operations *)

\* The caller enters ReadInput/ReadHolding/WriteHolding or ModifyHolding.
Call(o, k) == /\ pc[o] = "idle"
              /\ kind' = [kind EXCEPT ![o] = k]
              /\ Goto(o, "lock")
              /\ UNCHANGED <<mu, connected, lastOpZero, handlerOpen, current, reg, up, held, late>>

\* Mutant: Connected() was checked before the lock.
AcquireStale(o) == /\ pc[o] = "lock" /\ mu = NoOne
                   /\ mu' = o
                   /\ Goto(o, "guard")
                   /\ UNCHANGED <<connected, lastOpZero, handlerOpen, kind, current, reg, up, held, late>>

\* c.mu.Lock(), and Connected() is true.
Acquire(o) == /\ pc[o] = "lock" /\ mu = NoOne
              /\ connected
              /\ mu' = o
              /\ Goto(o, "guard")
              /\ UNCHANGED <<connected, lastOpZero, handlerOpen, kind, current, reg, up, held, late>>

\* c.mu.Lock(), and the early return with ErrModbusNotConnected.
NotConnected(o) == /\ pc[o] = "lock" /\ mu = NoOne
                   /\ ~connected
                   /\ Goto(o, "err")
                   /\ UNCHANGED <<mu, connected, lastOpZero, handlerOpen, kind, current, reg, up, held, late>>

\* waitGuardInterval returns nil and the request goes out.
GuardElapsed(o) == /\ \/ pc[o] = "guard" /\ kind[o] = "single" /\ Goto(o, "single")
                      \/ pc[o] = "guard" /\ kind[o] = "modify" /\ Goto(o, "read")
                      \/ pc[o] = "guard2" /\ Goto(o, "write")
                   /\ UNCHANGED <<mu, connected, lastOpZero, handlerOpen, kind, current, reg, up, held, late>>

\* waitGuardInterval returns ctx.Err(): an error without any transport
\* failure.  It does not wait, so cannot be cancelled, when lastOpAt is zero.
GuardCancelled(o) == /\ pc[o] \in {"guard", "guard2"}
                     /\ ~lastOpZero
                     /\ mu' = NoOne
                     /\ Goto(o, "err")
                     /\ UNCHANGED <<connected, lastOpZero, handlerOpen, kind, current, reg, up, held, late>>

\* The controller executes the write: modify(current) is in the register.
WriteArrives(o) == /\ pc[o] = "write" /\ up /\ held
                   /\ reg' = [current[o] EXCEPT ![o] = 1 - @]

\* The controller answers a single-transaction operation.
SingleOk(o) == /\ pc[o] = "single" /\ up /\ held
               /\ lastOpZero' = FALSE
               /\ mu' = NoOne
               /\ Goto(o, "ok")
               /\ UNCHANGED <<connected, handlerOpen, kind, current, reg, up, held, late>>

\* Mutant: ModifyHolding is a locked read and a locked write.
ReadUnlocks(o) == /\ pc[o] = "read" /\ up /\ held
                  /\ lastOpZero' = FALSE
                  /\ current' = [current EXCEPT ![o] = reg]
                  /\ mu' = NoOne
                  /\ Goto(o, "guard2")
                  /\ UNCHANGED <<connected, handlerOpen, kind, reg, up, held, late>>

\* ModifyHolding's read is answered and decoded.
ReadOk(o) == /\ pc[o] = "read" /\ up /\ held
             /\ lastOpZero' = FALSE
             /\ current' = [current EXCEPT ![o] = reg]
             /\ Goto(o, "guard2")
             /\ UNCHANGED <<mu, connected, handlerOpen, kind, reg, up, held, late>>

\* ModifyHolding's write is executed and answered.
WriteOk(o) == /\ WriteArrives(o)
              /\ lastOpZero' = FALSE
              /\ mu' = NoOne
              /\ Goto(o, "ok")
              /\ UNCHANGED <<connected, handlerOpen, kind, current, up, held, late>>

\* The answer is a Modbus exception, or does not decode, or modify panics:
\* the caller gets an error and the connection stays (the default case of
\* handleOpError).  A write whose answer does not decode was executed.
ProtocolError(o) == /\ pc[o] \in OnWire /\ up /\ held
                    /\ UNCHANGED reg \/ WriteArrives(o)
                    /\ lastOpZero' = FALSE
                    /\ mu' = NoOne
                    /\ Goto(o, "err")
                    /\ UNCHANGED <<connected, handlerOpen, kind, current, up, held, late>>

\* Mutant: a timeout does not clear connected.
TimeoutKeepsConnection(o) == /\ pc[o] \in OnWire
                             /\ \/ UNCHANGED <<reg, late>>
                                \/ pc[o] = "write" /\ held /\ late' = o /\ UNCHANGED reg
                             /\ lastOpZero' = FALSE
                             /\ mu' = NoOne
                             /\ Goto(o, "err")
                             /\ UNCHANGED <<connected, handlerOpen, kind, current, up, held>>

\* No answer in time, EOF or a broken socket (the ErrTimeout and
\* ErrConnectionLost cases of handleOpError): connected is cleared, the
\* handler is not closed.  A write may have been executed all the same, or
\* still be on its way to the controller.
TransportError(o) == /\ pc[o] \in OnWire
                     /\ \/ UNCHANGED <<reg, late>>
                        \/ WriteArrives(o) /\ UNCHANGED late
                        \/ pc[o] = "write" /\ held /\ late' = o /\ UNCHANGED reg
                     /\ lastOpZero' = FALSE
                     /\ connected' = FALSE
                     /\ mu' = NoOne
                     /\ Goto(o, "err")
                     /\ UNCHANGED <<handlerOpen, kind, current, up, held>>

\* The caller takes the result.
Deliver(o) == /\ pc[o] \in {"ok", "err"}
              /\ Goto(o, "idle")
              /\ UNCHANGED <<mu, connected, lastOpZero, handlerOpen, kind, current, reg, up, held, late>>

-----------------------------------------------------------------------------
(* Lifecycle.  Connect holds the mutex while it dials.  ForceClose takes   *)
(* and releases it around one change, so it is one step.                   *)

\* Connect takes the mutex, finds the client not connected, and dials.  (On a
\* connected client it returns without a change.)
DialBegin == /\ mu = NoOne
             /\ ~connected
             /\ mu' = Sup
             /\ UNCHANGED <<connected, lastOpZero, handlerOpen, pc, kind, current, reg, up, held, late>>

\* The dial succeeds: a new handler replaces the old one, which is not closed.
\* The controller accepts a client only while its slot is free.
DialOk == /\ mu = Sup
          /\ up /\ ~held
          /\ mu' = NoOne
          /\ handlerOpen' = TRUE
          /\ connected' = TRUE
          /\ lastOpZero' = TRUE
          /\ held' = TRUE
          /\ UNCHANGED <<pc, kind, current, reg, up, late>>

\* The dial fails: no field of the client changes.
DialFail == /\ mu = Sup
            /\ mu' = NoOne
            /\ UNCHANGED <<connected, lastOpZero, handlerOpen, pc, kind, current, reg, up, held, late>>

\* ForceClose of a connected client closes the handler.
ForceClose == /\ mu = NoOne
              /\ connected
              /\ handlerOpen' = FALSE
              /\ connected' = FALSE
              /\ held' = FALSE
              /\ late' = NoOne
              /\ UNCHANGED <<mu, lastOpZero, pc, kind, current, reg, up>>

\* ForceClose of a client that is not connected returns before Close.
ForceCloseNoop == /\ mu = NoOne
                  /\ ~connected
                  /\ UNCHANGED cvars

-----------------------------------------------------------------------------
(* The controller and the network (external). *)

\* The controller drops its idle client, or notices a dead one; what was in
\* flight on that socket is gone.
ReleaseSlot == /\ held
               /\ held' = FALSE
               /\ late' = NoOne
               /\ UNCHANGED <<mu, connected, lastOpZero, handlerOpen, pc, kind, current, reg, up>>

\* A write whose caller has given up is executed after all.
LateWrite == /\ late # NoOne /\ up /\ held
             /\ reg' = [current[late] EXCEPT ![late] = 1 - @]
             /\ late' = NoOne
             /\ UNCHANGED <<mu, connected, lastOpZero, handlerOpen, pc, kind, current, up, held>>

Reachable == /\ up' = ~up
             /\ UNCHANGED <<mu, connected, lastOpZero, handlerOpen, pc, kind, current, reg, held, late>>

OpStep(o) == \/ Acquire(o) \/ NotConnected(o)
             \/ GuardElapsed(o) \/ GuardCancelled(o)
             \/ SingleOk(o) \/ ReadOk(o) \/ WriteOk(o)
             \/ ProtocolError(o) \/ TransportError(o)

Controller == ReleaseSlot \/ LateWrite \/ Reachable

Lifecycle == DialBegin \/ DialOk \/ DialFail \/ ForceClose \/ ForceCloseNoop

CNext == \/ \E o \in Ops : \E k \in Kinds : Call(o, k)
         \/ \E o \in Ops : OpStep(o) \/ Deliver(o)
         \/ Lifecycle
         \/ Controller

CSpec == CInit /\ [][CNext]_cvars
-----------------------------------------------------------------------------
(* Properties *)

\* A request is on the wire only while the client counts as connected: no
\* operation slips in between another one's timeout and the teardown.  doOp and
\* ModifyHolding check Connected() after taking the mutex, not before.
WireOnlyWhileConnected == \A o \in Ops : pc[o] \in OnWire => connected /\ handlerOpen

\* The inductive invariant behind that and behind the atomicity of
\* ModifyHolding: the mutex holder is the one operation inside and the client is
\* connected around it; what ModifyHolding read is still the register's content
\* when it writes; and a write in flight after a timeout keeps every other
\* operation off the controller.
MutexInv == \A o \in Ops : pc[o] \in Locked <=> mu = o
InsideConnected == \A o \in Ops : pc[o] \in Locked => connected
DialWhileDown == mu = Sup => ~connected
KindInv == \A o \in Ops : /\ pc[o] = "single" => kind[o] = "single"
                          /\ pc[o] \in {"read", "guard2", "write"} => kind[o] = "modify"
ReadIsFresh == \A o \in Ops : pc[o] \in {"guard2", "write"} => current[o] = reg
LateIsAlone == late # NoOne => held /\ ~connected /\ current[late] = reg

CInv == /\ CTypeOK
        /\ MutexInv
        /\ InsideConnected
        /\ DialWhileDown
        /\ connected => handlerOpen
        /\ KindInv
        /\ ReadIsFresh
        /\ LateIsAlone

\* The refinement mapping: where a ModifyHolding call stands for its caller.
Phase(l) == CASE l = "idle" -> "idle"
              [] l = "ok" -> "applied"
              [] l = "err" -> "failed"
              [] OTHER -> "pending"

AbsPhase == [o \in Ops |-> IF kind[o] = "modify" THEN Phase(pc[o]) ELSE "idle"]

Atomic == INSTANCE AtomicModbus
            WITH phase <- AbsPhase, zombies <- {late} \ {NoOne}
\* ModifyHolding is atomic: every call takes effect at one instant, or, when it
\* returned an error, perhaps later or never, and no other call's effect is
\* lost ("the mutex is held across the whole sequence", client.go).
ModifyIsAtomic == Atomic!ASpec
=============================================================================
