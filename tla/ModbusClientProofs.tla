------------------------- MODULE ModbusClientProofs -------------------------
(* Proofs about ModbusClient: its inductive invariant, for any set of      *)
(* operations, and that it implements AtomicModbus.                        *)
EXTENDS ModbusClient, TLAPS

\* The client starts in the invariant.
LEMMA CInitInv == CInit => CInv
<1> SUFFICES ASSUME CInit PROVE CInv
  OBVIOUS
<1> USE DEF CInit
<1>1. CTypeOK
  <2>1. reg \in Registers
    BY DEF Registers
  <2>2. current \in [Ops -> Registers]
    BY <2>1
  <2> QED BY <2>1, <2>2 DEF CTypeOK, OpPC, Kinds
<1>2. MutexInv /\ InsideConnected
  BY CallersAssumption DEF MutexInv, InsideConnected, Locked
<1>3. DialWhileDown /\ KindInv /\ ReadIsFresh /\ LateIsAlone
  BY CallersAssumption DEF DialWhileDown, KindInv, ReadIsFresh, LateIsAlone
<1> QED BY <1>1, <1>2, <1>3 DEF CInv

\* What an operation writes is a register value again.
LEMMA FlipType == ASSUME NEW r \in Registers, NEW o \in Ops
                  PROVE  [r EXCEPT ![o] = 1 - @] \in Registers
  BY DEF Registers

\* Every step of the client preserves the type invariant.
LEMMA CTypeStep == ASSUME CTypeOK, [CNext]_cvars PROVE CTypeOK'
<1> USE DEF CTypeOK, OpPC, Kinds, Goto
<1>1. ASSUME NEW o \in Ops, NEW k \in Kinds, Call(o, k) PROVE CTypeOK'
  BY <1>1 DEF Call
<1>2. ASSUME NEW o \in Ops, Acquire(o) PROVE CTypeOK'
  BY <1>2 DEF Acquire
<1>3. ASSUME NEW o \in Ops, NotConnected(o) PROVE CTypeOK'
  BY <1>3 DEF NotConnected
<1>4. ASSUME NEW o \in Ops, GuardElapsed(o) PROVE CTypeOK'
  BY <1>4 DEF GuardElapsed
<1>5. ASSUME NEW o \in Ops, GuardCancelled(o) PROVE CTypeOK'
  BY <1>5 DEF GuardCancelled
<1>6. ASSUME NEW o \in Ops, SingleOk(o) PROVE CTypeOK'
  BY <1>6 DEF SingleOk
<1>7. ASSUME NEW o \in Ops, ReadOk(o) PROVE CTypeOK'
  BY <1>7 DEF ReadOk
<1>8. ASSUME NEW o \in Ops, WriteArrives(o) PROVE reg' \in Registers
  BY <1>8, FlipType DEF WriteArrives
<1>9. ASSUME NEW o \in Ops, WriteOk(o) PROVE CTypeOK'
  BY <1>8, <1>9 DEF WriteOk
<1>10. ASSUME NEW o \in Ops, ProtocolError(o) PROVE CTypeOK'
  BY <1>8, <1>10 DEF ProtocolError
<1>11. ASSUME NEW o \in Ops, TransportError(o) PROVE CTypeOK'
  BY <1>8, <1>11 DEF TransportError
<1>12. ASSUME NEW o \in Ops, Deliver(o) PROVE CTypeOK'
  BY <1>12 DEF Deliver
<1>13. CASE Lifecycle
  BY <1>13 DEF Lifecycle, DialBegin, DialOk, DialFail, ForceClose, ForceCloseNoop, cvars
<1>14. CASE Controller
  <2>1. CASE LateWrite
    <3>1. late \in Ops /\ reg' \in Registers
      BY <2>1, FlipType DEF LateWrite
    <3> QED BY <2>1, <3>1 DEF LateWrite
  <2> QED BY <1>14, <2>1 DEF Controller, ReleaseSlot, Reachable
<1>15. CASE UNCHANGED cvars
  BY <1>15 DEF cvars
<1> QED
  BY <1>1, <1>2, <1>3, <1>4, <1>5, <1>6, <1>7, <1>9, <1>10, <1>11, <1>12,
     <1>13, <1>14, <1>15 DEF CNext, OpStep
\* Every step of the client preserves the whole invariant.
LEMMA CInvStep == ASSUME CInv, [CNext]_cvars PROVE CInv'
<1> DEFINE Safe == /\ MutexInv /\ InsideConnected /\ DialWhileDown
                   /\ (connected => handlerOpen) /\ KindInv /\ ReadIsFresh /\ LateIsAlone
<1>0. CTypeOK /\ CTypeOK' /\ Safe
  BY CTypeStep DEF CInv
<1> USE <1>0, CallersAssumption
    DEF CTypeOK, MutexInv, InsideConnected, DialWhileDown, KindInv, ReadIsFresh, LateIsAlone,
        Locked, Goto
<1>1. ASSUME NEW o \in Ops, NEW k \in Kinds, Call(o, k) PROVE Safe'
  BY <1>1 DEF Call
<1>2. ASSUME NEW o \in Ops, Acquire(o) PROVE Safe'
  BY <1>2 DEF Acquire
<1>3. ASSUME NEW o \in Ops, NotConnected(o) PROVE Safe'
  BY <1>3 DEF NotConnected
<1>4. ASSUME NEW o \in Ops, GuardElapsed(o) PROVE Safe'
  BY <1>4 DEF GuardElapsed
<1>5. ASSUME NEW o \in Ops, GuardCancelled(o) PROVE Safe'
  BY <1>5 DEF GuardCancelled
<1>6. ASSUME NEW o \in Ops, SingleOk(o) PROVE Safe'
  BY <1>6 DEF SingleOk
<1>7. ASSUME NEW o \in Ops, ReadOk(o) PROVE Safe'
  BY <1>7 DEF ReadOk
<1>8. ASSUME NEW o \in Ops, WriteOk(o) PROVE Safe'
  BY <1>8 DEF WriteOk, WriteArrives
<1>9. ASSUME NEW o \in Ops, ProtocolError(o) PROVE Safe'
  BY <1>9 DEF ProtocolError, WriteArrives, OnWire
<1>10. ASSUME NEW o \in Ops, TransportError(o) PROVE Safe'
  BY <1>10 DEF TransportError, WriteArrives, OnWire
<1>11. ASSUME NEW o \in Ops, Deliver(o) PROVE Safe'
  BY <1>11 DEF Deliver
<1>12. ASSUME Lifecycle PROVE Safe'
  BY <1>12 DEF Lifecycle, DialBegin, DialOk, DialFail, ForceClose, ForceCloseNoop, cvars
<1>13. ASSUME Controller PROVE Safe'
  BY <1>13 DEF Controller, ReleaseSlot, LateWrite, Reachable
<1>14. ASSUME UNCHANGED cvars PROVE Safe'
  BY <1>14 DEF cvars
<1>15. Safe'
  <2> HIDE <1>0, CallersAssumption DEF Safe
  <2> QED
    BY <1>1, <1>2, <1>3, <1>4, <1>5, <1>6, <1>7, <1>8, <1>9, <1>10, <1>11, <1>12,
       <1>13, <1>14 DEF CNext, OpStep
<1> QED BY <1>0, <1>15 DEF CInv

\* The client keeps its invariant whatever the operations, the supervisor and
\* the controller do.
THEOREM CInvariant == CSpec => []CInv
<1>1. CInit => CInv
  BY CInitInv
<1>2. CInv /\ [CNext]_cvars => CInv'
  BY CInvStep
<1> QED BY <1>1, <1>2, PTL DEF CSpec

\* No request is on the wire unless the client is connected (doOp and
\* ModifyHolding check Connected() under the mutex).
LEMMA CInvWire == CInv => WireOnlyWhileConnected
  BY DEF CInv, WireOnlyWhileConnected, InsideConnected, Locked, OnWire

THEOREM WireOnlyWhileConnectedHolds == CSpec => []WireOnlyWhileConnected
  BY CInvariant, CInvWire, PTL
-----------------------------------------------------------------------------
(* The refinement *)

LEMMA AtomicInit == CInit => Atomic!AInit
  BY DEF CInit, Atomic!AInit, AbsPhase, Phase

\* A ModifyHolding call that ends in an error without a write is an abstract failure.
LEMMA ErrorIsFail ==
  ASSUME CTypeOK, NEW o \in Ops, kind[o] = "modify", pc[o] \notin {"idle", "ok", "err"},
         pc' = [pc EXCEPT ![o] = "err"], UNCHANGED <<kind, reg>>,
         late' = late \/ (late = NoOne /\ late' = o)
  PROVE  Atomic!Fail(o)
<1> USE CallersAssumption DEF CTypeOK, AbsPhase, Phase
<1>1. AbsPhase[o] = "pending"
  OBVIOUS
<1>2. AbsPhase' = [AbsPhase EXCEPT ![o] = "failed"]
  OBVIOUS
<1>3. ({late} \ {NoOne})' \in {{late} \ {NoOne}, ({late} \ {NoOne}) \cup {o}}
  OBVIOUS
<1> QED BY <1>1, <1>2, <1>3, Zenon DEF Atomic!Fail

LEMMA AtomicStep == ASSUME CInv, [CNext]_cvars
                    PROVE  [Atomic!ANext]_(Atomic!avars)
<1> DEFINE Step == [Atomic!ANext]_(Atomic!avars)
           Zombies == {late} \ {NoOne}
<1>0. CInv'
  BY CInvStep
<1> USE <1>0, CallersAssumption
    DEF CInv, CTypeOK, MutexInv, InsideConnected, KindInv, ReadIsFresh, LateIsAlone,
        Locked, Goto, AbsPhase, Phase, Atomic!ANext, Atomic!avars
<1>1. ASSUME NEW o \in Ops, NEW k \in Kinds, Call(o, k) PROVE Step
  <2>1. CASE k = "modify"
    <3>1. Atomic!Invoke(o)
      BY <1>1, <2>1 DEF Call, Atomic!Invoke
    <3> QED BY <3>1
  <2>2. CASE k = "single"
    BY <1>1, <2>2 DEF Call
  <2> QED BY <2>1, <2>2 DEF Kinds
<1>2. ASSUME NEW o \in Ops, Acquire(o) PROVE Step
  BY <1>2 DEF Acquire
<1>3. ASSUME NEW o \in Ops, NotConnected(o) PROVE Step
  <2>1. CASE kind[o] = "modify"
    <3>1. Atomic!Fail(o)
      BY <1>3, <2>1, ErrorIsFail DEF NotConnected
    <3> QED BY <3>1
  <2>2. CASE kind[o] = "single"
    BY <1>3, <2>2 DEF NotConnected
  <2> QED BY <2>1, <2>2 DEF Kinds
<1>4. ASSUME NEW o \in Ops, GuardElapsed(o) PROVE Step
  BY <1>4 DEF GuardElapsed
<1>5. ASSUME NEW o \in Ops, GuardCancelled(o) PROVE Step
  <2>1. CASE kind[o] = "modify"
    <3>1. Atomic!Fail(o)
      BY <1>5, <2>1, ErrorIsFail DEF GuardCancelled
    <3> QED BY <3>1
  <2>2. CASE kind[o] = "single"
    BY <1>5, <2>2 DEF GuardCancelled
  <2> QED BY <2>1, <2>2 DEF Kinds
<1>6. ASSUME NEW o \in Ops, SingleOk(o) PROVE Step
  <2>1. kind[o] = "single"
    BY <1>6 DEF SingleOk
  <2>2. UNCHANGED AbsPhase
    BY <1>6, <2>1 DEF SingleOk
  <2> QED BY <1>6, <2>2 DEF SingleOk
<1>7. ASSUME NEW o \in Ops, ReadOk(o) PROVE Step
  BY <1>7 DEF ReadOk
<1>8. ASSUME NEW o \in Ops, WriteOk(o) PROVE Step
  <2>1. Atomic!Take(o)
    BY <1>8 DEF WriteOk, WriteArrives, Atomic!Take
  <2> QED BY <2>1
<1>9. ASSUME NEW o \in Ops, ProtocolError(o) PROVE Step
  <2>1. CASE WriteArrives(o)
    <3>1. Atomic!TakeUnseen(o)
      BY <1>9, <2>1 DEF ProtocolError, WriteArrives, Atomic!TakeUnseen
    <3> QED BY <3>1
  <2>2. CASE UNCHANGED reg /\ kind[o] = "modify"
    <3>1. Atomic!Fail(o)
      BY <1>9, <2>2, ErrorIsFail DEF ProtocolError, OnWire
    <3> QED BY <3>1
  <2>3. CASE UNCHANGED reg /\ kind[o] = "single"
    BY <1>9, <2>3 DEF ProtocolError
  <2> QED BY <1>9, <2>1, <2>2, <2>3 DEF ProtocolError, Kinds
<1>10. ASSUME NEW o \in Ops, TransportError(o) PROVE Step
  <2>0. late = NoOne
    BY <1>10 DEF TransportError, OnWire
  <2>1. CASE WriteArrives(o) /\ UNCHANGED late
    <3>1. Atomic!TakeUnseen(o)
      BY <1>10, <2>1 DEF TransportError, WriteArrives, Atomic!TakeUnseen
    <3> QED BY <3>1
  <2>2. CASE pc[o] = "write" /\ late' = o /\ UNCHANGED reg
    <3>1. Atomic!Fail(o)
      BY <1>10, <2>0, <2>2, ErrorIsFail DEF TransportError
    <3> QED BY <3>1
  <2>3. CASE UNCHANGED <<reg, late>> /\ kind[o] = "modify"
    <3>1. Atomic!Fail(o)
      BY <1>10, <2>3, ErrorIsFail DEF TransportError, OnWire
    <3> QED BY <3>1
  <2>4. CASE UNCHANGED <<reg, late>> /\ kind[o] = "single"
    BY <1>10, <2>4 DEF TransportError
  <2> QED BY <1>10, <2>1, <2>2, <2>3, <2>4 DEF TransportError, Kinds
<1>11. ASSUME NEW o \in Ops, Deliver(o) PROVE Step
  <2>1. CASE kind[o] = "modify"
    <3>1. Atomic!Return(o)
      BY <1>11, <2>1 DEF Deliver, Atomic!Return
    <3> QED BY <3>1
  <2>2. CASE kind[o] = "single"
    BY <1>11, <2>2 DEF Deliver
  <2> QED BY <2>1, <2>2 DEF Kinds
<1>12. ASSUME Lifecycle PROVE Step
  BY <1>12 DEF Lifecycle, DialBegin, DialOk, DialFail, ForceClose, ForceCloseNoop, cvars
<1>13. ASSUME Controller PROVE Step
  <2>1. CASE ReleaseSlot /\ late # NoOne
    <3>1. late \in Ops /\ Atomic!Forget(late)
      BY <2>1 DEF ReleaseSlot, Atomic!Forget
    <3> QED BY <3>1
  <2>2. CASE ReleaseSlot /\ late = NoOne
    BY <2>2 DEF ReleaseSlot
  <2>3. CASE LateWrite
    <3>1. late \in Ops /\ Atomic!TakeLate(late)
      BY <2>3 DEF LateWrite, Atomic!TakeLate
    <3> QED BY <3>1
  <2>4. CASE Reachable
    BY <2>4 DEF Reachable
  <2> QED BY <1>13, <2>1, <2>2, <2>3, <2>4 DEF Controller
<1>14. ASSUME UNCHANGED cvars PROVE Step
  BY <1>14 DEF cvars
<1> HIDE DEF Step
<1>15. Step
  BY <1>1, <1>2, <1>3, <1>4, <1>5, <1>6, <1>7, <1>8, <1>9, <1>10, <1>11, <1>12,
     <1>13, <1>14 DEF CNext, OpStep
<1> QED BY <1>15 DEF Step

\* ModifyHolding is atomic for any number of concurrent operations, timeouts
\* and reconnects: the client implements AtomicModbus.
THEOREM ModifyIsAtomicHolds == CSpec => ModifyIsAtomic
<1>1. CInit => Atomic!AInit
  BY AtomicInit
<1>2. CInv /\ [CNext]_cvars => [Atomic!ANext]_(Atomic!avars)
  BY AtomicStep
<1> QED BY <1>1, <1>2, CInvariant, PTL DEF CSpec, ModifyIsAtomic, Atomic!ASpec
=============================================================================
