-------------------------- MODULE ModbusLinkProofs --------------------------
(* Proofs about ModbusLink: no lost wake-up, shutdown is final, the backoff *)
(* discipline, for any operations, threshold, delays and factor.            *)
EXTENDS ModbusLink, ModbusClientProofs

\* Every step of the link is, for the client, a step of the client.
LEMMA LinkImpliesClient == [Next]_lvars => [CNext]_cvars
<1> USE DEF CNext, Lifecycle, cvars
<1>1. ASSUME NEW o \in Ops, NEW k \in Kinds, Dispatch(o, k) PROVE [CNext]_cvars
  BY <1>1 DEF Dispatch
<1>2. ASSUME NEW o \in Ops, OpNext(o) PROVE [CNext]_cvars
  BY <1>2 DEF OpNext, Operate, Record, Trigger
<1>3. ASSUME SupNext PROVE [CNext]_cvars
  BY <1>3 DEF SupNext, SupMutex, SupDial, SupDialCancelled, SupClose, SupConnected,
              SupDialFailed, TimerFires, WaitCancelled, TriggerReceived, RunCancelled
<1>4. ASSUME Cancel \/ (\E c \in {"signal", "http"} : AppClose(c)) \/ Environment PROVE [CNext]_cvars
  BY <1>4 DEF Cancel, AppClose, Environment
<1> QED BY <1>1, <1>2, <1>3, <1>4 DEF Next, lvars

\* A product with the factor is beyond the delay, away from 0, and grows with it.
LEMMA ScaledFact ==
  ASSUME NEW d \in Int, NEW e \in Int, d <= e
  PROVE  /\ Scaled(d) \in Int
         /\ Scaled(d) <= Scaled(e)
         /\ d > 0 => Scaled(d) >= d
         /\ d < 0 => Scaled(d) < d
<1> USE FactorAssumption
<1> DEFINE n == d * FactorNum
           m == e * FactorNum
           q == n \div FactorDen
           p == m \div FactorDen
<1>1. /\ n \in Int /\ m \in Int /\ q \in Int /\ p \in Int
      /\ FactorDen * q <= n /\ n < FactorDen * (q + 1)
      /\ FactorDen * p <= m /\ m < FactorDen * (p + 1)
  OBVIOUS
<1>2. n <= m
  OBVIOUS
<1>3. q <= p
  <2> SUFFICES ASSUME p + 1 <= q PROVE FALSE
    BY <1>1
  <2>1. FactorDen * (p + 1) <= FactorDen * q
    BY <1>1
  <2> QED BY <1>1, <1>2, <2>1
<1>4. ASSUME d > 0 PROVE q >= d
  <2> SUFFICES ASSUME q + 1 <= d PROVE FALSE
    BY <1>1
  <2>1. FactorDen * (q + 1) <= FactorDen * d
    BY <1>1
  <2>2. FactorDen * d <= n
    BY <1>4
  <2> QED BY <1>1, <2>1, <2>2
<1>5. ASSUME d < 0 PROVE q < d
  <2> SUFFICES ASSUME d <= q PROVE FALSE
    BY <1>1
  <2>1. FactorDen * d <= FactorDen * q
    BY <1>1
  <2>2. n < FactorDen * d
    BY <1>5
  <2> QED BY <1>1, <2>1, <2>2
<1> QED BY <1>1, <1>3, <1>4, <1>5 DEF Scaled

\* The delays that TypeOK allows.
BackoffOK(d) == \/ d \in MinDelay..MaxDelay
                \/ d = -MaxDuration - 1 /\ Overflows(MaxDelay)

\* Backoff.Next stays among them, and shrinks a delay only by an overflow.
LEMMA NextDelayRange == ASSUME NEW d, BackoffOK(d)
                        PROVE  /\ BackoffOK(NextDelay(d))
                               /\ NextDelay(d) < d => Overflows(d)
<1> USE DelayAssumption, DurationAssumption
<1>1. d \in Int /\ d <= MaxDelay
  BY DEF BackoffOK
<1>2. /\ Scaled(d) \in Int /\ Scaled(MaxDelay) \in Int /\ Scaled(d) <= Scaled(MaxDelay)
      /\ d > 0 => Scaled(d) >= d
      /\ d < 0 => Scaled(d) < d
  BY <1>1, ScaledFact
<1>3. CASE Overflows(d)
  <2>1. Overflows(MaxDelay)
    BY <1>1, <1>2, <1>3 DEF BackoffOK, Overflows
  <2>2. NextDelay(d) \in {MaxDelay, -MaxDuration - 1}
    BY <1>3 DEF NextDelay
  <2> QED BY <1>3, <2>1, <2>2 DEF BackoffOK
<1>4. CASE ~Overflows(d)
  <2>1. d \in MinDelay..MaxDelay
    BY <1>2, <1>4 DEF BackoffOK, Overflows
  <2>2. NextDelay(d) \in d..MaxDelay
    BY <1>2, <1>4, <2>1 DEF NextDelay
  <2> QED BY <2>1, <2>2 DEF BackoffOK
<1> QED BY <1>3, <1>4
-----------------------------------------------------------------------------

LEMMA InitLInv == Init => LInv
<1> SUFFICES ASSUME Init PROVE LInv
  OBVIOUS
<1>1. CInv
  BY CInitInv DEF Init
<1>t. CTypeOK
  BY <1>1 DEF CInv
<1>2. TypeOK
  <2>1. consecutiveErrs \in 0..Threshold
    BY ThresholdAssumption DEF Init
  <2>2. backoff \in MinDelay..MaxDelay
    BY DelayAssumption DEF Init
  <2> QED BY <1>t, <2>1, <2>2 DEF Init, TypeOK, SupPC
<1>3. DialHoldsMutex
  BY CallersAssumption DEF Init, CInit, DialHoldsMutex
<1>4. /\ NoDialAfterClose /\ RecoveryArmed /\ DialsOnlyWhenDown
      /\ OutageStartsAtMinDelay
  BY DEF Init, CInit, NoDialAfterClose, RecoveryArmed, DialsOnlyWhenDown,
         OutageStartsAtMinDelay
<1> QED BY <1>1, <1>2, <1>3, <1>4 DEF LInv

\* Each action keeps the fields of the link itself within their types.
LEMMA TypeStep == ASSUME LInv, [Next]_lvars PROVE TypeOK'
<1> DEFINE LinkTypes == /\ consecutiveErrs \in 0..Threshold
                        /\ signalling \subseteq Ops
                        /\ trigger \in BOOLEAN
                        /\ sup \in SupPC
                        /\ started \in BOOLEAN
                        /\ BackoffOK(backoff)
                        /\ ctxDone \in BOOLEAN
                        /\ appClosed \in {"no", "signal", "http"}
<1>0. LinkTypes /\ CTypeOK'
  BY LinkImpliesClient, CTypeStep DEF LInv, TypeOK, BackoffOK
<1>n. BackoffOK(NextDelay(backoff)) /\ BackoffOK(MinDelay)
  BY <1>0, NextDelayRange, DelayAssumption DEF BackoffOK
<1> USE <1>0, ThresholdAssumption, DelayAssumption DEF SupPC, svars, dvars
<1>1. ASSUME NEW o \in Ops, NEW k \in Kinds, Dispatch(o, k) PROVE LinkTypes'
  BY <1>1 DEF Dispatch
<1>2. ASSUME NEW o \in Ops, Operate(o) PROVE LinkTypes'
  BY <1>2 DEF Operate
<1>3. ASSUME NEW o \in Ops, Record(o) PROVE LinkTypes'
  BY <1>3 DEF Record
<1>4. ASSUME NEW o \in Ops, Trigger(o) PROVE LinkTypes'
  BY <1>4 DEF Trigger
<1>5. ASSUME SupDial \/ SupDialCancelled \/ SupDialFailed PROVE LinkTypes'
  BY <1>5, <1>n DEF SupDial, SupDialCancelled, SupDialFailed
<1>6. ASSUME SupConnected PROVE LinkTypes'
  BY <1>6, <1>n DEF SupConnected
<1>7. ASSUME SupClose PROVE LinkTypes'
  BY <1>7, <1>n DEF SupClose
<1>8. ASSUME TimerFires \/ WaitCancelled \/ TriggerReceived \/ RunCancelled
      PROVE  LinkTypes'
  BY <1>8 DEF TimerFires, WaitCancelled, TriggerReceived, RunCancelled
<1>9. ASSUME Cancel \/ (\E c \in {"signal", "http"} : AppClose(c)) \/ Environment PROVE LinkTypes'
  BY <1>9 DEF Cancel, AppClose, Environment
<1>10. ASSUME UNCHANGED lvars PROVE LinkTypes'
  BY <1>10 DEF lvars
<1> HIDE DEF LinkTypes
<1>11. LinkTypes'
  BY <1>1, <1>2, <1>3, <1>4, <1>5, <1>6, <1>7, <1>8, <1>9, <1>10
  DEF Next, OpNext, SupNext, SupMutex
<1> QED BY <1>0, <1>11 DEF LinkTypes, TypeOK, BackoffOK

\* What the supervisor can rely on about a client step of an operation: it is
\* not a dial, never connects, and disconnects only by failing.
LEMMA OperateFacts ==
  ASSUME CTypeOK, MutexInv, NEW o \in Ops, OpStep(o)
  PROVE  /\ (mu = Sup) <=> (mu' = Sup)
         /\ connected' => connected
         /\ \A p \in Ops : pc[p] = "err" => pc'[p] = "err"
         /\ ~connected' => ~connected \/ pc'[o] = "err"
<1> USE CallersAssumption DEF CTypeOK, MutexInv, Locked, Goto
<1>1. CASE Acquire(o) \/ NotConnected(o)
  BY <1>1 DEF Acquire, NotConnected
<1>2. CASE GuardElapsed(o)
  BY <1>2 DEF GuardElapsed
<1>3. CASE GuardCancelled(o)
  BY <1>3 DEF GuardCancelled
<1>4. CASE SingleOk(o) \/ ReadOk(o)
  BY <1>4 DEF SingleOk, ReadOk
<1>5. CASE WriteOk(o)
  BY <1>5 DEF WriteOk, WriteArrives
<1>6. CASE ProtocolError(o)
  BY <1>6 DEF ProtocolError, OnWire
<1>7. CASE TransportError(o)
  BY <1>7 DEF TransportError, OnWire
<1> QED BY <1>1, <1>2, <1>3, <1>4, <1>5, <1>6, <1>7 DEF OpStep

\* Each action preserves the safety parts.
LEMMA LInvStep == ASSUME LInv, [Next]_lvars PROVE LInv'
<1> DEFINE Safe == /\ DialHoldsMutex /\ NoDialAfterClose /\ RecoveryArmed
                   /\ DialsOnlyWhenDown /\ OutageStartsAtMinDelay
<1>0. TypeOK' /\ CInv'
  BY TypeStep, LinkImpliesClient, CInvStep DEF LInv
<1>c. TypeOK /\ CTypeOK /\ Safe /\ (mu = Sup => ~connected)
  BY DEF LInv, TypeOK, CInv, DialWhileDown
<1> USE <1>c, CallersAssumption, ThresholdAssumption
    DEF TypeOK, CTypeOK, DialHoldsMutex, NoDialAfterClose, RecoveryArmed,
        DialsOnlyWhenDown, OutageStartsAtMinDelay, svars, dvars, cvars
<1>1. ASSUME NEW o \in Ops, NEW k \in Kinds, Dispatch(o, k) PROVE Safe'
  BY <1>1 DEF Dispatch, Call, Goto
<1>2. ASSUME NEW o \in Ops, Operate(o) PROVE Safe'
  <2>1. /\ (mu = Sup) <=> (mu' = Sup)
        /\ connected' => connected
        /\ \A p \in Ops : pc[p] = "err" => pc'[p] = "err"
        /\ ~connected' => ~connected \/ pc'[o] = "err"
    BY <1>2, OperateFacts DEF Operate, LInv, CInv
  <2> QED BY <1>2, <2>1 DEF Operate
<1>3. ASSUME NEW o \in Ops, Record(o) PROVE Safe'
  <2>1. UNCHANGED <<mu, connected, sup, ctxDone, appClosed, backoff>>
    BY <1>3 DEF Record, Deliver
  <2>2. consecutiveErrs' >= Threshold => o \in signalling'
    BY <1>3 DEF Record, Deliver
  <2> QED BY <2>1, <2>2
<1>4. ASSUME NEW o \in Ops, Trigger(o) PROVE Safe'
  BY <1>4 DEF Trigger
<1>5. ASSUME SupDial PROVE Safe'
  BY <1>5 DEF SupDial, DialBegin
<1>6. ASSUME SupDialCancelled PROVE Safe'
  BY <1>6 DEF SupDialCancelled
<1>7. ASSUME SupConnected PROVE Safe'
  BY <1>7 DEF SupConnected, DialOk
<1>8. ASSUME SupDialFailed PROVE Safe'
  BY <1>8 DEF SupDialFailed, DialFail
<1>9. ASSUME SupClose PROVE Safe'
  BY <1>9 DEF SupClose, ForceClose, ForceCloseNoop
<1>10. ASSUME TimerFires \/ WaitCancelled \/ TriggerReceived \/ RunCancelled
       PROVE  Safe'
  BY <1>10 DEF TimerFires, WaitCancelled, TriggerReceived, RunCancelled
<1>11. ASSUME Cancel PROVE Safe'
  BY <1>11 DEF Cancel
<1>12. ASSUME NEW cause \in {"signal", "http"}, AppClose(cause) PROVE Safe'
  BY <1>12 DEF AppClose, ForceClose, ForceCloseNoop
<1>13. ASSUME Environment PROVE Safe'
  BY <1>13 DEF Environment, Controller, ReleaseSlot, LateWrite, Reachable
<1>14. ASSUME UNCHANGED lvars PROVE Safe'
  BY <1>14 DEF lvars
<1> HIDE DEF Safe
<1>15. Safe'
  BY <1>1, <1>2, <1>3, <1>4, <1>5, <1>6, <1>7, <1>8, <1>9, <1>10, <1>11, <1>12,
     <1>13, <1>14 DEF Next, OpNext, SupNext, SupMutex
<1> QED BY <1>0, <1>15 DEF LInv, Safe

\* The link keeps its invariant, type correctness included.
LEMMA LinkInvariant == Spec => []LInv
<1>1. Init => LInv
  BY InitLInv
<1>2. LInv /\ [Next]_lvars => LInv'
  BY LInvStep
<1> QED BY <1>1, <1>2, PTL DEF Spec

\* Every field keeps its type.  The backoff stays between the configured delays, for
\* every factor above 1 and either conversion of a float beyond int64, unless the
\* product of factor and largest delay is beyond int64 (Backoff.Next).
THEOREM TypeCorrect == Spec => []TypeOK
<1>1. LInv => TypeOK
  BY DEF LInv
<1> QED BY <1>1, LinkInvariant, PTL

\* No lost wake-up: with the transport down and the failure counter at the
\* threshold, a supervisor in its select has a signal waiting or on its way,
\* although Trigger drops signals (ConnectionSupervisor.Trigger).
THEOREM RecoveryArmedHolds == Spec => []RecoveryArmed
<1>1. LInv => RecoveryArmed
  BY DEF LInv
<1> QED BY <1>1, LinkInvariant, PTL

\* The supervisor dials only while the client is not connected
\* (reconnectLoop, initialConnect).
THEOREM DialsOnlyWhenDownHolds == Spec => []DialsOnlyWhenDown
<1>1. LInv => DialsOnlyWhenDown
  BY DEF LInv
<1> QED BY <1>1, LinkInvariant, PTL

\* After the ForceClose of a shutdown that a signal has started the transport stays
\* closed, whatever dial the supervisor had under way.
THEOREM ShutdownIsFinalHolds == Spec => []ShutdownIsFinal
<1>1. LInv => ShutdownIsFinal
  BY DEF LInv, NoDialAfterClose, ShutdownIsFinal
<1> QED BY <1>1, LinkInvariant, PTL

\* A supervisor that waits for a signal, or has just received one, has its backoff
\* at the minimum (Reset after a dial), so the outage that begins starts there.
THEOREM OutageStartsAtMinDelayHolds == Spec => []OutageStartsAtMinDelay
<1>1. LInv => OutageStartsAtMinDelay
  BY DEF LInv
<1> QED BY <1>1, LinkInvariant, PTL

\* Delays only grow until a dial succeeds (Backoff.Next, Backoff.Reset) or a product
\* overflows.
THEOREM DelaysGrowHolds == Spec => DelaysGrow
<1> DEFINE Grow == backoff' < backoff => (~connected /\ connected') \/ Overflows(backoff)
<1>1. ASSUME LInv, [Next]_lvars PROVE [Grow]_lvars
  <2>0. BackoffOK(backoff) /\ (mu = Sup => ~connected)
    BY <1>1 DEF LInv, TypeOK, CInv, DialWhileDown, BackoffOK
  <2>n. NextDelay(backoff) < backoff => Overflows(backoff)
    BY <2>0, NextDelayRange
  <2>i. backoff \in Int
    BY <2>0, DurationAssumption, DelayAssumption DEF BackoffOK
  <2>1. ASSUME SupDialCancelled \/ SupDialFailed \/ SupClose PROVE Grow
    BY <2>0, <2>n, <2>1 DEF SupDialCancelled, SupDialFailed, SupClose
  <2>2. ASSUME SupConnected PROVE Grow
    BY <2>0, <2>2 DEF SupConnected, DialOk
  <2>3. CASE UNCHANGED backoff
    BY <2>i, <2>3
  <2> QED
    BY <1>1, <2>1, <2>2, <2>3
    DEF Next, OpNext, SupNext, SupMutex, Dispatch, Operate, Record, Trigger, SupDial,
        TimerFires, WaitCancelled, TriggerReceived, RunCancelled, Cancel, AppClose,
        Environment, svars, lvars
<1> QED BY <1>1, LinkInvariant, PTL DEF Spec, DelaysGrow

\* The composed link implements the client's specification, so ModifyHolding
\* stays atomic with the supervisor and the dispatcher around it.
THEOREM LinkModifyIsAtomic == Spec => ModifyIsAtomic
<1>1. Init => CInit
  BY DEF Init
<1>2. Spec => CSpec
  BY <1>1, LinkImpliesClient, PTL DEF Spec, CSpec
<1> QED BY <1>2, ModifyIsAtomicHolds
=============================================================================
