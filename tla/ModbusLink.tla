----------------------------- MODULE ModbusLink -----------------------------
(***************************************************************************)
(* The Modbus link: the client (ModbusClient), CommandDispatcher, which    *)
(* every operation goes through and which counts consecutive failures, and *)
(* ConnectionSupervisor, which tears the connection down and dials again   *)
(* with exponential backoff.  app.Run starts the supervisor first, so no   *)
(* operation is issued before the initial connect has succeeded; on a      *)
(* shutdown signal, or when the HTTP server has failed, App.shutdown       *)
(* force-closes the client while the supervisor may still be at any point  *)
(* of its loop.                                                            *)
(***************************************************************************)
EXTENDS ModbusClient

CONSTANTS Pollers,       \* the operations issued by the poll tiers: reads, periodically
          Threshold,     \* commandFailureThreshold
          MinDelay, MaxDelay,    \* ReconnectConfig, in some unit of time
          FactorNum, FactorDen,  \* ReconnectConfig.Factor as a fraction
          MaxDuration,   \* the largest time.Duration (int64)
          OutOfRange     \* what the build converts a float beyond it to

ASSUME PollersAssumption == Pollers \subseteq Ops
ASSUME ThresholdAssumption == Threshold \in Nat /\ Threshold > 0
ASSUME DelayAssumption == /\ MinDelay \in Nat /\ MaxDelay \in Nat
                          /\ 0 < MinDelay /\ MinDelay <= MaxDelay
ASSUME FactorAssumption == /\ FactorNum \in Nat /\ FactorDen \in Nat
                           /\ 0 < FactorDen /\ FactorDen < FactorNum
\* The Go specification leaves the result open; amd64 gives the smallest int64 and
\* arm64 the largest.
ASSUME DurationAssumption == /\ MaxDuration \in Nat /\ MaxDelay <= MaxDuration
                             /\ OutOfRange \in {-MaxDuration - 1, MaxDuration}

VARIABLES
  consecutiveErrs,  \* CommandDispatcher.consecutiveErrs, saturating at Threshold
  signalling,       \* the operations between recordOutcome's unlock and Trigger
  trigger,          \* the supervisor's channel of capacity 1 holds a value
  sup,              \* where the supervisor goroutine is
  started,          \* ConnectionSupervisor.Start has returned nil
  backoff,          \* Backoff.current
  ctxDone,          \* the context of app.Run is cancelled
  appClosed         \* what led to App.shutdown, once it has force-closed the client

svars == <<trigger, sup, started, backoff>>
dvars == <<consecutiveErrs, signalling>>
lvars == <<cvars, dvars, svars, ctxDone, appClosed>>

SupPC == {"connect", "dial", "wait", "run", "close", "done"}

\* The product that Backoff.Next converts to a Duration is beyond int64.
Scaled(d) == (d * FactorNum) \div FactorDen
Overflows(d) == Scaled(d) \notin (-MaxDuration - 1)..MaxDuration

\* The backoff stays between the configured delays, unless its factor is so large that
\* a product overflows on a build that converts such a float to the smallest int64;
\* Validate sets no upper bound.
TypeOK == /\ CTypeOK
          /\ consecutiveErrs \in 0..Threshold
          /\ signalling \subseteq Ops
          /\ trigger \in BOOLEAN
          /\ sup \in SupPC
          /\ started \in BOOLEAN
          /\ \/ backoff \in MinDelay..MaxDelay
             \/ backoff = -MaxDuration - 1 /\ Overflows(MaxDelay)
          /\ ctxDone \in BOOLEAN
          /\ appClosed \in {"no", "signal", "http"}

Init == /\ CInit
        /\ consecutiveErrs = 0
        /\ signalling = {}
        /\ trigger = FALSE
        /\ sup = "connect"
        /\ started = FALSE
        /\ backoff = MinDelay
        /\ ctxDone = FALSE
        /\ appClosed = "no"

-----------------------------------------------------------------------------
(* CommandDispatcher *)

\* A poll tier or a command handler calls the dispatcher.
Dispatch(o, k) == /\ started
                  /\ o \notin signalling
                  /\ o \in Pollers => k = "single"
                  /\ Call(o, k)
                  /\ UNCHANGED <<dvars, svars, ctxDone, appClosed>>

\* A step of the client inside the call.
Operate(o) == /\ OpStep(o)
              /\ UNCHANGED <<dvars, svars, ctxDone, appClosed>>

\* Mutant: only the failure that reaches the threshold signals.
RecordOnce(o) == /\ Deliver(o)
                 /\ consecutiveErrs' = IF pc[o] = "ok" THEN 0
                                       ELSE IF consecutiveErrs < Threshold
                                            THEN consecutiveErrs + 1 ELSE Threshold
                 /\ signalling' = IF pc[o] = "err" /\ consecutiveErrs + 1 = Threshold
                                  THEN signalling \cup {o} ELSE signalling
                 /\ UNCHANGED <<svars, ctxDone, appClosed>>

\* recordOutcome up to the unlock: a success clears the counter, a failure
\* raises it, and at the threshold the supervisor is to be signalled.
Record(o) == /\ Deliver(o)
             /\ consecutiveErrs' = IF pc[o] = "ok" THEN 0
                                   ELSE IF consecutiveErrs < Threshold
                                        THEN consecutiveErrs + 1 ELSE Threshold
             /\ signalling' = IF pc[o] = "err" /\ consecutiveErrs' >= Threshold
                              THEN signalling \cup {o} ELSE signalling
             /\ UNCHANGED <<svars, ctxDone, appClosed>>

\* ConnectionSupervisor.Trigger: a send that is dropped when the channel is full.
Trigger(o) == /\ o \in signalling
              /\ signalling' = signalling \ {o}
              /\ trigger' = TRUE
              /\ UNCHANGED <<cvars, consecutiveErrs, sup, started, backoff, ctxDone, appClosed>>

-----------------------------------------------------------------------------
(* ConnectionSupervisor.  initialConnect and reconnectLoop run the same    *)
(* loop; they differ in where they enter it ("connect" and "wait") and in  *)
(* where cancellation leads.                                               *)

\* Mutant: Backoff.Next without the clamp.
NextDelayUnclamped(d) == IF Overflows(d) THEN OutOfRange ELSE Scaled(d)

\* Backoff.Next on the base delay (jitter perturbs the delay only): the conversion to
\* a Duration comes before the clamp.
NextDelay(d) == LET next == IF Overflows(d) THEN OutOfRange ELSE Scaled(d)
                IN  IF next > MaxDelay THEN MaxDelay ELSE next

\* Mutant: Connect does not get the supervisor's context.
SupDialDetached == /\ sup = "connect"
                   /\ DialBegin
                   /\ sup' = "dial"
                   /\ UNCHANGED <<dvars, trigger, started, backoff, ctxDone, appClosed>>

\* Connect takes the mutex and dials with the supervisor's context.
SupDial == /\ sup = "connect" /\ ~ctxDone
           /\ DialBegin
           /\ sup' = "dial"
           /\ UNCHANGED <<dvars, trigger, started, backoff, ctxDone, appClosed>>

\* Connect with a context that is already cancelled fails without a dial.
SupDialCancelled == /\ sup = "connect" /\ ctxDone
                    /\ mu = NoOne
                    /\ sup' = "wait"
                    /\ backoff' = NextDelay(backoff)
                    /\ UNCHANGED <<cvars, dvars, trigger, started, ctxDone, appClosed>>

\* Mutant: no Reset after a successful dial.
SupConnectedNoReset == /\ sup = "dial"
                       /\ DialOk
                       /\ sup' = "run"
                       /\ started' = TRUE
                       /\ UNCHANGED <<dvars, trigger, backoff, ctxDone, appClosed>>

\* Connect succeeds; Start returns, or reconnectLoop does.
SupConnected == /\ sup = "dial"
                /\ DialOk
                /\ sup' = "run"
                /\ started' = TRUE
                /\ backoff' = MinDelay
                /\ UNCHANGED <<dvars, trigger, ctxDone, appClosed>>

\* Mutant: Reset after a failed dial.
SupDialFailedResets == /\ sup = "dial" /\ (~up \/ held \/ ctxDone)
                       /\ DialFail
                       /\ sup' = "wait"
                       /\ backoff' = MinDelay
                       /\ UNCHANGED <<dvars, trigger, started, ctxDone, appClosed>>

\* Connect fails: the next delay is taken from the backoff.
SupDialFailed == /\ sup = "dial" /\ (~up \/ held \/ ctxDone)
                 /\ DialFail
                 /\ sup' = "wait"
                 /\ backoff' = NextDelay(backoff)
                 /\ UNCHANGED <<dvars, trigger, started, ctxDone, appClosed>>

\* The delay is over.
TimerFires == /\ sup = "wait"
              /\ sup' = "connect"
              /\ UNCHANGED <<cvars, dvars, trigger, started, backoff, ctxDone, appClosed>>

\* Mutant: a break leaves the select instead of the loop.
WaitCancelledBreaks == /\ sup = "wait" /\ ctxDone
                       /\ sup' = "connect"
                       /\ UNCHANGED <<cvars, dvars, trigger, started, backoff, ctxDone, appClosed>>

\* ctx.Done while waiting: Start returns the error, reconnectLoop returns to run.
WaitCancelled == /\ sup = "wait" /\ ctxDone
                 /\ sup' = IF started THEN "run" ELSE "done"
                 /\ UNCHANGED <<cvars, dvars, trigger, started, backoff, ctxDone, appClosed>>

\* Mutant: the signal is a flag that nobody clears.
TriggerSeen == /\ sup = "run" /\ trigger
               /\ sup' = "close"
               /\ UNCHANGED <<cvars, dvars, trigger, started, backoff, ctxDone, appClosed>>

TriggerReceived == /\ sup = "run" /\ trigger
                   /\ trigger' = FALSE
                   /\ sup' = "close"
                   /\ UNCHANGED <<cvars, dvars, started, backoff, ctxDone, appClosed>>

RunCancelled == /\ sup = "run" /\ ctxDone
                /\ sup' = "done"
                /\ UNCHANGED <<cvars, dvars, trigger, started, backoff, ctxDone, appClosed>>

\* Mutant: a trigger goes straight to reconnectLoop.
SupCloseSkipped == /\ sup = "close"
                   /\ sup' = "wait"
                   /\ backoff' = NextDelay(backoff)
                   /\ UNCHANGED <<cvars, dvars, trigger, started, ctxDone, appClosed>>

\* run's ForceClose, and reconnectLoop's first delay.
SupClose == /\ sup = "close"
            /\ ForceClose \/ ForceCloseNoop
            /\ sup' = "wait"
            /\ backoff' = NextDelay(backoff)
            /\ UNCHANGED <<dvars, trigger, started, ctxDone, appClosed>>

-----------------------------------------------------------------------------
(* App *)

\* The shutdown signal, or Run's deferred cancel.
Cancel == /\ ~ctxDone
          /\ ctxDone' = TRUE
          /\ UNCHANGED <<cvars, dvars, svars, appClosed>>

\* App.shutdown's ForceClose: after the signal, or after the HTTP server has failed,
\* when the context may be live.
AppClose(cause) == /\ started /\ appClosed = "no"
                   /\ cause = "signal" => ctxDone
                   /\ ForceClose \/ ForceCloseNoop
                   /\ appClosed' = cause
                   /\ UNCHANGED <<dvars, svars, ctxDone>>

Environment == Controller /\ UNCHANGED <<dvars, svars, ctxDone, appClosed>>

OpNext(o) == Operate(o) \/ Record(o) \/ Trigger(o)

SupMutex == SupDial \/ SupDialCancelled \/ SupClose

SupNext == \/ SupMutex \/ SupConnected \/ SupDialFailed
           \/ TimerFires \/ WaitCancelled \/ TriggerReceived \/ RunCancelled

Next == \/ \E o \in Ops : \E k \in Kinds : Dispatch(o, k)
        \/ \E o \in Ops : OpNext(o)
        \/ SupNext
        \/ Cancel \/ \E cause \in {"signal", "http"} : AppClose(cause)
        \/ Environment

Spec == Init /\ [][Next]_lvars

(* Fairness.  Operations complete because every wait in them is timed, and *)
(* a Go mutex hands itself to its longest waiter (strong fairness for the  *)
(* steps that take it).  Poll tiers tick until the context is cancelled.   *)
(* The supervisor runs; of a select with several ready branches none is    *)
(* passed over for ever.  The controller frees the slot of a client that   *)
(* has gone silent (README, "TCP idle timeout").                           *)
Fairness ==
  /\ \A o \in Ops : /\ SF_lvars(Operate(o))
                    /\ WF_lvars(Record(o))
                    /\ WF_lvars(Trigger(o))
  /\ \A o \in Pollers : WF_lvars(~ctxDone /\ Dispatch(o, "single"))
  /\ SF_lvars(SupMutex)
  /\ WF_lvars(SupNext)
  /\ SF_lvars(WaitCancelled) /\ SF_lvars(RunCancelled)
  /\ WF_lvars(Environment /\ held /\ ~connected /\ ~held')

FairSpec == Spec /\ Fairness

-----------------------------------------------------------------------------
(* Properties *)

\* No lost wake-up: when the transport is down, the failure counter stands at
\* the threshold and the supervisor sits in its select, a signal is in the
\* channel or some operation is on its way to sending one.  Trigger drops
\* signals and the counter is never reset by a reconnect, so this is what the
\* drop relies on.  (Shutdown's own ForceClose is no outage.)
RecoveryArmed ==
  sup = "run" /\ ~connected /\ ~ctxDone /\ appClosed = "no" /\ consecutiveErrs >= Threshold
    => trigger \/ signalling # {} \/ \E o \in Ops : pc[o] = "err"

\* Only the supervisor opens the transport: whenever its loop is about to
\* dial, the client is not connected, so Connect's early return for a connected
\* client (which would report success for a connection that is going away)
\* never happens.
DialsOnlyWhenDown == sup \in {"wait", "connect", "dial"} => ~connected

\* After a signal App.shutdown's ForceClose is final: no dial the supervisor had
\* under way reopens the transport behind it.  After a failure of the HTTP server it
\* is not: with the context live the supervisor may dial again.
ShutdownIsFinal == appClosed = "signal" => ~connected

\* Every outage starts from the smallest delay, whatever the factor has done to the
\* delays of the one before.
OutageStartsAtMinDelay == sup \in {"run", "close"} /\ ~ctxDone => backoff = MinDelay

\* Nothing but a successful dial makes the delays shorter, unless the product that
\* Backoff.Next converts is beyond int64.
DelaysGrow == [][backoff' < backoff => (~connected /\ connected') \/ Overflows(backoff)]_lvars

\* The inductive invariant behind these: the client's own invariant, and that
\* the supervisor's dial is the mutex hold of ModbusClient's Connect, which
\* shutdown's ForceClose waits for and which no cancelled context starts.
DialHoldsMutex == sup = "dial" <=> mu = Sup
NoDialAfterClose == appClosed = "signal" => ctxDone /\ ~connected /\ sup # "dial"

LInv == /\ TypeOK
        /\ CInv
        /\ DialHoldsMutex
        /\ NoDialAfterClose
        /\ RecoveryArmed
        /\ DialsOnlyWhenDown
        /\ OutageStartsAtMinDelay

\* The link recovers: if from some time on the controller stays reachable and
\* the bridge is not shut down, the client is connected again and again.
Recovers == <>[](up /\ ~ctxDone) => []<>connected

\* A link that recovers stays up: once the controller is reachable and operations no
\* longer come back with an error, the signals left over from the outage tear down no
\* more than finitely many new connections.
RecoveryIsStable ==
  <>[](up /\ ~ctxDone /\ \A o \in Ops : pc[o] # "err") => <>[]connected

\* On cancellation the supervisor goroutine ends (Done is closed), or Start
\* returns the error.
StopsOnCancel == ctxDone ~> sup = "done"

\* ForceClose tears the transport down "unconditionally" (the contract in
\* application/port/modbus_connection.go): no dialled handler is left unclosed
\* when the supervisor goes on to dial a new one.
ForceCloseTearsDown == [][sup = "close" /\ sup' = "wait" => ~handlerOpen']_lvars
=============================================================================
