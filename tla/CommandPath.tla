---------------------------- MODULE CommandPath -----------------------------
(***************************************************************************)
(* From a Home Assistant command to the controller: CommandSubscriber      *)
(* (interface/mqtt/command_subscriber.go) turns a message into one or two  *)
(* commands, and ApplyCommand (application/usecase/apply_command.go)       *)
(* checks each against the operation of the latest snapshot and writes it. *)
(* paho calls the handlers one after the other.                            *)
(*                                                                         *)
(* The controller behaves as the README's hardware quirks say: Power_Dev   *)
(* is edge-triggered, a change of power leads through transition phases,   *)
(* and in a transition phase writes are acknowledged but ignored.          *)
(***************************************************************************)
EXTENDS Naturals, Sequences

CONSTANTS Settings,   \* the plain setpoints: Temp_Target (h31), Fan_Target_1 (h32)
          Values,     \* their valid values
          NoValue,    \* the setpoint before the first write
          MaxQueue    \* bound: messages waiting for the handler goroutine

ASSUME MaxQueueAssumption == MaxQueue \in Nat \ {0}
ASSUME ValuesAssumption == NoValue \notin Values /\ "bad" \notin Values \cup {NoValue}

VARIABLES
  queue,     \* external: messages paho has yet to hand over
  msg,       \* the message being handled, or handled last
  todo,      \* the commands of that message that are still to be applied
  pc,        \* where the handler goroutine is
  outcome,   \* how the handling of msg has gone
  snapOp,    \* Poller.latest.Operation: idle, or in a transition phase
  pollOp,    \* the same in the hot tier's partial snapshot
  power,     \* external: the controller is on
  mode,      \* external: bits 0..1 of Dev_Keys_2
  setpoint,  \* external: the setpoint registers
  rising,    \* external: Power_Dev has seen a 1 that no 0 has followed
  op,        \* external: the same, in the controller
  moving,    \* external: a transition phase is still to come
  ignored,   \* history: a write for msg was acknowledged but ignored
  before     \* history: power and mode when the handling of msg began

hvars == <<queue, msg, todo, pc, outcome>>
svars == <<snapOp, pollOp>>
dvars == <<power, mode, setpoint, rising, op, moving>>
kvars == <<hvars, svars, dvars, ignored, before>>

-----------------------------------------------------------------------------
(* Messages and commands.  Payloads that do not parse are one "bad" value. *)

Messages == [topic : {"power"}, payload : {"ON", "OFF", "bad"}]
            \cup [topic : {"hvac_mode"}, payload : {"heat", "fan_only", "off", "bad"}]
            \cup [topic : Settings, payload : Values \cup {"bad"}]

Power(b) == [cmd |-> "power", on |-> b]
Mode(m) == [cmd |-> "mode", to |-> m]
Set(r, v) == [cmd |-> "set", reg |-> r, to |-> v]

\* Mutant: the mode is set before the unit is switched on.
HVACModeFirst(p) == CASE p = "off" -> <<Power(FALSE)>>
                      [] p = "heat" -> <<Mode("heat"), Power(TRUE)>>
                      [] p = "fan_only" -> <<Mode("off"), Power(TRUE)>>
                      [] OTHER -> <<>>

\* handleHVACMode
HVACCommands(p) == CASE p = "off" -> <<Power(FALSE)>>
                     [] p = "heat" -> <<Power(TRUE), Mode("heat")>>
                     [] p = "fan_only" -> <<Power(TRUE), Mode("off")>>
                     [] OTHER -> <<>>

\* handlePower
PowerCommands(p) == CASE p = "ON" -> <<Power(TRUE)>>
                      [] p = "OFF" -> <<Power(FALSE)>>
                      [] OTHER -> <<>>

\* handleTargetTemperature and handleFanTarget: a value out of range is dropped.
SettingCommands(r, p) == IF p \in Values THEN <<Set(r, p)>> ELSE <<>>

Commands(m) == CASE m.topic = "power" -> PowerCommands(m.payload)
                 [] m.topic = "hvac_mode" -> HVACCommands(m.payload)
                 [] OTHER -> SettingCommands(m.topic, m.payload)

AllCommands == [cmd : {"power"}, on : BOOLEAN]
               \cup [cmd : {"mode"}, to : {"off", "heat"}]
               \cup [cmd : {"set"}, reg : Settings, to : Values]

-----------------------------------------------------------------------------

Phases == {"idle", "transition"}

KTypeOK == /\ queue \in Seq(Messages) /\ Len(queue) <= MaxQueue
           /\ msg \in Messages
           /\ todo \in Seq(AllCommands)
           /\ pc \in {"idle", "apply", "write", "pause", "fall"}
           /\ outcome \in {"none", "ok", "rejected", "error"}
           /\ snapOp \in Phases /\ pollOp \in Phases \cup {"none"}
           /\ power \in BOOLEAN /\ mode \in {"off", "heat"}
           /\ setpoint \in [Settings -> Values \cup {NoValue}]
           /\ rising \in BOOLEAN /\ op \in Phases /\ moving \in BOOLEAN
           /\ ignored \in BOOLEAN
           /\ before \in [power : BOOLEAN, mode : {"off", "heat"}]

(* The zero-value snapshot says idle, whatever the controller is doing. *)
KInit == /\ queue = <<>>
         /\ msg = [topic |-> "power", payload |-> "bad"]
         /\ todo = <<>>
         /\ pc = "idle" /\ outcome = "none"
         /\ snapOp = "idle" /\ pollOp = "none"
         /\ power \in BOOLEAN /\ mode \in {"off", "heat"}
         /\ setpoint = [r \in Settings |-> NoValue]
         /\ rising = FALSE
         /\ op \in Phases /\ moving = (op = "transition")
         /\ ignored = FALSE
         /\ before = [power |-> power, mode |-> mode]

\* The broker delivers a message.
Arrive(m) == /\ Len(queue) < MaxQueue
             /\ queue' = Append(queue, m)
             /\ UNCHANGED <<msg, todo, pc, outcome, svars, dvars, ignored, before>>

\* paho calls the handler of the next message.
Handle == /\ pc = "idle" /\ queue # <<>>
          /\ msg' = Head(queue) /\ queue' = Tail(queue)
          /\ todo' = Commands(Head(queue))
          /\ pc' = "apply" /\ outcome' = "none"
          /\ ignored' = FALSE
          /\ before' = [power |-> power, mode |-> mode]
          /\ UNCHANGED <<svars, dvars>>

\* The handler returns; after an error the commands left are skipped.
Return(o) == /\ pc' = "idle"
             /\ outcome' = o
             /\ todo' = <<>>
             /\ UNCHANGED <<queue, msg>>

HandlerDone == /\ pc = "apply" /\ todo = <<>>
               /\ Return("ok")
               /\ UNCHANGED <<svars, dvars, ignored, before>>

-----------------------------------------------------------------------------
(* ApplyCommand *)

\* transitionGuard passes.
GuardPasses == /\ pc = "apply" /\ todo # <<>>
               /\ snapOp = "idle"
               /\ pc' = "write"
               /\ UNCHANGED <<queue, msg, todo, outcome, svars, dvars, ignored, before>>

\* transitionGuard returns ErrTransitionInProgress, for every command.
GuardRejects == /\ pc = "apply" /\ todo # <<>>
                /\ snapOp = "transition"
                /\ Return("rejected")
                /\ UNCHANGED <<svars, dvars, ignored, before>>

\* What a register write does to the controller (external).
WritePower(v) == /\ rising' = (v = 1)
                 /\ power' = IF v = 1 THEN TRUE ELSE IF rising THEN FALSE ELSE power
                 /\ moving' = (moving \/ power' # power)
                 /\ UNCHANGED <<mode, setpoint, op>>

WriteMode(m) == mode' = m /\ UNCHANGED <<power, setpoint, rising, op, moving>>

WriteSet(r, v) == /\ setpoint' = [setpoint EXCEPT ![r] = v]
                  /\ UNCHANGED <<power, mode, rising, op, moving>>

\* The register write that the handler is at.
Request == IF pc = "fall" THEN WritePower(0)
           ELSE CASE Head(todo).cmd = "power" -> WritePower(1)
                  [] Head(todo).cmd = "mode" -> WriteMode(Head(todo).to)
                  [] OTHER -> WriteSet(Head(todo).reg, Head(todo).to)

Executed == IF op = "transition" THEN ignored' = TRUE /\ UNCHANGED dvars
            ELSE Request /\ UNCHANGED ignored

\* Mutant: OFF is a single write, like ON.
WriteOkNoFall == /\ pc \in {"write", "fall"}
                 /\ Executed
                 /\ pc' = "apply" /\ todo' = Tail(todo)
                 /\ UNCHANGED <<queue, msg, outcome, svars, before>>

\* The dispatcher returns nil: the next command, or OFF's dwell.
WriteOk == /\ pc \in {"write", "fall"}
           /\ Executed
           /\ IF pc = "write" /\ Head(todo) = Power(FALSE)
              THEN pc' = "pause" /\ UNCHANGED todo
              ELSE pc' = "apply" /\ todo' = Tail(todo)
           /\ UNCHANGED <<queue, msg, outcome, svars, before>>

\* The dispatcher returns an error, whether or not the write was executed.
WriteFails == /\ pc \in {"write", "fall"}
              /\ Executed \/ UNCHANGED <<dvars, ignored>>
              /\ Return("error")
              /\ UNCHANGED <<svars, before>>

\* setPower's dwell ends, or the handler's context does.
PauseOver == /\ pc = "pause"
             /\ pc' = "fall"
             /\ UNCHANGED <<queue, msg, todo, outcome, svars, dvars, ignored, before>>

\* Mutant: an interrupted OFF starts over.
PauseCancelledRestarts == /\ pc = "pause"
                          /\ pc' = "write"
                          /\ UNCHANGED <<queue, msg, todo, outcome, svars, dvars, ignored, before>>

PauseCancelled == /\ pc = "pause"
                  /\ Return("error")
                  /\ UNCHANGED <<svars, dvars, ignored, before>>

-----------------------------------------------------------------------------
(* The hot tier, and the controller's own life *)

\* PollHot decodes State_1 ...
HotRead == /\ pollOp = "none"
           /\ pollOp' = op
           /\ UNCHANGED <<hvars, snapOp, dvars, ignored, before>>

\* Mutant: the guard keeps the first transition it sees.
HotMergeSticky == /\ pollOp # "none"
                  /\ snapOp' = IF snapOp = "transition" THEN snapOp ELSE pollOp
                  /\ pollOp' = "none"
                  /\ UNCHANGED <<hvars, dvars, ignored, before>>

\* ... and doPoll merges it; or the poll fails.
HotMerge == /\ pollOp # "none"
            /\ snapOp' = pollOp
            /\ pollOp' = "none"
            /\ UNCHANGED <<hvars, dvars, ignored, before>>

HotFails == /\ pollOp # "none"
            /\ pollOp' = "none"
            /\ UNCHANGED <<hvars, snapOp, dvars, ignored, before>>

TransitionBegins == /\ moving /\ op = "idle"
                    /\ op' = "transition"
                    /\ UNCHANGED <<hvars, svars, power, mode, setpoint, rising, moving, ignored, before>>

TransitionEnds == /\ op = "transition"
                  /\ op' = "idle" /\ moving' = FALSE
                  /\ UNCHANGED <<hvars, svars, power, mode, setpoint, rising, ignored, before>>

HandlerStep == \/ Handle \/ HandlerDone \/ GuardPasses \/ GuardRejects
               \/ WriteOk \/ WriteFails \/ PauseOver \/ PauseCancelled

KNext == \/ \E m \in Messages : Arrive(m)
         \/ HandlerStep
         \/ HotRead \/ HotMerge \/ HotFails
         \/ TransitionBegins \/ TransitionEnds

KSpec == KInit /\ [][KNext]_kvars

(* Fairness: handlers run (every wait in them is timed), the hot tier      *)
(* polls, and polls do not fail for ever; transition phases end.           *)
KFairness == /\ WF_kvars(HandlerStep)
             /\ WF_kvars(HotRead) /\ SF_kvars(HotMerge)
             /\ WF_kvars(TransitionEnds)
KFairSpec == KSpec /\ KFairness

-----------------------------------------------------------------------------
(* Properties *)

\* The mode of heat and fan_only.
HvacTarget(p) == IF p = "heat" THEN "heat" ELSE "off"

\* What Home Assistant asked for is what the controller has.
Matches(m) == CASE m.topic = "power" -> power = (m.payload = "ON")
                [] m.topic = "hvac_mode" /\ m.payload = "off" -> ~power
                [] m.topic = "hvac_mode" /\ m.payload # "off" ->
                     power /\ mode = HvacTarget(m.payload)
                [] OTHER -> setpoint[m.topic] = m.payload

\* A message that was handled without an error, and of which the controller
\* ignored no write, has had its full effect: one write for ON, the edge
\* sequence for OFF, power and mode for heat and fan_only.
OkMeansDone == outcome = "ok" /\ ~ignored /\ Commands(msg) # <<>> => Matches(msg)

\* The controller has what command c asked for.
Applied(c) == /\ c.cmd = "power" => power = c.on
              /\ c.cmd = "mode" => mode = c.to
              /\ c.cmd = "set" => setpoint[c.reg] = c.to

\* While a message is handled, todo is the end of its list of commands, and the
\* commands before it have had their effect, unless a write was ignored.
WrittenInOrder ==
  LET cs == Commands(msg)
      done == Len(cs) - Len(todo)
  IN  pc # "idle" => /\ outcome = "none"
                     /\ done \in Nat
                     /\ \A i \in 1 .. Len(todo) : todo[i] = cs[done + i]
                     /\ ~ignored => \A i \in 1 .. done : Applied(cs[i])

\* A write is at hand for a command only, and between the two writes of OFF the
\* controller has seen the rising edge.
EdgeBeforeFall ==
  /\ pc \in {"write", "pause", "fall"} => todo # <<>>
  /\ pc \in {"pause", "fall"} => Head(todo) = Power(FALSE) /\ (~ignored => rising)

\* "ok" is returned at the end only, when every command has had its effect.
AllWritten ==
  outcome = "ok" => /\ pc = "idle"
                    /\ ~ignored => \A i \in 1 .. Len(Commands(msg)) : Applied(Commands(msg)[i])

\* heat and fan_only: a command for power, then one for the mode.
IsHvacOn(m) == m.topic = "hvac_mode" /\ m.payload \in {"heat", "fan_only"}

\* What does hold when the second of the two fails (see NeverMismatched): the mode is
\* written after the power only, so that it is as before unless both were written.
PowerBeforeMode ==
  pc = "idle" /\ IsHvacOn(msg) /\ ~ignored
    => Matches(msg) \/ (mode = before.mode /\ power \in {before.power, TRUE})

\* The same, on the way there.
HvacProgress ==
  pc # "idle" /\ IsHvacOn(msg) /\ ~ignored
    => /\ Len(todo) = 2 => power = before.power /\ mode = before.mode
       /\ Len(todo) = 1 => power /\ mode = before.mode

\* The inductive invariant behind OkMeansDone and PowerBeforeMode: the handler writes
\* the commands of its message in order, OFF as rising and then falling edge, no
\* later write undoes an earlier one, and nothing else writes those registers.
KCore == KTypeOK /\ WrittenInOrder /\ EdgeBeforeFall /\ AllWritten
KInv == KCore /\ HvacProgress /\ PowerBeforeMode

\* The guard does not lock the operator out: it is open again and again.  The
\* snapshot it reads is refreshed by polls only, and starts out as the zero
\* value.
GuardOpensAgain == []<>(snapOp = "idle")

\* Every message is handled in the end, and the handler is free again.
HandlerReturns == pc # "idle" ~> pc = "idle"

\* command_subscriber.go: "the controller is never left with mismatched power
\* and mode state": handling heat or fan_only leaves power and mode as they were
\* or as they were asked to be.
NeverMismatched ==
  pc = "idle" /\ IsHvacOn(msg) /\ ~ignored
    => Matches(msg) \/ (power = before.power /\ mode = before.mode)
=============================================================================
