------------------------- MODULE CommandPathProofs --------------------------
(* Proofs about CommandPath: a command that succeeded has taken effect,    *)
(* for any settings, values and number of waiting messages.                *)
EXTENDS CommandPath, SequenceTheorems, TLAPS

-----------------------------------------------------------------------------
(* What a message is turned into *)

\* The topics are tried one after the other, and the payloads of a topic too.
LEMMA CommandsOfMessage ==
  ASSUME NEW m \in Messages
  PROVE  \/ Commands(m) = <<>>
         \/ \E b \in BOOLEAN : Commands(m) = <<Power(b)>>
         \/ \E x \in {"off", "heat"} : Commands(m) = <<Power(TRUE), Mode(x)>>
         \/ \E r \in Settings, v \in Values : Commands(m) = <<Set(r, v)>>
<1>1. CASE m.topic = "power"
  <2>1. Commands(m) = PowerCommands(m.payload)
    BY <1>1 DEF Commands
  <2>2. CASE m.payload = "ON"
    BY <2>1, <2>2 DEF PowerCommands
  <2>3. CASE m.payload = "OFF"
    BY <2>1, <2>3 DEF PowerCommands
  <2>4. CASE m.payload \notin {"ON", "OFF"}
    BY <2>1, <2>4 DEF PowerCommands
  <2> QED BY <2>2, <2>3, <2>4
<1>2. CASE m.topic = "hvac_mode"
  <2>1. Commands(m) = HVACCommands(m.payload)
    BY <1>2 DEF Commands
  <2>2. CASE m.payload = "off"
    BY <2>1, <2>2 DEF HVACCommands
  <2>3. CASE m.payload = "heat"
    BY <2>1, <2>3 DEF HVACCommands
  <2>4. CASE m.payload = "fan_only"
    BY <2>1, <2>4 DEF HVACCommands
  <2>5. CASE m.payload \notin {"off", "heat", "fan_only"}
    BY <2>1, <2>5 DEF HVACCommands
  <2> QED BY <2>2, <2>3, <2>4, <2>5
<1>3. CASE m.topic \notin {"power", "hvac_mode"}
  <2>1. Commands(m) = SettingCommands(m.topic, m.payload)
    BY <1>3 DEF Commands
  <2>2. m.topic \in Settings
    BY <1>3 DEF Messages
  <2> QED BY <2>1, <2>2 DEF SettingCommands
<1> QED BY <1>1, <1>2, <1>3

\* A list of two.
LEMMA PairInSeq ==
  ASSUME NEW S, NEW a \in S, NEW b \in S
  PROVE  <<a, b>> \in Seq(S)
OBVIOUS

\* The list is well-formed, and no two of its commands are of the same kind: the
\* writes of one message go to different registers.
LEMMA CommandsFact ==
  ASSUME NEW m \in Messages
  PROVE  /\ Commands(m) \in Seq(AllCommands)
         /\ \A i, j \in 1 .. Len(Commands(m)) :
              Commands(m)[i].cmd = Commands(m)[j].cmd => i = j
<1>1. CASE Commands(m) = <<>>
  BY <1>1
<1>2. ASSUME NEW b \in BOOLEAN, Commands(m) = <<Power(b)>>
      PROVE  Commands(m) \in Seq(AllCommands) /\ Len(Commands(m)) = 1
  BY <1>2 DEF Power, AllCommands
<1>3. ASSUME NEW x \in {"off", "heat"}, Commands(m) = <<Power(TRUE), Mode(x)>>
      PROVE  /\ Commands(m) \in Seq(AllCommands) /\ Len(Commands(m)) = 2
             /\ Commands(m)[1].cmd # Commands(m)[2].cmd
  <2>1. Power(TRUE) \in AllCommands /\ Mode(x) \in AllCommands
    BY DEF Power, Mode, AllCommands
  <2>2. Power(TRUE).cmd # Mode(x).cmd
    BY DEF Power, Mode
  <2>3. Commands(m) \in Seq(AllCommands)
    BY <1>3, <2>1, PairInSeq
  <2>4. Len(Commands(m)) = 2 /\ Commands(m)[1] = Power(TRUE) /\ Commands(m)[2] = Mode(x)
    BY <1>3
  <2> QED BY <2>2, <2>3, <2>4
<1>4. ASSUME NEW r \in Settings, NEW v \in Values, Commands(m) = <<Set(r, v)>>
      PROVE  Commands(m) \in Seq(AllCommands) /\ Len(Commands(m)) = 1
  BY <1>4 DEF Set, AllCommands
<1>5. Commands(m) = <<>> \/ (Len(Commands(m)) = 1) \/ (Len(Commands(m)) = 2 /\ Commands(m)[1].cmd # Commands(m)[2].cmd)
  BY <1>2, <1>3, <1>4, CommandsOfMessage
<1>6. Commands(m) \in Seq(AllCommands)
  BY <1>1, <1>2, <1>3, <1>4, CommandsOfMessage
<1>7. \A i, j \in 1 .. Len(Commands(m)) : Commands(m)[i].cmd = Commands(m)[j].cmd => i = j
  BY <1>5
<1> QED BY <1>6, <1>7

-----------------------------------------------------------------------------
(* What a write does *)

\* The command at hand is the next one of the message's list.
LEMMA NextCommand ==
  ASSUME KCore, pc # "idle", todo # <<>>
  PROVE  LET cs == Commands(msg)
             done == Len(cs) - Len(todo)
         IN  /\ cs \in Seq(AllCommands) /\ Len(cs) \in Nat /\ Len(todo) \in Nat \ {0}
             /\ done \in Nat /\ done + 1 \in 1 .. Len(cs)
             /\ Head(todo) = cs[done + 1] /\ Head(todo) \in AllCommands
             /\ \A i \in 1 .. done : cs[i] \in AllCommands /\ cs[i].cmd # Head(todo).cmd
<1> DEFINE cs == Commands(msg)
           done == Len(cs) - Len(todo)
<1>1. /\ cs \in Seq(AllCommands)
      /\ \A i, j \in 1 .. Len(cs) : cs[i].cmd = cs[j].cmd => i = j
  BY CommandsFact DEF KCore, KTypeOK
<1>2. /\ todo \in Seq(AllCommands) /\ done \in Nat
      /\ \A i \in 1 .. Len(todo) : todo[i] = cs[done + i]
  BY DEF KCore, KTypeOK, WrittenInOrder
<1> HIDE DEF cs
<1>3. Len(cs) \in Nat /\ Len(todo) \in Nat \ {0} /\ Head(todo) = todo[1]
  BY <1>1, <1>2
<1>4. Head(todo) = cs[done + 1] /\ done + 1 \in 1 .. Len(cs)
  BY <1>2, <1>3
<1>5. \A i \in 1 .. Len(cs) : cs[i] \in AllCommands
  BY <1>1
<1>6. \A i \in 1 .. done : i \in 1 .. Len(cs) /\ i # done + 1
  BY <1>2, <1>3
<1> QED BY <1>1, <1>2, <1>3, <1>4, <1>5, <1>6 DEF cs

\* A write that the controller executes brings about its command (OFF with the
\* second of its two writes), and leaves what commands of another kind asked for.
LEMMA RequestApplies ==
  ASSUME KCore, pc \in {"write", "fall"}, Request
  PROVE  /\ power' \in BOOLEAN /\ mode' \in {"off", "heat"} /\ rising' \in BOOLEAN
         /\ setpoint' \in [Settings -> Values \cup {NoValue}]
         /\ moving' \in BOOLEAN /\ op' = op
         /\ \A c \in AllCommands : c.cmd # Head(todo).cmd /\ Applied(c) => Applied(c)'
         /\ Head(todo) = Power(FALSE) /\ pc = "write" => rising'
         /\ \A c \in AllCommands :
              c = Head(todo) /\ ~ignored /\ (pc = "write" => c # Power(FALSE)) => Applied(c)'
<1>1. todo # <<>> /\ pc # "idle"
  BY DEF KCore, EdgeBeforeFall
<1>2. Head(todo) \in AllCommands
  BY <1>1, NextCommand
<1> DEFINE h == Head(todo)
<1> USE DEF KCore, KTypeOK
<1>3. CASE pc = "fall"
  <2>1. WritePower(0) /\ h = Power(FALSE) /\ (~ignored => rising)
    BY <1>3 DEF Request, EdgeBeforeFall
  <2>2. h.cmd = "power" /\ h.on = FALSE
    BY <2>1 DEF Power
  <2>3. /\ power' \in BOOLEAN /\ rising' \in BOOLEAN /\ moving' \in BOOLEAN
        /\ ~ignored => power' = FALSE
        /\ UNCHANGED <<mode, setpoint, op>>
    <3>1. /\ power' = (IF rising THEN FALSE ELSE power) /\ rising' = (0 = 1)
          /\ moving' = (moving \/ power' # power) /\ UNCHANGED <<mode, setpoint, op>>
      BY <2>1 DEF WritePower
    <3>2. power' \in BOOLEAN /\ (rising => power' = FALSE)
      BY <3>1
    <3> QED BY <2>1, <3>1, <3>2
  <2> QED BY <1>3, <2>2, <2>3 DEF Applied
<1>4. CASE pc = "write" /\ h.cmd = "power"
  <2>1. WritePower(1)
    BY <1>4 DEF Request
  <2>2. power' = TRUE /\ rising' = TRUE /\ moving' \in BOOLEAN /\ UNCHANGED <<mode, setpoint, op>>
    BY <2>1 DEF WritePower
  <2>3. h # Power(FALSE) => h.on = TRUE
    BY <1>2, <1>4 DEF AllCommands, Power
  <2> QED BY <1>4, <2>2, <2>3 DEF Applied
<1>5. CASE pc = "write" /\ h.cmd = "mode"
  <2>1. WriteMode(h.to) /\ h.to \in {"off", "heat"} /\ h # Power(FALSE)
    BY <1>2, <1>5 DEF Request, AllCommands, Power
  <2> QED BY <1>5, <2>1 DEF Applied, WriteMode
<1>6. CASE pc = "write" /\ h.cmd = "set"
  <2>1. WriteSet(h.reg, h.to) /\ h.reg \in Settings /\ h.to \in Values /\ h # Power(FALSE)
    BY <1>2, <1>6 DEF Request, AllCommands, Power
  <2> QED BY <1>6, <2>1 DEF Applied, WriteSet
<1>7. h.cmd \in {"power", "mode", "set"}
  BY <1>2 DEF AllCommands
<1> QED BY <1>3, <1>4, <1>5, <1>6, <1>7

-----------------------------------------------------------------------------
(* The steps *)

\* The start.
LEMMA KInitInv == KInit => KCore
<1> SUFFICES ASSUME KInit PROVE KCore
  OBVIOUS
<1>1. KTypeOK
  <2>1. queue \in Seq(Messages) /\ Len(queue) <= MaxQueue /\ todo \in Seq(AllCommands)
    BY MaxQueueAssumption DEF KInit
  <2>2. msg \in Messages
    BY DEF KInit, Messages
  <2>3. before \in [power : BOOLEAN, mode : {"off", "heat"}]
    BY DEF KInit
  <2>4. setpoint \in [Settings -> Values \cup {NoValue}]
    BY DEF KInit
  <2>5. rising \in BOOLEAN /\ moving \in BOOLEAN /\ ignored \in BOOLEAN
    BY Zenon DEF KInit
  <2> QED BY <2>1, <2>2, <2>3, <2>4, <2>5 DEF KInit, KTypeOK, Phases
<1> QED BY <1>1 DEF KInit, KCore, WrittenInOrder, EdgeBeforeFall, AllWritten

\* A step that leaves alone the handler and the registers that it writes.
LEMMA ElsewhereInv ==
  ASSUME KCore, UNCHANGED <<msg, todo, pc, outcome, power, mode, setpoint, rising, ignored>>
  PROVE  WrittenInOrder' /\ EdgeBeforeFall' /\ AllWritten'
BY DEF KCore, WrittenInOrder, EdgeBeforeFall, AllWritten, Applied

LEMMA ArriveInv == ASSUME KCore, NEW m \in Messages, Arrive(m) PROVE KCore'
<1>1. KTypeOK'
  BY MaxQueueAssumption DEF KCore, KTypeOK, Arrive, svars, dvars
<1> QED BY <1>1, ElsewhereInv DEF KCore, Arrive, svars, dvars

\* A message begins with all of its commands to do.
LEMMA HandleInv == ASSUME KCore, Handle PROVE KCore'
<1>1. Head(queue) \in Messages /\ Tail(queue) \in Seq(Messages) /\ Len(Tail(queue)) <= MaxQueue
  BY MaxQueueAssumption DEF KCore, KTypeOK, Handle
<1>2. Commands(Head(queue)) \in Seq(AllCommands)
  BY <1>1, CommandsFact
<1>3. KTypeOK'
  BY <1>1, <1>2 DEF KCore, KTypeOK, Handle, svars, dvars
<1>4. WrittenInOrder'
  <2>1. todo' = Commands(msg') /\ outcome' = "none" /\ Len(todo') \in Nat
    BY <1>2 DEF Handle
  <2> QED BY <2>1 DEF WrittenInOrder
<1> QED BY <1>3, <1>4 DEF KCore, EdgeBeforeFall, AllWritten, Handle

\* The handler's end: what Return leaves to prove is AllWritten for "ok".
LEMMA ReturnInv ==
  ASSUME KCore, NEW o \in {"none", "ok", "rejected", "error"}, Return(o)
  PROVE  /\ <<>> \in Seq(AllCommands)
         /\ WrittenInOrder' /\ EdgeBeforeFall' /\ (o # "ok" => AllWritten')
BY DEF Return, WrittenInOrder, EdgeBeforeFall, AllWritten

LEMMA HandlerDoneInv == ASSUME KCore, HandlerDone PROVE KCore'
<1>1. KTypeOK'
  BY ReturnInv DEF KCore, KTypeOK, HandlerDone, Return, svars, dvars
<1>2. AllWritten'
  <2>1. ~ignored => \A i \in 1 .. Len(Commands(msg)) : Applied(Commands(msg)[i])
    <3>1. Len(todo) = 0 /\ Len(Commands(msg)) \in Nat
      BY CommandsFact DEF HandlerDone, KCore, KTypeOK
    <3> QED BY <3>1 DEF HandlerDone, KCore, WrittenInOrder
  <2> QED BY <2>1 DEF HandlerDone, Return, AllWritten, Applied, dvars
<1> QED BY <1>1, <1>2, ReturnInv DEF KCore, HandlerDone

LEMMA GuardPassesInv == ASSUME KCore, GuardPasses PROVE KCore'
BY DEF KCore, KTypeOK, WrittenInOrder, EdgeBeforeFall, AllWritten, Applied, GuardPasses, svars, dvars

LEMMA GuardRejectsInv == ASSUME KCore, GuardRejects PROVE KCore'
<1>1. KTypeOK'
  BY ReturnInv DEF KCore, KTypeOK, GuardRejects, Return, svars, dvars
<1> QED BY <1>1, ReturnInv DEF KCore, GuardRejects

LEMMA PauseOverInv == ASSUME KCore, PauseOver PROVE KCore'
BY DEF KCore, KTypeOK, WrittenInOrder, EdgeBeforeFall, AllWritten, Applied, PauseOver, svars, dvars

LEMMA PauseCancelledInv == ASSUME KCore, PauseCancelled PROVE KCore'
<1>1. KTypeOK'
  BY ReturnInv DEF KCore, KTypeOK, PauseCancelled, Return, svars, dvars
<1> QED BY <1>1, ReturnInv DEF KCore, PauseCancelled

\* The polls and the controller's own transitions.
LEMMA EnvironmentInv ==
  ASSUME KCore, HotRead \/ HotMerge \/ HotFails \/ TransitionBegins \/ TransitionEnds
  PROVE  KCore'
<1> USE DEF KCore, KTypeOK, Phases, hvars, svars, dvars
<1>1. KTypeOK'
  <2>1. CASE HotRead
    BY <2>1 DEF HotRead
  <2>2. CASE HotMerge
    BY <2>2 DEF HotMerge
  <2>3. CASE HotFails
    BY <2>3 DEF HotFails
  <2>4. CASE TransitionBegins
    BY <2>4 DEF TransitionBegins
  <2>5. CASE TransitionEnds
    <3>1. moving' \in BOOLEAN /\ op' \in {"idle", "transition"}
      BY <2>5 DEF TransitionEnds
    <3> QED BY <2>5, <3>1 DEF TransitionEnds
  <2> QED BY <2>1, <2>2, <2>3, <2>4, <2>5
<1>2. UNCHANGED <<msg, todo, pc, outcome, power, mode, setpoint, rising, ignored>>
  BY DEF HotRead, HotMerge, HotFails, TransitionBegins, TransitionEnds, hvars, svars, dvars
<1> QED BY <1>1, <1>2, ElsewhereInv DEF KCore

\* A register write that is acknowledged: the commands before it keep their effect
\* (RequestApplies), and its own is added when it was the last write of its command.
LEMMA WriteOkInv == ASSUME KCore, WriteOk PROVE KCore'
<1> DEFINE first == pc = "write" /\ Head(todo) = Power(FALSE)
<1>1. todo # <<>> /\ pc \in {"write", "fall"} /\ outcome = "none"
  BY DEF KCore, EdgeBeforeFall, WrittenInOrder, WriteOk
<1>2. PICK cs, done : cs = Commands(msg) /\ done = Len(cs) - Len(todo)
  OBVIOUS
<1>3. /\ Len(cs) \in Nat /\ Len(todo) \in Nat \ {0}
      /\ done \in Nat /\ done + 1 \in 1 .. Len(cs)
      /\ Head(todo) = cs[done + 1] /\ Head(todo) \in AllCommands
      /\ \A i \in 1 .. done : cs[i] \in AllCommands /\ cs[i].cmd # Head(todo).cmd
  BY <1>1, <1>2, NextCommand
<1>4. /\ todo \in Seq(AllCommands)
      /\ \A i \in 1 .. Len(todo) : todo[i] = cs[done + i]
      /\ ~ignored => \A i \in 1 .. done : Applied(cs[i])
  BY <1>1, <1>2 DEF KCore, KTypeOK, WrittenInOrder
<1>5. \/ op = "transition" /\ ignored' = TRUE /\ UNCHANGED dvars
      \/ Request /\ ignored' = ignored
  BY DEF WriteOk, Executed
<1>6. UNCHANGED <<queue, msg, outcome, svars, before>>
  BY DEF WriteOk
<1>7. \/ first /\ pc' = "pause" /\ todo' = todo
      \/ ~first /\ pc' = "apply" /\ todo' = Tail(todo)
  BY DEF WriteOk
<1>8. /\ Tail(todo) \in Seq(AllCommands) /\ Len(Tail(todo)) = Len(todo) - 1
      /\ \A i \in 1 .. Len(Tail(todo)) : Tail(todo)[i] = todo[i + 1]
  BY <1>1, <1>4, HeadTailProperties
<1> HIDE DEF first
<1>9. KTypeOK'
  <2>1. todo' \in Seq(AllCommands) /\ pc' \in {"pause", "apply"}
    BY <1>4, <1>7, <1>8
  <2>2. /\ power' \in BOOLEAN /\ mode' \in {"off", "heat"} /\ rising' \in BOOLEAN
        /\ setpoint' \in [Settings -> Values \cup {NoValue}]
        /\ moving' \in BOOLEAN /\ op' = op /\ ignored' \in BOOLEAN
    BY <1>1, <1>5, RequestApplies DEF KCore, KTypeOK, dvars
  <2> QED BY <1>6, <2>1, <2>2 DEF KCore, KTypeOK, svars
<1>10. ~ignored' => /\ \A i \in 1 .. done : Applied(cs[i])'
                    /\ first => rising'
                    /\ ~first => Applied(cs[done + 1])'
  <2> SUFFICES ASSUME ~ignored'
               PROVE  /\ \A i \in 1 .. done : Applied(cs[i])'
                      /\ first => rising'
                      /\ ~first => Applied(cs[done + 1])'
    OBVIOUS
  <2>1. Request /\ ~ignored
    BY <1>5
  <2>2. \A i \in 1 .. done : Applied(cs[i])'
    BY <1>1, <1>3, <1>4, <2>1, RequestApplies
  <2>3. first => rising'
    BY <1>1, <2>1, RequestApplies DEF first
  <2>4. ~first => Applied(cs[done + 1])'
    BY <1>1, <1>3, <2>1, RequestApplies DEF first
  <2> QED BY <2>2, <2>3, <2>4
<1>11. WrittenInOrder'
  <2>1. CASE first
    <3>1. todo' = todo
      BY <1>7, <2>1
    <3> QED BY <1>1, <1>2, <1>3, <1>4, <1>6, <1>10, <3>1 DEF WrittenInOrder
  <2>2. CASE ~first
    <3>1. /\ Len(todo') \in Nat /\ Len(cs) - Len(todo') = done + 1
          /\ \A i \in 1 .. Len(todo') : todo'[i] = cs[(done + 1) + i]
      <4>1. todo' = Tail(todo)
        BY <1>7, <2>2
      <4>2. ASSUME NEW i \in 1 .. Len(todo')
            PROVE  i + 1 \in 1 .. Len(todo) /\ done + (i + 1) = (done + 1) + i
        BY <1>3, <1>8, <4>1
      <4>3. Len(todo') \in Nat /\ Len(cs) - Len(todo') = done + 1
        BY <1>2, <1>3, <1>8, <4>1
      <4> QED BY <1>4, <1>8, <4>1, <4>2, <4>3
    <3>2. ~ignored' => \A i \in 1 .. (done + 1) : Applied(cs[i])'
      BY <1>3, <1>10, <2>2
    <3>3. Commands(msg') = cs /\ outcome' = "none" /\ done + 1 \in Nat
      BY <1>1, <1>2, <1>3, <1>6
    <3> QED BY <3>1, <3>2, <3>3 DEF WrittenInOrder
  <2> QED BY <2>1, <2>2
<1>12. EdgeBeforeFall'
  BY <1>1, <1>7, <1>10 DEF EdgeBeforeFall, first
<1>13. AllWritten'
  BY <1>1, <1>6 DEF AllWritten
<1> QED BY <1>9, <1>11, <1>12, <1>13 DEF KCore

\* A register write that fails, executed or not: the handler returns the error.
LEMMA WriteFailsInv == ASSUME KCore, WriteFails PROVE KCore'
<1>1. Return("error") /\ UNCHANGED <<svars, before>> /\ pc \in {"write", "fall"}
  BY DEF WriteFails
<1>2. /\ power' \in BOOLEAN /\ mode' \in {"off", "heat"} /\ rising' \in BOOLEAN
      /\ setpoint' \in [Settings -> Values \cup {NoValue}]
      /\ moving' \in BOOLEAN /\ op' = op /\ ignored' \in BOOLEAN
  <2>1. Request \/ UNCHANGED dvars
    BY DEF WriteFails, Executed
  <2>2. ignored' \in BOOLEAN
    BY DEF WriteFails, Executed, KCore, KTypeOK
  <2> QED BY <1>1, <2>1, <2>2, RequestApplies DEF KCore, KTypeOK, dvars
<1>3. KTypeOK'
  BY <1>1, <1>2, ReturnInv DEF KCore, KTypeOK, Return, svars
<1> QED BY <1>1, <1>3, ReturnInv DEF KCore

-----------------------------------------------------------------------------
(* Power before mode *)

\* A message all of whose commands are applied has had the effect asked for.
LEMMA AppliedMatches ==
  ASSUME NEW m \in Messages, Commands(m) # <<>>,
         \A i \in 1 .. Len(Commands(m)) : Applied(Commands(m)[i])
  PROVE  Matches(m)
<1>1. CASE m.topic = "power"
  <2>1. Commands(m) = PowerCommands(m.payload)
    BY <1>1 DEF Commands
  <2>2. Matches(m) <=> power = (m.payload = "ON")
    BY <1>1 DEF Matches
  <2>3. CASE m.payload = "ON"
    <3>1. Commands(m) = <<Power(TRUE)>>
      BY <2>1, <2>3 DEF PowerCommands
    <3>2. power = TRUE
      BY <3>1 DEF Applied, Power
    <3> QED BY <2>2, <2>3, <3>2
  <2>4. CASE m.payload = "OFF"
    <3>1. Commands(m) = <<Power(FALSE)>>
      BY <2>1, <2>4 DEF PowerCommands
    <3>2. power = FALSE
      BY <3>1 DEF Applied, Power
    <3> QED BY <2>2, <2>4, <3>2
  <2>5. m.payload \in {"ON", "OFF"}
    BY <2>1 DEF PowerCommands
  <2> QED BY <2>3, <2>4, <2>5
<1>2. CASE m.topic = "hvac_mode"
  <2>1. Commands(m) = HVACCommands(m.payload)
    BY <1>2 DEF Commands
  <2>2. CASE m.payload = "off"
    <3>1. Commands(m) = <<Power(FALSE)>>
      BY <2>1, <2>2 DEF HVACCommands
    <3>2. power = FALSE
      BY <3>1 DEF Applied, Power
    <3> QED BY <1>2, <2>2, <3>2 DEF Matches
  <2>3. ASSUME NEW x \in {"off", "heat"}, Commands(m) = <<Power(TRUE), Mode(x)>>
        PROVE  power = TRUE /\ mode = x
    <3>1. Len(Commands(m)) = 2 /\ Commands(m)[1] = Power(TRUE) /\ Commands(m)[2] = Mode(x)
      BY <2>3
    <3>2. Applied(Commands(m)[1]) /\ Applied(Commands(m)[2])
      <4>1. 1 \in 1 .. Len(Commands(m)) /\ 2 \in 1 .. Len(Commands(m))
        BY <3>1
      <4> QED BY <4>1, Zenon
    <3>3. Power(TRUE).cmd = "power" /\ Power(TRUE).on = TRUE /\ Mode(x).cmd = "mode" /\ Mode(x).to = x
      BY DEF Power, Mode
    <3> QED BY <3>1, <3>2, <3>3 DEF Applied
  <2>4. CASE m.payload = "heat"
    <3>1. Commands(m) = <<Power(TRUE), Mode("heat")>>
      BY <2>1, <2>4 DEF HVACCommands
    <3> QED BY <1>2, <2>3, <2>4, <3>1 DEF Matches, HvacTarget
  <2>5. CASE m.payload = "fan_only"
    <3>1. Commands(m) = <<Power(TRUE), Mode("off")>>
      BY <2>1, <2>5 DEF HVACCommands
    <3> QED BY <1>2, <2>3, <2>5, <3>1 DEF Matches, HvacTarget
  <2>6. m.payload \in {"off", "heat", "fan_only"}
    BY <2>1 DEF HVACCommands
  <2> QED BY <2>2, <2>4, <2>5, <2>6
<1>3. CASE m.topic \notin {"power", "hvac_mode"}
  <2>1. Commands(m) = <<Set(m.topic, m.payload)>>
    BY <1>3 DEF Commands, SettingCommands
  <2>2. setpoint[m.topic] = m.payload
    BY <2>1 DEF Applied, Set
  <2> QED BY <1>3, <2>2 DEF Matches
<1> QED BY <1>1, <1>2, <1>3

\* What heat and fan_only are turned into.
LEMMA HvacFact ==
  ASSUME NEW m \in Messages, IsHvacOn(m)
  PROVE  /\ HvacTarget(m.payload) \in {"off", "heat"}
         /\ Commands(m) = <<Power(TRUE), Mode(HvacTarget(m.payload))>>
         /\ Len(Commands(m)) = 2 /\ Commands(m) # <<>>
<1>1. Commands(m) = HVACCommands(m.payload)
  BY DEF IsHvacOn, Commands
<1>2. HvacTarget(m.payload) \in {"off", "heat"}
  BY DEF HvacTarget
<1>3. Commands(m) = <<Power(TRUE), Mode(HvacTarget(m.payload))>>
  <2>1. CASE m.payload = "heat"
    <3>1. Commands(m) = <<Power(TRUE), Mode("heat")>> /\ HvacTarget(m.payload) = "heat"
      BY <1>1, <2>1 DEF HVACCommands, HvacTarget
    <3> QED BY <3>1, Zenon
  <2>2. CASE m.payload = "fan_only"
    <3>1. Commands(m) = <<Power(TRUE), Mode("off")>> /\ HvacTarget(m.payload) = "off"
      BY <1>1, <2>2 DEF HVACCommands, HvacTarget
    <3> QED BY <3>1, Zenon
  <2> QED BY <2>1, <2>2 DEF IsHvacOn
<1>4. Len(Commands(m)) = 2 /\ Commands(m) # <<>>
  BY <1>3
<1> QED BY <1>2, <1>3, <1>4

\* The commands left of heat or fan_only are both, or that for the mode.
LEMMA HvacLeft ==
  ASSUME KCore, IsHvacOn(msg), pc # "idle", todo # <<>>
  PROVE  \/ Len(todo) = 2 /\ Head(todo) = Power(TRUE)
         \/ Len(todo) = 1 /\ Head(todo) = Mode(HvacTarget(msg.payload))
<1> DEFINE x == HvacTarget(msg.payload)
<1>1. Commands(msg) = <<Power(TRUE), Mode(x)>>
  BY HvacFact DEF KCore, KTypeOK
<1>2. Len(Commands(msg)) = 2 /\ Commands(msg)[1] = Power(TRUE) /\ Commands(msg)[2] = Mode(x)
  BY <1>1
<1>3. PICK done \in Nat, n \in Nat \ {0} : /\ done = Len(Commands(msg)) - Len(todo) /\ n = Len(todo)
                                            /\ Head(todo) = Commands(msg)[done + 1]
  BY NextCommand
<1>4. (n = 2 /\ done + 1 = 1) \/ (n = 1 /\ done + 1 = 2)
  BY <1>2, <1>3
<1> QED BY <1>2, <1>3, <1>4, Zenon

\* A write for heat or fan_only that is executed.
LEMMA HvacWrite ==
  ASSUME KCore, IsHvacOn(msg), pc \in {"write", "fall"}, Request
  PROVE  \/ Len(todo) = 2 /\ power' = TRUE /\ mode' = mode
         \/ Len(todo) = 1 /\ power' = power /\ mode' = HvacTarget(msg.payload)
<1> DEFINE x == HvacTarget(msg.payload)
<1>1. \/ Len(todo) = 2 /\ Head(todo) = Power(TRUE)
      \/ Len(todo) = 1 /\ Head(todo) = Mode(x)
  BY HvacLeft DEF KCore, EdgeBeforeFall
<1>2. /\ Power(TRUE).cmd = "power" /\ Power(TRUE) # Power(FALSE)
      /\ Mode(x).cmd = "mode" /\ Mode(x).to = x /\ Mode(x) # Power(FALSE)
  BY DEF Power, Mode
<1>3. pc = "write"
  BY <1>1, <1>2 DEF KCore, EdgeBeforeFall
<1>4. CASE Len(todo) = 2 /\ Head(todo) = Power(TRUE)
  <2>1. WritePower(1)
    BY <1>2, <1>3, <1>4 DEF Request
  <2> QED BY <1>4, <2>1 DEF WritePower
<1>5. CASE Len(todo) = 1 /\ Head(todo) = Mode(x)
  <2>1. WriteMode(x)
    BY <1>2, <1>3, <1>5 DEF Request
  <2> QED BY <1>5, <2>1 DEF WriteMode
<1> QED BY <1>1, <1>4, <1>5

\* The part of KInv about heat and fan_only.
HvacInv == HvacProgress /\ PowerBeforeMode

\* A step of somebody else, or within the handling of one command.
LEMMA HvacElsewhere ==
  ASSUME HvacInv, pc' = pc \/ (pc # "idle" /\ pc' # "idle"),
         UNCHANGED <<msg, todo, power, mode, setpoint, ignored, before>>
  PROVE  HvacInv'
BY DEF HvacInv, HvacProgress, PowerBeforeMode, IsHvacOn, Matches

\* The handler gives up with commands left, and no write in the same step: the mode's
\* is among them.
LEMMA HvacGivesUp ==
  ASSUME KCore, HvacInv, pc # "idle", todo # <<>>, pc' = "idle",
         UNCHANGED <<msg, power, mode, setpoint, ignored, before>>
  PROVE  HvacInv'
<1>1. ASSUME IsHvacOn(msg), ~ignored
      PROVE  mode = before.mode /\ power \in {before.power, TRUE}
  <2>1. Len(todo) = 2 \/ Len(todo) = 1
    BY <1>1, HvacLeft
  <2>2. power \in BOOLEAN
    BY DEF KCore, KTypeOK
  <2> QED BY <1>1, <2>1, <2>2 DEF HvacInv, HvacProgress
<1> QED BY <1>1 DEF HvacInv, HvacProgress, PowerBeforeMode, IsHvacOn

\* A new message: nothing is written yet.
LEMMA HvacHandle == ASSUME KCore, Handle PROVE HvacInv'
<1>1. msg' \in Messages /\ todo' = Commands(msg')
  BY DEF KCore, KTypeOK, Handle
<1>2. ASSUME IsHvacOn(msg') PROVE Len(todo') = 2
  BY <1>1, <1>2, HvacFact
<1>3. before'.power = power' /\ before'.mode = mode' /\ pc' = "apply"
  BY DEF Handle, dvars
<1> QED BY <1>2, <1>3 DEF HvacInv, HvacProgress, PowerBeforeMode, IsHvacOn

\* The end of the list: both are written.
LEMMA HvacDone == ASSUME KCore, HandlerDone PROVE HvacInv'
<1>1. pc' = "idle" /\ UNCHANGED <<msg, power, mode, setpoint, ignored, before>>
  BY DEF HandlerDone, Return, dvars
<1>2. ASSUME IsHvacOn(msg), ~ignored PROVE Matches(msg)
  <2>1. Commands(msg) # <<>> /\ msg \in Messages
    BY <1>2, HvacFact DEF KCore, KTypeOK
  <2>2. Len(todo) = 0 /\ Len(Commands(msg)) \in Nat
    BY <2>1, CommandsFact DEF HandlerDone
  <2>3. \A i \in 1 .. Len(Commands(msg)) : Applied(Commands(msg)[i])
    BY <1>2, <2>2 DEF HandlerDone, KCore, WrittenInOrder
  <2> QED BY <2>1, <2>3, AppliedMatches
<1> QED BY <1>1, <1>2 DEF HvacInv, HvacProgress, PowerBeforeMode, IsHvacOn, Matches

\* A write, acknowledged or not.
LEMMA HvacWritten == ASSUME KCore, HvacInv, WriteOk \/ WriteFails PROVE HvacInv'
<1>1. /\ pc \in {"write", "fall"} /\ todo # <<>> /\ todo \in Seq(AllCommands)
      /\ power \in BOOLEAN /\ msg' = msg /\ before' = before
  BY DEF WriteOk, WriteFails, Return, KCore, KTypeOK, EdgeBeforeFall
<1>2. ~ignored' => ~ignored /\ (Request \/ UNCHANGED dvars)
  BY DEF WriteOk, WriteFails, Executed
<1>3. ASSUME IsHvacOn(msg), ~ignored'
      PROVE  \/ mode' = before.mode /\ power' \in {before.power, TRUE}
             \/ power' /\ mode' = HvacTarget(msg.payload)
  <2>1. /\ Len(todo) = 2 => power = before.power /\ mode = before.mode
        /\ Len(todo) = 1 => power /\ mode = before.mode
        /\ Len(todo) = 2 \/ Len(todo) = 1
    BY <1>1, <1>2, <1>3, HvacLeft DEF HvacInv, HvacProgress
  <2>2. CASE Request
    BY <1>1, <1>3, <2>1, <2>2, HvacWrite
  <2>3. CASE UNCHANGED dvars
    BY <1>1, <2>1, <2>3 DEF dvars
  <2> QED BY <1>2, <1>3, <2>2, <2>3
<1>4. ASSUME IsHvacOn(msg) PROVE Matches(msg)' <=> power' /\ mode' = HvacTarget(msg.payload)
  BY <1>1, <1>4 DEF IsHvacOn, Matches
<1>5. PowerBeforeMode'
  BY <1>1, <1>3, <1>4 DEF PowerBeforeMode, IsHvacOn
<1>6. HvacProgress'
  <2>1. CASE WriteFails
    BY <2>1 DEF WriteFails, Return, HvacProgress
  <2>2. CASE WriteOk
    <3> SUFFICES ASSUME IsHvacOn(msg), ~ignored'
                 PROVE  /\ Len(todo') = 2 => power' = before.power /\ mode' = before.mode
                        /\ Len(todo') = 1 => power' /\ mode' = before.mode
      BY <1>1 DEF HvacProgress, IsHvacOn
    <3>1. \/ Len(todo) = 2 /\ Head(todo) = Power(TRUE) /\ power = before.power /\ mode = before.mode
          \/ Len(todo) = 1 /\ Head(todo) = Mode(HvacTarget(msg.payload))
      BY <1>1, <1>2, HvacLeft DEF HvacInv, HvacProgress
    <3>2. Head(todo) # Power(FALSE)
      BY <3>1 DEF Power, Mode
    <3>3. Len(todo') = Len(todo) - 1
      <4>1. todo' = Tail(todo)
        BY <2>2, <3>2 DEF WriteOk
      <4> QED BY <1>1, <4>1, HeadTailProperties
    <3>4. Request
      BY <2>2 DEF WriteOk, Executed
    <3>5. \/ Len(todo) = 2 /\ power' = TRUE /\ mode' = mode
          \/ Len(todo) = 1
      BY <1>1, <3>4, HvacWrite
    <3>6. CASE Len(todo) = 2
      BY <3>1, <3>3, <3>5, <3>6
    <3>7. CASE Len(todo) = 1
      BY <3>3, <3>7
    <3> QED BY <3>5, <3>6, <3>7
  <2> QED BY <2>1, <2>2
<1> QED BY <1>5, <1>6 DEF HvacInv

-----------------------------------------------------------------------------
(* The theorems *)

\* In every behaviour of subscriber and ApplyCommand the handler writes the
\* commands of its message in order and completely before it reports success.
THEOREM KInvariant == KSpec => []KInv
<1>1. KInit => KInv
  BY KInitInv DEF KInit, KInv, HvacProgress, PowerBeforeMode, IsHvacOn
<1>2. KInv /\ [KNext]_kvars => KInv'
  <2> SUFFICES ASSUME KCore, HvacInv, [KNext]_kvars PROVE KCore' /\ HvacInv'
    BY DEF KInv, HvacInv
  <2> USE DEF hvars, svars, dvars
  <2>1. CASE \E m \in Messages : Arrive(m)
    BY <2>1, ArriveInv, HvacElsewhere DEF Arrive
  <2>2. CASE Handle
    BY <2>2, HandleInv, HvacHandle
  <2>3. CASE HandlerDone
    BY <2>3, HandlerDoneInv, HvacDone
  <2>4. CASE GuardPasses
    BY <2>4, GuardPassesInv, HvacElsewhere DEF GuardPasses
  <2>5. CASE GuardRejects
    BY <2>5, GuardRejectsInv, HvacGivesUp DEF GuardRejects, Return
  <2>6. CASE WriteOk
    BY <2>6, WriteOkInv, HvacWritten
  <2>7. CASE WriteFails
    BY <2>7, WriteFailsInv, HvacWritten
  <2>8. CASE PauseOver
    BY <2>8, PauseOverInv, HvacElsewhere DEF PauseOver
  <2>9. CASE PauseCancelled
    BY <2>9, PauseCancelledInv, HvacGivesUp DEF PauseCancelled, Return, KCore, EdgeBeforeFall
  <2>10. CASE HotRead \/ HotMerge \/ HotFails \/ TransitionBegins \/ TransitionEnds
    <3>1. UNCHANGED <<msg, todo, pc, power, mode, setpoint, ignored, before>>
      BY <2>10 DEF HotRead, HotMerge, HotFails, TransitionBegins, TransitionEnds
    <3> QED BY <2>10, <3>1, EnvironmentInv, HvacElsewhere
  <2>11. CASE UNCHANGED kvars
    <3>1. UNCHANGED <<msg, todo, pc, outcome, power, mode, setpoint, rising, ignored, before>>
      BY <2>11 DEF kvars
    <3>2. KTypeOK'
      BY <2>11 DEF KCore, KTypeOK, kvars
    <3> QED BY <3>1, <3>2, ElsewhereInv, HvacElsewhere DEF KCore
  <2> QED BY <2>1, <2>2, <2>3, <2>4, <2>5, <2>6, <2>7, <2>8, <2>9, <2>10, <2>11
          DEF KNext, HandlerStep
<1> QED BY <1>1, <1>2, PTL DEF KSpec

\* The two writes of OFF, the power and mode of heat and fan_only and the single
\* write of everything else have reached the controller when the handler reports
\* success, whatever polls, transitions and failing writes happened in between.
THEOREM OkMeansDoneHolds == KSpec => []OkMeansDone
<1>1. KInv => OkMeansDone
  BY AppliedMatches DEF KInv, KCore, KTypeOK, AllWritten, OkMeansDone
<1> QED BY <1>1, KInvariant, PTL

\* handleHVACMode's order: whatever fails, heat and fan_only never leave a new mode
\* without the power switched on for it.
THEOREM PowerBeforeModeHolds == KSpec => []PowerBeforeMode
<1>1. KInv => PowerBeforeMode
  BY DEF KInv
<1> QED BY <1>1, KInvariant, PTL
=============================================================================
