--------------------------- MODULE LifecycleProofs --------------------------
(* Proofs about Lifecycle: start-up does not panic, and shutdown is quiet,  *)
(* for any environment, any tiers and any number of discovery configs.      *)
EXTENDS Lifecycle, TLAPS

-----------------------------------------------------------------------------
(* Configuration *)

\* A string variable never loads as "": its default is not empty.
LEMMA PrefixLoads ==
  ASSUME NEW env \in [Vars -> Contents],
         NEW v \in {"HA_DISCOVERY_PREFIX", "HA_DEVICE_PREFIX"}
  PROVE  v \in Vars /\ Value(env, v) # Empty
<1>1. /\ v \in DOMAIN StringDefaults /\ StringDefaults[v] = Text
      /\ v \notin DOMAIN ByteDefaults
      /\ v \notin DOMAIN FloatDefaults
      /\ v \notin DOMAIN NumberDefaults
  BY DEF NumberDefaults, StringDefaults, ByteDefaults, FloatDefaults
<1>2. Default(v) = Text
  BY <1>1 DEF Default
<1> QED BY <1>1, <1>2, ContentsAssumption DEF Value, Vars

\* An interval that Load lets through is positive.
LEMMA IntervalLoads ==
  ASSUME NEW env \in [Vars -> Contents], LoadOk(env),
         NEW v \in {"POLL_HOT_INTERVAL", "POLL_MEDIUM_INTERVAL", "POLL_SLOW_INTERVAL"}
  PROVE  v \in Vars /\ ~(Loaded(env)[v] <= 0)
<1>1. /\ v \in DOMAIN NumberDefaults
      /\ v \notin {"MODBUS_PORT", "HTTP_PORT", "MODBUS_GUARD_INTERVAL"}
      /\ v \notin DOMAIN StringDefaults
      /\ v \notin DOMAIN ByteDefaults
      /\ v \notin DOMAIN FloatDefaults
      /\ NumberDefaults[v] \in Int
  BY DEF NumberDefaults, StringDefaults, ByteDefaults, FloatDefaults
<1>2. v \in Vars
  BY <1>1 DEF Vars
<1>3. Default(v) \in Int
  BY <1>1 DEF Default
<1>4. Value(env, v) \notin {Empty, Text, NaN}
  BY <1>1, <1>2 DEF LoadOk, Parses
<1>5. Value(env, v) \in Int
  BY <1>2, <1>3, <1>4 DEF Value, Contents
<1>6. Loaded(env)[v] = Value(env, v)
  BY <1>2 DEF Loaded
<1>7. Loaded(env)[v] > 0
  <2>1. Validate(Loaded(env))
    BY DEF LoadOk
  <2>2. DurationsPositive(Loaded(env))
    BY <2>1 DEF Validate
  <2> QED BY <1>1, <2>2 DEF DurationsPositive
<1> QED BY <1>2, <1>5, <1>6, <1>7

\* What Load accepts, the constructors accept (NewTopicBuilder, NewPoller).
LEMMA LoadedIsBuildable ==
  ASSUME NEW env \in [Vars -> Contents], LoadOk(env)
  PROVE  ~NewPanics(Loaded(env))
<1>1. \A v \in {"HA_DISCOVERY_PREFIX", "HA_DEVICE_PREFIX"} : Loaded(env)[v] # Empty
  BY PrefixLoads DEF Loaded
<1>2. \A v \in {"POLL_HOT_INTERVAL", "POLL_MEDIUM_INTERVAL", "POLL_SLOW_INTERVAL"} :
        ~(Loaded(env)[v] <= 0)
  BY IntervalLoads
<1> QED BY <1>1, <1>2 DEF NewPanics

-----------------------------------------------------------------------------
(* The inductive invariant *)

\* The process starts in the invariant.
LEMMA InitInv == Init => LifeInv
<1> SUFFICES ASSUME Init PROVE LifeInv
  OBVIOUS
<1>1. TypeOK
  <2>1. pos \in 0 .. NumConfigs
    BY NumConfigsAssumption DEF Init
  <2>2. seen \in SUBSET Tiers
    BY DEF Init
  <2> QED BY <2>1, <2>2 DEF Init, TypeOK
<1>2. WaitsInv /\ CauseInv /\ BootInv /\ LabelInv /\ NoPanic
  BY DEF Init, WaitsInv, CauseInv, BootInv, LabelInv, NoPanic, Leaving
<1> QED BY <1>1, <1>2 DEF LifeInv

\* Start-up: main.go and the steps of Run before Started.
LEMMA BootStep ==
  ASSUME LifeInv, Boot \/ Signal \/ ModbusUp \/ MqttSession \/ MqttUp \/ BootCancelled
                  \/ Discovered \/ SubscribeFails
  PROVE  LifeInv'
<1> USE DEF LifeInv, TypeOK, NoPanic, WaitsInv, CauseInv, BootInv, LabelInv, PollerDone,
            Leaving, Ends, Running, Goto, bootvars, tiervars, pubvars
<1>1. CASE Boot
  <2>1. PICK env \in Environments :
          main' = IF ~LoadOk(env) THEN "exit1"
                  ELSE IF NewPanics(Loaded(env)) THEN "panic" ELSE "modbus"
    BY <1>1 DEF Boot
  <2>2. main' \in {"exit1", "modbus"}
    BY <2>1, LoadedIsBuildable, EnvironmentsAssumption
  <2> QED BY <1>1, <2>2 DEF Boot
<1>2. CASE Signal
  BY <1>2 DEF Signal
<1>3. CASE ModbusUp
  BY <1>3 DEF ModbusUp
<1>4. CASE MqttSession
  BY <1>4 DEF MqttSession
<1>5. CASE MqttUp
  BY <1>5, NumConfigsAssumption DEF MqttUp
<1>6. CASE BootCancelled
  BY <1>6 DEF BootCancelled
<1>7. CASE Discovered
  BY <1>7 DEF Discovered
<1>8. CASE SubscribeFails
  BY <1>8 DEF SubscribeFails
<1> QED BY <1>1, <1>2, <1>3, <1>4, <1>5, <1>6, <1>7, <1>8

\* Serving, and the steps of shutdown.
LEMMA ServeStep ==
  ASSUME LifeInv, Started \/ HttpFails \/ ServeCancelled \/ ServeHttpError \/ ShutdownStep
  PROVE  LifeInv'
<1> USE DEF LifeInv, TypeOK, NoPanic, WaitsInv, CauseInv, BootInv, LabelInv, PollerDone,
            Leaving, Ends, Running, Goto, bootvars, tiervars, pubvars
<1>1. CASE Started
  BY <1>1 DEF Started
<1>2. CASE HttpFails
  BY <1>2 DEF HttpFails
<1>3. CASE ServeCancelled
  BY <1>3 DEF ServeCancelled
<1>4. CASE ServeHttpError
  BY <1>4 DEF ServeHttpError
<1>5. CASE Drained
  BY <1>5 DEF Drained
<1>6. CASE PollerStopped
  BY <1>6 DEF PollerStopped
<1>7. CASE PollerTimeout
  BY <1>7 DEF PollerTimeout
<1>8. CASE MgrStopped
  BY <1>8 DEF MgrStopped
<1>9. CASE MgrTimeout
  BY <1>9 DEF MgrTimeout
<1>10. CASE Disconnected
  BY <1>10 DEF Disconnected
<1>11. CASE Closed
  BY <1>11 DEF Closed
<1> QED BY <1>1, <1>2, <1>3, <1>4, <1>5, <1>6, <1>7, <1>8, <1>9, <1>10, <1>11 DEF ShutdownStep

\* The goroutines next to Run: a tier or a manager that has ended stays ended, and
\* a merge only adds to the snapshot.
LEMMA GoroutineStep ==
  ASSUME LifeInv,
         \/ \E t \in Tiers : TierStep(t) \/ TierTick(t) \/ TierEnds(t)
         \/ MgrTick \/ MgrPublished \/ MgrEnds \/ OnConnect \/ OnConnectionLost
  PROVE  LifeInv'
<1> USE DEF LifeInv, TypeOK, NoPanic, WaitsInv, CauseInv, BootInv, LabelInv, PollerDone,
            Leaving, Ends, Running, bootvars, tiervars, pubvars
<1>1. ASSUME NEW t \in Tiers, PollOk(t) PROVE LifeInv'
  BY <1>1 DEF PollOk, TierTo
<1>2. ASSUME NEW t \in Tiers, PollFails(t) \/ TierPublished(t) PROVE LifeInv'
  BY <1>2 DEF PollFails, TierPublished, TierTo
<1>3. ASSUME NEW t \in Tiers, TierTick(t) \/ TierEnds(t) PROVE LifeInv'
  BY <1>3 DEF TierTick, TierEnds, TierTo
<1>4. CASE MgrTick \/ MgrPublished \/ MgrEnds
  BY <1>4 DEF MgrTick, MgrPublished, MgrEnds, MgrTo
<1>5. CASE OnConnect \/ OnConnectionLost
  BY <1>5 DEF OnConnect, OnConnectionLost, MqttTo
<1> QED BY <1>1, <1>2, <1>3, <1>4, <1>5 DEF TierStep

\* Discovery: one config sent keeps the labels' invariant.
LEMMA SendFacts ==
  ASSUME LifeInv, SendConfig, UNCHANGED <<fw, seen>>
  PROVE  /\ pos' \in 0 .. NumConfigs
         /\ label' \in [Configs -> {"none", "unknown", "live"}]
         /\ LabelInv'
<1>0. TypeOK /\ LabelInv
  BY DEF LifeInv
<1>1. pos' \in 0 .. NumConfigs /\ pos \in Configs /\ (pos' # 0 => pos # 0)
  BY <1>0, NumConfigsAssumption DEF SendConfig, TypeOK, Configs
<1>2. label' \in [Configs -> {"none", "unknown", "live"}]
  BY <1>0, <1>1 DEF SendConfig, TypeOK
<1>3. LabelInv'
  BY <1>0, <1>1 DEF SendConfig, TypeOK, LabelInv
<1> QED BY <1>1, <1>2, <1>3

\* The two publications of the discovery configs.
LEMMA PublishStep ==
  ASSUME LifeInv, BootSends \/ Birth \/ BirthStep
  PROVE  LifeInv'
<1> USE DEF LifeInv, TypeOK, NoPanic, WaitsInv, CauseInv, BootInv, PollerDone,
            Leaving, Ends, Running, bootvars, tiervars
<1>1. CASE BootSends
  BY <1>1, SendFacts DEF BootSends
<1>2. CASE Birth
  BY <1>2, NumConfigsAssumption DEF Birth, LabelInv
<1>3. CASE BirthSends
  BY <1>3, SendFacts DEF BirthSends
<1>4. CASE BirthDone
  BY <1>4 DEF BirthDone, LabelInv
<1> QED BY <1>1, <1>2, <1>3, <1>4 DEF BirthStep

\* Every step preserves the invariant.
LEMMA LifeInvStep == ASSUME LifeInv, [Next]_vars PROVE LifeInv'
<1>1. CASE UNCHANGED vars
  BY <1>1 DEF vars, bootvars, tiervars, pubvars, LifeInv, TypeOK, NoPanic, WaitsInv, CauseInv,
              BootInv, LabelInv, PollerDone
<1>2. CASE Next
  BY <1>2, BootStep, ServeStep, GoroutineStep, PublishStep DEF Next, RunStep
<1> QED BY <1>1, <1>2

\* The invariant of the process holds in every reachable state.
THEOREM LifeInvariant == Spec => []LifeInv
<1>1. LifeInv /\ [Next]_vars => LifeInv'
  BY LifeInvStep
<1> QED BY <1>1, InitInv, PTL DEF Spec

-----------------------------------------------------------------------------
(* What it gives *)

\* Only SendConfig changes a label, and where one carries the firmware version the
\* publication under way stamps nothing else.
LEMMA LabelStep ==
  ASSUME LifeInv, [Next]_vars, NEW c \in Configs, label[c] = "live"
  PROVE  label'[c] = "live"
<1>0. TypeOK /\ LabelInv
  BY DEF LifeInv
<1>1. CASE SendConfig
  <2>1. fw = "live" /\ pos \in Configs
    BY <1>0, <1>1, NumConfigsAssumption DEF SendConfig, LabelInv, TypeOK, Configs
  <2> QED BY <1>0, <1>1, <2>1 DEF SendConfig, TypeOK
<1>2. CASE label' = label
  BY <1>2
<1>3. SendConfig \/ label' = label
  <2> USE DEF pubvars
  <2>1. CASE UNCHANGED vars
    BY <2>1 DEF vars
  <2>2. CASE Boot \/ Signal \/ ModbusUp \/ MqttSession \/ RunStep
    BY <2>2 DEF Boot, Signal, ModbusUp, MqttSession, RunStep, MqttUp, BootCancelled, BootSends,
                Discovered, SubscribeFails, Started, ServeCancelled, ServeHttpError
  <2>3. CASE HttpFails \/ ShutdownStep
    BY <2>3 DEF HttpFails, ShutdownStep, Drained, PollerStopped, PollerTimeout, MgrStopped,
                MgrTimeout, Disconnected, Closed
  <2>4. CASE \E t \in Tiers : TierStep(t) \/ TierTick(t) \/ TierEnds(t)
    BY <2>4 DEF TierStep, PollOk, PollFails, TierPublished, TierTick, TierEnds, TierTo
  <2>5. CASE MgrTick \/ MgrPublished \/ MgrEnds \/ OnConnect \/ OnConnectionLost
    BY <2>5 DEF MgrTick, MgrPublished, MgrEnds, MgrTo, OnConnect, OnConnectionLost, MqttTo
  <2>6. CASE Birth \/ BirthStep
    BY <2>6 DEF Birth, BirthStep, BirthSends, BirthDone
  <2> QED BY <2>1, <2>2, <2>3, <2>4, <2>5, <2>6 DEF Next
<1> QED BY <1>1, <1>2, <1>3

\* A config that carries the firmware version never goes back to "unknown": merges
\* of the other tiers leave Snapshot.Firmware alone, and publications do not overlap.
THEOREM LabelNeverForgetsHolds == Spec => LabelNeverForgets
<1>1. LifeInv /\ [Next]_vars
        => [\A c \in Configs : label[c] = "live" => label'[c] = "live"]_vars
  BY LabelStep
<1> QED BY <1>1, LifeInvariant, PTL DEF Spec, LabelNeverForgets

\* No environment whatsoever makes New panic: Load and Validate protect
\* NewTopicBuilder and NewPoller.
THEOREM NoPanicHolds == Spec => []NoPanic
<1>1. LifeInv => NoPanic
  BY DEF LifeInv
<1> QED BY <1>1, LifeInvariant, PTL

\* After shutdown's waits, if none has timed out, tiers and manager are silent.
THEOREM QuietAfterWaitsHolds == Spec => []QuietAfterWaits
<1>1. LifeInv => QuietAfterWaits
  BY DEF LifeInv, WaitsInv, QuietAfterWaits
<1> QED BY <1>1, LifeInvariant, PTL

\* Exit code 0 means that the process was told to stop.
THEOREM ExitTellsCauseHolds == Spec => []ExitTellsCause
<1>1. LifeInv => ExitTellsCause
  BY DEF LifeInv, CauseInv, ExitTellsCause, Leaving
<1> QED BY <1>1, LifeInvariant, PTL
=============================================================================
