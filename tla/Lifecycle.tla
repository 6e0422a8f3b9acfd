------------------------------ MODULE Lifecycle -----------------------------
(***************************************************************************)
(* The process from main to exit: main.go, App.Run and App.shutdown        *)
(* (internal/app/app.go) with the goroutines they start and wait for: the  *)
(* poll tiers (application/service/poller.go), the availability manager,   *)
(* the HTTP server (interface/http/server.go) and paho's callbacks.  The   *)
(* discovery configs (application/usecase/publish_discovery.go), each      *)
(* stamped with the firmware label, are published at boot and whenever     *)
(* Home Assistant comes online.                                            *)
(*                                                                         *)
(* A publish reaches the broker when the client is marked connected, and   *)
(* fails when it is not; what happens in between is in Availability.  The  *)
(* state messages of a tier or a birth are one step here (see StateFlow).  *)
(***************************************************************************)
EXTENDS Config

CONSTANTS Environments,  \* the environments the process may be started in
          Tiers,         \* the tier goroutines
          Slow,          \* the tier that reads the firmware register
          NumConfigs     \* how many configs Builder.Build returns

ASSUME EnvironmentsAssumption == Environments \subseteq [Vars -> Contents]
ASSUME TiersAssumption == Slow \in Tiers
ASSUME NumConfigsAssumption == NumConfigs \in Nat \ {0}

VARIABLES
  main,      \* where main, Run or shutdown is
  ctxDone,   \* the run context is cancelled
  mqtt,      \* Client: not dialled, connectedAtomic false, true, or disconnected
  http,      \* the HTTP server
  runErr,    \* Run's result is an error
  tier,      \* where each tier goroutine is
  seen,      \* the tiers merged into Poller.latest so far
  mgr,       \* the availability manager's goroutine
  birth,     \* the HA online callback: idle, in Publish (states to follow or not), or in Apply
  pos,       \* the config that PublishDiscovery.Publish sends next, 0 if it is not running
  fw,        \* the firmware label of that call
  label,     \* external: the label of each retained config, as far as this run has set it
  timedOut   \* history: one of shutdown's waits has timed out

bootvars == <<main, ctxDone, runErr, timedOut>>
tiervars == <<tier, seen>>
pubvars == <<birth, pos, fw, label>>
vars == <<bootvars, mqtt, http, tiervars, mgr, pubvars>>

Configs == 1 .. NumConfigs
Ends == {"exit0", "exit1", "panic"}
Leaving == {"drain", "waitPoller", "waitMgr", "disconnect", "close"}

TypeOK ==
  /\ main \in {"load", "modbus", "mqtt", "discover", "subscribe", "serve"} \cup Leaving \cup Ends
  /\ ctxDone \in BOOLEAN
  /\ mqtt \in {"none", "down", "up", "closed"}
  /\ http \in {"none", "serving", "failed", "stopped"}
  /\ runErr \in BOOLEAN
  /\ tier \in [Tiers -> {"none", "poll", "publish", "wait", "done"}]
  /\ seen \in SUBSET Tiers
  /\ mgr \in {"none", "idle", "callback", "done"}
  /\ birth \in {"idle", "configs", "configsOnly", "states"}
  /\ pos \in 0 .. NumConfigs
  /\ fw \in {"unknown", "live"}
  /\ label \in [Configs -> {"none", "unknown", "live"}]
  /\ timedOut \in BOOLEAN

Init == /\ main = "load" /\ ctxDone = FALSE /\ runErr = FALSE /\ timedOut = FALSE
        /\ mqtt = "none" /\ http = "none" /\ mgr = "none"
        /\ tier = [t \in Tiers |-> "none"] /\ seen = {}
        /\ birth = "idle" /\ pos = 0 /\ fw = "unknown"
        /\ label = [c \in Configs |-> "none"]

Running == main \notin Ends
Goto(from, to) == main = from /\ main' = to

-----------------------------------------------------------------------------
(* main and New *)

Boot == /\ main = "load"
        /\ \E env \in Environments :
             main' = IF ~LoadOk(env) THEN "exit1"
                     ELSE IF NewPanics(Loaded(env)) THEN "panic" ELSE "modbus"
        /\ UNCHANGED <<ctxDone, runErr, timedOut, mqtt, http, tiervars, mgr, pubvars>>

\* SIGINT or SIGTERM, once NotifyContext is in place.
Signal == /\ Running /\ main # "load" /\ ~ctxDone
          /\ ctxDone' = TRUE
          /\ UNCHANGED <<main, runErr, timedOut, mqtt, http, tiervars, mgr, pubvars>>

-----------------------------------------------------------------------------
(* Run *)

\* supervisor.Start returns once a dial has succeeded ...
ModbusUp == /\ Goto("modbus", "mqtt")
            /\ UNCHANGED <<ctxDone, runErr, timedOut, mqtt, http, tiervars, mgr, pubvars>>

\* ... mqttClient.Connect dials, and returns when its token completes, which may be
\* before or after paho's goroutine has run onConnect.
MqttSession == /\ main = "mqtt" /\ mqtt = "none"
               /\ mqtt' = "down"
               /\ UNCHANGED <<bootvars, http, tiervars, mgr, pubvars>>

MqttUp == /\ mqtt # "none"
          /\ Goto("mqtt", "discover")
          /\ pos' = 1 /\ fw' = "unknown"
          /\ UNCHANGED <<ctxDone, runErr, timedOut, mqtt, http, tiervars, mgr, birth, label>>

\* The initial connects end with an error when the context is cancelled.
BootCancelled == /\ ctxDone
                 /\ \E s \in {"modbus", "mqtt"} : Goto(s, "exit1")
                 /\ UNCHANGED <<ctxDone, runErr, timedOut, mqtt, http, tiervars, mgr, pubvars>>

\* Publish sends one config, or is refused; either way it goes on with the next.
SendConfig == /\ pos # 0
              /\ label' = IF mqtt = "up" THEN [label EXCEPT ![pos] = fw] ELSE label
              /\ pos' = IF pos = NumConfigs THEN 0 ELSE pos + 1

BootSends == /\ main = "discover" /\ SendConfig
             /\ UNCHANGED <<bootvars, mqtt, http, tiervars, mgr, birth, fw>>

\* The result of the boot publication is only logged.
Discovered == /\ pos = 0
              /\ Goto("discover", "subscribe")
              /\ UNCHANGED <<ctxDone, runErr, timedOut, mqtt, http, tiervars, mgr, pubvars>>

\* cmdSub.Start and haStatus.Start: a subscription that is sent may fail.
SubscribeFails == /\ mqtt = "up"
                  /\ Goto("subscribe", "exit1")
                  /\ UNCHANGED <<ctxDone, runErr, timedOut, mqtt, http, tiervars, mgr, pubvars>>

\* All are accepted, or stored for onConnect; the goroutines are started.
Started == /\ Goto("subscribe", "serve")
           /\ tier' = [t \in Tiers |-> "poll"]
           /\ mgr' = "idle"
           /\ http' = "serving"
           /\ UNCHANGED <<ctxDone, runErr, timedOut, mqtt, seen, pubvars>>

\* ListenAndServe fails.
HttpFails == /\ Running /\ http = "serving"
             /\ http' = "failed"
             /\ UNCHANGED <<bootvars, mqtt, tiervars, mgr, pubvars>>

\* Run's select; when both are ready, either case may be taken.
ServeCancelled == /\ ctxDone
                  /\ Goto("serve", "drain")
                  /\ UNCHANGED <<ctxDone, runErr, timedOut, mqtt, http, tiervars, mgr, pubvars>>

\* Mutant: the error is logged and not returned.
ServeHttpErrorLost == /\ http = "failed"
                      /\ Goto("serve", "drain")
                      /\ UNCHANGED <<ctxDone, runErr, timedOut, mqtt, http, tiervars, mgr, pubvars>>

ServeHttpError == /\ http = "failed"
                  /\ Goto("serve", "drain")
                  /\ runErr' = TRUE
                  /\ UNCHANGED <<ctxDone, timedOut, mqtt, http, tiervars, mgr, pubvars>>

-----------------------------------------------------------------------------
(* shutdown *)

\* httpServer.Shutdown, which returns at the latest after shutdownGrace.
Drained == /\ Goto("drain", "waitPoller")
           /\ http' = "stopped"
           /\ UNCHANGED <<ctxDone, runErr, timedOut, mqtt, tiervars, mgr, pubvars>>

\* Mutant: the channel is closed by the first tier that ends.
PollerDoneFirst == \E t \in Tiers : tier[t] = "done"

\* Poller.Done: closed once every tier goroutine has ended.
PollerDone == \A t \in Tiers : tier[t] = "done"

PollerStopped == /\ PollerDone
                 /\ Goto("waitPoller", "waitMgr")
                 /\ UNCHANGED <<ctxDone, runErr, timedOut, mqtt, http, tiervars, mgr, pubvars>>

\* Mutant: shutdown waits for the poller as long as it takes.
PollerTimeoutNever == /\ PollerDone
                      /\ Goto("waitPoller", "waitMgr")
                      /\ timedOut' = TRUE
                      /\ UNCHANGED <<ctxDone, runErr, mqtt, http, tiervars, mgr, pubvars>>

PollerTimeout == /\ ~PollerDone
                 /\ Goto("waitPoller", "waitMgr")
                 /\ timedOut' = TRUE
                 /\ UNCHANGED <<ctxDone, runErr, mqtt, http, tiervars, mgr, pubvars>>

MgrStopped == /\ mgr = "done"
              /\ Goto("waitMgr", "disconnect")
              /\ UNCHANGED <<ctxDone, runErr, timedOut, mqtt, http, tiervars, mgr, pubvars>>

MgrTimeout == /\ mgr # "done"
              /\ Goto("waitMgr", "disconnect")
              /\ timedOut' = TRUE
              /\ UNCHANGED <<ctxDone, runErr, mqtt, http, tiervars, mgr, pubvars>>

\* Client.Disconnect does nothing when the client is not connected.
Disconnected == /\ Goto("disconnect", "close")
                /\ mqtt' = IF mqtt = "up" THEN "closed" ELSE mqtt
                /\ UNCHANGED <<ctxDone, runErr, timedOut, http, tiervars, mgr, pubvars>>

\* modbusClient.ForceClose; Run returns, and main exits.
Closed == /\ Goto("close", IF runErr THEN "exit1" ELSE "exit0")
          /\ UNCHANGED <<ctxDone, runErr, timedOut, mqtt, http, tiervars, mgr, pubvars>>

-----------------------------------------------------------------------------
(* The tier goroutines *)

TierTo(t, from, to) == /\ Running /\ tier[t] = from
                       /\ tier' = [tier EXCEPT ![t] = to]
                       /\ UNCHANGED <<bootvars, mqtt, http, mgr, pubvars>>

\* Mutant: the partial snapshot replaces the latest one.
PollOkReplaces(t) == TierTo(t, "poll", "publish") /\ seen' = {t}

\* doPoll merges what the tier has read, then runs the subscriber ...
PollOk(t) == TierTo(t, "poll", "publish") /\ seen' = seen \cup {t}

\* ... or logs the error.
PollFails(t) == TierTo(t, "poll", "wait") /\ UNCHANGED seen

\* The subscriber publishes under a timeout of its own.
TierPublished(t) == TierTo(t, "publish", "wait") /\ UNCHANGED seen

\* runTier's select; when both are ready, either case may be taken.
TierTick(t) == TierTo(t, "wait", "poll") /\ UNCHANGED seen
TierEnds(t) == ctxDone /\ TierTo(t, "wait", "done") /\ UNCHANGED seen

-----------------------------------------------------------------------------
(* The availability manager *)

MgrTo(from, to) == /\ Running /\ mgr = from
                   /\ mgr' = to
                   /\ UNCHANGED <<bootvars, mqtt, http, tiervars, pubvars>>

MgrTick == MgrTo("idle", "callback")
MgrPublished == MgrTo("callback", "idle")
MgrEnds == ctxDone /\ MgrTo("idle", "done")

-----------------------------------------------------------------------------
(* paho's callbacks *)

MqttTo(from, to) == /\ Running /\ mqtt = from
                    /\ mqtt' = to
                    /\ UNCHANGED <<bootvars, http, tiervars, mgr, pubvars>>

OnConnect == MqttTo("down", "up")
OnConnectionLost == MqttTo("up", "down")

\* Mutant: the callback stamps what the boot publication did.
BirthUnknown == /\ main \in {"serve"} \cup Leaving
                /\ mqtt = "up" /\ birth = "idle"
                /\ birth' = IF seen = {} THEN "configsOnly" ELSE "configs"
                /\ pos' = 1 /\ fw' = "unknown"
                /\ UNCHANGED <<bootvars, mqtt, http, tiervars, mgr, label>>

\* Home Assistant comes online: the callback reads the snapshot.  Its firmware is
\* known if the slow tier has been merged; a firmware of 0 is "unknown" too.
Birth == /\ main \in {"serve"} \cup Leaving
         /\ mqtt = "up" /\ birth = "idle"
         /\ birth' = IF seen = {} THEN "configsOnly" ELSE "configs"
         /\ pos' = 1 /\ fw' = IF Slow \in seen THEN "live" ELSE "unknown"
         /\ UNCHANGED <<bootvars, mqtt, http, tiervars, mgr, label>>

BirthSends == /\ Running /\ birth \in {"configs", "configsOnly"} /\ SendConfig
              /\ birth' = IF pos < NumConfigs THEN birth
                          ELSE IF birth = "configs" THEN "states" ELSE "idle"
              /\ UNCHANGED <<bootvars, mqtt, http, tiervars, mgr, fw>>

BirthDone == /\ Running /\ birth = "states"
             /\ birth' = "idle"
             /\ UNCHANGED <<bootvars, mqtt, http, tiervars, mgr, pos, fw, label>>

-----------------------------------------------------------------------------

RunStep == \/ MqttUp \/ BootCancelled \/ BootSends \/ Discovered
           \/ SubscribeFails \/ Started \/ ServeCancelled \/ ServeHttpError

ShutdownStep == \/ Drained \/ PollerStopped \/ PollerTimeout
                \/ MgrStopped \/ MgrTimeout \/ Disconnected \/ Closed

TierStep(t) == PollOk(t) \/ PollFails(t) \/ TierPublished(t)

BirthStep == BirthSends \/ BirthDone

Next == \/ Boot \/ Signal \/ ModbusUp \/ MqttSession \/ RunStep
        \/ HttpFails \/ ShutdownStep
        \/ \E t \in Tiers : TierStep(t) \/ TierTick(t) \/ TierEnds(t)
        \/ MgrTick \/ MgrPublished \/ MgrEnds
        \/ OnConnect \/ OnConnectionLost \/ Birth \/ BirthStep

Spec == Init /\ [][Next]_vars

(* Fairness: the main goroutine and paho's handler run, and every call they  *)
(* make has a timeout.  Nothing is asked of the tiers and the manager, which *)
(* shutdown does not wait for longer than its timeouts, nor of the           *)
(* controller and the broker, which may never answer the first dials.        *)
Fairness == WF_vars(RunStep) /\ WF_vars(ShutdownStep) /\ WF_vars(BirthStep)

FairSpec == Spec /\ Fairness

-----------------------------------------------------------------------------
(* Properties *)

\* No environment makes New panic: what Load lets through, defaults included,
\* satisfies the constructors.
NoPanic == main # "panic"

\* Once shutdown has got past its two waits without a timeout, no tier and no
\* availability callback can publish any more, neither before nor after the
\* "offline" of Disconnect.
QuietAfterWaits ==
  main \in {"disconnect", "close", "exit0"} /\ ~timedOut
    => mgr = "done" /\ \A t \in Tiers : tier[t] = "done"

\* The exit code tells the supervisor of the process what happened: 0 only if the
\* process was told to stop.
ExitTellsCause == main = "exit0" => ctxDone

\* Whatever it is doing, the process ends once it is told to stop or its HTTP
\* server has failed.
ShutdownEnds == (ctxDone \/ http = "failed") ~> ~Running

\* A config that carries the firmware version never goes back to "unknown".
LabelNeverForgets == [][\A c \in Configs : label[c] = "live" => label'[c] = "live"]_vars

\* The inductive invariant behind these: what the first wait has established still
\* holds during the second; shutdown without an error of Run's means a cancelled
\* context; no tier runs before Started; and a config carries the firmware version
\* only if the slow tier has been read, in which case no publication under way still
\* stamps "unknown".
WaitsInv == /\ main \in {"waitMgr", "disconnect", "close", "exit0"} /\ ~timedOut
                 => \A t \in Tiers : tier[t] = "done"
            /\ main \in {"disconnect", "close", "exit0"} /\ ~timedOut => mgr = "done"
CauseInv == /\ main \in Leaving \cup {"exit0"} /\ ~runErr => ctxDone
            /\ main = "exit0" => ~runErr
BootInv == main \in {"load", "modbus", "mqtt", "discover", "subscribe"}
             => seen = {} /\ \A t \in Tiers : tier[t] = "none"
LabelInv == /\ fw = "live" => Slow \in seen
            /\ (\E c \in Configs : label[c] = "live") => Slow \in seen /\ (pos # 0 => fw = "live")
LifeInv == TypeOK /\ NoPanic /\ WaitsInv /\ CauseInv /\ BootInv /\ LabelInv

\* When the slow tier has been read and Home Assistant keeps coming online on a
\* session that lasts, every config ends up with the firmware version, although the
\* boot publication stamps "unknown" and may be refused altogether.
LabelsSettle ==
  <>[](main = "serve" /\ mqtt = "up" /\ Slow \in seen) /\ []<>(birth = "idle") /\ []<>(birth # "idle")
    => <>[](\A c \in Configs : label[c] = "live")

\* app.go: shutdown "cancels the application context (already cancelled if Run is
\* exiting via ctx.Done)" before it waits for the poller and the manager.
ShutdownCancels == main \in {"waitPoller", "waitMgr"} => ctxDone
=============================================================================
