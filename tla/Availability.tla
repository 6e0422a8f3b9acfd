---------------------------- MODULE Availability ----------------------------
(***************************************************************************)
(* The retained availability topic, which tells Home Assistant whether the *)
(* bridge and the controller are alive.  Four parties write it:            *)
(* AvailabilityManager (application/service/availability_manager.go) on    *)
(* staleness transitions, Client.onConnect on every session, and           *)
(* Client.Disconnect on shutdown (infrastructure/mqtt/client.go), and the  *)
(* broker, which publishes the will of a session that ends without a       *)
(* DISCONNECT.  The steps of app.Run and App.shutdown around them          *)
(* (internal/app/app.go) are part of the model.                            *)
(***************************************************************************)
EXTENDS MqttClient

CONSTANTS AvailThreshold,     \* cfg.Polling.AvailabilityThreshold, in some unit of time
          ReadinessThreshold  \* app.go's readinessThreshold, in the same unit

ASSUME ThresholdsAssumption == AvailThreshold \in Nat /\ ReadinessThreshold \in Nat

VARIABLES
  app,        \* where app.Run is; "left" and "dead" are the two ways it ends
  ctxDone,    \* the run context is cancelled
  polled,     \* Snapshot.PolledAt is not zero
  age,        \* the clock minus PolledAt, saturating above both thresholds
  isOffline,  \* AvailabilityManager.isOffline
  mgr,        \* its goroutine: in the select, in a callback, or done
  retained,   \* external: the topic's retained payload
  stored,     \* external: payloads paho keeps to send when it reconnects
  willDue     \* external: the broker is to publish the will

pvars == <<polled, age>>
avars == <<app, ctxDone, polled, age, isOffline, mgr, retained, stored, willDue>>
avvars == <<mvars, avars>>

MaxAge == IF AvailThreshold < ReadinessThreshold THEN ReadinessThreshold ELSE AvailThreshold

AvTypeOK == /\ MTypeOK
            /\ app \in {"boot", "starting", "run", "draining", "stop", "left", "dead"}
            /\ ctxDone \in BOOLEAN
            /\ polled \in BOOLEAN
            /\ age \in 0..(MaxAge + 1)
            /\ isOffline \in BOOLEAN
            /\ mgr \in {"none", "idle", "online", "offline", "done"}
            /\ retained \in {"none", "online", "offline"}
            /\ stored \subseteq {"online", "offline"}
            /\ willDue \in BOOLEAN

(* A topic never used, or left "offline" by an earlier run. *)
AvInit == /\ MInit
          /\ app = "boot"
          /\ ctxDone = FALSE
          /\ polled = FALSE
          /\ age = 0
          /\ isOffline = TRUE
          /\ mgr = "none"
          /\ retained \in {"none", "offline"}
          /\ stored = {}
          /\ willDue = FALSE

Alive == app \notin {"left", "dead"}

-----------------------------------------------------------------------------
(* paho and the broker (external) *)

\* A retained publish: on a live session the broker takes it; between sessions
\* paho drops it (QoS 0) or keeps it for the next session (QoS 1 and 2).
PahoPublish(p) == IF session
                  THEN retained' = p /\ UNCHANGED stored
                  ELSE stored' \in {stored, stored \cup {p}} /\ UNCHANGED retained

WillFires == /\ willDue
             /\ willDue' = FALSE
             /\ retained' = "offline"
             /\ UNCHANGED <<mvars, app, ctxDone, pvars, isOffline, mgr, stored>>

\* A new session.  The broker settles the will of the old one first; paho then
\* sends what it kept, in no particular order.
AvSessionUp(r) == /\ Alive /\ SessionUp(r)
                  /\ app' = IF app = "boot" THEN "starting" ELSE app
                  /\ retained' \in IF stored # {} THEN stored
                                   ELSE {IF willDue THEN "offline" ELSE retained}
                  /\ stored' = {}
                  /\ willDue' = FALSE
                  /\ UNCHANGED <<ctxDone, pvars, isOffline, mgr>>

\* Mutant: Connect sets no will.
AvSessionLostNoWill == /\ Alive /\ SessionLost
                       /\ UNCHANGED avars

\* The will that Connect has set becomes due.
AvSessionLost == /\ Alive /\ SessionLost
                 /\ willDue' = TRUE
                 /\ UNCHANGED <<app, ctxDone, pvars, isOffline, mgr, retained, stored>>

-----------------------------------------------------------------------------
(* Client callbacks *)

\* onConnect publishes "online", whatever the snapshot says.
AvOnConnectOnline(r) == /\ Alive /\ OnConnectOnline(r)
                        /\ PahoPublish("online")
                        /\ UNCHANGED <<app, ctxDone, pvars, isOffline, mgr, willDue>>

\* The other steps of the client leave the topic alone.
AvClientStep == /\ Alive
                /\ \/ OnConnectionLost
                   \/ \E r \in Runs : \/ OnConnectFlag(r) \/ OnConnectCopy(r)
                                      \/ OnConnectDone(r) \/ ResubscribeStep(r)
                   \/ SubscribeStep
                /\ UNCHANGED avars

-----------------------------------------------------------------------------
(* Poller and clock *)

\* A tier merges its snapshot; it has stamped PolledAt before it took the lock, and
\* may be merging after a tier with a younger one.
PollOk == /\ app \in {"run", "draining", "stop"}
          /\ polled' = TRUE
          /\ age' \in 0..(MaxAge + 1)
          /\ UNCHANGED <<mvars, app, ctxDone, isOffline, mgr, retained, stored, willDue>>

TimePasses == /\ Alive /\ polled /\ age <= MaxAge
              /\ age' = age + 1
              /\ UNCHANGED <<mvars, app, ctxDone, polled, isOffline, mgr, retained, stored, willDue>>

-----------------------------------------------------------------------------
(* Health *)

\* Health.Ready answers 200.
Ready == flag /\ polled /\ age <= ReadinessThreshold

-----------------------------------------------------------------------------
(* AvailabilityManager *)

Stale == ~polled \/ age > AvailThreshold

\* Mutant: only a missing snapshot counts as stale; its age is not compared.
TickIgnoresAge == /\ Alive /\ mgr = "idle" /\ (~polled) # isOffline
                  /\ isOffline' = ~polled
                  /\ mgr' = IF ~polled THEN "offline" ELSE "online"
                  /\ UNCHANGED <<mvars, app, ctxDone, pvars, retained, stored, willDue>>

\* tick with a transition (one without changes nothing).
Tick == /\ Alive /\ mgr = "idle" /\ Stale # isOffline
        /\ isOffline' = Stale
        /\ mgr' = IF Stale THEN "offline" ELSE "online"
        /\ UNCHANGED <<mvars, app, ctxDone, pvars, retained, stored, willDue>>

\* Mutant: the online callback is not installed.
MgrCallbackOfflineOnly == /\ Alive /\ mgr \in {"online", "offline"}
                          /\ IF flag /\ mgr = "offline" THEN PahoPublish(mgr)
                                                        ELSE UNCHANGED <<retained, stored>>
                          /\ mgr' = "idle"
                          /\ UNCHANGED <<mvars, app, ctxDone, pvars, isOffline, willDue>>

\* The callback publishes, or Publish returns ErrMQTTNotConnected, which is
\* logged: the transition is not tried again.
MgrCallback == /\ Alive /\ mgr \in {"online", "offline"}
               /\ IF flag THEN PahoPublish(mgr) ELSE UNCHANGED <<retained, stored>>
               /\ mgr' = "idle"
               /\ UNCHANGED <<mvars, app, ctxDone, pvars, isOffline, willDue>>

\* run returns once the context is cancelled.
MgrDone == /\ Alive /\ mgr = "idle" /\ ctxDone
           /\ mgr' = "done"
           /\ UNCHANGED <<mvars, app, ctxDone, pvars, isOffline, retained, stored, willDue>>

-----------------------------------------------------------------------------
(* app.Run and App.shutdown *)

\* Discovery and the subscriptions are done: poller and manager start.
Started == /\ app = "starting"
           /\ app' = "run" /\ mgr' = "idle"
           /\ UNCHANGED <<mvars, ctxDone, pvars, isOffline, retained, stored, willDue>>

\* The process ends without a DISCONNECT: a crash, or Run's early returns.
Exit == /\ app' = "dead"
        /\ session' = FALSE /\ brokerSubs' = {}
        /\ willDue' = (willDue \/ session)
        /\ UNCHANGED <<lostDue, flag, subs, run, todo, sp, cur, dropped,
                       pvars, isOffline, mgr, retained, stored>>

Crash == Alive /\ Exit /\ UNCHANGED ctxDone

\* The shutdown signal.
Signal == /\ app = "run"
          /\ app' = "draining" /\ ctxDone' = TRUE
          /\ UNCHANGED <<mvars, pvars, isOffline, mgr, retained, stored, willDue>>

\* The HTTP server fails: Run calls shutdown, and cancels only when it returns.
HttpFails == /\ app = "run"
             /\ app' = "draining"
             /\ UNCHANGED <<mvars, ctxDone, pvars, isOffline, mgr, retained, stored, willDue>>

\* shutdown's waits are over: the manager has ended, or has been too slow.
WaitsOver == app = "draining" /\ (mgr = "done" \/ mgr # "idle" \/ ~ctxDone)

\* Client.Disconnect: "offline" is published ...
DisconnectOffline == /\ WaitsOver /\ flag
                     /\ PahoPublish("offline")
                     /\ app' = "stop"
                     /\ UNCHANGED <<mvars, ctxDone, pvars, isOffline, mgr, willDue>>

\* ... or nothing is done, and the process ends.
DisconnectSkipped == WaitsOver /\ ~flag /\ Exit /\ UNCHANGED ctxDone

\* paho's Disconnect: no will is published for a session that ends with it.
DisconnectDone == /\ app = "stop"
                  /\ app' = "left"
                  /\ session' = FALSE /\ brokerSubs' = {}
                  /\ flag' = FALSE
                  /\ UNCHANGED <<lostDue, subs, run, todo, sp, cur, dropped, ctxDone,
                                 pvars, isOffline, mgr, retained, stored, willDue>>

AvNext == \/ \E r \in Runs : AvSessionUp(r) \/ AvOnConnectOnline(r)
          \/ AvSessionLost \/ WillFires \/ AvClientStep
          \/ PollOk \/ TimePasses
          \/ Tick \/ MgrCallback \/ MgrDone
          \/ Started \/ Crash \/ Signal \/ HttpFails
          \/ DisconnectOffline \/ DisconnectSkipped \/ DisconnectDone

AvSpec == AvInit /\ [][AvNext]_avvars

(* Fairness: goroutines run, the ticker ticks, and the broker notices a    *)
(* session that has ended (keep-alive).                                    *)
AvFairness == /\ \A r \in Runs : WF_avvars(AvOnConnectOnline(r))
              /\ WF_avvars(AvClientStep)
              /\ WF_avvars(Tick) /\ WF_avvars(MgrCallback)
              /\ WF_avvars(WillFires)

AvFairSpec == AvSpec /\ AvFairness

-----------------------------------------------------------------------------
(* Properties *)

\* Whatever way the bridge loses its session, a graceful shutdown apart, the
\* topic cannot stay "online": the broker still has the will to publish
\* (SetWill in Connect).
WillCovers == ~session /\ ~willDue /\ app # "left" => retained # "online"

\* The inductive invariant behind it: a will is due only between sessions.
AvInv == AvTypeOK /\ (willDue => ~session) /\ WillCovers

\* When snapshots stay fresh on a session that lasts, the topic settles on
\* "online", although the manager publishes transitions only and drops those
\* that meet a client that is not connected, and the readiness probe, which
\* looks at the connected flag and not at the session, settles on 200.
FreshGoesOnline ==
  <>[](session /\ ~Stale /\ age <= ReadinessThreshold /\ app = "run")
    => <>[](retained = "online" /\ Ready)

\* When, on a settled session and after the manager has reported "online", the
\* snapshots go stale for good, the topic settles on "offline".
Settled == session /\ flag /\ mgr = "idle" /\ ~isOffline /\ \A r \in Runs : run[r] = "idle"
LaterStaleGoesOffline ==
  []((Settled /\ [](session /\ app = "run") /\ <>[]Stale) => <>[](retained = "offline"))

\* README: the topic is "online/offline (LWT-backed) so HA correctly greys-out
\* entities when the bridge is down": after the shutdown that a signal starts it
\* is not "online".
OfflineAfterShutdown == app = "left" /\ ctxDone /\ ~willDue => retained # "online"
=============================================================================
