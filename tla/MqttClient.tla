----------------------------- MODULE MqttClient -----------------------------
(***************************************************************************)
(* infrastructure/mqtt/client.go: the registry of subscriptions and its    *)
(* restoration after a reconnect.  The broker session is a clean one, so   *)
(* every new session starts without subscriptions; paho calls onConnect in *)
(* a goroutine of its own for every session, and onConnectionLost for      *)
(* every loss, before the next session.  An onConnect that still waits for *)
(* its tokens may overlap with the session after the next loss.            *)
(***************************************************************************)
EXTENDS Naturals

CONSTANTS Topics,    \* the topics CommandSubscriber and HAStatusListener subscribe to
          Runs       \* bound: how many onConnect goroutines may exist at a time

ASSUME RunsAssumption == Runs # {}

VARIABLES
  session,     \* external: the broker session is up
  lostDue,     \* external: paho has yet to call onConnectionLost
  brokerSubs,  \* external: the subscriptions of the session
  flag,        \* Client.connectedAtomic
  subs,        \* Client.subs: the topics with a handler
  run,         \* where each onConnect goroutine is
  todo,        \* its copy of the registry, minus what it has resubscribed
  sp,          \* where the Subscribe call of each topic is
  cur,         \* history: the onConnect goroutine of the latest session
  dropped      \* history: resubscriptions that failed on this session (logged only)

mvars == <<session, lostDue, brokerSubs, flag, subs, run, todo, sp, cur, dropped>>

MTypeOK == /\ session \in BOOLEAN
           /\ lostDue \in BOOLEAN
           /\ brokerSubs \subseteq Topics
           /\ flag \in BOOLEAN
           /\ subs \subseteq Topics
           /\ run \in [Runs -> {"idle", "flag", "copy", "online", "resub"}]
           /\ todo \in [Runs -> SUBSET Topics]
           /\ sp \in [Topics -> {"idle", "send", "stored", "done", "failed"}]
           /\ cur \in Runs
           /\ dropped \subseteq Topics

MInit == /\ session = FALSE
         /\ lostDue = FALSE
         /\ brokerSubs = {}
         /\ flag = FALSE
         /\ subs = {}
         /\ run = [r \in Runs |-> "idle"]
         /\ todo = [r \in Runs |-> {}]
         /\ sp = [t \in Topics |-> "idle"]
         /\ cur \in Runs
         /\ dropped = {}

-----------------------------------------------------------------------------
(* paho (external) *)

\* Connect, or paho's automatic reconnect, succeeds; onConnect is started.
SessionUp(r) == /\ ~session /\ ~lostDue
                /\ run[r] = "idle"
                /\ session' = TRUE
                /\ brokerSubs' = {}
                /\ dropped' = {}
                /\ run' = [run EXCEPT ![r] = "flag"]
                /\ cur' = r
                /\ UNCHANGED <<lostDue, flag, subs, todo, sp>>

SessionLost == /\ session
               /\ session' = FALSE
               /\ brokerSubs' = {}
               /\ lostDue' = TRUE
               /\ UNCHANGED <<flag, subs, run, todo, sp, cur, dropped>>

-----------------------------------------------------------------------------
(* Callbacks *)

OnConnectionLost == /\ lostDue
                    /\ lostDue' = FALSE
                    /\ flag' = FALSE
                    /\ UNCHANGED <<session, brokerSubs, subs, run, todo, sp, cur, dropped>>

\* Mutant: the flag is left to the end of onConnect.
OnConnectNoFlag(r) == /\ run[r] = "flag"
                      /\ run' = [run EXCEPT ![r] = "copy"]
                      /\ UNCHANGED <<session, lostDue, brokerSubs, flag, subs, todo, sp, cur, dropped>>

\* onConnect first marks the client connected ...
OnConnectFlag(r) == /\ run[r] = "flag"
                    /\ flag' = TRUE
                    /\ run' = [run EXCEPT ![r] = "copy"]
                    /\ UNCHANGED <<session, lostDue, brokerSubs, subs, todo, sp, cur, dropped>>

\* Mutant: resubscriptions start from what is left of the previous copy.
OnConnectStaleCopy(r) == /\ run[r] = "copy"
                         /\ run' = [run EXCEPT ![r] = "online"]
                         /\ UNCHANGED <<session, lostDue, brokerSubs, flag, subs, todo, sp, cur, dropped>>

\* ... then copies the registry under the mutex ...
OnConnectCopy(r) == /\ run[r] = "copy"
                    /\ todo' = [todo EXCEPT ![r] = subs]
                    /\ run' = [run EXCEPT ![r] = "online"]
                    /\ UNCHANGED <<session, lostDue, brokerSubs, flag, subs, sp, cur, dropped>>

\* ... publishes "online" ...
OnConnectOnline(r) == /\ run[r] = "online"
                      /\ run' = [run EXCEPT ![r] = "resub"]
                      /\ UNCHANGED <<session, lostDue, brokerSubs, flag, subs, todo, sp, cur, dropped>>

\* ... and resubscribes topic by topic; a failure or a timeout is skipped.
ResubscribeOk(r, t) == /\ run[r] = "resub" /\ t \in todo[r]
                       /\ session
                       /\ brokerSubs' = brokerSubs \cup {t}
                       /\ todo' = [todo EXCEPT ![r] = @ \ {t}]
                       /\ UNCHANGED <<session, lostDue, flag, subs, run, sp, cur, dropped>>

ResubscribeFails(r, t) == /\ run[r] = "resub" /\ t \in todo[r]
                          /\ todo' = [todo EXCEPT ![r] = @ \ {t}]
                          /\ dropped' = dropped \cup {t}
                          /\ UNCHANGED <<session, lostDue, brokerSubs, flag, subs, run, sp, cur>>

OnConnectDone(r) == /\ run[r] = "resub" /\ todo[r] = {}
                    /\ run' = [run EXCEPT ![r] = "idle"]
                    /\ UNCHANGED <<session, lostDue, brokerSubs, flag, subs, todo, sp, cur, dropped>>

-----------------------------------------------------------------------------
(* Subscribe *)

\* Mutant: Subscribe leaves the subscription to the next onConnect.
SubscribeStoreOnly(t) == /\ sp[t] = "idle"
                         /\ subs' = subs \cup {t}
                         /\ sp' = [sp EXCEPT ![t] = "stored"]
                         /\ UNCHANGED <<session, lostDue, brokerSubs, flag, run, todo, cur, dropped>>

\* The handler is stored, and the flag read, under the mutex.
SubscribeStore(t) == /\ sp[t] = "idle"
                     /\ subs' = subs \cup {t}
                     /\ sp' = [sp EXCEPT ![t] = IF flag THEN "send" ELSE "stored"]
                     /\ UNCHANGED <<session, lostDue, brokerSubs, flag, run, todo, cur, dropped>>

\* The broker accepts, or Subscribe returns an error.
SubscribeOk(t) == /\ sp[t] = "send"
                  /\ session
                  /\ brokerSubs' = brokerSubs \cup {t}
                  /\ sp' = [sp EXCEPT ![t] = "done"]
                  /\ UNCHANGED <<session, lostDue, flag, subs, run, todo, cur, dropped>>

SubscribeFails(t) == /\ sp[t] = "send"
                     /\ sp' = [sp EXCEPT ![t] = "failed"]
                     /\ UNCHANGED <<session, lostDue, brokerSubs, flag, subs, run, todo, cur, dropped>>

ResubscribeStep(r) == \E t \in Topics : ResubscribeOk(r, t) \/ ResubscribeFails(r, t)

SubscribeStep == \E t \in Topics : SubscribeStore(t) \/ SubscribeOk(t) \/ SubscribeFails(t)

OnConnectStep(r) == \/ OnConnectFlag(r) \/ OnConnectCopy(r) \/ OnConnectOnline(r)
                    \/ OnConnectDone(r) \/ ResubscribeStep(r)

MNext == \/ \E r \in Runs : SessionUp(r) \/ OnConnectStep(r)
         \/ SessionLost \/ OnConnectionLost
         \/ SubscribeStep

MSpec == MInit /\ [][MNext]_mvars

\* Callbacks run and tokens complete or time out.
MFairness == /\ WF_mvars(OnConnectionLost)
             /\ \A r \in Runs : WF_mvars(OnConnectStep(r))
             /\ \A t \in Topics : WF_mvars(SubscribeOk(t) \/ SubscribeFails(t))

MFairSpec == MSpec /\ MFairness

-----------------------------------------------------------------------------
(* Properties *)

\* No subscription falls between Subscribe and a concurrent onConnect: on a
\* live session every registered topic is subscribed, about to be subscribed by
\* somebody, or its failure has been reported.  Subscribe relies on onConnect
\* setting the flag before it copies the registry.
Covered(t) == \/ t \in brokerSubs
              \/ t \in dropped
              \/ sp[t] \in {"send", "failed"}
              \/ \E r \in Runs : t \in todo[r]
NoSilentLoss == session /\ run[cur] \notin {"flag", "copy"} => \A t \in subs : Covered(t)

\* The inductive invariant behind it.
FlagFollows == session => ~lostDue /\ (run[cur] # "flag" => flag)
MInv == MTypeOK /\ FlagFollows /\ NoSilentLoss

\* On a session that lasts, every registered topic is in the end subscribed
\* unless a failure has been reported for it.
EventuallySubscribed ==
  \A t \in Topics : <>[]session => <>[](t \in subs => \/ t \in brokerSubs \cup dropped
                                                     \/ sp[t] = "failed")
=============================================================================
