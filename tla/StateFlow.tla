----------------------------- MODULE StateFlow ------------------------------
(***************************************************************************)
(* The way of the controller's registers to the retained state topics:     *)
(* PollController reads a tier's register blocks one by one                *)
(* (application/usecase/poll_controller.go), Poller merges the partial     *)
(* snapshot into the latest one under its lock and hands the merged copy   *)
(* to the subscriber outside of it (application/service/poller.go), and    *)
(* PublishState sends all state messages of that copy                      *)
(* (application/usecase/publish_state.go).  HAStatusListener starts the    *)
(* same publication from paho's handler goroutine when Home Assistant      *)
(* comes online (application/service/ha_status_listener.go,                *)
(* internal/app/app.go).                                                   *)
(*                                                                         *)
(* What a register block holds is a version number that the controller     *)
(* raises; 0 is the Go zero value of the snapshot's fields.                *)
(***************************************************************************)
EXTENDS Naturals, Sequences

CONSTANTS Tiers,       \* the tier goroutines: hot, medium, slow
          HA,          \* the goroutine that runs the HA "online" callback
          Blocks,      \* the register blocks that are read in one request
          Reads,       \* Reads[t]: the blocks of tier t, in the order it reads them
          Order,       \* the state topics, in the order of buildMessages
          Source,      \* Source[m]: the blocks whose fields go into the message of topic m
          None,        \* the payload of a topic never published
          MaxVersion,  \* bound: how often the controller changes a block
          MaxClock     \* bound: how far time passes

Tier(b) == {t \in Tiers : \E i \in 1..Len(Reads[t]) : Reads[t][i] = b}

ASSUME TiersAssumption == HA \notin Tiers
ASSUME ReadsAssumption == /\ Reads \in [Tiers -> Seq(Blocks)]
                          /\ \A b \in Blocks : \A s, t \in Tier(b) : s = t
ASSUME OrderAssumption == /\ Order \in Seq(DOMAIN Source) /\ Len(Order) > 0
                          /\ Source \in [DOMAIN Source -> SUBSET Blocks]
ASSUME MaxVersionAssumption == MaxVersion \in Nat \ {0}
ASSUME MaxClockAssumption == MaxClock \in Nat \ {0}

VARIABLES
  regs,      \* external: the controller's registers
  modbusUp,  \* external: Modbus requests succeed
  mqttUp,    \* external: Publish succeeds
  partial,   \* partial[t]: the Snapshot that PollHot, PollMedium or PollSlow is building
  pos,       \* pos[t]: the next block it reads
  latest,    \* Poller.latest
  clock,     \* external: the time
  stamp,     \* stamp[t]: PolledAt of the tier's partial snapshot; 0 is the zero Time
  polledAt,  \* Poller.latest.PolledAt
  pc,        \* where each goroutine is; a tier waits and reads in "idle"
  snap,      \* the merged copy it publishes
  nextMsg,   \* the next message of that copy
  retained   \* external: the state topics' retained payloads

tvars == <<clock, stamp, polledAt>>
fvars == <<regs, modbusUp, mqttUp, partial, pos, latest, tvars, pc, snap, nextMsg, retained>>
envvars == <<regs, modbusUp, mqttUp>>
pubvars == <<snap, nextMsg, retained>>

Actors == Tiers \cup {HA}
Fields == [Blocks -> 0..MaxVersion]
Zero == [b \in Blocks |-> 0]
Topics == DOMAIN Source
Payload(s, m) == [b \in Source[m] |-> s[b]]

FTypeOK == /\ regs \in Fields
           /\ modbusUp \in BOOLEAN /\ mqttUp \in BOOLEAN
           /\ partial \in [Tiers -> Fields]
           /\ pos \in [Tiers -> Nat]
           /\ latest \in Fields
           /\ clock \in 1..MaxClock
           /\ stamp \in [Tiers -> 0..MaxClock]
           /\ polledAt \in 0..MaxClock
           /\ pc \in [Actors -> {"idle", "merge", "pub"}]
           /\ snap \in [Actors -> Fields]
           /\ nextMsg \in [Actors -> Nat]

FInit == /\ regs = [b \in Blocks |-> 1]
         /\ modbusUp \in BOOLEAN /\ mqttUp \in BOOLEAN
         /\ partial = [t \in Tiers |-> Zero]
         /\ pos = [t \in Tiers |-> 1]
         /\ latest = Zero
         /\ clock = 1
         /\ stamp = [t \in Tiers |-> 0]
         /\ polledAt = 0
         /\ pc = [a \in Actors |-> "idle"]
         /\ snap = [a \in Actors |-> Zero]
         /\ nextMsg = [a \in Actors |-> 1]
         /\ retained = [m \in Topics |-> None]

Goto(a, l) == pc' = [pc EXCEPT ![a] = l]

-----------------------------------------------------------------------------
(* PollController and Poller *)

(* runTier waits for its ticker where pos[t] = 1; a tick by itself changes  *)
(* nothing.                                                                *)

\* One request of PollHot, PollMedium or PollSlow is answered; after the last one the
\* partial snapshot gets its PolledAt, before doPoll takes the lock.
ReadBlock(t) == /\ pc[t] = "idle" /\ pos[t] <= Len(Reads[t])
                /\ modbusUp
                /\ partial' = [partial EXCEPT ![t][Reads[t][pos[t]]] = regs[Reads[t][pos[t]]]]
                /\ pos' = [pos EXCEPT ![t] = @ + 1]
                /\ IF pos[t] = Len(Reads[t])
                   THEN Goto(t, "merge") /\ stamp' = [stamp EXCEPT ![t] = clock]
                   ELSE UNCHANGED <<pc, stamp>>
                /\ UNCHANGED <<envvars, latest, clock, polledAt, pubvars>>

\* Mutant: doPoll merges what was read before the error.
ReadFailsMerges(t) == /\ pc[t] = "idle"
                      /\ ~modbusUp
                      /\ Goto(t, "merge")
                      /\ UNCHANGED <<envvars, partial, pos, latest, tvars, pubvars>>

\* A request fails, or has the wrong length: doPoll drops the whole partial.
ReadFails(t) == /\ pc[t] = "idle"
                /\ ~modbusUp
                /\ partial' = [partial EXCEPT ![t] = Zero]
                /\ pos' = [pos EXCEPT ![t] = 1]
                /\ UNCHANGED <<envvars, latest, tvars, pc, pubvars>>

\* Mutant: the merge copies the fields of the other tiers too.
MergeAll(t, prev) == partial[t]

\* MergeHot, MergeMedium, MergeSlow: the tier's own fields (and PolledAt, below).
Merge(t, prev) == [b \in Blocks |-> IF t \in Tier(b) THEN partial[t][b] ELSE prev[b]]

\* Mutant: a poll that changes nothing is not published.
MergeDeduplicates(t) == /\ pc[t] = "merge"
                        /\ latest' = Merge(t, latest)
                        /\ polledAt' = stamp[t]
                        /\ stamp' = [stamp EXCEPT ![t] = 0]
                        /\ snap' = IF latest' = latest THEN snap ELSE [snap EXCEPT ![t] = latest']
                        /\ partial' = [partial EXCEPT ![t] = Zero]
                        /\ pos' = [pos EXCEPT ![t] = 1]
                        /\ Goto(t, IF latest' = latest THEN "idle" ELSE "pub")
                        /\ UNCHANGED <<envvars, clock, nextMsg, retained>>

\* Mutant: the merges do not copy PolledAt once it is set.
MergePartialFirst(t) == /\ pc[t] = "merge"
                        /\ latest' = Merge(t, latest)
                        /\ polledAt' = IF polledAt = 0 THEN stamp[t] ELSE polledAt
                        /\ stamp' = [stamp EXCEPT ![t] = 0]
                        /\ snap' = [snap EXCEPT ![t] = latest']
                        /\ partial' = [partial EXCEPT ![t] = Zero]
                        /\ pos' = [pos EXCEPT ![t] = 1]
                        /\ Goto(t, "pub")
                        /\ UNCHANGED <<envvars, clock, nextMsg, retained>>

\* doPoll under the lock; the subscriber gets the merged copy.
MergePartial(t) == /\ pc[t] = "merge"
                   /\ latest' = Merge(t, latest)
                   /\ polledAt' = stamp[t]
                   /\ stamp' = [stamp EXCEPT ![t] = 0]
                   /\ snap' = [snap EXCEPT ![t] = latest']
                   /\ partial' = [partial EXCEPT ![t] = Zero]
                   /\ pos' = [pos EXCEPT ![t] = 1]
                   /\ Goto(t, "pub")
                   /\ UNCHANGED <<envvars, clock, nextMsg, retained>>

-----------------------------------------------------------------------------
(* PublishState.Apply, for the snapshot of goroutine a *)

\* The next message; after the last one the goroutine is done with its copy.
NextMessage(a) == IF nextMsg[a] < Len(Order)
                  THEN nextMsg' = [nextMsg EXCEPT ![a] = @ + 1] /\ UNCHANGED <<pc, snap>>
                  ELSE /\ nextMsg' = [nextMsg EXCEPT ![a] = 1]
                       /\ snap' = [snap EXCEPT ![a] = Zero]
                       /\ Goto(a, "idle")

\* The broker takes the message.
PublishOk(a) == /\ pc[a] = "pub"
                /\ mqttUp
                /\ retained' = [retained EXCEPT ![Order[nextMsg[a]]] = Payload(snap[a], Order[nextMsg[a]])]
                /\ NextMessage(a)
                /\ UNCHANGED <<envvars, partial, pos, latest, tvars>>

\* A failed publish does not skip the remaining topics.
PublishFails(a) == /\ pc[a] = "pub"
                   /\ ~mqttUp
                   /\ NextMessage(a)
                   /\ UNCHANGED <<envvars, partial, pos, latest, tvars, retained>>

\* Home Assistant comes online: the callback takes the latest snapshot; with
\* none yet it publishes discovery only, which no state topic shows.
HAOnline == /\ pc[HA] = "idle" /\ polledAt # 0
            /\ snap' = [snap EXCEPT ![HA] = latest]
            /\ Goto(HA, "pub")
            /\ UNCHANGED <<envvars, partial, pos, latest, tvars, nextMsg, retained>>

-----------------------------------------------------------------------------
(* Environment *)

RegisterChanges(b) == /\ regs[b] < MaxVersion
                      /\ regs' = [regs EXCEPT ![b] = @ + 1]
                      /\ UNCHANGED <<modbusUp, mqttUp, partial, pos, latest, tvars, pc, pubvars>>

ModbusFlips == /\ modbusUp' = ~modbusUp
               /\ UNCHANGED <<regs, mqttUp, partial, pos, latest, tvars, pc, pubvars>>

MqttFlips == /\ mqttUp' = ~mqttUp
             /\ UNCHANGED <<regs, modbusUp, partial, pos, latest, tvars, pc, pubvars>>

TimePasses == /\ clock < MaxClock
              /\ clock' = clock + 1
              /\ UNCHANGED <<envvars, partial, pos, latest, stamp, polledAt, pc, pubvars>>

PublishStep(a) == PublishOk(a) \/ PublishFails(a)
TierStep(t) == ReadBlock(t) \/ ReadFails(t) \/ MergePartial(t) \/ PublishStep(t)

FNext == \/ \E t \in Tiers : TierStep(t)
         \/ HAOnline \/ PublishStep(HA)
         \/ \E b \in Blocks : RegisterChanges(b)
         \/ ModbusFlips \/ MqttFlips \/ TimePasses

FSpec == FInit /\ [][FNext]_fvars

(* Fairness: the tickers tick, requests and publishes end (each is timed), *)
(* time passes.                                                            *)
FFairness == /\ \A t \in Tiers : WF_fvars(TierStep(t))
             /\ WF_fvars(PublishStep(HA))
             /\ WF_fvars(TimePasses)
FFairSpec == FSpec /\ FFairness

-----------------------------------------------------------------------------
(* Properties *)

\* What the merged snapshot holds of the registers never goes back: no merge undoes
\* what another tier, or an earlier poll, has put into Poller.latest, in any
\* interleaving of the tiers.  (PolledAt, which every tier copies, may go back.)
LatestNeverGoesBack == [][\A b \in Blocks : latest'[b] >= latest[b]]_fvars

\* Behind it: what a poll in progress has read is at least as new as what the
\* latest snapshot has, because only the tier itself writes its fields.
NotAhead == \A b \in Blocks : latest[b] <= regs[b]
PartialIsNewer ==
  \A t \in Tiers :
    /\ pos[t] \in 1..(Len(Reads[t]) + 1)
    /\ pc[t] = "merge" => pos[t] = Len(Reads[t]) + 1
    /\ \A i \in 1..Len(Reads[t]) : i < pos[t] => latest[Reads[t][i]] <= partial[t][Reads[t][i]]
PartialNotAhead == \A t \in Tiers : \A b \in Blocks : partial[t][b] <= regs[b]
FInv == FTypeOK /\ NotAhead /\ PartialIsNewer /\ PartialNotAhead

\* PolledAt, which availability and readiness look at, goes back when a tier merges
\* after another one whose partial snapshot is younger, but not for good: while polls
\* succeed it gets past every time of the clock.
PolledAtCatchesUp == <>[]modbusUp => <>[](polledAt = MaxClock)

\* Old snapshots may overtake newer ones on their way to the broker, but not for
\* good: once the controller is steady and Modbus and MQTT stay up, every state
\* topic settles on what the controller holds.
StateConverges ==
  <>[](modbusUp /\ mqttUp) => <>[](\A m \in Topics : retained[m] = Payload(regs, m))
=============================================================================
