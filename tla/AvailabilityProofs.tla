------------------------- MODULE AvailabilityProofs -------------------------
(* Proofs about Availability: the will covers every loss of the session.   *)
EXTENDS Availability, MqttClientProofs

\* A publish through paho leaves the types alone, and reaches the broker only
\* on a session.
LEMMA PublishFacts ==
  ASSUME AvTypeOK, NEW p \in {"online", "offline"}, PahoPublish(p)
  PROVE  /\ retained' \in {"none", "online", "offline"}
         /\ stored' \subseteq {"online", "offline"}
         /\ ~session => retained' = retained
  BY DEF AvTypeOK, PahoPublish

\* Every step preserves the invariant.
LEMMA AvInvStep == ASSUME AvInv, [AvNext]_avvars PROVE AvInv'
<1> USE DEF AvInv, WillCovers, Alive
<1>0. AvTypeOK /\ MTypeOK
  BY DEF AvTypeOK
<1>1. ASSUME NEW r \in Runs, AvSessionUp(r) PROVE AvInv'
  <2>1. MTypeOK'
    BY <1>0, <1>1, MTypeStep DEF AvSessionUp, MNext
  <2>2. retained' \in {"none", "online", "offline"}
    BY <1>0, <1>1 DEF AvSessionUp, AvTypeOK
  <2> QED BY <1>0, <1>1, <2>1, <2>2 DEF AvSessionUp, SessionUp, pvars, AvTypeOK
<1>2. ASSUME NEW r \in Runs, AvOnConnectOnline(r) PROVE AvInv'
  <2>1. MTypeOK'
    BY <1>0, <1>2, MTypeStep DEF AvOnConnectOnline, MNext, OnConnectStep
  <2> QED BY <1>0, <1>2, <2>1, PublishFacts DEF AvOnConnectOnline, OnConnectOnline, pvars, AvTypeOK
<1>3. CASE AvSessionLost
  <2>1. MTypeOK'
    BY <1>0, <1>3, MTypeStep DEF AvSessionLost, MNext
  <2> QED BY <1>0, <1>3, <2>1 DEF AvSessionLost, SessionLost, pvars, AvTypeOK
<1>4. CASE AvClientStep
  <2>1. MNext /\ session' = session
    BY <1>4 DEF AvClientStep, MNext, OnConnectStep, ResubscribeStep, SubscribeStep, OnConnectionLost,
       OnConnectFlag, OnConnectCopy, OnConnectDone, ResubscribeOk, ResubscribeFails, SubscribeStore, SubscribeOk, SubscribeFails
  <2>2. MTypeOK'
    BY <1>0, <2>1, MTypeStep
  <2> QED BY <1>0, <1>4, <2>1, <2>2 DEF AvClientStep, avars, pvars, AvTypeOK
<1>5. CASE WillFires \/ PollOk \/ TimePasses \/ Tick \/ MgrDone \/ Started \/ Signal \/ HttpFails
  <2>1. UNCHANGED mvars
    BY <1>5 DEF WillFires, PollOk, TimePasses, Tick, MgrDone, Started, Signal, HttpFails
  <2>2. MTypeOK'
    BY <1>0, <2>1, MTypeStep
  <2>3. age' \in 0..(MaxAge + 1)
    BY <1>0, <1>5, ThresholdsAssumption
       DEF MaxAge, WillFires, PollOk, TimePasses, Tick, MgrDone, Started, Signal, HttpFails, pvars, AvTypeOK
  <2>4. AvTypeOK'
    <3> USE <1>0, <2>2, <2>3 DEF AvTypeOK, pvars
    <3>1. CASE WillFires  BY <3>1 DEF WillFires
    <3>2. CASE PollOk     BY <3>2 DEF PollOk
    <3>3. CASE TimePasses BY <3>3 DEF TimePasses
    <3>4. CASE Tick       BY <3>4 DEF Tick, Stale
    <3>5. CASE MgrDone    BY <3>5 DEF MgrDone
    <3>6. CASE Started    BY <3>6 DEF Started
    <3>7. CASE Signal     BY <3>7 DEF Signal
    <3>8. CASE HttpFails  BY <3>8 DEF HttpFails
    <3> QED BY <1>5, <3>1, <3>2, <3>3, <3>4, <3>5, <3>6, <3>7, <3>8
  <2>5. session' = session
    BY <2>1 DEF mvars
  <2>6. (willDue => ~session)' /\ WillCovers'
    BY <1>5, <2>5
       DEF WillFires, PollOk, TimePasses, Tick, MgrDone, Started, Signal, HttpFails
  <2> QED BY <2>4, <2>6
<1>6. CASE MgrCallback
  <2>1. UNCHANGED mvars
    BY <1>6 DEF MgrCallback
  <2>2. MTypeOK'
    BY <1>0, <2>1, MTypeStep
  <2>3. /\ retained' \in {"none", "online", "offline"}
        /\ stored' \subseteq {"online", "offline"}
        /\ ~session => retained' = retained
    BY <1>0, <1>6, PublishFacts DEF MgrCallback, AvTypeOK
  <2> QED BY <1>0, <1>6, <2>1, <2>2, <2>3 DEF MgrCallback, mvars, pvars, AvTypeOK
<1>7. CASE DisconnectOffline
  <2>1. UNCHANGED mvars
    BY <1>7 DEF DisconnectOffline
  <2>2. MTypeOK'
    BY <1>0, <2>1, MTypeStep
  <2> QED
    BY <1>0, <1>7, <2>1, <2>2, PublishFacts
       DEF DisconnectOffline, WaitsOver, mvars, pvars, AvTypeOK
<1>8. CASE Crash \/ DisconnectSkipped
  <2>1. Exit /\ app # "left" /\ UNCHANGED ctxDone
    BY <1>8 DEF Crash, DisconnectSkipped, WaitsOver
  <2>2. MTypeOK'
    BY <1>0, <2>1 DEF Exit, MTypeOK
  <2> QED BY <1>0, <2>1, <2>2 DEF Exit, pvars, AvTypeOK
<1>9. CASE DisconnectDone
  <2>1. MTypeOK'
    BY <1>0, <1>9 DEF DisconnectDone, MTypeOK
  <2> QED BY <1>0, <1>9, <2>1 DEF DisconnectDone, pvars, AvTypeOK
<1>10. CASE UNCHANGED avvars
  <2>1. MTypeOK'
    BY <1>0, <1>10, MTypeStep DEF avvars
  <2> QED BY <1>0, <1>10, <2>1 DEF avvars, avars, mvars, pvars, AvTypeOK
<1> QED
  BY <1>1, <1>2, <1>3, <1>4, <1>5, <1>6, <1>7, <1>8, <1>9, <1>10 DEF AvNext

\* The invariant of the availability topic holds in every reachable state.
LEMMA AvInvariant == AvSpec => []AvInv
<1>1. AvInit => AvInv
  <2> SUFFICES ASSUME AvInit PROVE AvInv
    OBVIOUS
  <2>1. MTypeOK
    BY MInitInv DEF AvInit, MInv
  <2>2. age \in 0..(MaxAge + 1)
    BY ThresholdsAssumption DEF AvInit, MaxAge
  <2>3. AvTypeOK
    BY <2>1, <2>2 DEF AvInit, AvTypeOK
  <2> QED BY <2>3 DEF AvInit, AvInv, WillCovers
<1>2. AvInv /\ [AvNext]_avvars => AvInv'
  BY AvInvStep
<1> QED BY <1>1, <1>2, PTL DEF AvSpec

\* However the session is lost, a graceful shutdown apart, the broker has the
\* will to publish or the topic is not "online" (SetWill in Client.Connect).
THEOREM WillCoversHolds == AvSpec => []WillCovers
<1>1. AvInv => WillCovers
  BY DEF AvInv
<1> QED BY <1>1, AvInvariant, PTL
=============================================================================
