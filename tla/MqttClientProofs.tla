-------------------------- MODULE MqttClientProofs --------------------------
(* Proofs about MqttClient: no subscription is silently lost, for any      *)
(* topics and any number of overlapping onConnect goroutines.              *)
EXTENDS MqttClient, TLAPS

\* NewClient starts in the invariant.
LEMMA MInitInv == MInit => MInv
  BY DEF MInit, MInv, MTypeOK, FlagFollows, NoSilentLoss

\* Every step preserves the type invariant.
LEMMA MTypeStep == ASSUME MTypeOK, [MNext]_mvars PROVE MTypeOK'
<1> USE DEF MTypeOK
<1>1. ASSUME NEW r \in Runs, SessionUp(r) PROVE MTypeOK'
  BY <1>1 DEF SessionUp
<1>2. ASSUME NEW r \in Runs, OnConnectFlag(r) PROVE MTypeOK'
  BY <1>2 DEF OnConnectFlag
<1>3. ASSUME NEW r \in Runs, OnConnectCopy(r) PROVE MTypeOK'
  BY <1>3 DEF OnConnectCopy
<1>4. ASSUME NEW r \in Runs, OnConnectOnline(r) PROVE MTypeOK'
  BY <1>4 DEF OnConnectOnline
<1>5. ASSUME NEW r \in Runs, OnConnectDone(r) PROVE MTypeOK'
  BY <1>5 DEF OnConnectDone
<1>6. ASSUME NEW r \in Runs, NEW t \in Topics, ResubscribeOk(r, t) PROVE MTypeOK'
  BY <1>6 DEF ResubscribeOk
<1>7. ASSUME NEW r \in Runs, NEW t \in Topics, ResubscribeFails(r, t) PROVE MTypeOK'
  BY <1>7 DEF ResubscribeFails
<1>8. CASE SessionLost
  BY <1>8 DEF SessionLost
<1>9. CASE OnConnectionLost
  BY <1>9 DEF OnConnectionLost
<1>10. ASSUME NEW t \in Topics, SubscribeStore(t) PROVE MTypeOK'
  BY <1>10 DEF SubscribeStore
<1>11. ASSUME NEW t \in Topics, SubscribeOk(t) PROVE MTypeOK'
  BY <1>11 DEF SubscribeOk
<1>12. ASSUME NEW t \in Topics, SubscribeFails(t) PROVE MTypeOK'
  BY <1>12 DEF SubscribeFails
<1>13. CASE UNCHANGED mvars
  BY <1>13 DEF mvars
<1> QED
  BY <1>1, <1>2, <1>3, <1>4, <1>5, <1>6, <1>7, <1>8, <1>9, <1>10, <1>11, <1>12, <1>13
     DEF MNext, OnConnectStep, ResubscribeStep, SubscribeStep

\* Every step preserves the rest of the invariant.  A live session whose
\* onConnect has raised the flag keeps it raised, because onConnectionLost runs
\* only after a loss: so a Subscribe that comes too late for the copy sends for
\* itself.
LEMMA MInvStep == ASSUME MInv, [MNext]_mvars PROVE MInv'
<1> DEFINE Safe == FlagFollows /\ NoSilentLoss
<1>0. MTypeOK /\ MTypeOK' /\ Safe
  BY MTypeStep DEF MInv
<1> USE <1>0 DEF MTypeOK, FlagFollows, NoSilentLoss, Covered
<1>1. ASSUME NEW r \in Runs, SessionUp(r) PROVE Safe'
  BY <1>1 DEF SessionUp
<1>2. ASSUME NEW r \in Runs, OnConnectFlag(r) PROVE Safe'
  BY <1>2 DEF OnConnectFlag
<1>3. ASSUME NEW r \in Runs, OnConnectCopy(r) PROVE Safe'
  BY <1>3 DEF OnConnectCopy
<1>4. ASSUME NEW r \in Runs, OnConnectOnline(r) PROVE Safe'
  BY <1>4 DEF OnConnectOnline
<1>5. ASSUME NEW r \in Runs, OnConnectDone(r) PROVE Safe'
  BY <1>5 DEF OnConnectDone
<1>6. ASSUME NEW r \in Runs, NEW t \in Topics, ResubscribeOk(r, t) PROVE Safe'
  BY <1>6 DEF ResubscribeOk
<1>7. ASSUME NEW r \in Runs, NEW t \in Topics, ResubscribeFails(r, t) PROVE Safe'
  BY <1>7 DEF ResubscribeFails
<1>8. ASSUME SessionLost PROVE Safe'
  BY <1>8 DEF SessionLost
<1>9. ASSUME OnConnectionLost PROVE Safe'
  BY <1>9 DEF OnConnectionLost
<1>10. ASSUME NEW t \in Topics, SubscribeStore(t) PROVE Safe'
  BY <1>10 DEF SubscribeStore
<1>11. ASSUME NEW t \in Topics, SubscribeOk(t) PROVE Safe'
  BY <1>11 DEF SubscribeOk
<1>12. ASSUME NEW t \in Topics, SubscribeFails(t) PROVE Safe'
  BY <1>12 DEF SubscribeFails
<1>13. ASSUME UNCHANGED mvars PROVE Safe'
  BY <1>13 DEF mvars
<1>14. Safe'
  <2> HIDE <1>0 DEF Safe
  <2> QED
    BY <1>1, <1>2, <1>3, <1>4, <1>5, <1>6, <1>7, <1>8, <1>9, <1>10, <1>11, <1>12, <1>13
       DEF MNext, OnConnectStep, ResubscribeStep, SubscribeStep
<1> QED BY <1>0, <1>14 DEF MInv

\* The MQTT client keeps its invariant under every interleaving of Subscribe,
\* losses and onConnect goroutines.
THEOREM MInvariant == MSpec => []MInv
<1>1. MInv /\ [MNext]_mvars => MInv'
  BY MInvStep
<1> QED BY <1>1, MInitInv, PTL DEF MSpec

\* No subscription falls between Subscribe and a concurrent onConnect
\* (client.go: Subscribe reads connectedAtomic under the mutex under which
\* onConnect copies the registry).
THEOREM NoSilentLossHolds == MSpec => []NoSilentLoss
<1>1. MInv => NoSilentLoss
  BY DEF MInv
<1> QED BY <1>1, MInvariant, PTL
=============================================================================
