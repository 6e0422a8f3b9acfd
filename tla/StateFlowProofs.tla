-------------------------- MODULE StateFlowProofs ---------------------------
(* Proofs about StateFlow: the merged snapshot never goes back, for any    *)
(* tiers, blocks and topics.                                               *)
EXTENDS StateFlow, TLAPS

\* A tier's reads are register blocks.
LEMMA ReadsFact ==
  ASSUME NEW t \in Tiers
  PROVE  /\ Len(Reads[t]) \in Nat
         /\ \A i \in 1..Len(Reads[t]) : Reads[t][i] \in Blocks
  BY ReadsAssumption

\* No block belongs to two tiers.
LEMMA TierFact ==
  ASSUME NEW s \in Tiers, NEW t \in Tiers, NEW i \in 1..Len(Reads[s]), t \in Tier(Reads[s][i])
  PROVE  s = t
<1>1. Reads[s][i] \in Blocks
  BY ReadsFact
<1>2. s \in Tier(Reads[s][i])
  BY DEF Tier
<1> QED BY <1>1, <1>2, ReadsAssumption

\* The start.
LEMMA FInitInv == FInit => FInv
<1> SUFFICES ASSUME FInit PROVE FInv
  OBVIOUS
<1>1. Zero \in Fields /\ regs \in Fields
  BY MaxVersionAssumption DEF FInit, Zero, Fields
<1>2. FTypeOK
  BY <1>1, MaxClockAssumption DEF FInit, FTypeOK
<1>3. NotAhead /\ PartialNotAhead
  BY DEF FInit, NotAhead, PartialNotAhead, Zero
<1>4. PartialIsNewer
  <2>1. \A t \in Tiers : pos[t] = 1 /\ pc[t] = "idle"
    BY DEF FInit, Actors
  <2>2. ASSUME NEW t \in Tiers
        PROVE  1 \in 1..(Len(Reads[t]) + 1) /\ \A i \in 1..Len(Reads[t]) : ~(i < 1)
    BY ReadsFact
  <2> QED BY <2>1, <2>2 DEF PartialIsNewer
<1> QED BY <1>2, <1>3, <1>4 DEF FInv

\* What a poll in progress holds is at least as new as the latest snapshot, and
\* nothing is newer than the registers.
FSafe == NotAhead /\ PartialIsNewer /\ PartialNotAhead

LEMMA ReadBlockInv == ASSUME FInv, NEW t \in Tiers, ReadBlock(t) PROVE FInv'
<1> DEFINE b == Reads[t][pos[t]]
<1> USE DEF FInv, Goto, envvars, tvars, pubvars
<1>1. /\ pos[t] \in 1..Len(Reads[t]) /\ b \in Blocks /\ Len(Reads[t]) \in Nat
  BY ReadsFact DEF ReadBlock, PartialIsNewer, FTypeOK
<1>2. /\ partial' = [partial EXCEPT ![t] = [partial[t] EXCEPT ![b] = regs[b]]]
      /\ partial[t] \in Fields /\ regs[b] \in 0..MaxVersion
  BY <1>1 DEF ReadBlock, FTypeOK, Fields
<1>3. [partial[t] EXCEPT ![b] = regs[b]] \in Fields
  BY <1>1, <1>2 DEF Fields
<1>4. FTypeOK'
  <2>1. partial' \in [Tiers -> Fields]
    BY <1>2, <1>3 DEF FTypeOK
  <2>2. pos' \in [Tiers -> Nat]
    BY <1>1 DEF ReadBlock, FTypeOK
  <2>3. pc' \in [Actors -> {"idle", "merge", "pub"}]
    BY DEF ReadBlock, FTypeOK, Actors
  <2>4. stamp' \in [Tiers -> 0..MaxClock]
    BY MaxClockAssumption DEF ReadBlock, FTypeOK
  <2> QED BY <2>1, <2>2, <2>3, <2>4 DEF ReadBlock, FTypeOK
<1>5. NotAhead'
  BY DEF ReadBlock, NotAhead
<1>6. ASSUME NEW s \in Tiers, NEW c \in Blocks
      PROVE  partial'[s][c] = IF s = t /\ c = b THEN regs[b] ELSE partial[s][c]
  BY <1>1, <1>2 DEF FTypeOK, Fields
<1>7. PartialNotAhead'
  <2> SUFFICES ASSUME NEW s \in Tiers, NEW c \in Blocks PROVE partial'[s][c] <= regs'[c]
    BY DEF PartialNotAhead
  <2>1. regs' = regs /\ regs[b] <= regs[b]
    BY <1>1 DEF ReadBlock, FTypeOK, Fields
  <2> QED BY <1>6, <2>1 DEF PartialNotAhead
<1>8. PartialIsNewer'
  <2> SUFFICES ASSUME NEW s \in Tiers
               PROVE  /\ pos'[s] \in 1..(Len(Reads[s]) + 1)
                      /\ pc'[s] = "merge" => pos'[s] = Len(Reads[s]) + 1
                      /\ \A i \in 1..Len(Reads[s]) :
                           i < pos'[s] => latest'[Reads[s][i]] <= partial'[s][Reads[s][i]]
    BY DEF PartialIsNewer
  <2>1. latest' = latest /\ latest[b] <= regs[b]
    BY <1>1 DEF ReadBlock, NotAhead
  <2>2. CASE s # t
    <3>1. pos'[s] = pos[s] /\ pc'[s] = pc[s]
      BY <2>2 DEF ReadBlock, FTypeOK, Actors
    <3>2. \A c \in Blocks : partial'[s][c] = partial[s][c]
      BY <1>6, <2>2
    <3> QED BY <2>1, <3>1, <3>2, ReadsFact DEF PartialIsNewer
  <2>3. CASE s = t
    <3>1. pos'[t] = pos[t] + 1 /\ pc'[t] = IF pos[t] = Len(Reads[t]) THEN "merge" ELSE "idle"
      BY DEF ReadBlock, FTypeOK, Actors
    <3>2. ASSUME NEW i \in 1..Len(Reads[t]), i < pos[t] + 1
          PROVE  latest[Reads[t][i]] <= partial'[t][Reads[t][i]]
      <4>1. Reads[t][i] \in Blocks
        BY ReadsFact
      <4>2. CASE Reads[t][i] = b
        BY <1>1, <1>6, <2>1, <4>2
      <4>3. CASE Reads[t][i] # b
        <5>1. i # pos[t] /\ i < pos[t]
          BY <1>1, <3>2, <4>3
        <5>2. partial'[t][Reads[t][i]] = partial[t][Reads[t][i]]
          BY <1>6, <4>1, <4>3
        <5> QED BY <5>1, <5>2 DEF PartialIsNewer
      <4> QED BY <4>2, <4>3
    <3> QED BY <1>1, <2>1, <2>3, <3>1, <3>2
  <2> QED BY <2>2, <2>3
<1> QED BY <1>4, <1>5, <1>7, <1>8

LEMMA MergeFacts ==
  ASSUME FInv, NEW t \in Tiers, MergePartial(t)
  PROVE  /\ latest' \in Fields
         /\ \A b \in Blocks : latest[b] <= latest'[b] /\ latest'[b] <= regs[b]
         /\ \A b \in Blocks : t \notin Tier(b) => latest'[b] = latest[b]
<1> USE DEF FInv
<1>1. latest' = Merge(t, latest)
  BY DEF MergePartial
<1>2. latest' \in Fields
  BY <1>1 DEF Merge, FTypeOK, Fields
<1>3. ASSUME NEW b \in Blocks, t \in Tier(b)
      PROVE  latest'[b] = partial[t][b] /\ latest[b] <= partial[t][b] /\ partial[t][b] <= regs[b]
  <2>1. PICK i \in 1..Len(Reads[t]) : Reads[t][i] = b
    BY <1>3 DEF Tier
  <2>2. i < pos[t]
    BY ReadsFact DEF MergePartial, PartialIsNewer
  <2>3. latest[b] <= partial[t][b]
    BY <2>1, <2>2 DEF PartialIsNewer
  <2> QED BY <1>1, <1>3, <2>3 DEF Merge, PartialNotAhead
<1>4. ASSUME NEW b \in Blocks, t \notin Tier(b)
      PROVE  latest'[b] = latest[b] /\ latest[b] <= latest[b] /\ latest[b] <= regs[b]
  BY <1>1, <1>4 DEF Merge, NotAhead, FTypeOK, Fields
<1> QED BY <1>2, <1>3, <1>4

LEMMA MergeInv == ASSUME FInv, NEW t \in Tiers, MergePartial(t) PROVE FInv'
<1> USE DEF FInv, Goto, envvars, tvars
<1>0. Zero \in Fields
  BY MaxVersionAssumption DEF Zero, Fields
<1>1. FTypeOK'
  <2>1. snap' \in [Actors -> Fields]
    BY MergeFacts DEF MergePartial, FTypeOK, Actors
  <2>2. partial' \in [Tiers -> Fields] /\ pos' \in [Tiers -> Nat]
    BY <1>0 DEF MergePartial, FTypeOK
  <2>3. pc' \in [Actors -> {"idle", "merge", "pub"}]
    BY DEF MergePartial, FTypeOK, Actors
  <2>4. stamp' \in [Tiers -> 0..MaxClock] /\ polledAt' \in 0..MaxClock
    BY MaxClockAssumption DEF MergePartial, FTypeOK
  <2> QED BY <2>1, <2>2, <2>3, <2>4, MergeFacts DEF MergePartial, FTypeOK
<1>2. NotAhead'
  BY MergeFacts DEF MergePartial, NotAhead
<1>3. PartialNotAhead'
  <2> SUFFICES ASSUME NEW s \in Tiers, NEW c \in Blocks PROVE partial'[s][c] <= regs'[c]
    BY DEF PartialNotAhead
  <2>1. partial'[s] = IF s = t THEN Zero ELSE partial[s]
    BY DEF MergePartial, FTypeOK
  <2>2. regs' = regs /\ 0 <= regs[c]
    BY DEF MergePartial, FTypeOK, Fields
  <2> QED BY <2>1, <2>2 DEF PartialNotAhead, Zero
<1>4. PartialIsNewer'
  <2> SUFFICES ASSUME NEW s \in Tiers
               PROVE  /\ pos'[s] \in 1..(Len(Reads[s]) + 1)
                      /\ pc'[s] = "merge" => pos'[s] = Len(Reads[s]) + 1
                      /\ \A i \in 1..Len(Reads[s]) :
                           i < pos'[s] => latest'[Reads[s][i]] <= partial'[s][Reads[s][i]]
    BY DEF PartialIsNewer
  <2>1. CASE s = t
    <3>1. pos'[t] = 1 /\ pc'[t] = "pub"
      BY DEF MergePartial, FTypeOK, Actors
    <3> QED BY <2>1, <3>1, ReadsFact
  <2>2. CASE s # t
    <3>1. pos'[s] = pos[s] /\ pc'[s] = pc[s] /\ partial'[s] = partial[s]
      BY <2>2 DEF MergePartial, FTypeOK, Actors
    <3>2. \A i \in 1..Len(Reads[s]) : latest'[Reads[s][i]] = latest[Reads[s][i]]
      BY <2>2, MergeFacts, ReadsFact, TierFact
    <3> QED BY <3>1, <3>2 DEF PartialIsNewer
  <2> QED BY <2>1, <2>2
<1> QED BY <1>1, <1>2, <1>3, <1>4

\* Every step preserves the invariant.
LEMMA FInvStep == ASSUME FInv, [FNext]_fvars PROVE FInv'
<1> USE DEF FInv, Goto, envvars, tvars, pubvars
<1>0. Zero \in Fields
  BY MaxVersionAssumption DEF Zero, Fields
<1>1. CASE TimePasses
  <2>1. FTypeOK'
    BY <1>1, MaxClockAssumption DEF TimePasses, FTypeOK
  <2> QED BY <1>1, <2>1 DEF TimePasses, NotAhead, PartialIsNewer, PartialNotAhead
<1>2. ASSUME NEW t \in Tiers, ReadBlock(t) PROVE FInv'
  BY <1>2, ReadBlockInv
<1>3. ASSUME NEW t \in Tiers, ReadFails(t) PROVE FInv'
  <2>1. FTypeOK'
    BY <1>0, <1>3 DEF ReadFails, FTypeOK, Actors
  <2>2. \A s \in Tiers : /\ partial'[s] = IF s = t THEN Zero ELSE partial[s]
                         /\ pos'[s] = IF s = t THEN 1 ELSE pos[s]
                         /\ pc'[s] = pc[s] /\ pc[t] = "idle"
    BY <1>3 DEF ReadFails, FTypeOK, Actors
  <2>3. regs' = regs /\ latest' = latest /\ \A c \in Blocks : 0 <= regs[c]
    BY <1>3 DEF ReadFails, FTypeOK, Fields
  <2>4. NotAhead' /\ PartialNotAhead'
    BY <2>2, <2>3 DEF NotAhead, PartialNotAhead, Zero
  <2>5. PartialIsNewer'
    BY <2>2, <2>3, ReadsFact DEF PartialIsNewer
  <2> QED BY <2>1, <2>4, <2>5
<1>4. ASSUME NEW t \in Tiers, MergePartial(t) PROVE FInv'
  BY <1>4, MergeInv
<1>5. ASSUME NEW a \in Actors, PublishStep(a) PROVE FInv'
  <2>1. FTypeOK'
    <3>1. NextMessage(a)
      BY <1>5 DEF PublishStep, PublishOk, PublishFails
    <3>2. /\ nextMsg' \in [Actors -> Nat] /\ snap' \in [Actors -> Fields]
          /\ pc' \in [Actors -> {"idle", "merge", "pub"}]
      <4>1. CASE nextMsg[a] < Len(Order)
        <5>1. nextMsg' = [nextMsg EXCEPT ![a] = nextMsg[a] + 1] /\ snap' = snap /\ pc' = pc
          BY <3>1, <4>1 DEF NextMessage
        <5> QED BY <5>1 DEF FTypeOK
      <4>2. CASE ~(nextMsg[a] < Len(Order))
        <5>1. /\ nextMsg' = [nextMsg EXCEPT ![a] = 1] /\ snap' = [snap EXCEPT ![a] = Zero]
              /\ pc' = [pc EXCEPT ![a] = "idle"]
          BY <3>1, <4>2 DEF NextMessage
        <5>2. nextMsg' \in [Actors -> Nat] /\ snap' \in [Actors -> Fields]
          BY <1>0, <5>1 DEF FTypeOK
        <5>3. pc' \in [Actors -> {"idle", "merge", "pub"}]
          BY <5>1 DEF FTypeOK
        <5> QED BY <5>2, <5>3
      <4> QED BY <4>1, <4>2
    <3> QED BY <1>5, <3>2 DEF PublishStep, PublishOk, PublishFails, FTypeOK
  <2>2. /\ UNCHANGED <<regs, partial, pos, latest>>
        /\ \A s \in Tiers : pc'[s] = "merge" => pc[s] = "merge"
    <3>1. UNCHANGED <<regs, partial, pos, latest>> /\ NextMessage(a)
      BY <1>5 DEF PublishStep, PublishOk, PublishFails
    <3>2. pc' = pc \/ pc' = [pc EXCEPT ![a] = "idle"]
      BY <3>1 DEF NextMessage
    <3> QED BY <3>1, <3>2 DEF FTypeOK, Actors
  <2> QED BY <2>1, <2>2 DEF NotAhead, PartialIsNewer, PartialNotAhead
<1>6. CASE HAOnline
  <2>1. FTypeOK'
    BY <1>6 DEF HAOnline, FTypeOK, Actors
  <2>2. /\ UNCHANGED <<regs, partial, pos, latest>>
        /\ \A s \in Tiers : pc'[s] = "merge" => pc[s] = "merge"
    BY <1>6 DEF HAOnline, FTypeOK, Actors
  <2> QED BY <2>1, <2>2 DEF NotAhead, PartialIsNewer, PartialNotAhead
<1>7. ASSUME NEW b \in Blocks, RegisterChanges(b) PROVE FInv'
  <2>1. FTypeOK'
    BY <1>7, MaxVersionAssumption DEF RegisterChanges, FTypeOK, Fields
  <2>2. \A c \in Blocks : regs[c] <= regs'[c] /\ regs[c] \in Nat /\ regs'[c] \in Nat
                          /\ latest[c] \in Nat /\ \A s \in Tiers : partial[s][c] \in Nat
    BY <1>7, MaxVersionAssumption DEF RegisterChanges, FTypeOK, Fields
  <2>3. NotAhead'
    BY <1>7, <2>2 DEF RegisterChanges, NotAhead
  <2>4. PartialNotAhead'
    <3> SUFFICES ASSUME NEW s \in Tiers, NEW c \in Blocks PROVE partial'[s][c] <= regs'[c]
      BY DEF PartialNotAhead
    <3>1. partial' = partial /\ partial[s][c] <= regs[c]
      BY <1>7 DEF RegisterChanges, PartialNotAhead
    <3> QED BY <2>2, <3>1
  <2>5. PartialIsNewer'
    BY <1>7 DEF RegisterChanges, PartialIsNewer
  <2> QED BY <2>1, <2>3, <2>4, <2>5
<1>8. CASE ModbusFlips \/ MqttFlips \/ UNCHANGED fvars
  <2>1. UNCHANGED <<regs, partial, pos, latest, clock, stamp, polledAt, pc, snap, nextMsg>>
    BY <1>8 DEF ModbusFlips, MqttFlips, fvars
  <2>2. modbusUp' \in BOOLEAN /\ mqttUp' \in BOOLEAN
    BY <1>8 DEF ModbusFlips, MqttFlips, fvars, FTypeOK
  <2>3. FTypeOK'
    BY <2>1, <2>2 DEF FTypeOK
  <2> QED BY <2>1, <2>3 DEF NotAhead, PartialIsNewer, PartialNotAhead
<1> QED
  BY <1>1, <1>2, <1>3, <1>4, <1>5, <1>6, <1>7, <1>8 DEF FNext, TierStep, Actors

\* The invariant holds in every reachable state.
THEOREM FInvariant == FSpec => []FInv
<1>1. FInv /\ [FNext]_fvars => FInv'
  BY FInvStep
<1> QED BY <1>1, FInitInv, PTL DEF FSpec

\* No register field of Poller.latest ever goes back, whatever the interleaving of
\* the tiers (doPoll merges the tier's own fields under the lock); PolledAt, which
\* all tiers write, is not one of them.
THEOREM LatestNeverGoesBackHolds == FSpec => LatestNeverGoesBack
<1>1. ASSUME FInv, [FNext]_fvars
      PROVE  [\A b \in Blocks : latest'[b] >= latest[b]]_fvars
  <2>1. ASSUME NEW t \in Tiers, MergePartial(t) PROVE \A b \in Blocks : latest'[b] >= latest[b]
    BY <1>1, <2>1, MergeFacts DEF FInv, FTypeOK, Fields
  <2>2. ASSUME latest' = latest PROVE \A b \in Blocks : latest'[b] >= latest[b]
    BY <1>1, <2>2 DEF FInv, FTypeOK, Fields
  <2>3. \/ \E t \in Tiers : MergePartial(t)
        \/ latest' = latest
    BY <1>1 DEF FNext, TierStep, PublishStep, ReadBlock, ReadFails, PublishOk, PublishFails,
       HAOnline, RegisterChanges, ModbusFlips, MqttFlips, TimePasses, fvars
  <2> QED BY <2>1, <2>2, <2>3
<1> QED BY <1>1, FInvariant, PTL DEF FSpec, LatestNeverGoesBack
=============================================================================
