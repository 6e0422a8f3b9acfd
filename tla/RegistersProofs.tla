-------------------------- MODULE RegistersProofs ---------------------------
(* Proofs about Registers and Entities: what the run checks for every      *)
(* content of a register by enumeration is derived from the arithmetic of  *)
(* fields and bits, and the tables of catalog, poll controller, discovery, *)
(* state publisher and command subscriber fit together, entity by entity   *)
(* and block by block.                                                     *)
EXTENDS Entities, TLAPS

-----------------------------------------------------------------------------
(* Bits of a 16-bit word *)

\* The masks 1 << b that the code uses, against those of the other bits of a word:
\* 1 << (15 - b) times twice the mask is 1 << 16, from bit 2 on a mask is a multiple
\* of 4, and 1 << 12 and 1 << 6 have one bit each.
LEMMA MaskFact ==
  ASSUME NEW b \in 0 .. 15
  PROVE  /\ Mask(b) \in Nat \ {0} /\ Mask(15 - b) \in Nat
         /\ (2 * Mask(15 - b)) * Mask(b) = 65536
         /\ b >= 2 => Mask(b - 2) \in Nat \ {0} /\ Mask(b) = 4 * Mask(b - 2)
         /\ (4096 \div Mask(b)) % 2 = 1 => b = 12
         /\ (64 \div Mask(b)) % 2 = 1 => b = 6
<1>0. CASE b = 0
  BY <1>0 DEF Mask
<1>1. CASE b = 1
  BY <1>1 DEF Mask
<1>2. CASE b = 2
  BY <1>2 DEF Mask
<1>3. CASE b = 3
  BY <1>3 DEF Mask
<1>4. CASE b = 4
  BY <1>4 DEF Mask
<1>5. CASE b = 5
  BY <1>5 DEF Mask
<1>6. CASE b = 6
  BY <1>6 DEF Mask
<1>7. CASE b = 7
  BY <1>7 DEF Mask
<1>8. CASE b = 8
  BY <1>8 DEF Mask
<1>9. CASE b = 9
  BY <1>9 DEF Mask
<1>10. CASE b = 10
  BY <1>10 DEF Mask
<1>11. CASE b = 11
  BY <1>11 DEF Mask
<1>12. CASE b = 12
  BY <1>12 DEF Mask
<1>13. CASE b = 13
  BY <1>13 DEF Mask
<1>14. CASE b = 14
  BY <1>14 DEF Mask
<1>15. CASE b = 15
  BY <1>15 DEF Mask
<1> QED BY <1>0, <1>1, <1>2, <1>3, <1>4, <1>5, <1>6, <1>7, <1>8, <1>9, <1>10, <1>11, <1>12, <1>13, <1>14, <1>15

\* Division by a power of two.
LEMMA DivFact ==
  ASSUME NEW w \in Nat, NEW d \in Nat \ {0}
  PROVE  w \div d \in Nat /\ d * (w \div d) <= w /\ w < d * (w \div d) + d
OBVIOUS

\* Clearing a bit that is set does not borrow.
LEMMA ClearBit ==
  ASSUME NEW w \in Nat, NEW d \in Nat \ {0}, (w \div d) % 2 = 1
  PROVE  w - d \in Nat
<1>1. PICK q \in Nat : q = w \div d
  BY DivFact
<1>2. q >= 1 /\ d * q <= w
  BY <1>1, DivFact
<1>3. d <= d * q
  BY <1>2
<1> QED BY <1>2, <1>3

\* Setting a bit that is clear does not carry out of the word.
LEMMA SetBit ==
  ASSUME NEW w \in Nat, NEW b \in 0 .. 15, w < 65536, (w \div Mask(b)) % 2 # 1
  PROVE  w + Mask(b) < 65536
<1>1. PICK d \in Nat \ {0}, n \in Nat : d = Mask(b) /\ n = Mask(15 - b)
  BY MaskFact
<1>2. d * (2 * n) = 65536
  BY <1>1, MaskFact
<1>3. PICK q \in Nat : q = w \div d
  BY DivFact
<1>4. d * q <= w
  BY <1>3, DivFact
<1>5. PICK k \in Nat : q = 2 * k
  BY <1>1, <1>3
<1>6. q < 2 * n
  <2> SUFFICES ASSUME q >= 2 * n PROVE FALSE
    BY <1>1
  <2>1. d * q >= d * (2 * n)
    OBVIOUS
  <2> QED BY <1>2, <1>4, <2>1
<1>7. q + 2 <= 2 * n
  BY <1>5, <1>6
<1>8. d * (q + 2) <= d * (2 * n)
  BY <1>7
<1>9. d * (q + 2) = d * q + d + d /\ w < d * q + d
  BY <1>3, DivFact
<1>10. w + d < 65536
  BY <1>2, <1>8, <1>9
<1> QED BY <1>1, <1>10

\* A register stays a 16-bit value.
THEOREM WordInvariant == RSpec => [](word \in Word)
<1>1. RInit => word \in Word
  BY DEF RInit, Word
<1>2. word \in Word /\ [RNext]_word => (word \in Word)'
  <2> SUFFICES ASSUME word \in Word, NEW b \in 0 .. 15, Toggle(b) PROVE word' \in Word
    BY DEF RNext
  <2>1. word \in Nat /\ word < 65536
    BY DEF Word
  <2>2. Mask(b) \in Nat \ {0}
    BY MaskFact
  <2>3. CASE Bit(word, b)
    <3>1. word' = word - Mask(b) /\ word - Mask(b) \in Nat
      BY <2>1, <2>2, <2>3, ClearBit DEF Toggle, Bit
    <3> QED BY <2>1, <2>2, <3>1 DEF Word
  <2>4. CASE ~Bit(word, b)
    <3>1. word' = word + Mask(b) /\ word + Mask(b) < 65536
      BY <2>1, <2>2, <2>4, SetBit DEF Toggle, Bit
    <3> QED BY <2>1, <2>2, <3>1 DEF Word
  <2> QED BY <2>3, <2>4
<1> QED BY <1>1, <1>2, PTL DEF RSpec

-----------------------------------------------------------------------------
(* The mode field *)

\* Division by 4 * e is division by 4, then by e.
LEMMA DivDiv ==
  ASSUME NEW w \in Nat, NEW e \in Nat \ {0}
  PROVE  w \div (4 * e) = (w \div 4) \div e
<1>1. PICK q \in Nat : q = (w \div 4) \div e /\ e * q <= w \div 4 /\ w \div 4 < e * q + e
  BY DivFact
<1>2. w \div 4 \in Nat /\ 4 * (w \div 4) <= w /\ w < 4 * (w \div 4) + 4
  OBVIOUS
<1>3. (4 * e) * q = 4 * (e * q) /\ e * q \in Nat /\ (w \div 4) + 1 <= e * q + e
  BY <1>1, <1>2
<1>4. (4 * e) * q <= w /\ w < (4 * e) * q + 4 * e
  BY <1>1, <1>2, <1>3
<1>5. PICK d \in Nat \ {0} : d = 4 * e
  OBVIOUS
<1>6. PICK p \in Nat : p = w \div d /\ d * p <= w /\ w < d * p + d
  BY DivFact
<1>7. d * q <= w /\ w < d * q + d
  BY <1>4, <1>5
<1>8. ~(p < q)
  <2> SUFFICES ASSUME p + 1 <= q PROVE FALSE
    OBVIOUS
  <2>1. d * (p + 1) <= d * q /\ d * (p + 1) = d * p + d
    OBVIOUS
  <2> QED BY <1>6, <1>7, <2>1
<1>9. ~(q < p)
  <2> SUFFICES ASSUME q + 1 <= p PROVE FALSE
    OBVIOUS
  <2>1. d * (q + 1) <= d * p /\ d * (q + 1) = d * q + d
    OBVIOUS
  <2> QED BY <1>6, <1>7, <2>1
<1>10. p = q
  BY <1>8, <1>9
<1> QED BY <1>1, <1>5, <1>6, <1>10

\* ApplyToRegister replaces the two low bits: the rest of the register, as a
\* number, is the same.
LEMMA ApplyFact ==
  ASSUME NEW w \in Word, NEW m \in Modes
  PROVE  LET new == ApplyToRegister(w, m)
         IN  new \in Word /\ new % 4 = m /\ new \div 4 = w \div 4
<1>1. w \in Nat /\ w < 65536 /\ m \in 0 .. 3
  BY DEF Word, Modes
<1>2. PICK q \in Nat, r \in 0 .. 3 : q = w \div 4 /\ r = w % 4 /\ w = 4 * q + r
  BY <1>1
<1>3. ApplyToRegister(w, m) = w - r + m
  BY <1>1, <1>2 DEF ApplyToRegister, Field
<1>4. ApplyToRegister(w, m) = 4 * q + m
  BY <1>1, <1>2, <1>3
<1>5. 4 * q + m \in Nat /\ 4 * q + m < 65536 /\ (4 * q + m) % 4 = m /\ (4 * q + m) \div 4 = q
  BY <1>1, <1>2
<1> QED BY <1>2, <1>4, <1>5 DEF Word

\* Mode.ApplyToRegister writes the mode and nothing else, over any content of
\* Dev_Keys_2.
THEOREM ModeWriteIsExactHolds == RSpec => []ModeWriteIsExact
<1>1. word \in Word => ModeWriteIsExact
  <2> SUFFICES ASSUME word \in Word, NEW m \in Modes
               PROVE  LET new == ApplyToRegister(word, m)
                      IN  /\ new \in Word
                          /\ ModeFromRegister(new) = m
                          /\ \A b \in 2 .. 15 : Bit(new, b) = Bit(word, b)
    BY DEF ModeWriteIsExact
  <2>1. PICK new \in Word : new = ApplyToRegister(word, m) /\ new % 4 = m /\ new \div 4 = word \div 4
    BY ApplyFact
  <2>2. ModeFromRegister(new) = m
    BY <2>1 DEF ModeFromRegister, Field, Word
  <2>3. ASSUME NEW b \in 2 .. 15
        PROVE  Bit(new, b) = Bit(word, b)
    <3>1. Mask(b - 2) \in Nat \ {0} /\ Mask(b) = 4 * Mask(b - 2)
      BY MaskFact
    <3>2. word \in Nat /\ new \in Nat
      BY DEF Word
    <3>3. new \div Mask(b) = word \div Mask(b)
      BY <2>1, <3>1, <3>2, DivDiv
    <3> QED BY <3>3 DEF Bit
  <2> QED BY <2>1, <2>2, <2>3
<1> QED BY <1>1, WordInvariant, PTL

-----------------------------------------------------------------------------
(* Setpoints and the climate entity *)

\* Temperature.Raw rounds an accepted setpoint to the nearest tenth of a degree, and
\* its clamp to 5..30 degrees then has nothing to do.
THEOREM SetpointIsNearestHolds == RSpec => []SetpointIsNearest
<1>1. SetpointIsNearest
  BY DEF SetpointIsNearest, Accepted, Raw
<1> QED BY <1>1, PTL

\* hvacMode and hvacAction agree on "off", the action is "heating" only with an active
\* heater outside the preheat and fan transitions, and always with one outside all
\* transitions.
THEOREM ClimateIsConsistentHolds == RSpec => []ClimateIsConsistent
<1>1. word \in Word => ClimateIsConsistent
  <2> SUFFICES ASSUME word \in Word, NEW power \in BOOLEAN, NEW heater \in BOOLEAN,
                      NEW mode \in Modes, NEW fan \in {0, 1}
               PROVE  LET s == [power |-> power, heater |-> heater, mode |-> mode, fan |-> fan,
                                op |-> OperatingStateFromRegister(word)]
                      IN  /\ (hvacMode(s) = "off") = (hvacAction(s) = "off")
                          /\ hvacAction(s) = "heating" => heater /\ s.op \notin {2, 3, 5, 12}
                          /\ power /\ heater /\ ~IsTransitional(s.op) => hvacAction(s) = "heating"
    BY DEF ClimateIsConsistent
  <2>1. PICK op \in -1 .. 12 : op = OperatingStateFromRegister(word)
    BY DEF OperatingStateFromRegister, OpUnknown, Field, Word
  <2>2. PICK s : s = [power |-> power, heater |-> heater, mode |-> mode, fan |-> fan, op |-> op]
    OBVIOUS
  <2>3. s.power = power /\ s.heater = heater /\ s.op = op
    BY <2>2
  <2>4. CASE ~power
    <3>1. hvacMode(s) = "off" /\ hvacAction(s) = "off"
      BY <2>3, <2>4 DEF hvacMode, hvacAction
    <3> QED BY <2>1, <2>2, <2>4, <3>1
  <2>5. CASE power
    <3>1. hvacMode(s) # "off"
      BY <2>3, <2>5 DEF hvacMode
    <3>2. CASE op \in 1 .. 12
      <4>1. hvacAction(s) \in {"preheating", "fan", "idle"}
        BY <2>3, <2>5, <3>2 DEF hvacAction
      <4>2. IsTransitional(op)
        BY <3>2 DEF IsTransitional, OpIdle, OpUnknown
      <4> QED BY <2>1, <2>2, <2>3, <3>1, <4>1, <4>2
    <3>3. CASE op \in {-1, 0}
      <4>1. hvacAction(s) = IF heater THEN "heating" ELSE IF s.fan > 0 THEN "fan" ELSE "idle"
        BY <2>3, <2>5, <3>3 DEF hvacAction
      <4>2. op \notin {2, 3, 5, 12}
        BY <3>3
      <4> QED BY <2>1, <2>2, <2>3, <3>1, <4>1, <4>2
    <3> QED BY <3>2, <3>3
  <2> QED BY <2>4, <2>5
<1> QED BY <1>1, WordInvariant, PTL

-----------------------------------------------------------------------------
(* Errors *)

\* A word whose bits other than 12 are clear: what lies above a clear bit is half of
\* what lies above and at it.
LEMMA OnlyBit12 ==
  ASSUME NEW w \in Word, \A b \in 0 .. 15 : Bit(w, b) => b = 12
  PROVE  w \in {0, 4096}
<1>1. w \in Nat /\ w \div 1 = w /\ w \div 65536 = 0
  BY DEF Word
<1>2. /\ w \div 32768 = 2 * (w \div 65536)
      /\ w \div 16384 = 2 * (w \div 32768)
      /\ w \div 8192 = 2 * (w \div 16384)
  BY <1>1 DEF Bit, Mask
<1>3. /\ w \div 2048 = 2 * (w \div 4096)
      /\ w \div 1024 = 2 * (w \div 2048)
      /\ w \div 512 = 2 * (w \div 1024)
      /\ w \div 256 = 2 * (w \div 512)
      /\ w \div 128 = 2 * (w \div 256)
      /\ w \div 64 = 2 * (w \div 128)
      /\ w \div 32 = 2 * (w \div 64)
      /\ w \div 16 = 2 * (w \div 32)
      /\ w \div 8 = 2 * (w \div 16)
      /\ w \div 4 = 2 * (w \div 8)
      /\ w \div 2 = 2 * (w \div 4)
      /\ w \div 1 = 2 * (w \div 2)
  BY <1>1 DEF Bit, Mask
<1>4. w \div 8192 = 0
  BY <1>1, <1>2
<1>5. w \div 4096 \in {0, 1}
  BY <1>1, <1>4
<1> QED BY <1>1, <1>3, <1>5

\* The same for bit 6.
LEMMA OnlyBit6 ==
  ASSUME NEW w \in Word, \A b \in 0 .. 15 : Bit(w, b) => b = 6
  PROVE  w \in {0, 64}
<1>1. w \in Nat /\ w \div 1 = w /\ w \div 65536 = 0
  BY DEF Word
<1>2. /\ w \div 32768 = 2 * (w \div 65536)
      /\ w \div 16384 = 2 * (w \div 32768)
      /\ w \div 8192 = 2 * (w \div 16384)
      /\ w \div 4096 = 2 * (w \div 8192)
      /\ w \div 2048 = 2 * (w \div 4096)
      /\ w \div 1024 = 2 * (w \div 2048)
      /\ w \div 512 = 2 * (w \div 1024)
      /\ w \div 256 = 2 * (w \div 512)
      /\ w \div 128 = 2 * (w \div 256)
  BY <1>1 DEF Bit, Mask
<1>3. /\ w \div 32 = 2 * (w \div 64)
      /\ w \div 16 = 2 * (w \div 32)
      /\ w \div 8 = 2 * (w \div 16)
      /\ w \div 4 = 2 * (w \div 8)
      /\ w \div 2 = 2 * (w \div 4)
      /\ w \div 1 = 2 * (w \div 2)
  BY <1>1 DEF Bit, Mask
<1>4. w \div 128 = 0
  BY <1>1, <1>2
<1>5. w \div 64 \in {0, 1}
  BY <1>1, <1>4
<1> QED BY <1>1, <1>3, <1>5

\* With the other registers at 0, no error is decoded exactly when each flag of
\* register i that the catalog has is clear.
LEMMA DecodeFact ==
  ASSUME NEW i \in 0 .. 3, NEW w \in Word
  PROVE  LET e == [j \in 0 .. 3 |-> IF j = i THEN w ELSE 0]
         IN  (DecodeErrors(e) = {}) <=> \A b \in 0 .. 15 : <<i, b>> \in errorBitCatalog => ~Bit(w, b)
<1> DEFINE e == [j \in 0 .. 3 |-> IF j = i THEN w ELSE 0]
<1>1. ASSUME NEW b \in 0 .. 15 PROVE ~Bit(0, b)
  BY MaskFact DEF Bit
<1>2. \A d \in errorBitCatalog : d = <<d[1], d[2]>> /\ d[1] \in 0 .. 3 /\ d[2] \in 0 .. 15
  BY DEF errorBitCatalog
<1>3. \A d \in errorBitCatalog : Bit(e[d[1]], d[2]) <=> d[1] = i /\ Bit(w, d[2])
  BY <1>1, <1>2
<1>4. DecodeErrors(e) = {d \in errorBitCatalog : d[1] = i /\ Bit(w, d[2])}
  BY <1>3 DEF DecodeErrors
<1> HIDE DEF e
<1> SUFFICES (DecodeErrors(e) = {}) <=> \A b \in 0 .. 15 : <<i, b>> \in errorBitCatalog => ~Bit(w, b)
  BY DEF e
<1>5. ASSUME DecodeErrors(e) = {}, NEW b \in 0 .. 15, <<i, b>> \in errorBitCatalog PROVE ~Bit(w, b)
  BY <1>4, <1>5
<1>6. ASSUME \A b \in 0 .. 15 : <<i, b>> \in errorBitCatalog => ~Bit(w, b) PROVE DecodeErrors(e) = {}
  BY <1>2, <1>4, <1>6
<1> QED BY <1>5, <1>6

\* The problem sensor is ON exactly for a documented flag.
THEOREM ProblemMeansErrorHolds == RSpec => []ProblemMeansError
<1>1. word \in Word => ProblemMeansError
  <2> SUFFICES ASSUME word \in Word, NEW i \in 0 .. 3
               PROVE  LET e == [j \in 0 .. 3 |-> IF j = i THEN word ELSE 0]
                          silent == CASE i = 0 -> 2^12 [] i = 3 -> 2^6 [] OTHER -> 0
                      IN  problemValue(e) = IF word \in {0, silent} THEN "OFF" ELSE "ON"
    BY DEF ProblemMeansError
  <2> DEFINE Quiet == \A b \in 0 .. 15 : <<i, b>> \in errorBitCatalog => ~Bit(word, b)
  <2>1. PICK e : /\ e = [j \in 0 .. 3 |-> IF j = i THEN word ELSE 0]
                 /\ problemValue(e) = IF Quiet THEN "OFF" ELSE "ON"
    BY DecodeFact DEF problemValue
  <2>2. \A b \in 0 .. 15 : <<i, b>> \in errorBitCatalog <=> ~(i = 0 /\ b = 12) /\ ~(i = 3 /\ b = 6)
    BY DEF errorBitCatalog
  <2>3. \A b \in 0 .. 15 : ~Bit(0, b) /\ (Bit(4096, b) => b = 12) /\ (Bit(64, b) => b = 6)
    BY MaskFact DEF Bit
  <2>4. CASE i = 0
    <3>1. Quiet <=> word \in {0, 4096}
      BY <2>2, <2>3, <2>4, OnlyBit12
    <3> QED BY <2>1, <2>4, <3>1
  <2>5. CASE i = 3
    <3>1. Quiet <=> word \in {0, 64}
      BY <2>2, <2>3, <2>5, OnlyBit6
    <3> QED BY <2>1, <2>5, <3>1
  <2>6. CASE i \in {1, 2}
    <3>1. Quiet => word \in {0, 4096} /\ word \in {0, 64}
      BY <2>2, <2>6, OnlyBit12, OnlyBit6
    <3>2. Quiet <=> word = 0
      BY <2>3, <3>1
    <3> QED BY <2>1, <2>6, <3>2
  <2> QED BY <2>4, <2>5, <2>6
<1> QED BY <1>1, WordInvariant, PTL

-----------------------------------------------------------------------------
(* What Home Assistant gets back *)

\* A mode of the climate entity comes back after its commands, over any register.
LEMMA ModeComesBack ==
  ASSUME NEW w \in Word, NEW p \in ClimateModes
  PROVE  LET left == HandleHVACMode(p, w)
         IN  hvacMode([power |-> left.power, mode |-> ModeFromRegister(left.reg)]) = p
<1>1. ASSUME NEW m \in Modes
      PROVE  ModeFromRegister(ApplyToRegister(w, m)) = m
  <2>1. PICK new \in Word : new = ApplyToRegister(w, m) /\ new % 4 = m
    BY ApplyFact
  <2> QED BY <2>1 DEF ModeFromRegister, Field, Word
<1>2. CASE p = "off"
  BY <1>2 DEF HandleHVACMode, hvacMode
<1>3. CASE p = "heat"
  <2>1. ModeFromRegister(ApplyToRegister(w, ModeHeat)) = ModeHeat
    BY <1>1 DEF ModeHeat, Modes
  <2> QED BY <1>3, <2>1 DEF HandleHVACMode, hvacMode
<1>4. CASE p = "fan_only"
  <2>1. ModeFromRegister(ApplyToRegister(w, 0)) = 0
    BY <1>1 DEF Modes
  <2> QED BY <1>4, <2>1 DEF HandleHVACMode, hvacMode, ModeHeat
<1> QED BY <1>2, <1>3, <1>4 DEF ClimateModes

\* Modes, setpoints and speeds that discovery offers are accepted, and are what the
\* publisher reports afterwards.
THEOREM OfferedComesBackHolds == RSpec => []OfferedComesBack
<1>1. word \in Word => OfferedComesBack
  <2> SUFFICES ASSUME word \in Word PROVE OfferedComesBack
    OBVIOUS
  <2>1. word \in ClimateTemps => Accepted(word) /\ 10 * Raw(word) = word
    BY DEF ClimateTemps, Accepted, Raw
  <2>2. FanAccepted(word) = (word \in ClimateFanModes)
    BY DEF FanAccepted, ClimateFanModes
  <2> QED BY <2>1, <2>2, ModeComesBack DEF OfferedComesBack
<1> QED BY <1>1, WordInvariant, PTL

-----------------------------------------------------------------------------
(* Discovery *)

\* The registers of the catalog that are sensors by themselves.
SensorIds == {"firmware", "device_id", "operation_time_left", "supply_temperature", "filter_clog",
              "heat_demand", "supply_fan_speed", "exhaust_fan_speed", "room_temperature",
              "room_humidity"}

\* What the builder makes of the catalog and of its fixed entities, by object id.
EntityIds == SensorIds \cup {"current_operation", "power", "climate", "damper_open",
                             "heater_active", "problem"}
EntityOf(id) ==
  IF id \in SensorIds \cup {"current_operation"} THEN Entity("sensor", id, {State(id)}, {}, NoMatch)
  ELSE IF id = "power" THEN Entity("switch", id, {State(id)}, {Command(id)}, Match(id, {"ON", "OFF"}))
  ELSE IF id = "climate" THEN buildClimate
  ELSE IF id = "damper_open" THEN Entity("binary_sensor", id, {State(id)}, {}, Match(id, {"OPEN", "CLOSED"}))
  ELSE Entity("binary_sensor", id, {State(id)}, {}, Match(id, {"ON", "OFF"}))

\* The sensors of the catalog ...
LEMMA CatalogSensors ==
  /\ \A r \in CatalogRegisters : r.entity = "sensor" => r.id \in SensorIds
  /\ \A id \in SensorIds : \E r \in CatalogRegisters : r.entity = "sensor" /\ r.id = id
<1>1. \A r \in CatalogRegisters : r.entity = "sensor" => r.id \in SensorIds
  BY DEF CatalogRegisters, Reg, SensorIds
<1>2. \A id \in SensorIds : \E r \in CatalogRegisters : r.entity = "sensor" /\ r.id = id
  BY DEF CatalogRegisters, Reg, SensorIds
<1> QED BY <1>1, <1>2

\* ... and its one switch.
LEMMA CatalogSwitch ==
  /\ \A r \in CatalogRegisters : r.entity = "switch" => r.id = "power"
  /\ \E r \in CatalogRegisters : r.entity = "switch" /\ r.id = "power"
<1>1. \A r \in CatalogRegisters : r.entity = "switch" => r.id = "power"
  BY DEF CatalogRegisters, Reg
<1>2. \E r \in CatalogRegisters : r.entity = "switch" /\ r.id = "power"
  BY DEF CatalogRegisters, Reg
<1> QED BY <1>1, <1>2

\* Build makes one entity per id.
LEMMA BuildFact == Build = {EntityOf(id) : id \in EntityIds}
<1>1. {buildSensor(r) : r \in {x \in RegistersWithEntity : x.entity = "sensor"}}
        = {buildDerivedSensor(id) : id \in SensorIds}
  BY CatalogSensors DEF RegistersWithEntity, buildSensor, buildDerivedSensor
<1>2. {buildSwitch(r) : r \in {x \in RegistersWithEntity : x.entity = "switch"}}
        = {Entity("switch", "power", {State("power")}, {Command("power")}, Match("power", {"ON", "OFF"}))}
  BY CatalogSwitch DEF RegistersWithEntity, buildSwitch
<1>3. /\ \A id \in SensorIds \cup {"current_operation"} : EntityOf(id) = buildDerivedSensor(id)
      /\ EntityOf("power") = Entity("switch", "power", {State("power")}, {Command("power")}, Match("power", {"ON", "OFF"}))
      /\ EntityOf("climate") = buildClimate
      /\ EntityOf("damper_open") = buildBinarySensor("damper_open", "OPEN", "CLOSED")
      /\ EntityOf("heater_active") = buildBinarySensor("heater_active", "ON", "OFF")
      /\ EntityOf("problem") = buildBinarySensor("problem", "ON", "OFF")
  BY DEF EntityOf, SensorIds, buildDerivedSensor, buildBinarySensor
<1>4. ASSUME NEW e PROVE e \in Build <=> \E id \in EntityIds : e = EntityOf(id)
  BY <1>1, <1>2, <1>3 DEF Build, EntityIds
<1> QED BY <1>4

\* An entity carries its id.
LEMMA EntityHasId == \A id \in EntityIds : EntityOf(id).id = id
  BY DEF EntityIds, EntityOf, Entity, buildClimate

\* The payloads that an entity knows.
LEMMA KnownFact ==
  /\ \A id \in SensorIds \cup {"current_operation"} : DOMAIN EntityOf(id).known = {}
  /\ \A id \in {"power", "heater_active", "problem"} : EntityOf(id).known = Match(id, {"ON", "OFF"})
  /\ EntityOf("damper_open").known = Match("damper_open", {"OPEN", "CLOSED"})
  /\ DOMAIN EntityOf("climate").known = {"hvac_mode", "fan_target", "hvac_action"}
  /\ EntityOf("climate").known["hvac_mode"] = ClimateModes
  /\ EntityOf("climate").known["fan_target"] = ClimateFanModes
  /\ EntityOf("climate").known["hvac_action"] = ClimateActions
<1>1. \A id \in SensorIds \cup {"current_operation"} : EntityOf(id).known = NoMatch
  BY DEF EntityOf, Entity, SensorIds
<1>2. DOMAIN NoMatch = {}
  BY DEF NoMatch
<1>3. \A id \in {"power", "heater_active", "problem"} : EntityOf(id).known = Match(id, {"ON", "OFF"})
  BY DEF EntityOf, Entity, SensorIds
<1>4. EntityOf("damper_open").known = Match("damper_open", {"OPEN", "CLOSED"})
  BY DEF EntityOf, Entity, SensorIds
<1>5. EntityOf("climate").known
        = [hvac_mode |-> ClimateModes, fan_target |-> ClimateFanModes, hvac_action |-> ClimateActions]
  BY DEF EntityOf, Entity, SensorIds, buildClimate
<1> QED BY <1>1, <1>2, <1>3, <1>4, <1>5

\* The action that the publisher derives is one that Home Assistant has.
LEMMA ActionKnown == ASSUME NEW s PROVE hvacAction(s) \in ClimateActions
  BY DEF hvacAction, ClimateActions

\* Every payload that the publisher can send is one that discovery names, but for the
\* speeds of the fan that are not offered.
LEMMA PayloadKnown ==
  ASSUME NEW s, s.power \in BOOLEAN, s.heater \in BOOLEAN, s.damper \in BOOLEAN,
         NEW e \in EntityIds, NEW id \in DOMAIN EntityOf(e).known
  PROVE  MatchedPayload(s)[id] \in EntityOf(e).known[id] <=> (id = "fan_target" => FanAccepted(s.fanTarget))
<1>1. /\ boolToOnOff(s.power) \in {"ON", "OFF"} /\ boolToOnOff(s.heater) \in {"ON", "OFF"}
      /\ boolToOpenClosed(s.damper) \in {"OPEN", "CLOSED"} /\ problemValue(s.errors) \in {"ON", "OFF"}
      /\ hvacMode(s) \in ClimateModes
  BY DEF boolToOnOff, boolToOpenClosed, problemValue, hvacMode, ClimateModes
<1>2. /\ MatchedPayload(s)["power"] = boolToOnOff(s.power)
      /\ MatchedPayload(s)["heater_active"] = boolToOnOff(s.heater)
      /\ MatchedPayload(s)["damper_open"] = boolToOpenClosed(s.damper)
      /\ MatchedPayload(s)["problem"] = problemValue(s.errors)
      /\ MatchedPayload(s)["hvac_mode"] = hvacMode(s)
      /\ MatchedPayload(s)["fan_target"] = s.fanTarget
      /\ MatchedPayload(s)["hvac_action"] = hvacAction(s)
  BY DEF MatchedPayload
<1>3. CASE e \in {"power", "heater_active", "problem"}
  <2>1. id = e /\ EntityOf(e).known[id] = {"ON", "OFF"}
    BY <1>3, KnownFact DEF Match
  <2> QED BY <1>1, <1>2, <1>3, <2>1
<1>4. CASE e = "damper_open"
  <2>1. id = e /\ EntityOf(e).known[id] = {"OPEN", "CLOSED"}
    BY <1>4, KnownFact DEF Match
  <2> QED BY <1>1, <1>2, <1>4, <2>1
<1>5. CASE e = "climate"
  <2>1. id \in {"hvac_mode", "fan_target", "hvac_action"}
    BY <1>5, KnownFact
  <2>2. CASE id = "hvac_mode"
    BY <1>1, <1>2, <1>5, <2>2, KnownFact
  <2>3. CASE id = "hvac_action"
    BY <1>2, <1>5, <2>3, KnownFact, ActionKnown
  <2>4. CASE id = "fan_target"
    BY <1>2, <1>5, <2>4, KnownFact DEF ClimateFanModes, FanAccepted
  <2> QED BY <2>1, <2>2, <2>3, <2>4
<1>6. CASE e \in SensorIds \cup {"current_operation"}
  BY <1>6, KnownFact
<1> QED BY <1>3, <1>4, <1>5, <1>6 DEF EntityIds

\* The topics that the entities read and write are those that the publisher and the
\* subscriber serve.
LEMMA TopicsServed ==
  /\ UNION {e.states : e \in Build} = {State(id) : id \in StateIds}
  /\ UNION {e.commands : e \in Build} = {Command(id) : id \in Subscriptions}
<1> DEFINE climateIds == {"hvac_mode", "target_temperature", "room_temperature", "fan_target", "hvac_action"}
<1>1. \A id \in EntityIds : EntityOf(id).states = IF id = "climate" THEN {State(x) : x \in climateIds}
                                                 ELSE {State(id)}
  BY DEF EntityIds, EntityOf, Entity, buildClimate, SensorIds
<1>2. StateIds = (EntityIds \ {"climate"}) \cup climateIds
  BY DEF StateIds, EntityIds, SensorIds
<1>3. ASSUME NEW t
      PROVE  (\E e \in Build : t \in e.states) <=> \E id \in StateIds : t = State(id)
  <2>1. (\E e \in Build : t \in e.states) <=> \E id \in EntityIds : t \in EntityOf(id).states
    BY BuildFact
  <2>2. (\E id \in EntityIds : t \in EntityOf(id).states)
          <=> (\E id \in EntityIds \ {"climate"} : t = State(id)) \/ (\E id \in climateIds : t = State(id))
    <3>1. "climate" \in EntityIds
      BY DEF EntityIds
    <3> HIDE DEF climateIds
    <3>2. \A id \in EntityIds \ {"climate"} : t \in EntityOf(id).states <=> t = State(id)
      BY <1>1
    <3>3. t \in EntityOf("climate").states <=> \E id \in climateIds : t = State(id)
      BY <1>1, <3>1
    <3> QED BY <3>1, <3>2, <3>3
  <2> HIDE DEF climateIds
  <2> QED BY <1>2, <2>1, <2>2
<1>4. \A id \in EntityIds :
        EntityOf(id).commands =
          IF id = "climate" THEN {Command(x) : x \in {"hvac_mode", "target_temperature", "fan_target"}}
          ELSE IF id = "power" THEN {Command("power")} ELSE {}
  BY DEF EntityIds, EntityOf, Entity, buildClimate, SensorIds
<1>5. ASSUME NEW t
      PROVE  (\E e \in Build : t \in e.commands) <=> \E id \in Subscriptions : t = Command(id)
  <2>1. (\E e \in Build : t \in e.commands) <=> \E id \in EntityIds : t \in EntityOf(id).commands
    BY BuildFact
  <2>2. "climate" \in EntityIds /\ "power" \in EntityIds
    BY DEF EntityIds
  <2>3. \A id \in EntityIds : t \in EntityOf(id).commands => id \in {"climate", "power"}
    BY <1>4
  <2>4. t \in EntityOf("climate").commands
          <=> \E id \in {"hvac_mode", "target_temperature", "fan_target"} : t = Command(id)
    BY <1>4, <2>2
  <2>5. t \in EntityOf("power").commands <=> t = Command("power")
    BY <1>4, <2>2
  <2>6. (\E id \in EntityIds : t \in EntityOf(id).commands)
          <=> t \in EntityOf("climate").commands \/ t \in EntityOf("power").commands
    BY <2>2, <2>3
  <2>7. (\E id \in Subscriptions : t = Command(id))
          <=> (\E id \in {"hvac_mode", "target_temperature", "fan_target"} : t = Command(id)) \/ t = Command("power")
    BY DEF Subscriptions
  <2> QED BY <2>1, <2>4, <2>5, <2>6, <2>7
<1> QED BY <1>3, <1>5

\* What discovery announces is published, subscribed to and understood, for every
\* content of the registers behind it; the one exception is a Fan_Target_1 outside
\* 1 .. 10, which is published and is no fan mode.
THEOREM DiscoveryIsHonouredHolds == RSpec => []DiscoveryIsHonoured
<1>1. DiscoveryIsHonoured
  <2>1. \A e, f \in Build : e.id = f.id => e = f
    BY BuildFact, EntityHasId
  <2>2. ASSUME NEW state0 \in {0, 1, word}, NEW dout \in {0, 1, word}, NEW e \in Build, NEW id \in DOMAIN e.known
        PROVE  MatchedPayload(SnapshotOf(state0, dout, word))[id] \in e.known[id]
                 <=> (id = "fan_target" => FanAccepted(word))
    <3>1. PICK s : s = SnapshotOf(state0, dout, word)
      OBVIOUS
    <3>2. /\ s.power = PowerOn(state0) /\ s.heater = HeaterPWM(dout) /\ s.damper = DamperOpen(dout)
          /\ s.fanTarget = word
      BY <3>1 DEF SnapshotOf
    <3>3. s.power \in BOOLEAN /\ s.heater \in BOOLEAN /\ s.damper \in BOOLEAN
      BY <3>2 DEF PowerOn, HeaterPWM, DamperOpen, Bit
    <3>4. PICK x \in EntityIds : e = EntityOf(x)
      BY BuildFact
    <3>5. MatchedPayload(s)[id] \in e.known[id] <=> (id = "fan_target" => FanAccepted(s.fanTarget))
      BY <3>3, <3>4, PayloadKnown
    <3> QED BY <3>1, <3>2, <3>5
  <2> QED BY <2>1, <2>2, TopicsServed DEF DiscoveryIsHonoured
<1> QED BY <1>1, PTL

-----------------------------------------------------------------------------
(* The poll controller against the catalog *)

\* A register at its place in a block is one of the catalog, of the block's tier.
LEMMA DecodedIsCatalogued ==
  ASSUME NEW b \in Blocks, NEW g \in DOMAIN b.at
  PROVE  \E r \in CatalogRegisters :
           r.kind = b.kind /\ r.addr = b.start + b.at[g] /\ r.group = b.tier /\ r.name = g
<1>1. CASE b \in PollHot
  BY <1>1 DEF PollHot, CatalogRegisters, Reg
<1>2. CASE b \in PollMedium
  BY <1>2 DEF PollMedium, CatalogRegisters, Reg
<1>3. CASE b \in PollSlow
  BY <1>3 DEF PollSlow, CatalogRegisters, Reg
<1> QED BY <1>1, <1>2, <1>3 DEF Blocks

\* A register of a tier is within a block of that tier, at the place where the
\* poll controller looks for it.
InBlock(r, b) == /\ b.kind = r.kind /\ b.tier = r.group /\ r.name \in DOMAIN b.at
                 /\ b.at[r.name] < b.count /\ b.start + b.at[r.name] = r.addr
LEMMA CataloguedIsDecoded ==
  ASSUME NEW r \in CatalogRegisters, r.group # "none"
  PROVE  \E b \in Blocks : InBlock(r, b)
<1>1. CASE r.group = "hot"
  <2>1. \E b \in PollHot : InBlock(r, b)
    BY <1>1 DEF PollHot, CatalogRegisters, Reg, InBlock
  <2> QED BY <2>1 DEF Blocks
<1>2. CASE r.group = "medium"
  <2>1. \E b \in PollMedium : InBlock(r, b)
    BY <1>2 DEF PollMedium, CatalogRegisters, Reg, InBlock
  <2> QED BY <2>1 DEF Blocks
<1>3. CASE r.group = "slow"
  <2>1. \E b \in PollSlow : InBlock(r, b)
    BY <1>3 DEF PollSlow, CatalogRegisters, Reg, InBlock
  <2> QED BY <2>1 DEF Blocks
<1>4. r.group \in {"hot", "medium", "slow", "none"}
  BY DEF CatalogRegisters, Reg
<1> QED BY <1>1, <1>2, <1>3, <1>4

\* At every address the tiers decode exactly the registers of the catalog, and each
\* command of ApplyCommand goes to the holding register of its name.
THEOREM PolledWhereCataloguedHolds == RSpec => []PolledWhereCatalogued
<1>1. PolledWhereCatalogued
  <2>1. ASSUME NEW kind \in {"input", "holding"}
        PROVE  Decoded(kind, word)
                 = {<<r.group, r.name>> : r \in {x \in Catalogued(kind, word) : x.group # "none"}}
    <3>1. ASSUME NEW p
          PROVE  p \in Decoded(kind, word) <=>
                   \E b \in Blocks : /\ b.kind = kind
                                     /\ \E g \in DOMAIN b.at : /\ b.at[g] < b.count
                                                              /\ b.start + b.at[g] = word
                                                              /\ p = <<b.tier, g>>
      BY DEF Decoded
    <3>2. ASSUME NEW b \in Blocks, b.kind = kind, NEW g \in DOMAIN b.at, b.start + b.at[g] = word
          PROVE  \E r \in Catalogued(kind, word) : r.group # "none" /\ <<b.tier, g>> = <<r.group, r.name>>
      <4>1. b.tier # "none"
        BY DEF Blocks, PollHot, PollMedium, PollSlow
      <4> QED BY <3>2, <4>1, DecodedIsCatalogued DEF Catalogued
    <3>3. ASSUME NEW r \in Catalogued(kind, word), r.group # "none"
          PROVE  <<r.group, r.name>> \in Decoded(kind, word)
      <4>1. r \in CatalogRegisters /\ r.kind = kind /\ r.addr = word
        BY DEF Catalogued
      <4>2. PICK b \in Blocks : InBlock(r, b)
        BY <3>3, <4>1, CataloguedIsDecoded
      <4> QED BY <3>1, <4>1, <4>2 DEF InBlock
    <3> QED BY <3>1, <3>2, <3>3
  <2>2. ASSUME NEW f \in DOMAIN WriteAddr, WriteAddr[f] = word
        PROVE  f \in {r.name : r \in Catalogued("holding", word)}
    <3>1. \E r \in CatalogRegisters : r.kind = "holding" /\ r.addr = WriteAddr[f] /\ r.name = f
      BY DEF CatalogRegisters, Reg, WriteAddr
    <3> QED BY <2>2, <3>1 DEF Catalogued
  <2> QED BY <2>1, <2>2 DEF PolledWhereCatalogued
<1> QED BY <1>1, PTL
=============================================================================
