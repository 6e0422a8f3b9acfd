------------------------------ MODULE Entities ------------------------------
(***************************************************************************)
(* What Home Assistant is told the bridge is, and what the bridge does:    *)
(* the register catalog (domain/catalog), the discovery configs built from *)
(* it (infrastructure/discovery/builder.go), the blocks the poll           *)
(* controller reads, the state topics that publish_state.go writes and the *)
(* command topics that command_subscriber.go listens to.  Each is a table  *)
(* of its own in the code; nothing there ties one to another.  Names,      *)
(* icons, units and the device block are left out.                         *)
(***************************************************************************)
EXTENDS Registers

-----------------------------------------------------------------------------
(* TopicBuilder, without the prefixes *)

State(id) == <<"state", id>>
Command(id) == <<"cmd", id>>

-----------------------------------------------------------------------------
(* The catalog *)

\* A register without an entity has the zero value, "none" here, for both.
Reg(kind, addr, group, name, entity, id) ==
  [kind |-> kind, addr |-> addr, group |-> group, name |-> name, entity |-> entity, id |-> id]

CatalogRegisters == {
  Reg("input", 0, "slow", "Firmware", "sensor", "firmware"),
  Reg("input", 79, "slow", "DeviceID", "sensor", "device_id"),
  Reg("input", 2, "hot", "State_0", "none", "none"),
  Reg("input", 3, "hot", "State_1", "none", "none"),
  Reg("input", 4, "hot", "Error_Code", "none", "none"),
  Reg("input", 5, "hot", "Error_Code_1", "none", "none"),
  Reg("input", 6, "hot", "Last_Time", "sensor", "operation_time_left"),
  Reg("input", 9, "hot", "TkanK", "sensor", "supply_temperature"),
  Reg("input", 14, "hot", "ZagrFiltr1", "sensor", "filter_clog"),
  Reg("input", 16, "hot", "DOutputs", "none", "none"),
  Reg("input", 18, "hot", "Reg", "sensor", "heat_demand"),
  Reg("input", 25, "hot", "Fan_State_1", "sensor", "supply_fan_speed"),
  Reg("input", 30, "hot", "Fan_State_2", "sensor", "exhaust_fan_speed"),
  Reg("input", 57, "medium", "TKomn_x10_P", "sensor", "room_temperature"),
  Reg("input", 58, "medium", "Room_Hum_P", "sensor", "room_humidity"),
  Reg("input", 69, "medium", "Error_Code_2", "none", "none"),
  Reg("input", 70, "medium", "Error_Code_3", "none", "none"),
  Reg("holding", 0, "slow", "Type_Dev", "none", "none"),
  Reg("holding", 31, "hot", "Temp_Target", "none", "none"),
  Reg("holding", 32, "hot", "Fan_Target_1", "none", "none"),
  Reg("holding", 86, "medium", "Dev_Keys_2", "none", "none"),
  Reg("holding", 2, "none", "Power_Dev", "switch", "power") }

RegistersWithEntity == {r \in CatalogRegisters : r.entity # "none"}

-----------------------------------------------------------------------------
(* The poll controller: the blocks of registers each tier reads, and the   *)
(* place in the block of every register it decodes into the snapshot.      *)

PollHot == {
  [tier |-> "hot", kind |-> "input", start |-> 2, count |-> 17,
   at |-> [State_0 |-> 0, State_1 |-> 1, Error_Code |-> 2, Error_Code_1 |-> 3,
           Last_Time |-> 4, TkanK |-> 7, ZagrFiltr1 |-> 12, DOutputs |-> 14, Reg |-> 16]],
  [tier |-> "hot", kind |-> "input", start |-> 25, count |-> 6,
   at |-> [Fan_State_1 |-> 0, Fan_State_2 |-> 5]],
  [tier |-> "hot", kind |-> "holding", start |-> 31, count |-> 2,
   at |-> [Temp_Target |-> 0, Fan_Target_1 |-> 1]] }

\* Mutant: the second error block is read one register too early.
PollMediumShifted == {
  [tier |-> "medium", kind |-> "input", start |-> 57, count |-> 2,
   at |-> [TKomn_x10_P |-> 0, Room_Hum_P |-> 1]],
  [tier |-> "medium", kind |-> "input", start |-> 68, count |-> 2,
   at |-> [Error_Code_2 |-> 0, Error_Code_3 |-> 1]],
  [tier |-> "medium", kind |-> "holding", start |-> 86, count |-> 1, at |-> [Dev_Keys_2 |-> 0]] }

PollMedium == {
  [tier |-> "medium", kind |-> "input", start |-> 57, count |-> 2,
   at |-> [TKomn_x10_P |-> 0, Room_Hum_P |-> 1]],
  [tier |-> "medium", kind |-> "input", start |-> 69, count |-> 2,
   at |-> [Error_Code_2 |-> 0, Error_Code_3 |-> 1]],
  [tier |-> "medium", kind |-> "holding", start |-> 86, count |-> 1, at |-> [Dev_Keys_2 |-> 0]] }

PollSlow == {
  [tier |-> "slow", kind |-> "input", start |-> 0, count |-> 1, at |-> [Firmware |-> 0]],
  [tier |-> "slow", kind |-> "input", start |-> 79, count |-> 1, at |-> [DeviceID |-> 0]],
  [tier |-> "slow", kind |-> "holding", start |-> 0, count |-> 1, at |-> [Type_Dev |-> 0]] }

\* ApplyCommand's addresses: AddrPowerDev, AddrDevKeys2, AddrTempTarget, AddrFanTarget1.
WriteAddr == [Power_Dev |-> 2, Dev_Keys_2 |-> 86, Temp_Target |-> 31, Fan_Target_1 |-> 32]

-----------------------------------------------------------------------------
(* Discovery.  An entity has the topics it reads and writes and, for the   *)
(* state topics whose payloads Home Assistant matches literally, the       *)
(* payloads it knows, by object id.                                        *)

Entity(component, id, states, commands, known) ==
  [component |-> component, id |-> id, states |-> states, commands |-> commands, known |-> known]

NoMatch == [x \in {} |-> {}]
Match(id, payloads) == [x \in {id} |-> payloads]

buildSensor(r) == Entity("sensor", r.id, {State(r.id)}, {}, NoMatch)
buildSwitch(r) == Entity("switch", r.id, {State(r.id)}, {Command(r.id)}, Match(r.id, {"ON", "OFF"}))
buildBinarySensor(id, on, off) == Entity("binary_sensor", id, {State(id)}, {}, Match(id, {on, off}))
buildDerivedSensor(id) == Entity("sensor", id, {State(id)}, {}, NoMatch)

ClimateModes == {"off", "heat", "fan_only"}
\* "1" to "10", as numbers.
ClimateFanModes == 1 .. 10
\* From min_temp to max_temp by temp_step, in hundredths.
ClimateTemps == {500 + 50 * i : i \in 0 .. 50}
\* External: the actions of Home Assistant's MQTT climate, which no config lists.
ClimateActions == {"off", "preheating", "heating", "cooling", "drying", "idle", "fan", "defrosting"}

buildClimate == Entity("climate", "climate",
  {State("hvac_mode"), State("target_temperature"), State("room_temperature"),
   State("fan_target"), State("hvac_action")},
  {Command("hvac_mode"), Command("target_temperature"), Command("fan_target")},
  [hvac_mode |-> ClimateModes, fan_target |-> ClimateFanModes, hvac_action |-> ClimateActions])

Build ==
  {buildSensor(r) : r \in {x \in RegistersWithEntity : x.entity = "sensor"}} \cup
  {buildSwitch(r) : r \in {x \in RegistersWithEntity : x.entity = "switch"}} \cup
  {buildClimate,
   buildBinarySensor("heater_active", "ON", "OFF"),
   buildBinarySensor("damper_open", "OPEN", "CLOSED"),
   buildBinarySensor("problem", "ON", "OFF"),
   buildDerivedSensor("current_operation")}

-----------------------------------------------------------------------------
(* State messages and command handlers *)

boolToOnOff(b) == IF b THEN "ON" ELSE "OFF"
boolToOpenClosed(b) == IF b THEN "OPEN" ELSE "CLOSED"

\* The object ids of buildMessages.
StateIds == {"supply_temperature", "filter_clog", "heat_demand", "supply_fan_speed",
             "exhaust_fan_speed", "room_temperature", "room_humidity", "firmware", "device_id",
             "operation_time_left", "current_operation", "power", "heater_active", "damper_open",
             "problem", "hvac_mode", "target_temperature", "fan_target", "hvac_action"}

\* Mutant: the damper is published like the other binary sensors.
MatchedPayloadOnOff(s) ==
  [power |-> boolToOnOff(s.power), heater_active |-> boolToOnOff(s.heater),
   damper_open |-> boolToOnOff(s.damper), problem |-> problemValue(s.errors),
   hvac_mode |-> hvacMode(s), fan_target |-> s.fanTarget, hvac_action |-> hvacAction(s)]

\* The payloads that Home Assistant compares with those it knows, by object id; the
\* fan target is the register as it was read.
MatchedPayload(s) ==
  [power |-> boolToOnOff(s.power), heater_active |-> boolToOnOff(s.heater),
   damper_open |-> boolToOpenClosed(s.damper), problem |-> problemValue(s.errors),
   hvac_mode |-> hvacMode(s), fan_target |-> s.fanTarget, hvac_action |-> hvacAction(s)]

\* PollHot: State_0 bit 0, the two PWM bits of DOutputs and its bit 5.
PowerOn(state0) == Bit(state0, 0)
HeaterPWM(dout) == Field(dout, 0, 2) > 0
DamperOpen(dout) == Bit(dout, 5)

\* CommandSubscriber.Start
Subscriptions == {"power", "hvac_mode", "target_temperature", "fan_target"}

\* Mutant: fan_only only switches the power on.
HandleHVACModeKeepsMode(p, reg) ==
  CASE p = "off"      -> [power |-> FALSE, reg |-> reg]
    [] p = "heat"     -> [power |-> TRUE, reg |-> ApplyToRegister(reg, ModeHeat)]
    [] p = "fan_only" -> [power |-> TRUE, reg |-> reg]

\* handleHVACMode, when its commands succeed: the power and Dev_Keys_2 it leaves.
HandleHVACMode(p, reg) ==
  CASE p = "off"      -> [power |-> FALSE, reg |-> reg]
    [] p = "heat"     -> [power |-> TRUE, reg |-> ApplyToRegister(reg, ModeHeat)]
    [] p = "fan_only" -> [power |-> TRUE, reg |-> ApplyToRegister(reg, 0)]

\* NewFanSpeed accepts speeds 1 to 10 of the 16-bit numbers ParseUint lets through.
FanAccepted(v) == v \in 1 .. 10

-----------------------------------------------------------------------------
(* Properties.  Each reads word as what it is about. *)

\* Whatever address one looks at: the tiers decode from it exactly the registers
\* that the catalog lists there, each in its tier, within the block that was read,
\* and a command goes to the holding register of its name.  PollController and
\* ApplyCommand keep addresses and offsets of their own, next to the catalog's.
Blocks == PollHot \cup PollMedium \cup PollSlow
Decoded(kind, addr) ==
  UNION {{<<b.tier, f>> : f \in {g \in DOMAIN b.at : b.at[g] < b.count /\ b.start + b.at[g] = addr}} :
          b \in {x \in Blocks : x.kind = kind}}
Catalogued(kind, addr) == {r \in CatalogRegisters : r.kind = kind /\ r.addr = addr}
PolledWhereCatalogued ==
  /\ \A kind \in {"input", "holding"} :
       Decoded(kind, word) = {<<r.group, r.name>> : r \in {x \in Catalogued(kind, word) : x.group # "none"}}
  /\ \A f \in DOMAIN WriteAddr :
       WriteAddr[f] = word => f \in {r.name : r \in Catalogued("holding", word)}

\* What discovery announces is honoured: no two entities share an id, every topic
\* an entity reads is published and every topic it writes has a handler (and none
\* is left over), and for any content of the registers the payload published is one
\* that the entity knows, with one exception: Fan_Target_1 is published as it is,
\* and 0 (before the first hot poll) or a value above 10 is none of the fan modes.
SnapshotOf(state0, dout, w) ==
  [power |-> PowerOn(state0), heater |-> HeaterPWM(dout), damper |-> DamperOpen(dout),
   mode |-> ModeFromRegister(w), op |-> OperatingStateFromRegister(w), fan |-> w,
   fanTarget |-> w, errors |-> [j \in 0 .. 3 |-> w]]
DiscoveryIsHonoured ==
  /\ \A e, f \in Build : e.id = f.id => e = f
  /\ UNION {e.states : e \in Build} = {State(id) : id \in StateIds}
  /\ UNION {e.commands : e \in Build} = {Command(id) : id \in Subscriptions}
  /\ \A state0, dout \in {0, 1, word} :
       LET sent == MatchedPayload(SnapshotOf(state0, dout, word))
       IN  \A e \in Build : \A id \in DOMAIN e.known :
             sent[id] \in e.known[id] <=> (id = "fan_target" => FanAccepted(word))

\* Home Assistant gets back what it asked for: a mode of the climate entity, written
\* over any Dev_Keys_2, is published as that mode after the next polls; a setpoint it
\* offers is accepted and comes back unchanged; a speed is accepted exactly when it
\* is one of the fan modes offered.
OfferedComesBack ==
  /\ \A p \in ClimateModes :
       LET left == HandleHVACMode(p, word)
       IN  hvacMode([power |-> left.power, mode |-> ModeFromRegister(left.reg)]) = p
  /\ word \in ClimateTemps => Accepted(word) /\ 10 * Raw(word) = word
  /\ FanAccepted(word) = (word \in ClimateFanModes)
=============================================================================
