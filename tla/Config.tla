------------------------------- MODULE Config -------------------------------
(***************************************************************************)
(* infrastructure/config: Load reads the environment, falls back to        *)
(* defaults and validates.  An environment is a function from variables to *)
(* contents; what a content is worth depends on the parser that reads it.  *)
(* Durations are in milliseconds, floats in tenths; of a string only its   *)
(* emptiness matters.  The variables that nothing checks (credentials,     *)
(* names, log level) are left out.                                         *)
(***************************************************************************)
EXTENDS Integers

CONSTANTS Unset,  \* the variable is not set
          Empty,  \* it is set to ""
          Text,   \* it is set to something that is no number and no duration
          NaN     \* it is set to "NaN", which ParseFloat accepts

ASSUME ContentsAssumption == Empty \notin {Unset, Text}

Contents == {Unset, Empty, Text, NaN} \cup Int

\* The defaults of Load, by parser.
StringDefaults == [MODBUS_HOST |-> Text, MQTT_BROKER |-> Text, MQTT_CLIENT_ID |-> Text,
                   HA_DISCOVERY_PREFIX |-> Text, HA_DEVICE_PREFIX |-> Text]
ByteDefaults == [MODBUS_SLAVE_ID |-> 1, MQTT_QOS |-> 1]
FloatDefaults == [RECONNECT_FACTOR |-> 20, RECONNECT_JITTER_PCT |-> 2]
NumberDefaults ==
  [MODBUS_PORT |-> 502, HTTP_PORT |-> 8080, MODBUS_CONNECT_TIMEOUT |-> 5000,
   MODBUS_READ_TIMEOUT |-> 2000, MODBUS_WRITE_TIMEOUT |-> 2000, MODBUS_GUARD_INTERVAL |-> 100,
   MQTT_KEEPALIVE |-> 30000, POLL_HOT_INTERVAL |-> 5000, POLL_MEDIUM_INTERVAL |-> 15000,
   POLL_SLOW_INTERVAL |-> 60000, AVAILABILITY_THRESHOLD |-> 30000,
   RECONNECT_MIN_DELAY |-> 1000, RECONNECT_MAX_DELAY |-> 60000]

Vars == DOMAIN StringDefaults \cup DOMAIN ByteDefaults \cup DOMAIN FloatDefaults
          \cup DOMAIN NumberDefaults

Default(v) == CASE v \in DOMAIN StringDefaults -> StringDefaults[v]
                [] v \in DOMAIN ByteDefaults   -> ByteDefaults[v]
                [] v \in DOMAIN FloatDefaults  -> FloatDefaults[v]
                [] v \in DOMAIN NumberDefaults -> NumberDefaults[v]

\* Mutant: only a variable that is not set gets its default (os.LookupEnv).
ValueLookup(env, v) == IF env[v] = Unset THEN Default(v) ELSE env[v]

\* The getEnvOrDefault family: os.Getenv does not tell unset from empty.
Value(env, v) == IF env[v] \in {Unset, Empty} THEN Default(v) ELSE env[v]

\* Their errors: strconv and time refuse the content, or it is no byte.
Parses(v, x) == CASE v \in DOMAIN StringDefaults -> TRUE
                  [] v \in DOMAIN ByteDefaults   -> x \in 0 .. 255
                  [] v \in DOMAIN FloatDefaults  -> x \notin {Empty, Text}
                  [] v \in DOMAIN NumberDefaults -> x \notin {Empty, Text, NaN}

-----------------------------------------------------------------------------
(* Validate, by the kind of check *)

StringsPresent(c) ==
  \A v \in {"MODBUS_HOST", "MQTT_BROKER", "MQTT_CLIENT_ID", "HA_DEVICE_PREFIX"} : c[v] # Empty

NumbersInRange(c) ==
  /\ \A v \in {"MODBUS_PORT", "HTTP_PORT"} : c[v] \in 1 .. 65535
  /\ c["MODBUS_SLAVE_ID"] \in 1 .. 247
  /\ c["MQTT_QOS"] <= 2

DurationsPositive(c) ==
  /\ c["MODBUS_GUARD_INTERVAL"] >= 0
  /\ \A v \in DOMAIN NumberDefaults \ {"MODBUS_PORT", "HTTP_PORT", "MODBUS_GUARD_INTERVAL"} : c[v] > 0

DelaysOrdered(c) ==
  /\ c["POLL_HOT_INTERVAL"] <= c["POLL_MEDIUM_INTERVAL"]
  /\ c["POLL_MEDIUM_INTERVAL"] <= c["POLL_SLOW_INTERVAL"]
  /\ c["RECONNECT_MIN_DELAY"] <= c["RECONNECT_MAX_DELAY"]

\* A comparison with NaN is false.
BackoffInRange(c) ==
  /\ c["RECONNECT_FACTOR"] # NaN => c["RECONNECT_FACTOR"] > 10
  /\ c["RECONNECT_JITTER_PCT"] # NaN => c["RECONNECT_JITTER_PCT"] \in 0 .. 10

Validate(c) == /\ StringsPresent(c) /\ NumbersInRange(c) /\ DurationsPositive(c)
               /\ DelaysOrdered(c) /\ BackoffInRange(c)

Loaded(env) == [v \in Vars |-> Value(env, v)]

\* Load returns a configuration, or the first error it meets.
LoadOk(env) == /\ \A v \in Vars : Parses(v, Value(env, v))
               /\ Validate(Loaded(env))

\* The panics of New that depend on the configuration: NewTopicBuilder and
\* NewPoller.
NewPanics(c) == \/ \E v \in {"HA_DISCOVERY_PREFIX", "HA_DEVICE_PREFIX"} : c[v] = Empty
                \/ \E v \in {"POLL_HOT_INTERVAL", "POLL_MEDIUM_INTERVAL", "POLL_SLOW_INTERVAL"} :
                     c[v] <= 0
=============================================================================
