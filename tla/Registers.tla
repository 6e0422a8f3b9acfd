------------------------------ MODULE Registers -----------------------------
(***************************************************************************)
(* How the bridge reads and writes the controller's 16-bit registers: the  *)
(* bit fields of domain/entity and domain/valueobject, the decoding of     *)
(* application/usecase/poll_controller.go and the climate entity's two     *)
(* derived values of publish_state.go.  Masks and shifts are written as    *)
(* arithmetic; temperatures are integers, in tenths of a degree on the     *)
(* wire and in hundredths in a command.                                    *)
(*                                                                         *)
(* The state is one register, whose bits the controller sets and clears in *)
(* any order, so that every content of the register is reached.            *)
(***************************************************************************)
EXTENDS Integers

VARIABLE word   \* external: the content of the register being looked at

Word == 0 .. 2^16 - 1

Field(w, low, width) == (w \div 2^low) % 2^width

\* 1 << b, and a flag tested with it.
Mask(b) == 2^b
Bit(w, b) == (w \div Mask(b)) % 2 = 1

-----------------------------------------------------------------------------
(* Mode: bits 0..1 of Dev_Keys_2 (h86) *)

ModeHeat == 1
Modes == 0 .. 3

ModeFromRegister(v) == Field(v, 0, 2)

\* Mutant: the bits are or-ed in without clearing the old ones.
ApplyToRegisterOrs(reg, m) ==
  reg + (IF m % 2 = 1 /\ ~Bit(reg, 0) THEN 1 ELSE 0)
      + (IF m \div 2 = 1 /\ ~Bit(reg, 1) THEN 2 ELSE 0)

ApplyToRegister(reg, m) == reg - Field(reg, 0, 2) + (m % 4)

-----------------------------------------------------------------------------
(* Operation: bits 0..4 of State_1 (i3) *)

OpUnknown == -1
OpIdle == 0

OperatingStateFromRegister(raw) ==
  IF Field(raw, 0, 5) > 12 THEN OpUnknown ELSE Field(raw, 0, 5)

IsTransitional(op) == op \notin {OpIdle, OpUnknown}

-----------------------------------------------------------------------------
(* The setpoint: Temp_Target (h31) *)

\* NewTemperature accepts 5..30 degrees.
Accepted(c) == c \in 500 .. 3000

\* Mutant: the fraction is cut off.
RawTruncated(c) == c \div 10

\* Temperature.Raw: math.Round, then the clamp.  A tie rounds up here; in floating
\* point the product may fall just below it.
Raw(c) == LET scaled == (c + 5) \div 10
          IN  IF scaled < 50 THEN 50 ELSE IF scaled > 300 THEN 300 ELSE scaled

-----------------------------------------------------------------------------
(* Errors: four registers, 0 for Error_Code up to 3 for Error_Code_3.      *)

\* Mutant: the reserved bit is decoded like the others.
CatalogWithReserved == ((0 .. 3) \X (0 .. 15)) \ {<<0, 12>>}

\* buildErrorBitCatalog
errorBitCatalog == ((0 .. 3) \X (0 .. 15)) \ {<<0, 12>>, <<3, 6>>}

DecodeErrors(e) == {d \in errorBitCatalog : Bit(e[d[1]], d[2])}

problemValue(e) == IF DecodeErrors(e) = {} THEN "OFF" ELSE "ON"

-----------------------------------------------------------------------------
(* The climate entity, from power, mode, operation, heater and fan.        *)

hvacMode(s) == IF ~s.power THEN "off"
               ELSE IF s.mode = ModeHeat THEN "heat" ELSE "fan_only"

\* Mutant: the heater is looked at before the operation.
hvacActionHeaterFirst(s) ==
  CASE ~s.power -> "off"
    [] s.power /\ s.heater -> "heating"
    [] s.power /\ ~s.heater /\ s.op = 2 -> "preheating"
    [] OTHER -> IF s.fan > 0 THEN "fan" ELSE "idle"

hvacAction(s) ==
  CASE ~s.power -> "off"
    [] s.power /\ s.op = 2 -> "preheating"
    [] s.power /\ s.op \in {3, 5, 12} -> "fan"
    [] s.power /\ s.op \in {1, 4} \cup (6 .. 11) -> "idle"
    [] OTHER -> IF s.heater THEN "heating" ELSE IF s.fan > 0 THEN "fan" ELSE "idle"

-----------------------------------------------------------------------------

RInit == word = 0

Toggle(b) == word' = IF Bit(word, b) THEN word - Mask(b) ELSE word + Mask(b)

RNext == \E b \in 0 .. 15 : Toggle(b)

RSpec == RInit /\ [][RNext]_word

-----------------------------------------------------------------------------
(* Properties.  Each reads word as the register it is about. *)

\* Writing a mode to Dev_Keys_2, whatever it holds: the mode reads back as
\* written, the register stays a 16-bit value, and the timer and humidifier
\* flags above it keep their values.
ModeWriteIsExact ==
  \A m \in Modes : LET new == ApplyToRegister(word, m) IN
    /\ new \in Word
    /\ ModeFromRegister(new) = m
    /\ \A b \in 2 .. 15 : Bit(new, b) = Bit(word, b)

\* A setpoint command of word hundredths of a degree that is accepted is written
\* as the nearest tenth, and reads back as an acceptable setpoint.
SetpointIsNearest ==
  Accepted(word) => /\ Accepted(10 * Raw(word))
                    /\ 10 * Raw(word) - word \in -5 .. 5

\* What Home Assistant is told about the climate entity is consistent: hvac_mode
\* and hvac_action say "off" together, the action is "heating" only with an active
\* heater and never in the preheat and fan transitions, which hvacAction's comment
\* ranks above it, and it is "heating" whenever the heater is active and State_1
\* reports no transition.  (The eight other transitions are ranked above the heater
\* by the code and not by that comment: nothing is said of them here.)
ClimateIsConsistent ==
  \A power, heater \in BOOLEAN, mode \in Modes, fan \in {0, 1} :
    LET s == [power |-> power, heater |-> heater, mode |-> mode, fan |-> fan,
              op |-> OperatingStateFromRegister(word)]
    IN  /\ (hvacMode(s) = "off") = (hvacAction(s) = "off")
        /\ hvacAction(s) = "heating" => heater /\ s.op \notin {2, 3, 5, 12}
        /\ power /\ heater /\ ~IsTransitional(s.op) => hvacAction(s) = "heating"

\* The problem sensor is ON exactly when an error register holds a flag other
\* than the undocumented bit 12 of Error_Code and the bit of Error_Code_3 that
\* always reads 1.
ProblemMeansError ==
  \A i \in 0 .. 3 :
    LET e == [j \in 0 .. 3 |-> IF j = i THEN word ELSE 0]
        silent == CASE i = 0 -> 2^12 [] i = 3 -> 2^6 [] OTHER -> 0
    IN  problemValue(e) = IF word \in {0, silent} THEN "OFF" ELSE "ON"
=============================================================================
