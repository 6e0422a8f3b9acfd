# Verification of oasis-modbus2mqtt

A TLA+ development of the bridge between a GTC Oasis Syberia controller (Modbus
TCP) and Home Assistant (MQTT). The modules are translated from the Go source;
TLC checks them on small instances, and TLAPS proves their safety properties
for every value of the constants. Paths below are relative to the repository.

## 1. The system

| Component | State it keeps | Operations |
|---|---|---|
| Modbus client, `infrastructure/modbus/client.go` | mutex, `connected`, `handler`, `lastOpAt` | `Connect`, `ForceClose`, `ReadInput`, `ReadHolding`, `WriteHolding`, `ModifyHolding` |
| Command dispatcher, `application/service/command_dispatcher.go` | count of consecutive failures | the operations above, `recordOutcome` |
| Connection supervisor, `connection_supervisor.go`, `backoff.go` | trigger channel (capacity 1), current delay | `Start`, `run`, `reconnectLoop`, `Trigger` |
| MQTT client, `infrastructure/mqtt/client.go` | connected flag, registry of subscriptions | `Connect`, `Disconnect`, `Publish`, `Subscribe`, `onConnect`, `onConnectionLost` |
| Availability manager, `availability_manager.go` | `isOffline` | `tick` and its two callbacks |
| Poller, `poller.go`, with `poll_controller.go` | latest merged snapshot | three tier goroutines: poll, merge, notify |
| State publisher, `publish_state.go` | none | publishes 19 retained topics of a snapshot |
| HA status listener, `ha_status_listener.go` | none | republishes discovery and state when HA comes online |
| Command subscriber and apply command, `interface/mqtt/command_subscriber.go`, `apply_command.go` | none | four handlers; guard, register writes |
| Discovery, `infrastructure/discovery/`, `publish_discovery.go` | the last label (read by nobody) | `Build`, `Publish` |
| Register catalog and topics, `domain/catalog/`, `mqtt/topic.go` | static tables | |
| Value objects and entities, `domain/` | none | bit fields, ranges, error bits |
| Configuration, `infrastructure/config/` | none | `Load`, `Validate` |
| HTTP server and probes, `interface/http/` | the listener | `Start`, `Shutdown`, `Live`, `Ready` |
| Application, `cmd/server/main.go`, `internal/app/app.go` | run context | `New`, `Run`, `shutdown` |

How they interact. Poll tiers and command handlers call the dispatcher, which
calls the client and counts failures; at the threshold it signals the supervisor,
which closes the client and dials again with growing delays. A successful poll is
merged into the latest snapshot under a lock; the merged copy is published outside
of it. The same snapshot is read by the availability manager (is it stale?), the
transition guard of `ApplyCommand` (is the unit in a transition phase?), the health
probe and the HA status callback, which takes the firmware label of the discovery
configs from it. The retained availability topic is written by the
manager, by `onConnect`, by `Disconnect` and, as the will, by the broker.

What is hard. Seven kinds of goroutines share the client, the snapshot and the
availability topic. Signals are dropped on purpose (`Trigger`). A timed-out write
may still be executed. Sessions are lost between any two steps of a callback. What
the guard checks is older than what the controller does. Two-step operations (the
OFF edge sequence, `heat` and `fan_only`) can be cut in the middle. The process can
be killed or shut down at any of these points. What Home Assistant is told about the
entities, what is polled, what is published and what is listened to are tables of their
own in six packages, which agree by care only.

What makes the parts correct: `ModifyHolding` loses no update; no wake-up of the
supervisor is lost and the link recovers; a shutdown by signal is final; no subscription
is lost; a bridge that is gone is not shown as online; what the merged snapshot holds of
the registers never goes back and the state topics converge; a command that reports success has taken effect; every
topic that discovery announces is served, and with a payload Home Assistant knows; no
environment makes the process panic; the process ends when it is told to, and no
goroutine of its own publishes after its last word.

## 2. Modules

| Module | Models |
|---|---|
| `AtomicModbus` | abstract: what `port.ModbusClient` promises about `ModifyHolding` |
| `ModbusClient` | the client; implements `AtomicModbus` |
| `ModbusLink` | EXTENDS `ModbusClient`: dispatcher, supervisor, backoff, shutdown |
| `MqttClient` | the subscription registry and its restoration |
| `Availability` | EXTENDS `MqttClient`: the availability topic, manager, will, `Run`, `shutdown` |
| `StateFlow` | block reads, partial snapshots, merges, publication |
| `CommandPath` | messages, commands, guard, writes, the controller's transition phases |
| `Registers` | bit fields, setpoint encoding, error bits, climate values |
| `Entities` | EXTENDS `Registers`: catalog, poll blocks, discovery, state and command topics |
| `Config` | environment, defaults, parsers, `Validate`, the panics of `New` |
| `Lifecycle` | EXTENDS `Config`: `main`, `Run`, `shutdown` and the goroutines they start and wait for; the discovery configs |
| `…Proofs` | the theorems of section 5 |
| `MC…` | constants and symmetry for TLC |

### ModbusClient
`pc[o]` is where operation `o` stands: `lock` (waiting for the mutex), `guard` and
`guard2` (the guard interval), `single`, `read`, `write` (a request is on the wire),
`ok`, `err`. The register that `ModifyHolding` works on is one bit field per
operation, and the `modify` function flips the caller's field; that is enough to tell
a lost update. `handlerOpen` stands for the dialled handler, which `handleOpError`
does not close. The controller has one client slot (`held`), frees it when the socket
dies or idles, and may execute a write whose caller has given up (`late`) as long as
that socket lives. `ForceClose` takes and releases the mutex around one change, so it
is one step; `Connect` holds the mutex through its dial, so it is two. The length of
the guard interval is left out: it is a wait that a context may cancel.

### ModbusLink
`Record` is `recordOutcome` up to its unlock, `Trigger` what follows it: other
operations and the supervisor run in between. `sup` is the supervisor's place in
`initialConnect`/`run`/`reconnectLoop`, which share their loop. `backoff` is
`Backoff.current`; jitter changes only how long a wait lasts. The counter saturates at
the threshold, which is all `recordOutcome` compares it with. `NextDelay` converts the
product of delay and factor to a `Duration` before it clamps it, as the code does:
`MaxDuration` stands for the largest int64, and `OutOfRange` for what the build makes of a
float beyond it, the smallest int64 (amd64) or the largest (arm64). `AppClose` is
shutdown's `ForceClose`, with the context cancelled after a signal and live after a failure
of the HTTP server.

### MqttClient and Availability
Each session starts an `onConnect` goroutine; `Runs` bounds how many exist at a time,
and one that waits for its tokens may outlive its session. `Subscribe` is split at its
unlock. Assumptions about paho, from how the client sets it up: sessions are clean;
`onConnectionLost` runs before the next `onConnect` (it is a goroutine of its own, but
a reconnect is a network round trip away); a publish between sessions is dropped at
QoS 0, or kept and sent, in no particular order, on the next session; the will of a
session is settled before its successor starts. `Availability` adds what `Run` and
`shutdown` do around the client; time is the age of the snapshot, which saturates above
the two thresholds that it is compared with: that of the manager (`Stale`) and that of
`Health.Ready`, a constant of `app.go`. A successful poll may set the age to anything: it
carries a `PolledAt` that was stamped before the lock.

### StateFlow
A register block holds a version number that the controller raises, so "older" and
"never read" (0) can be told. `Merge` copies the blocks of its own tier. `Source` says
which blocks go into a topic: `hvac_mode` mixes fields of the hot and medium tiers. A
tier stamps its partial snapshot with the clock at its last read (`stamp`), before the
lock, and every merge copies the stamp to `polledAt`. A tick of a tier's ticker changes
nothing by itself, so a tier that waits is one that has not read its first block.

### CommandPath
paho calls handlers one at a time (its default, ordered delivery). A message becomes
a list of commands, each guarded and then written. The controller follows the README's
hardware quirks: `Power_Dev` is edge-triggered, a change of power leads through a
transition phase, and in such a phase writes are acknowledged and ignored. `ignored` and
`before` are history. Late execution of timed-out writes is left out here: it is the
client's matter, checked in `ModbusClient`. Operation codes above 12 decode to
`OpUnknown`, which the guard passes like idle; "idle" stands for both.

### Registers
Masks and shifts are arithmetic. The state is one register whose bits the controller
flips, so all 65536 contents are reached, and each property reads it as the register it
is about. Setpoints are hundredths of a degree in a command and tenths on the wire.

### Entities
Each table of the code is a set of records: the catalog's rows, the blocks the poll
controller reads with the offset of every register it decodes, the entities `Build`
returns with the topics they read and write and, for each topic that Home Assistant
compares literally, the payloads the entity knows (modes, fan modes and actions of the
climate entity, on and off of the others), the ids `buildMessages` publishes, the ids `CommandSubscriber` listens to, the addresses of
`ApplyCommand`. The properties compare them over the state of `Registers`: the word is an
address for `PolledWhereCatalogued`, a register's content for `DiscoveryIsHonoured`, and a
mode register, a setpoint or a fan speed for `OfferedComesBack`. Names, units and JSON are
left out.

### Config
An environment gives every variable a content: unset, empty, a text, `NaN` or a number
(milliseconds for durations, tenths for floats). Defaults are kept by parser, since the
parser decides what is refused. `Validate` is split by the kind of check, not by the
order of the checks: they are all errors. `NewPanics` collects what the constructors
called by `New` insist on and the configuration decides.

### Lifecycle
`main` is where the main goroutine stands, from `config.Load` to the exit code. The tiers,
the manager and paho's handler are goroutines of their own; a publish is one step, since
the availability topic and the state topics have modules of their own. The discovery
configs are published one by one, each with the firmware label the publication began
with. `mqtt` is the connected flag, which is false for a while after `Connect` has
returned: paho runs `onConnect` in a goroutine. A publish with the flag set is taken to
reach the broker in order. Two of Go's `select`s have two ready cases now and then, and
are two actions. A birth message between `haStatus.Start` and `poller.Start` has the
effect of one just after it, so that boot steps are not split further.

## 3. Runs

| Run | Instance | Shows |
|---|---|---|
| `client` | 2 operations | mutex discipline, requests only on a connected transport, refinement of `AtomicModbus` |
| `link` | two operations, threshold 2, delays 1..3, durations up to 5 | no lost wake-up, no dial while the client counts as connected, a final shutdown after a signal, sound backoff; the link recovers and stays up, the supervisor ends on cancellation |
| `link_force_close` | one poller | violation, see section 6 |
| `mqtt` | 2 topics, 2 `onConnect` goroutines | no subscription is lost without a report |
| `availability` | 2 `onConnect` goroutines, no topics, thresholds 1 and 2 | will and retained topic under crash, loss and shutdown; topic and readiness settle on what the snapshots say |
| `availability_shutdown` | as above | violation, see section 6 |
| `state_flow` | 2 tiers, 3 blocks, 1 topic, 2 versions, 2 times | merges, `PolledAt`, and convergence of the state topics |
| `commands` | 1 setpoint, 1 value, queue of 1 | commands are written in order and success means effect; guard and handler are free again |
| `commands_mismatch` | as above | violation, see section 6 |
| `registers` | all 16-bit contents | encoding and decoding against reference definitions; the tables of `Entities` against each other |
| `lifecycle` | 2 tiers, 2 configs, environments with up to 2 deviating variables | no panic, a quiet shutdown that ends, configs that settle on the firmware version |
| `lifecycle_cancel` | as above | violation, see section 6 |

Why the bounds are enough. A lost update or a lost wake-up takes two operations; the
threshold of 2 separates a first failure from the one that signals; three delays show
growth and the clamp, and with durations up to 5 twice the largest delay overflows. Two `onConnect` goroutines give the overlap of an old session's
callback with a new session; a third would repeat it. Two versions tell new from old,
and with a tier of two blocks a poll fails between its reads; two times let a tier with
the older stamp merge last. A queue of one message
besides the one being handled gives every order of commands, since handling one changes
no field that outlives it except the controller's. `Availability` needs no topics: its
subscription steps leave the topic it is about alone, and `mqtt` runs them with two. In
`Lifecycle` the slow tier and another one tell "some tier has been read" from "the firmware
has been read", and of two configs one can be published before and one after an event; a
check of `Validate` looks at one variable or compares two. The safety results are
proved without any bound (section 5).

`CHECK_DEADLOCK FALSE` is used for `Availability` and `Lifecycle` only: at their ends the
process is gone.

Fairness. Every wait in an operation, a publish or a handler has a timeout, so those
steps are weakly fair; tickers tick. Steps that take `Client.mu` are strongly fair, since
a Go mutex hands itself to a waiter that has starved for a millisecond. `select` chooses
uniformly among ready branches, hence strong fairness for cancellation in the
supervisor. The controller frees the slot of a silent client (README, "TCP idle
timeout"). Time passes. The broker notices a dead session by its keep-alive. In `CommandPath` polls do
not fail for ever, and transition phases end. In `Lifecycle` only the main goroutine's
steps and those of a handler that has begun are fair: `ShutdownEnds` holds although tiers
and manager may hang for ever, which is what the timeouts of the waits are for. Nothing is
assumed about reachability, the broker or the registers beyond what each property states.

## 4. Properties

- `ModifyIsAtomic`: `ModifyHolding` takes effect at one instant, timeouts, late writes
  and reconnects included. `WireOnlyWhileConnected`: nobody sends on a transport another
  operation has found broken.
- `RecoveryArmed`: with the link down and the counter at the threshold, an idle
  supervisor has a signal coming. It is what allows `Trigger` to drop signals.
  `Recovers`, `StopsOnCancel`: the liveness counterparts. `Recovers` would be content with
  a link that flaps; `RecoveryIsStable` says that it does not once operations stop failing.
- `DialsOnlyWhenDown` (about the connected flag; the handler that may still be open is
  `link_force_close`), `ShutdownIsFinal` (after a signal), `OutageStartsAtMinDelay`,
  `DelaysGrow` (unless the product with the factor overflows, section 6).
- `NoSilentLoss`, `EventuallySubscribed`: between `Subscribe` and a concurrent
  `onConnect` no topic is forgotten, because the flag is set before the copy is made.
- `WillCovers`: whenever the session ends without a DISCONNECT the topic is not
  "online", or the will is still to come. `FreshGoesOnline`, `LaterStaleGoesOffline`:
  where the topic, and with it the answer of `/health/ready`, settles. The second needs a
  settled session; section 6 says why.
- `LatestNeverGoesBack`: no register field of the merged snapshot. `PolledAt`, which every
  tier writes, does go back; `PolledAtCatchesUp` says that it does not stay behind while
  polls succeed. `StateConverges`.
- `OkMeansDone`: a message handled without an error, none of whose writes the controller
  ignored, has had its whole effect. `KInv`, its inductive strengthening, includes
  `PowerBeforeMode`: what holds when only the first write of `heat` or `fan_only` succeeds
  (section 6 has what does not). `GuardOpensAgain`, `HandlerReturns`.
- `ModeWriteIsExact`, `SetpointIsNearest`, `ProblemMeansError`. `ClimateIsConsistent`: mode
  and action agree on "off", and heating is reported as far as code and comment agree on it
  (section 6).
- `PolledWhereCatalogued`: at every address the tiers decode exactly what the catalog has
  there. `DiscoveryIsHonoured`: every announced topic is served, no other one is, and the
  payload is one the entity knows exactly when it is not a fan register outside 1..10. `OfferedComesBack`: what the climate entity offers is accepted
  and comes back as itself.
- `NoPanic`: what `Load` accepts, `New` accepts, although `Validate` checks less than the
  constructors do. `ExitTellsCause`: exit code 0 only after a signal.
- `QuietAfterWaits`: past the waits, unless one has timed out, no tier and no availability
  callback is left that could publish after the "offline" of `Disconnect` (paho's handlers,
  which nobody waits for, still may). `ShutdownEnds`: a signal, at any point of
  the boot too, or a failed HTTP server ends the process.
- `LabelNeverForgets`, `LabelsSettle`: the firmware version on the discovery configs. It
  gets there only by the HA online callback; the boot publication says "unknown", and is
  refused when it comes before `onConnect`.

Each has a mutant of the code's model that breaks it (`PROJECT.json`).

## 5. Proofs

Proved by TLAPS, from the named assumptions on the constants only:

- `ModbusClientProofs`. `CInv` is inductive: an operation is inside exactly when it holds
  the mutex, the client is connected around it, what `ModifyHolding` has read is still in
  the register when it writes (`ReadIsFresh`), and a write in flight after a timeout is
  alone, with the client not connected (`LateIsAlone`). Atomicity is not inductive by
  itself: a timed-out write would undo a newer one, were it not that `connected` is
  cleared with the timeout and a new dial needs the old socket's slot. From `CInv`
  follow `WireOnlyWhileConnectedHolds` and the refinement `ModifyIsAtomicHolds`, with
  one step per action mapped to a step or a stutter of `AtomicModbus`.
- `ModbusLinkProofs`. Every step of the link is a step or a stutter of the client, so
  `CInv` carries over; `LInv` adds that the supervisor's dial is the mutex hold of
  `Connect` and that no dial is under way after the `ForceClose` of a shutdown by signal.
  The arithmetic is `NextDelayRange`: whatever an overflowing conversion gives, the next
  delay is in the range, or is the smallest `Duration` and the product of the largest delay
  with the factor is beyond it. Results: `TypeCorrect`,
  `RecoveryArmedHolds`, `DialsOnlyWhenDownHolds`, `ShutdownIsFinalHolds`,
  `OutageStartsAtMinDelayHolds`, `DelaysGrowHolds`, `LinkModifyIsAtomic`.
- `MqttClientProofs`. `MInv` adds to `NoSilentLoss` that the flag is set once the
  current `onConnect` is past its first step, which is what makes `Subscribe` send.
- `AvailabilityProofs`. `AvInv` adds to `WillCovers` that a will is due only between
  sessions; the result is `WillCoversHolds`.
- `StateFlowProofs`. `FInv`: the latest snapshot is not ahead of the registers, and what
  a tier has read is not older than what the latest snapshot has for it, which needs that
  a block belongs to one tier (`ReadsAssumption`). Results: `FInvariant`,
  `LatestNeverGoesBackHolds`.
- `LifecycleProofs`. `LifeInv` adds to the properties what carries them from step to step:
  what the first wait of `shutdown` has established still holds during the second; a
  shutdown without an error means a cancelled context; no tier runs before `Started`; and
  once a config carries the firmware version the slow tier has been read and no
  publication under way stamps anything else, which needs that the boot publication is over
  before a tier starts and that births come one at a time. `NoPanic` rests on
  `LoadedIsBuildable`, a lemma about every environment: an empty string cannot get
  through `Value`, and a duration that is not positive cannot get through `Validate`.
  Results: `LifeInvariant`, `NoPanicHolds`, `QuietAfterWaitsHolds`, `ExitTellsCauseHolds`,
  `LabelNeverForgetsHolds`.

- `CommandPathProofs`. `OkMeansDone` speaks of the end of a message only; `KInv` says how
  far the handler has got before it. The commands left are the tail of the message's list,
  those before it have been applied unless the controller ignored a write
  (`WrittenInOrder`), between the two writes of OFF the controller has seen the rising edge
  (`EdgeBeforeFall`, without which the falling one would switch nothing off), and "ok" comes
  after the last command only (`AllWritten`). A write keeps the commands before it applied
  because the commands of one message are of different kinds, so that no later one writes an
  earlier one's register; polls and transitions write none. `HvacProgress` adds, for `heat`
  and `fan_only`, what power and mode are while one or two commands are left. Results:
  `KInvariant`, `OkMeansDoneHolds`, `PowerBeforeModeHolds`.
- `RegistersProofs`. `WordInvariant`, which needs that a bit that is set can be taken off
  and one that is clear can be added without leaving 16 bits, bounds the register; the rest
  is a consequence of `word \in Word`. `ModeWriteIsExactHolds` divides the register by 4:
  bits 2..15 are bits of the quotient, which `ApplyToRegister` keeps.
  `ProblemMeansErrorHolds` needs that a word with no bit set but 12 (or 6) is 0 or that
  mask (`OnlyBit12`, `OnlyBit6`): above a clear bit the word is halved without a remainder.
  `SetpointIsNearestHolds` and `ClimateIsConsistentHolds` follow from the definitions.
  About the tables of `Entities`: `OfferedComesBackHolds`, `DiscoveryIsHonouredHolds` and
  `PolledWhereCataloguedHolds`, with a lemma per question (which ids `Build` has, what
  payload each sensor gets, which block an address lies in), so that no leaf looks at two
  tables at once.

Only model-checked: the liveness properties (`Recovers`, `RecoveryIsStable`,
`StopsOnCancel`, `EventuallySubscribed`, `FreshGoesOnline`, `LaterStaleGoesOffline`,
`PolledAtCatchesUp`, `StateConverges`,
`GuardOpensAgain`, `HandlerReturns`, `ShutdownEnds`, `LabelsSettle`), since fairness and
ENABLED are out of the prover's reach. Every invariant and every action property of a
passing run has a theorem.

## 6. Divergences

Kept as runs that end in a violation:

- `link_force_close`: `ForceClose` returns at once when `connected` is false, and a
  timeout clears `connected` without closing the handler; the next `Connect` replaces it.
  The port's contract says it tears the transport down "unconditionally".
- `availability_shutdown`: `Disconnect` publishes "offline" without waiting for a running
  `onConnect`, whose "online" may come second; the DISCONNECT then drops the will, and the
  topic stays "online" with the bridge gone.
- `commands_mismatch`: `heat` is SetPower and SetMode; when the second is rejected, for
  instance because the first has started a transition that a hot poll has seen, the unit
  runs in the old mode, which the comment on `handleHVACMode` excludes. The converse, a new
  mode without the power for it, is excluded (`PowerBeforeModeHolds`).
- `lifecycle_cancel`: after a failure of the HTTP server `shutdown` runs with the context
  live, where its comment says that it cancels it. Both waits then last until they time
  out, and tiers and manager go on publishing around the "offline" of `Disconnect`. The
  supervisor is not stopped either: it may dial again after `ForceClose`, which is why
  `ShutdownIsFinal` speaks of a signal only.

Met while modelling and not kept as runs:

- `setPower` calls `transitionGuard` for ON too; the comments at `apply_command.go:96` and
  `:209` and story 009 say that ON bypasses it.
- `onConnect` publishes "online" whatever the snapshot says: before the first poll
  (contrary to the comment on `AvailabilityManager`), and over an "offline" that the
  manager has reported and will not repeat. This is why `LaterStaleGoesOffline` starts
  from a settled session.
- The comment on `PublishDiscovery` says that configs are published again on a firmware
  change; `PublishIfChanged` has no caller, and the label stays "unknown" until Home
  Assistant comes online after the slow tier's first success.
- The comment on `Registers` says that polling iterates the catalog; the poll controller
  has addresses of its own. `app.go:50` speaks of 13 discovery configs; `Build` returns 16.
- `Backoff.Next` converts the product of delay and factor to a `Duration` before it clamps
  it, and `Validate` sets no upper bound to the factor, `+Inf` included. A product beyond
  int64 becomes the smallest one on amd64: the delay is negative from then on, `Next`
  returns 0 and the supervisor dials without a pause until it succeeds. `NaN`, which
  `Validate` lets through as factor and jitter, converts in the same platform-dependent way
  and is not modelled.
- `Validate` relates the availability threshold to no poll interval. The probes are served only after both
  initial connects have succeeded, so `/health/live` does not answer while the controller
  or the broker is away at boot.
- Every tier sets `PolledAt`, to a time stamped before it takes the lock: it goes back when
  a tier with an older stamp merges after another one. And a hot tier that fails for ever is hidden from availability and
  readiness by the others.
- Signals left in the channel during a reconnect tear down the new connection; with
  operations failing in every delay this can repeat, where story 007 speaks of "at most
  one extra wake-up".
- The guard reads the latest snapshot, the zero value included, so a write can be
  acknowledged and ignored where the README says commands are rejected.
- The first tier to succeed publishes zero values for the fields of the others. Sensor
  readings outside 5..30 degrees are published as 0.0.
- `Fan_Target_1` is published as it was read, and discovery offers the fan modes "1" to
  "10": the 0 of a snapshot that no hot poll has reached yet, or a larger value that the
  controller holds, is none of them.
- The comment on `hvacAction` ranks the preheat and fan transitions above an active heater,
  and story 012 (lines 36-42) only preheat, fan start and fan coastdown; the code ranks all
  twelve transitions above it, eight of them as "idle". With an active heater in one of
  those eight, comment and story give "heating", the code "idle". `ClimateIsConsistent`
  says nothing of them.
- `README.md:162` of the repository has the problem sensor on with "any Error_Code_* bit
  set"; bit 12 of Error_Code and bit 6 of Error_Code_3 do not count, as
  `error_code_test.go` confirms.

## 7. Not modelled

Logging and metrics (write-only), `PublishIfChanged` and `DeviceConfig` (nobody calls or
reads them), the router and the metrics handler, JSON, names, units and number formatting,
the prefixes of topics, jitter, the length of the guard interval and of the other waits.
Time is order only: no property speaks of seconds. paho's and the broker's insides are
assumptions (section 2). Messages that paho keeps between sessions are modelled for the
availability topic (`Availability`), not for the state topics and the configs.

## 8. Plan

1. The guard interval as time: no two requests closer than it, the power-off pause at
   least as long.
2. `CommandPath` over `ModbusLink`: commands during an outage.
