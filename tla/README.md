# Verification of the Arduinosy home-automation firmware

The repository is the firmware of several houses: Arduino (AVR) and ESP8266
controllers that move blinds, dim lamps, sound sirens and report sensors over
MQTT, with a small library of classes they share. This directory holds TLA+
models of that code, the TLC configurations that check them, and proofs that
hold for every size of system. Third-party code in the tree (board support,
RF24, sensor drivers, file systems, the Arduino IDE files, nearly all of its
lines) is not modelled, but for the time and packet behaviour of PubSubClient,
which decides when a controller takes its link for lost.

Paths below: `LIB` is `src/libraries/Common`, `HP` is `src/Arduinosy/_HotPlate`.

## 1. The system

Every controller has the same two contexts and nothing else:

* **the main loop**: `setup()` once, then `loop()` for ever. It talks to the
  broker; `client.loop()` calls `callback()` with one message at a time.
* **a timer interrupt** (every 1, 3, 10 or 100 ms) that counts time-outs and
  moves outputs. It is not preempted, and it may run between any two
  instructions of the main loop.

They share plain fields: nothing is `volatile`, no section disables interrupts,
and a 32-bit counter on the AVR takes four loads or stores. Almost everything
that can go wrong is in the order of those steps, in a reset (power or watchdog)
between them, or in the width of an integer.

### Components

| component | source | state | operations | properties that make it correct |
|---|---|---|---|---|
| class `roller` | `LIB/RollerLib/Roller.*` | on/off, direction, time-out counter, two active-low relays | `up`, `down`, `stop`, constructor; `checkTimeout` from the interrupt | the relays are what the fields say; never both relays on (but for two known instants); a blind is never driven longer than its time-out; a moving roller always has time left |
| roller controllers (garage, attic) | `HP/Arduino/Darunia/Darunia_Sterownik_Garaz...`, `.../Sterownik_rolet_EthernetShield_Mqtt_v1` | the table of rollers, link, position in `loop()` | `callback`, `mqttConnect`, `allRollerOff`, `allRollerSetState`, the interrupt, the watchdog | each roller does what it was last told; no link, no motion |
| wall switch (NRF24L01) | `HP/Arduino/Przycisk_rolet_v2.0_NRF24L01` | target and current motion, run timer, button timer, delay counter, button samples | `CheckButton`, `setRollerOutput`, `TimerLoop` | relays follow the target in time; bounded runs; a press toggles |
| class `relay`, sirens of the alarm | `LIB/RelayLib`, `HP/Arduino/Seraf/Alarm_EthernetShield_Mqtt_v2` | value, time-out, timer, pin | `setState`, `setTimeout`, `processTimer` | a siren stops at its time-out; the time-out runs out within the ticks asked for, whatever the interrupt splits |
| class `Dimmer`, outdoor lamps | `LIB/DimmerLib`, `HP/Arduino/Smykol/Oswietlenie_zew...`, `HP/ESP8266/CT_ESP8266_dimmer_v1.0` | level asked for, level reached, time-out, supply relay | `setValue`, `setTimeout`, `setDimmer`, `processTimer`, `callback`, `TimerLoop` | a lit lamp is fed; light lasts a full time-out and no longer; the ramp is smooth |
| motion-controlled dimmer | `LIB/DimmerPirLib`, `HP/ESP8266/Kuchnia_Wro_ESP8266_v1.1` | motion flag, light threshold, over a `Dimmer` | `checkSensors`, `setLightTrigger` | motion in the dark lights the lamp and keeps it lit |
| connection to the broker | `loop()`, `mqttConnect()` of every controller, `LIB/PubSubClient` | time of the last attempt, times of the last packets, ping outstanding, watchdog | the `else` branch of `loop()`; `connect`, `loop`, `subscribe`, `publish` of the client | attempts are spaced and come; a dead broker is noticed; a live one is not given up; no session without subscriptions |
| sensor classes, uptime | `LIB/IMqttSensor`, `LIB/MqttSensorLib`, `LIB/UptimeLib`, `loop()` of the alarm controller | value, changed flag, time flag, period timer | `doMeasure...`, `sendData...`, `processTimer`, `getUptime`, `sendIfChanged` | a change is reported unless its publish is lost |
| kitchen controller | `LIB/RollerLib/RollerRs485.*`, `HP/.../Darunia_Sterownik_Kuchnia...` | state and time-out per blind, the serial line all share | `up`, `down`, `stop`, `tick`, `callback`, `loop` | the line has last said what the rollers do; a blind told to move is told to stop |
| RS485 LED link | `HP/.../SterownikLedRS485-remote`, `.../RS485sendServerForLEDdriver` | receiver state, half-received values | bytes, 50 ms time-out | the receiver finds the frames again after any damage; a clean line sets only what is sent |
| CiFra frames | `src/Arduinosy/libraries/CiFra-simpleFrame` | message counter | `getFrame`, `getId`, `fletcher16` | a frame carries its fields |
| status LED, ftoa, Mux | `LIB/StatusLedLib`, `LIB/UtilsLib`, `src/Arduinosy/libraries/MuxLib` | LED mode and timer; none; none | | LED shows its mode |
| older code | `LIB/RelayPirLib`, `HP/.../Przycisk_rolet_v1.0`, DHT and Dallas classes | | | |

Interactions are calls and shared fields: `callback()` of a controller calls the
classes from the main loop, `TimerLoop()` calls their timer methods from the
interrupt; controllers meet only at the broker, which the models treat as an
environment that sends any message at any time.

The hard behaviours, each listed at its line under "hazards" in `PROJECT.json`:
the interrupt between two stores of one method; torn multi-byte counters;
time-outs racing the command that renews them; blocking reconnects while motors
run; resets in the middle of everything; unsigned and 16-bit overflow; publish
results that are ignored; frames applied before they are complete; a serial line
that the interrupt and the main loop write at the same time.

## 2. The modules

| module | models | state and actions |
|---|---|---|
| `RollerMotor` | nothing in the code: the abstract promise of class `roller`, per motor, about its two relays and the time since its last command | `Command`, `Start`, `Halt`, `Reverse`, `Tick`, `PowerLoss` |
| `Roller` | class `roller` | fields `state`, `direction`, `timer`; pins `pinUp`, `pinDown`; `pc`, `cur`, `op` are the call in progress. A call is `Up`/`Down`/`Stop`/`Construct`, then `Reload`, `Decide`, `WriteUp`, `WriteDown` (one step per store or `digitalWrite`); `Tick` is `checkTimeout()` of every roller; `Reset` is power or watchdog. `age` is history |
| `RollerController` | `setup()`, `loop()`, `callback()` of the garage and attic controllers; EXTENDS `Roller`, so that its method calls are the calls above | `main` and `i` are the position in the loops over `RollerTab`; `topic`, `cmd` the message; `link` the connection; `want` is history |
| `RollerSwitch` | the wall switch | `target`, `current`, `rollerTimer`, `buttonTimer`, `relayCount` are the globals; a step of `loop()` per access to a shared variable, byte by byte where a tear matters; `Tick` is `TimerLoop()`; `Touch` is a hand; `was`, `age`, `lag` are history |
| `Relay` | class `relay` and the siren part of the alarm's `callback()` | steps of `setState()` and `setTimeout()` in the main loop, both of which end in the two steps of `m_timer = m_timeout` (`StoreTimer`, `TimerStored`); `StoreTimeout` is the store before it, in two steps as well; `ProcessTimer` is the interrupt; `expired` and `running` are history |
| `DimmerLamp` | class `Dimmer` as three lamps use it, chosen by `kind` at the start: the AVR lamp and the ESP8266 lamp with their supply relay, and the kitchen lamp with class `DimmerPir` | `Receive` ... `Supply` are the steps of `callback()`, `Look` and `Light` those of `checkSensors()`; `Tick` is `TimerLoop()` in either order (`DimsFirst`); C arithmetic in `AsInt`, `AsULong`, `Quotient`; `fed`, `age`, `unlit` are history |
| `Link` | nothing in the code: the link as `loop()` sees it (`setup`, `up`, `down`, `trying`) | what may follow what |
| `MqttLink` | `setup()`, `loop()` and `mqttConnect()` of the garage controller as far as they are about the link, over `PubSubClient` | a step per packet or blocking wait; `Time` is a second of `millis()`, which wraps at `W`; the network, the broker and the watchdog are actions of their own |
| `MqttSensor` | classes `MqttSensor` and `uptime` under `loop()` of the alarm controller | `Pass` ... `Clear` are the steps of a pass over the sensors, `Tick` is `processTimer()` of all; `mode` is which method `loop()` calls for each; `broker` is what has arrived |
| `Rs485Link` | the LED server and remote | a byte at a time: `Send`, `Deliver`, `Damage`; `Take` is one turn of the receiver's `switch`; `Pass` the rest of the remote's `loop()` |
| `RollerRs485` | class `RollerRs485` and the kitchen controller | `Call`, `Set`, `Println` are a method call; `Text` is debug output; `Tick` stops what has run out and prints, perhaps into main's line (`torn`); `said` is the last whole command |
| `MC...` | instances for TLC | |
| `RollerProofs` | theorems about `Roller` and `RollerController` | |
| `AlarmProofs` | theorems about the two modules of the alarm controller, `MqttSensor` and `Relay`, whose operators have names of their own (`RelayInit`, `relayVars`) so that both can be extended | |
| `RollerSwitchProofs`, `DimmerLampProofs`, `MqttLinkProofs`, `Rs485LinkProofs`, `RollerRs485Proofs` | theorems about the modules of those names | |
| `DivisionLemmas` | quotients and remainders: what the proofs know of bytes, wrapping counters and rates | |

How they fit together. `RollerController` EXTENDS `Roller`. `Link` is the
contract between a controller's program and its connection: `MqttLink`
implements it from the side of the client (`LinkSpec` of run `link`), and
`RollerController`, whose `link` variable says nothing of keepalive or packets,
is shown to ask no more of it (`LinkSpec` of run `controller`). `RollerMotor` is
what `Roller` promises.

Choices worth knowing when reading them against the code:

* **Roller.** Global objects are zeroed memory before their constructors run (0
  is `ROLLER_ON` and `ROLLER_DOWN`); the constructor makes both pins outputs
  while their latches are 0, which draws both active-low relays until the two
  `digitalWrite` (Roller.cpp:17-20). `digitalWrite(pin, m_state)` may use the
  stored value or load the field again after an interrupt (`Written`).
  `m_activeState` is not used by the class. The four byte stores of
  `m_timeout_timer` count as one: stored from the lowest byte, with the
  time-outs in use (10000 and 300), a tick in between gives the same result as
  one after.
* **RollerController.** The controllers were written for an older constructor
  of `roller`; the calls are modelled, not the arguments. The subscribe topic of
  `callback()` is never subscribed to, so that branch is left out. The three
  seconds between attempts to reconnect are open: every pass of `loop()` without
  the link may or may not try; `MqttLink` has them exactly.
* **RollerSwitch.** `zeroDetection()` sets a flag that nobody reads and
  `ReceiveMqttMsg()` is empty; both are left out, as is the debug output, whose
  time is covered by letting any number of ticks pass outside
  `setRollerOutput()`. A load of `ButtonTimer` may look 0 when the timer stands
  at 255 (`ReadsZero`), and a store of 0 to `RollerTimer` may leave 255
  (`StopLow`, `StopHigh`).
* **Relay.** `Stored` is the line that loses the argument. `Write` allows both
  compilations of the expression in `digitalWrite()`. `m_timeout` and `m_timer`
  are four bytes each and any message may set any time-out, so their stores are
  split: an interrupt finds the lower bytes new and the upper ones old, or the
  reverse. `Bytes` says where the split is (2^8, 2^16 or 2^24); one store is
  short beside the interrupt's period, and one split of it is modelled.
* **DimmerLamp.** Starts when `setup()` is over. Percent, levels and minutes are
  numbers; payload text is not modelled. A square above 32767 may wrap or be
  divided unsigned, as compilers may do either. `DimmerPir::setPirFlag()` is not
  there: the controller builds `DimmerPir` with the dimmer's own topic, which
  `callback()` tests first, so the flag stays true.
* **MqttLink.** Topics and payloads are left out; a connection, its packets in
  order and the seconds that pass are kept. A broker in reach answers within the
  second, and a pass of `loop()` that does not block takes at most `PassTicks`.
  TCP's own time-out is longer than the watchdog's period, so a connect to a
  broker out of reach ends in a reset. Packets arrive whole: one that stalls
  half-way holds `readByte()` (PubSubClient.cpp:209-219) until its rest or the
  watchdog comes. The delay of `setup()` after a first attempt that failed is
  left out, and with it how soon `loop()` may try for the second time
  (`AttemptsSpaced` is about the attempts of `loop()`).
* **MqttSensor.** Periods are two bytes long and stored byte by byte in either
  order. A low byte of 0 would let an interrupt find the timer at 0 and wrap it;
  the periods in use (333 and 10000) have none, which is an assumption of the
  module. A pass of `loop()` with the link up takes fewer interrupts than a
  period; one that waits for a connection may take any number (`Tick` counts
  `busy` only with the link up). `doMeasureIfItsTime()` and the plain send methods have no caller.
* **Rs485Link.** The server sends one frame after another; a byte may be lost or
  altered, and either end may restart at any byte.
* **RollerRs485.** What a receiver of the line does is not in the repository; a
  command counts as said when it has a line of its own. The dimmer of the same
  controller only matters as a topic whose messages print but move nothing. All
  that main prints is there: commands, messages, the loss of the link and, with
  the link up, the text of class `uptime` (`Uptime`), which comes once a minute
  in the code and in any pass of `loop()` in the model.

## 3. The runs

| run | question | bounds | states |
|---|---|---|---|
| `roller` | Do relays and fields agree, is the interlock kept, is driving bounded, does the class implement `RollerMotor`, and does every relay go off when commands cease? | 2 rollers, time-out 3, one tick per call, counters to 7 | 38,514 |
| `controller` | Does each roller do what it was last told; does a pass without the link end with all relays off, always; is the link used as `Link` says? | 2 rollers with own topics and the common one, time-out 2 | 311,606 |
| `switch` | Do the relays follow, is a run bounded, does a press toggle, does an untouched switch stop its blind? | time-outs 5 and 4, a byte of 3 values, delay 1, one tick per call | 457,728 |
| `relay` | Is a time-out over in the ticks asked for, however its stores are split? | 2 sirens, time-outs 0, 4, 5, 8, an unsigned long of 16 values, 4 in its lower bytes | 696,230 |
| `siren_silence` | Does the time-out silence a siren? **No** (section 5) | the same | |
| `lamp` | Is a lit lamp fed, and lit for a time-out and no longer; does motion in the dark light it; does the brightness settle? | three kinds, levels 0-3, a byte of 3 values, an unsigned long of 16, overflowing minutes | 101,029 |
| `lamp_levels` | Is dimming smooth at every level? | all 255 levels, 16-bit int, no time-out | 449,533 |
| `link` | Is a dead broker noticed and a live one kept, do attempts come and keep their distance, is no session deaf, does the link come up for good when it can? | 16 seconds of `millis()`, keepalive 3, one pass a second, 2 packets waiting | 2,963,014 |
| `sensors` | Does the broker have the value when input and link are quiet? | 2 sensors, both uses (changes beside everything, changes beside uptime), period 3, a byte of 2 values | 3,354,716 |
| `rs485` | Does the remote find the frames again, and take nothing else from a clean line? | bytes of 16 values, sizes below 3, 2 faults, time-out 12 | 2,042,458 |
| `kitchen` | Has the line last said what the rollers do, does every move end, does the loss of the broker stop every blind? | 3 rollers on one topic, time-out 5, two ticks per round of calls | 36,818 |
| `kitchen_topics` | Does the kitchen get the topics it lists? **No** (section 5) | the same | |

Why these bounds are enough to be of use. Rollers and sirens share only the
interrupt, which treats each alone, and the main loop, which calls one at a
time: two show every interference there is, one in a call and one not. A
time-out of 3 with one tick per call lets a tick fall before, inside and after
every step of a call while the time-out still expires inside and outside calls.
A byte of three values makes counters two bytes long, so that tears happen. The
bounds named in the models are `HandlerTicks` (ticks that hit one call: a call
lasts microseconds, a tick at least a millisecond; a round of printing calls in
the kitchen takes a few), `PassTicks`, `MaxInbox`, `ULongMax`, `MaxDrive`,
`MaxRun`, `MaxAge`, `MaxQuiet` and `LastCount` (caps of history variables, which
only properties read). `W` of `MqttLink` is as small as its assumption allows, so
that the counter wraps several times in every run through the states. No run
switches deadlock checking off: a reset is always possible.

Every module has a type invariant (`TypeOK`, `CtrlTypeOK`, `RelayTypeOK`). Where a
run checks the inductive invariant that contains it (`SwitchInv`, `LampInv`,
`ClientInv`, and `CtrlTypeOK` of `RollerController`), that invariant is in the
component's module. The others (`IInv`, `CtrlInv`, `SensorInv`, `KitchenInv`,
`PristineInv`, `RecoverInv`) are steps of a proof rather than promises of the code
and are in the proof modules. Each of them was checked by TLC before it was
proved, and so were `StopInv` and the step counts of section 4, by an
instance module that extends the proof module and has the constants of the run.

Properties that say more than they seem to:

* `RunsOut` is tight: the `Bytes` are there because an interrupt that comes with
  the lower bytes stored and the upper ones not may borrow and leave the timer a
  lower byte too high. Calls in progress are exempt; a call that an interrupt
  has split starts the time-out anew with its last store. `RunsOut` says when
  the time-out is over, not that the siren is silent then (section 5).
* `DriveBound`: a relay is off `Timeout + 2*HandlerTicks` ticks after the last
  command. The two extra terms are real: ticks between the reload of the counter
  and the store of `m_state`, and between `stop()`'s store of `m_state` (after
  which the interrupt no longer looks) and its last `digitalWrite`. A roller that
  gets one command after another has no bound, in the code as in the model.
* `Interlock` names the only two instants in which both relays of a motor are
  on: inside `up()` when it reverses, and inside the constructor.
* `RunBound` is tight: with `MaxRun` one smaller TLC finds a longer run.
* `Toggles` holds although an earlier torn store may have left a stale value in
  `RollerTimer`, because `setRollerOutput()` starts the timer before it sets the
  target.
* `FullTime` and `LightBound` bound the light from both sides, between calls. The
  exception in `FullTime` is a real race: a time-out that runs out inside
  `callback()` takes the new level with it, and one that is half stored may run
  out there. The time-out is the one that `callback()` computes, overflow
  included.
* `SmoothDimming`: `analogWrite` keeps eight bits, which undoes the overflow but
  for one part in 255 (full light comes out as 254).

* `MotionLights` allows two passes of `loop()`: the time-out may run out in the
  interrupt just after `checkSensors()` has seen the lamp lit, and then the next
  look lights it again.
* `RetryComes` has the exception the code has: after an attempt that succeeds,
  `lastMqttReconnectAttempt` is 0, and while `millis()` is in its upper half a
  signed difference with 0 is negative, so a link lost then is not tried again
  for up to 24.8 days. No document of the repository speaks of it.
* `KeepsAlive` and `DeadBrokerNoticed` need two passes more than the keepalive:
  a test with `>` and a pass between two looks at the clock.
* `SessionsLast` is about sessions with a broker that is there and in reach
  (`steady`); it is a property of a client that reads its packets within the
  keepalive, which the run's constants just allow (`Prompt`): with a keepalive of
  2 TLC finds a session given up whose `PINGRESP` waits behind another packet.
* `Reported` excepts a publish on a link that is already gone: `sendData()`
  clears its flags whatever `publish()` returned. For the mode that sends
  everything, nothing is excepted.
* `Recovers` of `Rs485Link` bounds the number of frames lost after any damage;
  a size byte of 0 makes the receiver read on, and its 50 ms time-out ends that.
  It ends no good frame: its clock starts over with each frame that is followed,
  and a frame is shorter than the time-out.
* `LineTells` holds because all three rollers have one topic: the commands name
  no blind. It and `MoveEnds` except (`told`) a "Stop" of the interrupt that
  falls into another text, a command, a message, "Disconnected" or the uptime,
  and is the only one, and a restart while a blind moves. They do not show that
  a time-out is heard: a lone "Stop" may be lost at any time, also with the link
  up and no message. `OfflineSays` covers both once the link is lost.

### Fairness

Weak fairness of the main loop's steps (`Step`, `Run`, `Main`, `Callback`): the
processor runs. Weak fairness of the interrupt (`Tick`, `Interrupt`): the timer
is periodic. Strong fairness of `Look` in `DimmerLamp`: `loop()` comes to
`checkSensors()` again and again, however often a message or a blocked connect
is in between. In `MqttLink`, weak fairness of time, of the watchdog and of a
broker that is in reach. Nothing else is assumed of messages, hands, resets or
the link; the liveness properties that need quiet say so in their premise
(`Quiet`, `<>[][~Hand]_vars`, `<>[][~Message /\ ~Reset]_vars`, `<>[]~motion`,
`<>[]reach`).

## 4. The proofs

What is proved holds for every value of the constants that the assumption of the
module allows: any set and table of rollers, sensors or sirens, any topics,
time-outs, periods, levels, and any width of a byte, an `int` or a counter.

| module | theorem | establishes |
|---|---|---|
| `Roller` | `TypeCorrect`, `PinsCorrect`, `AlwaysArmed`, `InterlockCorrect`, `DriveBounded` | `TypeOK`, `FieldsMatchPins`, `Armed`, `Interlock`, `DriveBound` |
| | `Refinement` | the class implements `RollerMotor` |
| `RollerController` | `Composition` | the controller uses its rollers only as class `roller` allows, so all of the above holds of it |
| | `CtrlTypeCorrect`, `MessagesObeyed`, `OfflineStopsAll` | `CtrlTypeOK`, `LastMessageWins`, `OfflineStops` |
| | `AsksForLink` | it uses its connection as `Link` describes it |
| | `LossStopsInSteps`, `StepsAreCounted` | `LossStops`: the loss of the link stops every relay in at most `14*ROLLER_COUNT + 9` steps of the main loop |
| `MqttLink` | `SessionsSubscribed`, `ClientKeepsAlive`, `SilenceNoticed`, `RetriesCome`, `TriesSpaced` | `NeverDeaf`, `KeepsAlive`, `DeadBrokerNoticed`, `RetryComes`, `AttemptsSpaced` |
| | `SessionsStay` | `SessionsLast`, under `Prompt`: nothing ends a session with a broker that is there |
| | `ClientInvariant` | `ClientInv`, with the types |
| | `ClientImplementsLink` | the client implements `Link` |
| `RollerSwitch` | `RelaysAreTargets`, `RunBounded`, `SwitchArmed`, `PressToggles`, `SwitchInvariant` | `RelaysFollow`, `RunBound`, `Armed`, `Toggles`, `SwitchInv` |
| | `RunsAreNumbered` | `PressesRunOut`: without a hand at most three runs start |
| `DimmerLamp` | `SupplyIsOn`, `LightBounded`, `MotionIsLit`, `TimeIsFull`, `DimsSmoothly`, `LampInvariant` | `SupplyOn`, `LightBound`, `MotionLights`, `FullTime`, `SmoothDimming`, `LampInv` |
| | `LampSettlesInTicks` | `SettlesInTicks`: without messages and motion the lamp settles in at most `4*MaxLevel + 3` interrupts that find it unsettled |
| `MqttSensor` | `TimersBounded`, `ValuesReported`, `SensorInvariant` | `TimerBound`, `Reported`, `SensorInv` |
| `Relay` | `TimeoutRunsOut` | `RunsOut` |
| `RollerRs485` | `LineIsTrue`, `MovesEnd`, `KitchenInvariant` | `LineTells`, `MoveEnds`, `KitchenInv` |
| | `StopsGetThrough`, `StopsInSteps`, `StepsAreCounted` | `StopsComplete`, `StopsProceed`: the loss of the broker stops every blind, on the line too, in at most `3*ROLLER_COUNT + 3` steps |
| `Rs485Link` | `NothingElseSet`, `FramesFoundAgain` | `NothingElse`, `Recovers` |

The two refinements of `Link` together say that nothing in `RollerController`
relies on a link that the client, with its reconnect clock and keepalive, does
not give.

**Assumptions that carry weight**, and where the code has them:

* `RollerAssumption`: `Timeout > HandlerTicks`. A time-out (10 s and more)
  outlives the call that reloads it (microseconds). Without it a roller could be
  stopped by the command that starts it.
* `SwitchAssumption`: the low byte of a time-out outlives the stores of its other
  bytes (30000 is `0x7530`, 5000 is `0x1388`), and the run the relays' delay.
* `LampAssumption`: a call of `callback()` or a pass of `checkSensors()` takes at
  most `Byte + MaxLevel`, 511, interrupts of 10 ms. A call switches the supply on
  at its end, over a lamp whose light may be over by then (`DarkInv`), and
  `LightBound` allows that only within as many interrupts after the period.
* `Widths`, the hypothesis of `DimsSmoothly` only: an int holds as many values as
  the square of the number of levels (2^16 and 256, the AVR), or no square of a
  level overflows it (the ESP8266). The small instance of run `lamp` does
  not have such widths, that of `lamp_levels` has.
* `LinkAssumption`: `PubSubClient`'s two times are 15 s; the delay before a
  subscription is 2 s and a pass of `loop()` of the order of a second; the
  watchdog outlives a delay and a pass; and `W`, 2^32 ms in the code, is more
  than twice every time that is measured, or differences of `millis()` would be
  taken for negative ones.
* `Prompt`, the hypothesis of `SessionsStay` only: more than one packet may wait,
  and `(MaxInbox + 1) * PassTicks <= MQTT_KEEPALIVE`. `loop()` reads one packet a
  pass and looks at the clock before it reads, so a broker that keeps more
  waiting than are read in a keepalive (15 s) delays its own answer to the ping
  until the client gives it up, answer unread.
* `RelayAssumption`: an unsigned long is a number of whole lower parts.
* `SensorAssumption`: no period has a low byte of 0 (333 and 10000 have not); an
  unsigned long is a number of whole bytes; a pass takes fewer interrupts than a
  period (1 s and 30 s at 3 ms); `loop()` asks every sensor.
* `Rs485Assumption` of `RollerRs485`: all rollers have one topic, as the program
  gives them (lines 35 to 37); a round of calls is shorter than the 30 s time-out.
* `Rs485Assumption` of `Rs485Link`: marks are letters, ids are 10 to 12, sizes
  below 10, so that `H` is no other mark and no id, `I` is not `B`, and no mark
  is a size; the time-out of 50 ms is longer than a frame, 16 ms at 4800 baud.

**The argument for class `roller`.** None of the safety properties is inductive:
they speak of the time between calls and say nothing of the middle of one. `IInv`
adds, for each position of the call, what the two relays are (`PinsInCall`),
what the fields are (`FieldsInCall`), which method may be there (`CallShape`),
and how much of the time-out is left: `Fresh` (a reload of this call has lost at
most this call's ticks), `Budget` (time left plus time since the command is at
most `Timeout + HandlerTicks`) and `Stopping` (a relay still on inside `stop()`
has at most the call's own ticks more than that). `Budget` and `Stopping` are
what makes `DriveBound` inductive: the interrupt stops a moving roller within
its budget, and `stop()` takes over the budget of the roller it stops.

**The controller.** `CtrlInv` says who still has to be reached by the loop that
is running (`Pending`) and that everybody else already follows `want`
(`Follows`, in terms of the fields); `Sweeping` is the same for
`allRollerOff()`. `Obeyed` follows from `CtrlInv` and `FieldsMatchPins`.

**The connection.** `NeverDeaf` does not survive a failed attempt by itself:
`LinkInv` adds that a connect begins without a socket, so that none is left over
when it fails, and that `setup()` is over when `mqttConnect()` is not running, so
that a return from it is never taken for a restart. The timing properties each
have a part of `ClientInv`. It relates the history clocks, which never wrap, to
the program's differences of `millis()`, which do: `OutInv` says that
`Since(lastOut)` is the time since the last packet as long as that is short
enough to matter, and what each position of a pass may add to it; `InInv` gives a
packet that waits behind others the passes that are left to them (`Room`);
`SpacedInv` and `RetryInv` follow an attempt through the delay and its failure;
`SteadyInv` finds the awaited answer on its way or in the buffer. `DivisionLemmas` has the fact
they rest on, that a difference of two readings taken less than `W` apart is the
time between them.

**The sirens.** While a call stores a time-out or the first half of a timer,
nothing holds (`Storing`). Once the upper half of the timer is stored it is never
above that of the time-out, for a tick only lowers it (`Half`). From the last
store on, the ticks that a time-out has had and the timer that is left stay
below the ticks asked for, rounded up (`Lasts`): an interrupt raises the one and
lowers the other.

**The wall switch.** `SwitchInv` says which steps of `setRollerOutput()` may be
under way (`CallShape`), what a half-stored timer may hold (`Stored`), how long
the relay has been waiting for its delay (`Delaying`) and how the time of the run
adds up (`Lasting`). `Toggles` follows from `CallShape`: between the test of a
press and the end of its call the interrupt can only stop what is stopped.

**The lamps.** `StoreInv` bounds what the low byte of a half-stored `m_timer` may
be; `ExpiryInv` says that time left and time since the message make up a period,
give or take the interrupts of one call, and that after an expiry the brightness
is on its way down; `SupplyInv` and `DarkInv` tie the supply to the brightness,
`MotionInv` the unlit time to the position in `checkSensors()`. `DimsSmoothly` is
arithmetic: when the square of a level overflows, the quotient that is rounded
towards 0 and cut to a byte is that of the square less 2 (`WrappedSquare`), so
from one level to the next the dividend grows by less than twice the divisor.

**The sensors.** `TimerInv` bounds a timer by its period's bytes (`Within`: the
high byte never above the period's). The measure behind `Reported` is `Wait(s)`:
how many interrupts a sensor is from its next report, by the position of `loop()`
(`Ahead`, `Due`). `WaitInv` says that `quiet + Wait` never exceeds `LongestWait`
while there is something to report: an interrupt raises one and lowers the
other, and a step of `loop()` lowers `Wait` or leaves it alone.

**The kitchen.** The line has one voice for all rollers, so the invariant has to
say what the *others* do. Between rounds of calls (`RestInv`) all that move, move
the same way, with timers that differ by at most a round's interrupts, and when
one has stopped the others are about to. In a round (`RoundInv`) the rollers that
have been called have at least `Timeout - busy` left, so none of them can stop
before the round is over, and those told already do what the command says. The
assumption that the topics are equal is what makes a round reach all or none
(`SameTopic`).

**The LED link.** The remote may be switched on anywhere in a frame, and a light
or a checksum may look like a mark, so states and positions do not correspond one
to one. `PristineInv` says that the bytes of the line come from consecutive
positions of frames, perhaps with a start over between two of them (`InOrder`),
and from which positions the byte may come that each state reads next
(`Awaited`). A state past `StartBit2` needs an `H` and an `I` in a row, which
happens at three places only; at the wrong ones the next byte is a mark, and no
mark is a size. Where a size is read it is therefore 1 and where an id is read it
is the one that is sent, or an `H` that is none.

`Recovers` needs the opposite view, from the byte that the remote reads next
back to the last fault. `Stream` numbers the server's bytes around all values of
the light; `Contiguous` says that those on the line since the fault are
consecutive numbers, and `Upcoming` is the number of the next one. `RecoverInv`
divides the time since the fault: the remote is `Lost` until it first comes to
`StartBit1`, which the time-out bounds; then `Waiting`, in which an `H` that is no
start costs no more than the frame it is in, since a size never follows; then
`Following`, on time for every byte of a frame; and `Done`, with the light of
the frame that ended. `FramesToRecover` is what `Lost` and `Waiting` together can
take, rounded up to frames.

**What liveness rests on.** A proof of `<>` needs fairness, with `ENABLED` and an
induction over a temporal formula that the installed provers do not have. What is
proved is the rest of each argument: a count that every fair step lowers, that no
other step raises, and that ends in the state the property asks for.

| liveness property | proved | the count or the bound |
|---|---|---|
| `LinkLossStops` | `LossStopsInSteps` | `StepsLeft`: four steps of a call, five and four for each roller of the loops of `callback()` and `allRollerOff()` |
| `OfflineSays` | `StopsInSteps` | `StepsLeft`: three for each roller |
| `EventuallyOff` | `DriveBounded` | `Timeout + 2*HandlerTicks` interrupts after the last command |
| `EventuallyStops` | `RunsAreNumbered`, `RunBounded` | `PressesLeft` runs, each no longer than `MaxRun` |
| `Settles` | `LampSettlesInTicks` | `TicksLeft`: the way to the level asked for, and once more to darkness |
| `Recovers` of `MqttLink` | `RetriesCome`, `SilenceNoticed`, `SessionsStay` | an attempt comes, a dead session ends, a live one stays; that one attempt succeeds in the end, between resets of the watchdog, is TLC's part |

`GivingUp` says from where the program cannot but come to the end of its loop
over the rollers: from the pass that finds the link gone, and from the middle of
any method or loop before it. In the kitchen `StopInv` adds that by the last
"Stop" of a round nobody moves any more, so no interrupt prints into it. In the
wall switch a press needs the sample that `CheckButton()` has taken (`Sampled`)
and the one it is compared with (`Compared`); a button held or let go gives at
most one release more, and an input already judged one start (`ToObey`). `Live`
says of a session where the answer to its ping is: still owed, which takes time
only while the buffer is full and the pass of the ping is not over (`Owed`), or
in the buffer, and the packet at place `k` of it is read within `Due(k)`
(`Arrived`); so the client has heard and said something within the keepalive
when it looks at the clock. A pass that has reset the watchdog has it no older
than itself.

Checked by TLC only: the liveness properties themselves (`EventuallyOff`,
`LinkLossStops`, `EventuallyStops`, `Settles`, `Recovers` of `MqttLink`,
`OfflineSays`). Every safety and action property of the runs that pass is
proved, `SessionsLast` under its hypothesis.

## 5. What was found

* `relay::setState()` stores `On` whatever its argument (Relay.cpp:30). The
  constructor's, the message's and the time-out's `Off` all switch the siren on;
  `Defines.h:9` of the alarm gives it a time-out of 180 s. Run `siren_silence`
  is the trace.
* The kitchen's `Defines.h` lists eight topics under `// Subscribe` (line 28);
  `sendAllSubscribers()` subscribes to three of them, because all three rollers
  are built with the topic of the living room. Run `kitchen_topics`.

Seen while modelling, where no document says what should be and so no run says
that it should not: a `setup()` that asks for full light with the supply off
(`SupplyOn`), reconnects that stop for 24.8 days (`RetryComes`), a change that is
never reported because its publish failed (`Reported`), a "Stop" lost in debug
text, the uptime's included, and a blind left moving by a restart (`MoveEnds`), a checksum that the RS485
remote does not test (line 136 is commented out, so that a damaged frame may set
the lamps).

## 6. Not modelled, and the plan

Not modelled, with the reason:

* third-party code: board support, drivers, IDE files, several copies of each;
  it is over 99 % of the lines of `src/`, and the modules treat what the firmware
  uses of it as external actions;
* `Mux` (sequential, no shared state), `ftoa` (formatting), the status LED (a
  race there shows one wrong blink and nothing reads it);
* CiFra frames: the one program that includes the library builds a frame and
  never sends it;
* `relayPir`, the DHT and Dallas classes: written for older interfaces, they do
  not compile against the library;
* the v1.0 wall switch: `RollerSwitch` without the time-out that its properties
  are about;
* the temperature and current measurements of the lamps' controllers; the web,
  display and test sketches of the tree.

What could come next:

* the attic controller's five rollers are `RollerController` with another table,
  which the proofs cover and no run does;
* how long a client takes at most to find the broker again: `RetryComes` bounds
  the wait for an attempt, not the number of attempts that the watchdog may cut
  short while the broker comes and goes.
