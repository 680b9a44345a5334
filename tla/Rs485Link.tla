------------------------------ MODULE Rs485Link ------------------------------
(***************************************************************************)
(* The LED driver on RS485: the loop of the server                         *)
(* (RS485sendServerForLEDdriver) sends frame after frame,                  *)
(*       'H' 'I' size id value checksum 'B' 'Y'                            *)
(* over a line that may lose or alter bytes, and the remote                *)
(* (SterownikLedRS485-remote) takes them apart byte by byte.  Either may   *)
(* be restarted at any time.                                               *)
(*                                                                         *)
(* Time is counted in bytes on the line (2 ms at 4800 baud).               *)
(***************************************************************************)
EXTENDS Integers, Sequences

CONSTANTS
  N,                      \* values of a byte
  H, I, B, Y,             \* the four marks
  MaxSize,                \* sizes are below it: 10
  dimmerSpeedID, led1PwmID, led2PwmID,
  RS485Timeout,           \* 50 ms
  Noise,                  \* what a damaged byte may look like
  MaxFaults,              \* most damaged bytes and restarts of the server
  MaxBehind,              \* bytes that may arrive during one pass of loop()
  MaxClean                \* cap of the count of clean frames

Byte == 0 .. N - 1
Ids  == {dimmerSpeedID, led1PwmID, led2PwmID}

(* The marks are letters; the ids are 10, 11 and 12; a frame takes 16 ms   *)
(* of the time-out.                                                        *)
ASSUME Rs485Assumption ==
  /\ N \in Nat /\ MaxSize \in 2 .. N
  /\ {H, I, B, Y} \union Ids \union Noise \subseteq Byte
  /\ \A byte \in {H, I, B, Y} \union Ids : byte >= MaxSize
  /\ H \notin {I, B, Y} \union Ids /\ I # B
  /\ led1PwmID # dimmerSpeedID
  /\ RS485Timeout \in Nat /\ RS485Timeout >= 6 /\ MaxFaults \in Nat
  /\ MaxBehind \in Nat \ {0} /\ MaxClean \in Nat

VARIABLES
  pos, pwmLight,          \* the server: next byte of the frame, value of the frame
  line,                   \* bytes in the receive buffer of the remote
  behind,                 \* bytes that have arrived in this pass of loop()
  receiveState, payloadSize,
  parameter,              \* which variable the pointer points to
  value,                  \* dimmingSpeed, Led1Pwm, Led2Pwm
  CRCcheck,
  toSet,                  \* DimmerSpeedToSet, Led1PwmToSet, Led2PwmToSet
  timer,                  \* millis() - rs485timer, up to RS485Timeout + 1
  sent,                   \* history: value of the last frame sent to its end
  clean,                  \* history: frames ended since a byte was damaged or one restarted
  faults,                 \* damaged bytes and restarts of the server so far
  pristine                \* history: no byte was damaged since the remote was started

serverVars == <<pos, pwmLight, sent>>
remoteVars == <<receiveState, payloadSize, parameter, value, CRCcheck, toSet>>
pastVars   == <<clean, faults, pristine>>
vars       == <<serverVars, line, behind, remoteVars, timer, pastVars>>

Parameters == {"speed", "led1", "led2"}
States == {"StartBit1", "StartBit2", "PayloadSize", "PayloadId", "PayloadValue",
           "CRC", "EndBit1", "EndBit2"}
Frame(v) == <<H, I, 1, led1PwmID, v, (led1PwmID + v) % N, B, Y>>

Default == [p \in Parameters |-> IF p = "speed" THEN N - 1 ELSE 0]

TypeOK ==
  /\ pos \in 1 .. 8 /\ pwmLight \in Byte /\ sent \in Byte
  /\ line \in Seq(Byte) /\ behind \in 0 .. MaxBehind /\ Len(line) <= behind
  /\ receiveState \in States
  /\ payloadSize \in -RS485Timeout .. MaxSize - 1
  /\ parameter \in Parameters \union {"none"}
  /\ value \in [Parameters -> Byte] /\ toSet \in [Parameters -> Byte]
  /\ CRCcheck \in BOOLEAN
  /\ timer \in 0 .. RS485Timeout + 1
  /\ clean \in 0 .. MaxClean /\ faults \in 0 .. MaxFaults /\ pristine \in BOOLEAN

(* The remote is switched on at some moment of the server's frames.        *)
Init ==
  /\ pos \in 1 .. 8 /\ pwmLight \in Byte /\ sent = (pwmLight - 1) % N
  /\ line = <<>> /\ behind = 0
  /\ receiveState = "StartBit1" /\ payloadSize = 0 /\ parameter = "none"
  /\ value = Default /\ toSet = Default /\ CRCcheck = FALSE
  /\ timer = 0
  /\ clean = 0 /\ faults = 0 /\ pristine = TRUE

-----------------------------------------------------------------------------
(* The server, and what becomes of its byte on the line.                   *)
Send ==
  /\ pos' = (pos % 8) + 1
  /\ pwmLight' = (IF pos = 8 THEN (pwmLight + 1) % N ELSE pwmLight)
  /\ sent' = (IF pos = 8 THEN pwmLight ELSE sent)
  /\ behind < MaxBehind /\ behind' = behind + 1
  /\ timer' = (IF timer <= RS485Timeout THEN timer + 1 ELSE timer)
  /\ UNCHANGED remoteVars

Deliver ==
  /\ Send
  /\ line' = Append(line, Frame(pwmLight)[pos])
  /\ clean' = (IF pos = 8 /\ clean < MaxClean THEN clean + 1 ELSE clean)
  /\ UNCHANGED <<faults, pristine>>

Damage ==
  /\ Send
  /\ faults < MaxFaults /\ faults' = faults + 1
  /\ line' \in {line} \union {Append(line, byte) : byte \in Noise}
  /\ clean' = 0 /\ pristine' = FALSE

ServerRestart ==
  /\ faults < MaxFaults /\ faults' = faults + 1
  /\ pos' = 1 /\ pwmLight' = 0 /\ clean' = 0
  /\ UNCHANGED <<sent, line, behind, remoteVars, timer, pristine>>

-----------------------------------------------------------------------------
Goto(state) == receiveState' = state

(* One turn of the switch in the remote's loop(): the byte moves it to the *)
(* next state; what it stores follows below.                               *)
Start1(byte) ==
  /\ receiveState = "StartBit1"
  /\ IF byte = H THEN Goto("StartBit2") /\ timer' = 0 ELSE UNCHANGED <<receiveState, timer>>
  /\ UNCHANGED <<payloadSize, parameter, value, CRCcheck>>

Start2(byte) ==
  /\ receiveState = "StartBit2"
  /\ Goto(IF byte = I THEN "PayloadSize" ELSE "StartBit1")
  /\ UNCHANGED <<payloadSize, parameter, value, CRCcheck, timer>>

Size(byte) ==
  /\ receiveState = "PayloadSize"
  /\ IF byte < MaxSize THEN payloadSize' = byte /\ Goto("PayloadId")
     ELSE Goto("StartBit1") /\ UNCHANGED payloadSize
  /\ UNCHANGED <<parameter, value, CRCcheck, timer>>

(* Mutant: what is neither of the first two is taken for the third.        *)
MutantId(byte) ==
  /\ receiveState = "PayloadId" /\ Goto("PayloadValue")
  /\ parameter' = (IF byte = dimmerSpeedID THEN "speed"
                   ELSE IF byte = led1PwmID THEN "led1" ELSE "led2")
  /\ UNCHANGED <<payloadSize, value, CRCcheck, timer>>

(* An unknown id leaves the pointer where it was.                          *)
Id(byte) ==
  /\ receiveState = "PayloadId" /\ Goto("PayloadValue")
  /\ parameter' = (IF byte = dimmerSpeedID THEN "speed"
                   ELSE IF byte = led1PwmID THEN "led1"
                   ELSE IF byte = led2PwmID THEN "led2" ELSE parameter)
  /\ UNCHANGED <<payloadSize, value, CRCcheck, timer>>

(* The null pointer names two registers on this processor, the scratch     *)
(* register and the high byte 0 that is 0 already: nothing happens.        *)
Value(byte) ==
  /\ receiveState = "PayloadValue"
  /\ value' = [p \in Parameters |-> IF p = parameter THEN byte ELSE value[p]]
  /\ payloadSize' = payloadSize - 1
  /\ Goto(IF payloadSize = 1 THEN "CRC" ELSE "PayloadId")
  /\ UNCHANGED <<parameter, CRCcheck, timer>>

(* The comparison with the checksum is commented out.                      *)
Checksum(byte) ==
  /\ receiveState = "CRC" /\ Goto("EndBit1")
  /\ CRCcheck' = TRUE
  /\ UNCHANGED <<payloadSize, parameter, value, timer>>

(* A start mark where an end mark is due does not restart the timer.       *)
End(byte, state, mark, next) ==
  /\ receiveState = state
  /\ Goto(IF byte = mark THEN next ELSE IF byte = H THEN "StartBit2" ELSE state)
  /\ UNCHANGED <<payloadSize, parameter, value, CRCcheck, timer>>

Take(byte) ==
  \/ Start1(byte) \/ Start2(byte) \/ Size(byte) \/ Id(byte) \/ Value(byte) \/ Checksum(byte)
  \/ End(byte, "EndBit1", B, "EndBit2") \/ End(byte, "EndBit2", Y, "StartBit1")

Read ==
  /\ line # <<>>
  /\ Take(Head(line))
  /\ line' = Tail(line)
  /\ UNCHANGED <<serverVars, behind, toSet, pastVars>>

(* Mutant: a frame that has stopped half way is waited for.                *)
MutantExpired == FALSE

Expired == timer > RS485Timeout

(* The end of a pass: setReveivedValues(), checkIfRs485expired().          *)
Pass ==
  /\ line = <<>>
  /\ behind' = 0
  /\ toSet' = (IF CRCcheck THEN value ELSE toSet)
  /\ CRCcheck' = FALSE
  /\ receiveState' = (IF Expired THEN "StartBit1" ELSE receiveState)
  /\ UNCHANGED <<serverVars, line, payloadSize, parameter, value, timer, pastVars>>

RemoteRestart ==
  /\ line' = <<>> /\ behind' = 0
  /\ receiveState' = "StartBit1" /\ payloadSize' = 0 /\ parameter' = "none"
  /\ value' = Default /\ toSet' = Default /\ CRCcheck' = FALSE
  /\ timer' = 0
  /\ clean' = 0 /\ pristine' = TRUE
  /\ UNCHANGED <<serverVars, faults>>

Next == Deliver \/ Damage \/ ServerRestart \/ Read \/ Pass \/ RemoteRestart

Spec == Init /\ [][Next]_vars
-----------------------------------------------------------------------------
(* Properties *)

CaughtUp == pos = 1 /\ line = <<>> /\ behind = 0

(* The remote finds the frames again: after the last damaged byte or       *)
(* restart it may wait for a whole time-out in whatever state the damage   *)
(* left it (a size of 0 counts down from -1), as long as two passes' bytes *)
(* more, and for the end of a frame; then the light is that of the last    *)
(* frame, although values and checksums may look like marks.               *)
FramesToRecover == (RS485Timeout + 2 * MaxBehind - 3) \div 8 + 3
Recovers == CaughtUp /\ clean >= FramesToRecover => toSet["led1"] = sent

(* On a clean line only the parameter that is sent changes, at whatever    *)
(* byte the remote is switched on or the server starts over.               *)
NothingElse ==
  pristine => /\ toSet["led2"] = Default["led2"] /\ toSet["speed"] = Default["speed"]
              /\ value["led2"] = Default["led2"] /\ value["speed"] = Default["speed"]
=============================================================================
