------------------------------ MODULE MqttSensor ------------------------------
(***************************************************************************)
(* The reports of a controller: class MqttSensor over IMqttSensor, as the  *)
(* alarm controller uses them, and class uptime.  loop() looks at one      *)
(* sensor after the other; the timer interrupt (Tick) says when it is time *)
(* to send.  Modes are the methods loop() calls:                           *)
(*   "time"           doMeasureAndSendDataIfItsTime()                      *)
(*   "timeAndChange"  doMeasureAndSendDataIfItsTimeAndValueChanged()       *)
(*   "change"         getUptime() and sendIfChanged()                      *)
(***************************************************************************)
EXTENDS Integers

CONSTANTS
  Sensors,
  SensorTab, SENSOR_COUNT, \* in the order of loop()
  Modes,                   \* how the sensors of a program may be asked
  SendPeriod,              \* of each sensor, in interrupts
  Values,                  \* what a sensor may measure, 0 among them
  Byte, ULongMax,          \* values of a byte; greatest unsigned long
  PassTicks,               \* most interrupts in a pass of loop() with the link up
  MaxQuiet                 \* cap of the history variable quiet

(* The periods of the program are 333 and 10000 interrupts, 1 s and 30 s:  *)
(* longer than a pass of loop() with a link, which reads pins and sends.   *)
(* A period with a low byte of 0 could leave the timer at 0, for a wrap at *)
(* the next interrupt.  loop() asks every sensor.                          *)
ASSUME SensorAssumption ==
  /\ SENSOR_COUNT \in Nat \ {0} /\ SensorTab \in [1 .. SENSOR_COUNT -> Sensors]
  /\ \A s \in Sensors : \E n \in 1 .. SENSOR_COUNT : SensorTab[n] = s
  /\ Modes \subseteq [Sensors -> {"time", "timeAndChange", "change"}]
  /\ Byte \in Nat \ {0, 1} /\ ULongMax \in Nat /\ 0 \in Values
  /\ ULongMax % Byte = Byte - 1 \* an unsigned long is a number of whole bytes
  /\ SendPeriod \in [Sensors -> 1 .. ULongMax]
  /\ \A s \in Sensors : SendPeriod[s] % Byte # 0 /\ PassTicks <= SendPeriod[s]
  /\ PassTicks \in Nat /\ MaxQuiet \in Nat

VARIABLES
  mode,                    \* how loop() of this program asks each sensor
  pc, k,                   \* position in loop(), and the sensor it is at
  busy,                    \* interrupts since this pass began
  link,                    \* "lost" is a link that client.connected() still believes in
  input,                   \* what there is to measure
  value,                   \* m_value, m_uptime
  isTime, changed,         \* m_itsTimeToSendFlag; m_valureChangedFlag, m_sendFlag
  timer,                   \* m_sendTimer
  broker,                  \* the last value the broker has received
  told,                    \* history: the last report reached the broker
  quiet                    \* history: ticks since input changed or link was not up

fieldVars == <<value, isTime, changed, timer>>
loopVars  == <<pc, k, busy>>
worldVars == <<link, input>>
vars      == <<mode, fieldVars, loopVars, worldVars, broker, told, quiet>>

S == SensorTab[k]

Low(n)  == n % Byte
High(n) == n - Low(n)

TypeOK ==
  /\ mode \in Modes
  /\ pc \in {"loop", "look", "measure", "decide", "send", "sent", "timer", "timerHigh",
            "timerLow", "clear"}
  /\ k \in 1 .. SENSOR_COUNT /\ busy \in 0 .. PassTicks
  /\ link \in {"up", "lost", "down"} /\ input \in [Sensors -> Values]
  /\ value \in [Sensors -> Values] /\ broker \in [Sensors -> Values]
  /\ isTime \in [Sensors -> BOOLEAN] /\ changed \in [Sensors -> BOOLEAN]
  /\ timer \in [Sensors -> 0 .. ULongMax]
  /\ told \in [Sensors -> BOOLEAN] /\ quiet \in [Sensors -> 0 .. MaxQuiet]

(* The broker remembers what it was told before.                           *)
Init ==
  /\ mode \in Modes
  /\ pc = "loop" /\ k = 1 /\ busy = 0
  /\ link \in {"up", "down"}
  /\ input \in [Sensors -> Values] /\ broker \in [Sensors -> Values]
  /\ value = [s \in Sensors |-> 0]
  /\ isTime = [s \in Sensors |-> FALSE]
  /\ changed = [s \in Sensors |-> mode[s] = "change"]
  /\ timer = SendPeriod
  /\ told = [s \in Sensors |-> FALSE] /\ quiet = [s \in Sensors |-> 0]

-----------------------------------------------------------------------------
Goto(from, to) == pc = from /\ pc' = to /\ UNCHANGED <<k, busy>>

(* On to the next sensor, or to the next pass.                             *)
Following ==
  IF k < SENSOR_COUNT THEN pc' = "look" /\ k' = k + 1 /\ UNCHANGED busy
  ELSE pc' = "loop" /\ k' = 1 /\ UNCHANGED busy

Pass ==
  /\ pc = "loop" /\ link # "down"
  /\ pc' = "look" /\ k' = 1 /\ busy' = 0
  /\ UNCHANGED <<fieldVars, worldVars, broker, told, quiet>>

NotYet ==
  /\ pc = "look" /\ mode[S] # "change" /\ ~isTime[S]
  /\ Following
  /\ UNCHANGED <<fieldVars, worldVars, broker, told, quiet>>

Look ==
  /\ mode[S] = "change" \/ isTime[S]
  /\ Goto("look", "measure")
  /\ UNCHANGED <<fieldVars, worldVars, broker, told, quiet>>

(* Mutant: a value of 0 is no news.                                        *)
MutantDiffers(old, new) == new # 0

Differs(old, new) == new # old

(* doMeasure(), getUptime().                                               *)
Measure ==
  /\ Goto("measure", "decide")
  /\ value' = [value EXCEPT ![S] = input[S]]
  /\ changed' = [changed EXCEPT ![S] = @ \/ Differs(value[S], input[S])]
  /\ UNCHANGED <<isTime, timer, worldVars, broker, told, quiet>>

ToSend ==
  CASE mode[S] = "time"          -> TRUE
    [] mode[S] = "timeAndChange" -> changed[S] /\ isTime[S]
    [] mode[S] = "change"        -> changed[S]

Decide ==
  /\ \/ ToSend /\ Goto("decide", "send")
     \/ ~ToSend /\ mode[S] = "timeAndChange" /\ Goto("decide", "timer")
     \/ ~ToSend /\ mode[S] = "change" /\ pc = "decide" /\ Following
  /\ UNCHANGED <<fieldVars, worldVars, broker, told, quiet>>

(* What publish() returns is not looked at.                                *)
Send ==
  /\ Goto("send", "sent")
  /\ broker' = (IF link = "up" THEN [broker EXCEPT ![S] = value[S]] ELSE broker)
  /\ told' = [told EXCEPT ![S] = link = "up"]
  /\ UNCHANGED <<fieldVars, worldVars, quiet>>

(* The end of sendData().                                                  *)
Sent ==
  /\ pc = "sent" /\ Following
  /\ isTime' = [isTime EXCEPT ![S] = FALSE]
  /\ changed' = [changed EXCEPT ![S] = FALSE]
  /\ UNCHANGED <<value, timer, worldVars, broker, told, quiet>>

StoreLow(t, s)  == [t EXCEPT ![s] = High(@) + Low(SendPeriod[s])]
StoreHigh(t, s) == [t EXCEPT ![s] = High(SendPeriod[s]) + Low(@)]

(* clearSendFlag(): the timer, byte by byte in an order the compiler       *)
(* chooses, then the flag.                                                 *)
StoreFirst ==
  /\ \/ Goto("timer", "timerHigh") /\ timer' = StoreLow(timer, S)
     \/ Goto("timer", "timerLow") /\ timer' = StoreHigh(timer, S)
  /\ UNCHANGED <<value, isTime, changed, worldVars, broker, told, quiet>>

StoreSecond ==
  /\ \/ Goto("timerHigh", "clear") /\ timer' = StoreHigh(timer, S)
     \/ Goto("timerLow", "clear") /\ timer' = StoreLow(timer, S)
  /\ UNCHANGED <<value, isTime, changed, worldVars, broker, told, quiet>>

Clear ==
  /\ pc = "clear" /\ Following
  /\ isTime' = [isTime EXCEPT ![S] = FALSE]
  /\ UNCHANGED <<value, changed, timer, worldVars, broker, told, quiet>>

-----------------------------------------------------------------------------
Counted(s) == (timer[s] - 1) % (ULongMax + 1)

(* Mutant: the timer runs on.                                              *)
MutantReload(s) == Counted(s)

Reload(s) == IF Counted(s) = 0 THEN SendPeriod[s] ELSE Counted(s)

(* processTimer() of every sensor.                                         *)
Tick ==
  /\ \/ link = "up" /\ busy < PassTicks /\ busy' = busy + 1
     \/ link # "up" /\ UNCHANGED busy \* publish() may wait, or loop() connects
  /\ timer' = [s \in Sensors |-> Reload(s)]
  /\ isTime' = [s \in Sensors |-> isTime[s] \/ Counted(s) = 0]
  /\ quiet' = [s \in Sensors |-> IF link # "up" THEN 0
                                 ELSE IF quiet[s] < MaxQuiet THEN quiet[s] + 1 ELSE MaxQuiet]
  /\ UNCHANGED <<value, changed, pc, k, worldVars, broker, told>>

Input(s) ==
  /\ \E new \in Values \ {input[s]} : input' = [input EXCEPT ![s] = new]
  /\ quiet' = [quiet EXCEPT ![s] = 0]
  /\ UNCHANGED <<fieldVars, loopVars, link, broker, told>>

(* The connection goes, is found to be gone, and comes back.               *)
Link ==
  /\ \/ link = "up" /\ link' = "lost"
     \/ link \in {"up", "lost"} /\ link' = "down"
     \/ pc = "loop" /\ link = "down" /\ link' = "up"
  /\ quiet' = [s \in Sensors |-> 0]
  /\ UNCHANGED <<fieldVars, loopVars, input, broker, told>>

Restart ==
  /\ pc' = "loop" /\ k' = 1 /\ busy' = 0
  /\ link' \in {"up", "down"}
  /\ value' = [s \in Sensors |-> 0]
  /\ isTime' = [s \in Sensors |-> FALSE]
  /\ changed' = [s \in Sensors |-> mode[s] = "change"]
  /\ timer' = SendPeriod
  /\ told' = [s \in Sensors |-> FALSE] /\ quiet' = [s \in Sensors |-> 0]
  /\ UNCHANGED <<input, broker>>

Main ==
  \/ Pass \/ NotYet \/ Look \/ Measure \/ Decide \/ Send \/ Sent
  \/ StoreFirst \/ StoreSecond \/ Clear

Next ==
  /\ Main \/ Tick \/ (\E s \in Sensors : Input(s)) \/ Link \/ Restart
  /\ UNCHANGED mode

Spec == Init /\ [][Next]_vars
-----------------------------------------------------------------------------
(* Properties *)

(* The longest a timer may be left with: by an interrupt that finds one of *)
(* its bytes stored and the other not, and borrows.                        *)
LongestPeriod(s) == High(SendPeriod[s]) + Byte - 1

(* However the two stores of clearSendFlag() and the count of the          *)
(* interrupt fall, no timer ever has more than its longest period to go,   *)
(* and none is 0, which would wrap at the next interrupt.                  *)
TimerBound == \A s \in Sensors : timer[s] \in 1 .. LongestPeriod(s)

(* Two periods, as the flag of one may be cleared unseen, each of which    *)
(* waits for a pass of loop().                                             *)
ReportBound(s) ==
  IF mode[s] = "change" THEN 2 * PassTicks + 1 ELSE 2 * (LongestPeriod(s) + PassTicks + 1)

(* When the input and the link have been quiet for so long, the broker has *)
(* the value: always of a sensor that sends what it measures; of one that  *)
(* sends changes only, if its last report has not been lost and it has     *)
(* sent one since it was switched on (it does not send the 0 it starts     *)
(* with, whatever the broker believes).                                    *)
Reported ==
  \A s \in Sensors :
    quiet[s] >= ReportBound(s) /\ (mode[s] = "time" \/ told[s]) => broker[s] = input[s]
=============================================================================
