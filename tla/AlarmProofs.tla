------------------------------ MODULE AlarmProofs ------------------------------
(***************************************************************************)
(* Theorems about the alarm controller.  First its sensors (MqttSensor),   *)
(* for any set of them, asked in any mode, any periods (none with a low    *)
(* byte of 0) and any widths of a byte and an unsigned long; then its      *)
(* sirens (Relay), for any set of them and any time-outs.                  *)
(***************************************************************************)
EXTENDS MqttSensor, Relay, DivisionLemmas, TLAPS

-----------------------------------------------------------------------------
(* The sensors.                                                            *)

(***************************************************************************)
(* What holds between any two steps of loop() and the interrupt, and makes *)
(* the properties above hold.                                              *)
(***************************************************************************)
(* The byte of a timer above the lowest is never more than the period's.   *)
Within(period, count) == count \in Nat \ {0} /\ High(count) <= High(period)
TimerInv == \A s \in Sensors : Within(SendPeriod[s], timer[s])

(* loop() has measured s and is not done with it.                          *)
Measured(s) == S = s /\ pc \in {"decide", "send", "sent", "timer", "timerHigh", "timerLow", "clear"}

(* What loop() holds is news of this pass, and m_value is what the broker  *)
(* was told last unless m_valureChangedFlag says otherwise.                *)
NewsInv ==
  /\ pc = "sent" /\ link = "up" => broker[S] = value[S]
  /\ pc \in {"timer", "timerHigh", "timerLow", "clear"} =>
       mode[S] = "timeAndChange" /\ ~changed[S]
  /\ pc \notin {"loop", "look"} /\ mode[S] # "change" => isTime[S]
  /\ \A s \in Sensors : told[s] /\ broker[s] # value[s] =>
       changed[s] /\ ~(S = s /\ pc = "sent")

QuietInv ==
  \A s \in Sensors :
    /\ link # "up" => quiet[s] = 0
    /\ Measured(s) /\ value[s] # input[s] => quiet[s] <= busy

(* How many more interrupts there may be before s is sent: those of this   *)
(* pass, if it comes to s, or of the next too; before that the timer's.    *)
Ahead(s) ==
  /\ pc # "loop"
  /\ \/ \E n \in k + 1 .. SENSOR_COUNT : SensorTab[n] = s
     \/ S = s /\ (pc \in {"look", "measure"} \/ (pc \in {"decide", "send"} /\ value[s] = input[s]))
Due(s) == mode[s] = "change" \/ isTime[s]
Wait(s) ==
  IF ~Due(s) THEN timer[s] + 2 * PassTicks
  ELSE IF Ahead(s) THEN PassTicks - busy ELSE 2 * PassTicks - busy
LongestWait(s) ==
  IF mode[s] = "change" THEN 2 * PassTicks ELSE LongestPeriod(s) + 3 * PassTicks

WaitInv ==
  \A s \in Sensors :
    /\ mode[s] = "time" \/ told[s]
    /\ broker[s] # input[s]
    /\ ~(Measured(s) /\ value[s] # input[s])
    => quiet[s] + Wait(s) <= LongestWait(s)

SensorInv == TypeOK /\ TimerInv /\ NewsInv /\ QuietInv /\ WaitInv


LEMMA Constants ==
  /\ Byte \in Nat \ {0, 1} /\ ULongMax \in Nat
  /\ ULongMax % Byte = Byte - 1
  /\ \A s \in Sensors : SendPeriod[s] \in 1 .. ULongMax /\ SendPeriod[s] % Byte # 0
<1>1. /\ Byte \in Nat \ {0, 1} /\ ULongMax \in Nat
      /\ ULongMax % Byte = Byte - 1
  BY SensorAssumption
<1>2. \A s \in Sensors : SendPeriod[s] \in 1 .. ULongMax /\ SendPeriod[s] % Byte # 0
  BY SensorAssumption
<1> QED
  BY <1>1, <1>2

(* The bytes of a timer.                                                   *)
LEMMA Halves ==
  ASSUME NEW n \in Nat
  PROVE  /\ Low(n) \in 0 .. Byte - 1 /\ High(n) \in Nat
         /\ n = High(n) + Low(n)
<1>1. Byte \in Nat \ {0}
  BY Constants
<1>2. Low(n) \in 0 .. Byte - 1
  BY <1>1, Division DEF Low
<1>3. n - (n % Byte) \in Nat
  BY <1>1, Small
<1>4. High(n) = n - Low(n) /\ High(n) \in Nat
  BY <1>3 DEF Low, High
<1> QED
  BY <1>1, <1>2, <1>4

LEMMA Halved ==
  ASSUME NEW m \in Nat, NEW n \in Nat
  PROVE  /\ High(m) + Low(n) \in Nat
         /\ Low(High(m) + Low(n)) = Low(n)
         /\ High(High(m) + Low(n)) = High(m)
         /\ m <= n => High(m) <= High(n)
<1>1. Byte \in Nat \ {0}
  BY Constants
<1>2. Low(High(m) + Low(n)) = Low(n)
  BY <1>1, Join DEF Low, High
<1>3. High(High(m) + Low(n)) = High(m) /\ High(m) + Low(n) \in Nat
  <2>1. High(m) + Low(n) \in Nat /\ High(m) \in Nat /\ Low(n) \in Nat
    BY Constants, Halves
  <2> QED
    BY <1>2, <2>1 DEF High
<1>4. m <= n => High(m) <= High(n)
  BY <1>1, UpperMonotone DEF Low, High
<1> QED
  BY <1>2, <1>3, <1>4

LEMMA PeriodWithin ==
  ASSUME NEW s \in Sensors
  PROVE  Within(SendPeriod[s], SendPeriod[s])
<1>1. SendPeriod[s] \in Nat \ {0}
  BY Constants
<1>2. High(SendPeriod[s]) \in Nat
  BY <1>1, Halves
<1> QED
  BY <1>1, <1>2 DEF Within

(* Either order of the two stores keeps a timer within its period.         *)
LEMMA StoreWithin ==
  ASSUME NEW s \in Sensors, NEW count, Within(SendPeriod[s], count)
  PROVE  /\ Within(SendPeriod[s], High(count) + Low(SendPeriod[s]))
         /\ Within(SendPeriod[s], High(SendPeriod[s]) + Low(count))
<1> DEFINE period == SendPeriod[s]
<1>1. period \in Nat /\ Low(period) # 0 /\ count \in Nat
  BY Constants DEF Low, Within
<1> HIDE DEF period
<1>2. /\ Low(period) \in 0 .. Byte - 1 /\ High(period) \in Nat
      /\ Low(count) \in 0 .. Byte - 1 /\ High(count) \in Nat
      /\ count = High(count) + Low(count)
  BY <1>1, Halves
<1>3. /\ High(High(count) + Low(period)) = High(count)
      /\ High(High(period) + Low(count)) = High(period)
  BY <1>1, Halved
<1>4. count # 0 /\ High(count) <= High(period)
  BY DEF Within, period
<1>5. Within(period, High(count) + Low(period))
  BY <1>1, <1>2, <1>3, <1>4, Constants DEF Within
<1>6. Within(period, High(period) + Low(count))
  BY <1>2, <1>3, <1>4, Constants DEF Within
<1> QED
  BY <1>5, <1>6 DEF period

(* A timer is at most what an unsigned long holds, so that the interrupt   *)
(* takes one from it and never wraps.                                      *)
LEMMA WithinBound ==
  ASSUME NEW s \in Sensors, NEW count, Within(SendPeriod[s], count)
  PROVE  count \in 1 .. LongestPeriod(s) /\ LongestPeriod(s) \in 1 .. ULongMax
<1> DEFINE period == SendPeriod[s]
<1>1. period \in 1 .. ULongMax /\ period \in Nat /\ ULongMax \in Nat
  BY Constants
<1> HIDE DEF period
<1>2. count \in Nat \ {0} /\ High(count) <= High(period)
  BY DEF Within, period
<1>3. /\ Low(count) \in 0 .. Byte - 1 /\ count = High(count) + Low(count)
      /\ High(count) \in Nat /\ High(period) \in Nat
      /\ ULongMax = High(ULongMax) + Low(ULongMax) /\ High(ULongMax) \in Nat
  BY <1>1, <1>2, Halves
<1>4. Low(ULongMax) = Byte - 1
  BY Constants DEF Low
<1>5. High(period) <= High(ULongMax)
  BY <1>1, Halved
<1>6. LongestPeriod(s) = High(period) + Byte - 1
  BY DEF LongestPeriod, period
<1> QED
  BY <1>2, <1>3, <1>4, <1>5, <1>6, Constants

LEMMA ReloadWithin ==
  ASSUME NEW s \in Sensors, Within(SendPeriod[s], timer[s])
  PROVE  Within(SendPeriod[s], Reload(s))
<1>1. timer[s] \in 1 .. ULongMax /\ ULongMax \in Nat
  BY WithinBound, Constants
<1>2. Counted(s) = timer[s] - 1
  <2>1. ULongMax + 1 \in Nat \ {0} /\ timer[s] - 1 \in Nat /\ timer[s] - 1 < ULongMax + 1
    BY <1>1
  <2>2. (timer[s] - 1) % (ULongMax + 1) = timer[s] - 1
    BY <2>1, Small
  <2> QED
    BY <2>2 DEF Counted
<1>3. CASE Counted(s) = 0
  BY <1>3, PeriodWithin DEF Reload
<1>4. CASE Counted(s) # 0
  <2>1. timer[s] - 1 \in Nat \ {0} /\ timer[s] \in Nat /\ timer[s] - 1 <= timer[s]
    BY <1>1, <1>2, <1>4
  <2>2. High(timer[s] - 1) <= High(timer[s])
    BY <2>1, Halved
  <2>3. High(timer[s] - 1) \in Nat /\ High(timer[s]) \in Nat
    BY <2>1, Halves
  <2>4. SendPeriod[s] \in Nat
    BY Constants
  <2>5. High(SendPeriod[s]) \in Nat /\ High(timer[s]) <= High(SendPeriod[s])
    BY <2>4, Halves DEF Within
  <2>6. High(timer[s] - 1) <= High(SendPeriod[s])
    BY <2>2, <2>3, <2>5
  <2> QED
    BY <1>2, <1>4, <2>1, <2>6 DEF Reload, Within
<1> QED
  BY <1>3, <1>4

LEMMA TimerInvNext == TypeOK /\ TimerInv /\ [Next]_vars => TimerInv'
<1> SUFFICES ASSUME TypeOK, TimerInv, [Next]_vars PROVE TimerInv'
  OBVIOUS
<1> USE DEF Goto, Following, fieldVars, loopVars, worldVars
<1>1. SendPeriod \in [Sensors -> 1 .. ULongMax]
  BY SensorAssumption
<1>2. ASSUME NEW t \in [Sensors -> 0 .. ULongMax], \A s \in Sensors : Within(SendPeriod[s], t[s]),
             NEW r \in Sensors, timer' = StoreLow(t, r) \/ timer' = StoreHigh(t, r)
      PROVE  TimerInv'
  <2>1. ASSUME NEW s \in Sensors PROVE Within(SendPeriod[s], timer'[s])
    BY <1>2, StoreWithin DEF StoreLow, StoreHigh
  <2> QED
    BY <2>1 DEF TimerInv
<1>3. CASE UNCHANGED timer
  BY <1>3 DEF TimerInv
<1>4. CASE Pass \/ NotYet \/ Look \/ Measure \/ Decide \/ Send \/ Sent \/ Clear \/ Link
  BY <1>3, <1>4 DEF Pass, NotYet, Look, Measure, Decide, Send, Sent, Clear, Link
<1>5. CASE StoreFirst \/ StoreSecond
  <2>1. S \in Sensors /\ timer \in [Sensors -> 0 .. ULongMax]
    BY SensorAssumption DEF S, TypeOK
  <2>2. timer' = StoreLow(timer, S) \/ timer' = StoreHigh(timer, S)
    BY <1>5 DEF StoreFirst, StoreSecond
  <2> QED
    BY <1>2, <2>1, <2>2 DEF TimerInv
<1>6. CASE Tick
  <2>1. ASSUME NEW s \in Sensors PROVE Within(SendPeriod[s], timer'[s])
    BY <1>6, ReloadWithin DEF Tick, TimerInv
  <2> QED
    BY <2>1 DEF TimerInv
<1>7. CASE \E s \in Sensors : Input(s)
  BY <1>3, <1>7 DEF Input
<1>8. CASE Restart
  BY <1>8, PeriodWithin DEF Restart, TimerInv
<1>9. CASE UNCHANGED vars
  BY <1>3, <1>9 DEF vars
<1> QED
  BY <1>4, <1>5, <1>6, <1>7, <1>8, <1>9 DEF Next, Main

LEMMA TypeInit == Init => TypeOK
<1> SUFFICES ASSUME Init PROVE TypeOK
  OBVIOUS
<1>1. k \in 1 .. SENSOR_COUNT
  BY SensorAssumption DEF Init
<1>2. changed \in [Sensors -> BOOLEAN] /\ isTime \in [Sensors -> BOOLEAN]
      /\ told \in [Sensors -> BOOLEAN]
  BY DEF Init
<1>3. timer \in [Sensors -> 0 .. ULongMax] /\ quiet \in [Sensors -> 0 .. MaxQuiet]
      /\ busy \in 0 .. PassTicks
  BY SensorAssumption DEF Init
<1>4. /\ input \in [Sensors -> Values] /\ value \in [Sensors -> Values]
      /\ broker \in [Sensors -> Values]
  BY SensorAssumption DEF Init
<1> QED
  BY <1>1, <1>2, <1>3, <1>4 DEF Init, TypeOK

LEMMA TypeNext == TypeOK /\ TimerInv' /\ [Next]_vars => TypeOK'
<1> SUFFICES ASSUME TypeOK, TimerInv', [Next]_vars PROVE TypeOK'
  OBVIOUS
<1> USE DEF Goto, Following, fieldVars, loopVars, worldVars
<1>1. timer' \in [Sensors -> 0 .. ULongMax]
  <2>1. ASSUME NEW s \in Sensors PROVE timer'[s] \in 0 .. ULongMax
    <3>1. Within(SendPeriod[s], timer'[s])
      BY DEF TimerInv
    <3>2. timer'[s] \in 1 .. LongestPeriod(s) /\ LongestPeriod(s) \in 1 .. ULongMax
      BY <3>1, WithinBound
    <3> QED
      BY <3>2, Constants
  <2>2. timer' = [s \in Sensors |-> timer'[s]]
    <3>1. CASE Main
      BY <3>1 DEF TypeOK, Main, Pass, NotYet, Look, Measure, Decide, Send, Sent, StoreFirst,
                  StoreSecond, StoreLow, StoreHigh, Clear
    <3>2. CASE Tick
      BY <3>2 DEF Tick
    <3>3. CASE Restart
      BY <3>3, SensorAssumption DEF Restart
    <3>4. CASE (\E s \in Sensors : Input(s)) \/ Link \/ UNCHANGED vars
      BY <3>4 DEF TypeOK, Input, Link, vars
    <3> QED
      BY <3>1, <3>2, <3>3, <3>4 DEF Next
  <2> QED
    BY <2>1, <2>2
<1>2. S \in Sensors
  BY SensorAssumption DEF S, TypeOK
<1>3. /\ k \in 1 .. SENSOR_COUNT /\ SENSOR_COUNT \in Nat /\ busy \in 0 .. PassTicks
      /\ PassTicks \in Nat /\ MaxQuiet \in Nat
  BY SensorAssumption DEF TypeOK
<1>4. mode' \in Modes
  BY DEF TypeOK, Next, vars
<1>5. k' \in 1 .. SENSOR_COUNT /\ busy' \in 0 .. PassTicks
  <2>1. CASE Main
    BY <1>3, <2>1 DEF Main, Pass, NotYet, Look, Measure, Decide, Send, Sent, StoreFirst,
                      StoreSecond, Clear
  <2>2. CASE Tick
    BY <1>3, <2>2 DEF Tick
  <2>3. CASE (\E s \in Sensors : Input(s)) \/ Link \/ Restart \/ UNCHANGED vars
    BY <1>3, <2>3 DEF Input, Link, Restart, vars
  <2> QED
    BY <2>1, <2>2, <2>3 DEF Next
<1>6. pc' \in {"loop", "look", "measure", "decide", "send", "sent", "timer", "timerHigh",
               "timerLow", "clear"}
  <2>1. CASE Main
    BY <2>1 DEF Main, Pass, NotYet, Look, Measure, Decide, Send, Sent, StoreFirst,
                StoreSecond, Clear
  <2>2. CASE Tick \/ (\E s \in Sensors : Input(s)) \/ Link \/ Restart \/ UNCHANGED vars
    BY <2>2 DEF TypeOK, Tick, Input, Link, Restart, vars
  <2> QED
    BY <2>1, <2>2 DEF Next
<1>7. link' \in {"up", "lost", "down"}
  BY DEF TypeOK, Next, Main, vars, Pass, NotYet, Look, Measure, Decide, Send, Sent,
         StoreFirst, StoreSecond, Clear, Tick, Input, Link, Restart
<1>8. input' \in [Sensors -> Values] /\ value' \in [Sensors -> Values]
      /\ broker' \in [Sensors -> Values]
  <2>1. CASE Main
    BY <1>2, <2>1 DEF TypeOK, Main, Pass, NotYet, Look, Measure, Decide, Send, Sent, StoreFirst,
                      StoreSecond, Clear
  <2>2. CASE Tick \/ Link \/ UNCHANGED vars
    BY <2>2 DEF TypeOK, Tick, Link, vars
  <2>3. CASE Restart
    BY <2>3, SensorAssumption DEF TypeOK, Restart
  <2>4. ASSUME NEW s \in Sensors, Input(s)
        PROVE  input' \in [Sensors -> Values] /\ UNCHANGED <<value, broker>>
    BY <2>4 DEF TypeOK, Input
  <2> QED
    BY <2>1, <2>2, <2>3, <2>4 DEF Next, TypeOK
<1>9. isTime' \in [Sensors -> BOOLEAN]
  <2>1. CASE Main
    BY <1>2, <2>1 DEF TypeOK, Main, Pass, NotYet, Look, Measure, Decide, Send, Sent, StoreFirst,
                      StoreSecond, Clear
  <2>2. CASE Tick
    BY <2>2 DEF Tick, TypeOK
  <2>3. CASE (\E s \in Sensors : Input(s)) \/ Link \/ UNCHANGED vars
    BY <2>3 DEF TypeOK, Input, Link, vars
  <2>4. CASE Restart
    BY <2>4 DEF Restart
  <2> QED
    BY <2>1, <2>2, <2>3, <2>4 DEF Next
<1>10. changed' \in [Sensors -> BOOLEAN] /\ told' \in [Sensors -> BOOLEAN]
  <2>1. CASE Main
    BY <1>2, <2>1 DEF TypeOK, Main, Pass, NotYet, Look, Measure, Decide, Send, Sent, StoreFirst,
                      StoreSecond, Clear
  <2>2. CASE Tick \/ (\E s \in Sensors : Input(s)) \/ Link \/ Restart \/ UNCHANGED vars
    BY <2>2 DEF TypeOK, Tick, Input, Link, Restart, vars
  <2> QED
    BY <2>1, <2>2 DEF Next
<1>11. quiet' \in [Sensors -> 0 .. MaxQuiet]
  <2>1. CASE Main
    BY <2>1 DEF TypeOK, Main, Pass, NotYet, Look, Measure, Decide, Send, Sent, StoreFirst,
                StoreSecond, Clear
  <2>2. CASE Tick
    <3>1. ASSUME NEW s \in Sensors
          PROVE (IF link # "up" THEN 0
                 ELSE IF quiet[s] < MaxQuiet THEN quiet[s] + 1 ELSE MaxQuiet) \in 0 .. MaxQuiet
      BY <1>3 DEF TypeOK
    <3> QED
      BY <2>2, <3>1 DEF Tick
  <2>3. CASE Link \/ Restart
    BY <1>3, <2>3 DEF Link, Restart
  <2>4. CASE UNCHANGED vars
    BY <2>4 DEF TypeOK, vars
  <2>5. ASSUME NEW s \in Sensors, Input(s) PROVE quiet' \in [Sensors -> 0 .. MaxQuiet]
    BY <1>3, <2>5 DEF TypeOK, Input
  <2> QED
    BY <2>1, <2>2, <2>3, <2>4, <2>5 DEF Next
<1> QED
  BY <1>1, <1>4, <1>5, <1>6, <1>7, <1>8, <1>9, <1>10, <1>11 DEF TypeOK

-----------------------------------------------------------------------------
LEMMA NewsInit == Init => NewsInv
BY DEF Init, NewsInv

LEMMA NewsNext == TypeOK /\ NewsInv /\ [Next]_vars => NewsInv'
<1> SUFFICES ASSUME TypeOK, NewsInv, [Next]_vars PROVE NewsInv'
  OBVIOUS
<1> USE DEF Goto, Following, fieldVars, loopVars, worldVars
<1>0. /\ S \in Sensors /\ mode \in [Sensors -> {"time", "timeAndChange", "change"}]
      /\ value \in [Sensors -> Values] /\ broker \in [Sensors -> Values]
      /\ isTime \in [Sensors -> BOOLEAN] /\ changed \in [Sensors -> BOOLEAN]
      /\ told \in [Sensors -> BOOLEAN]
  BY SensorAssumption DEF S, TypeOK
<1>m. mode' = mode
  BY DEF Next, vars
<1>k. k' = k => S' = S
  BY DEF S
<1>1. CASE Pass \/ NotYet
  BY <1>1, <1>m DEF Pass, NotYet, NewsInv
<1>2. CASE Look
  BY <1>2, <1>k, <1>m DEF Look, NewsInv
<1>3. CASE Measure
  <2>1. /\ pc' = "decide" /\ S' = S /\ UNCHANGED <<isTime, broker, told>>
        /\ value' = [value EXCEPT ![S] = input[S]]
        /\ changed' = [changed EXCEPT ![S] = @ \/ value[S] # input[S]]
    BY <1>3, <1>k DEF Measure, Differs
  <2>2. mode[S] # "change" => isTime[S]
    BY <1>3 DEF Measure, NewsInv
  <2>3. ASSUME NEW s \in Sensors, told[s], broker[s] # value'[s]
        PROVE  changed'[s]
    BY <1>0, <2>1, <2>3 DEF NewsInv
  <2> QED
    BY <1>m, <2>1, <2>2, <2>3 DEF NewsInv
<1>4. CASE Decide
  <2>1. pc = "decide" /\ UNCHANGED <<value, isTime, changed, broker, told, link>>
    BY <1>4 DEF Decide
  <2>2. mode[S] # "change" => isTime[S]
    BY <2>1 DEF NewsInv
  <2>3. \/ pc' = "send" /\ S' = S
        \/ pc' = "timer" /\ S' = S /\ mode[S] = "timeAndChange" /\ ~changed[S]
        \/ pc' \in {"look", "loop"}
    BY <1>4, <1>k, <2>2 DEF Decide, ToSend
  <2> QED
    BY <1>m, <2>1, <2>2, <2>3 DEF NewsInv
<1>5. CASE Send
  <2>1. /\ pc = "send" /\ pc' = "sent" /\ S' = S
        /\ UNCHANGED <<value, isTime, changed, link>>
        /\ link = "up" => broker' = [broker EXCEPT ![S] = value[S]]
        /\ link # "up" => broker' = broker
        /\ told' = [told EXCEPT ![S] = link = "up"]
    BY <1>5, <1>k DEF Send
  <2>2. link = "up" => broker'[S] = value[S]
    BY <1>0, <2>1
  <2>3. link # "up" => ~told'[S]
    BY <1>0, <2>1
  <2>4. ASSUME NEW s \in Sensors, told'[s], broker'[s] # value[s]
        PROVE  s # S /\ changed[s]
    <3>1. s # S
      BY <2>2, <2>3, <2>4
    <3>2. told[s] /\ broker[s] = broker'[s]
      BY <1>0, <2>1, <2>4, <3>1
    <3> QED
      BY <2>4, <3>1, <3>2 DEF NewsInv
  <2> QED
    BY <1>m, <2>1, <2>2, <2>4 DEF NewsInv
<1>6. CASE Sent
  <2>1. /\ pc = "sent" /\ pc' \in {"look", "loop"} /\ UNCHANGED <<value, broker, told>>
        /\ changed' = [changed EXCEPT ![S] = FALSE]
    BY <1>6 DEF Sent
  <2>2. ASSUME NEW s \in Sensors, told[s], broker[s] # value[s]
        PROVE  changed'[s]
    BY <1>0, <2>1, <2>2 DEF NewsInv
  <2> QED
    BY <2>1, <2>2 DEF NewsInv
<1>7. CASE StoreFirst \/ StoreSecond
  BY <1>7, <1>k, <1>m DEF StoreFirst, StoreSecond, NewsInv
<1>8. CASE Clear
  BY <1>8 DEF Clear, NewsInv
<1>9. CASE Tick
  <2>1. /\ UNCHANGED <<pc, k, value, changed, broker, told, link>>
        /\ isTime' = [s \in Sensors |-> isTime[s] \/ Counted(s) = 0]
    BY <1>9 DEF Tick
  <2>2. \A s \in Sensors : isTime[s] => isTime'[s]
    BY <2>1
  <2> QED
    BY <1>0, <1>k, <1>m, <2>1, <2>2 DEF NewsInv
<1>10. CASE (\E s \in Sensors : Input(s))
  BY <1>10, <1>k, <1>m DEF Input, NewsInv
<1>11. CASE Link
  <2>1. /\ UNCHANGED <<pc, k, value, isTime, changed, broker, told>>
        /\ link' = "up" => link = "up" \/ pc = "loop"
    BY <1>11 DEF Link
  <2> QED
    BY <1>k, <1>m, <2>1 DEF NewsInv
<1>12. CASE Restart
  BY <1>12 DEF Restart, NewsInv
<1>13. CASE UNCHANGED vars
  BY <1>13, <1>k DEF vars, NewsInv
<1> QED
  BY <1>1, <1>2, <1>3, <1>4, <1>5, <1>6, <1>7, <1>8, <1>9, <1>10, <1>11, <1>12, <1>13
     DEF Next, Main

LEMMA QuietInit == Init => QuietInv
BY DEF Init, QuietInv, Measured

LEMMA QuietNext == TypeOK /\ QuietInv /\ [Next]_vars => QuietInv'
<1> SUFFICES ASSUME TypeOK, QuietInv, [Next]_vars PROVE QuietInv'
  OBVIOUS
<1> USE DEF Goto, Following, fieldVars, loopVars, worldVars
<1>0. /\ S \in Sensors /\ value \in [Sensors -> Values] /\ input \in [Sensors -> Values]
      /\ quiet \in [Sensors -> Nat] /\ busy \in Nat /\ MaxQuiet \in Nat
  BY SMTT(30), SensorAssumption DEF S, TypeOK
<1>k. k' = k => S' = S
  BY DEF S
<1>1. CASE Pass \/ NotYet \/ Look \/ Sent \/ Clear
  BY <1>1 DEF Pass, NotYet, Look, Sent, Clear, QuietInv, Measured
<1>2. CASE Measure
  <2>1. value'[S] = input[S] /\ S' = S /\ UNCHANGED <<link, input, quiet>>
    BY <1>0, <1>2, <1>k DEF Measure
  <2> QED
    BY <2>1 DEF QuietInv, Measured
<1>3. CASE Decide \/ Send \/ StoreFirst \/ StoreSecond
  <2>1. UNCHANGED <<link, input, quiet, value>> /\ (\A s \in Sensors : Measured(s)' => Measured(s))
    BY <1>3, <1>k DEF Decide, Send, StoreFirst, StoreSecond, Measured
  <2>2. busy' = busy
    BY <1>3 DEF Decide, Send, StoreFirst, StoreSecond
  <2> QED
    BY <2>1, <2>2 DEF QuietInv
<1>4. CASE Tick
  <2> SUFFICES ASSUME NEW s \in Sensors
               PROVE  /\ link' # "up" => quiet'[s] = 0
                      /\ Measured(s)' /\ value'[s] # input'[s] => quiet'[s] <= busy'
    BY DEF QuietInv
  <2>1. /\ UNCHANGED <<link, pc, k, value, input>>
        /\ quiet'[s] = IF link # "up" THEN 0
                       ELSE IF quiet[s] < MaxQuiet THEN quiet[s] + 1 ELSE MaxQuiet
        /\ busy' = busy + 1 \/ (link # "up" /\ busy' = busy)
    BY <1>4 DEF Tick
  <2>2. link # "up" => quiet'[s] = 0
    BY <2>1
  <2>3. ASSUME Measured(s), value[s] # input[s] PROVE quiet'[s] <= busy'
    <3>2. quiet[s] <= busy /\ quiet[s] \in Nat
      BY <1>0, <2>3 DEF QuietInv
    <3>3. quiet'[s] \in {0, quiet[s] + 1, MaxQuiet} /\ (quiet'[s] = MaxQuiet => MaxQuiet <= quiet[s] + 1)
      BY <1>0, <2>1, <3>2
    <3> QED
      BY <1>0, <2>1, <3>2, <3>3
  <2>4. Measured(s)' => Measured(s)
    BY <1>k, <2>1 DEF Measured
  <2> QED
    BY <2>1, <2>2, <2>3, <2>4
<1>5. ASSUME NEW r \in Sensors, Input(r) PROVE QuietInv'
  <2> SUFFICES ASSUME NEW s \in Sensors
               PROVE  /\ link' # "up" => quiet'[s] = 0
                      /\ Measured(s)' /\ value'[s] # input'[s] => quiet'[s] <= busy'
    BY DEF QuietInv
  <2>1. /\ UNCHANGED <<link, pc, k, value, busy>>
        /\ s = r => quiet'[s] = 0
        /\ s # r => quiet'[s] = quiet[s] /\ input'[s] = input[s]
    BY <1>0, <1>5 DEF Input
  <2>2. Measured(s)' => Measured(s)
    BY <1>k, <2>1 DEF Measured
  <2>3. CASE s = r
    BY <1>0, <2>1, <2>3
  <2>4. CASE s # r
    BY <2>1, <2>2, <2>4 DEF QuietInv
  <2> QED
    BY <2>3, <2>4
<1>6. CASE Link \/ Restart
  <2>1. quiet' = [s \in Sensors |-> 0] /\ (busy' = busy \/ busy' = 0)
    BY <1>6 DEF Link, Restart
  <2> QED
    BY <1>0, <2>1 DEF QuietInv
<1>7. CASE UNCHANGED vars
  BY <1>7, <1>k DEF vars, QuietInv, Measured
<1> QED
  BY <1>1, <1>2, <1>3, <1>4, <1>5, <1>6, <1>7 DEF Next, Main

-----------------------------------------------------------------------------
(* No wait is longer than a whole one.                                     *)
WaitBounded ==
  \A s \in Sensors :
    /\ Wait(s) \in Nat /\ LongestWait(s) \in Nat
    /\ Wait(s) <= LongestWait(s)
    /\ mode[s] # "change" => Wait(s) + PassTicks <= LongestWait(s)

LEMMA WaitBounds == TypeOK /\ TimerInv => WaitBounded
<1> SUFFICES ASSUME TypeOK, TimerInv, NEW s \in Sensors
             PROVE  /\ Wait(s) \in Nat /\ LongestWait(s) \in Nat
                    /\ Wait(s) <= LongestWait(s)
                    /\ mode[s] # "change" => Wait(s) + PassTicks <= LongestWait(s)
  BY DEF WaitBounded
<1>1. /\ PassTicks \in Nat /\ busy \in 0 .. PassTicks
      /\ timer[s] \in 1 .. LongestPeriod(s) /\ LongestPeriod(s) \in Nat
  <2>1. timer[s] \in 1 .. LongestPeriod(s) /\ LongestPeriod(s) \in 1 .. ULongMax
    BY WithinBound DEF TimerInv
  <2> QED
    BY <2>1, SensorAssumption, Constants DEF TypeOK
<1>2. /\ ~Due(s) => mode[s] # "change" /\ Wait(s) = timer[s] + 2 * PassTicks
      /\ Due(s) => Wait(s) \in {PassTicks - busy, 2 * PassTicks - busy}
  BY DEF Wait, Due
<1>3. LongestWait(s) = IF mode[s] = "change" THEN 2 * PassTicks
                       ELSE LongestPeriod(s) + 3 * PassTicks
  BY DEF LongestWait
<1> HIDE DEF Wait, LongestWait
<1> QED
  BY <1>1, <1>2, <1>3

LEMMA WaitBoundsNext ==
  ASSUME TypeOK', TimerInv', mode' = mode, NEW s \in Sensors
  PROVE  /\ Wait(s)' \in Nat /\ LongestWait(s)' = LongestWait(s) /\ LongestWait(s) \in Nat
         /\ Wait(s)' <= LongestWait(s)
         /\ mode[s] # "change" => Wait(s)' + PassTicks <= LongestWait(s)
<1>1. LongestWait(s)' = LongestWait(s)
  BY DEF LongestWait
<1>2. /\ Wait(s)' \in Nat /\ LongestWait(s)' \in Nat
      /\ Wait(s)' <= LongestWait(s)'
      /\ mode[s] # "change" => Wait(s)' + PassTicks <= LongestWait(s)'
  <2>1. (TypeOK /\ TimerInv => WaitBounded)'
    BY WaitBounds, PTL
  <2> QED
    BY <2>1 DEF WaitBounded
<1> QED
  BY <1>1, <1>2

(* What WaitInv says of a sensor, and the three ways a step keeps it: the  *)
(* wait grows no longer, the quiet begins anew, or loop() is done with a   *)
(* sensor whose input has changed since it was measured in this pass.      *)
Late(s) ==
  /\ mode[s] = "time" \/ told[s]
  /\ broker[s] # input[s]
  /\ ~(Measured(s) /\ value[s] # input[s])
InTime(s) == Late(s) => quiet[s] + Wait(s) <= LongestWait(s)

LEMMA Kept ==
  ASSUME TypeOK, TimerInv, TypeOK', TimerInv', mode' = mode, NEW s \in Sensors, InTime(s),
         Late(s)' => Late(s), quiet'[s] = quiet[s], Wait(s)' <= Wait(s)
  PROVE  InTime(s)'
<1>1. quiet[s] \in Nat /\ Wait(s) \in Nat /\ LongestWait(s) \in Nat
  <2>1. quiet[s] \in Nat
    BY SensorAssumption DEF TypeOK
  <2> QED
    BY <2>1, WaitBounds DEF WaitBounded
<1>2. Wait(s)' \in Nat /\ LongestWait(s)' = LongestWait(s)
  BY WaitBoundsNext
<1>3. \A w \in Nat : w <= Wait(s) /\ quiet[s] + Wait(s) <= LongestWait(s) =>
                     quiet[s] + w <= LongestWait(s)
  BY <1>1
<1> QED
  BY <1>2, <1>3 DEF InTime

LEMMA Quieted ==
  ASSUME TypeOK', TimerInv', mode' = mode, NEW s \in Sensors, quiet'[s] = 0
  PROVE  InTime(s)'
<1>1. /\ Wait(s)' \in Nat /\ LongestWait(s)' = LongestWait(s)
      /\ Wait(s)' <= LongestWait(s)
  BY WaitBoundsNext
<1>2. \A w \in Nat : w <= LongestWait(s) => 0 + w <= LongestWait(s)
  OBVIOUS
<1> QED
  BY <1>1, <1>2 DEF InTime

LEMMA Passed ==
  ASSUME TypeOK, TypeOK', TimerInv', mode' = mode, NEW s \in Sensors,
         quiet'[s] = quiet[s], quiet[s] <= busy, busy' = busy
  PROVE  InTime(s)'
<1>1. PassTicks \in Nat /\ busy \in 0 .. PassTicks /\ quiet[s] \in Nat
  BY SensorAssumption DEF TypeOK
<1>2. /\ Wait(s)' \in Nat /\ LongestWait(s)' = LongestWait(s) /\ LongestWait(s) \in Nat
      /\ mode[s] # "change" => Wait(s)' + PassTicks <= LongestWait(s)
  BY WaitBoundsNext
<1>3. CASE mode[s] # "change"
  <2>1. \A w, l \in Nat : w + PassTicks <= l => quiet[s] + w <= l
    BY <1>1
  <2> QED
    BY <1>2, <1>3, <2>1 DEF InTime
<1>4. CASE mode[s] = "change"
  <2>1. Wait(s)' = PassTicks - busy \/ Wait(s)' = 2 * PassTicks - busy
    BY <1>4 DEF Wait, Due
  <2>2. LongestWait(s) = 2 * PassTicks
    BY <1>4 DEF LongestWait
  <2>3. quiet[s] + (PassTicks - busy) <= 2 * PassTicks /\ quiet[s] + (2 * PassTicks - busy) <= 2 * PassTicks
    BY <1>1
  <2> QED
    BY <1>2, <2>1, <2>2, <2>3 DEF InTime
<1> QED
  BY <1>3, <1>4

LEMMA Nearer ==
  ASSUME TypeOK, TypeOK', mode' = mode, NEW s \in Sensors,
         isTime'[s] = isTime[s], isTime[s] \/ mode[s] = "change" \/ timer'[s] = timer[s],
         Due(s) => \/ busy' = busy /\ (Ahead(s) => Ahead(s)')
                   \/ ~Ahead(s) /\ Ahead(s)'
  PROVE  Wait(s)' <= Wait(s)
<1>1. /\ PassTicks \in Nat /\ busy \in 0 .. PassTicks /\ busy' \in 0 .. PassTicks
      /\ timer[s] \in Nat
  BY SensorAssumption DEF TypeOK
<1>2. Due(s)' <=> Due(s)
  BY DEF Due
<1>3. CASE ~Due(s)
  <2>1. timer'[s] = timer[s]
    BY <1>3 DEF Due
  <2>2. Wait(s)' = timer[s] + 2 * PassTicks /\ Wait(s) = timer[s] + 2 * PassTicks
    BY <1>2, <1>3, <2>1 DEF Wait
  <2> QED
    BY <1>1, <2>2
<1>4. CASE Due(s) /\ busy' = busy /\ (Ahead(s) => Ahead(s)')
  <2>1. /\ Wait(s) = IF Ahead(s) THEN PassTicks - busy ELSE 2 * PassTicks - busy
        /\ Wait(s)' = IF Ahead(s)' THEN PassTicks - busy ELSE 2 * PassTicks - busy
    BY <1>2, <1>4 DEF Wait
  <2> QED
    BY <1>1, <1>4, <2>1
<1>5. CASE Due(s) /\ ~Ahead(s) /\ Ahead(s)'
  <2>1. Wait(s) = 2 * PassTicks - busy /\ Wait(s)' = PassTicks - busy'
    BY <1>2, <1>5 DEF Wait
  <2>2. \A b \in 0 .. PassTicks : PassTicks - b <= 2 * PassTicks - busy
    BY <1>1
  <2> QED
    BY <1>1, <2>1, <2>2
<1> QED
  BY <1>3, <1>4, <1>5

(* On the way to the next sensor no other one is passed over.              *)
LEMMA OthersAhead ==
  ASSUME TypeOK, Following, pc # "loop", NEW s \in Sensors, s # S, Ahead(s)
  PROVE  Ahead(s)'
<1>1. PICK n \in k + 1 .. SENSOR_COUNT : SensorTab[n] = s
  BY DEF Ahead
<1>2. k \in 1 .. SENSOR_COUNT /\ SENSOR_COUNT \in Nat
  BY SensorAssumption DEF TypeOK
<1>3. k' = k + 1 /\ pc' = "look"
  BY <1>1, <1>2 DEF Following
<1>4. CASE n = k + 1
  BY <1>1, <1>3, <1>4 DEF Ahead, S
<1>5. CASE n # k + 1
  <2>1. n \in (k + 1) + 1 .. SENSOR_COUNT
    BY <1>1, <1>2, <1>5
  <2> QED
    BY <1>1, <1>3, <2>1 DEF Ahead
<1> QED
  BY <1>4, <1>5

(* An interrupt brings a report nearer by one.                             *)
LEMMA TickNearer ==
  ASSUME TypeOK, TimerInv, TypeOK', TimerInv', mode' = mode, Tick, NEW s \in Sensors,
         QuietInv, InTime(s)
  PROVE  InTime(s)'
<1>1. /\ PassTicks \in Nat /\ busy \in 0 .. PassTicks
      /\ quiet[s] \in Nat /\ MaxQuiet \in Nat
  BY SensorAssumption DEF TypeOK
<1>2. /\ UNCHANGED <<pc, k, value, input, broker, told, link>>
      /\ timer'[s] = Reload(s) /\ (isTime'[s] <=> isTime[s] \/ Counted(s) = 0)
      /\ quiet'[s] = IF link # "up" THEN 0
                     ELSE IF quiet[s] < MaxQuiet THEN quiet[s] + 1 ELSE MaxQuiet
      /\ (busy < PassTicks /\ busy' = busy + 1) \/ link # "up"
  <2>1. /\ UNCHANGED <<pc, k, value, input, broker, told, link>>
        /\ (busy < PassTicks /\ busy' = busy + 1) \/ link # "up"
    BY DEF Tick, worldVars
  <2>2. timer'[s] = Reload(s) /\ (isTime'[s] <=> isTime[s] \/ Counted(s) = 0)
    BY DEF Tick
  <2>3. quiet'[s] = IF link # "up" THEN 0
                    ELSE IF quiet[s] < MaxQuiet THEN quiet[s] + 1 ELSE MaxQuiet
    BY DEF Tick
  <2> QED
    BY <2>1, <2>2, <2>3
<1>3. CASE link # "up"
  BY <1>2, <1>3, Quieted
<1>4. CASE link = "up"
  <2>1. busy < PassTicks /\ busy' = busy + 1
    BY <1>2, <1>4
  <2>2. quiet'[s] \in Nat /\ quiet'[s] <= quiet[s] + 1
    BY <1>1, <1>2, <1>4
  <2>3. (Late(s)' <=> Late(s)) /\ (Ahead(s)' <=> Ahead(s))
    BY <1>2 DEF Late, Ahead, Measured, S
  <2>4. timer[s] \in 1 .. ULongMax /\ Counted(s) = timer[s] - 1
    <3>1. timer[s] \in 1 .. LongestPeriod(s) /\ LongestPeriod(s) \in 1 .. ULongMax
      BY WithinBound DEF TimerInv
    <3>2. timer[s] \in 1 .. ULongMax /\ ULongMax \in Nat
      BY <3>1, Constants
    <3>3. ULongMax + 1 \in Nat \ {0} /\ timer[s] - 1 \in Nat /\ timer[s] - 1 < ULongMax + 1
      BY <3>2
    <3>4. (timer[s] - 1) % (ULongMax + 1) = timer[s] - 1
      BY <3>3, Small
    <3> QED
      BY <3>2, <3>4 DEF Counted
  <2>5. Wait(s) \in Nat /\ Wait(s)' \in Nat /\ LongestWait(s)' = LongestWait(s) /\ LongestWait(s) \in Nat
    BY WaitBounds, WaitBoundsNext DEF WaitBounded
  <2>6. Wait(s)' \in 0 .. Wait(s) - 1
    <3>1. CASE Due(s)
      <4>1. Due(s)'
        BY <1>2, <3>1 DEF Due
      <4>2. /\ Wait(s) = IF Ahead(s) THEN PassTicks - busy ELSE 2 * PassTicks - busy
            /\ Wait(s)' = IF Ahead(s) THEN PassTicks - (busy + 1) ELSE 2 * PassTicks - (busy + 1)
        BY <2>1, <2>3, <3>1, <4>1 DEF Wait
      <4> QED
        BY <1>1, <2>1, <4>2
    <3>2. CASE ~Due(s) /\ timer[s] = 1
      <4>0. Counted(s) = 0
        BY <2>4, <3>2
      <4>1. Due(s)'
        BY <1>2, <4>0 DEF Due
      <4>2. Wait(s) = 1 + 2 * PassTicks
        BY <3>2 DEF Wait
      <4>3. Wait(s)' = IF Ahead(s) THEN PassTicks - (busy + 1) ELSE 2 * PassTicks - (busy + 1)
        BY <2>1, <2>3, <4>1 DEF Wait
      <4> QED
        BY <1>1, <2>1, <4>2, <4>3
    <3>3. CASE ~Due(s) /\ timer[s] # 1
      <4>1. Counted(s) # 0 /\ timer'[s] = timer[s] - 1
        BY <1>2, <2>4, <3>3 DEF Reload
      <4>2. ~Due(s)'
        BY <1>2, <3>3, <4>1 DEF Due
      <4>3. Wait(s) = timer[s] + 2 * PassTicks /\ Wait(s)' = (timer[s] - 1) + 2 * PassTicks
        BY <3>3, <4>1, <4>2 DEF Wait
      <4> QED
        BY <1>1, <2>4, <4>3
    <3> QED
      BY <3>1, <3>2, <3>3
  <2>7. \A q, w \in Nat : q <= quiet[s] + 1 /\ w \in 0 .. Wait(s) - 1
                          /\ quiet[s] + Wait(s) <= LongestWait(s) => q + w <= LongestWait(s)
    BY <1>1, <2>5
  <2> QED
    BY <2>2, <2>3, <2>5, <2>6, <2>7 DEF InTime
<1> QED
  BY <1>3, <1>4

LEMMA WaitInit == Init => WaitInv
<1> SUFFICES ASSUME Init, NEW s \in Sensors PROVE InTime(s)
  BY DEF WaitInv, InTime, Late
<1>1. TypeOK /\ TimerInv
  BY TypeInit, PeriodWithin DEF Init, TimerInv
<1>2. quiet[s] = 0 /\ Wait(s) \in Nat /\ Wait(s) <= LongestWait(s)
  BY <1>1, WaitBounds DEF WaitBounded, Init
<1> QED
  BY <1>2 DEF InTime

LEMMA WaitNext ==
  /\ TypeOK /\ TimerInv /\ NewsInv /\ QuietInv /\ WaitInv
  /\ TypeOK' /\ TimerInv' /\ [Next]_vars
  => WaitInv'
<1> SUFFICES ASSUME TypeOK, TimerInv, NewsInv, QuietInv, WaitInv, TypeOK', TimerInv', [Next]_vars,
                    NEW s \in Sensors
             PROVE  InTime(s)'
  BY DEF WaitInv, InTime, Late
<1> USE DEF Goto, fieldVars, loopVars, worldVars
<1>0. /\ S \in Sensors /\ mode \in [Sensors -> {"time", "timeAndChange", "change"}]
      /\ value \in [Sensors -> Values] /\ broker \in [Sensors -> Values]
      /\ input \in [Sensors -> Values] /\ timer \in [Sensors -> 0 .. ULongMax]
      /\ isTime \in [Sensors -> BOOLEAN] /\ changed \in [Sensors -> BOOLEAN]
      /\ told \in [Sensors -> BOOLEAN]
  BY SensorAssumption DEF S, TypeOK
<1>m. mode' = mode
  BY DEF Next, vars
<1>k. k' = k => S' = S
  BY DEF S
<1>i. InTime(s)
  BY DEF WaitInv, InTime, Late
<1>q. link # "up" => quiet[s] = 0
  BY DEF QuietInv
<1>1. CASE Pass
  <2>1. /\ pc = "loop" /\ pc' = "look" /\ k' = 1
        /\ UNCHANGED <<isTime, timer, value, input, broker, told, quiet>>
    BY <1>1 DEF Pass
  <2>2. Late(s)' => Late(s)
    BY <1>m, <2>1 DEF Late, Measured
  <2>3. PICK n \in 1 .. SENSOR_COUNT : SensorTab[n] = s
    BY SensorAssumption
  <2>4. Ahead(s)'
    <3>1. CASE n = 1
      BY <2>1, <2>3, <3>1 DEF Ahead, S
    <3>2. CASE n # 1
      <4>1. n \in 1 + 1 .. SENSOR_COUNT
        BY <2>3, <3>2, SensorAssumption
      <4> QED
        BY <2>1, <2>3, <4>1 DEF Ahead
    <3> QED
      BY <3>1, <3>2
  <2>5. ~Ahead(s)
    BY <2>1 DEF Ahead
  <2>6. Wait(s)' <= Wait(s)
    BY <1>m, <2>1, <2>4, <2>5, Nearer
  <2> QED
    BY <1>m, <1>i, <2>1, <2>2, <2>6, Kept
<1>2. CASE NotYet
  <2>1. /\ pc = "look" /\ mode[S] # "change" /\ ~isTime[S] /\ pc' \in {"look", "loop"}
        /\ Following /\ busy' = busy
        /\ UNCHANGED <<isTime, timer, value, input, broker, told, quiet>>
    BY <1>2 DEF NotYet, Following
  <2>2. Late(s)' => Late(s)
    BY <1>m, <2>1 DEF Late, Measured
  <2>3. Due(s) => (Ahead(s) => Ahead(s)')
    BY <2>1, OthersAhead DEF Due
  <2>4. Wait(s)' <= Wait(s)
    BY <1>m, <2>1, <2>3, Nearer
  <2> QED
    BY <1>m, <1>i, <2>1, <2>2, <2>4, Kept
<1>3. CASE Look
  <2>1. /\ pc = "look" /\ pc' = "measure" /\ k' = k /\ busy' = busy /\ S' = S
        /\ UNCHANGED <<isTime, timer, value, input, broker, told, quiet>>
    BY <1>3, <1>k DEF Look
  <2>2. (Late(s)' => Late(s)) /\ (Ahead(s) => Ahead(s)')
    BY <1>m, <2>1 DEF Late, Measured, Ahead
  <2>3. Wait(s)' <= Wait(s)
    BY <1>m, <2>1, <2>2, Nearer
  <2> QED
    BY <1>m, <1>i, <2>1, <2>2, <2>3, Kept
<1>4. CASE Measure
  <2>1. /\ pc = "measure" /\ pc' = "decide" /\ k' = k /\ busy' = busy /\ S' = S
        /\ value' = [value EXCEPT ![S] = input[S]]
        /\ UNCHANGED <<isTime, timer, input, broker, told, quiet>>
    BY <1>4, <1>k DEF Measure
  <2>2. s = S => value'[s] = input[s]
    BY <1>0, <2>1
  <2>3. Late(s)' => Late(s)
    BY <1>m, <2>1 DEF Late, Measured
  <2>4. Ahead(s) => Ahead(s)'
    BY <2>1, <2>2 DEF Ahead
  <2>5. Wait(s)' <= Wait(s)
    BY <1>m, <2>1, <2>4, Nearer
  <2> QED
    BY <1>m, <1>i, <2>1, <2>3, <2>5, Kept
<1>5. CASE Decide
  <2>1. pc = "decide" /\ UNCHANGED <<value, isTime, changed, timer, input, broker, told, quiet>>
    BY <1>5 DEF Decide
  <2>2. busy' = busy
    BY <1>5 DEF Decide, Following
  <2>3. ASSUME Late(s)' => Late(s), Ahead(s) => Ahead(s)' PROVE InTime(s)'
    <3>1. Wait(s)' <= Wait(s)
      BY <1>m, <2>1, <2>2, <2>3, Nearer
    <3> QED
      BY <1>m, <1>i, <2>1, <2>3, <3>1, Kept
  <2>4. CASE pc' = "send" /\ k' = k
    <3>1. (Late(s)' => Late(s)) /\ (Ahead(s) => Ahead(s)')
      BY <1>k, <1>m, <2>1, <2>4 DEF Late, Measured, Ahead
    <3> QED
      BY <2>3, <3>1
  <2>5. CASE ~ToSend /\ mode[S] = "timeAndChange" /\ pc' = "timer" /\ k' = k
    <3>1. CASE s # S
      <4>1. (Late(s)' => Late(s)) /\ (Ahead(s) => Ahead(s)')
        BY <1>k, <1>m, <2>1, <2>5, <3>1 DEF Late, Measured, Ahead
      <4> QED
        BY <2>3, <4>1
    <3>2. CASE s = S
      <4>1. ~changed[s]
        BY <2>1, <2>5, <3>2 DEF ToSend, NewsInv
      <4>2. told[s] => broker[s] = value[s]
        BY <3>2, <4>1 DEF NewsInv
      <4>3. ~Late(s)'
        BY <1>k, <1>m, <2>1, <2>5, <3>2, <4>2 DEF Late, Measured
      <4> QED
        BY <4>3 DEF InTime
    <3> QED
      BY <3>1, <3>2
  <2>6. CASE ~ToSend /\ mode[S] = "change" /\ Following
    <3>0. pc' \in {"look", "loop"}
      BY <2>6 DEF Following
    <3>1. CASE s # S
      <4>1. Late(s)' => Late(s)
        BY <1>m, <2>1, <3>1 DEF Late, Measured
      <4>2. Ahead(s) => Ahead(s)'
        BY <2>1, <2>6, <3>1, OthersAhead
      <4> QED
        BY <2>3, <4>1, <4>2
    <3>2. CASE s = S
      <4>1. ~changed[s]
        BY <2>6, <3>2 DEF ToSend
      <4>2. told[s] => broker[s] = value[s]
        BY <3>2, <4>1 DEF NewsInv
      <4>3. Late(s)' => value[s] # input[s]
        BY <1>m, <2>1, <2>6, <3>2, <4>2 DEF Late
      <4>4. CASE value[s] # input[s]
        <5>1. quiet[s] <= busy
          BY <2>1, <3>2, <4>4 DEF QuietInv, Measured
        <5> QED
          BY <1>m, <2>1, <2>2, <5>1, Passed
      <4> QED
        BY <4>3, <4>4 DEF InTime
    <3> QED
      BY <3>1, <3>2
  <2> QED
    BY <1>5, <2>4, <2>5, <2>6 DEF Decide
<1>6. CASE Send
  <2>1. /\ pc = "send" /\ pc' = "sent" /\ k' = k /\ busy' = busy /\ S' = S
        /\ UNCHANGED <<isTime, timer, value, input, quiet>>
        /\ link = "up" => broker' = [broker EXCEPT ![S] = value[S]]
        /\ link # "up" => broker' = broker
        /\ told' = [told EXCEPT ![S] = link = "up"]
    BY <1>6, <1>k DEF Send
  <2>2. CASE s # S
    <3>1. broker'[s] = broker[s] /\ told'[s] = told[s]
      BY <1>0, <2>1, <2>2
    <3>2. (Late(s)' => Late(s)) /\ (Ahead(s) => Ahead(s)')
      BY <1>m, <2>1, <2>2, <3>1 DEF Late, Measured, Ahead
    <3>3. Wait(s)' <= Wait(s)
      BY <1>m, <2>1, <3>2, Nearer
    <3> QED
      BY <1>m, <1>i, <2>1, <3>2, <3>3, Kept
  <2>3. CASE s = S /\ link = "up"
    <3>1. broker'[s] = value[s]
      BY <1>0, <2>1, <2>3
    <3>2. ~Late(s)'
      BY <2>1, <2>3, <3>1 DEF Late, Measured
    <3> QED
      BY <3>2 DEF InTime
  <2>4. CASE link # "up"
    BY <1>m, <1>q, <2>1, <2>4, Quieted
  <2> QED
    BY <2>2, <2>3, <2>4
<1>7. CASE Sent
  <2>1. /\ pc = "sent" /\ Following /\ busy' = busy /\ pc' \in {"look", "loop"}
        /\ UNCHANGED <<timer, value, input, broker, told, quiet>>
        /\ isTime' = [isTime EXCEPT ![S] = FALSE]
    BY <1>7 DEF Sent, Following
  <2>2. CASE s # S
    <3>1. isTime'[s] = isTime[s]
      BY <1>0, <2>1, <2>2
    <3>2. Late(s)' => Late(s)
      BY <1>m, <2>1, <2>2 DEF Late, Measured
    <3>3. Ahead(s) => Ahead(s)'
      BY <2>1, <2>2, OthersAhead
    <3>4. Wait(s)' <= Wait(s)
      BY <1>m, <2>1, <3>1, <3>3, Nearer
    <3> QED
      BY <1>m, <1>i, <2>1, <3>2, <3>4, Kept
  <2>3. CASE s = S /\ value[s] # input[s]
    <3>1. quiet[s] <= busy
      BY <2>1, <2>3 DEF QuietInv, Measured
    <3> QED
      BY <1>m, <2>1, <3>1, Passed
  <2>4. CASE s = S /\ value[s] = input[s] /\ link = "up"
    <3>1. broker[s] = value[s]
      BY <2>1, <2>4 DEF NewsInv
    <3>2. ~Late(s)'
      BY <2>1, <2>4, <3>1 DEF Late
    <3> QED
      BY <3>2 DEF InTime
  <2>5. CASE link # "up"
    BY <1>m, <1>q, <2>1, <2>5, Quieted
  <2> QED
    BY <2>2, <2>3, <2>4, <2>5
<1>8. CASE StoreFirst \/ StoreSecond
  <2>1. /\ pc \in {"timer", "timerHigh", "timerLow"} /\ pc' \in {"timerHigh", "timerLow", "clear"}
        /\ k' = k /\ busy' = busy /\ S' = S
        /\ UNCHANGED <<isTime, value, input, broker, told, quiet>>
        /\ timer' = StoreLow(timer, S) \/ timer' = StoreHigh(timer, S)
    BY <1>8, <1>k DEF StoreFirst, StoreSecond
  <2>2. CASE s # S
    <3>1. timer'[s] = timer[s]
      BY <1>0, <2>1, <2>2 DEF StoreLow, StoreHigh
    <3>2. (Late(s)' => Late(s)) /\ (Ahead(s) => Ahead(s)')
      BY <1>m, <2>1, <2>2 DEF Late, Measured, Ahead
    <3>3. Wait(s)' <= Wait(s)
      BY <1>m, <2>1, <3>1, <3>2, Nearer
    <3> QED
      BY <1>m, <1>i, <2>1, <3>2, <3>3, Kept
  <2>3. CASE s = S
    <3>1. mode[s] = "timeAndChange" /\ ~changed[s]
      BY <2>1, <2>3 DEF NewsInv
    <3>2. told[s] => broker[s] = value[s]
      BY <3>1 DEF NewsInv
    <3>3. ~Late(s)'
      BY <1>m, <2>1, <2>3, <3>1, <3>2 DEF Late, Measured
    <3> QED
      BY <3>3 DEF InTime
  <2> QED
    BY <2>2, <2>3
<1>9. CASE Clear
  <2>1. /\ pc = "clear" /\ Following /\ busy' = busy /\ pc' \in {"look", "loop"}
        /\ UNCHANGED <<timer, value, input, broker, told, quiet>>
        /\ isTime' = [isTime EXCEPT ![S] = FALSE]
    BY <1>9 DEF Clear, Following
  <2>2. CASE s # S
    <3>1. isTime'[s] = isTime[s]
      BY <1>0, <2>1, <2>2
    <3>2. Late(s)' => Late(s)
      BY <1>m, <2>1, <2>2 DEF Late, Measured
    <3>3. Ahead(s) => Ahead(s)'
      BY <2>1, <2>2, OthersAhead
    <3>4. Wait(s)' <= Wait(s)
      BY <1>m, <2>1, <3>1, <3>3, Nearer
    <3> QED
      BY <1>m, <1>i, <2>1, <3>2, <3>4, Kept
  <2>3. CASE s = S /\ value[s] # input[s]
    <3>1. quiet[s] <= busy
      BY <2>1, <2>3 DEF QuietInv, Measured
    <3> QED
      BY <1>m, <2>1, <3>1, Passed
  <2>4. CASE s = S /\ value[s] = input[s]
    <3>1. mode[s] = "timeAndChange" /\ ~changed[s]
      BY <2>1, <2>4 DEF NewsInv
    <3>2. told[s] => broker[s] = value[s]
      BY <3>1 DEF NewsInv
    <3>3. ~Late(s)'
      BY <1>m, <2>1, <2>4, <3>1, <3>2 DEF Late
    <3> QED
      BY <3>3 DEF InTime
  <2> QED
    BY <2>2, <2>3, <2>4
<1>10. CASE Tick
  BY <1>10, <1>m, <1>i, TickNearer
<1>11. ASSUME NEW r \in Sensors, Input(r) PROVE InTime(s)'
  <2>1. /\ UNCHANGED <<pc, k, busy, isTime, timer, value, broker, told>>
        /\ s = r => quiet'[s] = 0
        /\ s # r => quiet'[s] = quiet[s] /\ input'[s] = input[s]
    BY <1>0, <1>11 DEF Input, TypeOK
  <2>2. CASE s = r
    BY <1>m, <2>1, <2>2, Quieted
  <2>3. CASE s # r
    <3>1. (Late(s)' => Late(s)) /\ (Ahead(s) => Ahead(s)')
      BY <1>k, <1>m, <2>1, <2>3 DEF Late, Measured, Ahead
    <3>2. Wait(s)' <= Wait(s)
      BY <1>m, <2>1, <3>1, Nearer
    <3> QED
      BY <1>m, <1>i, <2>1, <2>3, <3>1, <3>2, Kept
  <2> QED
    BY <2>2, <2>3
<1>12. CASE Link \/ Restart
  <2>1. quiet'[s] = 0
    BY <1>12 DEF Link, Restart
  <2> QED
    BY <1>m, <2>1, Quieted
<1>13. CASE UNCHANGED vars
  <2>1. (Late(s)' => Late(s)) /\ (Ahead(s) => Ahead(s)')
    BY <1>k, <1>13 DEF vars, Late, Measured, Ahead
  <2>2. UNCHANGED <<busy, isTime, timer, quiet>>
    BY <1>13 DEF vars
  <2>3. Wait(s)' <= Wait(s)
    BY <1>m, <2>1, <2>2, Nearer
  <2> QED
    BY <1>m, <1>i, <2>1, <2>2, <2>3, Kept
<1> QED
  BY <1>1, <1>2, <1>3, <1>4, <1>5, <1>6, <1>7, <1>8, <1>9, <1>10, <1>11, <1>12, <1>13
     DEF Next, Main

-----------------------------------------------------------------------------
(* Every state of loop() and the interrupt, whatever the sensors measure   *)
(* and whenever the link goes or the controller restarts.                  *)
THEOREM SensorInvariant == Spec => []SensorInv
<1>1. Init => SensorInv
  BY TypeInit, PeriodWithin, NewsInit, QuietInit, WaitInit DEF Init, TimerInv, SensorInv
<1>2. SensorInv /\ [Next]_vars => SensorInv'
  <2> SUFFICES ASSUME SensorInv, [Next]_vars PROVE SensorInv'
    OBVIOUS
  <2>1. TimerInv'
    BY TimerInvNext DEF SensorInv
  <2>2. TypeOK'
    BY <2>1, TypeNext DEF SensorInv
  <2>3. NewsInv' /\ QuietInv'
    BY NewsNext, QuietNext DEF SensorInv
  <2>4. WaitInv'
    BY <2>1, <2>2, WaitNext DEF SensorInv
  <2> QED
    BY <2>1, <2>2, <2>3, <2>4 DEF SensorInv
<1> QED
  BY <1>1, <1>2, PTL DEF Spec

(* No timer is ever 0, or further from it than its longest period, though  *)
(* clearSendFlag() stores it byte by byte (IMqttSensor.cpp,                *)
(* MqttSensor.cpp).                                                        *)
THEOREM TimersBounded == Spec => []TimerBound
<1>1. SensorInv => TimerBound
  BY WithinBound DEF SensorInv, TimerInv, TimerBound
<1> QED
  BY <1>1, SensorInvariant, PTL

(* Two periods and two passes after the last change of what it measures,   *)
(* and of the link, a sensor's value is at the broker.                     *)
THEOREM ValuesReported == Spec => []Reported
<1>1. SensorInv => Reported
  <2> SUFFICES ASSUME SensorInv, NEW s \in Sensors, quiet[s] >= ReportBound(s),
                      mode[s] = "time" \/ told[s], broker[s] # input[s]
               PROVE  FALSE
    BY DEF Reported
  <2>1. /\ PassTicks \in Nat /\ busy \in 0 .. PassTicks /\ quiet[s] \in Nat
    BY SensorAssumption DEF SensorInv, TypeOK
  <2>2. LongestPeriod(s) \in Nat /\ PassTicks <= LongestPeriod(s)
    <3>1. PassTicks <= SendPeriod[s] /\ SendPeriod[s] \in Nat
      BY SensorAssumption
    <3>2. SendPeriod[s] \in 1 .. LongestPeriod(s) /\ LongestPeriod(s) \in 1 .. ULongMax
      BY PeriodWithin, WithinBound
    <3> QED
      BY <2>1, <3>1, <3>2, Constants
  <2>3. ReportBound(s) = IF mode[s] = "change" THEN 2 * PassTicks + 1
                         ELSE 2 * (LongestPeriod(s) + PassTicks + 1)
    BY DEF ReportBound
  <2>4. quiet[s] > busy
    BY <2>1, <2>2, <2>3
  <2>5. ~(Measured(s) /\ value[s] # input[s])
    BY <2>1, <2>4 DEF SensorInv, QuietInv
  <2>6. quiet[s] + Wait(s) <= LongestWait(s)
    BY <2>5 DEF SensorInv, WaitInv
  <2>7. Wait(s) \in Nat
    BY WaitBounds DEF SensorInv, WaitBounded
  <2>8. LongestWait(s) = IF mode[s] = "change" THEN 2 * PassTicks
                         ELSE LongestPeriod(s) + 3 * PassTicks
    BY DEF LongestWait
  <2> QED
    BY <2>1, <2>2, <2>3, <2>6, <2>7, <2>8
<1> QED
  BY <1>1, SensorInvariant, PTL

-----------------------------------------------------------------------------
(* The sirens.  But for the stores of the upper bytes of a time-out and of *)
(* the timer, what is left of the time-out and what has run of it are      *)
(* within its ticks, rounded up; in the store of the lower bytes that is   *)
(* left the upper ones are.                                                *)
Storing(r) == cur = r /\ relayPc \in {"timeoutUpper", "timeoutLower", "timer", "timerUpper"}
Half(r)    == cur = r /\ relayPc = "timerLower"
Lasts(r)   == relayTimer[r] + running[r] < Upper(timeout[r]) + Bytes

SirenInv ==
  /\ RelayTypeOK
  /\ \A r \in Relays :
       /\ Half(r) => Upper(relayTimer[r]) <= Upper(timeout[r])
       /\ ~Storing(r) /\ ~Half(r) => Lasts(r)

LEMMA SirenConstants ==
  /\ Bytes \in Nat \ {0} /\ MaxTimeout \in Nat \ {0}
  /\ Timeout \in 0 .. MaxTimeout /\ Periods \subseteq 0 .. MaxTimeout
BY RelayAssumption

(* The parts of a number, and the numbers made of the parts of two.        *)
LEMMA SirenParts ==
  ASSUME NEW n \in 0 .. MaxTimeout
  PROVE  /\ Lower(n) \in 0 .. Bytes - 1 /\ Upper(n) \in Nat /\ n = Upper(n) + Lower(n)
         /\ Upper(n) + Bytes - 1 <= MaxTimeout
<1>1. n \in Nat /\ MaxTimeout \in Nat /\ Bytes \in Nat \ {0} /\ n <= MaxTimeout
  BY SirenConstants
<1>2. n % Bytes \in 0 .. Bytes - 1 /\ n - (n % Bytes) \in Nat
  BY <1>1, Division, Small
<1>3. n - (n % Bytes) <= MaxTimeout - (MaxTimeout % Bytes)
  BY <1>1, UpperMonotone
<1> QED
  BY <1>1, <1>2, <1>3, RelayAssumption DEF Lower, Upper

LEMMA SirenStores ==
  ASSUME NEW m \in 0 .. MaxTimeout, NEW n \in 0 .. MaxTimeout
  PROVE  /\ StoreLower(m, n) \in 0 .. MaxTimeout /\ StoreUpper(m, n) \in 0 .. MaxTimeout
         /\ StoreUpper(m, n) < Upper(n) + Bytes
         /\ Upper(m) <= Upper(n) => StoreLower(m, n) < Upper(n) + Bytes
         /\ Upper(StoreUpper(m, n)) = Upper(n)
<1>1. /\ Lower(m) \in 0 .. Bytes - 1 /\ Upper(m) \in Nat /\ Upper(m) + Bytes - 1 <= MaxTimeout
      /\ Lower(n) \in 0 .. Bytes - 1 /\ Upper(n) \in Nat /\ Upper(n) + Bytes - 1 <= MaxTimeout
      /\ Bytes \in Nat \ {0} /\ MaxTimeout \in Nat
  BY SirenParts, SirenConstants
<1>2. Lower(StoreUpper(m, n)) = Lower(m)
  BY <1>1, Join DEF Lower, Upper, StoreUpper
<1>3. Upper(StoreUpper(m, n)) = StoreUpper(m, n) - Lower(StoreUpper(m, n))
  BY DEF Upper
<1> HIDE DEF Upper, Lower
<1> QED
  BY <1>1, <1>2, <1>3 DEF StoreLower, StoreUpper

(* A whole time-out lasts, and one of which a tick has gone does so too.   *)
LEMMA SirenCounted ==
  ASSUME RelayTypeOK, NEW r \in Relays
  PROVE  /\ CountedDown(r) \in 0 .. MaxTimeout
         /\ timeout[r] < Upper(timeout[r]) + Bytes
         /\ Upper(relayTimer[r]) <= Upper(timeout[r]) => Upper(CountedDown(r)) <= Upper(timeout[r])
<1>1. relayTimer[r] \in 0 .. MaxTimeout /\ timeout[r] \in 0 .. MaxTimeout /\ MaxTimeout \in Nat
  BY SirenConstants DEF RelayTypeOK
<1>2. CountedDown(r) \in 0 .. MaxTimeout
  BY <1>1 DEF CountedDown
<1>3. timeout[r] < Upper(timeout[r]) + Bytes
  BY <1>1, SirenParts, SirenConstants
<1>4. ASSUME Upper(relayTimer[r]) <= Upper(timeout[r]) PROVE Upper(CountedDown(r)) <= Upper(timeout[r])
  <2>1. CASE CountedDown(r) = timeout[r]
    BY <1>1, <2>1, SirenParts
  <2>2. CASE CountedDown(r) # timeout[r]
    <3>1. CountedDown(r) \in Nat /\ relayTimer[r] \in Nat /\ CountedDown(r) <= relayTimer[r]
      BY <1>1, <2>2 DEF CountedDown
    <3>2. Upper(CountedDown(r)) <= Upper(relayTimer[r])
      BY <3>1, UpperMonotone, SirenConstants DEF Upper, Lower
    <3>3. Upper(CountedDown(r)) \in Nat /\ Upper(relayTimer[r]) \in Nat /\ Upper(timeout[r]) \in Nat
      BY <1>1, <1>2, SirenParts
    <3> QED
      BY <1>4, <3>2, <3>3
  <2> QED
    BY <2>1, <2>2
<1> QED
  BY <1>2, <1>3, <1>4

LEMMA SirenInit == RelayInit => SirenInv
<1> SUFFICES ASSUME RelayInit PROVE SirenInv
  OBVIOUS
<1>1. RelayTypeOK
  BY SirenConstants, RelayAssumption
     DEF RelayInit, RelayTypeOK, ERelayState, On, Off
<1>2. ASSUME NEW r \in Relays PROVE Lasts(r) /\ ~Half(r)
  <2>1. 0 \in 0 .. MaxTimeout
    BY SirenConstants
  <2>2. Upper(0) \in Nat
    BY <2>1, SirenParts
  <2> QED
    BY <2>2, SirenConstants DEF RelayInit, Lasts, Half
<1> QED
  BY <1>1, <1>2 DEF SirenInv

(* The stores of main, one by one.                                         *)
LEMMA SirenStep == SirenInv /\ (StoreTimeout \/ StoreTimer \/ TimerStored) => SirenInv'
<1> SUFFICES ASSUME SirenInv, StoreTimeout \/ StoreTimer \/ TimerStored PROVE SirenInv'
  OBVIOUS
<1> USE SirenConstants
<1>1. /\ cur \in Relays /\ cur' = cur /\ arg \in 0 .. MaxTimeout /\ arg' = arg
      /\ timeout \in [Relays -> 0 .. MaxTimeout] /\ relayTimer \in [Relays -> 0 .. MaxTimeout]
      /\ running \in [Relays -> Nat] /\ RelayTypeOK
      /\ setValue' = setValue /\ pin' = pin
  BY DEF SirenInv, RelayTypeOK, StoreTimeout, StoreTimer, TimerStored, Advance
<1>2. ASSUME NEW r \in Relays, r # cur
      PROVE  /\ timeout'[r] = timeout[r] /\ relayTimer'[r] = relayTimer[r]
             /\ running'[r] = running[r] /\ ~Half(r)' /\ Lasts(r)'
  <2>1. timeout'[r] = timeout[r] /\ relayTimer'[r] = relayTimer[r] /\ running'[r] = running[r]
    BY <1>1, <1>2 DEF StoreTimeout, StoreTimer, TimerStored, pastVars
  <2>2. ~Storing(r) /\ ~Half(r) /\ ~Half(r)'
    BY <1>1, <1>2 DEF Storing, Half
  <2> QED
    BY <2>1, <2>2 DEF SirenInv, Lasts
<1>3. CASE StoreTimeout
  <2>1. PICK stored \in 0 .. MaxTimeout : timeout' = [timeout EXCEPT ![cur] = stored]
    <3>1. /\ StoreLower(timeout[cur], arg) \in 0 .. MaxTimeout
          /\ StoreUpper(timeout[cur], arg) \in 0 .. MaxTimeout
      BY <1>1, SirenStores
    <3> QED
      BY <1>3, <3>1 DEF StoreTimeout
  <2>2. relayPc' \in {"timeoutUpper", "timeoutLower", "timer"}
    BY <1>3 DEF StoreTimeout, Advance
  <2>3. RelayTypeOK'
    BY <1>1, <1>3, <2>1, <2>2 DEF RelayTypeOK, StoreTimeout, pastVars, TimeoutParts, TimerParts
  <2>4. Storing(cur)' /\ ~Half(cur)'
    BY <1>1, <2>2 DEF Storing, Half
  <2> QED
    BY <1>1, <1>2, <2>3, <2>4 DEF SirenInv, Storing, Half
<1>4. CASE StoreTimer
  <2>1. /\ UNCHANGED <<timeout, built, expired, running>>
        /\ \/ relayPc' = "timerUpper"
              /\ relayTimer' = [relayTimer EXCEPT ![cur] = StoreLower(@, timeout[cur])]
           \/ relayPc' = "timerLower"
              /\ relayTimer' = [relayTimer EXCEPT ![cur] = StoreUpper(@, timeout[cur])]
    BY <1>4 DEF StoreTimer, Advance, pastVars
  <2>2. /\ StoreLower(relayTimer[cur], timeout[cur]) \in 0 .. MaxTimeout
        /\ StoreUpper(relayTimer[cur], timeout[cur]) \in 0 .. MaxTimeout
        /\ Upper(StoreUpper(relayTimer[cur], timeout[cur])) = Upper(timeout[cur])
        /\ Upper(timeout[cur]) \in Nat
    BY <1>1, SirenStores, SirenParts
  <2>3. RelayTypeOK'
    BY <1>1, <2>1, <2>2 DEF RelayTypeOK, TimeoutParts, TimerParts
  <2>4. Half(cur)' => Upper(relayTimer[cur])' <= Upper(timeout[cur])'
    BY <1>1, <2>1, <2>2 DEF Half
  <2>5. Storing(cur)' \/ Half(cur)'
    BY <1>1, <2>1 DEF Storing, Half
  <2> QED
    BY <1>1, <1>2, <2>3, <2>4, <2>5 DEF SirenInv
<1>5. CASE TimerStored
  <2>1. /\ timeout' = timeout /\ running' = [running EXCEPT ![cur] = 0] /\ relayPc' = "idle"
        /\ built' = built \union {cur} /\ expired' = expired \ {cur}
        /\ \/ relayPc = "timerUpper"
              /\ relayTimer' = [relayTimer EXCEPT ![cur] = StoreUpper(@, timeout[cur])]
           \/ relayPc = "timerLower"
              /\ relayTimer' = [relayTimer EXCEPT ![cur] = StoreLower(@, timeout[cur])]
    BY <1>5 DEF TimerStored, Advance
  <2>2. relayPc = "timerLower" => Upper(relayTimer[cur]) <= Upper(timeout[cur])
    BY <1>1 DEF SirenInv, Half
  <2>3. /\ StoreLower(relayTimer[cur], timeout[cur]) \in 0 .. MaxTimeout
        /\ StoreUpper(relayTimer[cur], timeout[cur]) \in 0 .. MaxTimeout
        /\ StoreUpper(relayTimer[cur], timeout[cur]) < Upper(timeout[cur]) + Bytes
        /\ relayPc = "timerLower" =>
             StoreLower(relayTimer[cur], timeout[cur]) < Upper(timeout[cur]) + Bytes
    BY <1>1, <2>2, SirenStores
  <2>4. RelayTypeOK'
    BY <1>1, <2>1, <2>3 DEF RelayTypeOK
  <2>5. relayTimer'[cur] \in Nat /\ relayTimer'[cur] < Upper(timeout[cur]) + Bytes /\ running'[cur] = 0
    BY <1>1, <2>1, <2>3
  <2>6. Lasts(cur)' /\ ~Half(cur)'
    BY <1>1, <2>1, <2>5 DEF Lasts, Half
  <2> QED
    BY <1>1, <1>2, <2>4, <2>6 DEF SirenInv
<1> QED
  BY <1>3, <1>4, <1>5

(* The interrupt: what it takes from a timer it adds to what has run.      *)
LEMMA SirenTick == SirenInv /\ ProcessTimer => SirenInv'
<1> SUFFICES ASSUME SirenInv, ProcessTimer PROVE SirenInv'
  OBVIOUS
<1> USE SirenConstants
<1>1. /\ relayTimer' = [r \in Relays |-> CountedDown(r)]
      /\ running' = [r \in Relays |->
                       IF timeout[r] = 0 \/ Expires(r) \/ InCall(r) THEN 0 ELSE running[r] + 1]
      /\ UNCHANGED <<timeout, built, relayPc, cur, arg>>
  BY DEF ProcessTimer, callVars
<1>2. RelayTypeOK'
  <2>1. setValue' \in [Relays -> ERelayState] /\ pin' \in [Relays -> ERelayState]
    BY DEF ProcessTimer, Stored, SirenInv, RelayTypeOK, ERelayState
  <2>2. expired' \subseteq Relays
    BY DEF ProcessTimer, SirenInv, RelayTypeOK
  <2>3. relayTimer' \in [Relays -> 0 .. MaxTimeout]
    BY <1>1, SirenCounted DEF SirenInv
  <2>4. running' \in [Relays -> Nat]
    BY <1>1 DEF SirenInv, RelayTypeOK
  <2> QED
    BY <1>1, <2>1, <2>2, <2>3, <2>4 DEF SirenInv, RelayTypeOK
<1>3. ASSUME NEW r \in Relays, Half(r)' PROVE Upper(relayTimer[r])' <= Upper(timeout[r])'
  BY <1>1, <1>3, SirenCounted DEF SirenInv, Half
<1>4. ASSUME NEW r \in Relays, ~Storing(r)', ~Half(r)' PROVE Lasts(r)'
  <2>1. Lasts(r)
    BY <1>1, <1>4 DEF SirenInv, Storing, Half
  <2>2. /\ relayTimer[r] \in Nat /\ running[r] \in Nat /\ timeout[r] \in 0 .. MaxTimeout
        /\ Upper(timeout[r]) \in Nat
    BY SirenParts DEF SirenInv, RelayTypeOK
  <2>3. timeout'[r] = timeout[r] /\ relayTimer'[r] = CountedDown(r)
    BY <1>1
  <2>4. CASE Expires(r)
    BY <1>1, <2>2, <2>3, <2>4, SirenCounted DEF SirenInv, Expires, CountedDown, Lasts
  <2>5. CASE ~Expires(r)
    <3>1. CountedDown(r) + running'[r] <= relayTimer[r] + running[r]
      BY <1>1, <2>2, <2>5 DEF Expires, CountedDown
    <3>2. running'[r] \in Nat /\ CountedDown(r) \in Nat
      BY <1>1, <2>2, <2>5 DEF Expires, CountedDown
    <3> QED
      BY <2>1, <2>2, <2>3, <3>1, <3>2 DEF Lasts
  <2> QED
    BY <2>4, <2>5
<1> QED
  BY <1>2, <1>3, <1>4 DEF SirenInv

LEMMA SirenNext == SirenInv /\ [RelayNext]_relayVars => SirenInv'
<1> SUFFICES ASSUME SirenInv, [RelayNext]_relayVars PROVE SirenInv'
  OBVIOUS
<1> USE DEF TimeoutParts, TimerParts
<1>1. ASSUME NEW r \in Relays, Construct(r) PROVE SirenInv'
  <2>1. /\ relayPc' = "pinMode" /\ cur' = r /\ arg' = Off /\ UNCHANGED <<pin, built, expired>>
        /\ timeout' = [timeout EXCEPT ![r] = Timeout]
        /\ relayTimer' = [relayTimer EXCEPT ![r] = Timeout]
        /\ running' = [running EXCEPT ![r] = 0]
        /\ setValue' = [setValue EXCEPT ![r] = Off] /\ relayPc = "idle"
    BY <1>1 DEF Construct, Call
  <2>2. RelayTypeOK'
    BY <2>1, SirenConstants DEF SirenInv, RelayTypeOK, ERelayState, On, Off
  <2>3. Timeout < Upper(Timeout) + Bytes
    BY SirenParts, SirenConstants
  <2>4. ASSUME NEW q \in Relays PROVE Lasts(q)' /\ ~Half(q)'
    <3>1. Lasts(q)
      BY <2>1 DEF SirenInv, Storing, Half
    <3>2. CASE q = r
      <4>1. timeout'[q] = Timeout /\ relayTimer'[q] = Timeout /\ running'[q] = 0
        BY <2>1, <3>2 DEF SirenInv, RelayTypeOK
      <4>2. Timeout + 0 = Timeout
        BY SirenConstants
      <4> QED
        BY <2>1, <2>3, <4>1, <4>2 DEF Lasts, Half
    <3>3. CASE q # r
      <4>1. timeout'[q] = timeout[q] /\ relayTimer'[q] = relayTimer[q] /\ running'[q] = running[q]
        BY <2>1, <3>3 DEF SirenInv, RelayTypeOK
      <4> QED
        BY <2>1, <3>1, <4>1 DEF Lasts, Half
    <3> QED
      BY <3>2, <3>3
  <2> QED
    BY <2>2, <2>4 DEF SirenInv
<1>2. ASSUME /\ UNCHANGED <<timeout, relayTimer, running>> /\ RelayTypeOK'
             /\ \A r \in Relays : Half(r)' => Half(r)
             /\ \A r \in Relays : Storing(r) \/ Half(r) => Storing(r)' \/ Half(r)'
      PROVE  SirenInv'
  BY <1>2 DEF SirenInv, Lasts, Half, Storing
<1>3. ASSUME NEW r \in Relays, \/ \E level \in ERelayState : SetState(r, level)
                               \/ \E period \in Periods : SetTimeout(r, period)
      PROVE  SirenInv'
  <2>1. /\ relayPc = "idle" /\ relayPc' \in {"store", "timeout"} /\ cur' = r
        /\ arg' \in ERelayState \union Periods /\ expired' \in {expired, expired \ {r}}
        /\ UNCHANGED <<setValue, pin, timeout, relayTimer, built, running>>
    BY <1>3 DEF SetState, SetTimeout, Call, stateVars, pastVars
  <2>2. arg' \in 0 .. MaxTimeout
    BY <2>1, SirenConstants, RelayAssumption DEF ERelayState, On, Off
  <2>3. RelayTypeOK'
    BY <2>1, <2>2 DEF SirenInv, RelayTypeOK
  <2> QED
    BY <1>2, <2>1, <2>3 DEF Half, Storing
<1>4. CASE PinMode \/ StoreState \/ Write
  <2>1. /\ relayPc \in {"pinMode", "store", "write"} /\ relayPc' \in {"store", "write", "timer"}
        /\ UNCHANGED <<cur, arg, timeout, relayTimer, built, expired, running>>
    BY <1>4 DEF PinMode, StoreState, Write, Advance, pastVars
  <2>2. setValue' \in [Relays -> ERelayState] /\ pin' \in [Relays -> ERelayState]
    <3>1. CASE PinMode \/ StoreState
      BY <3>1 DEF SirenInv, RelayTypeOK, ERelayState, PinMode, StoreState, Stored
    <3>2. CASE Write
      <4>1. PICK level \in {Stored(arg), setValue[cur]} : pin' = [pin EXCEPT ![cur] = level]
        BY <3>2 DEF Write
      <4>2. level \in ERelayState
        BY DEF Stored, SirenInv, RelayTypeOK, ERelayState
      <4> QED
        BY <3>2, <4>1, <4>2 DEF Write, SirenInv, RelayTypeOK
    <3> QED
      BY <1>4, <3>1, <3>2
  <2>3. RelayTypeOK'
    BY <2>1, <2>2 DEF SirenInv, RelayTypeOK
  <2> QED
    BY <1>2, <2>1, <2>3 DEF Half, Storing
<1>5. CASE StoreTimeout \/ StoreTimer \/ TimerStored
  BY <1>5, SirenStep
<1>6. CASE ProcessTimer
  BY <1>6, SirenTick
<1>7. CASE Reset
  <2>1. /\ relayTimer' = [r \in Relays |-> 0] /\ timeout' = [r \in Relays |-> 0]
        /\ running' = [r \in Relays |-> 0] /\ relayPc' = "idle"
    BY <1>7 DEF Reset
  <2>2. RelayTypeOK'
    BY <1>7, SirenConstants DEF Reset, SirenInv, RelayTypeOK, ERelayState, On, Off
  <2>3. 0 \in 0 .. MaxTimeout
    BY SirenConstants
  <2>4. Upper(0) \in Nat
    BY <2>3, SirenParts
  <2>5. ASSUME NEW r \in Relays PROVE Lasts(r)' /\ ~Half(r)'
    BY <2>1, <2>4, SirenConstants DEF Lasts, Half
  <2> QED
    BY <2>2, <2>5 DEF SirenInv
<1>8. CASE UNCHANGED relayVars
  <2>1. UNCHANGED <<setValue, pin, timeout, relayTimer, built, relayPc, cur, arg, expired, running>>
    BY <1>8 DEF relayVars, stateVars, callVars, pastVars
  <2> QED
    BY <1>2, <2>1 DEF SirenInv, RelayTypeOK, Half, Storing
<1> QED
  BY <1>1, <1>3, <1>4, <1>5, <1>6, <1>7, <1>8 DEF RelayNext, Message, Step

(* Between calls a time-out that runs is over within its ticks, rounded up *)
(* to whole lower bytes, however the interrupt has split the stores of     *)
(* setState() and setTimeout() and whatever the bytes were (Relay.cpp:     *)
(* 42-55, 72-85).                                                          *)
THEOREM TimeoutRunsOut == RelaySpec => []RunsOut
<1>1. SirenInv => RunsOut
  <2> SUFFICES ASSUME SirenInv, NEW r \in Relays, ~InCall(r)
               PROVE  running[r] < Upper(timeout[r]) + Bytes
    BY DEF RunsOut
  <2>1. Lasts(r)
    BY DEF SirenInv, Storing, Half, InCall
  <2>2. relayTimer[r] \in Nat /\ running[r] \in Nat /\ timeout[r] \in 0 .. MaxTimeout
    BY SirenConstants DEF SirenInv, RelayTypeOK
  <2>3. Upper(timeout[r]) \in Nat
    BY <2>2, SirenParts
  <2> QED
    BY <2>1, <2>2, <2>3, SirenConstants DEF Lasts
<1> QED
  BY <1>1, SirenInit, SirenNext, PTL DEF RelaySpec
=============================================================================
