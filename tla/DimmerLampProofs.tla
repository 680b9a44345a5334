--------------------------- MODULE DimmerLampProofs ---------------------------
(***************************************************************************)
(* Theorems about class Dimmer in its three controllers, for any levels,   *)
(* time-outs and payloads, any widths of an int, an unsigned long and a    *)
(* byte, and any number of interrupts in a call.                           *)
(***************************************************************************)
EXTENDS DimmerLamp, DivisionLemmas, TLAPS

(* The constants as the steps below use them, without the products.        *)
LEMMA Constants ==
  /\ MaxLevel \in Nat \ {0} /\ MaxPercent \in Nat \ {0}
  /\ ULongMax \in Nat /\ Byte \in Nat \ {0, 1}
  /\ HandlerTicks \in Nat /\ HandlerTicks <= Byte + MaxLevel
  /\ kind \in Kinds => DIMMER_TIMEOUT[kind] \in 0 .. ULongMax
  /\ 0 .. ULongMax \subseteq Nat
<1>1. /\ MaxLevel \in Nat \ {0} /\ MaxPercent \in Nat \ {0}
      /\ ULongMax \in Nat /\ Byte \in Nat \ {0, 1}
      /\ HandlerTicks \in Nat /\ HandlerTicks <= Byte + MaxLevel
  BY LampAssumption
<1>2. kind \in Kinds => DIMMER_TIMEOUT[kind] \in 0 .. ULongMax
  BY LampAssumption
<1> QED
  BY <1>1, <1>2

LEMMA AsULongType ==
  ASSUME NEW n \in Int
  PROVE  AsULong(n) \in 0 .. ULongMax
BY LampAssumption DEF AsULong

LEMMA PeriodType ==
  ASSUME NEW seconds \in 0 .. ULongMax
  PROVE  Period(seconds) \in 0 .. ULongMax
<1>1. seconds * Cycles \in Int
  BY LampAssumption
<1> QED
  BY <1>1, AsULongType DEF Period

LEMMA SecondsType ==
  ASSUME kind \in Kinds, NEW minutes \in Int
  PROVE  Seconds(minutes) \in 0 .. ULongMax
<1> DEFINE n == minutes * MinuteSeconds
           w == IntMax[kind]
<1>1. n \in Int /\ w \in Nat
  BY LampAssumption
<1> HIDE DEF n, w
<1>2. (n + w + 1) % (2 * (w + 1)) \in Int
  BY <1>1
<1>3. ((n + w + 1) % (2 * (w + 1))) - w - 1 \in Int
  BY <1>1, <1>2
<1>4. AsInt(n) \in Int
  BY <1>3 DEF AsInt, w
<1> QED
  BY <1>4, AsULongType DEF Seconds, n

(* A payload becomes a level, and 0 becomes 0 (Dimmer.cpp, setValue()).    *)
LEMMA LevelType ==
  ASSUME NEW value \in Int
  PROVE  /\ Level(value) \in 0 .. MaxLevel
         /\ value = 0 => Level(value) = 0
<1>0. MaxLevel \in Nat \ {0} /\ MaxPercent \in Nat \ {0}
  BY Constants
<1>1. ASSUME value \in 0 .. MaxPercent
      PROVE  /\ (value * MaxLevel) \div MaxPercent \in 0 .. MaxLevel
             /\ value = 0 => (value * MaxLevel) \div MaxPercent = 0
  <2> DEFINE n == value * MaxLevel
             q == n \div MaxPercent
  <2>1. n \in Nat /\ n <= MaxPercent * MaxLevel /\ MaxPercent * MaxLevel \in Nat
    BY <1>0, <1>1
  <2>2. value = 0 => n = 0
    BY <1>0
  <2>3. q \in Nat /\ MaxPercent * q <= n /\ MaxPercent * q \in Nat
    <3>1. /\ q \in Nat /\ n % MaxPercent \in 0 .. MaxPercent - 1
          /\ MaxPercent * q \in Nat /\ n = MaxPercent * q + (n % MaxPercent)
      BY <1>0, <2>1, Division
    <3> HIDE DEF q, n
    <3> QED
      BY <1>0, <3>1
  <2> HIDE DEF q, n
  <2>4. MaxLevel < q => MaxPercent * MaxLevel + MaxPercent <= MaxPercent * q
    BY <1>0, <2>3, Monotone
  <2>5. q <= MaxLevel
    BY <1>0, <2>1, <2>3, <2>4
  <2>6. 0 < q => MaxPercent * 0 + MaxPercent <= MaxPercent * q
    BY <1>0, <2>3, Monotone
  <2>7. n = 0 => q = 0
    BY <1>0, <2>3, <2>6
  <2> QED
    BY <2>2, <2>3, <2>5, <2>7 DEF n, q
<1> QED
  BY <1>0, <1>1 DEF Level

(* The bytes of a timer.                                                   *)
LEMMA Halves ==
  ASSUME NEW n \in Nat
  PROVE  /\ Low(n) \in 0 .. Byte - 1 /\ High(n) \in Nat
         /\ n = High(n) + Low(n)
<1>1. Byte \in Nat \ {0}
  BY Constants
<1>2. Low(n) \in 0 .. Byte - 1
  BY <1>1, Division DEF Low
<1>3. n - (n % Byte) \in Nat
  BY <1>1, Small
<1>4. High(n) = n - Low(n) /\ High(n) \in Nat
  BY <1>3 DEF Low, High
<1> QED
  BY <1>1, <1>2, <1>4

LEMMA Halved ==
  ASSUME NEW m \in Nat, NEW n \in Nat
  PROVE  /\ Low(High(m) + Low(n)) = Low(n)
         /\ High(High(m) + Low(n)) = High(m)
         /\ m <= n => High(m) <= High(n)
<1>1. Byte \in Nat \ {0}
  BY Constants
<1>2. Low(High(m) + Low(n)) = Low(n)
  BY <1>1, Join DEF Low, High
<1>3. High(High(m) + Low(n)) = High(m)
  BY <1>2, Halves DEF High
<1> QED
  BY <1>1, <1>2, <1>3, UpperMonotone DEF Low, High

(* An interrupt takes one from the low byte or borrows.                    *)
LEMMA Decrement ==
  ASSUME NEW n \in Nat, n > 0
  PROVE  /\ High(n - 1) <= High(n)
         /\ Low(n) > 0 => Low(n - 1) = Low(n) - 1
         /\ Low(n) = 0 => Low(n - 1) = Byte - 1
<1>1. Byte \in Nat \ {0}
  BY Constants
<1>2. High(n - 1) <= High(n)
  <2>1. n - 1 \in Nat /\ n - 1 <= n
    OBVIOUS
  <2> QED
    BY <1>1, <2>1, UpperMonotone DEF Low, High
<1>3. Low(n) > 0 => Low(n - 1) = Low(n) - 1
  BY <1>1, NoBorrow DEF Low
<1>4. ASSUME Low(n) = 0 PROVE Low(n - 1) = Byte - 1
  <2>1. Low(n - 1) < Byte - 1 => ((n - 1) + 1) % Byte = Low(n - 1) + 1
    <3> DEFINE q == (n - 1) \div Byte
               r == Low(n - 1)
    <3>1. q \in Nat /\ r \in 0 .. Byte - 1 /\ n - 1 = Byte * q + r /\ Byte * q \in Nat
      <4>1. n - 1 \in Nat
        OBVIOUS
      <4> DEFINE m == n - 1
      <4>2. /\ m \div Byte \in Nat /\ m % Byte \in 0 .. Byte - 1
            /\ Byte * (m \div Byte) \in Nat /\ m = Byte * (m \div Byte) + (m % Byte)
        BY <1>1, <4>1, Division
      <4> QED
        BY <4>2 DEF Low
    <3> HIDE DEF q, r
    <3>2. r < Byte - 1 => r + 1 \in 0 .. Byte - 1 /\ n = Byte * q + (r + 1)
      BY <1>1, <3>1
    <3>3. r < Byte - 1 => (Byte * q + (r + 1)) % Byte = r + 1
      BY <1>1, <3>1, <3>2, Remainder
    <3> QED
      BY <3>2, <3>3 DEF r
  <2>2. Low(n - 1) \in 0 .. Byte - 1 /\ (n - 1) + 1 = n
    BY Halves
  <2> QED
    BY <1>1, <1>4, <2>1, <2>2 DEF Low
<1> QED
  BY <1>2, <1>3, <1>4

-----------------------------------------------------------------------------
(* The type invariant in two parts, for the provers' sake: what is counted *)
(* and what is named.                                                      *)
Counted ==
  /\ setValue \in 0 .. MaxLevel /\ currentValue \in 0 .. MaxLevel
  /\ timeout \in 0 .. ULongMax /\ timer \in 0 .. ULongMax + Byte
  /\ ticks \in 0 .. HandlerTicks
  /\ age \in 0 .. MaxAge /\ unlit \in 0 .. MaxUnlit

Named ==
  /\ kind \in Kinds /\ supply \in BOOLEAN
  /\ pc \in {"idle", "level", "timeout", "timer", "timerHigh", "supply", "light", "connect"}
  /\ arg \in Values \union Minutes \union {0, MaxPercent}
  /\ motion \in BOOLEAN /\ dark \in BOOLEAN /\ fed \in BOOLEAN

LEMMA Types == TypeOK <=> Counted /\ Named
BY DEF TypeOK, Counted, Named

LEMMA Bounds == MaxAge = ULongMax + Byte + MaxLevel + 2 /\ MaxUnlit = 2 * HandlerTicks + 1
BY DEF MaxAge, MaxUnlit

LEMMA ArgType == Named => arg \in Int
BY LampAssumption DEF Named

(* What an interrupt makes of the counts.                                  *)
LEMMA TickCounts ==
  ASSUME Counted, Named, Tick
  PROVE  /\ setValue' \in 0 .. MaxLevel /\ currentValue' \in 0 .. MaxLevel
         /\ timer' \in 0 .. ULongMax + Byte
         /\ Counted'
<1> USE Constants, Bounds DEF Counted
<1>1. Period(timeout) \in 0 .. ULongMax
  BY PeriodType
<1>2. setValue' \in 0 .. MaxLevel
  BY DEF Tick, ProcessTimer
<1>3. timer' \in 0 .. ULongMax + Byte
  BY <1>1 DEF Tick, ProcessTimer, Expires
<1>4. currentValue' \in 0 .. MaxLevel
  <2>1. \A goal \in 0 .. MaxLevel : Toward(currentValue, goal) \in 0 .. MaxLevel
    BY DEF Toward
  <2> QED
    BY <1>2, <2>1 DEF Tick
<1>5. ticks' \in 0 .. HandlerTicks
  BY DEF Tick
<1>6. age' \in 0 .. MaxAge
  BY DEF Tick
<1>7. unlit' \in 0 .. MaxUnlit
  BY DEF Tick
<1>8. timeout' = timeout
  BY DEF Tick
<1> HIDE DEF MaxAge, MaxUnlit
<1> QED
  BY <1>2, <1>3, <1>4, <1>5, <1>6, <1>7, <1>8, Bounds

LEMMA TypeInit == Init => TypeOK
<1> SUFFICES ASSUME Init PROVE Counted /\ Named
  BY Types
<1>1. BootLevel \in 0 .. MaxLevel
  BY Constants DEF BootLevel
<1>2. DIMMER_TIMEOUT[kind] \in 0 .. ULongMax /\ Period(DIMMER_TIMEOUT[kind]) \in 0 .. ULongMax
  BY Constants, PeriodType DEF Init
<1>3. Counted
  BY <1>1, <1>2, Constants, Bounds DEF Init, Counted
<1>4. Named
  BY DEF Init, Named
<1> QED
  BY <1>3, <1>4

LEMMA TypeNext == TypeOK /\ StoreInv /\ [Next]_vars => TypeOK'
<1> SUFFICES ASSUME Counted, Named, StoreInv, [Next]_vars PROVE Counted' /\ Named'
  BY DEF TypeOK, Counted, Named
<1> USE Constants, Bounds DEF Goto, lampVars, callVars, worldVars, pastVars
<1>1. CASE Message
  BY <1>1 DEF Message, Receive, Counted, Named
<1>2. CASE SetValue
  <2>1. Level(arg) \in 0 .. MaxLevel
    BY ArgType, LevelType
  <2>2. Counted'
    BY <1>2, <2>1 DEF SetValue, Counted
  <2>3. Named'
    BY <1>2 DEF SetValue, Named
  <2> QED
    BY <2>2, <2>3
<1>3. CASE SetTimeout
  <2>1. Seconds(arg) \in 0 .. ULongMax
    BY ArgType, SecondsType DEF Named
  <2>2. Counted'
    BY <1>3, <2>1 DEF SetTimeout, Counted
  <2>3. Named'
    BY <1>3 DEF SetTimeout, Named
  <2> QED
    BY <2>2, <2>3
<1>4. CASE Timer
  <2>1. Period(timeout) \in 0 .. ULongMax
    BY PeriodType DEF Counted
  <2>2. Counted'
    BY <1>4, <2>1 DEF Timer, Counted
  <2>3. Named'
    BY <1>4 DEF Timer, Named
  <2> QED
    BY <2>2, <2>3
<1>5. CASE TimerLow
  <2>1. Period(timeout) \in 0 .. ULongMax /\ timer \in Nat
    BY PeriodType DEF Counted
  <2>2. /\ High(timer) \in Nat /\ Low(Period(timeout)) \in 0 .. Byte - 1
        /\ High(ULongMax) \in Nat /\ High(ULongMax) <= ULongMax
    <3>1. Low(ULongMax) \in 0 .. Byte - 1 /\ High(ULongMax) \in Nat
          /\ ULongMax = High(ULongMax) + Low(ULongMax)
      BY Halves
    <3> QED
      BY SMTT(30), <2>1, <3>1, Halves
  <2>3. timer' \in 0 .. ULongMax + Byte
    BY <1>5, <2>2 DEF TimerLow, StoreInv
  <2>4. Counted'
    BY <1>5, <2>3 DEF TimerLow, Counted
  <2>5. Named'
    BY <1>5 DEF TimerLow, Named
  <2> QED
    BY <2>4, <2>5
<1>6. CASE TimerHigh
  <2>1. Period(timeout) \in 0 .. ULongMax /\ timer \in Nat
    BY PeriodType DEF Counted
  <2>2. /\ High(Period(timeout)) \in Nat /\ High(Period(timeout)) <= Period(timeout)
        /\ Low(timer) \in 0 .. Byte - 1
    <3>1. /\ Low(Period(timeout)) \in 0 .. Byte - 1 /\ High(Period(timeout)) \in Nat
          /\ Period(timeout) = High(Period(timeout)) + Low(Period(timeout))
      BY <2>1, Halves
    <3> QED
      BY SMTT(30), <2>1, <3>1, Halves
  <2>3. timer' \in 0 .. ULongMax + Byte
    BY <1>6, <2>1, <2>2 DEF TimerHigh
  <2>4. Counted'
    BY <1>6, <2>3 DEF TimerHigh, Counted
  <2>5. Named'
    BY <1>6 DEF TimerHigh, Named
  <2> QED
    BY <2>4, <2>5
<1>7. CASE Supply
  <2>1. Counted'
    BY <1>7 DEF Supply, Counted
  <2>2. Named'
    BY <1>7 DEF Supply, Named
  <2> QED
    BY <2>1, <2>2
<1>8. CASE Light
  <2>1. Counted'
    BY <1>8 DEF Light, Counted
  <2>2. Named'
    BY <1>8 DEF Light, Named
  <2> QED
    BY <2>1, <2>2
<1>9. CASE Look
  <2>1. Counted'
    BY <1>9 DEF Look, Counted
  <2>2. Named'
    BY <1>9 DEF Look, Named
  <2> QED
    BY <2>1, <2>2
<1>10. CASE Connect
  BY <1>10 DEF Connect, Counted, Named
<1>11. CASE Tick
  <2>1. Named'
    BY <1>11 DEF Tick, Named
  <2> QED
    BY <1>11, <2>1, TickCounts
<1>12. CASE Hand
  <2>1. Counted'
    BY <1>12 DEF Hand, Counted
  <2>2. Named'
    BY <1>12 DEF Hand, Named
  <2> QED
    BY <2>1, <2>2
<1>13. CASE Reset
  <2>1. BootLevel \in 0 .. MaxLevel
    BY DEF BootLevel
  <2>2. DIMMER_TIMEOUT[kind] \in 0 .. ULongMax /\ Period(DIMMER_TIMEOUT[kind]) \in 0 .. ULongMax
    BY PeriodType DEF Named
  <2>3. Counted'
    BY <1>13, <2>1, <2>2 DEF Reset, Counted
  <2>4. Named'
    BY <1>13 DEF Reset, Named
  <2> QED
    BY <2>3, <2>4
<1>14. CASE UNCHANGED vars
  BY <1>14 DEF vars, Counted, Named
<1> QED
  BY <1>1, <1>2, <1>3, <1>4, <1>5, <1>6, <1>7, <1>8, <1>9, <1>10, <1>11, <1>12, <1>13, <1>14
     DEF Next, Callback

-----------------------------------------------------------------------------
(* Numbers a step below adds up: an interrupt takes at most one from the   *)
(* low byte, unless it borrows.                                            *)
LEMMA TickLow ==
  ASSUME Counted, Tick, StoreInv
  PROVE  /\ High(timer') <= High(ULongMax)
         /\ Low(timer') \in 0 .. Byte - 1
         /\ Low(timer) \in 0 .. Byte - 1
         /\ \/ Low(timer') = Low(timer) \/ Low(timer') = Byte - 1
            \/ Low(timer) > 0 /\ Low(timer') = Low(timer) - 1
            \/ timer' = Period(timeout)
<1> USE Constants
<1>1. timer \in Nat /\ Period(timeout) \in 0 .. ULongMax
  BY PeriodType DEF Counted
<1>2. /\ Low(timer) \in 0 .. Byte - 1 /\ High(timer) \in Nat
      /\ High(timer) <= High(ULongMax) /\ High(ULongMax) \in Nat
  BY <1>1, Halves DEF StoreInv
<1>3. CASE timer' = timer
  BY <1>2, <1>3
<1>4. CASE timer' = Period(timeout)
  <2>1. Low(Period(timeout)) \in 0 .. Byte - 1 /\ High(Period(timeout)) <= High(ULongMax)
    BY <1>1, Halves, Halved
  <2> QED
    BY <1>2, <1>4, <2>1
<1>5. CASE timer > 0 /\ timer' = timer - 1
  <2>1. timer - 1 \in Nat
    BY <1>1, <1>5
  <2>2. Low(timer - 1) \in 0 .. Byte - 1 /\ High(timer - 1) \in Nat
    BY <2>1, Halves
  <2>3. /\ High(timer - 1) <= High(timer)
        /\ Low(timer) > 0 => Low(timer - 1) = Low(timer) - 1
        /\ Low(timer) = 0 => Low(timer - 1) = Byte - 1
    BY <1>1, <1>5, Decrement
  <2> QED
    BY <1>2, <1>5, <2>2, <2>3
<1>6. timer' = timer \/ timer' = Period(timeout) \/ (timer > 0 /\ timer' = timer - 1)
  <2>1. timeout \in Nat
    BY DEF Counted
  <2> QED
    BY <1>1, <2>1 DEF Tick, ProcessTimer, Expires
<1> QED
  BY <1>3, <1>4, <1>5, <1>6

LEMMA StoreInit == Init => StoreInv
<1> SUFFICES ASSUME Init PROVE StoreInv
  OBVIOUS
<1>1. Period(DIMMER_TIMEOUT[kind]) \in 0 .. ULongMax
  BY Constants, PeriodType DEF Init
<1> QED
  BY <1>1, Constants, Halved DEF Init, StoreInv

LEMMA StoreNext == TypeOK /\ StoreInv /\ [Next]_vars => StoreInv'
<1> SUFFICES ASSUME Counted, Named, StoreInv, [Next]_vars PROVE StoreInv'
  BY Types
<1> USE Constants DEF Goto, lampVars, callVars, worldVars, pastVars
<1>1. Period(timeout) \in 0 .. ULongMax /\ timer \in Nat /\ ticks \in Nat
  BY PeriodType DEF Counted
<1>2. /\ Low(Period(timeout)) \in 0 .. Byte - 1 /\ High(Period(timeout)) <= High(ULongMax)
      /\ High(timer) \in Nat /\ High(ULongMax) \in Nat
  <2>1. Period(timeout) \in Nat /\ ULongMax \in Nat /\ Period(timeout) <= ULongMax
    BY <1>1
  <2> QED
    BY <1>1, <2>1, Halves, Halved
<1>3. CASE Message
  BY <1>3 DEF Message, Receive, StoreInv
<1>4. CASE SetValue \/ SetTimeout \/ Supply \/ Light \/ Look
  BY <1>4 DEF SetValue, SetTimeout, Supply, Light, Look, StoreInv
<1>5. CASE Timer
  BY <1>5, <1>2 DEF Timer, StoreInv
<1>6. CASE TimerLow
  <2>1. /\ High(timer') = High(timer) /\ Low(timer') = Low(Period(timeout))
        /\ ticks' = ticks /\ timeout' = timeout
    BY <1>1, <1>6, Halved DEF TimerLow
  <2> QED
    BY <1>1, <1>2, <2>1 DEF StoreInv
<1>7. CASE TimerHigh
  <2>1. High(timer') = High(Period(timeout)) /\ pc' = "supply"
    BY <1>1, <1>7, Halved DEF TimerHigh
  <2> QED
    BY <1>2, <2>1 DEF StoreInv
<1>8. CASE Connect \/ Hand
  BY <1>8 DEF Connect, Hand, StoreInv
<1>9. CASE Tick
  <2>1. High(timer') <= High(ULongMax)
    BY <1>9, TickLow
  <2>2. ASSUME pc' = "timerHigh"
        PROVE  Low(timer') + ticks' >= Low(Period(timeout'))
    <3>1. /\ Low(timer) + ticks >= Low(Period(timeout))
          /\ ticks' = ticks + 1 /\ timeout' = timeout
      BY <1>9, <2>2 DEF Tick, Counts, StoreInv
    <3>2. /\ Low(timer') \in 0 .. Byte - 1 /\ Low(timer) \in 0 .. Byte - 1
          /\ \/ Low(timer') = Low(timer) \/ Low(timer') = Byte - 1
             \/ Low(timer) > 0 /\ Low(timer') = Low(timer) - 1
             \/ Low(timer') = Low(Period(timeout))
      BY <1>9, TickLow
    <3> QED
      BY <1>1, <1>2, <3>1, <3>2
  <2> QED
    BY <2>1, <2>2 DEF StoreInv
<1>10. CASE Reset
  <2>1. DIMMER_TIMEOUT[kind] \in 0 .. ULongMax
    BY DEF Named
  <2>2. Period(DIMMER_TIMEOUT[kind]) \in 0 .. ULongMax
    BY <2>1, PeriodType
  <2> QED
    BY <1>10, <2>2, Halved DEF Reset, StoreInv
<1>11. CASE UNCHANGED vars
  BY <1>11 DEF vars, StoreInv
<1> QED
  BY <1>3, <1>4, <1>5, <1>6, <1>7, <1>8, <1>9, <1>10, <1>11 DEF Next, Callback

-----------------------------------------------------------------------------
(* The brightness after an interrupt is 0 on the last steps of the way     *)
(* down only.                                                              *)
LEMMA TickRamp ==
  ASSUME Counted, Tick
  PROVE  /\ currentValue' = 0 => setValue' = 0
         /\ setValue = 0 => /\ setValue' = 0
                            /\ currentValue' = 0 \/ currentValue' = currentValue - 1
         /\ setValue' = setValue \/ (Expires /\ setValue' = 0)
         /\ supply' = (supply /\ currentValue' # 0)
<1>1. setValue' = (IF Expires THEN 0 ELSE setValue)
  BY DEF Tick, ProcessTimer
<1>2. \/ currentValue' = Toward(currentValue, setValue)
      \/ currentValue' = Toward(currentValue, setValue')
  BY DEF Tick
<1>3. \A level, goal \in 0 .. MaxLevel :
        /\ Toward(level, goal) = 0 => goal = 0
        /\ goal = 0 => Toward(level, goal) = 0 \/ Toward(level, goal) = level - 1
  BY Constants DEF Toward
<1>4. /\ setValue \in 0 .. MaxLevel /\ setValue' \in 0 .. MaxLevel
      /\ currentValue \in 0 .. MaxLevel
  BY <1>1, Constants DEF Counted
<1>5. currentValue' = 0 => setValue' = 0
  BY <1>1, <1>2, <1>3, <1>4
<1>6. setValue = 0 => /\ setValue' = 0
                      /\ currentValue' = 0 \/ currentValue' = currentValue - 1
  BY <1>1, <1>2, <1>3, <1>4
<1>7. supply' = (supply /\ currentValue' # 0)
  BY DEF Tick
<1> QED
  BY <1>1, <1>5, <1>6, <1>7

LEMMA SupplyNext == TypeOK /\ SupplyInv /\ [Next]_vars => SupplyInv'
<1> SUFFICES ASSUME Counted, Named, SupplyInv, [Next]_vars PROVE SupplyInv'
  BY Types
<1> USE DEF Goto, lampVars, callVars, worldVars, pastVars, SupplyInv
<1>1. CASE Message
  BY <1>1 DEF Message, Receive
<1>2. CASE SetValue
  <2>1. arg = 0 => Level(arg) = 0
    BY LevelType
  <2> QED
    BY <1>2, <2>1 DEF SetValue
<1>3. CASE SetTimeout \/ Timer \/ TimerLow \/ TimerHigh
  BY <1>3 DEF SetTimeout, Timer, TimerLow, TimerHigh
<1>4. CASE Supply
  BY <1>4 DEF Supply
<1>5. CASE Light \/ Look
  BY <1>5 DEF Light, Look
<1>6. CASE Connect \/ Hand
  BY <1>6 DEF Connect, Hand
<1>7. CASE Tick
  <2>1. UNCHANGED <<kind, fed, pc, arg>>
    BY <1>7 DEF Tick
  <2>2. /\ currentValue' = 0 => setValue' = 0
        /\ setValue = 0 => setValue' = 0
        /\ setValue = 0 => currentValue' = 0 \/ currentValue' = currentValue - 1
        /\ supply' = (supply /\ currentValue' # 0)
    BY <1>7, TickRamp
  <2>3. setValue = 0 /\ currentValue = 0 => currentValue' = 0
    <3>1. currentValue = 0 => ~(currentValue' = currentValue - 1)
      BY <1>7, TickCounts, Constants
    <3> QED
      BY <2>2, <3>1
  <2> QED
    BY <2>1, <2>2, <2>3
<1>8. CASE Reset
  BY <1>8 DEF Reset
<1>9. CASE UNCHANGED vars
  BY <1>9 DEF vars
<1> QED
  BY <1>1, <1>2, <1>3, <1>4, <1>5, <1>6, <1>7, <1>8, <1>9 DEF Next, Callback

LEMMA DarkNext == TypeOK /\ DarkInv /\ [Next]_vars => DarkInv'
<1> SUFFICES ASSUME Counted, Named, DarkInv, [Next]_vars PROVE DarkInv'
  BY Types
<1> USE Constants DEF Goto, lampVars, callVars, worldVars, pastVars, DarkInv
<1>1. age \in Nat /\ ticks \in 0 .. HandlerTicks
  BY DEF Counted, MaxAge
<1>2. CASE Message
  BY <1>2 DEF Message, Receive
<1>3. CASE SetValue \/ SetTimeout \/ Timer \/ TimerHigh
  BY <1>1, <1>3 DEF SetValue, SetTimeout, Timer, TimerHigh
<1>4. CASE TimerLow \/ Light \/ Look
  BY <1>4 DEF TimerLow, Light, Look
<1>5. CASE Supply
  <2>1. age' = age /\ currentValue' = currentValue /\ pc' = "idle" /\ age <= HandlerTicks
    BY <1>1, <1>5 DEF Supply
  <2> QED
    BY <2>1
<1>6. CASE Connect \/ Hand
  BY <1>6 DEF Connect, Hand
<1>7. CASE Tick
  <2>1. supply' => currentValue' # 0
    BY <1>7, TickRamp
  <2>2. pc' = "supply" => age' <= ticks'
    <3>1. pc' = "supply" => pc = "supply" /\ ticks' = ticks + 1
      BY <1>7 DEF Tick, Counts
    <3>2. age' = age + 1 \/ (age' = MaxAge /\ MaxAge <= age)
      BY <1>1, <1>7 DEF Tick, Counted, MaxAge
    <3>3. MaxAge \in Nat
      BY DEF MaxAge
    <3> QED
      BY <1>1, <3>1, <3>2, <3>3
  <2> QED
    BY <2>1, <2>2
<1>8. CASE Reset
  BY <1>8 DEF Reset
<1>9. CASE UNCHANGED vars
  BY <1>9 DEF vars
<1> QED
  BY <1>2, <1>3, <1>4, <1>5, <1>6, <1>7, <1>8, <1>9 DEF Next, Callback

LEMMA MotionNext == TypeOK /\ MotionInv /\ [Next]_vars => MotionInv'
<1> SUFFICES ASSUME Counted, Named, MotionInv, [Next]_vars PROVE MotionInv'
  BY Types
<1> USE Constants DEF Goto, lampVars, callVars, worldVars, pastVars, MotionInv
<1>1. ticks \in 0 .. HandlerTicks /\ unlit \in Nat
  BY DEF Counted, MaxUnlit
<1>2. CASE Message
  BY <1>1, <1>2 DEF Message, Receive
<1>3. CASE SetValue
  BY <1>1, <1>3 DEF SetValue
<1>4. CASE SetTimeout \/ Timer \/ TimerLow \/ TimerHigh \/ Supply
  BY <1>4 DEF SetTimeout, Timer, TimerLow, TimerHigh, Supply
<1>5. CASE Light
  BY <1>1, <1>5 DEF Light
<1>6. CASE Look
  BY <1>1, <1>6 DEF Look
<1>7. CASE Connect
  BY <1>1, <1>7 DEF Connect
<1>8. CASE Tick
  <2>1. /\ UNCHANGED <<kind, motion, dark, pc>>
        /\ ticks' = (IF Counts THEN ticks + 1 ELSE 0)
    BY <1>8 DEF Tick
  <2>2. \/ unlit' = 0
        \/ /\ motion /\ dark /\ setValue' = 0 /\ pc # "connect"
           /\ unlit' = unlit + 1 \/ (unlit' = MaxUnlit /\ MaxUnlit <= unlit)
    BY <1>1, <1>8 DEF Tick, Counted, MaxUnlit
  <2>3. motion /\ pc # "connect" => Counts
    BY DEF Counts, Named
  <2>4. MaxUnlit \in Nat
    BY DEF MaxUnlit
  <2>5. CASE unlit' = 0
    <3>1. ticks' \in Nat
      BY <1>1, <2>1
    <3> QED
      BY <2>1, <2>5, <3>1
  <2>6. CASE /\ motion /\ dark /\ setValue' = 0 /\ pc # "connect"
             /\ unlit' = unlit + 1 \/ (unlit' = MaxUnlit /\ MaxUnlit <= unlit)
    <3>1. ticks' = ticks + 1
      BY <2>1, <2>3, <2>6
    <3>2. \A h \in Nat : unlit <= ticks + h => unlit' <= ticks' + h
      BY <1>1, <2>4, <2>6, <3>1
    <3>3. unlit' <= ticks' + (IF pc \in {"light", "level"} THEN HandlerTicks ELSE 0)
      BY <1>1, <3>2
    <3> QED
      BY <2>1, <2>6, <3>3
  <2> QED
    BY <2>2, <2>5, <2>6
<1>9. CASE Hand
  BY <1>1, <1>9 DEF Hand, Named
<1>10. CASE Reset
  BY <1>10 DEF Reset
<1>11. CASE UNCHANGED vars
  BY <1>11 DEF vars
<1> QED
  BY <1>2, <1>3, <1>4, <1>5, <1>6, <1>7, <1>8, <1>9, <1>10, <1>11 DEF Next, Callback

LEMMA ExpiryInit == Init => ExpiryInv
<1> SUFFICES ASSUME Init PROVE ExpiryInv
  OBVIOUS
<1>1. /\ timer = Period(timeout) /\ age = 0 /\ currentValue = 0
      /\ Period(timeout) \in Nat
  BY Constants, PeriodType DEF Init
<1> QED
  BY <1>1, Constants DEF ExpiryInv

(* The part of the invariant about one state of the timer, by the numbers: *)
(* every step establishes it for what the variables become.                *)
Expiry(period, due, spent, level, light) ==
  /\ due + spent + HandlerTicks >= period
  /\ level > 0 => due + spent < period + Byte
  /\ level = 0 => light = 0 \/ light + spent <= period + Byte + MaxLevel

LEMMA ExpiryStored ==
  ASSUME NEW period \in 0 .. ULongMax, NEW due \in Nat,
         due + HandlerTicks >= period, due < period + Byte,
         NEW level \in 0 .. MaxLevel, NEW light \in 0 .. MaxLevel
  PROVE  Expiry(period, due, 0, level, light)
BY Constants DEF Expiry

(* One interrupt, with a time-out that goes on or runs out.                *)
LEMMA ExpiryCounted ==
  ASSUME NEW period \in 0 .. ULongMax, NEW due \in Nat, NEW spent \in 0 .. MaxAge,
         NEW level \in 0 .. MaxLevel, NEW light \in 0 .. MaxLevel,
         Expiry(period, due, spent, level, light),
         NEW later \in 0 .. MaxAge, NEW next \in 0 .. MaxLevel,
         later = IF spent < MaxAge THEN spent + 1 ELSE MaxAge,
         level = 0 => next = 0 \/ next = light - 1
  PROVE  /\ due > 0 => Expiry(period, due - 1, later, level, next)
         /\ due = 0 => Expiry(period, period, later, 0, next)
<1> USE Constants DEF Expiry, MaxAge
<1>1. CASE spent < MaxAge
  BY <1>1
<1>2. CASE spent = MaxAge
  BY <1>2
<1> QED
  BY <1>1, <1>2

(* Without a time-out only the first part of the invariant is claimed.     *)
LEMMA ExpiryParts ==
  ASSUME Counted
  PROVE  /\ timeout > 0 =>
              (ExpiryInv <=> (pc \notin {"timer", "timerHigh"} =>
                 Expiry(Period(timeout), timer, age, setValue, currentValue)))
         /\ timeout = 0 =>
              (ExpiryInv <=> (pc \notin {"timer", "timerHigh"} =>
                 timer + age + HandlerTicks >= Period(timeout)))
<1>1. setValue \in Nat /\ timeout \in Nat
  BY Constants DEF Counted
<1> QED
  BY <1>1 DEF ExpiryInv, Expiry

LEMMA ExpiryNext == TypeOK /\ StoreInv /\ ExpiryInv /\ [Next]_vars => ExpiryInv'
<1> SUFFICES ASSUME Counted, Named, StoreInv, ExpiryInv, [Next]_vars PROVE ExpiryInv'
  BY Types
<1> USE Constants DEF Goto, lampVars, callVars, worldVars, pastVars
<1>1. Period(timeout) \in 0 .. ULongMax /\ timer \in Nat
  BY PeriodType DEF Counted
<1>2. CASE Message
  BY <1>2 DEF Message, Receive, ExpiryInv
<1>3. CASE SetValue \/ SetTimeout \/ TimerLow
  BY <1>3 DEF SetValue, SetTimeout, TimerLow, ExpiryInv
<1>4. CASE Timer
  <2>1. /\ timer' = Period(timeout) /\ age' = 0
        /\ UNCHANGED <<setValue, currentValue, timeout>>
    BY <1>4 DEF Timer
  <2> QED
    BY <1>1, <2>1 DEF ExpiryInv, Counted
<1>5. CASE TimerHigh
  <2>1. /\ timer' = High(Period(timeout)) + Low(timer) /\ age' = 0
        /\ UNCHANGED <<setValue, currentValue, timeout>>
    BY <1>5 DEF TimerHigh
  <2>2. Low(timer) + HandlerTicks >= Low(Period(timeout))
    <3>1. Low(timer) + ticks >= Low(Period(timeout)) /\ ticks \in 0 .. HandlerTicks
      BY <1>5 DEF TimerHigh, StoreInv, Counted
    <3>2. Low(timer) \in Nat /\ Low(Period(timeout)) \in Nat
      BY SMTT(30), <1>1, Halves
    <3> QED
      BY <3>1, <3>2
  <2>3. /\ Low(timer) \in 0 .. Byte - 1 /\ Low(Period(timeout)) \in 0 .. Byte - 1
        /\ High(Period(timeout)) \in Nat
        /\ Period(timeout) = High(Period(timeout)) + Low(Period(timeout))
    BY <1>1, Halves
  <2>4. /\ timer' \in Nat /\ timer' + HandlerTicks >= Period(timeout)
        /\ timer' < Period(timeout) + Byte
    BY <2>1, <2>2, <2>3
  <2>5. setValue \in 0 .. MaxLevel /\ currentValue \in 0 .. MaxLevel
    BY DEF Counted
  <2>6. timer' + age' + HandlerTicks >= Period(timeout')
    BY <2>1, <2>4
  <2>7. setValue' > 0 => timer' + age' < Period(timeout') + Byte
    BY <2>1, <2>4
  <2>8. currentValue' + age' <= Period(timeout') + Byte + MaxLevel
    BY <1>1, <2>1, <2>5
  <2> QED
    BY <2>6, <2>7, <2>8 DEF ExpiryInv
<1>6. CASE Supply \/ Light \/ Connect \/ Hand
  BY <1>6 DEF Supply, Light, Connect, Hand, ExpiryInv
<1>7. CASE Look
  BY <1>7 DEF Look, ExpiryInv
<1>8. CASE Tick
  <2> SUFFICES ASSUME pc \notin {"timer", "timerHigh"} PROVE ExpiryInv'
    BY <1>8 DEF Tick, ExpiryInv
  <2>1. UNCHANGED <<timeout, pc>> /\ Counted'
    BY <1>8, TickCounts DEF Tick
  <2>2. /\ setValue \in 0 .. MaxLevel /\ setValue' \in 0 .. MaxLevel
        /\ currentValue \in 0 .. MaxLevel /\ currentValue' \in 0 .. MaxLevel
        /\ age \in 0 .. MaxAge /\ age' \in 0 .. MaxAge /\ timeout \in Nat
        /\ timer' \in Nat
    BY <2>1 DEF Counted
  <2>3. age' = IF age < MaxAge THEN age + 1 ELSE MaxAge
    BY <1>8 DEF Tick
  <2>4. CASE timeout = 0
    <3>1. timer' = timer
      BY <1>8, <2>4 DEF Tick, ProcessTimer, Expires
    <3>2. timer + age + HandlerTicks >= Period(timeout) /\ age <= age'
      BY <2>2, <2>3 DEF ExpiryInv
    <3>3. timer' + age' + HandlerTicks >= Period(timeout')
      BY <1>1, <2>1, <2>2, <3>1, <3>2 DEF MaxAge
    <3> QED
      BY <2>1, <2>4, <3>3 DEF ExpiryInv
  <2>5. CASE timeout > 0
    <3>1. Expiry(Period(timeout), timer, age, setValue, currentValue)
      BY <2>5, ExpiryParts
    <3>2. setValue = 0 => currentValue' = 0 \/ currentValue' = currentValue - 1
      BY <1>8, TickRamp
    <3>3. /\ timer > 0 => Expiry(Period(timeout), timer - 1, age', setValue, currentValue')
          /\ timer = 0 => Expiry(Period(timeout), Period(timeout), age', 0, currentValue')
      BY <1>1, <2>2, <2>3, <3>1, <3>2, ExpiryCounted
    <3>4. /\ timer > 0 => timer' = timer - 1 /\ setValue' = setValue
          /\ timer = 0 => timer' = Period(timeout) /\ setValue' = 0
      BY <1>1, <1>8, <2>5 DEF Tick, ProcessTimer, Expires
    <3>5. Expiry(Period(timeout'), timer', age', setValue', currentValue')
      BY <1>1, <2>1, <3>3, <3>4
    <3> QED
      BY <3>5 DEF ExpiryInv, Expiry
  <2> QED
    BY <2>2, <2>4, <2>5
<1>9. CASE Reset
  <2>1. /\ timer' = Period(DIMMER_TIMEOUT[kind]) /\ timeout' = DIMMER_TIMEOUT[kind]
        /\ age' = 0 /\ currentValue' = 0
    BY <1>9 DEF Reset
  <2>2. Period(DIMMER_TIMEOUT[kind]) \in Nat
    BY PeriodType DEF Named
  <2> QED
    BY <2>1, <2>2 DEF ExpiryInv
<1>10. CASE UNCHANGED vars
  BY <1>10 DEF vars, ExpiryInv
<1> QED
  BY <1>2, <1>3, <1>4, <1>5, <1>6, <1>7, <1>8, <1>9, <1>10 DEF Next, Callback

-----------------------------------------------------------------------------
(* LampInv holds in every state of a lamp, whatever messages, movements    *)
(* and resets come and whichever way the interrupt splits callback().      *)
THEOREM LampInvariant == Spec => []LampInv
<1>1. Init => LampInv
  <2>1. Init => SupplyInv /\ DarkInv /\ MotionInv
    <3>1. Init => SupplyInv /\ DarkInv
      BY Constants DEF Init, SupplyInv, DarkInv
    <3>2. Init => (kind # "pir" => ~motion /\ ~dark)
      BY DEF Init
    <3>3. Init => MotionInv
      <4>1. Init => unlit = 0 /\ ticks = 0 /\ pc = "idle"
        BY DEF Init
      <4>2. unlit = 0 => ~(unlit > 0)
        OBVIOUS
      <4>3. Init => unlit <= ticks + (IF pc \in {"light", "level"} THEN HandlerTicks ELSE 0)
        BY <4>1, Constants
      <4> QED
        BY <3>2, <4>1, <4>2, <4>3 DEF MotionInv
    <3> QED
      BY <3>1, <3>3
  <2> QED
    BY <2>1, TypeInit, StoreInit, ExpiryInit DEF LampInv
<1>2. LampInv /\ [Next]_vars => LampInv'
  BY TypeNext, StoreNext, SupplyNext, ExpiryNext, DarkNext, MotionNext DEF LampInv
<1> QED
  BY <1>1, <1>2, PTL DEF Spec

(* The types of the lamp's variables: the levels stay within the range of  *)
(* the ramp and a time-out within an unsigned long.                        *)
THEOREM LampTypeCorrect == Spec => []TypeOK
<1>1. LampInv => TypeOK
  BY DEF LampInv
<1> QED
  BY <1>1, LampInvariant, PTL

(* A lamp that shines is fed, in the two controllers that switch a supply  *)
(* (callback(), Dimmer::setDimmer()).                                      *)
THEOREM SupplyIsOn == Spec => []SupplyOn
<1>1. LampInv => SupplyOn
  BY Constants DEF LampInv, TypeOK, SupplyInv, SupplyOn
<1> QED
  BY <1>1, LampInvariant, PTL

(* The time-out darkens the lamp and takes its supply away.                *)
THEOREM LightBounded == Spec => []LightBound
<1>1. LampInv => LightBound
  <2> SUFFICES ASSUME LampInv, pc = "idle", timeout > 0,
                      age >= Period(timeout) + Byte + MaxLevel + 1
               PROVE  currentValue = 0 /\ ~supply
    BY DEF LightBound
  <2>1. Counted /\ Named /\ ExpiryInv /\ DarkInv
    BY Types DEF LampInv
  <2>2. /\ Period(timeout) \in Nat /\ timer \in Nat /\ age \in Nat
        /\ setValue \in Nat /\ currentValue \in Nat
    BY <2>1, Constants, PeriodType DEF Counted, MaxAge
  <2>3. setValue = 0
    BY <2>1, <2>2, Constants DEF ExpiryInv
  <2>4. currentValue = 0
    BY <2>1, <2>2, <2>3, Constants DEF ExpiryInv
  <2>5. ~(age <= HandlerTicks)
    BY <2>2, Constants
  <2>6. ~supply
    BY <2>1, <2>4, <2>5 DEF DarkInv
  <2> QED
    BY <2>4, <2>6
<1> QED
  BY <1>1, LampInvariant, PTL

(* Motion in the dark asks for light within two passes of loop()           *)
(* (DimmerPir::checkSensors()).                                            *)
THEOREM MotionIsLit == Spec => []MotionLights
<1>1. LampInv => MotionLights
  <2> SUFFICES ASSUME LampInv PROVE MotionLights
    OBVIOUS
  <2>1. ticks \in 0 .. HandlerTicks /\ unlit \in Nat /\ MotionInv
    BY Types, Constants DEF LampInv, Counted, MaxUnlit
  <2> QED
    BY <2>1, Constants DEF MotionInv, MotionLights
<1> QED
  BY <1>1, LampInvariant, PTL

(* The interrupt takes a level back at the end of a whole time-out only,   *)
(* or while callback() runs (Dimmer::processTimer(), resetTimer()).        *)
THEOREM TimeIsFull == Spec => FullTime
<1>1. LampInv /\ [Next]_vars =>
        [Tick /\ setValue' # setValue =>
           pc \notin {"idle", "connect"} \/ age + HandlerTicks >= Period(timeout)]_vars
  <2> SUFFICES ASSUME LampInv, Tick, setValue' # setValue, pc \in {"idle", "connect"}
               PROVE  age + HandlerTicks >= Period(timeout)
    OBVIOUS
  <2>1. Counted /\ ExpiryInv
    BY Types DEF LampInv
  <2>2. timer = 0
    BY <2>1, TickRamp DEF Expires
  <2>3. age \in Nat /\ timer + age + HandlerTicks >= Period(timeout)
    BY <2>1, Constants DEF Counted, ExpiryInv, MaxAge
  <2> QED
    BY <2>2, <2>3, Constants
<1> QED
  BY <1>1, LampInvariant, PTL DEF Spec, FullTime

-----------------------------------------------------------------------------
(***************************************************************************)
(* How many interrupts the brightness may still take to settle: the part   *)
(* of Settles that does not need fairness.                                 *)
(***************************************************************************)
(* The way to the level asked for, and once more to darkness when the      *)
(* time-out runs out.                                                      *)
WayLeft(level, goal) == Distance(level, goal) + (IF goal > 0 THEN MaxLevel + 1 ELSE 0)

(* A call that is about to ask for a level starts the way anew.            *)
Asking(location) == IF location \in {"light", "level"} THEN 2 * MaxLevel + 2 ELSE 0

TicksLeft == WayLeft(currentValue, setValue) + Asking(pc)

(* No step adds to them, and an interrupt over an unsettled lamp takes one *)
(* away: processTimer() and setDimmer() in either order.                   *)
SettlesInTicks ==
  [][~Message /\ ~Reset /\ ~(Look /\ motion) =>
       /\ TicksLeft' <= TicksLeft
       /\ Tick /\ currentValue # setValue => TicksLeft' < TicksLeft]_vars

LEMMA WayBounded ==
  ASSUME NEW level \in 0 .. MaxLevel, NEW goal \in 0 .. MaxLevel
  PROVE  WayLeft(level, goal) \in 0 .. 2 * MaxLevel + 1
BY Constants DEF WayLeft, Distance

(* A tick that expires or not, whichever of the two methods comes first.   *)
LEMMA WayShrinks ==
  ASSUME NEW level \in 0 .. MaxLevel, NEW goal \in 0 .. MaxLevel, NEW goalThen \in {goal, 0},
         NEW aim \in {goal, goalThen}
  PROVE  LET then == WayLeft(Toward(level, aim), goalThen)
         IN  /\ then <= WayLeft(level, goal)
             /\ level # goal => then < WayLeft(level, goal)
BY Constants DEF WayLeft, Distance, Toward

(* When no message comes and nobody moves, every interrupt brings an       *)
(* unsettled brightness nearer to where it stays, and nothing takes it     *)
(* back: two ways from end to end, and two more for a call under way.      *)
THEOREM LampSettlesInTicks == Spec => SettlesInTicks
<1>1. LampInv /\ LampInv' /\ [Next]_vars =>
        [~Message /\ ~Reset /\ ~(Look /\ motion) =>
           /\ TicksLeft' <= TicksLeft
           /\ Tick /\ currentValue # setValue => TicksLeft' < TicksLeft]_vars
  <2> SUFFICES ASSUME LampInv, LampInv', Next, ~Message, ~Reset, ~(Look /\ motion)
               PROVE  /\ TicksLeft' <= TicksLeft
                      /\ Tick /\ currentValue # setValue => TicksLeft' < TicksLeft
    OBVIOUS
  <2> DEFINE now  == WayLeft(currentValue, setValue)
             then == WayLeft(currentValue', setValue')
  <2>1. /\ currentValue \in 0 .. MaxLevel /\ setValue \in 0 .. MaxLevel
        /\ currentValue' \in 0 .. MaxLevel /\ setValue' \in 0 .. MaxLevel
    BY DEF LampInv, TypeOK
  <2>2. now \in 0 .. 2 * MaxLevel + 1 /\ then \in 0 .. 2 * MaxLevel + 1 /\ MaxLevel \in Nat
    BY <2>1, WayBounded, Constants
  <2>3. TicksLeft = now + Asking(pc) /\ TicksLeft' = then + Asking(pc')
    BY DEF TicksLeft
  <2>4. CASE Tick
    <3>1. pc' = pc
      BY <2>4 DEF Tick
    <3>2. Asking(pc) \in Nat
      BY <2>2 DEF Asking
    <3>3. then <= now /\ (currentValue # setValue => then < now)
      <4>1. PICK aim \in {setValue, setValue'} : currentValue' = Toward(currentValue, aim)
        BY <2>4 DEF Tick
      <4>2. setValue' \in {setValue, 0}
        BY <2>4 DEF Tick, ProcessTimer
      <4> QED
        BY <2>1, <4>1, <4>2, WayShrinks
    <3> HIDE DEF now, then
    <3> QED
      BY <2>2, <2>3, <3>1, <3>2, <3>3
  <2>5. CASE SetValue
    <3>1. Asking(pc) = 2 * MaxLevel + 2 /\ Asking(pc') = 0
      BY <2>5 DEF SetValue, Goto, Asking
    <3>2. ~Tick
      BY <2>5 DEF SetValue, Tick, Goto
    <3> HIDE DEF now, then
    <3> QED
      BY <2>2, <2>3, <3>1, <3>2
  <2>6. CASE ~Tick /\ ~SetValue
    <3>1. then = now
      BY <2>6 DEF Next, Callback, Look, Light, Connect, SetTimeout, Timer, TimerLow, TimerHigh,
                  Supply, Hand, lampVars
    <3>2. pc' \in {"light", "level"} => pc \in {"light", "level"}
      BY <2>6 DEF Next, Callback, Look, Light, Connect, SetTimeout, Timer, TimerLow, TimerHigh,
                  Supply, Hand, Goto, callVars
    <3>3. Asking(pc) \in Nat /\ Asking(pc') \in Nat /\ Asking(pc') <= Asking(pc)
      BY <2>2, <3>2 DEF Asking
    <3> HIDE DEF now, then
    <3> QED
      BY <2>2, <2>3, <2>6, <3>1, <3>3
  <2> QED
    BY <2>4, <2>5, <2>6
<1> QED
  BY <1>1, LampInvariant, PTL DEF Spec, SettlesInTicks

-----------------------------------------------------------------------------
(* How wide an int is: no square of a level overflows it, or all its       *)
(* values together are as many as the square of the number of levels (16   *)
(* bits and 256).                                                          *)
Widths ==
  \A k \in Kinds :
    \/ IntMax[k] >= MaxLevel * MaxLevel
    \/ 2 * (IntMax[k] + 1) = (MaxLevel + 1) * (MaxLevel + 1)

(* An overflow costs the square 2 and no more.                             *)
Loses(build, level) == IF build = "wraps" /\ level * level > IntMax[kind] THEN 2 ELSE 0

LEMMA WrappedSquare ==
  ASSUME NEW m \in Nat \ {0}, NEW x \in Nat, x >= 2, x <= m * m
  PROVE  LET w == (m + 1) * (m + 1)
         IN  (-((w - x) \div m)) % (m + 1) = (x - 2) \div m
<1> DEFINE d == (x - 2) \div m
           e == m * d
           s == m * m
           w == (m + 1) * (m + 1)
           f == m * (m + 1 - d)
<1>1. x - 2 \in Nat /\ s \in Nat
  OBVIOUS
<1>2. d \in Nat /\ e \in Nat /\ e <= x - 2 /\ x - 2 < e + m
  <2>1. /\ d \in Nat /\ (x - 2) % m \in 0 .. m - 1 /\ e \in Nat
        /\ x - 2 = e + ((x - 2) % m)
    BY <1>1, Division
  <2> HIDE DEF d, e
  <2> QED
    BY <2>1
<1>3. d < m
  <2>1. m < d => s + m <= e
    BY <1>2, Monotone
  <2>2. m = d => s = e
    OBVIOUS
  <2> HIDE DEF e, d, s
  <2> QED
    BY <1>1, <1>2, <2>1, <2>2 DEF s
<1>4. w = s + 2 * m + 1
  OBVIOUS
<1> HIDE DEF d
<1>5. f = s + m - e
  BY <1>2
<1>6. m + 1 - d \in Nat
  BY <1>2, <1>3
<1> HIDE DEF e, s, w, f
<1>7. w - x \in Nat /\ f <= w - x /\ w - x < f + m
  BY <1>1, <1>2, <1>4, <1>5 DEF s
<1>8. (w - x) \div m = m + 1 - d
  BY <1>6, <1>7, QuotientIs DEF f
<1>9. (d - (m + 1)) % (m + 1) = d
  <2>1. d % (m + 1) = d
    BY <1>2, <1>3, Small
  <2> QED
    BY <1>2, <2>1, TurnBack
<1>10. -(m + 1 - d) = d - (m + 1)
  BY <1>2
<1> QED
  BY <1>8, <1>9, <1>10 DEF w, d

LEMMA DutyIs ==
  ASSUME kind \in Kinds, Widths, NEW build \in Build, NEW level \in 0 .. MaxLevel
  PROVE  /\ level * level >= Loses(build, level)
         /\ Duty(build, level) = (level * level - Loses(build, level)) \div MaxLevel
<1> DEFINE m == MaxLevel
           x == level * level
           w == IntMax[kind]
<1>1. m \in Nat \ {0} /\ w \in Nat
  BY LampAssumption
<1>2. x \in Nat /\ x <= m * m /\ m * m \in Nat
  BY <1>1
<1>3. w >= m * m \/ 2 * (w + 1) = (m + 1) * (m + 1)
  BY DEF Widths
<1>4. (m + 1) * (m + 1) = m * m + 2 * m + 1
  BY <1>1
<1> HIDE DEF m, x, w
<1>5. CASE Loses(build, level) = 0
  <2>1. Square(build, level) = x
    <3>1. CASE build = "unsigned"
      BY <3>1 DEF Square, x
    <3>2. CASE build = "wraps"
      <4>1. x <= w
        BY <1>1, <1>2, <1>5, <3>2 DEF Loses, x, w
      <4>2. (x + w + 1) % (2 * (w + 1)) = x + w + 1
        <5>1. 2 * (w + 1) \in Nat \ {0} /\ x + w + 1 \in Nat /\ x + w + 1 < 2 * (w + 1)
          BY <1>1, <1>2, <4>1
        <5> QED
          BY <5>1, Small
      <4>3. AsInt(x) = x
        BY <1>1, <1>2, <4>2 DEF AsInt, w
      <4> QED
        BY <3>2, <4>3 DEF Square, x
    <3> QED
      BY <3>1, <3>2 DEF Build
  <2>2. x \div m \in Nat /\ x \div m <= m
    <3> DEFINE d == x \div m
    <3>1. d \in Nat /\ m * d \in Nat /\ m * d <= x
      <4>1. d \in Nat /\ x % m \in 0 .. m - 1 /\ m * d \in Nat /\ x = m * d + (x % m)
        BY <1>1, <1>2, Division
      <4> HIDE DEF d
      <4> QED
        BY <1>1, <1>2, <4>1
    <3> HIDE DEF d
    <3>2. m < d => m * m + m <= m * d
      BY <1>1, <3>1, Monotone
    <3>3. ~(m < d)
      BY <1>1, <1>2, <3>1, <3>2
    <3> QED
      BY <1>1, <3>1, <3>3 DEF d
  <2>3. (x \div m) % (m + 1) = x \div m
    BY <1>1, <2>2, Small
  <2>4. Duty(build, level) = x \div m
    BY <1>2, <2>1, <2>3 DEF Duty, Quotient, m
  <2> QED
    BY <1>2, <1>5, <2>4 DEF x, m
<1>6. CASE Loses(build, level) # 0
  <2>1. build = "wraps" /\ x > w /\ Loses(build, level) = 2
    BY <1>6 DEF Loses, x, w
  <2>2. 2 * (w + 1) = (m + 1) * (m + 1) /\ (m + 1) * (m + 1) >= 4 /\ x >= 2
    BY <1>1, <1>2, <1>3, <1>4, <2>1
  <2>3. x < 2 * (w + 1)
    BY <1>1, <1>2, <1>4, <2>2
  <2>4. (x + w + 1) % (2 * (w + 1)) = x + w + 1 - 2 * (w + 1)
    <3> DEFINE b == 2 * (w + 1)
               r == x + w + 1 - b
    <3>1. b \in Nat \ {0} /\ r \in 0 .. b - 1
      BY <1>1, <1>2, <2>1, <2>3
    <3>2. x + w + 1 = b * 1 + r
      BY <1>1, <1>2
    <3> HIDE DEF b, r
    <3>3. (b * 1 + r) % b = r
      BY <3>1, Remainder
    <3> QED
      BY <3>2, <3>3 DEF b, r
  <2>5. AsInt(x) = x - 2 * (w + 1)
    BY <1>1, <1>2, <2>4 DEF AsInt, w
  <2> DEFINE all == 2 * (w + 1)
  <2>6. all \in Nat /\ x - all < 0 /\ -(x - all) = all - x
    BY <1>1, <1>2, <2>3
  <2>7. Square(build, level) = x - all
    BY <2>1, <2>5 DEF Square, x
  <2> HIDE DEF all
  <2>8. Duty(build, level) = (-((all - x) \div m)) % (m + 1)
    BY <2>6, <2>7 DEF Duty, Quotient, m
  <2>9. (-((all - x) \div m)) % (m + 1) = (x - 2) \div m
    BY <1>1, <1>2, <2>2, WrappedSquare DEF all
  <2> QED
    BY <2>1, <2>2, <2>8, <2>9 DEF x, m
<1>7. Loses(build, level) \in {0, 2}
  BY DEF Loses
<1> QED
  BY <1>5, <1>6

(* One level up.                                                           *)
LEMMA DutyUp ==
  ASSUME kind \in Kinds, Widths, NEW build \in Build, NEW level \in 0 .. MaxLevel - 1
  PROVE  LET from == Duty(build, level)
             to   == Duty(build, level + 1)
         IN  from \in Nat /\ to \in Nat /\ from <= to /\ to <= from + 2
<1> DEFINE m == MaxLevel
           x == level * level
           y == (level + 1) * (level + 1)
           a == Loses(build, level)
           b == Loses(build, level + 1)
           w == IntMax[kind]
<1>1. m \in Nat \ {0} /\ level \in Nat /\ level + 1 <= m /\ w \in Nat
      /\ level \in 0 .. m /\ level + 1 \in 0 .. m
  BY LampAssumption
<1>2. x \in Nat /\ y = x + 2 * level + 1
  BY <1>1
<1>3. x >= a /\ y >= b /\ Duty(build, level) = (x - a) \div m /\ Duty(build, level + 1) = (y - b) \div m
  BY <1>1, DutyIs
<1>4. /\ a = 0 \/ a = 2
      /\ b = 0 \/ b = 2
      /\ a = 2 => b = 2
      /\ b = 2 => level # 0
  <2>1. /\ a = (IF build = "wraps" /\ x > w THEN 2 ELSE 0)
        /\ b = (IF build = "wraps" /\ y > w THEN 2 ELSE 0)
    BY DEF Loses
  <2>2. level = 0 => y = 1
    BY <1>1
  <2> HIDE DEF x, y, a, b, w
  <2>3. y > x
    BY <1>1, <1>2
  <2> QED
    BY <1>1, <1>2, <1>3, <2>1, <2>2, <2>3
<1> HIDE DEF m, x, y, a, b, w
<1>5. x - a \in Nat /\ y - b \in Nat /\ x - a <= y - b /\ y - b < (x - a) + 2 * m
  BY <1>1, <1>2, <1>3, <1>4
<1>6. (x - a) \div m <= (y - b) \div m /\ (y - b) \div m <= ((x - a) \div m) + 2
  BY <1>1, <1>5, QuotientsClose
<1>7. (x - a) \div m \in Nat /\ (y - b) \div m \in Nat
  BY <1>1, <1>5, Division
<1> QED
  BY <1>3, <1>6, <1>7

(* Smooth dimming: with an int of 16 bits and 255 levels, or one that no   *)
(* square overflows, a tick moves the duty cycle by at most two parts and  *)
(* never against the ramp (analogWrite() in Dimmer::setDimmer()).          *)
THEOREM DimsSmoothly ==
  ASSUME Widths
  PROVE  Spec => SmoothDimming
<1>1. LampInv /\ LampInv' /\ [Next]_vars =>
        [Tick => \A build \in Build :
           LET from == Duty(build, currentValue)
               to   == Duty(build, currentValue')
           IN  /\ Distance(from, to) <= 2
               /\ currentValue <= currentValue' => from <= to
               /\ currentValue >= currentValue' => from >= to]_vars
  <2> SUFFICES ASSUME LampInv, LampInv', Tick, NEW build \in Build
               PROVE  LET from == Duty(build, currentValue)
                          to   == Duty(build, currentValue')
                      IN  /\ Distance(from, to) <= 2
                          /\ currentValue <= currentValue' => from <= to
                          /\ currentValue >= currentValue' => from >= to
    OBVIOUS
  <2>1. /\ kind \in Kinds /\ currentValue \in 0 .. MaxLevel /\ currentValue' \in 0 .. MaxLevel
        /\ MaxLevel \in Nat
    BY LampAssumption DEF LampInv, TypeOK
  <2>2. currentValue' \in {currentValue, currentValue + 1, currentValue - 1}
    BY DEF Tick, Toward
  <2> DEFINE from == Duty(build, currentValue)
             to   == Duty(build, currentValue')
  <2>3. CASE currentValue' = currentValue
    <3>1. from \in Nat /\ to = from
      <4>1. MaxLevel \in Nat \ {0} /\ currentValue * currentValue - Loses(build, currentValue) \in Nat
        <5>1. currentValue * currentValue \in Nat /\ Loses(build, currentValue) \in Nat
          BY <2>1 DEF Loses
        <5> QED
          BY <2>1, <5>1, LampAssumption, DutyIs
      <4> QED
        BY <2>1, <2>3, <4>1, DutyIs, Division
    <3> HIDE DEF from, to
    <3> QED
      BY <3>1 DEF Distance, from, to
  <2>4. CASE currentValue' = currentValue + 1
    <3>1. from \in Nat /\ to \in Nat /\ from <= to /\ to <= from + 2
      <4>1. currentValue \in 0 .. MaxLevel - 1
        BY <2>1, <2>4
      <4> QED
        BY <2>1, <2>4, <4>1, DutyUp
    <3>2. ~(currentValue >= currentValue')
      BY <2>1, <2>4
    <3> HIDE DEF from, to
    <3>3. Distance(from, to) <= 2
      BY <3>1 DEF Distance
    <3> QED
      BY <3>1, <3>2, <3>3 DEF from, to
  <2>5. CASE currentValue' = currentValue - 1
    <3>1. from \in Nat /\ to \in Nat /\ to <= from /\ from <= to + 2
      <4>1. currentValue - 1 \in 0 .. MaxLevel - 1 /\ (currentValue - 1) + 1 = currentValue
        BY <2>1, <2>5
      <4> QED
        BY <2>1, <2>5, <4>1, DutyUp
    <3>2. ~(currentValue <= currentValue')
      BY <2>1, <2>5
    <3> HIDE DEF from, to
    <3>3. Distance(from, to) <= 2
      BY <3>1 DEF Distance
    <3> QED
      BY <3>1, <3>2, <3>3 DEF from, to
  <2> QED
    BY <2>2, <2>3, <2>4, <2>5
<1> QED
  BY <1>1, LampInvariant, PTL DEF Spec, SmoothDimming
=============================================================================
