------------------------------ MODULE DimmerLamp ------------------------------
(***************************************************************************)
(* A lamp: class Dimmer (src/libraries/Common/DimmerLib) as three          *)
(* controllers use it, each a kind:                                        *)
(*   "avr"  Oswietlenie_zew_EthernetShield_Mqtt, with a relay for the      *)
(*          supply of the lamp, a 16-bit int and an m_timer that is stored *)
(*          byte by byte;                                                  *)
(*   "esp"  CT_ESP8266_dimmer_v1.0, with a relay, and lit by setup();      *)
(*   "pir"  Kuchnia_Wro_ESP8266_v1.1, without a relay; class DimmerPir     *)
(*          lights the lamp when somebody moves in the dark.               *)
(* callback() sets the level and the time-out from the main loop; the      *)
(* timer interrupt (Tick) counts the time-out, moves the brightness one    *)
(* level and switches the supply off when the lamp is dark.                *)
(***************************************************************************)
EXTENDS Integers

CONSTANTS
  MaxPercent, MaxLevel,   \* 100 and 255: map(value, 0, 100, 0, 255)
  Cycles,                 \* m_cyclesInSecond
  Kinds,
  DIMMER_TIMEOUT,         \* of each kind, in seconds; 0 is none
  Values,                 \* payloads of the value topic, in percent
  Minutes, MinuteSeconds, \* payloads of the timeout topic; 60
  IntMax, ULongMax,       \* greatest int, of each kind, and unsigned long
  Byte,                   \* values of a byte
  HandlerTicks            \* most interrupts that hit one call of callback(), and
                          \* one pass of loop() that does not block

(* An interrupt is 10 ms, so the last line asks a call to be over in five  *)
(* seconds: it stores a few bytes and publishes one message.               *)
ASSUME LampAssumption ==
  /\ MaxPercent \in Nat \ {0} /\ MaxLevel \in Nat \ {0}
  /\ Kinds \subseteq {"avr", "esp", "pir"}
  /\ IntMax \in [Kinds -> Nat] /\ ULongMax \in Nat /\ Byte \in Nat \ {0, 1}
  /\ Cycles \in Nat \ {0} /\ DIMMER_TIMEOUT \in [Kinds -> 0 .. ULongMax]
  /\ Values \subseteq Int /\ Minutes \subseteq Int /\ MinuteSeconds \in Nat
  /\ HandlerTicks \in Nat /\ HandlerTicks <= Byte + MaxLevel

VARIABLES
  kind,
  setValue, currentValue,  \* m_setValue, m_currentValue
  timeout, timer,
  supply,                  \* the relay at RELAYPIN: TRUE is on
  pc, arg,                 \* position in callback() or checkSensors(), and payload
  ticks,                   \* interrupts since it began, or loop() last looked
  motion, dark,            \* what the sensors of DimmerPir see
  fed,                     \* history: a level other than 0 was asked for
  age,                     \* history: ticks since the last message took effect
  unlit                    \* history: ticks of motion in the dark since light was asked for

lampVars  == <<setValue, currentValue, timeout, timer, supply>>
callVars  == <<pc, arg, ticks>>
worldVars == <<motion, dark>>
pastVars  == <<fed, age, unlit>>
vars      == <<kind, lampVars, callVars, worldVars, pastVars>>

(* What setup() makes of m_setValue; TimerLoop() calls setDimmer() before  *)
(* processTimer(); the processor stores an unsigned long in one go.        *)
BootLevel == IF kind = "esp" THEN MaxLevel ELSE 0
DimsFirst == kind # "avr"
Stores32  == kind # "avr"

-----------------------------------------------------------------------------
(* C arithmetic: an int that overflows wraps, an unsigned long does so by  *)
(* definition; division truncates towards 0.                               *)
AsInt(n)   == ((n + IntMax[kind] + 1) % (2 * (IntMax[kind] + 1))) - IntMax[kind] - 1
AsULong(n) == n % (ULongMax + 1)
Quotient(n, d) == IF n < 0 THEN -((-n) \div d) ELSE n \div d

Low(n)  == n % Byte
High(n) == n - Low(n)

(* setTimeout(data_int*60), an int product given to an unsigned long.      *)
Seconds(minutes) == AsULong(AsInt(minutes * MinuteSeconds))

(* m_timeout * m_cyclesInSecond                                            *)
Period(seconds) == AsULong(seconds * Cycles)

(* Mutant: the range check accepts one percent too many.                   *)
MutantLevel(value) ==
  IF value < 0 THEN 0
  ELSE IF value > MaxPercent + 1 THEN MaxLevel
  ELSE (value * MaxLevel) \div MaxPercent

(* What setValue() makes of a payload.                                     *)
Level(value) ==
  IF value < 0 THEN 0
  ELSE IF value > MaxPercent THEN MaxLevel
  ELSE (value * MaxLevel) \div MaxPercent

(* The square of a level above 181 overflows an int of 16 bits: a build    *)
(* may wrap it or, as a square is never negative, divide it unsigned.      *)
Build == {"wraps", "unsigned"}
Square(build, level) == IF build = "wraps" THEN AsInt(level * level) ELSE level * level

(* Mutant: the brightness is limited to what a duty cycle can be.          *)
MutantDuty(build, level) ==
  IF Square(build, level) < 0 THEN 0 ELSE Quotient(Square(build, level), MaxLevel)

(* analogWrite(m_pin, c*c/255) keeps the low 8 bits.                       *)
Duty(build, level) == Quotient(Square(build, level), MaxLevel) % (MaxLevel + 1)

-----------------------------------------------------------------------------
MaxAge   == ULongMax + Byte + MaxLevel + 2
MaxUnlit == 2 * HandlerTicks + 1

TypeOK ==
  /\ setValue \in 0 .. MaxLevel /\ currentValue \in 0 .. MaxLevel
  /\ timeout \in 0 .. ULongMax /\ timer \in 0 .. ULongMax + Byte
  /\ supply \in BOOLEAN
  /\ pc \in {"idle", "level", "timeout", "timer", "timerHigh", "supply", "light", "connect"}
  /\ arg \in Values \union Minutes \union {0, MaxPercent}
  /\ ticks \in 0 .. HandlerTicks
  /\ kind \in Kinds /\ motion \in BOOLEAN /\ dark \in BOOLEAN
  /\ fed \in BOOLEAN /\ age \in 0 .. MaxAge /\ unlit \in 0 .. MaxUnlit

(* setup() is over and the interrupt attached; the supply starts off, also *)
(* where setup() has already asked for light.                              *)
Init ==
  /\ kind \in Kinds
  /\ setValue = BootLevel /\ currentValue = 0
  /\ timeout = DIMMER_TIMEOUT[kind] /\ timer = Period(DIMMER_TIMEOUT[kind])
  /\ supply = FALSE
  /\ pc = "idle" /\ arg = 0 /\ ticks = 0
  /\ motion \in {FALSE, kind = "pir"} /\ dark \in {FALSE, kind = "pir"}
  /\ fed = FALSE /\ age = 0 /\ unlit = 0

Goto(from, to) == pc = from /\ pc' = to

(* callback() with a message on the value topic, which ends at the supply, *)
(* or on the timeout topic.                                                *)
Receive(location, payload) ==
  /\ Goto("idle", location)
  /\ arg' = payload /\ ticks' = (IF kind = "pir" THEN ticks ELSE 0)
  /\ UNCHANGED <<kind, lampVars, worldVars, pastVars>>

(* checkSensors(), at the end of loop() and of setLightTrigger(): motion   *)
(* keeps a lamp that is lit ...                                            *)
Look ==
  /\ kind = "pir" /\ pc = "idle"
  /\ pc' = (IF ~motion THEN "idle" ELSE IF setValue = 0 THEN "light" ELSE "timer")
  /\ arg' = 0 /\ ticks' = 0
  /\ UNCHANGED <<kind, lampVars, worldVars, pastVars>>

(* Mutant: the two scales of the light sensor are swapped.                 *)
MutantLight ==
  /\ Goto("light", IF ~dark THEN "level" ELSE "idle")
  /\ arg' = (IF ~dark THEN MaxPercent ELSE 0)
  /\ UNCHANGED <<kind, lampVars, ticks, worldVars, pastVars>>

(* ... and in the dark lights it.                                          *)
Light ==
  /\ Goto("light", IF dark THEN "level" ELSE "idle")
  /\ arg' = (IF dark THEN MaxPercent ELSE 0)
  /\ UNCHANGED <<kind, lampVars, ticks, worldVars, pastVars>>

(* Without a link loop() blocks in mqttConnect().                          *)
Connect ==
  /\ kind = "pir"
  /\ Goto("idle", "connect") \/ Goto("connect", "idle")
  /\ UNCHANGED <<kind, lampVars, arg, ticks, worldVars, pastVars>>

SetValue ==
  /\ Goto("level", "timer")
  /\ setValue' = Level(arg)
  /\ fed' = (fed \/ arg # 0) /\ age' = 0 /\ unlit' = 0
  /\ UNCHANGED <<kind, currentValue, timeout, timer, supply, arg, ticks, worldVars>>

(* setTimeout() ends like setValue(): both compute m_timer from m_timeout. *)
SetTimeout ==
  /\ Goto("timeout", "timer")
  /\ timeout' = Seconds(arg)
  /\ arg' = 0 /\ age' = 0
  /\ UNCHANGED <<kind, setValue, currentValue, timer, supply, ticks, worldVars, fed, unlit>>

(* resetTimer(), in one store or in two.                                   *)
Timer ==
  /\ Stores32 /\ Goto("timer", "supply")
  /\ timer' = Period(timeout)
  /\ age' = 0
  /\ UNCHANGED <<kind, setValue, currentValue, timeout, supply, arg, ticks, worldVars, fed, unlit>>

TimerLow ==
  /\ ~Stores32 /\ Goto("timer", "timerHigh")
  /\ timer' = High(timer) + Low(Period(timeout))
  /\ UNCHANGED <<kind, setValue, currentValue, timeout, supply, arg, ticks, worldVars, pastVars>>

(* Mutant: setValue() does not restart the time-out.                       *)
MutantTimerHigh ==
  /\ Goto("timerHigh", "supply")
  /\ age' = 0
  /\ UNCHANGED <<kind, lampVars, arg, ticks, worldVars, fed, unlit>>

TimerHigh ==
  /\ Goto("timerHigh", "supply")
  /\ timer' = High(Period(timeout)) + Low(timer)
  /\ age' = 0
  /\ UNCHANGED <<kind, setValue, currentValue, timeout, supply, arg, ticks, worldVars, fed, unlit>>

(* Mutant: the supply follows the lamp, which is still dark.               *)
MutantSupply ==
  /\ Goto("supply", "idle")
  /\ supply' = (supply \/ currentValue # 0)
  /\ UNCHANGED <<kind, setValue, currentValue, timeout, timer, arg, ticks, worldVars, pastVars>>

(* A payload other than 0 switches the supply on; after setTimeout() and   *)
(* in checkSensors() there is nothing to do.                               *)
Supply ==
  /\ Goto("supply", "idle")
  /\ supply' = (supply \/ (arg # 0 /\ kind # "pir"))
  /\ UNCHANGED <<kind, setValue, currentValue, timeout, timer, arg, ticks, worldVars, pastVars>>

-----------------------------------------------------------------------------
(* Mutant: no test for equality before the step.                           *)
MutantToward(level, goal) == IF level < goal THEN level + 1 ELSE IF level = 0 THEN 0 ELSE level - 1

Toward(level, goal) ==
  IF level < goal THEN level + 1 ELSE IF level > goal THEN level - 1 ELSE level

(* Mutant: a time-out that has run out is not acted on.                    *)
MutantExpires == FALSE

Expires == timeout > 0 /\ timer = 0

(* processTimer(), which at the end of the time-out calls setValue(0).     *)
ProcessTimer ==
  /\ setValue' = (IF Expires THEN 0 ELSE setValue)
  /\ timer' = (IF timeout = 0 THEN timer
               ELSE IF Expires THEN Period(timeout) ELSE timer - 1)

(* Neither idle, when the passes of loop() do nothing, nor blocked.        *)
Counts == pc # "connect" /\ (pc # "idle" \/ kind = "pir")

Tick ==
  /\ Counts => ticks < HandlerTicks
  /\ ProcessTimer
  /\ currentValue' = Toward(currentValue, IF DimsFirst THEN setValue ELSE setValue')
  /\ supply' = (supply /\ currentValue' # 0)
  /\ ticks' = (IF Counts THEN ticks + 1 ELSE 0)
  /\ age' = (IF age < MaxAge THEN age + 1 ELSE MaxAge)
  /\ unlit' = (IF motion /\ dark /\ setValue' = 0 /\ pc # "connect"
               THEN IF unlit < MaxUnlit THEN unlit + 1 ELSE MaxUnlit
               ELSE 0)
  /\ UNCHANGED <<kind, timeout, pc, arg, worldVars, fed>>

Hand ==
  /\ kind = "pir"
  /\ \/ motion' = ~motion /\ UNCHANGED dark
     \/ dark' = ~dark /\ UNCHANGED motion
  /\ unlit' = 0
  /\ UNCHANGED <<kind, lampVars, callVars, fed, age>>

(* Power loss, or the watchdog.                                            *)
Reset ==
  /\ setValue' = BootLevel /\ currentValue' = 0
  /\ timeout' = DIMMER_TIMEOUT[kind] /\ timer' = Period(DIMMER_TIMEOUT[kind])
  /\ supply' = FALSE
  /\ pc' = "idle" /\ arg' = 0 /\ ticks' = 0
  /\ fed' = FALSE /\ age' = 0 /\ unlit' = 0
  /\ UNCHANGED <<kind, worldVars>>

Message ==
  \/ \E value \in Values : Receive("level", value)
  \/ \E minutes \in Minutes : Receive("timeout", minutes)

Callback == SetValue \/ SetTimeout \/ Timer \/ TimerLow \/ TimerHigh \/ Supply \/ Light

Next == Message \/ Callback \/ Look \/ Connect \/ Tick \/ Hand \/ Reset

Spec     == Init /\ [][Next]_vars

(* callback() runs to its end, loop() goes on, and the timer is periodic.  *)
FairSpec == Spec /\ WF_vars(Callback) /\ SF_vars(Look) /\ WF_vars(Tick)
-----------------------------------------------------------------------------
(* Properties *)

(* Between calls a lamp that shines is fed: the interrupt never leaves the *)
(* supply off under a lamp that is on its way up, whichever way it split   *)
(* callback().  At power-on this needs a first message: setup() of the     *)
(* ESP8266 lamp asks for full light and leaves the supply off.             *)
SupplyOn == kind # "pir" /\ pc = "idle" /\ fed /\ currentValue > 0 => supply

(* The level asked for stands for a whole time-out after the last message  *)
(* (but for the ticks that hit the store of m_timer), unless the one       *)
(* before runs out inside callback() and takes the new level with it.      *)
FullTime ==
  [][Tick /\ setValue' # setValue =>
       pc \notin {"idle", "connect"} \/ age + HandlerTicks >= Period(timeout)]_vars

(* With a time-out set, the lamp is dark and its supply off when a period, *)
(* a torn store of its low byte and the way down from full light are over. *)
LightBound ==
  pc = "idle" /\ timeout > 0 /\ age >= Period(timeout) + Byte + MaxLevel + 1 =>
    currentValue = 0 /\ ~supply

(* "Smooth dimming" (the interrupt's comment in setup()): one tick changes *)
(* the duty cycle by at most two parts, never against the ramp, also where *)
(* the square overflows.                                                   *)
Distance(m, n) == IF m < n THEN n - m ELSE m - n
SmoothDimming ==
  [][Tick => \A build \in Build :
        LET from == Duty(build, currentValue)
            to   == Duty(build, currentValue')
        IN  /\ Distance(from, to) <= 2
            /\ currentValue <= currentValue' => from <= to
            /\ currentValue >= currentValue' => from >= to]_vars

(* Who moves in the dark has light asked for within two passes of loop()   *)
(* that do not block, and again within two when the time-out runs out      *)
(* while checkSensors() only restarts it or has just set the level.        *)
MotionLights == unlit <= 2 * HandlerTicks

(***************************************************************************)
(* What holds in every state, between any two steps of callback() and the  *)
(* interrupt, and makes the properties above hold.                         *)
(***************************************************************************)
(* A timer stored by halves stays within a byte of what an unsigned long   *)
(* can hold, and its low byte loses to the interrupts of one call only.    *)
StoreInv ==
  /\ High(timer) <= High(ULongMax)
  /\ pc = "timerHigh" => Low(timer) + ticks >= Low(Period(timeout))

(* From the store of a level to Supply a lamp may be lit and not fed.      *)
SupplyInv ==
  kind # "pir" /\ fed /\ ~(pc \in {"timer", "timerHigh", "supply"} /\ arg # 0) =>
    supply \/ (currentValue = 0 /\ setValue = 0)

(* Once m_timer is stored, timer and age add up to the period, within the  *)
(* torn byte; a level taken back has the way down from full light to go.   *)
ExpiryInv ==
  pc \notin {"timer", "timerHigh"} =>
    /\ timer + age + HandlerTicks >= Period(timeout)
    /\ timeout > 0 /\ setValue > 0 => timer + age < Period(timeout) + Byte
    /\ timeout > 0 /\ setValue = 0 =>
         currentValue = 0 \/ currentValue + age <= Period(timeout) + Byte + MaxLevel

(* The supply of a dark lamp is on from Supply to the next interrupt only. *)
DarkInv ==
  /\ supply /\ currentValue = 0 => age <= HandlerTicks
  /\ pc = "supply" => age <= ticks

(* Ticks in the dark are those of this pass, and of the one before while   *)
(* checkSensors() is on its way to light the lamp.                         *)
MotionInv ==
  /\ kind # "pir" => ~motion /\ ~dark
  /\ unlit > 0 => motion /\ dark /\ setValue = 0
  /\ unlit <= ticks + (IF pc \in {"light", "level"} THEN HandlerTicks ELSE 0)

LampInv == TypeOK /\ StoreInv /\ SupplyInv /\ ExpiryInv /\ DarkInv /\ MotionInv

(* Once no more messages come and nobody moves the brightness settles.     *)
Settles == <>[][~Message /\ ~Reset]_vars /\ <>[]~motion => <>[](currentValue = setValue)
=============================================================================
