--------------------------------- MODULE Relay ---------------------------------
(***************************************************************************)
(* Class relay (src/libraries/Common/RelayLib/Relay.{h,cpp}) as the alarm  *)
(* controller uses it for its sirens (Alarm_EthernetShield_Mqtt_v2):       *)
(* callback() calls setState() and setTimeout() from the main loop, the    *)
(* timer interrupt calls processTimer() of every siren.  The calls of the  *)
(* main loop take several steps; an interrupt is one.  The AVR stores a    *)
(* number of four bytes one by one: an interrupt comes between two of them *)
(* and finds the lower bytes new and the upper ones old, or the reverse.   *)
(***************************************************************************)
EXTENDS Integers

CONSTANTS
  Relays,      \* the sirens
  Timeout,     \* SIREN_TIMEOUT_CYCLE_PERIOD, given to every constructor
  Periods,     \* the values a message may set as time-out
  MaxTimeout,  \* greatest value of an unsigned long: 2^32 - 1
  Bytes        \* values of the bytes on the lower side of the interrupt:
               \* 2^8, 2^16 or 2^24

ASSUME RelayAssumption ==
  /\ Relays # {} /\ MaxTimeout \in Nat \ {0} /\ Bytes \in Nat \ {0}
  /\ MaxTimeout % Bytes = Bytes - 1
  /\ Timeout \in 0 .. MaxTimeout /\ Periods \subseteq 0 .. MaxTimeout

On  == 1
Off == 0
ERelayState == {On, Off}

VARIABLES
  setValue,            \* m_setValue
  pin,                 \* what the relay on m_pin is told
  timeout, relayTimer, \* m_timeout, m_timer
  built,               \* relays whose constructor has returned
  relayPc, cur, arg,   \* the call in progress, its object and its argument
  expired,             \* history: relays whose time-out ran out since the last message
  running              \* history: interrupts since a call, or the time-out before,
                       \* started the time-out that is running

stateVars == <<setValue, pin, timeout, relayTimer>>
callVars  == <<relayPc, cur, arg>>
pastVars  == <<expired, running>>
relayVars == <<stateVars, built, callVars, pastVars>>

(* Positions in the stores of m_timeout and m_timer.                       *)
TimeoutParts == {"timeout", "timeoutUpper", "timeoutLower"}
TimerParts   == {"timer", "timerUpper", "timerLower"}

RelayTypeOK ==
  /\ setValue \in [Relays -> ERelayState] /\ pin \in [Relays -> ERelayState]
  /\ timeout \in [Relays -> 0 .. MaxTimeout] /\ relayTimer \in [Relays -> 0 .. MaxTimeout]
  /\ built \subseteq Relays
  /\ relayPc \in {"idle", "pinMode", "store", "write"} \union TimeoutParts \union TimerParts
  /\ cur \in Relays /\ arg \in 0 .. MaxTimeout
  /\ expired \subseteq Relays /\ running \in [Relays -> Nat]

-----------------------------------------------------------------------------
(* The pins are inputs after a reset, and the relay boards rest.           *)
RelayInit ==
  /\ setValue = [r \in Relays |-> Off] /\ pin = [r \in Relays |-> Off]
  /\ timeout = [r \in Relays |-> 0] /\ relayTimer = [r \in Relays |-> 0]
  /\ built = {} /\ expired = {} /\ running = [r \in Relays |-> 0]
  /\ relayPc = "idle" /\ cur \in Relays /\ arg = Off

Advance(from, to) == relayPc = from /\ relayPc' = to /\ UNCHANGED <<cur, arg>>

Call(r, location, argument) ==
  /\ relayPc = "idle" /\ relayPc' = location
  /\ cur' = r /\ arg' = argument

(* A number of which the lower bytes, or the upper ones, are stored anew.  *)
Lower(n) == n % Bytes
Upper(n) == n - Lower(n)
StoreLower(old, new) == Upper(old) + Lower(new)
StoreUpper(old, new) == Upper(new) + Lower(old)

(* The constructor makes m_pin an output whose latch holds LOW, which is   *)
(* the sirens' active level, and calls setState(Off).                      *)
Construct(r) ==
  /\ r \notin built
  /\ Call(r, "pinMode", Off)
  /\ timeout' = [timeout EXCEPT ![r] = Timeout] /\ relayTimer' = [relayTimer EXCEPT ![r] = Timeout]
  /\ setValue' = [setValue EXCEPT ![r] = Off] /\ running' = [running EXCEPT ![r] = 0]
  /\ UNCHANGED <<pin, built, expired>>

PinMode ==
  /\ Advance("pinMode", "store")
  /\ pin' = [pin EXCEPT ![cur] = On]
  /\ UNCHANGED <<setValue, timeout, relayTimer, built, pastVars>>

SetState(r, value) ==
  /\ built = Relays
  /\ Call(r, "store", value)
  /\ expired' = expired \ {r}
  /\ UNCHANGED <<stateVars, built, running>>

(* What setState() stores: always On, whatever its argument (Relay.cpp:30).*)
Stored(value) == On

StoreState ==
  /\ Advance("store", "write")
  /\ setValue' = [setValue EXCEPT ![cur] = Stored(arg)]
  /\ UNCHANGED <<pin, timeout, relayTimer, built, pastVars>>

(* The build may write the value it has just stored or load m_setValue.    *)
Write ==
  /\ Advance("write", "timer")
  /\ \E value \in {Stored(arg), setValue[cur]} : pin' = [pin EXCEPT ![cur] = value]
  /\ UNCHANGED <<setValue, timeout, relayTimer, built, pastVars>>

SetTimeout(r, period) ==
  /\ built = Relays
  /\ Call(r, "timeout", period)
  /\ UNCHANGED <<stateVars, built, pastVars>>

(* m_timeout = timeout, in either order of the bytes.                      *)
StoreTimeout ==
  /\ \/ /\ Advance("timeout", "timeoutUpper") \/ Advance("timeoutLower", "timer")
        /\ timeout' = [timeout EXCEPT ![cur] = StoreLower(@, arg)]
     \/ /\ Advance("timeout", "timeoutLower") \/ Advance("timeoutUpper", "timer")
        /\ timeout' = [timeout EXCEPT ![cur] = StoreUpper(@, arg)]
  /\ UNCHANGED <<setValue, pin, relayTimer, built, pastVars>>

(* m_timer = m_timeout ends setTimeout() and, as resetTimer(), setState(). *)
StoreTimer ==
  /\ \/ /\ Advance("timer", "timerUpper")
        /\ relayTimer' = [relayTimer EXCEPT ![cur] = StoreLower(@, timeout[cur])]
     \/ /\ Advance("timer", "timerLower")
        /\ relayTimer' = [relayTimer EXCEPT ![cur] = StoreUpper(@, timeout[cur])]
  /\ UNCHANGED <<setValue, pin, timeout, built, pastVars>>

(* Mutant: the call leaves the running time-out alone.                     *)
MutantTimerStored ==
  /\ Advance("timerUpper", "idle") \/ Advance("timerLower", "idle")
  /\ built' = built \union {cur}
  /\ expired' = expired \ {cur} /\ running' = [running EXCEPT ![cur] = 0]
  /\ UNCHANGED stateVars

TimerStored ==
  /\ \/ /\ Advance("timerUpper", "idle")
        /\ relayTimer' = [relayTimer EXCEPT ![cur] = StoreUpper(@, timeout[cur])]
     \/ /\ Advance("timerLower", "idle")
        /\ relayTimer' = [relayTimer EXCEPT ![cur] = StoreLower(@, timeout[cur])]
  /\ built' = built \union {cur}
  /\ expired' = expired \ {cur} /\ running' = [running EXCEPT ![cur] = 0]
  /\ UNCHANGED <<setValue, pin, timeout>>

-----------------------------------------------------------------------------
(* processTimer() of every relay: 0 is "no time-out"; a timer found at 0   *)
(* calls setState(Off), all of it within the interrupt.                    *)
InCall(r) == relayPc # "idle" /\ cur = r

Expires(r) == timeout[r] > 0 /\ relayTimer[r] = 0

CountedDown(r) ==
  IF timeout[r] = 0 THEN relayTimer[r] ELSE IF relayTimer[r] = 0 THEN timeout[r] ELSE relayTimer[r] - 1

ProcessTimer ==
  /\ built = Relays
  /\ relayTimer' = [r \in Relays |-> CountedDown(r)]
  /\ setValue' = [r \in Relays |-> IF Expires(r) THEN Stored(Off) ELSE setValue[r]]
  /\ pin' = [r \in Relays |-> IF Expires(r) THEN setValue'[r] ELSE pin[r]]
  /\ expired' = expired \union {r \in Relays : Expires(r)}
  /\ running' = [r \in Relays |->
                   IF timeout[r] = 0 \/ Expires(r) \/ InCall(r) THEN 0 ELSE running[r] + 1]
  /\ UNCHANGED <<timeout, built, callVars>>

(* Power loss, or the watchdog of four seconds.                            *)
Reset ==
  /\ setValue' = [r \in Relays |-> Off] /\ pin' = [r \in Relays |-> Off]
  /\ timeout' = [r \in Relays |-> 0] /\ relayTimer' = [r \in Relays |-> 0]
  /\ built' = {} /\ expired' = {} /\ running' = [r \in Relays |-> 0]
  /\ relayPc' = "idle" /\ arg' = Off /\ UNCHANGED cur

Message ==
  \E r \in Relays : \/ \E value \in ERelayState : SetState(r, value)
                    \/ \E period \in Periods : SetTimeout(r, period)

Step == PinMode \/ StoreState \/ Write \/ StoreTimeout \/ StoreTimer \/ TimerStored

RelayNext == (\E r \in Relays : Construct(r)) \/ Message \/ Step \/ ProcessTimer \/ Reset

RelaySpec == RelayInit /\ [][RelayNext]_relayVars
-----------------------------------------------------------------------------
(* Properties *)

(* Between calls the time-out that runs is over within the ticks that were *)
(* asked for last, rounded up to whole lower bytes: an interrupt that      *)
(* splits a store costs no more, also one that borrows from a byte not yet *)
(* stored, or runs out on half of a time-out (Relay.cpp:42-55, 72-85).     *)
RunsOut == \A r \in Relays : InCall(r) \/ running[r] < Upper(timeout[r]) + Bytes

(* Defines.h:9 gives a siren a time-out of 180 s: once it has run out, the *)
(* siren is silent until the next message for it.                          *)
TimeoutSilences == \A r \in expired : InCall(r) \/ pin[r] = Off
=============================================================================
