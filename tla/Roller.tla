-------------------------------- MODULE Roller --------------------------------
(***************************************************************************)
(* Class roller (src/libraries/Common/RollerLib/Roller.{h,cpp}): a blind   *)
(* motor behind two active-low relays, driven from two contexts.           *)
(*                                                                         *)
(*   - the main loop calls the constructor, up(), down() and stop(); a     *)
(*     call takes several steps, between which the timer interrupt may run *)
(*   - the timer interrupt calls checkTimeout() of every roller; it is not *)
(*     preempted, so it is one step (Tick)                                 *)
(*                                                                         *)
(* No field is volatile and no section is guarded.  The main loop makes    *)
(* one call at a time: pc, cur and op are its position in that call.       *)
(***************************************************************************)
EXTENDS Integers

CONSTANTS
  Rollers,       \* the roller objects of a controller
  Timeout,       \* ctor argument timeout_set, in timer ticks
  HandlerTicks,  \* most interrupts that hit one call of up(), down(), stop()
  ULongMax       \* greatest value of an unsigned long: 2^32 - 1

(* A call lasts microseconds and a tick 3 or 100 ms, while the time-outs   *)
(* are 10000 and 300 ticks: a reload outlives the call that made it.       *)
ASSUME RollerAssumption ==
  /\ Rollers # {}
  /\ HandlerTicks \in Nat
  /\ Timeout \in Nat /\ Timeout > HandlerTicks
  /\ ULongMax \in Nat /\ ULongMax >= Timeout

ROLLER_ON   == "on"
ROLLER_OFF  == "off"
ROLLER_UP   == "up"
ROLLER_DOWN == "down"

Level     == {ROLLER_ON, ROLLER_OFF}
Direction == {ROLLER_UP, ROLLER_DOWN}
Op        == {"ctor", "up", "down", "stop"}
Location  == {"idle", "modeUp", "modeDown", "reload", "decide", "pinUp", "pinDown"}

VARIABLES
  state,         \* m_state
  direction,     \* m_direction
  timer,         \* m_timeout_timer
  pinUp,         \* what the relay on m_pin_up sees: on = driven low
  pinDown,       \* the same for m_pin_down
  constructed,   \* rollers whose constructor has returned
  pc, cur, op,   \* the call in progress: position, object, method
  ticks,         \* interrupts since that call began (bounds HandlerTicks)
  age            \* history: ticks since the last up() or down() on a roller

fieldVars == <<state, direction, timer>>
pinVars   == <<pinUp, pinDown>>
callVars  == <<pc, cur, op, ticks>>
vars      == <<fieldVars, pinVars, constructed, callVars, age>>

(* Longest time a relay may stay energised after a command, see DriveBound *)
MaxDrive == Timeout + 2 * HandlerTicks

TypeOK ==
  /\ state \in [Rollers -> Level]
  /\ direction \in [Rollers -> Direction]
  /\ timer \in [Rollers -> 0 .. ULongMax]
  /\ pinUp \in [Rollers -> Level]
  /\ pinDown \in [Rollers -> Level]
  /\ constructed \subseteq Rollers
  /\ pc \in Location /\ cur \in Rollers /\ op \in Op
  /\ ticks \in 0 .. HandlerTicks
  /\ age \in [Rollers -> 0 .. MaxDrive]

-----------------------------------------------------------------------------
(* After a reset the objects are zeroed memory, where 0 is ROLLER_ON and   *)
(* ROLLER_DOWN, and the pins are inputs, which a relay board reads as off. *)
Init ==
  /\ state = [r \in Rollers |-> ROLLER_ON]
  /\ direction = [r \in Rollers |-> ROLLER_DOWN]
  /\ timer = [r \in Rollers |-> 0]
  /\ pinUp = [r \in Rollers |-> ROLLER_OFF]
  /\ pinDown = [r \in Rollers |-> ROLLER_OFF]
  /\ constructed = {}
  /\ pc = "idle" /\ cur \in Rollers /\ op = "ctor"
  /\ ticks = 0
  /\ age = [r \in Rollers |-> MaxDrive]

(* The main loop enters a method of roller r.                              *)
Enter(r, method, location) ==
  /\ pc = "idle"
  /\ pc' = location /\ cur' = r /\ op' = method
  /\ ticks' = 0

(* Constructor: m_state first, then both pins become outputs while their   *)
(* latches still hold 0, and only then are they driven off.                *)
Construct(r) ==
  /\ r \notin constructed
  /\ Enter(r, "ctor", "modeUp")
  /\ state' = [state EXCEPT ![r] = ROLLER_OFF]
  /\ UNCHANGED <<direction, timer, pinVars, constructed, age>>

ModeUp ==
  /\ pc = "modeUp" /\ pc' = "modeDown"
  /\ pinUp' = [pinUp EXCEPT ![cur] = ROLLER_ON]
  /\ UNCHANGED <<fieldVars, pinDown, constructed, cur, op, ticks, age>>

ModeDown ==
  /\ pc = "modeDown" /\ pc' = "pinUp"
  /\ pinDown' = [pinDown EXCEPT ![cur] = ROLLER_ON]
  /\ UNCHANGED <<fieldVars, pinUp, constructed, cur, op, ticks, age>>

Up(r)   == r \in constructed /\ Enter(r, "up", "reload")
           /\ UNCHANGED <<fieldVars, pinVars, constructed, age>>
Down(r) == r \in constructed /\ Enter(r, "down", "reload")
           /\ UNCHANGED <<fieldVars, pinVars, constructed, age>>
Stop(r) == r \in constructed /\ Enter(r, "stop", "decide")
           /\ UNCHANGED <<fieldVars, pinVars, constructed, age>>

(* up() and down() re-arm the time-out before they look at anything else.  *)
Reload ==
  /\ pc = "reload" /\ pc' = "decide"
  /\ timer' = [timer EXCEPT ![cur] = Timeout]
  /\ age' = [age EXCEPT ![cur] = 0]
  /\ UNCHANGED <<state, direction, pinVars, constructed, cur, op, ticks>>

(* What the call has to do: nothing when the roller already moves that     *)
(* way, or when stop() finds it stopped.                                   *)
Settled ==
  IF op = "stop" THEN state[cur] = ROLLER_OFF
                 ELSE state[cur] = ROLLER_ON /\ direction[cur] = op

Decide ==
  /\ pc = "decide"
  /\ IF Settled
       THEN pc' = "idle" /\ UNCHANGED <<state, direction>>
       ELSE /\ pc' = "pinUp"
            /\ state' = [state EXCEPT ![cur] = IF op = "stop" THEN ROLLER_OFF ELSE ROLLER_ON]
            /\ direction' = [direction EXCEPT ![cur] = IF op = "stop" THEN @ ELSE op]
  /\ UNCHANGED <<timer, pinVars, constructed, cur, op, ticks, age>>

(* Mutant: a method sets its own relay and forgets the opposite one.       *)
MutantWritten(method) ==
  IF op = method THEN {ROLLER_ON, state[cur]}
  ELSE IF op \in {"stop", "ctor"} THEN {ROLLER_OFF}
  ELSE {IF method = "up" THEN pinUp[cur] ELSE pinDown[cur]}

(* digitalWrite(pin, m_state) of a plain field: the build may pass the     *)
(* value just stored or load it again after an interrupt.                  *)
Written(method) == IF op = method THEN {ROLLER_ON, state[cur]} ELSE {ROLLER_OFF}

(* up(), down(), stop() and the constructor all write the up pin first.    *)
WriteUp ==
  /\ pc = "pinUp" /\ pc' = "pinDown"
  /\ \E level \in Written("up") : pinUp' = [pinUp EXCEPT ![cur] = level]
  /\ UNCHANGED <<fieldVars, pinDown, constructed, cur, op, ticks, age>>

(* Mutant: stop() releases the up relay only.                              *)
MutantWriteDown ==
  /\ pc = "pinDown" /\ pc' = "idle"
  /\ \E level \in Written("down") :
       pinDown' = [pinDown EXCEPT ![cur] = IF op = "stop" THEN @ ELSE level]
  /\ constructed' = IF op = "ctor" THEN constructed \union {cur} ELSE constructed
  /\ UNCHANGED <<fieldVars, pinUp, cur, op, ticks, age>>

WriteDown ==
  /\ pc = "pinDown" /\ pc' = "idle"
  /\ \E level \in Written("down") : pinDown' = [pinDown EXCEPT ![cur] = level]
  /\ constructed' = IF op = "ctor" THEN constructed \union {cur} ELSE constructed
  /\ UNCHANGED <<fieldVars, pinUp, cur, op, ticks, age>>

-----------------------------------------------------------------------------
(* checkTimeout() of every roller, from the timer interrupt.  The test     *)
(* <= 0 of an unsigned counter is a test for 0, and 0 decrements to the    *)
(* greatest value.                                                         *)
Decremented(t) == IF t = 0 THEN ULongMax ELSE t - 1

(* Mutant: < 0 for <= 0, which an unsigned counter never is.               *)
MutantExpiredNever(r) == state[r] = ROLLER_ON /\ Decremented(timer[r]) < 0

Expired(r) == state[r] = ROLLER_ON /\ Decremented(timer[r]) = 0

(* Mutant: the time-out clears m_state but releases the up relay only.     *)
MutantCheckTimeout ==
  /\ timer' = [r \in Rollers |->
                 IF state[r] = ROLLER_ON THEN Decremented(timer[r]) ELSE timer[r]]
  /\ state' = [r \in Rollers |-> IF Expired(r) THEN ROLLER_OFF ELSE state[r]]
  /\ pinUp' = [r \in Rollers |-> IF Expired(r) THEN ROLLER_OFF ELSE pinUp[r]]
  /\ UNCHANGED <<direction, pinDown>>

CheckTimeout ==
  /\ timer' = [r \in Rollers |->
                 IF state[r] = ROLLER_ON THEN Decremented(timer[r]) ELSE timer[r]]
  /\ state' = [r \in Rollers |-> IF Expired(r) THEN ROLLER_OFF ELSE state[r]]
  /\ pinUp' = [r \in Rollers |-> IF Expired(r) THEN ROLLER_OFF ELSE pinUp[r]]
  /\ pinDown' = [r \in Rollers |-> IF Expired(r) THEN ROLLER_OFF ELSE pinDown[r]]
  /\ UNCHANGED direction

(* The interrupt is attached in setup(), after every constructor.          *)
Tick ==
  /\ constructed = Rollers
  /\ pc # "idle" => ticks < HandlerTicks
  /\ CheckTimeout
  /\ ticks' = IF pc = "idle" THEN 0 ELSE ticks + 1
  /\ age' = [r \in Rollers |-> IF age[r] < MaxDrive THEN age[r] + 1 ELSE MaxDrive]
  /\ UNCHANGED <<constructed, pc, cur, op>>

(* Power loss or the watchdog (wdt_enable(WDTO_4S) in setup()).            *)
Reset ==
  /\ state' = [r \in Rollers |-> ROLLER_ON]
  /\ direction' = [r \in Rollers |-> ROLLER_DOWN]
  /\ timer' = [r \in Rollers |-> 0]
  /\ pinUp' = [r \in Rollers |-> ROLLER_OFF]
  /\ pinDown' = [r \in Rollers |-> ROLLER_OFF]
  /\ constructed' = {}
  /\ pc' = "idle" /\ op' = "ctor" /\ ticks' = 0
  /\ age' = [r \in Rollers |-> MaxDrive]
  /\ UNCHANGED cur

Call == \E r \in Rollers : Construct(r) \/ Up(r) \/ Down(r) \/ Stop(r)

Step == ModeUp \/ ModeDown \/ Reload \/ Decide \/ WriteUp \/ WriteDown

Next == Call \/ Step \/ Tick \/ Reset

(* A call runs to its end and the timer keeps interrupting.                *)
Fairness == WF_vars(Step) /\ WF_vars(Tick)

Spec     == Init /\ [][Next]_vars
FairSpec == Spec /\ Fairness
-----------------------------------------------------------------------------
(* Properties *)

Settling(r) == pc # "idle" /\ cur = r

PinsOff(r) == pinUp[r] = ROLLER_OFF /\ pinDown[r] = ROLLER_OFF

PinsShow(r) ==
  IF state[r] = ROLLER_OFF THEN PinsOff(r)
  ELSE /\ pinUp[r]   = (IF direction[r] = ROLLER_UP THEN ROLLER_ON ELSE ROLLER_OFF)
       /\ pinDown[r] = (IF direction[r] = ROLLER_UP THEN ROLLER_OFF ELSE ROLLER_ON)

(* Between calls the relays are what the fields say, whatever the timer    *)
(* interrupt did in the middle of the last call.                           *)
FieldsMatchPins == \A r \in constructed : ~Settling(r) => PinsShow(r)

(* Both relays of a motor are energised together only while up() reverses  *)
(* a descending blind, between its two digitalWrite (Roller.cpp:31-32),    *)
(* and while the constructor has made outputs of the pins but not yet      *)
(* driven them off (Roller.cpp:18-19).                                     *)
Interlock ==
  \A r \in Rollers :
    pinUp[r] = ROLLER_ON /\ pinDown[r] = ROLLER_ON =>
      /\ cur = r
      /\ \/ op = "up" /\ pc = "pinDown"
         \/ op = "ctor" /\ pc = "pinUp"

(* A roller that counts as moving always has a time-out to run, so the     *)
(* unsigned decrement in checkTimeout() never wraps.                       *)
Armed == \A r \in constructed : state[r] = ROLLER_ON => timer[r] \in 1 .. Timeout

(* No relay stays energised once MaxDrive ticks have passed since the last *)
(* up() or down(): Timeout, plus the ticks between the reload and the      *)
(* store to m_state, plus the ticks between stop()'s store to m_state and  *)
(* its last digitalWrite.                                                  *)
DriveBound == \A r \in constructed : age[r] = MaxDrive => PinsOff(r)

(* Once all rollers stand and nobody commands them any more, every relay   *)
(* ends up off.                                                            *)
Quiet ==
  <>[][~\E r \in Rollers : Up(r) \/ Down(r)]_vars /\ <>[](constructed = Rollers)
EventuallyOff == Quiet => <>[](\A r \in Rollers : PinsOff(r))

(* The relays, from the constructor's return on, behave as RollerMotor.    *)
DriveOf(r) ==
  IF r \notin constructed \/ PinsOff(r) THEN "stopped"
  ELSE IF pinDown[r] = ROLLER_OFF THEN "up"
  ELSE IF pinUp[r] = ROLLER_OFF THEN "down"
  ELSE "both"

Motor == INSTANCE RollerMotor WITH drive <- [r \in Rollers |-> DriveOf(r)]
MotorSpec == Motor!Spec
=============================================================================
