----------------------------- MODULE RollerSwitch -----------------------------
(***************************************************************************)
(* The wall switch that drives one blind by itself                         *)
(* (Arduino/Przycisk_rolet_v2.0_NRF24L01): two push buttons, two active-   *)
(* low relays, and a timer interrupt that counts the run time and delays   *)
(* every change of the relays.                                             *)
(*                                                                         *)
(* loop() samples the buttons in one pass and acts in the next; it shares  *)
(* targetRollerState and two multi-byte counters with the interrupt, with  *)
(* no section guarded.  The interrupt is one step (Tick); loop() takes a   *)
(* step for each access to a shared variable, and pc is its position.      *)
(***************************************************************************)
EXTENDS Integers

CONSTANTS
  RollerTimeout,   \* ticks the blind may run
  ButtonTimeout,   \* ticks a short press may last
  RelayDelay,      \* relayCount at which a change of target takes effect
  Byte,            \* values of a byte: the processor stores and loads bytes
  HandlerTicks     \* most interrupts that hit one call of setRollerOutput()

(* 30000 is 0x7530 and 5000 is 0x1388: the low byte of either outlives the *)
(* microseconds in which the other bytes are stored.                       *)
ASSUME SwitchAssumption ==
  /\ HandlerTicks \in Nat /\ RelayDelay \in Nat \ {0}
  /\ Byte \in Nat \ {0, 1}
  /\ RollerTimeout \in Nat /\ RollerTimeout % Byte > HandlerTicks
  /\ ButtonTimeout \in Nat /\ ButtonTimeout % Byte > 0
  /\ RollerTimeout > RelayDelay + HandlerTicks

VARIABLES
  target, current,           \* targetRollerState, currentRollerState
  relays,                    \* PORTD: the relays held on
  rollerTimer, buttonTimer,
  relayCount,
  pressed,                   \* the buttons held down
  new, last,                 \* newSwitch*, lastSwitch*: samples of pressed
  input,                     \* globalInput
  pc,
  ticks,                     \* interrupts since setRollerOutput() began
  was,                       \* history: target when setRollerOutput() read it
  age, lag                   \* history: ticks since the last start, and since
                             \* target last changed

rollerVars == <<target, current, relays, rollerTimer, relayCount>>
buttonVars == <<buttonTimer, pressed, new, last, input>>
historyVars == <<was, age, lag>>
vars == <<rollerVars, buttonVars, pc, ticks, historyVars>>

Button      == {"up", "down"}
RollerState == {"none", "stop"} \union Button
Long        == {"upLong", "downLong", "bothLong"}
Input       == {"none", "both"} \union Button \union Long

Setup   == {"attached", "upOutput", "downOutput"}
Check   == {"readUp", "readDown", "judgeUp", "judgeDown", "judgeLong"}
Respond == {"startLow", "startHigh", "move", "stop", "stopLow", "stopHigh", "clear"}

(* A change of target reaches the relays within LastCount ticks, so that a *)
(* run lasts at most two of those and a time-out; see RunBound.            *)
LastCount == RelayDelay + 1
MaxRun    == RollerTimeout + LastCount + RelayDelay

TypeOK ==
  /\ target \in RollerState \ {"none"} /\ current \in RollerState
  /\ relays \subseteq Button
  /\ rollerTimer \in 0 .. RollerTimeout + Byte
  /\ buttonTimer \in 0 .. ButtonTimeout
  /\ relayCount \in 0 .. RelayDelay
  /\ pressed \subseteq Button /\ new \subseteq Button /\ last \subseteq Button
  /\ input \in Input
  /\ pc \in {"loop", "send"} \union Setup \union Check \union Respond
  /\ ticks \in 0 .. HandlerTicks
  /\ was \in RollerState
  /\ age \in 0 .. MaxRun /\ lag \in 0 .. LastCount

-----------------------------------------------------------------------------
Init ==
  /\ target = "stop" /\ current = "none" /\ relays = {}
  /\ rollerTimer = 0 /\ buttonTimer = 0 /\ relayCount = 0
  /\ pressed = {} /\ new = {} /\ last = {} /\ input = "none"
  /\ pc = "attached" /\ ticks = 0
  /\ was = "none" /\ age = MaxRun /\ lag = 0

Goto(from, to) == pc = from /\ pc' = to

(* setup(): the interrupt runs already; each pin becomes an output while   *)
(* its latch still holds 0, which is "on", until RollerStop().             *)
UpOutput ==
  /\ Goto("attached", "upOutput")
  /\ relays' = relays \union {"up"}
  /\ UNCHANGED <<target, current, rollerTimer, relayCount, buttonVars, ticks, historyVars>>

DownOutput ==
  /\ Goto("upOutput", "downOutput")
  /\ relays' = relays \union {"down"}
  /\ UNCHANGED <<target, current, rollerTimer, relayCount, buttonVars, ticks, historyVars>>

(* RollerUp(), RollerDown() and RollerStop() release the opposite relay    *)
(* before they draw one.                                                   *)
Drawn(state) == {state} \ {"stop"}

RollerStop ==
  /\ Goto("downOutput", "loop")
  /\ relays' = Drawn("stop") /\ current' = "stop"
  /\ UNCHANGED <<target, rollerTimer, relayCount, buttonVars, ticks, historyVars>>

-----------------------------------------------------------------------------
(* CheckButton(), when no input waits: two digitalRead ...                 *)
Loop ==
  /\ input = "none" /\ Goto("loop", "readUp")
  /\ UNCHANGED <<rollerVars, buttonVars, ticks, historyVars>>

Read(b) ==
  /\ new' = (IF b \in pressed THEN new \union {b} ELSE new \ {b})
  /\ UNCHANGED <<rollerVars, buttonTimer, pressed, last, input, ticks, historyVars>>

ReadUp   == Goto("readUp", "readDown") /\ Read("up")
ReadDown == Goto("readDown", "judgeUp") /\ Read("down")

(* ... a press starts the time both buttons share, and a release within it *)
(* is an input.  The four bytes of ButtonTimer are loaded one by one from  *)
(* the lowest: a tick that borrows from the second byte makes it look 0.   *)
ReadsZero    == buttonTimer = 0 \/ buttonTimer = Byte - 1
ReadsNonzero == buttonTimer # 0

Judge(b) ==
  \/ /\ b \in new \ last
     /\ buttonTimer' = ButtonTimeout /\ UNCHANGED input
  \/ /\ b \in last \ new /\ ReadsNonzero
     /\ input' = (IF input = "none" THEN b ELSE "both")
     /\ UNCHANGED buttonTimer
  \/ /\ b \notin new \ last
     /\ b \in last => b \in new \/ ReadsZero
     /\ UNCHANGED <<buttonTimer, input>>

JudgeUp ==
  /\ Goto("judgeUp", "judgeDown") /\ Judge("up")
  /\ UNCHANGED <<rollerVars, pressed, new, last, ticks, historyVars>>

JudgeDown ==
  /\ Goto("judgeDown", "judgeLong") /\ Judge("down")
  /\ UNCHANGED <<rollerVars, pressed, new, last, ticks, historyVars>>

(* ... and a button still held after that time is a long press.            *)
LongInput ==
  IF new = Button THEN "bothLong"
  ELSE IF "up" \in new THEN "upLong"
  ELSE IF "down" \in new THEN "downLong"
  ELSE input

JudgeLong ==
  /\ Goto("judgeLong", "loop")
  /\ \/ ReadsZero /\ input' = LongInput
     \/ ReadsNonzero /\ UNCHANGED input
  /\ last' = new
  /\ UNCHANGED <<rollerVars, buttonTimer, pressed, new, ticks, historyVars>>

-----------------------------------------------------------------------------
(* Mutant: the relays, not the intention, decide what a press means.       *)
MutantObey ==
  /\ pc = "loop" /\ input # "none"
  /\ pc' = (IF input \in Long THEN "send"
            ELSE IF input \in Button /\ current = "stop" THEN "startLow"
            ELSE "stop")
  /\ was' = target /\ ticks' = 0
  /\ UNCHANGED <<rollerVars, buttonVars, age, lag>>

(* setRollerOutput() with the input of the pass before.  A long press is   *)
(* broadcast and moves nothing; one button starts a blind that is meant to *)
(* stand and stops one that is meant to move; both buttons stop.           *)
Obey ==
  /\ pc = "loop" /\ input # "none"
  /\ pc' = (IF input \in Long THEN "send"
            ELSE IF input \in Button /\ target = "stop" THEN "startLow"
            ELSE "stop")
  /\ was' = target /\ ticks' = 0
  /\ UNCHANGED <<rollerVars, buttonVars, age, lag>>

Low(n)  == n % Byte
High(n) == n - Low(n)

(* SendMqttMsg() of a constant; the radio may take many ticks.             *)
SendMqttMsg ==
  /\ Goto("send", "clear")
  /\ UNCHANGED <<rollerVars, buttonVars, ticks, historyVars>>

(* A store of RollerTimer writes its bytes from the lowest up, too.        *)
Store(from, to, value) ==
  /\ Goto(from, to)
  /\ rollerTimer' = value
  /\ UNCHANGED <<target, current, relays, relayCount, buttonVars, ticks, historyVars>>

StartLow  == Store("startLow", "startHigh", High(rollerTimer) + Low(RollerTimeout))
StartHigh == Store("startHigh", "move", High(RollerTimeout) + Low(rollerTimer))

Move ==
  /\ Goto("move", "clear")
  /\ target' = input /\ age' = 0 /\ lag' = 0
  /\ UNCHANGED <<current, relays, rollerTimer, relayCount, buttonVars, ticks, was>>

SetStop ==
  /\ Goto("stop", "stopLow")
  /\ target' = "stop" /\ lag' = (IF target = "stop" THEN lag ELSE 0)
  /\ UNCHANGED <<current, relays, rollerTimer, relayCount, buttonVars, ticks, was, age>>

StopLow  == Store("stopLow", "stopHigh", High(rollerTimer))
StopHigh == Store("stopHigh", "clear", Low(rollerTimer))

Clear ==
  /\ Goto("clear", "loop")
  /\ input' = "none"
  /\ UNCHANGED <<rollerVars, buttonTimer, pressed, new, last, ticks, historyVars>>

-----------------------------------------------------------------------------
(* TimerLoop(): ProcessRollerTimer(), ProcessRelayDelay(),                 *)
(* ProcessButtonTimer().                                                   *)
Decremented(n) == IF n = 0 THEN 0 ELSE n - 1

(* Mutant: the timer is tested before it is decremented, and 0 is "off".   *)
MutantExpires == rollerTimer < 0

Expires == rollerTimer = 1

(* Mutant: one count too many.                                             *)
MutantCounted == relayCount > RelayDelay

Counted == relayCount >= RelayDelay

(* Mutant: ProcessRelayDelay() leaves the run time to setRollerOutput().   *)
MutantRunTime(state) == IF state = "stop" THEN 0 ELSE Decremented(rollerTimer)

(* The run time is set again when the relays change.                       *)
RunTime(state) == IF state = "stop" THEN 0 ELSE RollerTimeout

ProcessRelayDelay(state) ==
  \/ /\ current = state
     /\ rollerTimer' = Decremented(rollerTimer)
     /\ UNCHANGED <<current, relays, relayCount>>
  \/ /\ current # state /\ ~Counted
     /\ relayCount' = relayCount + 1
     /\ rollerTimer' = Decremented(rollerTimer)
     /\ UNCHANGED <<current, relays>>
  \/ /\ current # state /\ Counted
     /\ relayCount' = 0
     /\ current' = state /\ relays' = Drawn(state)
     /\ rollerTimer' = RunTime(state)

Tick ==
  /\ pc \in Setup \union Respond => ticks < HandlerTicks
  /\ target' = (IF Expires THEN "stop" ELSE target)
  /\ ProcessRelayDelay(target')
  /\ buttonTimer' = Decremented(buttonTimer)
  /\ ticks' = (IF pc \in Setup \union Respond THEN ticks + 1 ELSE 0)
  /\ age' = (IF age < MaxRun THEN age + 1 ELSE MaxRun)
  /\ lag' = (IF target' # target THEN 1 ELSE IF lag < LastCount THEN lag + 1 ELSE LastCount)
  /\ UNCHANGED <<pressed, new, last, input, pc, was>>

(* A hand on a button; a bouncing contact is several of these.             *)
Touch(b) ==
  /\ pressed' = (IF b \in pressed THEN pressed \ {b} ELSE pressed \union {b})
  /\ UNCHANGED <<rollerVars, buttonTimer, new, last, input, pc, ticks, historyVars>>

(* Power loss, or the watchdog of one second.                              *)
Reset ==
  /\ target' = "stop" /\ current' = "none" /\ relays' = {}
  /\ rollerTimer' = 0 /\ buttonTimer' = 0 /\ relayCount' = 0
  /\ new' = {} /\ last' = {} /\ input' = "none"
  /\ pc' = "attached" /\ ticks' = 0
  /\ was' = "none" /\ age' = MaxRun /\ lag' = 0
  /\ UNCHANGED pressed

CheckButton     == Loop \/ ReadUp \/ ReadDown \/ JudgeUp \/ JudgeDown \/ JudgeLong
SetRollerOutput == Obey \/ SendMqttMsg \/ StartLow \/ StartHigh \/ Move \/ SetStop \/ StopLow \/ StopHigh \/ Clear

Main == UpOutput \/ DownOutput \/ RollerStop \/ CheckButton \/ SetRollerOutput

Hand == \E b \in Button : Touch(b)

Next == Main \/ Tick \/ Hand \/ Reset

Spec     == Init /\ [][Next]_vars

(* loop() is called for ever and the timer is periodic.                    *)
FairSpec == Spec /\ WF_vars(Main) /\ WF_vars(Tick)
-----------------------------------------------------------------------------
(* Properties *)

Started == pc \notin Setup

(* The relays are those of currentRollerState, so that never both are on   *)
(* once setup() has passed; and the delayed change always arrives: when    *)
(* target has stood for relayCount's six ticks, the relays follow it,      *)
(* although relayCount keeps its value from one change to the next         *)
(* (ino:223-252).                                                          *)
RelaysFollow ==
  Started => /\ relays = Drawn(current)
             /\ lag = LastCount => current = target

(* However presses, time-outs and the delayed relays interleave, a blind   *)
(* runs at most RollerTimeout and two delays after it was started.         *)
RunBound == Started /\ age = MaxRun => relays = {}

(* A blind meant to move, and moving, has run time left: main's stores to  *)
(* RollerTimer and those of ProcessRelayDelay() never leave it at 0.       *)
Armed == Started /\ target # "stop" => rollerTimer > 0 \/ current # target

(* A short press stops a blind that is meant to move and starts one that   *)
(* is not, also when the interrupt splits the two stores of                *)
(* setRollerOutput(), or RollerTimer was left torn by an earlier one.      *)
Toggles ==
  [][pc = "clear" /\ pc' = "loop" /\ input \in Button =>
       target = IF was = "stop" THEN input ELSE "stop"]_vars

(* Once nobody touches the buttons, even one that is held, the blind stops *)
(* for good.                                                               *)
EventuallyStops == <>[][~Hand]_vars => <>[](Started => relays = {})
-----------------------------------------------------------------------------
(* The inductive invariant behind RelaysFollow, RunBound, Armed, Toggles.  *)

Starting == {"startLow", "startHigh", "move"}
Stopping == {"stop", "stopLow", "stopHigh"}

(* What setRollerOutput() has decided, and that the interrupt, which only  *)
(* ever stops, cannot change before it is carried out.                     *)
CallShape ==
  /\ pc \in Setup => target = "stop" /\ rollerTimer = 0
  /\ Started => current # "none" /\ relays = Drawn(current)
  /\ pc \in Starting => target = "stop" /\ was = "stop" /\ input \in Button
  /\ pc \in Stopping => (input \in Button => was # "stop")
  /\ pc \in {"stopLow", "stopHigh"} => target = "stop"
  /\ pc = "send" => input \in Long
  /\ pc = "clear" /\ input \in Button =>
       IF was = "stop" THEN target = input ELSE target = "stop"

(* While the relays differ from target every tick is counted.              *)
Delaying == current # target => lag <= relayCount

(* No more ticks than the call may see are missing from a time-out: from   *)
(* its low byte, once that is stored, and from all of it after that; or    *)
(* the interrupt has just released the relays and cleared the timer.       *)
Cleared == rollerTimer = 0 /\ current # input
Stored ==
  /\ pc = "startHigh" =>
       Cleared \/ Low(rollerTimer) \in Low(RollerTimeout) - ticks .. Low(RollerTimeout)
  /\ pc = "move" \/ (pc = "clear" /\ input \in Button /\ was = "stop") =>
       Cleared \/ rollerTimer \in Low(RollerTimeout) - ticks .. RollerTimeout

(* What is left of a run, before and after the relays have followed, and   *)
(* what is left of the delay after its end.                                *)
Lasting ==
  Started =>
    IF target # "stop"
      THEN IF current = target THEN age + rollerTimer <= RollerTimeout + LastCount
                               ELSE age <= lag
      ELSE current # "stop" => age < RollerTimeout + LastCount + lag

SwitchInv ==
  /\ TypeOK /\ rollerTimer <= RollerTimeout
  /\ CallShape /\ Delaying /\ Stored /\ Lasting /\ Armed
=============================================================================
