----------------------------- MODULE RollerProofs -----------------------------
(***************************************************************************)
(* Proofs about modules Roller and RollerController, for any set and table *)
(* of rollers, any assignment of topics and any time-out longer than a     *)
(* call: first class roller by itself, then the controller, which is shown *)
(* to use it as the class allows and so inherits what holds of it.         *)
(***************************************************************************)
EXTENDS RollerController, TLAPS

-----------------------------------------------------------------------------
(* The inductive invariant behind the safety properties: where each call   *)
(* stands, and how much of the time-out is left there.                     *)
InCall == pc # "idle"
Driving == op \in {"up", "down"} /\ pc \in {"decide", "pinUp", "pinDown"}

(* Which method may be at which position, and on which object.             *)
CallShape ==
  InCall =>
    /\ (op = "ctor") = (cur \notin constructed)
    /\ pc \in {"modeUp", "modeDown"} => op = "ctor"
    /\ pc = "reload" => op \in {"up", "down"}
    /\ pc = "decide" => op # "ctor"

(* The two relays of the roller in the call, position by position.         *)
PinsInCall ==
  /\ pc = "modeUp" => PinsOff(cur)
  /\ pc = "modeDown" => pinUp[cur] = ROLLER_ON /\ pinDown[cur] = ROLLER_OFF
  /\ pc \in {"reload", "decide"} => PinsShow(cur)
  /\ pc = "pinUp" =>
       /\ op = "up" => pinUp[cur] = ROLLER_OFF
       /\ op = "down" => pinDown[cur] = ROLLER_OFF
       /\ op = "stop" => ~(pinUp[cur] = ROLLER_ON /\ pinDown[cur] = ROLLER_ON)
  /\ pc = "pinDown" =>
       /\ pinUp[cur] = (IF op = "up" THEN ROLLER_ON ELSE ROLLER_OFF)
       /\ op = "down" => pinDown[cur] = ROLLER_OFF

(* The fields once the call has stored them.                               *)
FieldsInCall ==
  pc \in {"modeUp", "modeDown", "pinUp", "pinDown"} =>
    IF op \in {"up", "down"} THEN state[cur] = ROLLER_ON /\ direction[cur] = op
                             ELSE state[cur] = ROLLER_OFF

(* A reload in this call still has all but the call's own ticks to run.    *)
Fresh == Driving => /\ timer[cur] \in Timeout - ticks .. Timeout
                    /\ age[cur] <= ticks

Budget == \A r \in constructed :
            state[r] = ROLLER_ON => timer[r] + age[r] <= Timeout + HandlerTicks

Stopping == op = "stop" /\ pc \in {"pinUp", "pinDown"} =>
              PinsOff(cur) \/ age[cur] < Timeout + HandlerTicks + ticks

Unbuilt == \A r \in Rollers \ constructed : ~Settling(r) => PinsOff(r)

IInv ==
  /\ TypeOK
  /\ CallShape /\ PinsInCall /\ FieldsInCall
  /\ FieldsMatchPins /\ Unbuilt
  /\ Armed /\ Fresh /\ Budget /\ Stopping

(* The inductive invariant behind LastMessageWins and OfflineStops.        *)

(* The roller at table position k has been reached by the running loop.    *)
Passed(k) == k < i

(* Objects are built in table order, and used only when all are built.     *)
Building ==
  IF main = "construct"
    THEN /\ InCall => op = "ctor"
         /\ \A r \in Rollers : want[r] = "stop" /\ (r \in constructed => state[r] = ROLLER_OFF)
         /\ \A k \in 1 .. ROLLER_COUNT : Passed(k) =>
              \/ RollerTab[k] \in constructed
              \/ Settling(RollerTab[k])
    ELSE constructed = Rollers

(* Only the four loops over the table call a method.                       *)
Calling == main \in {"setup", "loop", "connect"} => ~InCall

(* allRollerOff() leaves a trail of stopped rollers.                       *)
Sweeping ==
  main = "offline" =>
    /\ InCall => op = "stop"
    /\ \A k \in 1 .. ROLLER_COUNT : Passed(k) =>
         \/ state[RollerTab[k]] = ROLLER_OFF
         \/ Settling(RollerTab[k]) /\ pc = "decide"

(* Rollers the current message, or the sweep, has still to reach.          *)
Pending(r) ==
  \/ main = "match" /\ topic = MQTT_ALL_ROLETS
  \/ /\ main = "match" /\ TopicOf[r] = topic
     /\ \E k \in 1 .. ROLLER_COUNT : RollerTab[k] = r /\ ~Passed(k)
  \/ main = "all" /\ \E k \in 1 .. ROLLER_COUNT : RollerTab[k] = r /\ ~Passed(k)
  \/ main = "offline"

(* Obeyed(r), in terms of the fields.                                      *)
Follows(r) ==
  IF want[r] = "stop" THEN state[r] = ROLLER_OFF
  ELSE IF state[r] = ROLLER_ON THEN direction[r] = want[r]
  ELSE timer[r] = 0

(* A roller in a call is being told what it was last told, and the rest of *)
(* those reached follow it.                                                *)
Obeying ==
  /\ main \in {"match", "all"} =>
       /\ InCall => op = want[cur]
       /\ \A r \in Rollers :
            TopicOf[r] = topic \/ topic = MQTT_ALL_ROLETS => want[r] = cmd
  /\ main # "construct" =>
       \A r \in Rollers : ~Pending(r) /\ ~Settling(r) => Follows(r)
  /\ main = "all" => topic = MQTT_ALL_ROLETS

CtrlInv ==
  /\ LoopTypeOK
  /\ Building /\ Calling /\ Sweeping /\ Obeying

-----------------------------------------------------------------------------
USE RollerAssumption DEF ROLLER_ON, ROLLER_OFF, ROLLER_UP, ROLLER_DOWN,
                         Level, Direction, Op, Location, MaxDrive

(* Every variable keeps its type, and a method is only ever at one of its  *)
(* own positions: Decide stores op into m_direction, so neither holds      *)
(* without the other.                                                      *)
LEMMA ShapeStep ==
  ASSUME TypeOK, CallShape, [Next]_vars
  PROVE  TypeOK' /\ CallShape'
<1> USE DEF TypeOK, CallShape, InCall, fieldVars, pinVars
<1>1. ASSUME NEW r \in Rollers, Construct(r) PROVE TypeOK' /\ CallShape'
  BY <1>1 DEF Construct, Enter
<1>2. ASSUME NEW r \in Rollers, Up(r) \/ Down(r) \/ Stop(r) PROVE TypeOK' /\ CallShape'
  BY <1>2 DEF Up, Down, Stop, Enter
<1>3. CASE ModeUp \/ ModeDown
  BY <1>3 DEF ModeUp, ModeDown
<1>4. CASE Reload
  BY <1>4 DEF Reload
<1>5. CASE Decide
  BY <1>5 DEF Decide, Settled
<1>6. CASE WriteUp
  BY <1>6 DEF WriteUp, Written
<1>7. CASE WriteDown
  BY <1>7 DEF WriteDown, Written
<1>8. CASE Tick
  BY <1>8 DEF Tick, CheckTimeout, Expired, Decremented
<1>9. CASE Reset
  BY <1>9 DEF Reset
<1>10. CASE UNCHANGED vars
  BY <1>10 DEF vars, callVars
<1>11. QED
  BY <1>1, <1>2, <1>3, <1>4, <1>5, <1>6, <1>7, <1>8, <1>9, <1>10 DEF Next, Call, Step


(* The parts of the invariant beyond the shape of the call.                *)
Parts == PinsInCall /\ FieldsInCall /\ FieldsMatchPins /\ Unbuilt
         /\ Armed /\ Fresh /\ Budget /\ Stopping

(* One action at a time: none disturbs the invariant.                      *)
LEMMA PartsStep ==
  ASSUME IInv, [Next]_vars, TypeOK', CallShape'
  PROVE  Parts'
<1> USE DEF IInv, Parts, TypeOK, CallShape, PinsInCall, FieldsInCall, FieldsMatchPins,
            Unbuilt, Armed, Fresh, Budget, Stopping, InCall, Driving,
            Settling, PinsShow, PinsOff, fieldVars, pinVars
<1>1. ASSUME NEW r \in Rollers, Construct(r) PROVE Parts'
  BY <1>1 DEF Construct, Enter
<1>2. ASSUME NEW r \in Rollers, Up(r) \/ Down(r) \/ Stop(r) PROVE Parts'
  BY <1>2 DEF Up, Down, Stop, Enter
<1>3. CASE ModeUp \/ ModeDown
  BY <1>3 DEF ModeUp, ModeDown
<1>4. CASE Reload
  BY <1>4 DEF Reload
<1>5. CASE Decide
  BY <1>5 DEF Decide, Settled
<1>6. CASE WriteUp
  BY <1>6 DEF WriteUp, Written
<1>7. CASE WriteDown
  BY <1>7 DEF WriteDown, Written
<1>8. CASE Tick
  BY <1>8 DEF Tick, CheckTimeout, Expired, Decremented
<1>9. CASE Reset
  BY <1>9 DEF Reset
<1>10. CASE UNCHANGED vars
  BY <1>10 DEF vars, callVars
<1>11. QED
  BY <1>1, <1>2, <1>3, <1>4, <1>5, <1>6, <1>7, <1>8, <1>9, <1>10 DEF Next, Call, Step

(* The invariant holds in every reachable state.                           *)
THEOREM Invariance == Spec => []IInv
<1>1. Init => IInv
  BY DEF Init, IInv, TypeOK, CallShape, PinsInCall, FieldsInCall, FieldsMatchPins, Unbuilt,
         Armed, Fresh, Budget, Stopping, InCall, Driving, Settling, PinsOff
<1>2. IInv /\ [Next]_vars => IInv'
  <2> SUFFICES ASSUME IInv, [Next]_vars PROVE IInv'
    OBVIOUS
  <2>1. TypeOK' /\ CallShape'
    BY ShapeStep DEF IInv
  <2>2. Parts'
    BY <2>1, PartsStep
  <2>3. QED
    BY <2>1, <2>2 DEF IInv, Parts
<1>3. QED
  BY <1>1, <1>2, PTL DEF Spec

(* Types are right in every reachable state.                               *)
THEOREM TypeCorrect == Spec => []TypeOK
<1>1. IInv => TypeOK
  BY DEF IInv
<1>2. QED
  BY <1>1, Invariance, PTL

(* Between calls the relays are what the fields say.                       *)
THEOREM PinsCorrect == Spec => []FieldsMatchPins
<1>1. IInv => FieldsMatchPins
  BY DEF IInv
<1>2. QED
  BY <1>1, Invariance, PTL

(* A moving roller has a time-out to run: the decrement never wraps.       *)
THEOREM AlwaysArmed == Spec => []Armed
<1>1. IInv => Armed
  BY DEF IInv
<1>2. QED
  BY <1>1, Invariance, PTL

(* Both relays of a motor are on only in the two windows of the code.      *)
LEMMA InterlockFromInv == IInv => Interlock
<1> SUFFICES ASSUME IInv, NEW r \in Rollers, pinUp[r] = ROLLER_ON, pinDown[r] = ROLLER_ON
             PROVE  /\ cur = r
                    /\ \/ op = "up" /\ pc = "pinDown"
                       \/ op = "ctor" /\ pc = "pinUp"
  BY DEF Interlock
<1> USE DEF IInv, TypeOK, PinsOff, PinsShow, Settling
<1>1. Settling(r)
  BY DEF FieldsMatchPins, Unbuilt
<1>2. QED
  BY <1>1 DEF PinsInCall, CallShape, InCall

THEOREM InterlockCorrect == Spec => []Interlock
<1>1. QED
  BY InterlockFromInv, Invariance, PTL

(* A relay that is on belongs to a roller that counts as moving, with      *)
(* budget left, or to one whose stop() is not finished.                    *)
LEMMA DriveBoundFromInv == IInv => DriveBound
<1> SUFFICES ASSUME IInv, NEW r \in constructed, age[r] = MaxDrive
             PROVE  PinsOff(r)
  BY DEF DriveBound
<1> USE DEF IInv, TypeOK
<1>1. state[r] = ROLLER_OFF
  BY DEF Armed, Budget
<1>2. CASE ~Settling(r)
  BY <1>1, <1>2 DEF FieldsMatchPins, PinsShow
<1>3. CASE Settling(r)
  BY <1>1, <1>3 DEF Settling, PinsInCall, FieldsInCall, Stopping, CallShape, InCall, PinsShow
<1>4. QED
  BY <1>2, <1>3

THEOREM DriveBounded == Spec => []DriveBound
<1>1. QED
  BY DriveBoundFromInv, Invariance, PTL

-----------------------------------------------------------------------------
(* Class roller implements RollerMotor: each step of the code is one step  *)
(* of the motor, or leaves what the motor sees alone.                      *)
Shown == [r \in Rollers |-> DriveOf(r)]

(* The relays of one roller change from one reading to another.            *)
LEMMA OneMoves ==
  ASSUME NEW r \in Rollers, UNCHANGED age,
         Shown' = [Shown EXCEPT ![r] = Shown'[r]],
         \/ Shown[r] = Shown'[r]
         \/ Shown[r] = "stopped" /\ Shown'[r] \in {"up", "down"} /\ age[r] < MaxDrive
         \/ Shown[r] \in {"up", "down"} /\ Shown'[r] = "stopped"
         \/ Shown[r] = "down" /\ Shown'[r] = "both"
         \/ Shown[r] = "both" /\ Shown'[r] = "up"
  PROVE  Motor!Next \/ UNCHANGED <<Shown, age>>
<1>1. CASE Shown[r] = Shown'[r]
  <2>1. Shown' = Shown
    BY <1>1 DEF Shown
  <2>2. QED
    BY <2>1
<1>2. CASE Shown[r] = "stopped" /\ Shown'[r] \in {"up", "down"} /\ age[r] < MaxDrive
  <2>1. Motor!Start(r)
    BY <1>2 DEF Motor!Start, Motor!Becomes, Shown
  <2>2. QED
    BY <2>1 DEF Motor!Next
<1>3. CASE Shown[r] \in {"up", "down"} /\ Shown'[r] = "stopped"
  <2>1. Motor!Halt(r)
    BY <1>3 DEF Motor!Halt, Motor!Becomes, Shown
  <2>2. QED
    BY <2>1 DEF Motor!Next
<1>4. CASE \/ Shown[r] = "down" /\ Shown'[r] = "both"
           \/ Shown[r] = "both" /\ Shown'[r] = "up"
  <2>1. Motor!Reverse(r)
    BY <1>4 DEF Motor!Reverse, Motor!Becomes, Shown
  <2>2. QED
    BY <2>1 DEF Motor!Next
<1>5. QED
  BY <1>1, <1>2, <1>3, <1>4

(* A step that leaves constructed and both pins alone shows nothing new.   *)
LEMMA Unseen == ASSUME UNCHANGED <<constructed, pinUp, pinDown>> PROVE Shown' = Shown
BY DEF Shown, DriveOf, PinsOff

(* Each step of the code, as the motor sees it.                            *)
LEMMA MotorStep ==
  ASSUME IInv, TypeOK', DriveBound', [Next]_vars
  PROVE  Motor!Next \/ UNCHANGED <<Shown, age>>
<1> USE DEF TypeOK, fieldVars, pinVars
<1>0. TypeOK /\ TypeOK'
  BY DEF IInv
<1>1. ASSUME NEW r \in Rollers, Construct(r) PROVE UNCHANGED <<Shown, age>>
  BY <1>1, Unseen DEF Construct
<1>2. ASSUME NEW r \in Rollers, Up(r) \/ Down(r) \/ Stop(r) PROVE UNCHANGED <<Shown, age>>
  BY <1>2, Unseen DEF Up, Down, Stop
<1>3. CASE ModeUp \/ ModeDown
  <2>1. cur \notin constructed
    BY <1>3 DEF ModeUp, ModeDown, IInv, CallShape, InCall
  <2>2. UNCHANGED <<Shown, age>>
    BY <1>0, <1>3, <2>1 DEF ModeUp, ModeDown, Shown, DriveOf, PinsOff
  <2>3. QED
    BY <2>2
<1>4. CASE Reload
  <2>1. Shown' = Shown
    BY <1>4, Unseen DEF Reload
  <2>2. Motor!Command(cur)
    BY <1>4, <2>1 DEF Reload, Motor!Command, Shown
  <2>3. QED
    BY <1>0, <2>2 DEF Motor!Next
<1>5. CASE Decide
  BY <1>5, Unseen DEF Decide
<1>6. CASE WriteUp
  <2> USE <1>0, <1>6 DEF WriteUp
  <2>1. CASE op = "ctor"
    <3>1. cur \notin constructed
      BY <2>1 DEF IInv, CallShape, InCall
    <3>2. UNCHANGED <<Shown, age>>
      BY <3>1 DEF Shown, DriveOf, PinsOff
    <3>3. QED
      BY <3>2
  <2>2. CASE op # "ctor"
    <3>1. cur \in constructed
      BY <2>2 DEF IInv, CallShape, InCall
    <3>2. Shown' = [Shown EXCEPT ![cur] = Shown'[cur]]
      BY ZenonT(60) DEF Shown, DriveOf, PinsOff
    <3>3. \/ Shown[cur] = Shown'[cur]
          \/ Shown[cur] = "stopped" /\ Shown'[cur] \in {"up", "down"} /\ age[cur] < MaxDrive
          \/ Shown[cur] \in {"up", "down"} /\ Shown'[cur] = "stopped"
          \/ Shown[cur] = "down" /\ Shown'[cur] = "both"
          \/ Shown[cur] = "both" /\ Shown'[cur] = "up"
      BY <2>2, <3>1 DEF Shown, DriveOf, PinsOff, Written, IInv, PinsInCall, FieldsInCall,
                        CallShape, InCall, Fresh, Driving
    <3>4. QED
      BY <1>0, <3>2, <3>3, OneMoves
  <2>3. QED
    BY <2>1, <2>2
<1>7. CASE WriteDown
  <2> USE <1>0, <1>7 DEF WriteDown
  <2>1. CASE op = "ctor"
    <3>1. cur \notin constructed /\ PinsOff(cur)'
      BY <2>1 DEF IInv, CallShape, InCall, PinsInCall, FieldsInCall, Written, PinsOff
    <3>2. UNCHANGED <<Shown, age>>
      BY <3>1 DEF Shown, DriveOf, PinsOff
    <3>3. QED
      BY <3>2
  <2>2. CASE op # "ctor"
    <3>1. cur \in constructed
      BY <2>2 DEF IInv, CallShape, InCall
    <3>2. Shown' = [Shown EXCEPT ![cur] = Shown'[cur]]
      BY ZenonT(60), <2>2 DEF Shown, DriveOf, PinsOff
    <3>3. \/ Shown[cur] = Shown'[cur]
          \/ Shown[cur] = "stopped" /\ Shown'[cur] \in {"up", "down"} /\ age[cur] < MaxDrive
          \/ Shown[cur] \in {"up", "down"} /\ Shown'[cur] = "stopped"
          \/ Shown[cur] = "down" /\ Shown'[cur] = "both"
          \/ Shown[cur] = "both" /\ Shown'[cur] = "up"
      BY <2>2, <3>1 DEF Shown, DriveOf, PinsOff, Written, IInv, PinsInCall, FieldsInCall,
                        CallShape, InCall, Fresh, Driving
    <3>4. QED
      BY <1>0, <3>2, <3>3, OneMoves
  <2>3. QED
    BY <2>1, <2>2
<1>8. CASE Tick
  <2> DEFINE S == {r \in Rollers : Expired(r)}
  <2> USE <1>0, <1>8
  <2>1. Shown' = [r \in Rollers |-> IF r \in S THEN "stopped" ELSE Shown[r]]
    BY DEF Tick, CheckTimeout, Shown, DriveOf, PinsOff
  <2>2. \A r \in Rollers : Shown'[r] # "stopped" => age'[r] < MaxDrive
    BY DEF DriveBound, Shown, DriveOf, PinsOff
  <2>3. age' = [r \in Rollers |-> IF age[r] < MaxDrive THEN age[r] + 1 ELSE MaxDrive]
    BY DEF Tick
  <2>4. Motor!Tick
    BY <2>1, <2>2, <2>3 DEF Motor!Tick, Shown
  <2>5. QED
    BY <2>4 DEF Motor!Next
<1>9. CASE Reset
  <2>1. Motor!PowerLoss
    BY <1>9 DEF Reset, Motor!PowerLoss, DriveOf
  <2>2. QED
    BY <2>1 DEF Motor!Next
<1>10. CASE UNCHANGED vars
  BY <1>10, Unseen DEF vars
<1>11. QED
  BY <1>1, <1>2, <1>3, <1>4, <1>5, <1>6, <1>7, <1>8, <1>9, <1>10 DEF Next, Call, Step

(* The detailed class implements the abstract motor.                       *)
THEOREM Refinement == Spec => MotorSpec
<1>1. Init => Motor!Init
  BY DEF Init, Motor!Init, DriveOf
<1>2. IInv /\ TypeOK' /\ DriveBound' /\ [Next]_vars => [Motor!Next]_(Motor!vars)
  BY MotorStep DEF Motor!vars, Shown
<1>3. QED
  BY <1>1, <1>2, Invariance, TypeCorrect, DriveBounded, PTL DEF Spec, MotorSpec, Motor!Spec

-----------------------------------------------------------------------------
(* The controller.                                                         *)
USE ControllerAssumption

(* The controller uses its rollers only as class roller allows, so every   *)
(* theorem about Spec holds of the controller.                             *)
LEMMA CallsOnly == ASSUME CtrlNext, CtrlTypeOK PROVE Next \/ UNCHANGED vars
<1> USE DEF CtrlTypeOK, LoopTypeOK
<1>1. ASSUME NEW r \in Rollers, Construct(r) \/ SetState(r) \/ Stop(r)
      PROVE  Next
  BY <1>1 DEF SetState, Next, Call
<1>2. CASE Build
  BY <1>1, <1>2 DEF Build, Iterate
<1>3. CASE Match
  BY <1>1, <1>3 DEF Match, Iterate, MatchTopic
<1>4. CASE AllRollerSetState
  BY <1>1, <1>4 DEF AllRollerSetState, Iterate
<1>5. CASE AllRollerOff
  BY <1>1, <1>5 DEF AllRollerOff, Iterate
<1>6. CASE MethodStep \/ Interrupt \/ PowerCycle
  BY <1>6 DEF MethodStep, Interrupt, PowerCycle, Next
<1>7. CASE \/ Built \/ Setup \/ Matched \/ AllDone \/ Offline \/ MqttConnect
           \/ OfflineDone \/ LinkLost \/ Message
  BY <1>7 DEF Built, Setup, Matched, AllDone, Offline, MqttConnect, OfflineDone,
              LinkLost, Message, Receive
<1>8. QED
  BY <1>2, <1>3, <1>4, <1>5, <1>6, <1>7 DEF CtrlNext, Run

(* The main loop's own variables keep their types.                         *)
LEMMA LoopTypeStep == ASSUME LoopTypeOK, [CtrlNext]_allVars PROVE LoopTypeOK'
<1> USE DEF LoopTypeOK, Main, Cmd, Goto, Iterate, Exhausted
<1>1. CASE Build \/ Match \/ AllRollerSetState \/ AllRollerOff
  BY <1>1 DEF Build, Match, AllRollerSetState, AllRollerOff
<1>2. CASE Built \/ Setup \/ Matched \/ AllDone
  BY <1>2 DEF Built, Setup, Matched, AllDone
<1>3. CASE Offline \/ MqttConnect \/ OfflineDone
  BY <1>3 DEF Offline, MqttConnect, OfflineDone
<1>4. CASE Message
  <2> PICK t \in Topics, payload \in {"U", "D", "S"} : Receive(t, payload)
    BY <1>4 DEF Message
  <2>1. Decode(payload) \in Cmd
    BY DEF Decode
  <2>2. want' \in [Rollers -> Cmd]
    BY <2>1 DEF Receive
  <2>3. QED
    BY <2>1, <2>2 DEF Receive
<1>5. CASE LinkLost \/ PowerCycle
  <2>1. link' \in BOOLEAN
    BY <1>5, Zenon DEF LinkLost, PowerCycle
  <2>2. QED
    BY <1>5, <2>1 DEF LinkLost, PowerCycle
<1>6. CASE MethodStep \/ Interrupt \/ UNCHANGED allVars
  BY <1>6 DEF MethodStep, Interrupt, ctrlVars, allVars
<1>7. QED
  BY <1>1, <1>2, <1>3, <1>4, <1>5, <1>6 DEF CtrlNext, Run

(* Composition: a behaviour of the controller is one of class roller.      *)
THEOREM Composition == CtrlSpec => Spec
<1>1. CtrlInit => Init /\ TypeOK /\ CallShape /\ LoopTypeOK
  <2> SUFFICES ASSUME CtrlInit PROVE Init /\ TypeOK /\ CallShape /\ LoopTypeOK
    OBVIOUS
  <2>1. Init /\ TypeOK /\ CallShape
    BY DEF CtrlInit, Init, TypeOK, CallShape, InCall
  <2>2. link \in BOOLEAN
    BY Zenon DEF CtrlInit
  <2>3. LoopTypeOK
    BY <2>2 DEF CtrlInit, LoopTypeOK, Main, Cmd
  <2>4. QED
    BY <2>1, <2>3
<1>2. LoopTypeOK /\ TypeOK /\ CallShape /\ [CtrlNext]_allVars
        => LoopTypeOK' /\ TypeOK' /\ CallShape' /\ [Next]_vars
  <2> SUFFICES ASSUME LoopTypeOK, TypeOK, CallShape, [CtrlNext]_allVars
               PROVE  LoopTypeOK' /\ TypeOK' /\ CallShape' /\ [Next]_vars
    OBVIOUS
  <2>1. [Next]_vars
    BY CallsOnly DEF CtrlTypeOK, allVars
  <2>2. QED
    BY <2>1, ShapeStep, LoopTypeStep
<1>3. QED
  BY <1>1, <1>2, PTL DEF CtrlSpec, Spec

-----------------------------------------------------------------------------
(* The order in which objects are built, swept, and called at all.         *)
LEMMA SweepStep ==
  ASSUME IInv, LoopTypeOK, Building, Calling, Sweeping, [CtrlNext]_allVars
  PROVE  Building' /\ Calling' /\ Sweeping'
<1> USE DEF IInv, TypeOK, CallShape, FieldsInCall, InCall, Settling, LoopTypeOK, Main, Cmd,
            Building, Calling, Sweeping, Passed, Goto, Iterate, Exhausted,
            vars, fieldVars, pinVars, callVars
<1>1. CASE Build
  BY SMTT(30), <1>1 DEF Build, Construct, Enter
<1>2. CASE Match
  BY <1>2 DEF Match, MatchTopic, SetState, Up, Down, Stop, Enter
<1>3. CASE AllRollerSetState
  BY <1>3 DEF AllRollerSetState, SetState, Up, Down, Stop, Enter
<1>4. CASE AllRollerOff
  BY <1>4 DEF AllRollerOff, Stop, Enter
<1>5. CASE Built
  <2>1. ASSUME NEW r \in Rollers PROVE r \in constructed
    <3>1. PICK k \in 1 .. ROLLER_COUNT : RollerTab[k] = r
      OBVIOUS
    <3>2. QED
      BY <1>5, <3>1 DEF Built
  <2>2. constructed' = Rollers /\ main' = "setup" /\ pc' = "idle"
    BY <1>5, <2>1 DEF Built
  <2>3. QED
    BY <2>2
<1>6. CASE Setup \/ Matched \/ AllDone \/ Offline \/ MqttConnect \/ OfflineDone
  BY <1>6 DEF Setup, Matched, AllDone, Offline, MqttConnect, OfflineDone
<1>7. CASE Message
  BY <1>7 DEF Message, Receive
<1>8. CASE LinkLost
  BY <1>8 DEF LinkLost
<1>9. CASE PowerCycle
  BY <1>9 DEF PowerCycle, Reset
<1>10. CASE Interrupt
  BY <1>10 DEF Interrupt, Tick, CheckTimeout, Expired, ctrlVars
<1>11. CASE MethodStep
  <2> USE <1>11 DEF MethodStep, ctrlVars
  <2>1. CASE ModeUp \/ ModeDown
    BY <2>1 DEF ModeUp, ModeDown
  <2>2. CASE Reload
    BY <2>2 DEF Reload
  <2>3. CASE Decide
    BY <2>3 DEF Decide, Settled
  <2>4. CASE WriteUp
    BY <2>4 DEF WriteUp
  <2>5. CASE WriteDown
    BY <2>5 DEF WriteDown
  <2>6. QED
    BY <2>1, <2>2, <2>3, <2>4, <2>5 DEF Step
<1>12. CASE UNCHANGED allVars
  BY <1>12 DEF allVars, ctrlVars
<1>13. QED
  BY <1>1, <1>2, <1>3, <1>4, <1>5, <1>6, <1>7, <1>8, <1>9, <1>10, <1>11, <1>12
     DEF CtrlNext, Run

(* Every roller reached by the current message follows it.                 *)
LEMMA ObeyStep ==
  ASSUME IInv, LoopTypeOK, Building, Calling, Sweeping, Obeying, [CtrlNext]_allVars
  PROVE  Obeying'
<1> USE DEF InCall, Settling, Obeying, Pending, Follows, Passed,
            Goto, Iterate, Exhausted, vars, fieldVars, pinVars, callVars
<1>a. /\ TypeOK /\ Armed /\ FieldsInCall
      /\ i \in 1 .. ROLLER_COUNT + 1 /\ topic \in Topics /\ cmd \in {"up", "down", "stop"}
      /\ want \in [Rollers -> {"up", "down", "stop"}]
  BY DEF IInv, LoopTypeOK, Cmd
<1>1. CASE Build \/ Built
  <2>1. CASE Build
    BY <2>1 DEF Build
  <2>2. CASE Built
    <3>1. /\ main = "construct" /\ pc = "idle" /\ i > ROLLER_COUNT /\ main' = "setup"
          /\ want' = want /\ state' = state
      BY <2>2 DEF Built
    <3>2. \A r \in Rollers : want[r] = "stop" /\ state[r] = ROLLER_OFF
      BY <3>1, <1>a DEF Building
    <3>3. QED
      BY <3>1, <3>2
  <2>3. QED
    BY <1>1, <2>1, <2>2
<1>2. CASE Match
  <2> DEFINE R == RollerTab[i]
  <2>1. /\ R \in Rollers /\ pc = "idle" /\ main = "match" /\ main' = "match"
        /\ i \in 1 .. ROLLER_COUNT /\ i' = i + 1
        /\ UNCHANGED <<topic, cmd, want, state, direction, timer>>
    BY <1>2, <1>a DEF Match, MatchTopic, SetState, Up, Down, Stop, Enter
  <2>2. \/ TopicOf[R] = topic /\ cur' = R /\ op' = cmd /\ pc' # "idle"
        \/ TopicOf[R] # topic /\ pc' = "idle"
    BY <1>2 DEF Match, MatchTopic, SetState, Up, Down, Stop, Enter
  <2>3. \A r \in Rollers : TopicOf[r] = topic \/ topic = MQTT_ALL_ROLETS => want[r] = cmd
    BY <2>1
  <2>4. ASSUME NEW r \in Rollers, ~Pending(r)', ~Settling(r)'
        PROVE  Follows(r)'
    <3>1. ~Settling(r) /\ (TopicOf[r] = topic => r # R)
      BY <2>1, <2>2, <2>4
    <3>2. ~Pending(r)
      BY <2>1, <2>4, <3>1
    <3>3. QED
      BY <2>1, <3>1, <3>2
  <2>5. InCall' => op' = want'[cur']
    BY <2>1, <2>2, <2>3
  <2>6. QED
    BY <2>1, <2>3, <2>4, <2>5
<1>3. CASE AllRollerSetState
  <2> DEFINE R == RollerTab[i]
  <2>1. /\ R \in Rollers /\ pc = "idle" /\ main = "all" /\ main' = "all"
        /\ i \in 1 .. ROLLER_COUNT /\ i' = i + 1
        /\ UNCHANGED <<topic, cmd, want, state, direction, timer>>
    BY <1>3, <1>a DEF AllRollerSetState, SetState, Up, Down, Stop, Enter
  <2>2. cur' = R /\ op' = cmd /\ pc' # "idle"
    BY <1>3 DEF AllRollerSetState, SetState, Up, Down, Stop, Enter
  <2>3. topic = MQTT_ALL_ROLETS /\ \A r \in Rollers : want[r] = cmd
    BY <2>1
  <2>4. ASSUME NEW r \in Rollers, ~Pending(r)', ~Settling(r)'
        PROVE  Follows(r)'
    <3>1. ~Settling(r) /\ r # R
      BY <2>1, <2>2, <2>4
    <3>2. ~Pending(r)
      BY <2>1, <2>4, <3>1
    <3>3. QED
      BY <2>1, <3>1, <3>2
  <2>5. QED
    BY <2>1, <2>2, <2>3, <2>4
<1>4. CASE AllRollerOff
  BY <1>4 DEF AllRollerOff
<1>5. CASE Setup
  BY <1>5, <1>a DEF Setup
<1>6. CASE Matched \/ AllDone
  BY <1>6, <1>a DEF Matched, AllDone
<1>7. CASE Offline \/ MqttConnect
  BY <1>7, <1>a DEF Offline, MqttConnect
<1>8. CASE OfflineDone
  <2>1. main = "offline" /\ pc = "idle" /\ i > ROLLER_COUNT
    BY <1>8 DEF OfflineDone
  <2>2. \A r \in Rollers : state[r] = ROLLER_OFF
    BY <2>1, <1>a DEF Sweeping
  <2>3. main' = "loop" /\ state' = state /\ want' = [r \in Rollers |-> "stop"]
    BY <1>8 DEF OfflineDone
  <2>4. QED
    BY <2>2, <2>3
<1>9. CASE Message
  <2> PICK t \in Topics, payload \in {"U", "D", "S"} : Receive(t, payload)
    BY <1>9 DEF Message
  <2>1. pc = "idle"
    BY DEF Receive, Calling
  <2> DEFINE C == Decode(payload)
  <2>2. /\ main = "loop" /\ main' = "match" /\ i' = 1 /\ topic' = t /\ cmd' = C
        /\ want' = [r \in Rollers |->
                      IF TopicOf[r] = t \/ t = MQTT_ALL_ROLETS THEN C ELSE want[r]]
        /\ UNCHANGED <<pc, cur, op, state, direction, timer>>
    BY DEF Receive
  <2> HIDE DEF C
  <2>3. ASSUME NEW r \in Rollers, ~Pending(r)' PROVE Follows(r)'
    <3>1. TopicOf[r] # t /\ t # MQTT_ALL_ROLETS
      <4>1. PICK k \in 1 .. ROLLER_COUNT : RollerTab[k] = r
        OBVIOUS
      <4>2. QED
        BY <2>2, <2>3, <4>1
    <3>2. Follows(r)
      BY <2>1, <2>2
    <3>3. QED
      BY <2>2, <3>1, <3>2
  <2>4. QED
    BY <2>1, <2>2, <2>3
<1>10. CASE LinkLost
  BY <1>10 DEF LinkLost
<1>11. CASE PowerCycle
  BY <1>11 DEF PowerCycle, Reset
<1>12. CASE Interrupt
  <2>1. /\ main # "construct" /\ main' = main /\ i' = i /\ topic' = topic
        /\ cmd' = cmd /\ want' = want /\ pc' = pc /\ cur' = cur /\ op' = op
        /\ CheckTimeout
    BY <1>12 DEF Interrupt, Tick, ctrlVars
  <2>2. ASSUME NEW r \in Rollers, Follows(r) PROVE Follows(r)'
    <3>1. /\ timer'[r] = IF state[r] = ROLLER_ON THEN Decremented(timer[r]) ELSE timer[r]
          /\ state'[r] = IF Expired(r) THEN ROLLER_OFF ELSE state[r]
          /\ direction'[r] = direction[r]
      BY <2>1 DEF CheckTimeout
    <3>2. state[r] \in {ROLLER_ON, ROLLER_OFF}
      BY <1>a DEF TypeOK
    <3>3. QED
      BY <2>1, <2>2, <3>1, <3>2 DEF Expired
  <2>3. QED
    BY <2>1, <2>2
<1>13. CASE MethodStep
  <2> USE <1>13 DEF MethodStep, ctrlVars
  <2>1. /\ pc # "idle" /\ cur' = cur /\ op' = op
        /\ main' = main /\ i' = i /\ topic' = topic /\ cmd' = cmd /\ want' = want
    BY DEF Step, ModeUp, ModeDown, Reload, Decide, WriteUp, WriteDown
  <2>2. main \in {"construct", "match", "all", "offline"}
    BY <2>1 DEF Calling, LoopTypeOK, Main
  <2>3. ASSUME NEW r \in Rollers, r # cur, Follows(r)
        PROVE  Follows(r)'
    <3>1. state'[r] = state[r] /\ direction'[r] = direction[r] /\ timer'[r] = timer[r]
      BY <2>3, <1>a DEF TypeOK, Step, ModeUp, ModeDown, Reload, Decide, WriteUp, WriteDown
    <3>2. QED
      BY <2>1, <2>3, <3>1
  <2>4. ASSUME main \in {"match", "all"}, pc' = "idle"
        PROVE  Follows(cur)'
    <3>1. op = want[cur] /\ cur \in Rollers /\ op \in {"up", "down", "stop"}
      BY <2>1, <2>4, <1>a DEF TypeOK
    <3>2. CASE Decide
      <4>1. Settled /\ state' = state /\ direction' = direction
        BY <2>4, <3>2 DEF Decide
      <4>2. QED
        BY <2>1, <3>1, <4>1 DEF Settled
    <3>3. CASE WriteDown
      <4>1. pc = "pinDown" /\ state' = state /\ direction' = direction
        BY <3>3 DEF WriteDown
      <4>2. QED
        BY <2>1, <3>1, <4>1, <1>a DEF FieldsInCall
    <3>4. QED
      BY <2>4, <3>2, <3>3 DEF Step, ModeUp, ModeDown, Reload, WriteUp
  <2>5. ASSUME NEW r \in Rollers, main # "construct", ~Pending(r)', ~Settling(r)'
        PROVE  Follows(r)'
    <3>1. ~Pending(r) /\ main # "offline"
      BY <2>1, <2>5
    <3>2. CASE r = cur
      BY <2>1, <2>2, <2>4, <2>5, <3>1, <3>2
    <3>3. CASE r # cur
      BY <2>3, <2>5, <3>1, <3>3
    <3>4. QED
      BY <3>2, <3>3
  <2>6. QED
    BY <2>1, <2>5
<1>14. CASE UNCHANGED allVars
  BY <1>14 DEF allVars, ctrlVars
<1>15. QED
  BY <1>1, <1>2, <1>3, <1>4, <1>5, <1>6, <1>7, <1>8, <1>9, <1>10, <1>11, <1>12, <1>13, <1>14
     DEF CtrlNext, Run

(* The controller's invariant holds in every reachable state.              *)
THEOREM CtrlInvariance == CtrlSpec => []CtrlInv
<1>1. CtrlInit => CtrlInv
  <2> SUFFICES ASSUME CtrlInit PROVE CtrlInv
    OBVIOUS
  <2>1. link \in BOOLEAN
    BY Zenon DEF CtrlInit
  <2>2. LoopTypeOK
    BY <2>1 DEF CtrlInit, LoopTypeOK, Main, Cmd
  <2>3. Building /\ Calling /\ Sweeping /\ Obeying
    BY DEF CtrlInit, Init, Building, Calling, Sweeping, Obeying, Passed, InCall
  <2>4. QED
    BY <2>2, <2>3 DEF CtrlInv
<1>2. IInv /\ CtrlInv /\ [CtrlNext]_allVars => CtrlInv'
  BY LoopTypeStep, SweepStep, ObeyStep DEF CtrlInv
<1>3. QED
  BY <1>1, <1>2, Composition, Invariance, PTL DEF CtrlSpec

(* Types are right in every reachable state of the controller.             *)
THEOREM CtrlTypeCorrect == CtrlSpec => []CtrlTypeOK
<1>1. CtrlInv /\ TypeOK => CtrlTypeOK
  BY DEF CtrlInv, CtrlTypeOK
<1>2. QED
  BY <1>1, CtrlInvariance, Composition, TypeCorrect, PTL

(* Between two passes of loop() every roller does what it was last told.   *)
LEMMA ObeyedFromInv == IInv /\ CtrlInv => LastMessageWins
<1> SUFFICES ASSUME IInv, CtrlInv, main = "loop", NEW r \in Rollers
             PROVE  Obeyed(r)
  BY DEF LastMessageWins
<1> USE DEF IInv, CtrlInv
<1>1. r \in constructed /\ ~Settling(r) /\ ~Pending(r)
  BY DEF Building, Calling, Settling, InCall, Pending
<1>2. Follows(r) /\ PinsShow(r)
  BY <1>1 DEF Obeying, FieldsMatchPins
<1>3. QED
  BY <1>1, <1>2 DEF Follows, PinsShow, PinsOff, Obeyed, DriveOf, TypeOK, LoopTypeOK, Cmd

THEOREM MessagesObeyed == CtrlSpec => []LastMessageWins
<1>1. QED
  BY ObeyedFromInv, CtrlInvariance, Composition, Invariance, PTL

(* At the end of its loop allRollerOff() has stopped every roller.         *)
LEMMA OfflineEnds ==
  ASSUME IInv, CtrlInv, main = "offline", pc = "idle", i > ROLLER_COUNT, NEW r \in Rollers
  PROVE  PinsOff(r)
<1> USE DEF IInv, CtrlInv
<1>1. PICK k \in 1 .. ROLLER_COUNT : RollerTab[k] = r
  OBVIOUS
<1>2. state[r] = ROLLER_OFF /\ ~Settling(r) /\ r \in constructed
  BY <1>1 DEF Sweeping, Building, Passed, Settling, LoopTypeOK
<1>3. QED
  BY <1>2 DEF FieldsMatchPins, PinsShow

(* allRollerOff() ends with every relay off.                               *)
THEOREM OfflineStopsAll == CtrlSpec => OfflineStops
<1>1. ASSUME IInv, CtrlInv, [CtrlNext]_allVars
      PROVE  [main = "offline" /\ main' = "loop" => \A r \in Rollers : PinsOff(r)]_allVars
  <2> SUFFICES ASSUME CtrlNext, main = "offline", main' = "loop", NEW r \in Rollers
               PROVE  PinsOff(r)
    BY <1>1
  <2>1. OfflineDone
    BY DEF CtrlNext, Run, Build, Built, Setup, Match, Matched, AllRollerSetState, AllDone,
           Offline, MqttConnect, AllRollerOff, MethodStep, Interrupt, PowerCycle, LinkLost,
           Message, Receive, Iterate, Exhausted, Goto, ctrlVars
  <2>2. QED
    BY <1>1, <2>1, OfflineEnds DEF OfflineDone, Exhausted
<1>2. QED
  BY <1>1, CtrlInvariance, Composition, Invariance, PTL DEF CtrlSpec, OfflineStops

(* The bound on the drive time and the interlock hold of the controller.   *)
THEOREM CtrlDriveBounded == CtrlSpec => [](DriveBound /\ Interlock)
<1>1. QED
  BY Composition, DriveBounded, InterlockCorrect, PTL
-----------------------------------------------------------------------------
(* A step of the controller is a step of Link, or loop() sees no change.   *)
LEMMA LinkStep ==
  ASSUME LoopTypeOK, [CtrlNext]_allVars PROVE [Broker!Next]_LinkState
<1> USE DEF LoopTypeOK, LinkState, Goto, Iterate, Exhausted
<1>1. CASE Build \/ Match \/ AllRollerSetState \/ AllRollerOff
  BY <1>1 DEF Build, Match, AllRollerSetState, AllRollerOff
<1>2. CASE Built \/ Matched \/ AllDone \/ OfflineDone
  BY <1>2 DEF Built, Matched, AllDone, OfflineDone
<1>3. CASE Setup \/ MqttConnect
  BY <1>3 DEF Setup, MqttConnect, Broker!Next, Broker!Result
<1>4. CASE Offline
  BY <1>4 DEF Offline, Broker!Next, Broker!Attempt
<1>5. CASE LinkLost
  BY <1>5 DEF LinkLost, Broker!Next, Broker!Lose
<1>6. CASE Message
  BY <1>6 DEF Message, Receive
<1>7. CASE PowerCycle
  BY <1>7 DEF PowerCycle, Broker!Next, Broker!Reset
<1>8. CASE MethodStep \/ Interrupt \/ UNCHANGED allVars
  BY <1>8 DEF MethodStep, Interrupt, ctrlVars, allVars
<1>9. QED
  BY <1>1, <1>2, <1>3, <1>4, <1>5, <1>6, <1>7, <1>8 DEF CtrlNext, Run

(* The controller asks no more of its connection than module Link says.    *)
THEOREM AsksForLink == CtrlSpec => LinkSpec
<1>1. CtrlInit => Broker!Init
  BY DEF CtrlInit, Broker!Init, LinkState
<1>2. CtrlTypeOK => LoopTypeOK
  BY DEF CtrlTypeOK
<1>3. QED
  BY <1>1, <1>2, CtrlTypeCorrect, LinkStep, PTL DEF CtrlSpec, LinkSpec, Broker!Spec
-----------------------------------------------------------------------------
(***************************************************************************)
(* What the loss of the link comes to, step by step: the part of           *)
(* LinkLossStops that does not need fairness.                              *)
(***************************************************************************)
(* A controller that has lost its link is on its way through the rest of   *)
(* callback() and an attempt to connect to the end of allRollerOff(),      *)
(* which it runs to its end also when the link is back.                    *)
GivingUp ==
  \/ main \in {"connect", "offline"}
  \/ main \in {"loop", "match", "all"} /\ ~link

(* The most steps that are left of a call, ...                             *)
CallLeft(position) ==
  CASE position \in {"modeUp", "reload"}   -> 4
    [] position \in {"modeDown", "decide"} -> 3
    [] position = "pinUp"                  -> 2
    [] position = "pinDown"                -> 1
    [] OTHER                               -> 0

(* ... and up to the end of allRollerOff(): five for a roller that the     *)
(* message may command, twice for the common topic, four for each to stop. *)
LoopLeft(location, n) ==
  CASE location = "match"   -> 9 * ROLLER_COUNT + 5 * (ROLLER_COUNT + 1 - n) + 5
    [] location = "all"     -> 4 * ROLLER_COUNT + 5 * (ROLLER_COUNT + 1 - n) + 4
    [] location = "loop"    -> 4 * ROLLER_COUNT + 3
    [] location = "connect" -> 4 * ROLLER_COUNT + 2
    [] location = "offline" -> 4 * (ROLLER_COUNT + 1 - n) + 1
    [] OTHER                -> 0

StepsLeft == LoopLeft(main, i) + CallLeft(pc)

(* Fourteen steps for each roller and nine more are enough.                *)
StepsType == GivingUp => StepsLeft \in 1 .. 14 * ROLLER_COUNT + 9

AllOff == \A r \in Rollers : PinsOff(r)

(* On that way each step is a power cycle, one of the interrupt or of the  *)
(* link, which changes nothing about it, or fewer are left; the last       *)
(* leaves all relays off.                                                  *)
LossStops ==
  [][GivingUp => \/ PowerCycle
                 \/ (Interrupt \/ LinkLost) /\ GivingUp' /\ StepsLeft' = StepsLeft
                 \/ GivingUp' /\ StepsLeft' < StepsLeft
                 \/ main' = "loop" /\ AllOff']_allVars

LEMMA CallLeftType == \A position : CallLeft(position) \in 0 .. 4
BY DEF CallLeft

(* A loop that comes to its next roller, a position of main that is over,  *)
(* a step of a call: each leaves fewer steps.                              *)
LEMMA NextRoller ==
  ASSUME NEW n \in 1 .. ROLLER_COUNT, NEW position
  PROVE  /\ \A location \in {"match", "all"} :
              LoopLeft(location, n + 1) + CallLeft(position) < LoopLeft(location, n) + CallLeft("idle")
         /\ LoopLeft("offline", n + 1) + CallLeft("decide") < LoopLeft("offline", n) + CallLeft("idle")
<1>1. ROLLER_COUNT \in Nat
  BY ControllerAssumption
<1>2. CallLeft(position) \in 0 .. 4 /\ CallLeft("idle") = 0 /\ CallLeft("decide") = 3
  BY CallLeftType DEF CallLeft
<1>3. /\ LoopLeft("match", n + 1) = LoopLeft("match", n) - 5 /\ LoopLeft("match", n) \in Int
      /\ LoopLeft("all", n + 1) = LoopLeft("all", n) - 5 /\ LoopLeft("all", n) \in Int
      /\ LoopLeft("offline", n + 1) = LoopLeft("offline", n) - 4 /\ LoopLeft("offline", n) \in Int
  <2>1. /\ LoopLeft("match", n) = 9 * ROLLER_COUNT + 5 * (ROLLER_COUNT + 1 - n) + 5
        /\ LoopLeft("match", n + 1) = 9 * ROLLER_COUNT + 5 * (ROLLER_COUNT + 1 - (n + 1)) + 5
    BY DEF LoopLeft
  <2>2. /\ LoopLeft("all", n) = 4 * ROLLER_COUNT + 5 * (ROLLER_COUNT + 1 - n) + 4
        /\ LoopLeft("all", n + 1) = 4 * ROLLER_COUNT + 5 * (ROLLER_COUNT + 1 - (n + 1)) + 4
    BY DEF LoopLeft
  <2>3. /\ LoopLeft("offline", n) = 4 * (ROLLER_COUNT + 1 - n) + 1
        /\ LoopLeft("offline", n + 1) = 4 * (ROLLER_COUNT + 1 - (n + 1)) + 1
    BY DEF LoopLeft
  <2> QED
    BY <1>1, <2>1, <2>2, <2>3
<1> QED
  BY <1>2, <1>3

LEMMA NextLoop ==
  ASSUME NEW n \in 1 .. ROLLER_COUNT + 1
  PROVE  /\ n > ROLLER_COUNT => /\ LoopLeft("all", 1) < LoopLeft("match", n)
                                /\ LoopLeft("loop", 1) < LoopLeft("match", n)
                                /\ LoopLeft("loop", 1) < LoopLeft("all", n)
         /\ LoopLeft("connect", 1) < LoopLeft("loop", n)
         /\ LoopLeft("offline", 1) < LoopLeft("loop", n)
         /\ LoopLeft("offline", 1) < LoopLeft("connect", n)
<1>1. /\ LoopLeft("match", n) = 9 * ROLLER_COUNT + 5 * (ROLLER_COUNT + 1 - n) + 5
      /\ LoopLeft("all", n) = 4 * ROLLER_COUNT + 5 * (ROLLER_COUNT + 1 - n) + 4
      /\ LoopLeft("all", 1) = 4 * ROLLER_COUNT + 5 * (ROLLER_COUNT + 1 - 1) + 4
  BY DEF LoopLeft
<1>2. /\ LoopLeft("loop", n) = 4 * ROLLER_COUNT + 3 /\ LoopLeft("loop", 1) = 4 * ROLLER_COUNT + 3
      /\ LoopLeft("connect", n) = 4 * ROLLER_COUNT + 2
      /\ LoopLeft("connect", 1) = 4 * ROLLER_COUNT + 2
      /\ LoopLeft("offline", 1) = 4 * (ROLLER_COUNT + 1 - 1) + 1
  BY DEF LoopLeft
<1> QED
  BY <1>1, <1>2, ControllerAssumption

LEMMA LoopLeftType ==
  ASSUME NEW n \in 1 .. ROLLER_COUNT + 1, NEW location \in Main
  PROVE  /\ LoopLeft(location, n) \in 0 .. 14 * ROLLER_COUNT + 5
         /\ location \notin {"construct", "setup"} => LoopLeft(location, n) # 0
<1>1. ROLLER_COUNT \in Nat
  BY ControllerAssumption
<1>2. location \in {"construct", "setup", "loop", "match", "all", "connect", "offline"}
  BY DEF Main
<1>3. CASE location = "match"
  <2>1. LoopLeft(location, n) = 9 * ROLLER_COUNT + 5 * (ROLLER_COUNT + 1 - n) + 5
    BY <1>3 DEF LoopLeft
  <2> QED
    BY <1>1, <1>3, <2>1
<1>4. CASE location = "all"
  <2>1. LoopLeft(location, n) = 4 * ROLLER_COUNT + 5 * (ROLLER_COUNT + 1 - n) + 4
    BY <1>4 DEF LoopLeft
  <2> QED
    BY <1>1, <1>4, <2>1
<1>5. CASE location = "loop"
  <2>1. LoopLeft(location, n) = 4 * ROLLER_COUNT + 3
    BY <1>5 DEF LoopLeft
  <2> QED
    BY <1>1, <1>5, <2>1
<1>6. CASE location = "connect"
  <2>1. LoopLeft(location, n) = 4 * ROLLER_COUNT + 2
    BY <1>6 DEF LoopLeft
  <2> QED
    BY <1>1, <1>6, <2>1
<1>7. CASE location = "offline"
  <2>1. LoopLeft(location, n) = 4 * (ROLLER_COUNT + 1 - n) + 1
    BY <1>7 DEF LoopLeft
  <2> QED
    BY <1>1, <1>7, <2>1
<1>8. CASE location \in {"construct", "setup"}
  <2>1. LoopLeft(location, n) = 0
    BY <1>8 DEF LoopLeft
  <2> QED
    BY <1>1, <1>8, <2>1
<1> QED
  BY <1>2, <1>3, <1>4, <1>5, <1>6, <1>7, <1>8

(* A call leaves its last position for none.                               *)
LEMMA CallEnds ==
  ASSUME Step
  PROVE  CallLeft(pc') < CallLeft(pc)
BY DEF Step, ModeUp, ModeDown, Reload, Decide, WriteUp, WriteDown, CallLeft

(* There are never more steps to come than the table and a call allow.     *)
THEOREM StepsAreCounted == CtrlSpec => []StepsType
<1>1. CtrlInv => StepsType
  <2> SUFFICES ASSUME LoopTypeOK, GivingUp
               PROVE  StepsLeft \in 1 .. 14 * ROLLER_COUNT + 9
    BY DEF CtrlInv, StepsType
  <2>1. LoopLeft(main, i) \in 0 .. 14 * ROLLER_COUNT + 5
    BY LoopLeftType DEF LoopTypeOK
  <2>2. LoopLeft(main, i) # 0
    BY LoopLeftType DEF LoopTypeOK, GivingUp
  <2>3. CallLeft(pc) \in 0 .. 4
    BY CallLeftType
  <2> QED
    BY <2>1, <2>2, <2>3, ControllerAssumption DEF StepsLeft
<1>2. QED
  BY <1>1, CtrlInvariance, PTL

(* One step of the processor on its way to the end of allRollerOff().      *)
LEMMA RunsOn ==
  ASSUME IInv, CtrlInv, GivingUp, Run
  PROVE  (GivingUp' /\ StepsLeft' < StepsLeft) \/ (main' = "loop" /\ AllOff')
<1> USE DEF Iterate, Exhausted, Goto, GivingUp
<1>0. i \in 1 .. ROLLER_COUNT + 1 /\ main \in Main
  BY DEF CtrlInv, LoopTypeOK
<1>1. ASSUME Match \/ AllRollerSetState PROVE GivingUp' /\ StepsLeft' < StepsLeft
  <2>1. /\ main \in {"match", "all"} /\ main' = main /\ link' = link /\ pc = "idle"
        /\ i \in 1 .. ROLLER_COUNT /\ i' = i + 1
    BY <1>0, <1>1, ControllerAssumption DEF Match, AllRollerSetState
  <2>2. LoopLeft(main, i + 1) + CallLeft(pc') < LoopLeft(main, i) + CallLeft("idle")
    BY <2>1, NextRoller
  <2> QED
    BY <2>1, <2>2 DEF StepsLeft
<1>2. ASSUME AllRollerOff PROVE GivingUp' /\ StepsLeft' < StepsLeft
  <2>1. /\ main = "offline" /\ main' = main /\ pc = "idle" /\ pc' = "decide"
        /\ i \in 1 .. ROLLER_COUNT /\ i' = i + 1
    BY <1>0, <1>2, ControllerAssumption DEF AllRollerOff, Stop, Enter
  <2> QED
    BY <2>1, NextRoller DEF StepsLeft
<1>3. ASSUME Matched \/ AllDone \/ Offline \/ MqttConnect
      PROVE  GivingUp' /\ StepsLeft' < StepsLeft
  <2>1. pc' = pc /\ i' = 1 /\ CallLeft(pc) \in 0 .. 4
    BY <1>3, CallLeftType DEF Matched, AllDone, Offline, MqttConnect, vars, callVars
  <2>2. GivingUp' /\ LoopLeft(main', 1) < LoopLeft(main, i)
    BY <1>0, <1>3, NextLoop DEF Matched, AllDone, Offline, MqttConnect
  <2>3. LoopLeft(main', 1) \in Int /\ LoopLeft(main, i) \in Int
    <3>1. main' \in Main /\ 1 \in 1 .. ROLLER_COUNT + 1
      BY <1>3, ControllerAssumption DEF Matched, AllDone, Offline, MqttConnect, Main
    <3> QED
      BY <1>0, <3>1, LoopLeftType, ControllerAssumption
  <2> QED
    BY <2>1, <2>2, <2>3 DEF StepsLeft
<1>4. ASSUME MethodStep PROVE GivingUp' /\ StepsLeft' < StepsLeft
  <2>1. UNCHANGED <<main, i, link>> /\ CallLeft(pc') < CallLeft(pc)
    BY <1>4, CallEnds DEF MethodStep, ctrlVars
  <2>2. LoopLeft(main, i) \in Int /\ CallLeft(pc) \in Int /\ CallLeft(pc') \in Int
    BY <1>0, LoopLeftType, CallLeftType, ControllerAssumption
  <2> QED
    BY <2>1, <2>2 DEF StepsLeft
<1>5. ASSUME OfflineDone PROVE main' = "loop" /\ AllOff'
  <2>1. main = "offline" /\ pc = "idle" /\ i > ROLLER_COUNT /\ main' = "loop" /\ UNCHANGED <<pinUp, pinDown>>
    BY <1>5 DEF OfflineDone, vars, pinVars
  <2>2. ASSUME NEW r \in Rollers PROVE PinsOff(r)
    BY <2>1, OfflineEnds
  <2> QED
    BY <2>1, <2>2 DEF AllOff, PinsOff
<1>6. ~Build /\ ~Built /\ ~Setup
  BY DEF Build, Built, Setup
<1> HIDE DEF Iterate, Exhausted, Goto, GivingUp
<1>7. QED
  BY <1>1, <1>2, <1>3, <1>4, <1>5, <1>6 DEF Run

(* From the loss of the link on, whatever main is doing: the processor     *)
(* gets nearer to the end of allRollerOff() with each of its steps, the    *)
(* interrupt and the link take it no further away, no message comes in     *)
(* between, and at the end no relay is on, unless the power fails first.   *)
THEOREM LossStopsInSteps == CtrlSpec => LossStops
<1> DEFINE Nearer ==
      \/ PowerCycle
      \/ (Interrupt \/ LinkLost) /\ GivingUp' /\ StepsLeft' = StepsLeft
      \/ GivingUp' /\ StepsLeft' < StepsLeft
      \/ main' = "loop" /\ AllOff'
<1>1. ASSUME IInv, CtrlInv, [CtrlNext]_allVars
      PROVE  [GivingUp => Nearer]_allVars
  <2> SUFFICES ASSUME CtrlNext, GivingUp PROVE Nearer
    BY <1>1
  <2>1. CASE Run
    BY <1>1, <2>1, RunsOn
  <2>2. CASE Interrupt \/ LinkLost
    <3>1. UNCHANGED <<main, i, pc>> /\ (link' = link \/ ~link')
      BY <2>2 DEF Interrupt, LinkLost, Tick, ctrlVars, vars, callVars
    <3>2. GivingUp' /\ StepsLeft' = StepsLeft
      BY <3>1 DEF GivingUp, StepsLeft
    <3> QED
      BY <2>2, <3>2
  <2>3. ~Message
    BY DEF Message, Receive, GivingUp
  <2>4. PowerCycle => Nearer
    OBVIOUS
  <2> HIDE DEF Nearer
  <2>5. QED
    BY <2>1, <2>2, <2>3, <2>4 DEF CtrlNext
<1>2. QED
  BY <1>1, CtrlInvariance, Composition, Invariance, PTL DEF CtrlSpec, LossStops
=============================================================================
