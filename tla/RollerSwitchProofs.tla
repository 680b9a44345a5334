--------------------------- MODULE RollerSwitchProofs ---------------------------
(***************************************************************************)
(* Theorems about the wall switch, for any time-outs that it may be built  *)
(* with and any number of interrupts in a call of setRollerOutput().       *)
(***************************************************************************)
EXTENDS RollerSwitch, DivisionLemmas

(* The two parts of a counter.                                             *)
LEMMA Parts ==
  ASSUME NEW n \in Nat
  PROVE  /\ Low(n) \in 0 .. Byte - 1 /\ Low(n) \in Nat /\ High(n) \in Nat
         /\ n = High(n) + Low(n)
         /\ High(n) = 0 \/ High(n) >= Byte
         /\ Low(n) > 0 => Low(n - 1) = Low(n) - 1
<1>1. Byte \in Nat \ {0} /\ Low(n) = n % Byte
  BY SwitchAssumption DEF Low
<1>2. Low(n) \in 0 .. Byte - 1 /\ Low(n) \in Nat
  BY <1>1, Division
<1>3. High(n) \in Nat /\ n = High(n) + Low(n) /\ (High(n) = 0 \/ High(n) >= Byte)
  BY <1>1, <1>2, Small DEF High
<1>4. Low(n) > 0 => Low(n - 1) = Low(n) - 1
  BY <1>1, NoBorrow DEF Low
<1> QED
  BY <1>2, <1>3, <1>4

LEMMA Stores ==
  ASSUME NEW m \in Nat, NEW n \in Nat
  PROVE  /\ Low(High(m) + Low(n)) = Low(n)
         /\ m <= n => High(m) <= High(n)
<1>1. Byte \in Nat \ {0}
  BY SwitchAssumption
<1>2. Low(High(m) + Low(n)) = Low(n)
  BY <1>1, Join DEF Low, High
<1>3. m <= n => High(m) <= High(n)
  BY <1>1, UpperMonotone DEF Low, High
<1> QED
  BY <1>2, <1>3

(* What is assumed of the constants, in those terms.                       *)
LEMMA Constants ==
  /\ HandlerTicks \in Nat /\ RelayDelay \in Nat \ {0} /\ Byte \in Nat \ {0, 1}
  /\ RollerTimeout \in Nat /\ ButtonTimeout \in Nat
  /\ Low(RollerTimeout) \in HandlerTicks + 1 .. Byte - 1
  /\ RollerTimeout = High(RollerTimeout) + Low(RollerTimeout)
  /\ High(RollerTimeout) = 0 \/ High(RollerTimeout) >= Byte
  /\ High(RollerTimeout) \in Nat
  /\ RollerTimeout > RelayDelay + HandlerTicks
  /\ LastCount = RelayDelay + 1 /\ MaxRun = RollerTimeout + RelayDelay + RelayDelay + 1
<1>1. /\ HandlerTicks \in Nat /\ RelayDelay \in Nat \ {0} /\ Byte \in Nat \ {0, 1}
      /\ RollerTimeout \in Nat /\ ButtonTimeout \in Nat
      /\ Low(RollerTimeout) > HandlerTicks
      /\ RollerTimeout > RelayDelay + HandlerTicks
  BY SwitchAssumption DEF Low
<1>2. LastCount = RelayDelay + 1 /\ MaxRun = RollerTimeout + RelayDelay + RelayDelay + 1
  BY <1>1 DEF LastCount, MaxRun
<1> QED
  BY <1>1, <1>2, Parts
-----------------------------------------------------------------------------
LEMMA SwitchInvInit == Init => SwitchInv
BY Constants
   DEF Init, SwitchInv, TypeOK, CallShape, Delaying, Stored, Lasting, Armed, Started, Setup,
       Starting, Stopping, RollerState, Button, Input, Check, Respond

(* setup() switches a blind off that nothing has asked to move.            *)
LEMMA SetupSteps ==
  ASSUME SwitchInv, UpOutput \/ DownOutput \/ RollerStop PROVE SwitchInv'
<1> USE Constants
    DEF SwitchInv, TypeOK, CallShape, Delaying, Stored, Lasting, Armed, Started, Setup,
        Starting, Stopping, RollerState, Button, Input, Check, Respond, Goto,
        buttonVars, historyVars
<1>1. CASE UpOutput BY <1>1 DEF UpOutput
<1>2. CASE DownOutput BY <1>2 DEF DownOutput
<1>3. CASE RollerStop BY <1>3 DEF RollerStop, Drawn
<1> QED
  BY <1>1, <1>2, <1>3

(* CheckButton() leaves everything about the blind alone.                  *)
LEMMA CheckButtonSteps ==
  ASSUME SwitchInv, CheckButton PROVE SwitchInv'
<1>1. /\ UNCHANGED <<rollerVars, pressed, ticks, historyVars>>
      /\ pc \in {"loop"} \union Check /\ pc' \in {"loop"} \union Check
  BY DEF CheckButton, Loop, ReadUp, ReadDown, Read, JudgeUp, JudgeDown, JudgeLong, Goto,
         buttonVars, Check
<1>2. buttonTimer' \in 0 .. ButtonTimeout /\ new' \subseteq Button /\ last' \subseteq Button
  <2>1. buttonTimer' \in {buttonTimer, ButtonTimeout}
    BY DEF CheckButton, Loop, ReadUp, ReadDown, Read, JudgeUp, JudgeDown, Judge, JudgeLong,
           buttonVars
  <2>2. last' \in {last, new}
    BY DEF CheckButton, Loop, ReadUp, ReadDown, Read, JudgeUp, JudgeDown, JudgeLong, buttonVars
  <2>3. new' \in {new, new \union {"up"}, new \ {"up"}, new \union {"down"}, new \ {"down"}}
    BY DEF CheckButton, Loop, ReadUp, ReadDown, Read, JudgeUp, JudgeDown, JudgeLong, buttonVars
  <2>4. /\ buttonTimer \in 0 .. ButtonTimeout /\ ButtonTimeout \in Nat
        /\ new \subseteq Button /\ last \subseteq Button
    BY Constants DEF SwitchInv, TypeOK
  <2>5. buttonTimer' \in 0 .. ButtonTimeout
    BY <2>1, <2>4
  <2> QED
    BY <2>2, <2>3, <2>4, <2>5 DEF Button
<1>3. input' \in Input
  BY DEF SwitchInv, TypeOK, CheckButton, Loop, ReadUp, ReadDown, Read, JudgeUp, JudgeDown,
         Judge, JudgeLong, LongInput, buttonVars, Button, Input, Long
<1>4. TypeOK'
  BY <1>1, <1>2, <1>3 DEF SwitchInv, TypeOK, rollerVars, historyVars
<1>5. /\ pc \notin Setup \union Starting \union Stopping \union {"send", "clear"}
      /\ pc' \notin Setup \union Starting \union Stopping \union {"send", "clear"}
  BY <1>1 DEF Setup, Check, Starting, Stopping
<1>6. CallShape' /\ Delaying' /\ Stored'
  BY <1>1, <1>5 DEF SwitchInv, CallShape, Delaying, Stored, Started, Starting, Stopping, Drawn,
                    rollerVars, historyVars
<1>7. Lasting' /\ Armed' /\ rollerTimer' <= RollerTimeout
  BY <1>1, <1>5 DEF SwitchInv, Lasting, Armed, Started, rollerVars, historyVars
<1> QED
  BY <1>4, <1>6, <1>7 DEF SwitchInv

(* setRollerOutput().                                                      *)
LEMMA ObeyStep == ASSUME SwitchInv, Obey PROVE SwitchInv'
<1> USE DEF Obey, buttonVars, rollerVars
<1>1. /\ pc = "loop" /\ pc' \in {"send", "startLow", "stop"}
      /\ pc' = "send" => input \in Long
      /\ pc' = "startLow" => input \in Button /\ target = "stop"
      /\ pc' = "stop" => (input \in Button => target # "stop")
      /\ was' = target /\ ticks' = 0 /\ input' = input
  OBVIOUS
<1>2. TypeOK'
  BY <1>1, Constants DEF SwitchInv, TypeOK, Respond, RollerState
<1>3. CallShape'
  BY <1>1 DEF SwitchInv, CallShape, Started, Setup, Starting, Stopping, Drawn
<1>4. Delaying' /\ Stored' /\ Lasting' /\ Armed' /\ rollerTimer' <= RollerTimeout
  BY <1>1 DEF SwitchInv, Delaying, Stored, Lasting, Armed, Started, Setup
<1> QED
  BY <1>2, <1>3, <1>4 DEF SwitchInv

(* The first byte: the low one is whole, and has seen no tick yet.         *)
LEMMA StartLowStep == ASSUME SwitchInv, StartLow PROVE SwitchInv'
<1> USE Constants
<1>1. /\ pc = "startLow" /\ pc' = "startHigh"
      /\ rollerTimer' = High(rollerTimer) + Low(RollerTimeout)
      /\ UNCHANGED <<target, current, relays, relayCount, buttonVars, ticks, historyVars>>
  BY DEF StartLow, Store, Goto
<1>2. rollerTimer \in Nat /\ rollerTimer <= RollerTimeout /\ ticks \in 0 .. HandlerTicks
  BY DEF SwitchInv, TypeOK
<1>3. Low(rollerTimer') = Low(RollerTimeout)
  BY <1>1, <1>2, Stores
<1>4. rollerTimer' \in 0 .. RollerTimeout
  <2>1. High(rollerTimer) \in Nat /\ High(rollerTimer) <= High(RollerTimeout)
    BY <1>2, Stores, Parts
  <2> QED
    BY <1>1, <2>1
<1>5. target = "stop" /\ was = "stop" /\ input \in Button
  BY <1>1 DEF SwitchInv, CallShape, Starting
<1>6. TypeOK'
  BY <1>1, <1>4 DEF SwitchInv, TypeOK, Respond, buttonVars, historyVars
<1>7. CallShape'
  BY <1>1, <1>5 DEF SwitchInv, CallShape, Started, Setup, Starting, Stopping, Drawn,
                    buttonVars, historyVars
<1>8. Stored'
  BY <1>1, <1>2, <1>3 DEF Stored
<1>9. Delaying' /\ Lasting' /\ Armed'
  BY <1>1, <1>5 DEF SwitchInv, Delaying, Lasting, Armed, Started, Setup, historyVars
<1> QED
  BY <1>4, <1>6, <1>7, <1>8, <1>9 DEF SwitchInv

(* The rest of them: at most the ticks of this call are missing.           *)
LEMMA StartHighStep == ASSUME SwitchInv, StartHigh PROVE SwitchInv'
<1> USE Constants
<1>1. /\ pc = "startHigh" /\ pc' = "move"
      /\ rollerTimer' = High(RollerTimeout) + Low(rollerTimer)
      /\ UNCHANGED <<target, current, relays, relayCount, buttonVars, ticks, historyVars>>
  BY DEF StartHigh, Store, Goto
<1>2. rollerTimer \in Nat /\ rollerTimer <= RollerTimeout /\ ticks \in 0 .. HandlerTicks
  BY DEF SwitchInv, TypeOK
<1>3. target = "stop" /\ was = "stop" /\ input \in Button
  BY <1>1 DEF SwitchInv, CallShape, Starting
<1>4. /\ rollerTimer' \in 0 .. RollerTimeout
      /\ Cleared' \/ rollerTimer' \in Low(RollerTimeout) - ticks .. RollerTimeout
  <2>1. CASE Cleared
    <3>1. Low(rollerTimer) = 0 /\ rollerTimer' = High(RollerTimeout)
      BY <1>1, <1>2, <2>1, Parts DEF Cleared
    <3>2. CASE High(RollerTimeout) = 0
      BY <1>1, <2>1, <3>1, <3>2 DEF Cleared, buttonVars
    <3>3. CASE High(RollerTimeout) >= Byte
      BY <1>2, <3>1, <3>3
    <3> QED
      BY <3>2, <3>3
  <2>2. CASE Low(rollerTimer) \in Low(RollerTimeout) - ticks .. Low(RollerTimeout)
    <3>1. Low(rollerTimer) \in Nat /\ ticks \in Nat /\ ticks <= HandlerTicks
      <4>1. Low(rollerTimer) \in Nat
        BY <1>2, Parts
      <4> QED
        BY <4>1, <1>2
    <3>2. /\ Low(rollerTimer) >= Low(RollerTimeout) - ticks
          /\ Low(rollerTimer) <= Low(RollerTimeout)
      BY <2>2, <3>1
    <3>3. /\ rollerTimer' \in Nat /\ rollerTimer' <= RollerTimeout
          /\ rollerTimer' >= Low(RollerTimeout) - ticks
      BY <1>1, <3>1, <3>2
    <3> QED
      BY <3>1, <3>3
  <2> QED
    BY <1>1, <2>1, <2>2 DEF SwitchInv, Stored
<1>5. TypeOK'
  BY <1>1, <1>4 DEF SwitchInv, TypeOK, Respond, buttonVars, historyVars
<1>6. CallShape'
  BY <1>1, <1>3 DEF SwitchInv, CallShape, Started, Setup, Starting, Stopping, Drawn,
                    buttonVars, historyVars
<1>7. Stored'
  BY <1>1, <1>4 DEF Stored
<1>8. Delaying' /\ Lasting' /\ Armed'
  BY <1>1, <1>3 DEF SwitchInv, Delaying, Lasting, Armed, Started, Setup, historyVars
<1> QED
  BY <1>4, <1>5, <1>6, <1>7, <1>8 DEF SwitchInv

(* The blind is to move: its time-out is loaded, or will be loaded when    *)
(* the relays, which do not show the new direction yet, follow.            *)
LEMMA MoveStep == ASSUME SwitchInv, Move PROVE SwitchInv'
<1> USE Constants
<1>1. /\ pc = "move" /\ pc' = "clear"
      /\ target' = input /\ age' = 0 /\ lag' = 0
      /\ UNCHANGED <<current, relays, rollerTimer, relayCount, buttonVars, ticks, was>>
  BY DEF Move, Goto
<1>2. target = "stop" /\ was = "stop" /\ input \in Button
  BY <1>1 DEF SwitchInv, CallShape, Starting
<1>3. Cleared \/ rollerTimer \in Low(RollerTimeout) - ticks .. RollerTimeout
  BY <1>1 DEF SwitchInv, Stored
<1>4. ticks \in 0 .. HandlerTicks /\ relayCount \in 0 .. RelayDelay /\ rollerTimer \in Nat
  BY DEF SwitchInv, TypeOK
<1>5. TypeOK'
  BY <1>1, <1>2 DEF SwitchInv, TypeOK, Respond, RollerState, Button, buttonVars
<1>6. CallShape'
  BY <1>1, <1>2 DEF SwitchInv, CallShape, Started, Setup, Starting, Stopping, Drawn, buttonVars
<1>7. Delaying' /\ Stored' /\ rollerTimer' <= RollerTimeout
  BY <1>1, <1>3, <1>4 DEF SwitchInv, Delaying, Stored, Cleared, buttonVars
<1>8. Lasting'
  BY <1>1, <1>2, <1>4 DEF SwitchInv, Lasting, Button
<1>9. Armed'
  BY <1>1, <1>3, <1>4 DEF Armed, Cleared
<1> QED
  BY <1>5, <1>6, <1>7, <1>8, <1>9 DEF SwitchInv

(* The blind is to stop.                                                   *)
LEMMA SetStopStep == ASSUME SwitchInv, SetStop PROVE SwitchInv'
<1> USE Constants
<1>1. /\ pc = "stop" /\ pc' = "stopLow"
      /\ target' = "stop" /\ lag' = (IF target = "stop" THEN lag ELSE 0)
      /\ UNCHANGED <<current, relays, rollerTimer, relayCount, buttonVars, ticks, was, age>>
  BY DEF SetStop, Goto
<1>2. /\ rollerTimer \in Nat /\ relayCount \in 0 .. RelayDelay /\ Started
      /\ age \in 0 .. MaxRun /\ lag \in 0 .. LastCount
  BY <1>1 DEF SwitchInv, TypeOK, Started, Setup
<1>3. TypeOK'
  BY <1>1, <1>2 DEF SwitchInv, TypeOK, Respond, RollerState, Button, buttonVars
<1>4. CallShape'
  BY <1>1 DEF SwitchInv, CallShape, Started, Setup, Starting, Stopping, Drawn, buttonVars
<1>5. Delaying' /\ Stored' /\ Armed' /\ rollerTimer' <= RollerTimeout
  BY <1>1, <1>2 DEF SwitchInv, Delaying, Stored, Armed
<1>6. Lasting'
  <2>1. CASE target = "stop"
    BY <1>1, <1>2, <2>1 DEF SwitchInv, Lasting, Started, Setup
  <2>2. CASE target # "stop" /\ current = target
    <3>1. rollerTimer > 0
      BY <1>2, <2>2 DEF SwitchInv, Armed
    <3> QED
      BY <1>1, <1>2, <2>2, <3>1 DEF SwitchInv, Lasting
  <2>3. CASE target # "stop" /\ current # target
    <3>1. age <= lag /\ lag <= relayCount
      BY <1>2, <2>3 DEF SwitchInv, Lasting, Delaying
    <3> QED
      BY <1>1, <1>2, <2>3, <3>1 DEF Lasting
  <2> QED
    BY <2>1, <2>2, <2>3
<1> QED
  BY <1>3, <1>4, <1>5, <1>6 DEF SwitchInv

(* A timer that nothing will look at is cleared, a message is sent, the    *)
(* input is forgotten.                                                     *)
LEMMA StopTimerSteps == ASSUME SwitchInv, StopLow \/ StopHigh PROVE SwitchInv'
<1> USE Constants
<1>1. /\ pc \in {"stopLow", "stopHigh"} /\ pc' \in {"stopHigh", "clear"}
      /\ pc' = "stopHigh" => pc = "stopLow"
      /\ rollerTimer' \in {High(rollerTimer), Low(rollerTimer)}
      /\ UNCHANGED <<target, current, relays, relayCount, buttonVars, ticks, historyVars>>
  BY DEF StopLow, StopHigh, Store, Goto
<1>2. rollerTimer \in Nat /\ rollerTimer <= RollerTimeout
  BY DEF SwitchInv, TypeOK
<1>3. rollerTimer' \in 0 .. RollerTimeout
  <2>1. /\ High(rollerTimer) \in Nat /\ Low(rollerTimer) \in Nat
        /\ rollerTimer = High(rollerTimer) + Low(rollerTimer)
    BY <1>2, Parts
  <2> QED
    BY <1>1, <1>2, <2>1
<1>4. target = "stop" /\ (input \in Button => was # "stop")
  BY <1>1 DEF SwitchInv, CallShape, Stopping
<1>5. TypeOK'
  BY <1>1, <1>3 DEF SwitchInv, TypeOK, Respond, buttonVars, historyVars
<1>6. CallShape'
  BY <1>1, <1>4 DEF SwitchInv, CallShape, Started, Setup, Starting, Stopping, Drawn,
                    buttonVars, historyVars
<1>7. Delaying' /\ Stored' /\ Armed'
  BY <1>1, <1>4 DEF SwitchInv, Delaying, Stored, Armed, buttonVars, historyVars
<1>8. Lasting'
  BY <1>1, <1>4 DEF SwitchInv, Lasting, Started, Setup, historyVars
<1> QED
  BY <1>3, <1>5, <1>6, <1>7, <1>8 DEF SwitchInv

LEMMA SendMqttMsgStep == ASSUME SwitchInv, SendMqttMsg PROVE SwitchInv'
<1>1. /\ pc = "send" /\ pc' = "clear"
      /\ UNCHANGED <<rollerVars, buttonVars, ticks, historyVars>>
  BY DEF SendMqttMsg, Goto
<1>2. input \notin Button
  BY <1>1 DEF SwitchInv, CallShape, Long, Button
<1>3. TypeOK'
  BY <1>1 DEF SwitchInv, TypeOK, Respond, rollerVars, buttonVars, historyVars
<1>4. CallShape' /\ Stored'
  BY <1>1, <1>2 DEF SwitchInv, CallShape, Stored, Started, Setup, Starting, Stopping, Drawn,
                    rollerVars, buttonVars, historyVars
<1>5. Delaying' /\ Lasting' /\ Armed' /\ rollerTimer' <= RollerTimeout
  BY <1>1 DEF SwitchInv, Delaying, Lasting, Armed, Started, Setup, rollerVars, historyVars
<1> QED
  BY <1>3, <1>4, <1>5 DEF SwitchInv

LEMMA ClearStep == ASSUME SwitchInv, Clear PROVE SwitchInv'
<1>1. /\ pc = "clear" /\ pc' = "loop" /\ input' = "none"
      /\ UNCHANGED <<rollerVars, buttonTimer, pressed, new, last, ticks, historyVars>>
  BY DEF Clear, Goto
<1>2. TypeOK'
  BY <1>1 DEF SwitchInv, TypeOK, Input, rollerVars, historyVars
<1>3. CallShape' /\ Stored'
  BY <1>1 DEF SwitchInv, CallShape, Stored, Started, Setup, Starting, Stopping, Drawn,
              rollerVars, historyVars
<1>4. Delaying' /\ Lasting' /\ Armed' /\ rollerTimer' <= RollerTimeout
  BY <1>1 DEF SwitchInv, Delaying, Lasting, Armed, Started, Setup, rollerVars, historyVars
<1> QED
  BY <1>2, <1>3, <1>4 DEF SwitchInv
-----------------------------------------------------------------------------
(* The interrupt, in the three outcomes of ProcessRelayDelay().            *)
Follows == current = target' /\ rollerTimer' = Decremented(rollerTimer)
             /\ UNCHANGED <<current, relays, relayCount>>
Counts  == current # target' /\ relayCount < RelayDelay /\ relayCount' = relayCount + 1
             /\ rollerTimer' = Decremented(rollerTimer) /\ UNCHANGED <<current, relays>>
Draws   == current # target' /\ relayCount' = 0 /\ current' = target'
             /\ relays' = Drawn(target') /\ rollerTimer' = RunTime(target')

(* What the cases below need to know of a tick: no run expires between the *)
(* store of its time-out and the end of the call that stores it.           *)
LEMMA TickShape ==
  ASSUME SwitchInv, Tick
  PROVE  /\ Follows \/ Counts \/ Draws
         /\ IF rollerTimer = 1 THEN target' = "stop" ELSE target' = target
         /\ target' \in RollerState \ {"none"}
         /\ UNCHANGED <<pressed, new, last, input, pc, was>>
         /\ pc \in Setup \union Respond => ticks < HandlerTicks /\ ticks' = ticks + 1
         /\ pc \notin Setup \union Respond => ticks' = 0
         /\ age' \in {age + 1, MaxRun} /\ age' <= age + 1
         /\ IF target' # target THEN lag' = 1
            ELSE IF lag < LastCount THEN lag' = lag + 1 ELSE lag' = LastCount
         /\ pc = "clear" /\ input \in Button /\ was = "stop" => rollerTimer # 1
<1> USE Constants
<1>1. /\ age \in 0 .. MaxRun /\ lag \in 0 .. LastCount /\ relayCount \in 0 .. RelayDelay
      /\ rollerTimer \in Nat /\ ticks \in 0 .. HandlerTicks
      /\ target \in RollerState \ {"none"} /\ MaxRun \in Nat
  BY DEF SwitchInv, TypeOK
<1>2. Follows \/ Counts \/ Draws
  BY <1>1 DEF Tick, ProcessRelayDelay, Counted, Follows, Counts, Draws
<1>3. /\ IF rollerTimer = 1 THEN target' = "stop" ELSE target' = target
      /\ target' \in RollerState \ {"none"}
  BY <1>1 DEF Tick, Expires, RollerState
<1>4. /\ UNCHANGED <<pressed, new, last, input, pc, was>>
      /\ pc \in Setup \union Respond => ticks < HandlerTicks /\ ticks' = ticks + 1
      /\ pc \notin Setup \union Respond => ticks' = 0
  BY DEF Tick
<1>5. age' \in {age + 1, MaxRun} /\ age' <= age + 1
  BY <1>1 DEF Tick
<1>6. IF target' # target THEN lag' = 1
      ELSE IF lag < LastCount THEN lag' = lag + 1 ELSE lag' = LastCount
  BY DEF Tick
<1>7. ASSUME pc = "clear", input \in Button, was = "stop" PROVE rollerTimer # 1
  <2>1. ticks < HandlerTicks
    BY <1>4, <1>7 DEF Respond
  <2>2. rollerTimer = 0 \/ rollerTimer \in Low(RollerTimeout) - ticks .. RollerTimeout
    BY <1>7 DEF SwitchInv, Stored, Cleared
  <2> QED
    BY <1>1, <2>1, <2>2
<1> QED
  BY <1>2, <1>3, <1>4, <1>5, <1>6, <1>7

LEMMA TickType == ASSUME SwitchInv, Tick PROVE TypeOK' /\ rollerTimer' <= RollerTimeout
<1> USE Constants
<1>1. /\ age \in 0 .. MaxRun /\ lag \in 0 .. LastCount /\ relayCount \in 0 .. RelayDelay
      /\ rollerTimer \in 0 .. RollerTimeout /\ ticks \in 0 .. HandlerTicks
      /\ current \in RollerState /\ relays \subseteq Button
      /\ buttonTimer \in 0 .. ButtonTimeout /\ MaxRun \in Nat
  BY DEF SwitchInv, TypeOK
<1>2. /\ Follows \/ Counts \/ Draws
      /\ target' \in RollerState \ {"none"}
      /\ UNCHANGED <<pressed, new, last, input, pc, was>>
  BY TickShape
<1>3. rollerTimer' \in 0 .. RollerTimeout
  BY <1>1, <1>2 DEF Follows, Counts, Draws, Decremented, RunTime
<1>4. relayCount' \in 0 .. RelayDelay
  BY <1>1, <1>2 DEF Follows, Counts, Draws
<1>5. current' \in RollerState /\ relays' \subseteq Button
  BY <1>1, <1>2 DEF Follows, Counts, Draws, Drawn, RollerState
<1>6. buttonTimer' \in 0 .. ButtonTimeout
  BY <1>1 DEF Tick, Decremented
<1>7. ticks' \in 0 .. HandlerTicks
  BY <1>1, TickShape
<1>8. age' \in 0 .. MaxRun
  BY <1>1 DEF Tick
<1>9. lag' \in 0 .. LastCount
  BY <1>1, TickShape
<1>10. TypeOK'
  BY <1>2, <1>3, <1>4, <1>5, <1>6, <1>7, <1>8, <1>9 DEF SwitchInv, TypeOK
<1> QED
  BY <1>3, <1>10

LEMMA TickCallShape == ASSUME SwitchInv, Tick PROVE CallShape'
<1>1. /\ Follows \/ Counts \/ Draws
      /\ IF rollerTimer = 1 THEN target' = "stop" ELSE target' = target
      /\ target' \in RollerState \ {"none"}
      /\ pc' = pc /\ input' = input /\ was' = was
      /\ pc = "clear" /\ input \in Button /\ was = "stop" => rollerTimer # 1
  BY TickShape
<1>2. target = "stop" => target' = "stop"
  BY <1>1
<1>3. pc \in Setup => target' = "stop" /\ rollerTimer' = 0
  BY <1>1, <1>2 DEF SwitchInv, CallShape, Follows, Counts, Draws, Decremented, RunTime
<1>4. Started => current' # "none" /\ relays' = Drawn(current')
  BY <1>1 DEF SwitchInv, CallShape, Follows, Counts, Draws
<1> QED
  BY <1>1, <1>2, <1>3, <1>4 DEF SwitchInv, CallShape, Started

LEMMA TickDelaying == ASSUME SwitchInv, Tick PROVE Delaying'
<1> USE Constants
<1>1. CASE Counts
  BY <1>1, TickShape DEF SwitchInv, TypeOK, Delaying, Counts
<1>2. CASE Follows \/ Draws
  BY <1>2 DEF Delaying, Follows, Draws
<1> QED
  BY <1>1, <1>2, TickShape

(* A tick takes one from the low byte, which cannot be 0 yet; or relays    *)
(* that follow an earlier "stop" clear the timer.                          *)
LEMMA TickStored == ASSUME SwitchInv, Tick PROVE Stored'
<1> USE Constants
<1>1. /\ Follows \/ Counts \/ Draws
      /\ IF rollerTimer = 1 THEN target' = "stop" ELSE target' = target
      /\ pc' = pc /\ input' = input /\ was' = was
      /\ pc = "clear" /\ input \in Button /\ was = "stop" => rollerTimer # 1
  BY TickShape
<1>2. rollerTimer \in Nat /\ rollerTimer <= RollerTimeout /\ ticks \in 0 .. HandlerTicks
  BY DEF SwitchInv, TypeOK
<1>3. ASSUME pc = "startHigh"
      PROVE  Cleared' \/ Low(rollerTimer') \in Low(RollerTimeout) - ticks' .. Low(RollerTimeout)
  <2>1. ticks < HandlerTicks /\ ticks' = ticks + 1 /\ target' = "stop" /\ input \in Button
    BY <1>1, <1>3, TickShape DEF Respond, SwitchInv, CallShape, Starting
  <2>2. CASE Draws
    BY <1>1, <2>1, <2>2 DEF Draws, RunTime, Cleared, Button
  <2>3. CASE (Follows \/ Counts) /\ Cleared
    BY <1>1, <2>3 DEF Follows, Counts, Decremented, Cleared
  <2>4. CASE (Follows \/ Counts) /\ Low(rollerTimer) \in Low(RollerTimeout) - ticks .. Low(RollerTimeout)
    <3>1. Low(rollerTimer) \in Nat /\ Low(0) = 0 /\ Low(rollerTimer) > 0
      <4>1. Low(rollerTimer) \in Nat /\ Low(0) \in Nat /\ 0 = High(0) + Low(0) /\ High(0) \in Nat
        BY <1>2, Parts
      <4> QED
        BY <1>2, <2>1, <2>4, <4>1
    <3>2. rollerTimer' = rollerTimer - 1
      BY <1>2, <2>4, <3>1 DEF Follows, Counts, Decremented
    <3>3. Low(rollerTimer') = Low(rollerTimer) - 1
      BY <1>2, <3>1, <3>2, Parts
    <3> QED
      BY <1>2, <2>1, <2>4, <3>1, <3>3
  <2> QED
    BY <1>1, <1>3, <2>2, <2>3, <2>4 DEF SwitchInv, Stored
<1>4. ASSUME pc = "move" \/ (pc = "clear" /\ input \in Button /\ was = "stop")
      PROVE  Cleared' \/ rollerTimer' \in Low(RollerTimeout) - ticks' .. RollerTimeout
  <2>1. ticks < HandlerTicks /\ ticks' = ticks + 1 /\ input \in Button
    BY <1>1, <1>4, TickShape DEF Respond, SwitchInv, CallShape, Starting
  <2>2. target' \in {"stop", input}
    BY <1>1, <1>4 DEF SwitchInv, CallShape, Starting
  <2>3. CASE Draws
    BY <1>1, <1>2, <2>1, <2>2, <2>3 DEF Draws, RunTime, Cleared, Button
  <2>4. CASE (Follows \/ Counts) /\ Cleared
    BY <1>1, <2>4 DEF Follows, Counts, Decremented, Cleared
  <2>5. CASE (Follows \/ Counts) /\ rollerTimer \in Low(RollerTimeout) - ticks .. RollerTimeout
    BY <1>2, <2>1, <2>5 DEF Follows, Counts, Decremented
  <2> QED
    BY <1>1, <1>4, <2>3, <2>4, <2>5 DEF SwitchInv, Stored
<1> QED
  BY <1>1, <1>3, <1>4 DEF Stored

LEMMA TickLasting == ASSUME SwitchInv, Tick PROVE Lasting'
<1>0. RollerTimeout \in Nat /\ LastCount \in Nat /\ LastCount = RelayDelay + 1 /\ RelayDelay \in Nat
  BY Constants
<1>1. /\ Follows \/ Counts \/ Draws
      /\ IF rollerTimer = 1 THEN target' = "stop" ELSE target' = target
      /\ pc' = pc /\ age' <= age + 1
      /\ IF target' # target THEN lag' = 1
         ELSE IF lag < LastCount THEN lag' = lag + 1 ELSE lag' = LastCount
  BY TickShape
<1>2. /\ age \in Nat /\ lag \in 0 .. LastCount /\ relayCount \in 0 .. RelayDelay
      /\ rollerTimer \in Nat /\ age' \in Nat /\ rollerTimer' \in Nat
  BY Constants, TickType DEF SwitchInv, TypeOK
<1> SUFFICES ASSUME Started PROVE Lasting'
  BY <1>1 DEF Lasting, Started
<1>3. CASE target' # "stop"
  <2>1. target' = target /\ rollerTimer # 1 /\ target # "stop"
    BY <1>1, <1>3
  <2>2. CASE Follows
    <3>1. rollerTimer > 0 /\ age + rollerTimer <= RollerTimeout + LastCount
      BY <2>1, <2>2 DEF Follows, SwitchInv, Armed, Lasting
    <3>2. rollerTimer' = rollerTimer - 1 /\ current' = target'
      BY <2>2, <3>1 DEF Follows, Decremented
    <3>3. \A x, y \in Nat : x <= age + 1 /\ y = rollerTimer - 1 => x + y <= RollerTimeout + LastCount
      BY <1>0, <1>2, <3>1
    <3>4. age' + rollerTimer' <= RollerTimeout + LastCount
      BY <1>1, <1>2, <3>2, <3>3
    <3> QED
      BY <1>3, <3>2, <3>4 DEF Lasting
  <2>3. CASE Counts \/ Draws
    <3>1. age <= lag /\ lag <= relayCount
      BY <2>1, <2>3 DEF Counts, Draws, SwitchInv, Delaying, Lasting
    <3>2. CASE Counts
      BY <1>0, <1>1, <1>2, <1>3, <2>1, <3>1, <3>2 DEF Lasting, Counts
    <3>3. CASE Draws
      <4>1. age' <= LastCount /\ rollerTimer' = RollerTimeout /\ current' = target'
        BY <1>0, <1>1, <1>2, <1>3, <3>1, <3>3 DEF Draws, RunTime
      <4>2. \A x \in Nat : x <= LastCount => x + RollerTimeout <= RollerTimeout + LastCount
        BY <1>0
      <4>3. age' + rollerTimer' <= RollerTimeout + LastCount
        BY <1>2, <4>1, <4>2
      <4> QED
        BY <1>3, <4>1, <4>3 DEF Lasting
    <3> QED
      BY <2>3, <3>2, <3>3
  <2> QED
    BY <1>1, <2>2, <2>3
<1>4. CASE target' = "stop"
  <2>1. CASE Follows \/ Draws
    BY <1>4, <2>1 DEF Lasting, Follows, Draws
  <2>2. CASE Counts
    <3>1. current # "stop" /\ relayCount < RelayDelay
      BY <1>4, <2>2 DEF Counts
    <3>2. CASE target = "stop"
      <4>1. age < RollerTimeout + LastCount + lag /\ lag <= relayCount
        BY <3>1, <3>2 DEF SwitchInv, Lasting, Delaying
      <4>2. lag' = lag + 1
        BY <1>0, <1>1, <1>2, <1>4, <3>1, <3>2, <4>1
      <4> QED
        BY <1>0, <1>1, <1>2, <1>4, <4>1, <4>2 DEF Lasting
    <3>3. CASE target # "stop"
      <4>1. rollerTimer = 1 /\ lag' = 1
        BY <1>1, <1>4, <3>3
      <4>2. \/ age + rollerTimer <= RollerTimeout + LastCount
            \/ age <= lag /\ lag <= relayCount
        BY <3>3 DEF SwitchInv, Lasting, Delaying
      <4> QED
        BY <1>0, <1>1, <1>2, <1>4, <3>1, <4>1, <4>2 DEF Lasting
    <3> QED
      BY <3>2, <3>3
  <2> QED
    BY <1>1, <2>1, <2>2
<1> QED
  BY <1>3, <1>4

LEMMA TickArmed == ASSUME SwitchInv, Tick PROVE Armed'
<1> USE Constants
<1>1. /\ Follows \/ Counts \/ Draws
      /\ IF rollerTimer = 1 THEN target' = "stop" ELSE target' = target
      /\ pc' = pc
  BY TickShape
<1>2. rollerTimer \in Nat
  BY DEF SwitchInv, TypeOK
<1>3. CASE Follows
  BY <1>1, <1>2, <1>3 DEF Follows, Decremented, SwitchInv, Armed, Started
<1>4. CASE Counts
  BY <1>4 DEF Counts, Armed
<1>5. CASE Draws
  BY <1>5 DEF Draws, RunTime, Armed
<1> QED
  BY <1>1, <1>3, <1>4, <1>5

LEMMA TickStep == ASSUME SwitchInv, Tick PROVE SwitchInv'
BY TickType, TickCallShape, TickDelaying, TickStored, TickLasting, TickArmed DEF SwitchInv
-----------------------------------------------------------------------------
(* A hand, and a restart.                                                  *)
LEMMA HandStep == ASSUME SwitchInv, Hand PROVE SwitchInv'
<1>1. /\ UNCHANGED <<rollerVars, buttonTimer, new, last, input, pc, ticks, historyVars>>
      /\ pressed' \subseteq Button
  BY DEF Hand, Touch, SwitchInv, TypeOK
<1>2. TypeOK' /\ rollerTimer' <= RollerTimeout
  BY <1>1 DEF SwitchInv, TypeOK, rollerVars, historyVars
<1>3. CallShape' /\ Delaying' /\ Stored' /\ Lasting' /\ Armed'
  BY <1>1 DEF SwitchInv, CallShape, Delaying, Stored, Cleared, Lasting, Armed, Started, Drawn,
              rollerVars, historyVars
<1> QED
  BY <1>2, <1>3 DEF SwitchInv

LEMMA ResetStep == ASSUME SwitchInv, Reset PROVE SwitchInv'
BY Constants
   DEF Reset, SwitchInv, TypeOK, CallShape, Delaying, Stored, Lasting, Armed, Started, Setup,
       Starting, Stopping, RollerState, Button, Input, Check, Respond

LEMMA StutterStep == ASSUME SwitchInv, UNCHANGED vars PROVE SwitchInv'
<1> USE DEF vars, rollerVars, buttonVars, historyVars
<1>1. TypeOK' /\ rollerTimer' <= RollerTimeout
  BY DEF SwitchInv, TypeOK
<1>2. CallShape' /\ Delaying' /\ Stored' /\ Lasting' /\ Armed'
  BY DEF SwitchInv, CallShape, Delaying, Stored, Cleared, Lasting, Armed, Started, Drawn
<1> QED
  BY <1>1, <1>2 DEF SwitchInv

LEMMA SwitchInvNext == SwitchInv /\ [Next]_vars => SwitchInv'
<1> SUFFICES ASSUME SwitchInv, [Next]_vars PROVE SwitchInv'
  OBVIOUS
<1>1. CASE UpOutput \/ DownOutput \/ RollerStop
  BY <1>1, SetupSteps
<1>2. CASE CheckButton
  BY <1>2, CheckButtonSteps
<1>3. CASE SetRollerOutput
  BY <1>3, ObeyStep, SendMqttMsgStep, StartLowStep, StartHighStep, MoveStep, SetStopStep,
     StopTimerSteps, ClearStep DEF SetRollerOutput
<1>4. CASE Tick
  BY <1>4, TickStep
<1>5. CASE Hand
  BY <1>5, HandStep
<1>6. CASE Reset
  BY <1>6, ResetStep
<1>7. CASE UNCHANGED vars
  BY <1>7, StutterStep
<1> QED
  BY <1>1, <1>2, <1>3, <1>4, <1>5, <1>6, <1>7 DEF Next, Main

(* In every reachable state the call of setRollerOutput(), the time-out    *)
(* with its torn stores, the delay of the relays and the run agree.        *)
THEOREM SwitchInvariant == Spec => []SwitchInv
BY SwitchInvInit, SwitchInvNext, PTL DEF Spec

(* Never both relays are on, and the relays follow what is meant within    *)
(* RelayDelay ticks, whatever relayCount an earlier change left behind.    *)
LEMMA RelaysFollowStep == SwitchInv => RelaysFollow
<1> SUFFICES ASSUME SwitchInv, Started PROVE RelaysFollow
  BY DEF RelaysFollow
<1>1. relays = Drawn(current)
  BY DEF SwitchInv, CallShape
<1>2. lag = LastCount => current = target
  BY Constants DEF SwitchInv, TypeOK, Delaying
<1> QED
  BY <1>1, <1>2 DEF RelaysFollow

THEOREM RelaysAreTargets == Spec => []RelaysFollow
BY SwitchInvariant, RelaysFollowStep, PTL

(* A blind that has run as long as a time-out and two delays is off.       *)
LEMMA RunBoundStep == SwitchInv => RunBound
<1> USE Constants
<1> SUFFICES ASSUME SwitchInv, Started, age = MaxRun PROVE relays = {}
  BY DEF RunBound
<1>1. /\ lag \in 0 .. LastCount /\ relayCount \in 0 .. RelayDelay /\ rollerTimer \in Nat
      /\ relays = Drawn(current)
      /\ current # target => lag <= relayCount
  BY DEF SwitchInv, TypeOK, CallShape, Delaying
<1>2. target = "stop"
  BY <1>1 DEF SwitchInv, Lasting, Armed
<1>3. current = "stop"
  BY <1>1, <1>2 DEF SwitchInv, Lasting
<1> QED
  BY <1>1, <1>3 DEF Drawn

THEOREM RunBounded == Spec => []RunBound
BY SwitchInvariant, RunBoundStep, PTL

(* A moving blind that is meant to move has run time left, torn stores and *)
(* all.                                                                    *)
THEOREM SwitchArmed == Spec => []Armed
BY SwitchInvariant, PTL DEF SwitchInv

THEOREM SwitchTypeCorrect == Spec => []TypeOK
BY SwitchInvariant, PTL DEF SwitchInv

(* A short press stops a blind that was meant to move, and starts any      *)
(* other, wherever the interrupts of the call fall.                        *)
LEMMA TogglesStep ==
  SwitchInv /\ [Next]_vars =>
    [pc = "clear" /\ pc' = "loop" /\ input \in Button =>
       target = IF was = "stop" THEN input ELSE "stop"]_vars
BY DEF SwitchInv, CallShape

THEOREM PressToggles == Spec => Toggles
BY SwitchInvariant, TogglesStep, PTL DEF Spec, Toggles
-----------------------------------------------------------------------------
(***************************************************************************)
(* How many runs the buttons may still start when no hand moves any more:  *)
(* the part of EventuallyStops that does not need fairness; RunBound says  *)
(* how long each may be.                                                   *)
(***************************************************************************)
(* CheckButton() has read the button, or has judged it, in this pass.      *)
HasRead(b)   == pc \in {"judgeUp", "judgeDown", "judgeLong"} \/ (pc = "readDown" /\ b = "up")
HasJudged(b) == pc = "judgeLong" \/ (pc = "judgeDown" /\ b = "up")

(* The sample of the button that is judged next, and the one it is         *)
(* compared with.                                                          *)
Sampled(b)  == IF HasRead(b) /\ ~HasJudged(b) THEN b \in new ELSE b \in pressed
Compared(b) == IF HasJudged(b) THEN b \in new ELSE b \in last

(* Its release is still to be seen: when it is judged next, or the time    *)
(* after, when it has been let go since it was read.                       *)
ToRelease(b) == IF Sampled(b) THEN b \notin pressed ELSE Compared(b)

ToObey == input \in Button \union {"both"} /\ pc # "clear"

Count(condition) == IF condition THEN 1 ELSE 0

PressesLeft == Count(ToRelease("up")) + Count(ToRelease("down")) + Count(ToObey)

(* No step but a hand's adds to them, and every start uses one up.         *)
PressesRunOut ==
  [][~Hand => /\ PressesLeft' <= PressesLeft
              /\ Move => PressesLeft' < PressesLeft]_vars

(* No step but a hand's brings a release on; one that is judged becomes an *)
(* input; a start uses one up.                                             *)
LEMMA PressesStep ==
  ASSUME SwitchInv, Next, ~Hand
  PROVE  /\ ToRelease("up")' => ToRelease("up")
         /\ ToRelease("down")' => ToRelease("down")
         /\ ToObey' => \/ ToObey
                       \/ ToRelease("up") /\ ~ToRelease("up")'
                       \/ ToRelease("down") /\ ~ToRelease("down")'
         /\ Move => ToObey /\ ~ToObey'
<1> USE DEF ToRelease, ToObey, Sampled, Compared, HasRead, HasJudged, Goto, Button,
            buttonVars, SwitchInv, TypeOK
<1>1. CASE UpOutput \/ DownOutput \/ RollerStop
  BY <1>1 DEF UpOutput, DownOutput, RollerStop, Move
<1>2. CASE Loop \/ ReadUp \/ ReadDown
  BY <1>2 DEF Loop, ReadUp, ReadDown, Read, Move
<1>3. CASE JudgeUp
  BY <1>3 DEF JudgeUp, Judge, Move
<1>4. CASE JudgeDown
  BY <1>4 DEF JudgeDown, Judge, Move
<1>5. CASE JudgeLong
  BY <1>5 DEF JudgeLong, LongInput, Move
<1>6. CASE Obey \/ SendMqttMsg \/ SetStop \/ Clear
  BY <1>6 DEF Obey, SendMqttMsg, SetStop, Clear, Move
<1>7. CASE StartLow \/ StartHigh \/ StopLow \/ StopHigh
  BY <1>7 DEF StartLow, StartHigh, StopLow, StopHigh, Store, Move
<1>8. CASE Move
  BY <1>8 DEF Move, CallShape, Starting
<1>9. CASE Tick
  BY <1>9 DEF Tick, Move
<1>10. CASE Reset
  BY <1>10 DEF Reset, Move
<1> HIDE DEF ToRelease, ToObey, Goto, SwitchInv
<1> QED
  BY <1>1, <1>2, <1>3, <1>4, <1>5, <1>6, <1>7, <1>8, <1>9, <1>10
     DEF Next, Main, CheckButton, SetRollerOutput

(* Without a hand on the buttons no more than three runs are started, a    *)
(* held button, a bounce and the interrupt whatever they do.               *)
THEOREM RunsAreNumbered == Spec => PressesRunOut
<1>1. SwitchInv /\ [Next]_vars =>
        [~Hand => PressesLeft' <= PressesLeft /\ (Move => PressesLeft' < PressesLeft)]_vars
  <2> SUFFICES ASSUME SwitchInv, Next, ~Hand
               PROVE  PressesLeft' <= PressesLeft /\ (Move => PressesLeft' < PressesLeft)
    OBVIOUS
  <2> QED
    BY PressesStep DEF PressesLeft, Count
<1> QED
  BY <1>1, SwitchInvariant, PTL DEF Spec, PressesRunOut
=============================================================================
