--------------------------- MODULE RollerController ---------------------------
(***************************************************************************)
(* The roller controllers of the house (garage: 2 rollers, attic: 5): one  *)
(* main loop that turns MQTT messages into calls of class roller and stops *)
(* every roller while the broker is out of reach, over the timer interrupt *)
(* of module Roller.                                                       *)
(*                                                                         *)
(* main is the position in setup()/loop(); i is the index of whichever     *)
(* "for (i = 0; i < ROLLER_COUNT; ++i)" is running (from 1 here).          *)
(***************************************************************************)
EXTENDS Roller

CONSTANTS
  ROLLER_COUNT,
  RollerTab,        \* the table of rollers, in the order of the loops
  Topics,           \* topics the controller subscribes to
  TopicOf,          \* a roller's own topic (several rollers may share one)
  MQTT_ALL_ROLETS   \* the topic that commands every roller

ASSUME ControllerAssumption ==
  /\ ROLLER_COUNT \in Nat
  /\ RollerTab \in [1 .. ROLLER_COUNT -> Rollers]
  /\ \A r \in Rollers : \E k \in 1 .. ROLLER_COUNT : RollerTab[k] = r
  /\ \A j, k \in 1 .. ROLLER_COUNT : RollerTab[j] = RollerTab[k] => j = k
  /\ MQTT_ALL_ROLETS \in Topics
  /\ TopicOf \in [Rollers -> Topics]

VARIABLES
  main, i,     \* position of the main loop
  topic, cmd,  \* the message in callback(), its payload decoded
  link,        \* client.connected()
  want         \* history: what each roller was last told, by message or loss of link

ctrlVars == <<main, i, topic, cmd, link, want>>
allVars  == <<vars, ctrlVars>>

Main == {"construct", "setup", "loop", "match", "all", "connect", "offline"}
Cmd  == {"up", "down", "stop"}

LoopTypeOK ==
  /\ main \in Main /\ i \in 1 .. ROLLER_COUNT + 1
  /\ topic \in Topics /\ cmd \in Cmd
  /\ link \in BOOLEAN
  /\ want \in [Rollers -> Cmd]

CtrlTypeOK == TypeOK /\ LoopTypeOK

CtrlInit ==
  /\ Init
  /\ main = "construct" /\ i = 1
  /\ topic = MQTT_ALL_ROLETS /\ cmd = "stop"
  /\ link = FALSE
  /\ want = [r \in Rollers |-> "stop"]

-----------------------------------------------------------------------------
Goto(location) == main' = location /\ i' = 1

(* One pass of a "for" over RollerTab; the body goes with RollerTab[i].    *)
Iterate(loop) ==
  /\ main = loop /\ pc = "idle" /\ i <= ROLLER_COUNT
  /\ i' = i + 1
  /\ UNCHANGED <<main, topic, cmd, link, want>>

Exhausted(loop) == main = loop /\ pc = "idle" /\ i > ROLLER_COUNT

(* roller::setState(): the payload picks the method.                       *)
SetState(r) ==
  \/ cmd = "up" /\ Up(r)
  \/ cmd = "down" /\ Down(r)
  \/ cmd = "stop" /\ Stop(r)

-----------------------------------------------------------------------------
(* Global objects are built before setup(), which then makes one attempt   *)
(* to connect and attaches the interrupt whatever came of it.              *)
Build == Iterate("construct") /\ Construct(RollerTab[i])

Built == Exhausted("construct") /\ Goto("setup") /\ UNCHANGED <<vars, topic, cmd, link, want>>

Setup ==
  /\ main = "setup"
  /\ link' \in BOOLEAN
  /\ Goto("loop")
  /\ UNCHANGED <<vars, topic, cmd, want>>

(* Mutant: an unknown payload is passed on as it is.                       *)
MutantDecode(payload) ==
  IF payload = "U" THEN "up" ELSE IF payload = "D" THEN "down" ELSE payload

(* 'U' and 'D' move, any other payload stops.                              *)
Decode(payload) ==
  IF payload = "U" THEN "up" ELSE IF payload = "D" THEN "down" ELSE "stop"

(* client.loop() hands one message to callback().                          *)
Receive(t, payload) ==
  /\ main = "loop" /\ link
  /\ topic' = t /\ cmd' = Decode(payload)
  /\ want' = [r \in Rollers |->
                IF TopicOf[r] = t \/ t = MQTT_ALL_ROLETS THEN Decode(payload) ELSE want[r]]
  /\ Goto("match")
  /\ UNCHANGED <<vars, link>>

(* callback(): first every roller with that topic, in table order ...      *)
MatchTopic(r) ==
  IF TopicOf[r] = topic THEN SetState(r) ELSE UNCHANGED vars

Match == Iterate("match") /\ MatchTopic(RollerTab[i])

(* Mutant: the common topic is not looked at.                              *)
MutantMatched ==
  /\ Exhausted("match")
  /\ Goto("loop")
  /\ UNCHANGED <<vars, topic, cmd, link, want>>

(* ... then all of them when the topic is the common one.                  *)
Matched ==
  /\ Exhausted("match")
  /\ Goto(IF topic = MQTT_ALL_ROLETS THEN "all" ELSE "loop")
  /\ UNCHANGED <<vars, topic, cmd, link, want>>

AllRollerSetState == Iterate("all") /\ SetState(RollerTab[i])

AllDone == Exhausted("all") /\ Goto("loop") /\ UNCHANGED <<vars, topic, cmd, link, want>>

(* Mutant: allRollerOff() starts at the second roller.                     *)
MutantOffline ==
  /\ main = "loop" /\ ~link
  /\ main' = "offline" /\ i' = 2
  /\ UNCHANGED <<vars, topic, cmd, link, want>>

(* Mutant: an attempt is made whether there is a connection or not.        *)
MutantOfflineAnyway ==
  /\ main = "loop"
  /\ \/ Goto("connect")
     \/ ~link /\ Goto("offline")
  /\ UNCHANGED <<vars, topic, cmd, link, want>>

(* The else branch of loop(): maybe an attempt to connect, which blocks    *)
(* the loop while the interrupt goes on, then allRollerOff().  The three   *)
(* seconds between attempts are left open here.                            *)
Offline ==
  /\ main = "loop" /\ ~link
  /\ \/ Goto("connect")
     \/ Goto("offline")
  /\ UNCHANGED <<vars, topic, cmd, link, want>>

(* Mutant: a successful attempt returns before allRollerOff().             *)
MutantMqttConnect ==
  /\ main = "connect"
  /\ link' \in BOOLEAN
  /\ Goto(IF link' THEN "loop" ELSE "offline")
  /\ UNCHANGED <<vars, topic, cmd, want>>

MqttConnect ==
  /\ main = "connect"
  /\ link' \in BOOLEAN
  /\ Goto("offline")
  /\ UNCHANGED <<vars, topic, cmd, want>>

AllRollerOff == Iterate("offline") /\ Stop(RollerTab[i])

OfflineDone ==
  /\ Exhausted("offline")
  /\ Goto("loop")
  /\ want' = [r \in Rollers |-> "stop"]
  /\ UNCHANGED <<vars, topic, cmd, link>>

-----------------------------------------------------------------------------
LinkLost == link /\ link' = FALSE /\ UNCHANGED <<vars, main, i, topic, cmd, want>>

(* Timer1.attachInterrupt() is the end of setup().                         *)
Interrupt == main \notin {"construct", "setup"} /\ Tick /\ UNCHANGED ctrlVars

MethodStep == Step /\ UNCHANGED ctrlVars

PowerCycle ==
  /\ Reset
  /\ Goto("construct") /\ link' = FALSE
  /\ want' = [r \in Rollers |-> "stop"]
  /\ UNCHANGED <<topic, cmd>>

(* What the processor does by itself when it is not interrupted.           *)
Run ==
  \/ Build \/ Built \/ Setup
  \/ Match \/ Matched \/ AllRollerSetState \/ AllDone
  \/ Offline \/ MqttConnect \/ AllRollerOff \/ OfflineDone
  \/ MethodStep

Message == \E t \in Topics, payload \in {"U", "D", "S"} : Receive(t, payload)

CtrlNext == Run \/ Message \/ LinkLost \/ Interrupt \/ PowerCycle

CtrlSpec == CtrlInit /\ [][CtrlNext]_allVars

(* loop() is called again and again, and the timer is periodic.            *)
CtrlFairSpec == CtrlSpec /\ WF_allVars(Run) /\ WF_allVars(Interrupt)

-----------------------------------------------------------------------------
(* Properties *)

(* Whenever loop() is between two passes, every roller does what the last  *)
(* message for it said, in callback() order, or has since timed out; after *)
(* a pass without the broker nothing moves until a new message.            *)
Obeyed(r) ==
  IF want[r] = "stop" THEN PinsOff(r)
  ELSE \/ DriveOf(r) = want[r]
       \/ PinsOff(r) /\ timer[r] = 0
LastMessageWins == main = "loop" => \A r \in Rollers : Obeyed(r)

(* No relay is energised when allRollerOff() has run, although the timer   *)
(* and the reconnect attempt before it raced with it (ino:70-90).          *)
OfflineStops ==
  [][main = "offline" /\ main' = "loop" => \A r \in Rollers : PinsOff(r)]_allVars

(* Losing the broker stops every blind, also when the link is back before  *)
(* the loop has looked at the rollers.                                     *)
LinkLossStops == ~link ~> \A r \in constructed : PinsOff(r)

(* The controller asks no more of its connection than module Link says of  *)
(* it, so that module MqttLink may stand behind client.connected().        *)
LinkState ==
  IF main \in {"construct", "setup"} THEN "setup"
  ELSE IF main = "connect" THEN "trying"
  ELSE IF link THEN "up" ELSE "down"
Broker   == INSTANCE Link WITH state <- LinkState
LinkSpec == Broker!Spec
=============================================================================
