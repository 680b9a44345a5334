------------------------------ MODULE RollerRs485 ------------------------------
(***************************************************************************)
(* The kitchen: class RollerRs485, which moves a blind by a line of text   *)
(* on the serial port, under setup(), loop() and callback() of its         *)
(* controller.  The commands name no blind, every roller has the same      *)
(* line, and so has the debug output, that of class uptime too.  The       *)
(* interrupt (Tick) says "Stop" for a roller whose time is up, wherever    *)
(* main is, in the middle of a line too: then that line and the "Stop" in  *)
(* it are read as one that says nothing, while a second "Stop" of the same *)
(* interrupt has a line of its own.  Rollers are their indices in          *)
(* RollerTab, from 1.                                                      *)
(***************************************************************************)
EXTENDS Integers, FiniteSets

CONSTANTS
  ROLLER_COUNT,
  Topics, TopicOf,         \* TopicOf: m_topic of each roller
  MQTT_ROLLER_ALL, MQTT_DIMMER,
  Timeout, ULongMax,       \* m_roller_timeout; greatest unsigned long
  HandlerTicks             \* most interrupts in one round of calls

Rollers == 1 .. ROLLER_COUNT

(* The program gives every roller the same topic, a call lasts less than a *)
(* time-out of 30 s, and the time-out fits.                                *)
ASSUME Rs485Assumption ==
  /\ ROLLER_COUNT \in Nat \ {0}
  /\ TopicOf \in [Rollers -> Topics] /\ \A r \in Rollers : TopicOf[r] = TopicOf[1]
  /\ MQTT_ROLLER_ALL \in Topics /\ MQTT_DIMMER \in Topics
  /\ HandlerTicks \in Nat /\ ULongMax \in Nat
  /\ Timeout \in HandlerTicks + 1 .. ULongMax

VARIABLES
  state, timer,            \* m_state, m_timeout_timer
  pc, i,                   \* position of main, and the roller a loop is at
  topic, cmd,              \* of the call: the message's, or those of allRollerOff()
  link, subscribed,        \* client.connected(); topics the broker sends
  busy,                    \* interrupts since the calls began
  torn,                    \* an interrupt has printed into main's line
  said,                    \* the last whole command on the line
  told,                    \* history: nothing was said since that did not get through
  age                      \* history: ticks since the line said to move

rollerVars == <<state, timer>>
loopVars   == <<pc, i, topic, cmd>>
linkVars   == <<link, subscribed>>
lineVars   == <<torn, said, told, age>>
vars       == <<rollerVars, loopVars, linkVars, busy, lineVars>>

Command == {"Up", "Down", "Stop"}
MaxAge  == Timeout + HandlerTicks

TypeOK ==
  /\ state \in [Rollers -> {"Off", "Up", "Down"}]
  /\ timer \in [Rollers -> 0 .. ULongMax]
  /\ pc \in {"setup", "loop", "uptime", "text", "each", "set", "print"} /\ i \in 1 .. ROLLER_COUNT + 1
  /\ topic \in Topics /\ cmd \in Command
  /\ link \in BOOLEAN /\ subscribed \subseteq Topics
  /\ busy \in 0 .. HandlerTicks
  /\ torn \in BOOLEAN /\ said \in Command /\ told \in BOOLEAN /\ age \in 0 .. MaxAge

Init ==
  /\ state = [r \in Rollers |-> "Off"] /\ timer = [r \in Rollers |-> 0]
  /\ pc = "setup" /\ i = 1 /\ topic = MQTT_ROLLER_ALL /\ cmd = "Stop"
  /\ link = FALSE /\ subscribed = {}
  /\ busy = 0
  /\ torn = FALSE /\ said = "Stop" /\ told = TRUE /\ age = 0

-----------------------------------------------------------------------------
Goto(from, to) == pc = from /\ pc' = to

(* sendAllSubscribers()                                                    *)
Subscriptions == {TopicOf[r] : r \in Rollers} \union {MQTT_ROLLER_ALL, MQTT_DIMMER}

MqttConnect ==
  \/ link' = TRUE /\ subscribed' = Subscriptions
  \/ link' = FALSE /\ subscribed' = {}

(* The interrupt is attached when the first attempt to connect is over.    *)
Setup ==
  /\ Goto("setup", "loop")
  /\ MqttConnect
  /\ UNCHANGED <<rollerVars, i, topic, cmd, busy, lineVars>>

(* callback() prints the message before it looks at it.                    *)
Receive(t, payload) ==
  /\ link /\ t \in subscribed
  /\ Goto("loop", "text")
  /\ topic' = t /\ cmd' = payload
  /\ UNCHANGED <<rollerVars, i, linkVars, busy, lineVars>>

(* loop() without a link prints that, and goes on to allRollerOff().       *)
Offline ==
  /\ ~link
  /\ Goto("loop", "text")
  /\ topic' = MQTT_ROLLER_ALL /\ cmd' = "Stop"
  /\ UNCHANGED <<rollerVars, i, linkVars, busy, lineVars>>

(* With a link loop() ends in getUptime() and sendIfChanged(), which print *)
(* at the first pass and when a minute is over.                            *)
Uptime ==
  /\ \/ link /\ Goto("loop", "uptime") /\ UNCHANGED torn
     \/ Goto("uptime", "loop") /\ torn' = FALSE
  /\ UNCHANGED <<rollerVars, i, topic, cmd, linkVars, busy, said, told, age>>

(* The text is out.  Without a link main may try for a new one, which      *)
(* prints as well.                                                         *)
Text ==
  /\ Goto("text", "each") /\ i' = 1 /\ torn' = FALSE
  /\ UNCHANGED linkVars \/ (~link /\ MqttConnect)
  /\ UNCHANGED <<rollerVars, topic, cmd, busy, said, told, age>>

-----------------------------------------------------------------------------
(* Mutant: a blind that does not move is not told to stop.                 *)
MutantConcerned(r) ==
  topic \in {MQTT_ROLLER_ALL, TopicOf[r]} /\ (cmd = "Stop" => state[r] # "Off")

Concerned(r) == topic \in {MQTT_ROLLER_ALL, TopicOf[r]}

Skip ==
  /\ pc = "each" /\ i <= ROLLER_COUNT /\ ~Concerned(i)
  /\ i' = i + 1
  /\ UNCHANGED <<rollerVars, pc, topic, cmd, linkVars, busy, lineVars>>

(* up(), down() and stop(): the time-out, ...                              *)
Call ==
  /\ i <= ROLLER_COUNT /\ Concerned(i)
  /\ Goto("each", "set")
  /\ timer' = (IF cmd = "Stop" THEN timer ELSE [timer EXCEPT ![i] = Timeout])
  /\ UNCHANGED <<state, i, topic, cmd, linkVars, busy, lineVars>>

(* ... the state, ...                                                      *)
Set ==
  /\ Goto("set", "print")
  /\ state' = [state EXCEPT ![i] = IF cmd = "Stop" THEN "Off" ELSE cmd]
  /\ UNCHANGED <<timer, i, topic, cmd, linkVars, busy, lineVars>>

(* ... and the line.                                                       *)
Println ==
  /\ Goto("print", "each") /\ i' = i + 1 /\ torn' = FALSE
  /\ told' = ~torn
  /\ IF torn THEN UNCHANGED <<said, age>> ELSE said' = cmd /\ age' = 0
  /\ UNCHANGED <<rollerVars, topic, cmd, linkVars, busy>>

Done ==
  /\ i > ROLLER_COUNT
  /\ Goto("each", "loop")
  /\ i' = 1 /\ busy' = 0
  /\ UNCHANGED <<rollerVars, topic, cmd, linkVars, lineVars>>

-----------------------------------------------------------------------------
Counted(r) == (timer[r] - 1) % (ULongMax + 1)

(* Mutant: the time-out is never below 0.                                  *)
MutantExpired(r) == state[r] # "Off" /\ Counted(r) < 0

(* tick() stops a moving roller whose time is up.                          *)
Expired(r) == state[r] # "Off" /\ Counted(r) = 0

(* Mutant: "Stop" waits until no blind of the line moves.                  *)
MutantStops(rs) ==
  IF \E r \in Rollers \ rs : state[r] # "Off" THEN UNCHANGED <<torn, said, told>>
  ELSE said' = "Stop" /\ told' = TRUE /\ UNCHANGED torn

(* stop() of the rollers rs, each with a line: the first of them may fall  *)
(* into a line of main's.                                                  *)
Stops(rs) ==
  \/ said' = "Stop" /\ told' = TRUE /\ UNCHANGED torn
  \/ /\ pc \in {"uptime", "text", "print"} /\ torn' = TRUE
     /\ IF Cardinality(rs) > 1 THEN said' = "Stop" /\ told' = TRUE
        ELSE told' = FALSE /\ UNCHANGED said

(* allRollerCheckTimeout()                                                 *)
Tick ==
  LET over == {r \in Rollers : Expired(r)} IN
  /\ pc # "setup"
  /\ IF pc \in {"each", "set", "print"} THEN busy < HandlerTicks /\ busy' = busy + 1
     ELSE UNCHANGED busy
  /\ state' = [r \in Rollers |-> IF r \in over THEN "Off" ELSE state[r]]
  /\ timer' = [r \in Rollers |-> IF state[r] # "Off" THEN Counted(r) ELSE timer[r]]
  /\ IF over = {} THEN UNCHANGED <<torn, said, told>> ELSE Stops(over)
  /\ age' = (IF said = "Stop" \/ age = MaxAge THEN age ELSE age + 1)
  /\ UNCHANGED <<loopVars, linkVars>>

LinkLost ==
  /\ pc = "loop" /\ link
  /\ link' = FALSE /\ subscribed' = {}
  /\ UNCHANGED <<rollerVars, loopVars, busy, lineVars>>

(* Power or watchdog.  The blinds go on with what they were told last.     *)
Restart ==
  /\ state' = [r \in Rollers |-> "Off"] /\ timer' = [r \in Rollers |-> 0]
  /\ pc' = "setup" /\ i' = 1 /\ topic' = MQTT_ROLLER_ALL /\ cmd' = "Stop"
  /\ link' = FALSE /\ subscribed' = {}
  /\ busy' = 0
  /\ torn' = FALSE /\ told' = (said = "Stop") /\ UNCHANGED <<said, age>>

Main ==
  \/ Setup \/ Uptime \/ Offline \/ Text
  \/ Call \/ Set \/ Println \/ Skip \/ Done

Next ==
  \/ Main \/ Tick \/ LinkLost \/ Restart
  \/ \E t \in Topics, payload \in Command : Receive(t, payload)

Spec == Init /\ [][Next]_vars

(* The processor runs.                                                     *)
FairSpec == Spec /\ WF_vars(Main)

-----------------------------------------------------------------------------
(* Properties *)

(* Between calls the line has last said what the rollers do, though up to  *)
(* ROLLER_COUNT of them and the interrupt all speak on it: it says to move *)
(* only while all move that way, and to stop when all have stopped or will *)
(* as soon as their interrupts come.  This holds until an interrupt spoils *)
(* a line with a "Stop" that has no second one behind it (told), and from  *)
(* the next whole line on.                                                 *)
LineTells ==
  pc = "loop" /\ told =>
    \A r \in Rollers :
      IF said = "Stop" THEN state[r] = "Off" \/ timer[r] <= HandlerTicks ELSE state[r] = said

(* "MAX_ROLLER_TIMEOUT 30  // in secunds": a blind told to move is told to *)
(* stop in that time, except after a restart or when the only "Stop" fell  *)
(* into another line: a message, a lost link or the uptime.                *)
MoveEnds == told /\ said # "Stop" => age < Timeout + HandlerTicks

(* When loop() finds the link gone every blind is told to stop, unless a   *)
(* restart comes first: also those that the controller does not know to    *)
(* move, which a restart or a lost "Stop" has left moving.                 *)
OfflineSays ==
  pc = "loop" /\ ~link ~>
    pc = "setup" \/ (said = "Stop" /\ \A r \in Rollers : state[r] = "Off")
=============================================================================
